CONSTANTS
  NumHosts = 2
  NumPorts = 1
  TrynoCap = 1
  HostCwnd = 2
  GroupCwnd = 1
  Scans = {"raw", "connect", "ping", "arp", "connect_ping"}
  HostTimeout = TRUE
  HostPingGap = 9
  GroupPingGap = 2
  IgnoreRst = TRUE
SPECIFICATION Spec
INVARIANTS ProbeAccounting IteratorsValid CompletedHostsQuiet
PROPERTIES KeepsPromise
