CONSTANTS
  NumHosts = 1
  NumPorts = 3
  TrynoCap = 2
  HostCwnd = 2
  GroupCwnd = 2
  Scans = {"raw", "connect", "ping", "arp"}
  HostTimeout = TRUE
  HostPingGap = 8
  GroupPingGap = 20
  IgnoreRst = FALSE
SPECIFICATION Spec
INVARIANTS TypeOK TrynoWithinLimit AssertsHold RetryStackSorted OnePendingAttempt
PROPERTIES KeepsPromise
