CONSTANTS
  NumHosts = 3
  NumPorts = 1
  TrynoCap = 0
  HostCwnd = 1
  GroupCwnd = 1
  Scans = {"raw"}
  HostTimeout = FALSE
  HostPingGap = 10
  GroupPingGap = 1
  IgnoreRst = FALSE
SPECIFICATION FairSpec
PROPERTIES Termination
