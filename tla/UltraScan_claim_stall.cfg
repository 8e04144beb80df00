CONSTANTS
  NumHosts = 3
  NumPorts = 1
  TrynoCap = 0
  HostCwnd = 1
  GroupCwnd = 1
  Scans = {"raw"}
  HostTimeout = TRUE
  HostPingGap = 10
  GroupPingGap = 20
  IgnoreRst = FALSE
SPECIFICATION FairSpec
PROPERTIES Termination
