CONSTANTS
  NumHosts = 2
  Service <- TwoHosts
  Probes <- SomeProbes
  NullServices = {"http"}
  SslNames = {"ssl"}
  Inner <- InnerNames
  Excluded <- PrinterPorts
  Intensity = 7
  Parallelism = 2
  MaxResp = 2
  HostTimeout = TRUE
SPECIFICATION FairSpec
INVARIANTS RequestsMatchLists ClockCoversWork NoMatchIsExhaustive EveryServiceFinished
PROPERTIES Termination
