CONSTANTS
  NumHosts = 1
  MaxProbes = 2
  MaxSends = 3
  MaxTryno = 1
  MaxTime = 2
  Unit = 4
  MinParallelism = 0
  MaxParallelism = 3
  TimingLevel = 3
  ScanDelay = 10
  MaxDelays = {5, 1000}
  FirstDelay = 5
  ManyDrops = 0
  FewProbes = 2
  MinRtt = 100
  InitialRtt = 1000
  MaxRtt = 10000
  Deltas <- Samples
  ArpScan = FALSE
  PingScan = FALSE
SPECIFICATION Spec
INVARIANTS WindowsStayOpen EstimateWithinSamples
PROPERTIES OneDecreasePerBatch DelayGrowsToMax
