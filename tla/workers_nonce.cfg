\* Is a share looked for in the range that goes with its job?
CONSTANTS
  c1 = c1
  g1 = g1
  pom = pom
  share1 = share1
  share2 = share2
  CpuWorkers <- MCCpuWorkers
  GpuWorkers <- MCGpuWorkers
  Teams <- MCTeams
  SlowGpus <- MCSlowGpus
  Jobs <- MCShares
  Full <- MCNothing
  Pom <- MCNothing
  Extranonce <- MCExtranonces
  None = None
  CloseCommand = CloseCommand
  PollEvery = 2
  MaxCommands = 3
SPECIFICATION Spec
INVARIANT NonceInSubRange
