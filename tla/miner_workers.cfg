\* A CPU and a GPU, or a GPU alone, whose kernel may be too slow.
CONSTANTS
  c1 = c1
  g1 = g1
  pom = pom
  share1 = share1
  share2 = share2
  CpuWorkers <- MCCpuWorkers
  GpuWorkers <- MCGpuWorkers
  Teams <- MCTeams
  SlowGpus <- MCSlowGpus
  Jobs <- MCJobs
  Full <- MCFull
  Pom <- MCPom
  Extranonce <- MCExtranonce
  None = None
  CloseCommand = CloseCommand
  PollEvery = 2
  MaxCommands = 3
SPECIFICATION Spec
INVARIANTS TypeOK WorksOnLastCommand
PROPERTIES CommandsReachWorkers ClosingEnds
