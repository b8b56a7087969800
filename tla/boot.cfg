\* Machines of every kind, two crashes.
CONSTANTS
  tokenizer = tokenizer
  gguf = gguf
  Unknown = Unknown
  CheckpointInterval = 3
  ChunkSize = 2
  WalkSteps = 4
  Openings = 1
  Seeds <- MCSeeds
  Transition <- MCTransition
  PowValue <- MCPowValue
  WordBits = 5
  Samples <- MCSamples
  Stray <- MCStray
  SmallFiles <- MCSmallFiles
  Weights <- MCWeights
  Size <- MCSize
  MaxAttempts = 2
  Totals <- MCTotals
  IgnoresRanges = TRUE
  Machines <- MCMachines
  Daas <- MCDaas
  Targets <- MCTargets
  ByteBase = 7
  MaxCrashes = 2
SPECIFICATION Spec
INVARIANTS TypeOK WeightsWhole IndexExact BlocksAccepted
PROPERTY RecoversUnlessStuck
