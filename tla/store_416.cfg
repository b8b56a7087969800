\* One machine whose weights are already there, and a gateway that honours ranges.
CONSTANTS
  tokenizer = tokenizer
  gguf = gguf
  Unknown = Unknown
  CheckpointInterval = 3
  ChunkSize = 2
  WalkSteps = 4
  Openings = 1
  Seeds <- MCSeeds
  Transition <- MCTransition
  PowValue <- MCPowValue
  WordBits = 5
  Samples <- MCSamples
  Stray <- MCStray
  SmallFiles <- MCSmallFiles
  Weights <- MCWeights
  Size <- MCSize
  MaxAttempts = 2
  Totals <- MCKnown
  IgnoresRanges = FALSE
  Machines <- MCPlainMachine
  Daas <- MCDaas
  Targets <- MCTargets
  ByteBase = 7
  MaxCrashes = 0
SPECIFICATION Spec
PROPERTY CompleteFileDetected
