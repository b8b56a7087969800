\* An address of another network: the devfund is off.
CONSTANTS
  plain = plain
  asked = asked
  other = other
  odd = odd
  t1 = t1
  t2 = t2
  broken = broken
  nameless = nameless
  WordBits = 4
  ByteBits = 1
  BaseMantissa = 3
  BaseExponent = 13
  Difficulties <- MCDifficulties
  Extranonces <- MCExtranonces
  Jobs <- MCJobs
  Tasks <- MCTasks
  TaskOf <- MCTaskOf
  Malformed <- MCMalformed
  Unnamed <- MCUnnamed
  Served <- MCServed
  DevfundPercent = 0
  CtrRange = 3
  MaxId = 3
  MaxExits = 0
  None = None
SPECIFICATION Spec
PROPERTIES KeepsListening
