\* Jobs with tasks of every kind, while the devfund has its turns.
CONSTANTS
  plain = plain
  asked = asked
  other = other
  odd = odd
  t1 = t1
  t2 = t2
  broken = broken
  nameless = nameless
  WordBits = 4
  ByteBits = 1
  BaseMantissa = 3
  BaseExponent = 13
  Difficulties <- MCDifficulties
  Extranonces <- MCExtranonces
  Jobs <- MCJobs
  Tasks <- MCTasks
  TaskOf <- MCTaskOf
  Malformed <- MCMalformed
  Unnamed <- MCUnnamed
  Served <- MCServed
  DevfundPercent = 1
  CtrRange = 3
  MaxId = 4
  MaxExits = 1
  None = None
SPECIFICATION Spec
INVARIANTS TypeOK SharesAccounted CidBelongsToJob FlagsExact SettingsExact
PROPERTIES KeepsListening
