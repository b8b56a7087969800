\* Claims of two escrows over a connection that breaks once.
CONSTANTS
  h1 = h1
  h2 = h2
  c1 = c1
  c2 = c2
  c3 = c3
  t1 = t1
  Hashes <- MCHashes
  Txids <- MCTxids
  NoHash = NoHash
  NoTxid = NoTxid
  NoClaim = NoClaim
  AiResponse = AiResponse
  Blocks <- MCBlocksRedOnce
  Reward <- MCReward
  Window = 1
  Margin = 1
  Fee = 1
  OrphanCooldown = 3
  SeqLockCooldown = 1
  MaxOrphanRetries = 2
  CompactEvery = 1
  DiskMayFail = FALSE
  MaxReconnects = 1
  MaxRejections = 2
  LastStart = 5
SPECIFICATION ClaimsSpec
INVARIANTS ClaimedUnlessCrossed AnswerToCome GivenUpForCause
PROPERTY EscrowResolved
