\* AiResponses and claims overlap on the connection.
CONSTANTS
  h1 = h1
  h2 = h2
  c1 = c1
  c2 = c2
  c3 = c3
  t1 = t1
  Hashes <- MCHashes
  Txids <- MCTxids
  NoHash = NoHash
  NoTxid = NoTxid
  NoClaim = NoClaim
  AiResponse = AiResponse
  Blocks <- MCBlocks
  Reward <- MCFreeReward
  Window = 1
  Margin = 1
  Fee = 1
  OrphanCooldown = 2
  SeqLockCooldown = 1
  MaxOrphanRetries = 2
  CompactEvery = 3
  DiskMayFail = FALSE
  MaxReconnects = 0
  MaxRejections = 0
  LastStart = 5
SPECIFICATION ClaimsSpec
INVARIANT ClaimedMeansSpent
