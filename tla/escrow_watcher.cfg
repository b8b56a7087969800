\* The watcher against any caller, with a disk that may fail.
CONSTANTS
  h1 = h1
  h2 = h2
  c1 = c1
  c2 = c2
  t1 = t1
  t2 = t2
  Hashes <- MCHashes
  Txids <- MCTxids
  NoHash = NoHash
  NoTxid = NoTxid
  NoClaim = NoClaim
  Blocks <- MCBlocks
  Reward <- MCReward
  Window = 1
  Margin = 1
  Fee = 1
  OrphanCooldown = 1
  SeqLockCooldown = 1
  MaxOrphanRetries = 1
  CompactEvery = 2
  DiskMayFail = TRUE
SPECIFICATION Spec
INVARIANTS TypeOK OneEntryPerOutpoint IndexesExact
