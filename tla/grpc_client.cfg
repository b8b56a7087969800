\* Two requests and a challenge on a node that may be alone, with one break.
CONSTANTS
  t1 = t1
  t2 = t2
  p1 = p1
  p2 = p2
  Txs <- MCTxs
  Payloads <- MCPayloads
  PayloadOf <- MCPayloadOf
  Paid <- MCPaid
  Scores <- MCScores
  PomActivation = 3
  MineWhenNotSynced = FALSE
  MaxUnread = 1
  MaxChallenges = 1
  MaxReconnects = 1
  Nothing = Nothing
SPECIFICATION Spec
INVARIANTS TypeOK AnsweredOnce RewardTracked ChallengeFlagExact IdleForAReason
PROPERTIES MiningResumes ChallengeReported RequestsServed
