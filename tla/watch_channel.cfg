\* Two receivers, one cloned from the other, two sends, one spurious wake-up.
CONSTANTS
  r1 = r1
  r2 = r2
  Receivers <- MCReceivers
  Sender = Sender
  NoOne = NoOne
  MaxSends = 2
  MaxSpurious = 1
SPECIFICATION Spec
INVARIANTS TypeOK NoLostWakeup NeverBehindObservedId
PROPERTY ImplementsRegister
