SPECIFICATION FairSpec
CONSTANTS
  Senders = {s1, s2}
  MaxBytes = 2
INVARIANT TypeOK
INVARIANT StreamExact
INVARIANT OneWrite
INVARIANT FlushPinned
INVARIANT NoLostWakeup
PROPERTY EveryByteLeaves
PROPERTY StreamSpec
CHECK_DEADLOCK FALSE
