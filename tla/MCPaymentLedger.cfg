SPECIFICATION FairSpec
CONSTANTS
  p1 = p1
  p2 = p2
  p3 = p3
  x1 = x1
  x2 = x2
  Tx = {t1, t2, t3}
  Payment = {p1, p2, p3}
  Key = {x1, x2}
  KeyOf <- CollidingKeys
  MaxEmits = 2
  NoTx = NoTx
CHECK_DEADLOCK FALSE
INVARIANTS
  ChainVerifies
  SequencesHold
  TamperEvident
PROPERTIES
  EmittersEnd
