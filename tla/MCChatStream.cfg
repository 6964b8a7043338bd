SPECIFICATION FairSpec
CONSTANTS
  Turns = {t1}
  BufferCap = 2
  MaxFragments = 4
  Bindings = {"unbound", "user", "other"}
  Modes = {"stream", "blocking"}
INVARIANTS
  TypeOK
  StreamFaithful
  ReplyComplete
PROPERTIES
  ReplyUnlessLost
  SubscribeReturns
CHECK_DEADLOCK FALSE
