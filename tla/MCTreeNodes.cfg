CONSTANTS
  fixed = fixed
  read = read
  derived = derived
  twice = twice
  t1 = t1
  t2 = t2
  None = None
  Names = {read, derived, twice}
  Topics = {t1, t2}
  StaticTopic <- MCStaticTopic
  DerivedTopic <- MCDerivedTopic
  MaxMessages = 2
  MaxRequests = 2
SPECIFICATION FairSpec
INVARIANTS OnlyHaltsLeaveResponses CallbacksAreHolders LastMessageKnown 
PROPERTY ServiceCompletes
CHECK_DEADLOCK FALSE
