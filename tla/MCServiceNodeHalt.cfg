CONSTANTS
  fixed = fixed
  read = read
  derived = derived
  twice = twice
  t1 = t1
  t2 = t2
  None = None
  Names = {fixed}
  Topics = {t1}
  StaticTopic <- MCStaticTopic
  DerivedTopic <- MCDerivedTopic
  MaxMessages = 0
  MaxRequests = 2
SPECIFICATION FairSpec
INVARIANT ResponseOfRequest
