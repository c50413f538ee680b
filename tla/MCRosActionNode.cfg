CONSTANTS
  MaxGoals = 3
  Environments <- MCBoth
SPECIFICATION FairSpec
INVARIANTS ResultOfCurrentGoal HandleIsKnown
PROPERTIES BlocksInGoodOrder NodeCompletes 
CHECK_DEADLOCK FALSE
