CONSTANTS
  g1 = g1
  g2 = g2
  g3 = g3
  c1 = c1
  c2 = c2
  NoGoal = NoGoal
  Goals = {g1, g2, g3}
  Clients = {c1, c2}
  Sender <- MCSender
  ToCancel = {g1}
SPECIFICATION FairSpec
INVARIANTS OutcomeIsItsOwn LastGoalIsHeld
PROPERTY PromisesKept
\* All goals are done in the end.
CHECK_DEADLOCK FALSE
