CONSTANTS
  g1 = g1
  g2 = g2
  c1 = c1
  c2 = c2
  NoGoal = NoGoal
  TriggerGoals = {g1}
  CommandGoals = {c1, c2}
  CommandKinds = {"PAUSE"}
  StartsDirect = FALSE
  OnInitialTick <- MCHookTrue
  OnTick <- MCHookTrue
  AfterTick <- MCHookTrue
  OnTreeExit <- MCTerminateOnExit
SPECIFICATION FairNodeSpec
PROPERTY AcceptedPausePauses
CHECK_DEADLOCK FALSE
