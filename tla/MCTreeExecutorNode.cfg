CONSTANTS
  g1 = g1
  g2 = g2
  c1 = c1
  c2 = c2
  NoGoal = NoGoal
  TriggerGoals = {g1, g2}
  CommandGoals = {c1, c2}
  CommandKinds = {"RESUME", "PAUSE", "HALT", "TERMINATE"}
  StartsDirect = TRUE
  OnInitialTick <- MCHookValues
  OnTick <- MCHookValues
  AfterTick <- MCHookValues
  OnTreeExit <- MCTreeExit
SPECIFICATION FairNodeSpec
INVARIANTS ContextTracksGoal TimerTracksCommand FutureMatchesTimer
PROPERTIES OutcomeReported ImplementsLifecycle CancelCompletes CommandCompletes

