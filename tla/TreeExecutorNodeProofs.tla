----------------------- MODULE TreeExecutorNodeProofs -----------------------
(***************************************************************************)
(* The two action servers and the routine stay in step, for any number of  *)
(* clients and goals and whatever the hooks return.                        *)
(*                                                                         *)
(* The routine's own invariant is needed because the context can only be   *)
(* trusted together with the timer: a goal is answered in the step in      *)
(* which the timer is canceled.                                            *)
(***************************************************************************)
EXTENDS TreeExecutorNode, TLAPS

-----------------------------------------------------------------------------
(***************************************************************************)
(* The routine is correct for every choice of what the hooks may return.   *)
(* The inductive invariant is the type invariant together with             *)
(* FutureMatchesTimer; the refinement needs both, because the state the    *)
(* routine reports is computed from the timer and the tree.                *)
(***************************************************************************)
\* What TLC checks as two invariants, as one inductive invariant.
RoutineInv == TypeOK /\ FutureMatchesTimer

\* One step of a started executor, split by what the command makes it do.
LEMMA TickPreservesInv ==
  ASSUME RoutineInv, TickCallback PROVE RoutineInv'
<1> USE DEF RoutineInv, TypeOK, FutureMatchesTimer, IsBusy, ControlCommand, ExecutionResult
<1>1. CASE PauseTick
  BY <1>1 DEF PauseTick
<1>2. CASE HaltTick
  BY <1>2 DEF HaltTick, HaltTree, Terminate, TickCallback
<1>3. CASE TerminateTick
  BY <1>3 DEF TerminateTick, TerminateHalted, HaltTree, Terminate, TickCallback
<1>4. CASE AbortTick
  <2>1. reason' \in {"onInitialTick", "onTick"} /\ UNCHANGED command
    BY <1>4 DEF AbortTick
  <2>2. initialTicks' \in 0..2
    BY <1>4 DEF AbortTick, CountInitialTick
  <2>3. stopped' = FALSE /\ (HaltTree \/ Terminate("TERMINATED_PREMATURELY"))
    BY <1>4 DEF AbortTick, TerminateHalted
  <2>4. QED
    BY <2>1, <2>2, <2>3 DEF HaltTree, Terminate, TickCallback
<1>5. CASE TreeTick
  <2>1. UNCHANGED <<command, reason>> /\ stopped' = FALSE
    BY <1>5 DEF TreeTick
  <2>2. initialTicks' \in 0..2
    BY <1>5 DEF TreeTick, CountInitialTick
  <2>3. \/ /\ tree' \in {"IDLE", "RUNNING"}
           /\ UNCHANGED <<timer, promise>>
        \/ \E result \in ExecutionResult : Terminate(result)
    BY <1>5 DEF TreeTick, TickReturns
  <2>4. QED
    BY <2>1, <2>2, <2>3 DEF Terminate, TickCallback
<1>6. QED
  BY <1>1, <1>2, <1>3, <1>4, <1>5 DEF TickCallback

LEMMA StartPreservesInv ==
  ASSUME RoutineInv, StartExecution PROVE RoutineInv'
<1> USE DEF RoutineInv, TypeOK, FutureMatchesTimer, IsBusy, ControlCommand, ExecutionResult
<1>1. CASE StartSucceeds
  BY <1>1 DEF StartSucceeds
<1>2. CASE StartFailsToBuild
  BY <1>2 DEF StartFailsToBuild, routineVars
<1>3. CASE StartFailsToPublish
  BY <1>3 DEF StartFailsToPublish
<1>4. QED
  BY <1>1, <1>2, <1>3 DEF StartExecution

LEMMA CommandPreservesInv ==
  ASSUME RoutineInv, NEW cmd \in ControlCommand, SetControlCommand(cmd) PROVE RoutineInv'
BY DEF RoutineInv, TypeOK, FutureMatchesTimer, IsBusy, SetControlCommand

LEMMA InitEstablishesInv == Init => RoutineInv
BY DEF Init, RoutineInv, TypeOK, FutureMatchesTimer, IsBusy, ControlCommand, ExecutionResult

LEMMA StepPreservesInv == RoutineInv /\ [Next]_routineVars => RoutineInv'
<1> SUFFICES ASSUME RoutineInv, [Next]_routineVars PROVE RoutineInv'
  OBVIOUS
<1>1. CASE StartExecution
  BY <1>1, StartPreservesInv
<1>2. CASE \E cmd \in ControlCommand : SetControlCommand(cmd)
  BY <1>2, CommandPreservesInv
<1>3. CASE TickCallback
  BY <1>3, TickPreservesInv
<1>4. CASE UNCHANGED routineVars
  BY <1>4 DEF routineVars, RoutineInv, TypeOK, FutureMatchesTimer, IsBusy
<1>5. QED
  BY <1>1, <1>2, <1>3, <1>4 DEF Next

LEMMA RoutineInvariant == Spec => []RoutineInv
BY InitEstablishesInv, StepPreservesInv, PTL DEF Spec

\* Every member of TreeExecutorBase keeps its type.
THEOREM TypeCorrect == Spec => []TypeOK
BY RoutineInvariant, PTL DEF RoutineInv

\* In every execution the executor owns a tree while its timer is active, and
\* a future is unresolved exactly then (executor_base.cpp:104-136).
THEOREM FutureCorrect == Spec => []FutureMatchesTimer
BY RoutineInvariant, PTL DEF RoutineInv

-----------------------------------------------------------------------------
(***************************************************************************)
(* Refinement: a step of the timer callback is a Move, a Finish or a       *)
(* stutter of the lifecycle.                                               *)
(***************************************************************************)

LEMMA TickRefines ==
  ASSUME RoutineInv, TickCallback PROVE Lifecycle!Move \/ Lifecycle!Finish
<1> USE DEF RoutineInv, TypeOK, FutureMatchesTimer, IsBusy, GetExecutionState,
        ControlCommand, ExecutionResult, Terminate, Lifecycle!Move, Lifecycle!Finish,
        Lifecycle!Successors, Lifecycle!Results
<1>1. CASE PauseTick
  BY <1>1 DEF PauseTick, TickCallback
<1>2. CASE HaltTick
  BY <1>2 DEF HaltTick, HaltTree, TickCallback
<1>3. CASE TerminateTick
  BY <1>3 DEF TerminateTick, TerminateHalted, HaltTree, TickCallback
<1>4. CASE AbortTick
  BY <1>4 DEF AbortTick, TerminateHalted, HaltTree, TickCallback
<1>5. CASE TreeTick
  BY <1>5 DEF TreeTick, TickReturns, TickCallback
<1>6. QED
  BY <1>1, <1>2, <1>3, <1>4, <1>5 DEF TickCallback

LEMMA StartRefines ==
  ASSUME RoutineInv, StartExecution PROVE [Lifecycle!Next]_(Lifecycle!lifecycleVars)
BY DEF RoutineInv, TypeOK, FutureMatchesTimer, IsBusy, GetExecutionState, StartExecution,
       StartSucceeds, StartFailsToBuild, StartFailsToPublish, routineVars,
       Lifecycle!Next, Lifecycle!Begin, Lifecycle!lifecycleVars

LEMMA CommandRefines ==
  ASSUME NEW cmd \in ControlCommand, SetControlCommand(cmd)
  PROVE  UNCHANGED Lifecycle!lifecycleVars
BY DEF SetControlCommand, GetExecutionState, IsBusy, Lifecycle!lifecycleVars

LEMMA StepRefines ==
  RoutineInv /\ [Next]_routineVars => [Lifecycle!Next]_(Lifecycle!lifecycleVars)
<1> SUFFICES ASSUME RoutineInv, [Next]_routineVars
             PROVE  [Lifecycle!Next]_(Lifecycle!lifecycleVars)
  OBVIOUS
<1>1. CASE StartExecution
  BY <1>1, StartRefines
<1>2. CASE \E cmd \in ControlCommand : SetControlCommand(cmd)
  BY <1>2, CommandRefines
<1>3. CASE TickCallback
  BY <1>3, TickRefines DEF Lifecycle!Next
<1>4. CASE UNCHANGED routineVars
  BY <1>4 DEF routineVars, GetExecutionState, IsBusy, Lifecycle!lifecycleVars
<1>5. QED
  BY <1>1, <1>2, <1>3, <1>4 DEF Next

\* TreeExecutorBase implements the lifecycle its users are told about, whatever
\* the overridden hooks return.
THEOREM RoutineImplementsLifecycle == Spec => ImplementsLifecycle
<1>1. Init => Lifecycle!Init
  BY DEF Init, Lifecycle!Init, GetExecutionState, IsBusy
<1>2. QED
  BY <1>1, RoutineInvariant, StepRefines, PTL
  DEF Spec, ImplementsLifecycle, Lifecycle!Spec

-----------------------------------------------------------------------------
(***************************************************************************)
(* The node: the routine and what its two action servers know of it.       *)
(***************************************************************************)

\* The inductive invariant of the node.
NodeInv ==
  /\ NodeTypeOK
  /\ FutureMatchesTimer
  /\ ContextTracksGoal
  /\ TimerTracksCommand

LEMMA NodeInitEstablishesInv == NodeInit => NodeInv
<1> SUFFICES ASSUME NodeInit PROVE NodeInv
  OBVIOUS
<1>1. RoutineInv
  BY InitEstablishesInv DEF NodeInit
<1>2. NodeTypeOK
  BY <1>1 DEF RoutineInv, NodeInit, NodeTypeOK, GoalStatus, CommandTimerIdle, ExecutionState
<1>3. ContextTracksGoal
  BY NodeAssumption DEF NodeInit, ContextTracksGoal, Active
<1>4. TimerTracksCommand
  BY NodeAssumption DEF NodeInit, TimerTracksCommand, Active, CommandTimerIdle
<1>5. QED
  BY <1>1, <1>2, <1>3, <1>4 DEF NodeInv, RoutineInv

-----------------------------------------------------------------------------
(***************************************************************************)
(* The trigger action.                                                     *)
(***************************************************************************)
LEMMA RejectTriggerInv ==
  ASSUME NodeInv, NEW g \in TriggerGoals, RejectTrigger(g) PROVE NodeInv'
BY DEF NodeInv, NodeTypeOK, TypeOK, FutureMatchesTimer, ContextTracksGoal,
       TimerTracksCommand, RejectTrigger, routineVars, commandVars, GoalStatus, Active, IsBusy

LEMMA AcceptTriggerInv ==
  ASSUME NodeInv, NEW g \in TriggerGoals, NEW attach \in BOOLEAN, AcceptTrigger(g, attach)
  PROVE  NodeInv'
<1>1. RoutineInv'
  BY StartPreservesInv DEF NodeInv, NodeTypeOK, RoutineInv, AcceptTrigger, OnExecutionStarted, StartExecution
<1>2. context = NoGoal
  BY DEF NodeInv, NodeTypeOK, ContextTracksGoal, AcceptTrigger, OnExecutionStarted, ShouldAcceptGoal
<1>3. UNCHANGED <<commandGoal, commandTimer>>
  BY DEF AcceptTrigger, OnExecutionStarted, commandVars
<1>4. CASE /\ StartSucceeds
           /\ trigger' = [trigger EXCEPT ![g] = IF attach THEN "EXECUTING" ELSE "SUCCEEDED"]
           /\ context' = IF attach THEN g ELSE context
  <2>1. NodeTypeOK'
    BY <1>1, <1>2, <1>3, <1>4 DEF RoutineInv, NodeInv, NodeTypeOK, GoalStatus
  <2>2. ContextTracksGoal'
    BY <1>2, <1>4, NodeAssumption
    DEF NodeInv, NodeTypeOK, ContextTracksGoal, Active, StartSucceeds, IsBusy
  <2>3. QED
    BY <1>1, <1>3, <2>1, <2>2 DEF RoutineInv, NodeInv, TimerTracksCommand
<1>5. CASE /\ StartFailsToBuild \/ StartFailsToPublish
           /\ trigger' = [trigger EXCEPT ![g] = "ABORTED"]
           /\ UNCHANGED context
  <2>1. NodeTypeOK'
    BY <1>1, <1>2, <1>3, <1>5 DEF RoutineInv, NodeInv, NodeTypeOK, GoalStatus
  <2>2. ContextTracksGoal'
    BY <1>2, <1>5, NodeAssumption DEF NodeInv, NodeTypeOK, ContextTracksGoal, Active
  <2>3. QED
    BY <1>1, <1>3, <2>1, <2>2 DEF RoutineInv, NodeInv, TimerTracksCommand
<1>6. QED
  BY <1>4, <1>5 DEF AcceptTrigger, OnExecutionStarted

LEMMA CancelTriggerInv ==
  ASSUME NodeInv, NEW g \in TriggerGoals, CancelTrigger(g) PROVE NodeInv'
<1>1. RoutineInv'
  BY CommandPreservesInv DEF NodeInv, NodeTypeOK, RoutineInv, CancelTrigger, ControlCommand
<1>2. NodeTypeOK'
  BY <1>1 DEF RoutineInv, NodeInv, NodeTypeOK, CancelTrigger, commandVars, GoalStatus
<1>3. ContextTracksGoal'
  BY DEF NodeInv, NodeTypeOK, ContextTracksGoal, CancelTrigger, SetControlCommand, Active, IsBusy
<1>4. TimerTracksCommand'
  BY DEF NodeInv, TimerTracksCommand, CancelTrigger, commandVars
<1>5. QED
  BY <1>1, <1>2, <1>3, <1>4 DEF RoutineInv, NodeInv

LEMMA StartDirectInv == ASSUME NodeInv, StartDirect PROVE NodeInv'
<1>1. RoutineInv'
  BY StartPreservesInv DEF NodeInv, NodeTypeOK, RoutineInv, StartDirect
<1>2. UNCHANGED <<trigger, context, commandGoal, commandTimer>>
  BY DEF StartDirect, nodeVars, triggerVars, commandVars
<1>3. context = NoGoal
  BY DEF NodeInv, NodeTypeOK, ContextTracksGoal, StartDirect, StartExecution, StartSucceeds,
         StartFailsToBuild, StartFailsToPublish
<1>4. QED
  BY <1>1, <1>2, <1>3
  DEF RoutineInv, NodeInv, NodeTypeOK, ContextTracksGoal, TimerTracksCommand

-----------------------------------------------------------------------------
(***************************************************************************)
(* The timer callback of the routine, with the termination callback.       *)
(***************************************************************************)
LEMMA TerminalStatusIsTerminal ==
  ASSUME NEW status, NEW result
  PROVE  TerminalStatus(status, result) \in {"SUCCEEDED", "CANCELED", "ABORTED"}
BY DEF TerminalStatus

LEMMA ExecutionTimerInv == ASSUME NodeInv, ExecutionTimer PROVE NodeInv'
<1>1. RoutineInv'
  BY TickPreservesInv DEF NodeInv, NodeTypeOK, RoutineInv, ExecutionTimer
<1>2. UNCHANGED <<commandGoal, commandTimer>> /\ OnTermination
  BY DEF ExecutionTimer, commandVars
<1>3. CASE IsBusy /\ ~IsBusy' /\ context # NoGoal
  <2>1. PICK status \in {"SUCCEEDED", "CANCELED", "ABORTED"} :
          trigger' = [trigger EXCEPT ![context] = status]
    BY <1>2, <1>3, TerminalStatusIsTerminal DEF OnTermination
  <2>2. context' = NoGoal
    BY <1>2, <1>3 DEF OnTermination
  <2>3. NodeTypeOK'
    BY <1>1, <1>2, <2>1, <2>2 DEF RoutineInv, NodeInv, NodeTypeOK, GoalStatus
  <2>4. ContextTracksGoal'
    BY <1>3, <2>1, <2>2, NodeAssumption DEF NodeInv, NodeTypeOK, ContextTracksGoal, Active
  <2>5. QED
    BY <1>1, <1>2, <2>3, <2>4 DEF RoutineInv, NodeInv, TimerTracksCommand
<1>4. CASE ~(IsBusy /\ ~IsBusy' /\ context # NoGoal)
  <2>1. UNCHANGED <<trigger, context>>
    BY <1>2, <1>4 DEF OnTermination, triggerVars
  <2>2. context # NoGoal => IsBusy'
    BY <1>4 DEF ExecutionTimer, TickCallback
  <2>3. QED
    BY <1>1, <1>2, <2>1, <2>2
    DEF RoutineInv, NodeInv, NodeTypeOK, ContextTracksGoal, TimerTracksCommand
<1>5. QED
  BY <1>3, <1>4

-----------------------------------------------------------------------------
(***************************************************************************)
(* The command action.                                                     *)
(***************************************************************************)
LEMMA RejectCommandInv ==
  ASSUME NodeInv, NEW c \in CommandGoals, NEW kind \in CommandKinds, RejectCommand(c, kind)
  PROVE  NodeInv'
BY DEF NodeInv, NodeTypeOK, TypeOK, FutureMatchesTimer, ContextTracksGoal,
       TimerTracksCommand, RejectCommand, routineVars, triggerVars, GoalStatus, Active, IsBusy

\* A goal of the command action is a member of ControlCommand once translated,
\* and the state it waits for is an execution state.
LEMMA CommandTables ==
  ASSUME NEW kind \in CommandKinds
  PROVE  RequestedCommand(kind) \in ControlCommand /\ RequestedState(kind) \in ExecutionState
BY NodeAssumption DEF RequestedCommand, RequestedState, ControlCommand, ExecutionState

LEMMA AcceptCommandInv ==
  ASSUME NodeInv, NEW c \in CommandGoals, NEW kind \in CommandKinds, AcceptCommand(c, kind)
  PROVE  NodeInv'
<1>1. RoutineInv'
  BY CommandPreservesInv, CommandTables
  DEF NodeInv, NodeTypeOK, RoutineInv, AcceptCommand
<1>2. UNCHANGED <<trigger, context>> /\ (IsBusy' <=> IsBusy)
  BY DEF AcceptCommand, triggerVars, SetControlCommand, IsBusy
<1>3. NodeTypeOK'
  BY <1>1, <1>2, CommandTables DEF RoutineInv, NodeInv, NodeTypeOK, AcceptCommand, GoalStatus
<1>4. ContextTracksGoal'
  BY <1>2 DEF NodeInv, ContextTracksGoal
<1>5. commandTimer.goal = NoGoal
  BY DEF AcceptCommand, AcceptsCommand, CommandTimerBusy
<1>6. TimerTracksCommand'
  BY <1>5, NodeAssumption DEF NodeInv, NodeTypeOK, TimerTracksCommand, AcceptCommand, Active
<1>7. QED
  BY <1>1, <1>3, <1>4, <1>6 DEF RoutineInv, NodeInv

LEMMA CancelCommandInv ==
  ASSUME NodeInv, NEW c \in CommandGoals, CancelCommand(c) PROVE NodeInv'
BY DEF NodeInv, NodeTypeOK, TypeOK, FutureMatchesTimer, ContextTracksGoal,
       TimerTracksCommand, CancelCommand, routineVars, triggerVars, GoalStatus, Active, IsBusy

LEMMA CommandTimerInv == ASSUME NodeInv, CommandTimer PROVE NodeInv'
<1>1. UNCHANGED <<timer, tree, stopped, command, reason, promise, initialTicks>>
      /\ UNCHANGED <<trigger, context>>
  BY DEF CommandTimer, routineVars, triggerVars
<1>2. PICK status \in {"SUCCEEDED", "CANCELED", "ABORTED"} : EndCommand(status)
  BY DEF CommandTimer
<1>3. commandTimer.goal \in CommandGoals
  BY DEF NodeInv, NodeTypeOK, CommandTimer, CommandTimerBusy
<1>4. NodeTypeOK'
  BY <1>1, <1>2, <1>3
  DEF NodeInv, NodeTypeOK, TypeOK, EndCommand, CommandTimerIdle, GoalStatus, ExecutionState
<1>5. TimerTracksCommand'
  BY <1>2, <1>3, NodeAssumption
  DEF NodeInv, NodeTypeOK, TimerTracksCommand, EndCommand, CommandTimerIdle, Active
<1>6. QED
  BY <1>1, <1>4, <1>5 DEF NodeInv, FutureMatchesTimer, ContextTracksGoal, IsBusy

-----------------------------------------------------------------------------
LEMMA NodeStepPreservesInv == ASSUME NodeInv, [NodeNext]_vars PROVE NodeInv'
<1>1. ASSUME NEW g \in TriggerGoals, RejectTrigger(g) PROVE NodeInv'
  BY <1>1, RejectTriggerInv
<1>2. ASSUME NEW g \in TriggerGoals, NEW attach \in BOOLEAN, AcceptTrigger(g, attach)
      PROVE  NodeInv'
  BY <1>2, AcceptTriggerInv
<1>3. ASSUME NEW g \in TriggerGoals, CancelTrigger(g) PROVE NodeInv'
  BY <1>3, CancelTriggerInv
<1>4. CASE StartDirect
  BY <1>4, StartDirectInv
<1>5. CASE ExecutionTimer
  BY <1>5, ExecutionTimerInv
<1>6. ASSUME NEW c \in CommandGoals, NEW kind \in CommandKinds, RejectCommand(c, kind)
      PROVE  NodeInv'
  BY <1>6, RejectCommandInv
<1>7. ASSUME NEW c \in CommandGoals, NEW kind \in CommandKinds, AcceptCommand(c, kind)
      PROVE  NodeInv'
  BY <1>7, AcceptCommandInv
<1>8. ASSUME NEW c \in CommandGoals, CancelCommand(c) PROVE NodeInv'
  BY <1>8, CancelCommandInv
<1>9. CASE CommandTimer
  BY <1>9, CommandTimerInv
<1>10. CASE UNCHANGED vars
  BY <1>10 DEF vars, routineVars, nodeVars, triggerVars, commandVars, NodeInv, NodeTypeOK,
               TypeOK, FutureMatchesTimer, ContextTracksGoal, TimerTracksCommand, IsBusy
<1>11. QED
  BY <1>1, <1>2, <1>3, <1>4, <1>5, <1>6, <1>7, <1>8, <1>9, <1>10 DEF NodeNext

LEMMA NodeInvariant == NodeSpec => []NodeInv
<1>1. NodeInit => NodeInv
  BY NodeInitEstablishesInv
<1>2. NodeInv /\ [NodeNext]_vars => NodeInv'
  BY NodeStepPreservesInv
<1>3. QED
  BY <1>1, <1>2, PTL DEF NodeSpec

\* For any number of goals, every member of the node keeps to its type.
THEOREM NodeTypeCorrect == NodeSpec => []NodeTypeOK
<1>1. NodeInv => NodeTypeOK
  BY DEF NodeInv
<1>2. QED
  BY <1>1, NodeInvariant, PTL

\* No trigger goal outlives its execution, and no execution serves another goal
\* than the one it was started for.
THEOREM ContextCorrect == NodeSpec => []ContextTracksGoal
<1>1. NodeInv => ContextTracksGoal
  BY DEF NodeInv
<1>2. QED
  BY <1>1, NodeInvariant, PTL

\* The command timer serves the one active command goal.
THEOREM CommandTimerCorrect == NodeSpec => []TimerTracksCommand
<1>1. NodeInv => TimerTracksCommand
  BY DEF NodeInv
<1>2. QED
  BY <1>1, NodeInvariant, PTL

-----------------------------------------------------------------------------
(***************************************************************************)
(* How a trigger goal ends.                                                *)
(***************************************************************************)
\* What OutcomeReported says of one goal.
Reported(g) ==
  trigger[g] \in Active /\ trigger'[g] \notin Active =>
    /\ IsBusy /\ ~IsBusy'
    /\ trigger'[g] = "SUCCEEDED" <=> promise' = "TREE_SUCCEEDED"
    /\ trigger'[g] = "CANCELED" <=>
         (trigger[g] = "CANCELING" /\ promise' = "TERMINATED_PREMATURELY")
    /\ CallersAgree(trigger'[g], promise')

\* A handler of the trigger action only touches the goal it is called for, and
\* never one that is active.
LEMMA HandlersEndNoGoal ==
  ASSUME NodeInv, NEW g \in TriggerGoals, NEW h \in TriggerGoals,
         \/ RejectTrigger(h)
         \/ \E attach \in BOOLEAN : AcceptTrigger(h, attach)
         \/ CancelTrigger(h)
  PROVE  trigger[g] \in Active => trigger'[g] \in Active
<1>1. trigger \in [TriggerGoals -> GoalStatus]
  BY DEF NodeInv, NodeTypeOK
<1>2. CASE RejectTrigger(h)
  BY <1>1, <1>2 DEF RejectTrigger, Active
<1>3. ASSUME NEW attach \in BOOLEAN, AcceptTrigger(h, attach)
      PROVE  trigger[g] \in Active => trigger'[g] \in Active
  BY <1>1, <1>3 DEF AcceptTrigger, OnExecutionStarted, Active
<1>4. CASE CancelTrigger(h)
  BY <1>1, <1>4 DEF CancelTrigger, Active
<1>5. QED
  BY <1>2, <1>3, <1>4

\* Whatever the status of the goal and the result of its tree, its callers agree.
LEMMA CallersOfTerminalStatus ==
  ASSUME NEW status, NEW result PROVE CallersAgree(TerminalStatus(status, result), result)
<1> DEFINE final == TerminalStatus(status, result)
<1>1. CASE result = "TREE_SUCCEEDED"
  <2>1. final = "SUCCEEDED" /\ TreeResult(result) = "SUCCESS"
    BY <1>1 DEF TerminalStatus, TreeResult
  <2>2. StartExecutorReturns("SUCCEEDED", "SUCCESS", TRUE) = "SUCCESS"
    BY DEF StartExecutorReturns
  <2>3. QED
    BY <1>1, <2>1, <2>2 DEF CallersAgree, CallReturns
<1>2. CASE result # "TREE_SUCCEEDED"
  <2>1. final \in {"CANCELED", "ABORTED"}
    BY <1>2 DEF TerminalStatus
  <2>2. \A r : /\ StartExecutorReturns("CANCELED", r, TRUE) = "SUCCESS"
               /\ StartExecutorReturns("ABORTED", r, TRUE) = "throws"
    BY DEF StartExecutorReturns
  <2>3. QED
    BY <1>2, <2>1, <2>2 DEF CallersAgree, CallReturns
<1>3. QED
  BY <1>1, <1>2

LEMMA ExecutionTimerReports ==
  ASSUME NodeInv, ExecutionTimer, NEW g \in TriggerGoals PROVE Reported(g)
<1>1. CASE IsBusy /\ ~IsBusy' /\ context = g
  <2>1. context # NoGoal
    BY <1>1, NodeAssumption
  <2>2. trigger'[g] = TerminalStatus(trigger[g], promise')
    BY <1>1, <2>1 DEF NodeInv, NodeTypeOK, ExecutionTimer, OnTermination
  <2>3. CallersAgree(trigger'[g], promise')
    BY <2>2, CallersOfTerminalStatus
  <2>4. QED
    BY <1>1, <2>2, <2>3 DEF Reported, TerminalStatus
<1>2. CASE ~(IsBusy /\ ~IsBusy' /\ context = g)
  <2>1. trigger'[g] = trigger[g]
    BY <1>2 DEF NodeInv, NodeTypeOK, ExecutionTimer, OnTermination, triggerVars
  <2>2. QED
    BY <2>1 DEF Reported
<1>3. QED
  BY <1>1, <1>2

LEMMA NodeStepReports ==
  ASSUME NodeInv, [NodeNext]_vars, NEW g \in TriggerGoals PROVE Reported(g)
<1>1. ASSUME NEW h \in TriggerGoals, RejectTrigger(h) PROVE Reported(g)
  BY <1>1, HandlersEndNoGoal DEF Reported
<1>2. ASSUME NEW h \in TriggerGoals, NEW attach \in BOOLEAN, AcceptTrigger(h, attach)
      PROVE  Reported(g)
  BY <1>2, HandlersEndNoGoal DEF Reported
<1>3. ASSUME NEW h \in TriggerGoals, CancelTrigger(h) PROVE Reported(g)
  BY <1>3, HandlersEndNoGoal DEF Reported
<1>4. CASE ExecutionTimer
  BY <1>4, ExecutionTimerReports
<1>5. ASSUME UNCHANGED trigger PROVE Reported(g)
  BY <1>5 DEF Reported
<1>6. \/ UNCHANGED trigger
      \/ \E h \in TriggerGoals : RejectTrigger(h)
      \/ \E h \in TriggerGoals, attach \in BOOLEAN : AcceptTrigger(h, attach)
      \/ \E h \in TriggerGoals : CancelTrigger(h)
      \/ ExecutionTimer
  BY DEF NodeNext, vars, nodeVars, triggerVars, StartDirect, RejectCommand, AcceptCommand,
         CancelCommand, CommandTimer
<1>7. QED
  BY <1>1, <1>2, <1>3, <1>4, <1>5, <1>6

\* An attached goal ends together with its execution, with the status that tells
\* the execution's result.
THEOREM OutcomeCorrect == NodeSpec => OutcomeReported
<1>1. NodeInv /\ [NodeNext]_vars =>
        [\A g \in TriggerGoals :
           trigger[g] \in Active /\ trigger'[g] \notin Active =>
             /\ IsBusy /\ ~IsBusy'
             /\ trigger'[g] = "SUCCEEDED" <=> promise' = "TREE_SUCCEEDED"
             /\ trigger'[g] = "CANCELED" <=>
                  (trigger[g] = "CANCELING" /\ promise' = "TERMINATED_PREMATURELY")
             /\ CallersAgree(trigger'[g], promise')]_vars
  BY NodeStepReports DEF Reported
<1>2. QED
  BY <1>1, NodeInvariant, PTL DEF NodeSpec, OutcomeReported
=============================================================================
