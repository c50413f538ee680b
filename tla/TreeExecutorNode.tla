-------------------------- MODULE TreeExecutorNode --------------------------
(***************************************************************************)
(* A tree executor as a ROS 2 node: the execution routine composed with    *)
(* the two action servers that drive it.                                   *)
(*                                                                         *)
(*  - the trigger action (ActionBasedTreeExecutorNode, TreeExecutorNode):  *)
(*    a goal starts an execution and, if attached, ends with it;           *)
(*  - the command action (GenericTreeExecutorNode): a goal sets the        *)
(*    control command and ends when a second timer sees the requested      *)
(*    execution state.                                                     *)
(*                                                                         *)
(* All callbacks share one mutually exclusive callback group, so every     *)
(* handler is one step, and the timers, goals and cancel requests          *)
(* interleave freely.  An action server of rclcpp_action calls the accept  *)
(* handler in the same callback as the goal handler that accepted.         *)
(***************************************************************************)
EXTENDS ExecutionRoutine

CONSTANTS
  TriggerGoals,  \* identifiers of the goals clients of the trigger action send
  CommandGoals,  \* identifiers of the goals clients of the command action send
  CommandKinds,  \* the commands those clients ask for
  StartsDirect,  \* startExecution() is also called without a goal
  NoGoal         \* no goal at all

ASSUME NodeAssumption ==
  /\ CommandKinds \subseteq {"RESUME", "PAUSE", "HALT", "TERMINATE"}
  /\ StartsDirect \in BOOLEAN
  /\ NoGoal \notin TriggerGoals \cup CommandGoals

VARIABLES
  trigger,       \* status of each trigger goal
  context,       \* the goal trigger_action_context_ is set up with, or NoGoal
  commandGoal,   \* status of each command goal
  commandTimer   \* the goal command_timer_ptr_ serves and the state it waits for

triggerVars == <<trigger, context>>
commandVars == <<commandGoal, commandTimer>>
nodeVars == <<triggerVars, commandVars>>
vars == <<routineVars, nodeVars>>

GoalStatus == {"unsent", "REJECTED", "EXECUTING", "CANCELING",
               "SUCCEEDED", "CANCELED", "ABORTED"}
Active == {"EXECUTING", "CANCELING"}

CommandTimerIdle == [goal |-> NoGoal, requested |-> "IDLE"]
CommandTimerBusy == commandTimer.goal # NoGoal

(***************************************************************************)
(* The trigger action.                                                     *)
(***************************************************************************)
ShouldAcceptGoal == ~IsBusy

\* handle_trigger_goal_() refuses: busy, or getTreeConstructorFromGoal() threw.
RejectTrigger(g) ==
  /\ trigger[g] = "unsent"
  /\ trigger' = [trigger EXCEPT ![g] = "REJECTED"]
  /\ UNCHANGED <<routineVars, context, commandVars>>

\* onExecutionStarted(): an attached goal is served until its execution ends, a
\* detached one succeeds at once.
OnExecutionStarted(g, attach) ==
  /\ trigger' = [trigger EXCEPT ![g] = IF attach THEN "EXECUTING" ELSE "SUCCEEDED"]
  /\ context' = IF attach THEN g ELSE context

\* handle_trigger_goal_() and handle_trigger_accept_().
AcceptTrigger(g, attach) ==
  /\ trigger[g] = "unsent"
  /\ ShouldAcceptGoal
  /\ \/ StartSucceeds /\ OnExecutionStarted(g, attach)
     \/ /\ StartFailsToBuild \/ StartFailsToPublish
        /\ trigger' = [trigger EXCEPT ![g] = "ABORTED"]
        /\ UNCHANGED context
  /\ UNCHANGED commandVars

\* handle_trigger_cancel_(); rcl only offers it goals that are executing.
CancelTrigger(g) ==
  /\ trigger[g] = "EXECUTING"
  /\ SetControlCommand("TERMINATE")
  /\ trigger' = [trigger EXCEPT ![g] = "CANCELING"]
  /\ UNCHANGED <<context, commandVars>>

\* startExecution() from the constructor (command line argument) or from C++.
StartDirect ==
  /\ StartsDirect
  /\ StartExecution
  /\ UNCHANGED nodeVars

\* Mutant: TERMINATED_PREMATURELY is always reported as a cancellation.
CancelOnPremature(status, result) ==
  CASE result = "TREE_SUCCEEDED"         -> "SUCCEEDED"
    [] result = "TERMINATED_PREMATURELY" -> "CANCELED"
    [] OTHER                             -> "ABORTED"

\* onGoalExecutionTermination(): how the goal ends when its execution does.
TerminalStatus(status, result) ==
  CASE result = "TREE_SUCCEEDED" -> "SUCCEEDED"
    [] result = "TERMINATED_PREMATURELY" /\ status = "CANCELING" -> "CANCELED"
    [] OTHER -> "ABORTED"

\* The tree_result of the action, and what the callers of the action make of a
\* result: the node StartExecutor of another tree, and the function that the
\* command line verbs call, which always attaches.
TreeResult(result) ==
  CASE result = "TREE_SUCCEEDED" -> "SUCCESS"
    [] result = "TREE_FAILED"    -> "FAILURE"
    [] OTHER                     -> "NOT_SET"

StartExecutorReturns(status, treeResult, attach) ==
  CASE status = "ABORTED"  -> "throws"
    [] status = "CANCELED" -> "SUCCESS"
    [] status = "SUCCEEDED" /\ attach  -> IF treeResult = "SUCCESS" THEN "SUCCESS" ELSE "FAILURE"
    [] status = "SUCCEEDED" /\ ~attach -> IF treeResult = "NOT_SET" THEN "SUCCESS" ELSE "throws"

\* A request, a cancellation or a result that is not answered in time ends the
\* call as well: the goal may be anything that is no result then.
CallReturns(status) ==
  CASE status \in {"SUCCEEDED", "CANCELED"} -> 0
    [] status = "ABORTED" -> 1
    [] OTHER -> -1

\* Mutant: the context stays valid after the execution.
KeepContext ==
  IF IsBusy /\ ~IsBusy' /\ context # NoGoal
    THEN /\ trigger' = [trigger EXCEPT ![context] = TerminalStatus(@, promise')]
         /\ UNCHANGED context
    ELSE UNCHANGED triggerVars

\* onTermination(), called by the termination callback.
OnTermination ==
  IF IsBusy /\ ~IsBusy' /\ context # NoGoal
    THEN /\ trigger' = [trigger EXCEPT ![context] = TerminalStatus(@, promise')]
         /\ context' = NoGoal
    ELSE UNCHANGED triggerVars

ExecutionTimer == TickCallback /\ OnTermination /\ UNCHANGED commandVars

(***************************************************************************)
(* The command action.                                                     *)
(***************************************************************************)
RequestedCommand(kind) ==
  CASE kind = "RESUME" -> "RUN"
    [] OTHER           -> kind

\* Mutant: PAUSE and HALT wait for each other's state.
SwapPauseAndHalt(kind) ==
  CASE kind = "RESUME"    -> "RUNNING"
    [] kind = "PAUSE"     -> "HALTED"
    [] kind = "HALT"      -> "PAUSED"
    [] kind = "TERMINATE" -> "IDLE"

RequestedState(kind) ==
  CASE kind = "RESUME"    -> "RUNNING"
    [] kind = "PAUSE"     -> "PAUSED"
    [] kind = "HALT"      -> "HALTED"
    [] kind = "TERMINATE" -> "IDLE"

\* Mutant: a second command is accepted while the first one is being served.
AcceptsSecondCommand(kind) == kind = "RESUME" => GetExecutionState \in {"PAUSED", "HALTED"}

\* handle_command_goal_(): one command at a time, and RESUME only makes sense
\* for an execution that is paused or halted.
AcceptsCommand(kind) ==
  /\ ~CommandTimerBusy
  /\ kind = "RESUME" => GetExecutionState \in {"PAUSED", "HALTED"}

RejectCommand(c, kind) ==
  /\ commandGoal[c] = "unsent"
  /\ ~AcceptsCommand(kind)
  /\ commandGoal' = [commandGoal EXCEPT ![c] = "REJECTED"]
  /\ UNCHANGED <<routineVars, triggerVars, commandTimer>>

\* handle_command_accept_().
AcceptCommand(c, kind) ==
  /\ commandGoal[c] = "unsent"
  /\ AcceptsCommand(kind)
  /\ SetControlCommand(RequestedCommand(kind))
  /\ commandGoal' = [commandGoal EXCEPT ![c] = "EXECUTING"]
  /\ commandTimer' = [goal |-> c, requested |-> RequestedState(kind)]
  /\ UNCHANGED triggerVars

CancelCommand(c) ==
  /\ commandGoal[c] = "EXECUTING"
  /\ commandGoal' = [commandGoal EXCEPT ![c] = "CANCELING"]
  /\ UNCHANGED <<routineVars, triggerVars, commandTimer>>

EndCommand(status) ==
  /\ commandGoal' = [commandGoal EXCEPT ![commandTimer.goal] = status]
  /\ commandTimer' = CommandTimerIdle

\* The callback of command_timer_ptr_.
CommandTimer ==
  /\ CommandTimerBusy
  /\ LET current == GetExecutionState
         requested == commandTimer.requested
         canceling == commandGoal[commandTimer.goal] = "CANCELING"
     IN  \/ canceling /\ EndCommand("CANCELED")
         \/ ~canceling /\ requested # "IDLE" /\ current = "IDLE" /\ EndCommand("ABORTED")
         \/ ~canceling /\ current = requested /\ EndCommand("SUCCEEDED")
  /\ UNCHANGED <<routineVars, triggerVars>>

-----------------------------------------------------------------------------
NodeInit ==
  /\ Init
  /\ trigger = [g \in TriggerGoals |-> "unsent"]
  /\ context = NoGoal
  /\ commandGoal = [c \in CommandGoals |-> "unsent"]
  /\ commandTimer = CommandTimerIdle

NodeNext ==
  \/ \E g \in TriggerGoals : RejectTrigger(g)
  \/ \E g \in TriggerGoals, attach \in BOOLEAN : AcceptTrigger(g, attach)
  \/ \E g \in TriggerGoals : CancelTrigger(g)
  \/ StartDirect
  \/ ExecutionTimer
  \/ \E c \in CommandGoals, kind \in CommandKinds : RejectCommand(c, kind)
  \/ \E c \in CommandGoals, kind \in CommandKinds : AcceptCommand(c, kind)
  \/ \E c \in CommandGoals : CancelCommand(c)
  \/ CommandTimer

NodeSpec == NodeInit /\ [][NodeNext]_vars

\* Both timers keep firing while they are active.
FairNodeSpec ==
  /\ NodeSpec
  /\ WF_vars(ExecutionTimer)
  /\ WF_vars(CommandTimer)
-----------------------------------------------------------------------------
\* Type invariant: the statuses of the goals, and what the two server objects
\* refer to.
NodeTypeOK ==
  /\ TypeOK
  /\ trigger \in [TriggerGoals -> GoalStatus]
  /\ context \in TriggerGoals \cup {NoGoal}
  /\ commandGoal \in [CommandGoals -> GoalStatus]
  /\ commandTimer \in [goal : CommandGoals \cup {NoGoal}, requested : ExecutionState]

\* A trigger goal is active exactly while the context refers to it, and then its
\* tree is executing: no goal is left behind by an execution that ended or that
\* failed to start, and no execution answers another one's goal.
ContextTracksGoal ==
  /\ \A g \in TriggerGoals : trigger[g] \in Active <=> context = g
  /\ context # NoGoal => IsBusy

\* The command timer serves exactly the active command goal, so there is never
\* a second one, and none that nobody will answer.
TimerTracksCommand ==
  \A c \in CommandGoals : commandGoal[c] \in Active <=> commandTimer.goal = c

\* Both callers of an attached goal take it for done exactly if its tree succeeded
\* or was canceled.
CallersAgree(status, result) ==
  LET done == result = "TREE_SUCCEEDED" \/ status = "CANCELED"
  IN  /\ StartExecutorReturns(status, TreeResult(result), TRUE)
           = IF done THEN "SUCCESS" ELSE "throws"
      /\ CallReturns(status) = IF done THEN 0 ELSE 1

\* An attached goal ends in the step that ends its execution, with the status
\* that tells the execution's result; it is only reported canceled if its client
\* asked for that and the tree did not complete.  Its callers agree: both take a
\* goal for done whose tree succeeded or was canceled, and a tree that failed ends
\* the tree of the node that started it (start_executor.cpp:97-128).
OutcomeReported ==
  [][\A g \in TriggerGoals :
       trigger[g] \in Active /\ trigger'[g] \notin Active =>
         /\ IsBusy /\ ~IsBusy'
         /\ trigger'[g] = "SUCCEEDED" <=> promise' = "TREE_SUCCEEDED"
         /\ trigger'[g] = "CANCELED" <=>
              (trigger[g] = "CANCELING" /\ promise' = "TERMINATED_PREMATURELY")
         /\ CallersAgree(trigger'[g], promise')]_vars

\* A cancellation that was accepted is answered, whatever the tree does, unless
\* a later command overrules it: while a goal's execution goes on, nothing but a
\* command that is accepted afterwards takes back a TERMINATE that was set.
CancelCompletes ==
  /\ \A g \in TriggerGoals :
       trigger[g] = "CANCELING" ~> (trigger[g] \notin Active \/ command # "TERMINATE")
  /\ [][(command = "TERMINATE" /\ command' # "TERMINATE" /\ context # NoGoal) =>
          \E c \in CommandGoals :
            commandGoal[c] = "unsent" /\ commandGoal'[c] = "EXECUTING"]_vars

\* The routine follows the command that c asked for.
InForce(c) ==
  /\ commandGoal[c] = "EXECUTING" /\ IsBusy
  /\ \E kind \in CommandKinds :
       commandTimer.requested = RequestedState(kind) /\ command = RequestedCommand(kind)

\* A command the routine follows is answered, even if a cancellation or the end
\* of the tree gets in its way, unless the next execution overrules it.  A PAUSE
\* may not be (see AcceptedPausePauses), nor a RESUME of a tree that is restarted
\* for ever: the command timer may only ever see it between two of its runs.
CommandCompletes ==
  \A c \in CommandGoals :
    \/ InForce(c) /\ commandTimer.requested # "PAUSED" ~>
         (commandGoal[c] \notin Active \/ ~InForce(c))
    \/ []<>(InForce(c) /\ commandTimer.requested = "RUNNING" /\ tree = "IDLE")

\* handle_command_goal_() accepts PAUSE in STARTING and says that the tree "will
\* PAUSE" (generic_executor_node.cpp:582).
AcceptedPausePauses ==
  \A c \in CommandGoals :
    (commandGoal[c] = "EXECUTING" /\ commandTimer.requested = "PAUSED" /\
       GetExecutionState = "STARTING")
      ~> (GetExecutionState = "PAUSED" \/ commandGoal[c] \notin Active)

=============================================================================
