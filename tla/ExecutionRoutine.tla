-------------------------- MODULE ExecutionRoutine --------------------------
(***************************************************************************)
(* TreeExecutorBase (executor/executor_base.cpp): the timer-driven routine *)
(* that ticks one behavior tree at a time under a control command.         *)
(*                                                                         *)
(* Every callback of the node runs in its default, mutually exclusive      *)
(* callback group, so a call of the timer callback, of startExecution() or *)
(* of setControlCommand() is one step.  The tree is seen through the       *)
(* status of its root node; what the virtual hooks return is an input.     *)
(***************************************************************************)
EXTENDS Integers

CONSTANTS
  OnInitialTick,  \* the values an override of onInitialTick() may return
  OnTick,         \* the values an override of onTick() may return
  AfterTick,      \* the values an override of afterTick() may return
  OnTreeExit      \* the values an override of onTreeExit() may return

ASSUME HookAssumption ==
  /\ OnInitialTick \in (SUBSET BOOLEAN) \ {{}}
  /\ OnTick \in (SUBSET BOOLEAN) \ {{}}
  /\ AfterTick \in (SUBSET BOOLEAN) \ {{}}
  /\ OnTreeExit \in (SUBSET {"TERMINATE", "RESTART"}) \ {{}}

VARIABLES
  timer,         \* execution_timer_ptr_: "none", "active" or "canceled"
  tree,          \* tree_ptr_: "null", else the status of the root node
  stopped,       \* execution_stopped_
  command,       \* control_command_
  reason,        \* termination_reason_: "none" or the hook that returned false
  promise,       \* the promise behind the future of the latest execution
  initialTicks   \* history: calls of onInitialTick() in this execution, to 2

routineVars == <<timer, tree, stopped, command, reason, promise, initialTicks>>

ExecutionState == {"IDLE", "STARTING", "RUNNING", "PAUSED", "HALTED"}
ControlCommand == {"RUN", "PAUSE", "HALT", "TERMINATE"}
ExecutionResult ==
  {"TREE_SUCCEEDED", "TREE_FAILED", "TERMINATED_PREMATURELY", "ERROR"}

(***************************************************************************)
(* Observers.                                                              *)
(***************************************************************************)
IsBusy == timer = "active"

GetExecutionState ==
  CASE ~IsBusy -> "IDLE"
    [] IsBusy /\ tree = "IDLE" /\ stopped  -> "STARTING"
    [] IsBusy /\ tree = "IDLE" /\ ~stopped -> "HALTED"
    [] IsBusy /\ tree # "IDLE" /\ stopped  -> "PAUSED"
    [] OTHER                               -> "RUNNING"

(***************************************************************************)
(* startExecution().                                                       *)
(***************************************************************************)
\* Mutant: the execution state variables keep the values of the previous run.
StartKeepsCommand ==
  /\ ~IsBusy
  /\ timer' = "active" /\ tree' = "IDLE"
  /\ promise' = "pending" /\ initialTicks' = 0
  /\ UNCHANGED <<stopped, command, reason>>

StartSucceeds ==
  /\ ~IsBusy
  /\ timer' = "active" /\ tree' = "IDLE"
  /\ stopped' = TRUE /\ command' = "RUN" /\ reason' = "none"
  /\ promise' = "pending" /\ initialTicks' = 0

\* make_tree() threw, or the given tree is null: nothing was changed yet.
StartFailsToBuild == ~IsBusy /\ UNCHANGED routineVars

\* BT::Groot2Publisher could not bind its port: the executor owns the tree
\* already, although no execution has begun.
StartFailsToPublish ==
  /\ ~IsBusy
  /\ tree' = "IDLE"
  /\ UNCHANGED <<timer, stopped, command, reason, promise, initialTicks>>

SetControlCommand(cmd) ==
  /\ command' = cmd
  /\ UNCHANGED <<timer, tree, stopped, reason, promise, initialTicks>>

(***************************************************************************)
(* The timer callback, tick_callback_().                                   *)
(***************************************************************************)
\* Mutant: the termination callback forgets to cancel the timer.
TerminateKeepsTimer(result) ==
  /\ promise' = result
  /\ tree' = "null"
  /\ UNCHANGED timer

Terminate(result) ==
  /\ promise' = result
  /\ timer' = "canceled"
  /\ tree' = "null"

\* haltTree(): every node of the tree becomes IDLE, or one of them throws.
HaltTree ==
  \/ tree' = "IDLE" /\ UNCHANGED <<timer, promise>>
  \/ Terminate("ERROR")

\* Mutant: TERMINATE falls through to HALT, and a tree that is halted stays so.
TerminateOnlyHalts ==
  \/ GetExecutionState = "HALTED" /\ UNCHANGED <<timer, tree, promise>>
  \/ GetExecutionState # "HALTED" /\ HaltTree

\* What TERMINATE does, and RUN once a hook returned false: the first call
\* halts the tree, the next one ends the execution.
TerminateHalted ==
  \/ /\ GetExecutionState = "HALTED"
     /\ Terminate("TERMINATED_PREMATURELY")
  \/ /\ GetExecutionState # "HALTED"
     /\ HaltTree

PauseTick ==
  /\ command = "PAUSE"
  /\ stopped' = TRUE
  /\ UNCHANGED <<timer, tree, command, reason, promise, initialTicks>>

HaltTick ==
  /\ command = "HALT"
  /\ stopped' = FALSE
  /\ \/ GetExecutionState = "HALTED" /\ UNCHANGED <<timer, tree, promise>>
     \/ GetExecutionState # "HALTED" /\ HaltTree
  /\ UNCHANGED <<command, reason, initialTicks>>

TerminateTick ==
  /\ command = "TERMINATE"
  /\ stopped' = FALSE
  /\ TerminateHalted
  /\ UNCHANGED <<command, reason, initialTicks>>

CountInitialTick ==
  initialTicks' = IF GetExecutionState = "STARTING" /\ initialTicks < 2
                    THEN initialTicks + 1 ELSE initialTicks

\* RUN, and a hook returned false before the tree was ticked.  The command
\* stays RUN, so the hooks are asked again at the next call.
AbortTick ==
  /\ command = "RUN"
  /\ \/ /\ GetExecutionState = "STARTING" /\ FALSE \in OnInitialTick
        /\ reason' = "onInitialTick"
     \/ /\ FALSE \in OnTick
        /\ GetExecutionState = "STARTING" => TRUE \in OnInitialTick
        /\ reason' = "onTick"
  /\ CountInitialTick
  /\ stopped' = FALSE
  /\ TerminateHalted
  /\ UNCHANGED command

\* tickExactlyOnce() and what follows it.  A completed root node is set back
\* to IDLE by BehaviorTree.CPP, so the tree can be ticked again.
TickReturns ==
  \/ Terminate("ERROR")
  \/ FALSE \in AfterTick /\ Terminate("TERMINATED_PREMATURELY")
  \/ TRUE \in AfterTick /\ tree' = "RUNNING" /\ UNCHANGED <<timer, promise>>
  \/ /\ TRUE \in AfterTick /\ "TERMINATE" \in OnTreeExit
     /\ \E result \in {"TREE_SUCCEEDED", "TREE_FAILED"} : Terminate(result)
  \/ /\ TRUE \in AfterTick /\ "RESTART" \in OnTreeExit
     /\ tree' = "IDLE" /\ UNCHANGED <<timer, promise>>

TreeTick ==
  /\ command = "RUN"
  /\ GetExecutionState = "STARTING" => TRUE \in OnInitialTick
  /\ TRUE \in OnTick
  /\ CountInitialTick
  /\ stopped' = FALSE
  /\ TickReturns
  /\ UNCHANGED <<command, reason>>

TickCallback ==
  /\ IsBusy
  /\ PauseTick \/ HaltTick \/ TerminateTick \/ AbortTick \/ TreeTick

(***************************************************************************)
(* The executor used through its C++ interface: anyone may start it and    *)
(* set any command at any time.                                            *)
(***************************************************************************)
Init ==
  /\ timer = "none" /\ tree = "null"
  /\ stopped = TRUE /\ command = "RUN" /\ reason = "none"
  /\ promise = "none" /\ initialTicks = 0

StartExecution == StartSucceeds \/ StartFailsToBuild \/ StartFailsToPublish

Next ==
  \/ StartExecution
  \/ \E cmd \in ControlCommand : SetControlCommand(cmd)
  \/ TickCallback

Spec == Init /\ [][Next]_routineVars

\* The timer keeps firing: the callback of an active timer is run again and
\* again by the node's executor, whatever the tree returns.
FairSpec == Spec /\ WF_routineVars(TickCallback)
-----------------------------------------------------------------------------
\* Type invariant: the values the members of TreeExecutorBase take.
TypeOK ==
  /\ timer \in {"none", "active", "canceled"}
  /\ tree \in {"null", "IDLE", "RUNNING"}
  /\ stopped \in BOOLEAN
  /\ command \in ControlCommand
  /\ reason \in {"none", "onInitialTick", "onTick"}
  /\ promise \in {"none", "pending"} \cup ExecutionResult
  /\ initialTicks \in 0..2

\* While the timer is active the executor owns a tree (getExecutionState()
\* would throw otherwise) and the future handed out by startExecution() is
\* unresolved; once the timer is not active, no future is left unresolved.
FutureMatchesTimer ==
  /\ IsBusy => tree # "null"
  /\ IsBusy <=> promise = "pending"

Lifecycle == INSTANCE ExecutionLifecycle
  WITH state <- GetExecutionState, outcome <- promise,
       AfterTickMayAbort <- FALSE \in AfterTick

\* The routine implements the lifecycle: an execution begins in STARTING, only
\* passes between the states the lifecycle allows, and resolves its future
\* exactly when it ends.
ImplementsLifecycle == Lifecycle!Spec
=============================================================================
