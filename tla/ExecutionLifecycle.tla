------------------------- MODULE ExecutionLifecycle -------------------------
(***************************************************************************)
(* What a behavior tree executor promises to whoever observes it: the      *)
(* execution state it reports (TreeExecutorBase::ExecutionState) and the   *)
(* result code of the future that startExecution() returned last           *)
(* (TreeExecutorBase::ExecutionResult).  Ticks, commands and callbacks are *)
(* not visible here; ExecutionRoutine implements this specification.       *)
(***************************************************************************)

CONSTANT AfterTickMayAbort  \* a Boolean: an override of afterTick() may return false

VARIABLES
  state,    \* what getExecutionState() returns
  outcome   \* the future of the latest execution: none, pending or a result

lifecycleVars == <<state, outcome>>

States  == {"IDLE", "STARTING", "RUNNING", "PAUSED", "HALTED"}
Results == {"TREE_SUCCEEDED", "TREE_FAILED", "TERMINATED_PREMATURELY", "ERROR"}

(***************************************************************************)
(* The states an execution may pass to while it goes on.  PAUSED is only   *)
(* entered from RUNNING: pausing an execution that has not started, or     *)
(* that was halted, makes it report STARTING.                              *)
(***************************************************************************)
Successors(s) ==
  CASE s = "STARTING" -> {"STARTING", "RUNNING", "HALTED"}
    [] s = "RUNNING"  -> {"RUNNING", "PAUSED", "HALTED"}
    [] s = "PAUSED"   -> {"PAUSED", "RUNNING", "HALTED"}
    [] s = "HALTED"   -> {"HALTED", "RUNNING", "STARTING"}
    [] OTHER          -> {}

Init == state = "IDLE" /\ outcome = "none"

Begin ==
  /\ state = "IDLE"
  /\ state' = "STARTING"
  /\ outcome' = "pending"

Move ==
  /\ state # "IDLE"
  /\ state' \in Successors(state)
  /\ UNCHANGED outcome

\* The future is resolved in the very step that ends the execution, and a
\* premature termination is the end of an execution that was halted before.
Finish ==
  /\ state # "IDLE"
  /\ state' = "IDLE"
  /\ outcome = "pending"
  /\ outcome' \in Results
  /\ outcome' = "TERMINATED_PREMATURELY" => (state = "HALTED" \/ AfterTickMayAbort)

Next == Begin \/ Move \/ Finish

Spec == Init /\ [][Next]_lifecycleVars
=============================================================================
