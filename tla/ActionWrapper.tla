--------------------------- MODULE ActionWrapper ---------------------------
(***************************************************************************)
(* auto_apms_util/action_wrapper.hpp and action_context.hpp: the server of *)
(* a skill.  The wrapper serves one goal at a time with the routines of a  *)
(* derived class; goal handle, result and feedback are kept in a context   *)
(* that all goals share, and a timer calls the routines.                   *)
(*                                                                         *)
(* The derived class may refuse goals and cancellations and end a goal as  *)
(* it likes.  Of the result, only who has written it is modelled.          *)
(***************************************************************************)
EXTENDS FiniteSets

CONSTANTS
  Goals,   \* the goals that are sent
  NoGoal   \* no goal, nullptr

ASSUME GoalAssumption == NoGoal \notin Goals

VARIABLES
  context, \* the goal whose handle the context keeps, also when it has ended
  timer,   \* the goal that execution_timer_ptr_ has captured, NoGoal: canceled
  writers, \* the goals that have written the context's result since setUp()
  status,  \* what the action server knows of each goal
  result   \* who has written the result that each goal ended with

serverVars == <<context, timer, writers, status, result>>

ActionStatus == {"RUNNING", "SUCCESS", "FAILURE"}
Terminal == {"succeeded", "canceled", "aborted"}
Active == {g \in Goals : status[g] \in {"executing", "canceling"}}

ServerTypeOK ==
  /\ context \in Goals \cup {NoGoal} /\ timer \in Goals \cup {NoGoal}
  /\ writers \subseteq Goals
  /\ status \in [Goals -> {"unknown", "rejected", "executing", "canceling"} \cup Terminal]
  /\ result \in [Goals -> SUBSET Goals]

ServerInit ==
  /\ context = NoGoal /\ timer = NoGoal /\ writers = {}
  /\ status = [g \in Goals |-> "unknown"]
  /\ result = [g \in Goals |-> {}]

-----------------------------------------------------------------------------
(* Requests of clients.                                                    *)

\* handle_goal_(): the goal in the context is active, or onGoalRequest() refuses.
RejectGoal(g) ==
  /\ status[g] = "unknown"
  /\ status' = [status EXCEPT ![g] = "rejected"]
  /\ UNCHANGED <<context, timer, writers, result>>

\* Mutant: the buffer of the result is not cleared.
SetUpAndKeepResult(g) == context' = g /\ writers' = writers \cup {g}

\* setUp() of the context, and setInitialResult().
SetUp(g) == context' = g /\ writers' = {g}

\* Mutant: the goal in the context may be active.
AcceptGoalAnytime(g) ==
  /\ status[g] = "unknown"
  /\ status' = [status EXCEPT ![g] = "executing"]
  /\ SetUp(g)
  /\ timer' = g
  /\ UNCHANGED result

\* handle_goal_() and handle_accepted_(), in one callback.  The timer of the goal
\* before, which may not have been canceled yet, is replaced.
AcceptGoal(g) ==
  /\ status[g] = "unknown"
  /\ context \notin Active
  /\ status' = [status EXCEPT ![g] = "executing"]
  /\ SetUp(g)
  /\ timer' = g
  /\ UNCHANGED result

\* handle_cancel_() asks onCancelRequest() about the goal in the context, with its
\* result, whichever goal is to be canceled.
HandleCancel(g, granted) ==
  /\ status[g] = "executing"
  /\ writers' = writers \cup {context}
  /\ status' = [status EXCEPT ![g] = IF granted THEN "canceling" ELSE @]
  /\ UNCHANGED <<context, timer, result>>

-----------------------------------------------------------------------------
(* execution_timer_callback_().                                            *)

\* The goal has terminated.
CancelTimer ==
  /\ timer # NoGoal
  /\ context \notin Active
  /\ timer' = NoGoal
  /\ UNCHANGED <<context, writers, status, result>>

\* A routine has been called for the captured goal and returned ret: if its work
\* is done, the goal in the context ends and takes the result along.
Returns(ret, success) ==
  /\ writers' = writers \cup {timer}
  /\ IF ret = "RUNNING"
     THEN UNCHANGED <<status, result>>
     ELSE /\ status' = [status EXCEPT ![context] = IF ret = "SUCCESS" THEN success ELSE "aborted"]
          /\ result' = [result EXCEPT ![context] = writers']
  /\ UNCHANGED <<context, timer>>

ExecuteGoal(ret) ==
  /\ timer # NoGoal
  /\ context \in Active /\ status[context] = "executing"
  /\ Returns(ret, "succeeded")

CancelGoal(ret) ==
  /\ timer # NoGoal
  /\ context \in Active /\ status[context] = "canceling"
  /\ Returns(ret, "canceled")

TimerCallback == CancelTimer \/ \E ret \in ActionStatus : ExecuteGoal(ret) \/ CancelGoal(ret)

\* The derived class does its work in the end.
WorkEnds == \E ret \in ActionStatus \ {"RUNNING"} : ExecuteGoal(ret) \/ CancelGoal(ret)
=============================================================================
