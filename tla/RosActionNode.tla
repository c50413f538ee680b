---------------------------- MODULE RosActionNode ----------------------------
(***************************************************************************)
(* core/node/ros_action_node.hpp: a node of the behavior tree that sends a *)
(* goal to an action server when it is ticked, and cancels it when it is   *)
(* halted.  The node sends one goal after the other (1, 2, ...), as the    *)
(* tree comes back to it.                                                  *)
(*                                                                         *)
(* The callbacks of the action client are run by the executor that is spun *)
(* before each tick of the tree, and by cancelGoal() while it waits.  The  *)
(* client (rclcpp_action) and the server are external: a goal request, a   *)
(* cancel request and a result request are three services, so their        *)
(* answers may overtake each other.                                        *)
(***************************************************************************)
EXTENDS Integers

CONSTANTS
  MaxGoals,      \* bound: how many goals the node sends
  Environments   \* the servers and networks the node may meet

(***************************************************************************)
(* An environment tells whether every answer arrives within the            *)
(* request_timeout, whether answers arrive in the order the server gave    *)
(* them, and whether a cancel request for an executing goal is granted.    *)
(***************************************************************************)
ASSUME ActionAssumption ==
  /\ MaxGoals \in Nat \ {0}
  /\ Environments \subseteq [timely : BOOLEAN, inOrder : BOOLEAN, cancelHonoured : BOOLEAN]

VARIABLES
  status,            \* the node's status; a completed node is set to IDLE again
  pc,                \* what cancelGoal() waits for, "none" outside of it
  halting,           \* it was last called by halt(), not by tick()
  target,            \* the goal it waits for, 0: none
  future,            \* the goal future_goal_handle_ is for, 0: not valid
  handle,            \* the goal goal_handle_ is for, 0: nullptr
  responseReceived,  \* goal_response_received_
  rejected,          \* goal_rejected_
  stopRequested,     \* on_feedback_state_change_ is not RUNNING
  resultReceived,    \* result_received_
  result             \* the goal result_ is from, 0: none

VARIABLES
  environment,  \* never changes
  goal,    \* the number of the goal sent last
  client,  \* per goal: what the action client knows of it
  server,  \* per goal: what the server made of it
  cancel   \* per goal: its cancel request and the answer

waitVars == <<pc, halting, target>>
flagVars == <<responseReceived, rejected, stopRequested, resultReceived, result>>
nodeVars == <<status, waitVars, future, handle, flagVars>>
environmentVars == <<environment, goal, client, server, cancel>>
vars == <<nodeVars, environmentVars>>

Timely == environment.timely
InOrder == environment.inOrder
CancelHonoured == environment.cancelHonoured

Goals == 1..MaxGoals
Waits == {"goalResponse", "cancelResponse", "result"}
\* An exception left cancelGoal(), or a null pointer was dereferenced: the tree
\* is destroyed, or the process ends.
Broken == {"threw", "crashed"}

\* The answer to the awaited cancel request is there; the server gives the result
\* of a goal before it says that the goal has terminated.
CancelResponseArrived ==
  /\ cancel[target] \in {"granted", "refused", "terminated"}
  /\ InOrder /\ cancel[target] = "terminated" => client[target] = "done"

\* The awaited future is complete.
AwaitedAnswered ==
  \/ pc = "goalResponse" /\ client[future] # "sent"
  \/ pc = "cancelResponse" /\ CancelResponseArrived
  \/ pc = "result" /\ client[target] = "done"

-----------------------------------------------------------------------------
(***************************************************************************)
(* cancelGoal().  It waits in up to three places; the flags and the handle *)
(* may change meanwhile, because waiting runs the client's callbacks.      *)
(***************************************************************************)
\* halt() resets the status; tick() returns on_feedback_state_change_ as it is by
\* then, so a feedback handled meanwhile may keep the node running.
Return ==
  /\ pc' = "none" /\ target' = 0
  /\ status' = IF halting' \/ stopRequested THEN "IDLE" ELSE "RUNNING"

Break(how) == pc' = how /\ UNCHANGED <<target, status>>

\* The part that starts once no goal response is outstanding.
RequestCancel(h, isRejected) ==
  \/ /\ isRejected \/ h = 0
     /\ Return /\ UNCHANGED cancel
  \/ /\ ~isRejected /\ h # 0 /\ client[h] # "active"
     /\ Break("threw")  \* async_cancel_goal(): UnknownGoalHandleError
     /\ UNCHANGED cancel
  \/ /\ ~isRejected /\ h # 0 /\ client[h] = "active"
     /\ cancel' = [cancel EXCEPT ![h] = "requested"]
     /\ pc' = "cancelResponse" /\ target' = h
     /\ UNCHANGED status

CancelGoal(f) ==
  \/ /\ f # 0
     /\ pc' = "goalResponse"
     /\ UNCHANGED <<target, status, cancel>>
  \/ f = 0 /\ RequestCancel(handle, rejected)

GoalResponseAwaited ==
  /\ pc = "goalResponse" /\ client[future] # "sent" /\ UNCHANGED halting
  /\ rejected' = (client[future] = "rejected")
  /\ handle' = IF rejected' THEN 0 ELSE future
  /\ future' = 0
  /\ RequestCancel(handle', rejected')
  /\ UNCHANGED <<responseReceived, stopRequested, resultReceived, result, environment, goal, client, server>>

\* handle may have been reset by a result meanwhile: what async_get_result()
\* does with a null pointer is undefined.
CancelAnswered ==
  /\ pc = "cancelResponse" /\ CancelResponseArrived /\ UNCHANGED halting
  /\ cancel' = [cancel EXCEPT ![target] = "answered"]
  /\ \/ /\ cancel[target] = "granted" /\ handle # 0 /\ client[handle] = "active"
        /\ pc' = "result" /\ target' = handle
        /\ UNCHANGED <<status, handle>>
     \/ /\ cancel[target] = "granted" /\ ~(handle # 0 /\ client[handle] = "active")
        /\ \E how \in Broken : Break(how)
        /\ UNCHANGED handle
     \/ /\ cancel[target] # "granted"
        /\ handle' = 0 /\ Return
  /\ UNCHANGED <<future, flagVars, environment, goal, client, server>>

ResultAwaited ==
  /\ pc = "result" /\ client[target] = "done" /\ UNCHANGED halting
  /\ handle' = 0 /\ Return
  /\ UNCHANGED <<future, flagVars, environmentVars>>

\* request_timeout passes.  Without a goal response, cancelGoal() gives up and
\* keeps the future.
CancelTimesOut ==
  /\ ~Timely /\ pc \in Waits /\ ~AwaitedAnswered /\ UNCHANGED halting
  /\ handle' = IF pc = "goalResponse" THEN handle ELSE 0
  /\ Return
  /\ UNCHANGED <<future, flagVars, environmentVars>>

-----------------------------------------------------------------------------
(***************************************************************************)
(* tick() and halt().                                                      *)
(***************************************************************************)
ResetFlags ==
  /\ responseReceived' = FALSE /\ rejected' = FALSE /\ stopRequested' = FALSE
  /\ resultReceived' = FALSE /\ result' = 0

\* SERVER_UNREACHABLE or INVALID_GOAL: onFailure() completes the node.
StartFails ==
  /\ pc = "none" /\ status = "IDLE"
  /\ ResetFlags
  /\ UNCHANGED <<status, waitVars, future, handle, environmentVars>>

SendGoal ==
  /\ pc = "none" /\ status = "IDLE" /\ goal < MaxGoals
  /\ status' = "RUNNING"
  /\ goal' = goal + 1 /\ future' = goal'
  /\ client' = [client EXCEPT ![goal'] = "sent"]
  /\ server' = [server EXCEPT ![goal'] = "requested"]
  /\ UNCHANGED <<waitVars, handle, environment, cancel>>

\* Mutant: the result flag of the previous goal is not reset.
StartKeepsResult ==
  /\ SendGoal
  /\ responseReceived' = FALSE /\ rejected' = FALSE /\ stopRequested' = FALSE
  /\ UNCHANGED <<resultReceived, result>>

Start == SendGoal /\ ResetFlags

SendGoalTimesOut ==
  /\ ~Timely
  /\ pc = "none" /\ status = "RUNNING" /\ ~responseReceived
  /\ status' = "IDLE"
  /\ UNCHANGED <<waitVars, future, handle, flagVars, environmentVars>>

\* Mutant: a rejection is not looked at, the result is waited for.
TickIgnoresRejection ==
  /\ pc = "none" /\ status = "RUNNING" /\ responseReceived
  /\ future' = 0
  /\ \/ stopRequested /\ halting' = FALSE /\ CancelGoal(0)
     \/ /\ ~stopRequested
        /\ status' = IF resultReceived THEN "IDLE" ELSE "RUNNING"
        /\ UNCHANGED <<waitVars, cancel>>
  /\ UNCHANGED <<handle, flagVars, environment, goal, client, server>>

\* A tick after the goal response: the node completes, is stopped by a feedback
\* or goes on waiting for the result.
TickAnswered ==
  /\ pc = "none" /\ status = "RUNNING" /\ responseReceived
  /\ future' = 0
  /\ \/ /\ future # 0 /\ rejected
        /\ status' = "IDLE"
        /\ UNCHANGED <<waitVars, cancel>>
     \/ /\ ~(future # 0 /\ rejected) /\ stopRequested
        /\ halting' = FALSE /\ CancelGoal(0)
     \/ /\ ~(future # 0 /\ rejected) /\ ~stopRequested
        /\ status' = IF resultReceived THEN "IDLE" ELSE "RUNNING"
        /\ UNCHANGED <<waitVars, cancel>>
  /\ UNCHANGED <<handle, flagVars, environment, goal, client, server>>

\* Mutant: a goal response that is outstanding is not awaited.
HaltAbandons ==
  /\ pc = "none" /\ status = "RUNNING"
  /\ halting' = TRUE /\ CancelGoal(0)
  /\ UNCHANGED <<future, handle, flagVars, environment, goal, client, server>>

Halt ==
  /\ pc = "none" /\ status = "RUNNING"
  /\ halting' = TRUE /\ CancelGoal(future)
  /\ UNCHANGED <<future, handle, flagVars, environment, goal, client, server>>

-----------------------------------------------------------------------------
(***************************************************************************)
(* The callbacks of the action client.                                     *)
(***************************************************************************)
\* Callbacks run between two ticks, and while cancelGoal() waits until what it
\* waits for is there.
Spinning == pc = "none" \/ (pc \in Waits /\ ~AwaitedAnswered)

GoalResponse(g) ==
  /\ Spinning
  /\ client[g] = "sent" /\ server[g] # "requested"
  /\ responseReceived' = TRUE
  /\ rejected' = (server[g] = "rejected")
  /\ handle' = IF rejected' THEN 0 ELSE g
  /\ client' = [client EXCEPT ![g] = IF rejected' THEN "rejected" ELSE "active"]
  /\ UNCHANGED <<status, waitVars, future, stopRequested, resultReceived, result,
                 environment, goal, server, cancel>>

\* The client knows a goal until its result arrived, so the node also sees the
\* feedback of a goal it no longer cares for.  A later feedback may take back
\* the wish to stop.
Feedback(g) ==
  /\ Spinning
  /\ client[g] = "active"
  /\ stopRequested' \in BOOLEAN
  /\ UNCHANGED <<status, waitVars, future, handle, responseReceived, rejected,
                 resultReceived, result, environmentVars>>

\* Mutant: the result of a goal leaves its handle in place.
ResultKeepsHandle(g) ==
  /\ Spinning
  /\ client[g] = "active" /\ server[g] = "terminal"
  /\ InOrder => cancel[g] # "granted"
  /\ resultReceived' = TRUE /\ result' = g
  /\ client' = [client EXCEPT ![g] = "done"]
  /\ UNCHANGED <<status, waitVars, future, handle, responseReceived, rejected, stopRequested,
                 environment, goal, server, cancel>>

ResultArrives(g) ==
  /\ Spinning
  /\ client[g] = "active" /\ server[g] = "terminal"
  /\ InOrder => cancel[g] # "granted"
  /\ resultReceived' = TRUE /\ result' = g /\ handle' = 0
  /\ client' = [client EXCEPT ![g] = "done"]
  /\ UNCHANGED <<status, waitVars, future, responseReceived, rejected, stopRequested,
                 environment, goal, server, cancel>>

-----------------------------------------------------------------------------
(***************************************************************************)
(* The action server.                                                      *)
(***************************************************************************)
Decide(g) ==
  /\ server[g] = "requested"
  /\ \E decision \in {"executing", "rejected"} :
       server' = [server EXCEPT ![g] = decision]
  /\ UNCHANGED <<nodeVars, environment, goal, client, cancel>>

End(g) ==
  /\ server[g] \in {"executing", "canceling"}
  /\ server' = [server EXCEPT ![g] = "terminal"]
  /\ UNCHANGED <<nodeVars, environment, goal, client, cancel>>

AnswerCancel(g) ==
  /\ cancel[g] = "requested"
  /\ \/ /\ server[g] = "terminal"
        /\ cancel' = [cancel EXCEPT ![g] = "terminated"]
        /\ UNCHANGED server
     \/ /\ server[g] = "executing"
        /\ cancel' = [cancel EXCEPT ![g] = "granted"]
        /\ server' = [server EXCEPT ![g] = "canceling"]
     \/ /\ server[g] = "executing" /\ ~CancelHonoured
        /\ cancel' = [cancel EXCEPT ![g] = "refused"]
        /\ UNCHANGED server
  /\ UNCHANGED <<nodeVars, environment, goal, client>>

-----------------------------------------------------------------------------
Init ==
  /\ environment \in Environments
  /\ status = "IDLE" /\ pc = "none" /\ halting = FALSE /\ target = 0 /\ future = 0 /\ handle = 0
  /\ responseReceived = FALSE /\ rejected = FALSE /\ stopRequested = FALSE
  /\ resultReceived = FALSE /\ result = 0
  /\ goal = 0
  /\ client = [g \in Goals |-> "unsent"]
  /\ server = [g \in Goals |-> "unsent"]
  /\ cancel = [g \in Goals |-> "none"]

CancelSteps == GoalResponseAwaited \/ CancelAnswered \/ ResultAwaited \/ CancelTimesOut
NodeSteps == StartFails \/ Start \/ SendGoalTimesOut \/ TickAnswered \/ Halt

Next ==
  \/ CancelSteps
  \/ NodeSteps
  \/ \E g \in Goals : GoalResponse(g) \/ Feedback(g) \/ ResultArrives(g)
  \/ \E g \in Goals : Decide(g) \/ End(g) \/ AnswerCancel(g)

Spec == Init /\ [][Next]_vars

\* The tree keeps ticking a running node, cancelGoal() keeps spinning, and the
\* server, an external program, answers and terminates what it is sent.
FairSpec ==
  /\ Spec
  /\ WF_vars(CancelSteps)
  /\ WF_vars(TickAnswered)
  /\ \A g \in Goals : WF_vars(GoalResponse(g)) /\ WF_vars(ResultArrives(g))
  /\ \A g \in Goals : WF_vars(Decide(g)) /\ WF_vars(End(g)) /\ WF_vars(AnswerCancel(g))
-----------------------------------------------------------------------------
\* Type invariant.
TypeOK ==
  /\ status \in {"IDLE", "RUNNING"}
  /\ pc \in {"none"} \cup Waits \cup Broken
  /\ {target, future, handle, result, goal} \subseteq 0..MaxGoals
  /\ {halting, responseReceived, rejected, stopRequested, resultReceived} \subseteq BOOLEAN
  /\ client \in [Goals -> {"unsent", "sent", "rejected", "active", "done"}]
  /\ server \in [Goals -> {"unsent", "requested", "rejected", "executing", "canceling",
                           "terminal"}]
  /\ cancel \in [Goals -> {"none", "requested", "granted", "refused", "terminated",
                           "answered"}]

\* The result a tick completes the node with is the result of its own goal, not
\* that of an earlier activation.
ResultOfCurrentGoal ==
  Timely /\ InOrder /\ CancelHonoured /\ status = "RUNNING" /\ resultReceived => result = goal

\* "When halted, the node blocks until both the action was cancelled and the
\* result was received" (ros_action_node.hpp:63-64): an activation only ends once
\* the client knows how its goal ended.
\* So it does when answers are in time and in order, and cancel requests granted
\* (it does not otherwise: see the hazards of cancelGoal()).
BlocksInGoodOrder ==
  [][Timely /\ InOrder /\ CancelHonoured /\ status = "RUNNING" /\ status' = "IDLE" =>
       client'[goal] \in {"rejected", "done"}]_vars

\* While cancelGoal() is trusted with it, goal_handle_ is the handle of a goal the
\* client still knows: a late result of any goal never leaves a dead handle behind.
HandleIsKnown == pc # "threw" /\ handle # 0 => client[handle] = "active"

\* A node that is ticked again and again completes, whichever answers are late or
\* belong to an earlier goal.
NodeCompletes == status = "RUNNING" ~> (status = "IDLE" \/ pc \in Broken)
=============================================================================
