------------------------ MODULE ActionClientWrapper ------------------------
(***************************************************************************)
(* auto_apms_util/action_client_wrapper.hpp: clients of a skill whose      *)
(* calls block until the server has answered or a timeout has passed.      *)
(* While a call blocks, and whenever its owner spins the node, the client  *)
(* handles what arrives.  Between client and server, the three services of *)
(* an action keep no order among each other.                               *)
(***************************************************************************)
EXTENDS ActionWrapper

CONSTANTS
  Clients, \* the client wrappers
  Sender,  \* Sender[g]: the client that sends g
  ToCancel \* bound of the model: the goals that may be canceled

ASSUME SenderAssumption == Sender \in [Goals -> Clients] /\ ToCancel \subseteq Goals

VARIABLES
  handle,  \* goal_handle_ptr_ of each client
  call,    \* what each client waits for: the response to a goal or a cancel request
  phase,   \* how far the client is with each goal
  cancel,  \* the cancel request of each goal on its way, or its answer
  told,    \* the goals for which syncCancelLastGoal() has returned true
  last,    \* the goal that each client has sent last (history)
  crossed  \* the last goal was sent while an earlier one was not done, or its call has
           \* timed out (history)

clientVars == <<handle, call, phase, cancel, told, last, crossed>>
vars == <<serverVars, clientVars>>

None == [kind |-> "none", goal |-> NoGoal]
Sending(g) == [kind |-> "send", goal |-> g]
Canceling(g) == [kind |-> "cancel", goal |-> g]

\* The goals of a client whose promise is not fulfilled.
Unfinished(c) == {g \in Goals : Sender[g] = c /\ phase[g] \in {"sent", "known"}}

TypeOK ==
  /\ ServerTypeOK
  /\ handle \in [Clients -> Goals \cup {NoGoal}] /\ last \in [Clients -> Goals \cup {NoGoal}]
  /\ call \in [Clients -> {None} \cup {Sending(g) : g \in Goals} \cup {Canceling(g) : g \in Goals}]
  /\ phase \in [Goals -> {"unsent", "sent", "known", "done"}]
  /\ cancel \in [Goals -> {"none", "requested", "granted", "denied"}]
  /\ told \subseteq Goals
  /\ crossed \in [Clients -> BOOLEAN]

Init ==
  /\ ServerInit
  /\ handle = [c \in Clients |-> NoGoal] /\ last = [c \in Clients |-> NoGoal]
  /\ call = [c \in Clients |-> None]
  /\ phase = [g \in Goals |-> "unsent"]
  /\ cancel = [g \in Goals |-> "none"]
  /\ told = {}
  /\ crossed = [c \in Clients |-> FALSE]

-----------------------------------------------------------------------------
(* syncSendGoal().                                                         *)

SendGoal(g) ==
  LET c == Sender[g]
  IN  /\ call[c] = None /\ phase[g] = "unsent"
      /\ phase' = [phase EXCEPT ![g] = "sent"]
      /\ call' = [call EXCEPT ![c] = Sending(g)]
      /\ last' = [last EXCEPT ![c] = g]
      /\ crossed' = [crossed EXCEPT ![c] = Unfinished(c) # {}]
      /\ UNCHANGED <<serverVars, handle, cancel, told>>

\* The response completes the call that waits for it.  Without such a call it has
\* timed out: the goal is on its way, but no handle of it is kept.
GoalResponse(g) ==
  LET c == Sender[g]
  IN  /\ phase[g] = "sent" /\ status[g] # "unknown"
      /\ phase' = [phase EXCEPT ![g] = IF status[g] = "rejected" THEN "done" ELSE "known"]
      /\ IF call[c] = Sending(g)
         THEN /\ call' = [call EXCEPT ![c] = None]
              /\ handle' = [handle EXCEPT ![c] = IF status[g] = "rejected" THEN @ ELSE g]
         ELSE UNCHANGED <<call, handle>>
      /\ UNCHANGED <<serverVars, cancel, told, last, crossed>>

\* The result callback fulfils the promise of its goal and resets the handle,
\* whichever goal that belongs to.
ResultArrives(g) ==
  /\ phase[g] = "known" /\ status[g] \in Terminal
  /\ phase' = [phase EXCEPT ![g] = "done"]
  /\ handle' = [handle EXCEPT ![Sender[g]] = NoGoal]
  /\ UNCHANGED <<serverVars, call, cancel, told, last, crossed>>

\* response_timeout passes, and the call throws.
TimeOut(c) ==
  /\ call[c] # None
  /\ call' = [call EXCEPT ![c] = None]
  /\ crossed' = [crossed EXCEPT ![c] = @ \/ call[c].kind = "send"]
  /\ UNCHANGED <<serverVars, handle, phase, cancel, told, last>>

-----------------------------------------------------------------------------
(* syncCancelLastGoal().                                                   *)

\* Bound of the model: one cancel request for a goal of ToCancel at a time.
CancelLastGoal(c) ==
  /\ call[c] = None
  /\ handle[c] \in ToCancel /\ cancel[handle[c]] = "none"
  /\ call' = [call EXCEPT ![c] = Canceling(handle[c])]
  /\ cancel' = [cancel EXCEPT ![handle[c]] = "requested"]
  /\ UNCHANGED <<serverVars, handle, phase, told, last, crossed>>

\* The server asks the wrapper only about a goal that executes.
AnswerCancel(g) ==
  /\ cancel[g] = "requested"
  /\ \/ \E granted \in BOOLEAN :
          /\ HandleCancel(g, granted)
          /\ cancel' = [cancel EXCEPT ![g] = IF granted THEN "granted" ELSE "denied"]
     \/ /\ status[g] # "executing"
        /\ cancel' = [cancel EXCEPT ![g] = "denied"]
        /\ UNCHANGED serverVars
  /\ UNCHANGED <<handle, call, phase, told, last, crossed>>

\* Mutant: a goal that was canceled is forgotten at once.
CancelResponseForgets(g) ==
  LET c == Sender[g]
  IN  /\ cancel[g] \in {"granted", "denied"}
      /\ cancel' = [cancel EXCEPT ![g] = "none"]
      /\ handle' = [handle EXCEPT ![c] = IF cancel[g] = "granted" THEN NoGoal ELSE @]
      /\ IF call[c] = Canceling(g)
         THEN /\ call' = [call EXCEPT ![c] = None]
              /\ told' = IF cancel[g] = "granted" THEN told \cup {g} ELSE told
         ELSE UNCHANGED <<call, told>>
      /\ UNCHANGED <<serverVars, phase, last, crossed>>

CancelResponse(g) ==
  LET c == Sender[g]
  IN  /\ cancel[g] \in {"granted", "denied"}
      /\ cancel' = [cancel EXCEPT ![g] = "none"]
      /\ IF call[c] = Canceling(g)
         THEN /\ call' = [call EXCEPT ![c] = None]
              /\ told' = IF cancel[g] = "granted" THEN told \cup {g} ELSE told
         ELSE UNCHANGED <<call, told>>
      /\ UNCHANGED <<serverVars, handle, phase, last, crossed>>

-----------------------------------------------------------------------------
\* The server takes the request of a goal that was sent.
DecideGoal(g) == phase[g] = "sent" /\ (RejectGoal(g) \/ AcceptGoal(g)) /\ UNCHANGED clientVars

RunTimer == TimerCallback /\ UNCHANGED clientVars

Next ==
  \/ \E g \in Goals :
       \/ SendGoal(g) \/ DecideGoal(g) \/ GoalResponse(g) \/ ResultArrives(g)
       \/ AnswerCancel(g) \/ CancelResponse(g)
  \/ \E c \in Clients : CancelLastGoal(c) \/ TimeOut(c)
  \/ RunTimer

\* The network delivers, the owner of a client spins it while it waits for a
\* result, and the derived class ends its work.
Fairness ==
  /\ \A g \in Goals : WF_vars(DecideGoal(g)) /\ WF_vars(GoalResponse(g)) /\ WF_vars(ResultArrives(g))
  /\ WF_vars(WorkEnds /\ UNCHANGED clientVars)

Spec == Init /\ [][Next]_vars
FairSpec == Spec /\ Fairness

-----------------------------------------------------------------------------
(* Properties.                                                             *)

\* A goal ends with a result that no other goal had a part in, although the
\* context's buffer and the timer are shared; and a goal whose client was told
\* that it is canceled does not succeed.
OutcomeIsItsOwn ==
  \A g \in Goals :
    /\ status[g] \in Terminal => result[g] = {g}
    /\ g \in told => status[g] \in {"canceling", "canceled", "aborted"}

\* The active goal handle never belongs to a goal that is done, and if the owner
\* awaits the end of a goal before it sends the next one, and is not timed out,
\* syncCancelLastGoal() concerns the last goal for as long as that runs.
LastGoalIsHeld ==
  \A c \in Clients :
    /\ handle[c] # NoGoal => phase[handle[c]] = "known"
    /\ last[c] # NoGoal /\ phase[last[c]] = "known" /\ ~crossed[c] =>
         handle[c] = last[c]

\* The promise of a goal that is sent is fulfilled: the wrapper never drops a goal
\* that it has accepted.
PromisesKept == \A g \in Goals : phase[g] = "sent" ~> phase[g] = "done"
=============================================================================
