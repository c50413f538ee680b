------------------------------ MODULE TreeNodes ------------------------------
(***************************************************************************)
(* The subscriber nodes and a service node over the lives of the trees     *)
(* they belong to.  executor_base.cpp creates a tree before it drops the   *)
(* former one, destroys it when the execution ends, and runs the callbacks *)
(* of its nodes before each tick.                                          *)
(*                                                                         *)
(* The nodes of a tick are ticked one by one.  Callbacks are allowed       *)
(* between any two of them: cancelGoal() of an action node that is halted  *)
(* in the middle of a tick spins the same executor.                        *)
(***************************************************************************)
EXTENDS RosServiceNode, RosSubscriberNode

VARIABLE running  \* an execution ticks the tree and runs its callbacks

vars == <<serviceVars, subscriberVars, running>>

TypeOK ==
  /\ ServiceTypeOK /\ SubscriberTypeOK
  /\ running \in BOOLEAN
  /\ running => alive # {}

Init == ServiceInit /\ SubscriberInit /\ running = FALSE

\* The tree is built and owned; the former tree, left by a start that failed,
\* is destroyed.  Without a Groot2 publisher, the routine does not start.
StartExecution ==
  /\ ~running
  /\ Construct /\ DestroyService
  /\ running' \in BOOLEAN

\* Mutant: the tree is destroyed while the timer keeps ticking it.
TerminateKeepsTimer ==
  /\ running /\ running' = running
  /\ DestroySubscribers /\ DestroyService

\* The execution ends, with or without an error thrown by a node.
Terminate ==
  /\ running /\ running' = FALSE
  /\ DestroySubscribers /\ DestroyService

ServiceStep == running /\ ServiceNext /\ UNCHANGED <<subscriberVars, running>>

ReceiveStep == \E t \in Topics : Receive(t)
TickSubscriber == \E n \in Nodes : TickSubscribed(n) \/ TickSubscribes(n)

SubscriberStep ==
  /\ running
  /\ ReceiveStep \/ TickSubscriber
  /\ UNCHANGED <<serviceVars, running>>

WriteEntry ==
  /\ \E t \in Topics \cup {None} : SetEntry(t)
  /\ UNCHANGED <<serviceVars, running>>

Next ==
  /\ ~corrupted
  /\ \/ StartExecution \/ Terminate
     \/ ServiceStep \/ SubscriberStep \/ WriteEntry

Spec == Init /\ [][Next]_vars

-----------------------------------------------------------------------------
(***************************************************************************)
(* The timer keeps firing, so that a running node is ticked, and the clock *)
(* goes on.  Nothing is assumed of the server.                             *)
(***************************************************************************)
Others == <<subscriberVars, running>>
Ticking == running /\ ~corrupted

Fairness ==
  /\ WF_vars(Ticking /\ TickService /\ UNCHANGED Others)
  /\ WF_vars(Ticking /\ TimeoutExpires /\ UNCHANGED Others)

FairSpec == Spec /\ Fairness

(***************************************************************************)
(* A service node that is ticked completes, or is reset with its tree: a   *)
(* server that never answers costs request_timeout, no more.  Nothing is   *)
(* said of a program that called back an object it had destroyed.          *)
(***************************************************************************)
ServiceCompletes == status = "RUNNING" ~> status # "RUNNING" \/ corrupted
=============================================================================
