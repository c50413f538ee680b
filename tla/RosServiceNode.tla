--------------------------- MODULE RosServiceNode ---------------------------
(***************************************************************************)
(* core/node/ros_service_node.hpp: a node of the behavior tree that sends  *)
(* a request to a service when it is ticked, and waits for the response.   *)
(*                                                                         *)
(* The callback of a request runs when the response arrives and the        *)
(* executor of the tree node waitables is spun, before a tick.  It writes  *)
(* response_, whichever request the node waits for by then.  The client    *)
(* keeps a request until its response arrives or it is removed; requests   *)
(* are numbered 1, 2, ... like request_id_.                                *)
(***************************************************************************)
EXTENDS Integers

CONSTANT MaxRequests  \* bound: how many requests the node sends

ASSUME ServiceAssumption == MaxRequests \in Nat \ {0}

VARIABLES
  status,    \* the node's status; DONE: SUCCESS or FAILURE
  request,   \* request_id_, 0: none sent yet
  pending,   \* the requests the client knows a callback for
  response,  \* the request response_ answers, 0: nullptr
  expired,   \* request_timeout has passed since time_request_sent_
  asked,     \* requests the server has not answered yet
  answered,  \* requests whose response is on its way
  halted     \* history: some activation of the node was halted

nodeVars == <<status, request, pending, response, expired>>
serverVars == <<asked, answered>>
serviceVars == <<nodeVars, serverVars, halted>>

Requests == 1..MaxRequests

ServiceTypeOK ==
  /\ status \in {"IDLE", "RUNNING", "DONE"}
  /\ request \in 0..MaxRequests
  /\ pending \subseteq 1..request
  /\ response \in 0..request
  /\ expired \in BOOLEAN
  /\ asked \subseteq Requests /\ answered \subseteq Requests
  /\ asked \cap answered = {}
  /\ halted \in BOOLEAN

ServiceInit ==
  /\ status = "IDLE" /\ request = 0 /\ response = 0 /\ pending = {}
  /\ expired = FALSE
  /\ asked = {} /\ answered = {} /\ halted = FALSE

-----------------------------------------------------------------------------
(***************************************************************************)
(* tick() of an idle node.  setRequest() may refuse, or the service may    *)
(* not be ready: the node completes if onFailure() returns; if it throws,  *)
(* the tree is terminated (DestroyService).                                *)
(***************************************************************************)
StartFails ==
  /\ status = "IDLE"
  /\ status' = "DONE" /\ response' = 0
  /\ UNCHANGED <<request, pending, expired, serverVars, halted>>

SendRequest ==
  /\ status = "IDLE" /\ request < MaxRequests
  /\ status' = "RUNNING"
  /\ response' = 0 /\ expired' = FALSE
  /\ request' = request + 1
  /\ pending' = pending \cup {request'}
  /\ asked' = asked \cup {request'}
  /\ UNCHANGED <<answered, halted>>

\* Mutant: the request that timed out stays with the client.
TimeoutKeepsRequest ==
  /\ status = "RUNNING" /\ response = 0 /\ expired
  /\ status' = "DONE"
  /\ UNCHANGED <<request, pending, response, expired, serverVars, halted>>

\* tick() of a running node without a response, after the timeout.
TickTimesOut ==
  /\ status = "RUNNING" /\ response = 0 /\ expired
  /\ status' = "DONE"
  /\ pending' = pending \ {request}
  /\ UNCHANGED <<request, response, expired, serverVars, halted>>

\* Mutant: only the response of the node's own request completes it.
TickCompletesOwn ==
  /\ status = "RUNNING" /\ response = request
  /\ status' = "DONE"
  /\ UNCHANGED <<request, pending, response, expired, serverVars, halted>>

\* tick() of a running node with a response: onResponseReceived(response_).
TickCompletes ==
  /\ status = "RUNNING" /\ response # 0
  /\ status' = "DONE"
  /\ UNCHANGED <<request, pending, response, expired, serverVars, halted>>

\* The parent resets a node: halt() of a running one, nothing but the status.
HaltService ==
  /\ status # "IDLE"
  /\ status' = "IDLE"
  /\ halted' = IF status = "RUNNING" THEN TRUE ELSE halted
  /\ UNCHANGED <<request, pending, response, expired, serverVars>>

\* The node is destroyed with its tree, and the client with its last node; a
\* response that arrives later is nobody's.  The next tree has a new node.
DestroyService ==
  /\ status' = "IDLE" /\ pending' = {} /\ response' = 0 /\ expired' = FALSE
  /\ halted' = FALSE
  /\ UNCHANGED <<request, serverVars>>

-----------------------------------------------------------------------------
(***************************************************************************)
(* Time, the server and the client (rclcpp::Client), which drops the       *)
(* response of a request that is not pending.                              *)
(***************************************************************************)
TimeoutExpires ==
  /\ status = "RUNNING" /\ ~expired
  /\ expired' = TRUE
  /\ UNCHANGED <<status, request, pending, response, serverVars, halted>>

\* The server may answer in any order, or never.
Answer(r) ==
  /\ r \in asked
  /\ asked' = asked \ {r} /\ answered' = answered \cup {r}
  /\ UNCHANGED <<nodeVars, halted>>

ResponseArrives(r) ==
  /\ r \in answered
  /\ answered' = answered \ {r}
  /\ response' = IF r \in pending THEN r ELSE response
  /\ pending' = pending \ {r}
  /\ UNCHANGED <<status, request, expired, asked, halted>>

TickService == StartFails \/ SendRequest \/ TickTimesOut \/ TickCompletes

ServiceNext ==
  \/ TickService \/ HaltService
  \/ TimeoutExpires
  \/ \E r \in Requests : Answer(r) \/ ResponseArrives(r)

-----------------------------------------------------------------------------
(***************************************************************************)
(* As long as no activation was halted, a running node that has a response *)
(* has the response of its own request: activations that completed, failed *)
(* or timed out leave nothing behind for the next one (tick() resets       *)
(* response_ and removes the request; halt() does neither).                *)
(***************************************************************************)
OnlyHaltsLeaveResponses ==
  ~halted /\ status = "RUNNING" /\ response # 0 => response = request

(***************************************************************************)
(* "When ticked, this node sends a service request and awaits the response *)
(* asynchronously": what the node evaluates is the response of the request *)
(* it sent, and of no other.                                               *)
(***************************************************************************)
ResponseOfRequest ==
  status = "RUNNING" /\ response # 0 => response = request
=============================================================================
