--------------------------- MODULE ParameterNodes ---------------------------
(***************************************************************************)
(* A tree with nodes that set, get and look for parameters of the executor *)
(* it runs on (SetParameter, GetParameter, HasParameter and their typed    *)
(* versions).  They use the parameter services of the executor's node, so  *)
(* the services, the parameter events and the ticks interleave; one        *)
(* request is under way at a time, as in a sequence of the tree.           *)
(*                                                                         *)
(* A port is a literal text, a blackboard pointer to a key or empty; type  *)
(* "unset" stands for the versions that infer the type.                    *)
(***************************************************************************)
EXTENDS ParameterSync

CONSTANTS
  Literals,     \* literal texts in the ports of the tree
  NoPort,       \* the port is empty
  DefaultText,  \* the text of the default value of each type of parameter
  NoRequest

ASSUME NodesAssumption ==
  /\ NoPort \notin Literals \cup Keys
  /\ Literals \cap Keys = {}
  /\ Literals \subseteq Texts
  /\ \A type \in ParameterTypes : DefaultText[type] \in Texts

VARIABLES
  request,  \* the request under way: [op, key, value, phase]
  found     \* history: the keys a node of this execution found a parameter of

vars == <<syncVars, request, found>>

Request(op, k, value) == [op |-> op, key |-> k, value |-> value, phase |-> "sent"]

-----------------------------------------------------------------------------
\* The types of the node classes made of SetParameterTemplate and
\* GetParameterTemplate: one for each type of parameter, and one that infers it.
SetTypes == ParameterTypes \cup {"unset"}
GetTypes == ParameterTypes \cup {"unset"}

\* Without a type, SetParameter only works with a blackboard pointer.
SetRequestThrows(port, type) == type = "unset" /\ port \notin Keys

\* The value SetParameter asks for.  An empty port stands for the default value.
RequestedValue(port, type) ==
  CASE port = NoPort -> [type |-> type, text |-> DefaultText[type]]
    [] port \in Literals -> Cast([type |-> "literal", text |-> port], type)
    [] OTHER -> IF HasValue(blackboard[port])
                  THEN CreateParameterValueFromAny(blackboard[port].value, type) ELSE NoValue

\* A tick of the tree that leaves the blackboard to other nodes.
NodeTick == Tick(blackboard)

\* The tree goes on with request r, unless it ended or the process did.
Goes(r, keys) ==
  /\ request' = IF busy' THEN r ELSE NoRequest
  /\ found' = IF busy' THEN found \cup keys ELSE {}

SendSet(k, port, type) ==
  /\ request = NoRequest
  /\ \/ /\ SetRequestThrows(port, type)
        /\ TickThrows(blackboard)
        /\ Goes(NoRequest, {})
     \/ /\ ~SetRequestThrows(port, type)
        /\ NodeTick
        /\ LET value == RequestedValue(port, type)
           IN  Goes(IF value = NoValue THEN NoRequest ELSE Request("set", k, value), {})

SendGet(k) ==
  /\ request = NoRequest
  /\ NodeTick /\ Goes(Request("get", k, Absent), {})

SendHas(k) ==
  /\ request = NoRequest
  /\ NodeTick /\ Goes(Request("has", k, Absent), {})

-----------------------------------------------------------------------------
(***************************************************************************)
(* The parameter services.                                                 *)
(***************************************************************************)
Answer(value, phase) == request' = [request EXCEPT !.value = value, !.phase = phase]

ServeSet ==
  /\ request # NoRequest /\ request.phase = "sent" /\ request.op = "set"
  /\ \/ SetEntryParameter(request.key, request.value) /\ Answer(Absent, "granted")
     \/ RejectEntryParameter(request.key, request.value) /\ Answer(Absent, "refused")
  /\ UNCHANGED found

\* get_parameters, list_parameters
ServeRead ==
  /\ request # NoRequest /\ request.phase = "sent" /\ request.op # "set"
  /\ Answer(IF request.op = "get" THEN param[request.key] ELSE Absent,
            IF param[request.key] = Absent THEN "refused" ELSE "granted")
  /\ UNCHANGED <<syncVars, found>>

\* A request that times out or whose node is halted.
GiveUp ==
  /\ request # NoRequest
  /\ NodeTick /\ Goes(NoRequest, {})

-----------------------------------------------------------------------------
Answered(ops) == request # NoRequest /\ request.phase # "sent" /\ request.op \in ops

\* onResponseReceived() of SetParameter and HasParameter.
SetResponse ==
  /\ Answered({"set"})
  /\ NodeTick
  /\ Goes(NoRequest, IF request.phase = "granted" THEN {request.key} ELSE {})

HasResponse ==
  /\ Answered({"has"})
  /\ NodeTick
  /\ Goes(NoRequest, IF request.phase = "granted" THEN {request.key} ELSE {})

\* onResponseReceived() of GetParameter.  The typed versions throw if the
\* parameter is of another type; the entry may refuse the value.
GetFails ==
  /\ Answered({"get"})
  /\ request.phase = "refused"
  /\ NodeTick /\ Goes(NoRequest, {})

GetResponse(out, type) ==
  /\ Answered({"get"})
  /\ request.phase = "granted"
  /\ LET any == IF type = "unset" THEN CreateAnyFromParameterValue(request.value) ELSE Received(request.value)
         fits == type \in {"unset", request.value.type}
     IN  \/ /\ fits /\ any # NoValue /\ MayWrite(blackboard[out], any)
            /\ Tick([blackboard EXCEPT ![out] = Written(@, any)])
         \/ /\ fits /\ any # NoValue /\ ~MayWrite(blackboard[out], any)
            /\ NodeTick \/ TickThrows(blackboard)
         \/ /\ fits /\ any = NoValue
            /\ NodeTick
         \/ /\ ~fits
            /\ TickThrows(blackboard)
  /\ Goes(NoRequest, {request.key})

-----------------------------------------------------------------------------
Init ==
  /\ SyncInit
  /\ request = NoRequest /\ found = {}

NodeStep ==
  \/ \E k \in Keys, port \in Literals \cup Keys \cup {NoPort}, type \in SetTypes :
       SendSet(k, port, type)
  \/ \E k \in Keys : SendGet(k) \/ SendHas(k)
  \/ ServeSet \/ ServeRead \/ GiveUp
  \/ SetResponse \/ HasResponse \/ GetFails
  \/ \E out \in Keys, type \in GetTypes : GetResponse(out, type)

ParameterStep ==
  /\ \/ \E k \in Keys, v \in ParameterValues : SetEntryParameter(k, v) \/ RejectEntryParameter(k, v)
     \/ \E e \in Enums : SetEnumParameter(e)
     \/ SetAllowDynamic
     \/ HandleEvent
     \/ ClearBlackboardService
  /\ UNCHANGED <<request, found>>

ExecutionStep ==
  \/ \E clear \in BOOLEAN : Start(clear) /\ UNCHANGED <<request, found>>
  \/ \E new \in TreeWrites : (Tick(new) \/ TickThrows(new)) /\ Goes(request, {})

Next == ended = "no" /\ (NodeStep \/ ParameterStep \/ ExecutionStep)

Spec == Init /\ [][Next]_vars

\* What the tree does on its own once it writes nothing any more.
Idling == NodeTick /\ Goes(request, {})

\* The next tick has a parameter to infer.
Unsynchronized ==
  allowDynamic /\ \E k \in Keys : Translated(blackboard, k) \notin {NoValue, cache[k]}

\* Parameter events are delivered (only HandleEvent takes one off the queue), and
\* a running tree is ticked.
FairSpec ==
  /\ Spec
  /\ WF_events(ended = "no" /\ events # <<>> /\ events' = Tail(events))
  /\ WF_vars(ended = "no" /\ busy /\ Unsynchronized /\ busy' = TRUE /\ Idling)
-----------------------------------------------------------------------------
\* The entry does not take the parameter, which was set before the entry existed.
Refused(k) ==
  Absent \notin {blackboard[k], param[k]} /\ ~Takes(blackboard[k], param[k])

\* Once every parameter event is handled, the cache tells what the parameters
\* hold, so that the next afterTick() notices every entry that differs.  Three
\* exceptions: an entry that was cleared, an override that the constructor left out
\* and nobody has set since, and an entry that refuses its parameter.
CacheIsParameter ==
  ended = "no" /\ events = <<>> =>
    \A k \in Keys \ (cleared \cup ignored) : cache[k] = param[k] \/ Refused(k)

\* A tree that is built once every event is handled uses the enums that the
\* parameters show, as the ints they are cast to.  Only an override that the
\* constructor left out and nobody has set since is no enum.
TreeUsesEnumParameter ==
  [][~busy /\ busy' /\ events = <<>> =>
       enum = IF enumIgnored THEN Absent ELSE AsInt(enumParam)]_vars

\* The entry and its parameter hold the same value, or the entry holds none that
\* the parameter could be.
InStep(k) ==
  IF HasValue(blackboard[k])
    THEN Translated(blackboard, k) \in {param[k], NoValue}
    ELSE param[k] = Absent

\* Once nobody else writes and the tree goes on, blackboard and parameters settle
\* on the same values: handling an event and synchronizing do not keep each other
\* busy, and no value is stuck on one side, but for an override that was left out
\* and that the tree has no value for.
Settles ==
  <>[][HandleEvent \/ Idling]_vars /\ <>[](ended = "no" /\ busy /\ allowDynamic) =>
    <>[](\A k \in Keys \ cleared :
           InStep(k) \/ Refused(k) \/ (k \in ignored /\ ~HasValue(blackboard[k])))

\* While a tree runs, the parameters its nodes rely on stay: a GetParameter never
\* fails for a parameter that the same execution has set, got or looked for with
\* success, whatever clients of the node and its events do.
FoundStays ==
  [][GetFails => request.key \notin found]_vars

\* The value is printed as a text that its type does not read, as a byte array is.
IsLostWhenPrinted(k) ==
  /\ HasValue(blackboard[k])
  /\ Translated(blackboard, k) # NoValue
  /\ CreateAnyFromParameterValue(Translated(blackboard, k)) = NoValue

\* Setting the inferred parameters only ever ends the process for an entry that
\* was cleared, one whose port has a type no parameter has, or one whose value
\* does not survive being printed: values that race with parameters set from
\* outside do not.
OnlyForeignTypesFail ==
  ended = "synchronization" =>
    \E k \in Keys :
      \/ k \in cleared
      \/ blackboard[k] # Absent /\ blackboard[k].declared \notin ParameterTypes \cup {"any"}
      \/ IsLostWhenPrinted(k)

\* "Unexpectedly failed to set parameters inferred from global blackboard" (generic_
\* executor_node.cpp:245) is not expected: the node grants what its own
\* synchronization asks for.
InferredParametersAccepted == ended # "synchronization"
=============================================================================
