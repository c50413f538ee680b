---------------------------- MODULE ParameterSync ----------------------------
(***************************************************************************)
(* How GenericTreeExecutorNode keeps the parameters of its ROS 2 node in   *)
(* step with the global blackboard and the scripting enums.                *)
(*                                                                         *)
(*  - Parameter to blackboard: a parameter that is set is checked at once  *)
(*    (on_set_parameters_callback_) but only applied when the parameter    *)
(*    event comes back (parameter_event_callback_).                        *)
(*  - Blackboard to parameter: afterTick() compares every entry with       *)
(*    translated_global_blackboard_entries_, the last value it knows to be *)
(*    a parameter, and sets the parameters of those that differ.           *)
(*                                                                         *)
(* Events are delivered in order.  The execution itself is reduced to      *)
(* being busy and to the writes of a tick; see ExecutionRoutine for it.    *)
(***************************************************************************)
EXTENDS ParameterConversion, Integers, Sequences, TLC

CONSTANTS
  Keys,             \* keys of the global blackboard, entries the parameters bb.<key>
  NameOrder,        \* the pairs of keys whose names are in alphabetical order
  ParameterValues,  \* the values parameters are set to from outside
  EntryValues,      \* the values trees write to entries
  PortTypes,        \* the types of the ports that entries are created for
  Enums,            \* the values the parameter of the scripting enum is set to: [type, number]
  IntLimit,         \* an int holds the numbers from -IntLimit to IntLimit - 1
  Absent,           \* no entry, no parameter
  MayClear,         \* the global blackboard is cleared between executions
  MaxEvents         \* bound: parameter events on their way

\* What parameters and entries can be.
ParameterSpace == [type : ParameterTypes, text : Texts]
ValueSpace == [type : ParameterTypes \cup Integral \cup {v.type : v \in EntryValues}, text : Texts]
EntrySpace == [declared : ParameterTypes \cup PortTypes \cup {"any"}, value : ValueSpace \cup {NoValue}]

ASSUME SyncAssumption ==
  /\ NameOrder \subseteq Keys \X Keys
  /\ ParameterValues \subseteq ParameterSpace
  /\ EntryValues \subseteq ValueSpace
  /\ \A v \in EntryValues : v.type # "unset"
  /\ NoValue \notin ValueSpace
  /\ Absent \notin ValueSpace \cup EntrySpace \cup Enums \cup {NoValue}
  /\ "any" \notin PortTypes
  /\ \A e \in Enums : e.number \in Int
  /\ IntLimit \in Nat \ {0}
  /\ MayClear \in BOOLEAN
  /\ MaxEvents \in Nat

VARIABLES
  ended,          \* how the process ended, or "no"
  busy,           \* isBusy()
  allowDynamic,   \* the parameter allow_dynamic_blackboard
  param,          \* the parameters bb.<key>
  enumParam,      \* the parameter of the scripting enum
  events,         \* parameter events that were published and not handled yet
  blackboard,     \* the entries of global_blackboard_ptr_
  cache,          \* translated_global_blackboard_entries_
  enum,           \* scripting_enums_
  cleared,        \* history: the keys clearGlobalBlackboard() undeclared
  ignored,        \* history: the overrides that were never applied nor set since
  enumIgnored     \* history: so was that of the scripting enum

executionVars == <<ended, busy, allowDynamic>>
enumVars == <<enumParam, enum, enumIgnored>>
entryVars == <<param, blackboard, cache, cleared, ignored>>
syncVars == <<executionVars, enumVars, entryVars, events>>

NoEntries == [k \in Keys |-> Absent]

\* An entry is declared with the type of a port, or with none by a script.
Declared(type, value) == [declared |-> type, value |-> value]

IsStronglyTyped(entry) == entry # Absent /\ entry.declared # "any"

HasValue(entry) == entry # Absent /\ entry.value # NoValue

-----------------------------------------------------------------------------
(***************************************************************************)
(* Parameters set from outside (on_set_parameters_callback_).              *)
(***************************************************************************)
\* updateGlobalBlackboardWithParameterValues(), simulated.
Takes(entry, value) ==
  LET any == CreateAnyFromParameterValue(value)
  IN  any # NoValue /\ (IsStronglyTyped(entry) => entry.declared = any.type)

Granted(k, value) == allowDynamic /\ Takes(blackboard[k], value)

Publish(changed, newEnum) ==
  /\ Len(events) < MaxEvents
  /\ events' = Append(events, [entries |-> changed, enum |-> newEnum])

SetEntryParameter(k, value) ==
  /\ Granted(k, value)
  /\ param' = [param EXCEPT ![k] = value]
  /\ ignored' = ignored \ {k}
  /\ Publish([NoEntries EXCEPT ![k] = value], Absent)
  /\ UNCHANGED <<executionVars, enumVars, blackboard, cache, cleared>>

\* The reason of a refusal names the type of the entry, which may not exist: the
\* process then dereferences a null pointer, with any outcome.
RejectEntryParameter(k, value) ==
  /\ ~Granted(k, value)
  /\ ended' \in IF allowDynamic /\ blackboard[k] = Absent THEN {"no", "rejection"} ELSE {"no"}
  /\ UNCHANGED <<busy, allowDynamic, enumVars, entryVars, events>>

\* updateScriptingEnumsWithParameterValues(): only these types are an enum ...
TakesEnum(e) == e.type \in {"bool", "int"}

\* ... and their number is cast to int, which wraps.
AsInt(e) == ((e.number + IntLimit) % (2 * IntLimit)) - IntLimit

SetEnumParameter(e) ==
  /\ ~busy
  /\ TakesEnum(e)
  /\ enumParam' = e /\ enumIgnored' = FALSE
  /\ Publish(NoEntries, e)
  /\ UNCHANGED <<executionVars, entryVars, enum>>

\* Allowed while the executor is busy, too.
SetAllowDynamic ==
  /\ allowDynamic' = ~allowDynamic
  /\ UNCHANGED <<ended, busy, enumVars, entryVars, events>>

(***************************************************************************)
(* parameter_event_callback_().  A value that the entry does not take by   *)
(* now is left out, and the error is only logged.                          *)
(***************************************************************************)
Taken(changed) == {k \in Keys : changed[k] # Absent /\ Takes(blackboard[k], changed[k])}

\* An entry that a parameter creates is declared with its type.
StoredEntry(k, value) ==
  LET any == CreateAnyFromParameterValue(value)
  IN  Declared(IF blackboard[k] = Absent THEN any.type ELSE blackboard[k].declared, any)

WithEntries(changed) ==
  [k \in Keys |-> IF k \in Taken(changed) THEN StoredEntry(k, changed[k]) ELSE blackboard[k]]

WithCached(changed) == [k \in Keys |-> IF k \in Taken(changed) THEN changed[k] ELSE cache[k]]

EnumAfter(e) == IF e = Absent \/ ~TakesEnum(e) THEN enum ELSE AsInt(e)

\* Mutant: the cache is left to afterTick().
HandleEventBlackboardOnly ==
  /\ events # <<>>
  /\ events' = Tail(events)
  /\ blackboard' = WithEntries(Head(events).entries)
  /\ enum' = EnumAfter(Head(events).enum)
  /\ UNCHANGED <<executionVars, enumParam, enumIgnored, param, cache, cleared, ignored>>

\* Mutant: the cache takes a value that the entry refuses.
HandleEventCachesFirst ==
  /\ events # <<>>
  /\ events' = Tail(events)
  /\ blackboard' = WithEntries(Head(events).entries)
  /\ cache' = [k \in Keys |-> IF Head(events).entries[k] = Absent THEN cache[k] ELSE Head(events).entries[k]]
  /\ enum' = EnumAfter(Head(events).enum)
  /\ UNCHANGED <<executionVars, enumParam, enumIgnored, param, cleared, ignored>>

\* Mutant: an enum that was accepted is dropped if an execution has begun meanwhile.
HandleEventIdleEnum ==
  /\ events # <<>>
  /\ events' = Tail(events)
  /\ blackboard' = WithEntries(Head(events).entries)
  /\ cache' = WithCached(Head(events).entries)
  /\ enum' = IF busy THEN enum ELSE EnumAfter(Head(events).enum)
  /\ UNCHANGED <<executionVars, enumParam, enumIgnored, param, cleared, ignored>>

HandleEvent ==
  /\ events # <<>>
  /\ events' = Tail(events)
  /\ blackboard' = WithEntries(Head(events).entries)
  /\ cache' = WithCached(Head(events).entries)
  /\ enum' = EnumAfter(Head(events).enum)
  /\ UNCHANGED <<executionVars, enumParam, enumIgnored, param, cleared, ignored>>

-----------------------------------------------------------------------------
(***************************************************************************)
(* The execution.                                                          *)
(***************************************************************************)
\* An entry that a script or a port of the tree has written.
Written(entry, value) ==
  IF entry = Absent THEN Declared("any", value) ELSE [entry EXCEPT !.value = value]

MayWrite(entry, value) == IsStronglyTyped(entry) => entry.declared = value.type

\* The blackboards that one tick of the tree may leave.
TreeWrites ==
  {blackboard} \cup
  UNION {{[blackboard EXCEPT ![k] = Written(@, v)] :
            v \in {w \in EntryValues : MayWrite(blackboard[k], w)}} : k \in Keys}

\* The blackboards that the ports of a new tree may leave: an entry is declared.
PortsDeclare(store) ==
  {store} \cup
  {[store EXCEPT ![k] = Declared(type, NoValue)] :
     k \in {j \in Keys : store[j] = Absent}, type \in PortTypes}

\* Mutant: a service call clears it at any time.
ClearBlackboardServiceAnytime ==
  /\ MayClear
  /\ blackboard' = NoEntries
  /\ param' = NoEntries
  /\ cleared' = Keys /\ ignored' = {}
  /\ UNCHANGED <<executionVars, enumVars, cache, events>>

\* The base class only clears the blackboard of an executor that is IDLE.
MayClearNow == MayClear /\ ~busy

\* clearGlobalBlackboard(): a new blackboard, and no bb parameters.  Undeclaring
\* a parameter publishes no event, and the cache keeps its values.
ClearGlobalBlackboard ==
  /\ MayClearNow
  /\ param' = NoEntries
  /\ cleared' = Keys /\ ignored' = {}
  /\ UNCHANGED cache

ClearBlackboardService ==
  /\ ClearGlobalBlackboard
  /\ blackboard' = NoEntries
  /\ UNCHANGED <<executionVars, enumVars, events>>

\* A trigger goal, with or without the clear_blackboard flag.  The tree is built
\* with the scripting enums that are known.
Start(clear) ==
  /\ ~busy /\ busy' = TRUE
  /\ IF clear THEN ClearGlobalBlackboard ELSE UNCHANGED <<param, cleared, ignored, cache>>
  /\ blackboard' \in PortsDeclare(IF clear THEN NoEntries ELSE blackboard)
  /\ UNCHANGED <<ended, allowDynamic, enumVars, events>>

\* The parameter afterTick() makes of an entry: of the type that is cached.
Translated(new, k) ==
  IF HasValue(new[k])
    THEN CreateParameterValueFromAny(new[k].value, IF cache[k] = Absent THEN "unset" ELSE cache[k].type)
    ELSE NoValue

\* Mutant: only entries that are new are translated.
InferredOfNew(new) ==
  [k \in Keys |-> IF Translated(new, k) = NoValue \/ cache[k] # Absent
                    THEN Absent ELSE Translated(new, k)]

\* The parameters inferred from the entries.
Inferred(new) ==
  [k \in Keys |-> IF Translated(new, k) \in {NoValue, cache[k]} THEN Absent ELSE Translated(new, k)]

\* The synchronization in afterTick().  Only a new entry is cached at once, the
\* others when their parameter event comes back.  If the node's own callback
\* refuses a parameter, the exception leaves the timer and ends the process.
Sync(new) ==
  LET inferred == Inferred(new)
      changed  == {k \in Keys : inferred[k] # Absent}
  IN  /\ cache' = [k \in Keys |-> IF cache[k] = Absent THEN inferred[k] ELSE cache[k]]
      /\ IF \A k \in changed : Takes(new[k], inferred[k])
           THEN /\ param' = [k \in Keys |-> IF k \in changed THEN inferred[k] ELSE param[k]]
                /\ ignored' = ignored \ changed
                /\ IF changed = {} THEN UNCHANGED events ELSE Publish(inferred, Absent)
                /\ UNCHANGED ended
           ELSE ended' = "synchronization" /\ UNCHANGED <<param, ignored, events>>

AfterTick(new) ==
  /\ blackboard' = new
  /\ IF allowDynamic THEN Sync(new) ELSE UNCHANGED <<ended, cache, param, ignored, events>>
  /\ UNCHANGED <<allowDynamic, enumVars, cleared>>

Tick(new) ==
  /\ busy /\ busy' \in BOOLEAN
  /\ AfterTick(new)

\* The tick throws: the execution ends without afterTick().
TickThrows(new) ==
  /\ busy /\ busy' = FALSE
  /\ blackboard' = new
  /\ UNCHANGED <<ended, allowDynamic, enumVars, cache, param, events, cleared, ignored>>

-----------------------------------------------------------------------------
Overrides == {k \in Keys : param[k] # Absent}

\* The constructor applies the parameter overrides in the order of their names and
\* stops at the first it cannot convert.  All of them stay declared: left is what it
\* has not applied, be it because of such an override of the model, because of one
\* the model leaves out, or because the option that has them applied is disabled.
LeavesOut(left) ==
  /\ {k \in Overrides : ~Takes(Absent, param[k])} \subseteq left
  /\ \A k \in Overrides \ left, j \in left : <<j, k>> \notin NameOrder

SyncInit ==
  /\ ended = "no"
  /\ busy = FALSE /\ allowDynamic = TRUE
  /\ param \in [Keys -> ParameterValues \cup {Absent}]
  /\ ignored \in SUBSET Overrides /\ LeavesOut(ignored)
  /\ cache = [k \in Keys |-> IF k \in ignored THEN Absent ELSE param[k]]
  /\ blackboard = [k \in Keys |-> IF cache[k] = Absent THEN Absent
                                 ELSE Declared(cache[k].type, CreateAnyFromParameterValue(cache[k]))]
  /\ enumParam \in Enums
  /\ enumIgnored \in BOOLEAN /\ (enumIgnored \/ TakesEnum(enumParam))
  /\ enum = IF enumIgnored THEN Absent ELSE AsInt(enumParam)
  /\ events = <<>>
  /\ cleared = {}
=============================================================================
