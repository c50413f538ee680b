------------------------ MODULE ParameterNodesProofs ------------------------
(***************************************************************************)
(* Blackboard, parameters and scripting enums, for any keys, values, types *)
(* and requests, and for any number of parameter events on their way.  One *)
(* argument serves the enum and the entries: the events may lag, but the   *)
(* last of them that carries a value carries that of the parameter.        *)
(***************************************************************************)
EXTENDS ParameterNodes, TLAPS

Carries(i) == events[i].enum # Absent

\* The enum the parameter shows, unless it is an override that was left out.
ShownEnum == IF enumIgnored THEN Absent ELSE AsInt(enumParam)

LastCarried(i) ==
  /\ Carries(i) /\ events[i].enum = enumParam /\ TakesEnum(enumParam) /\ ~enumIgnored
  /\ \A j \in 1..Len(events) : j > i => ~Carries(j)

EnumInv ==
  /\ \E E : events \in Seq(E)
  /\ \/ enum = ShownEnum /\ \A i \in 1..Len(events) : ~Carries(i)
     \/ \E i \in 1..Len(events) : LastCarried(i)

\* What a new event leaves of those that wait.
LEMMA PublishAppends ==
  ASSUME EnumInv, NEW changed, NEW e, Publish(changed, e)
  PROVE  /\ \E E : events' \in Seq(E)
         /\ Len(events) \in Nat /\ Len(events') = Len(events) + 1
         /\ \A i \in 1..Len(events) : events'[i] = events[i]
         /\ events'[Len(events')].enum = e
<1> DEFINE event == [entries |-> changed, enum |-> e]
<1>1. PICK E : events \in Seq(E)
  BY DEF EnumInv
<1>2. events \in Seq(E \cup {event})
  BY <1>1
<1>3. events' = Append(events, event) /\ event.enum = e
  BY DEF Publish
<1> HIDE DEF event
<1>4. events' \in Seq(E \cup {event})
  BY <1>2, <1>3
<1>5. QED
  BY <1>1, <1>3, <1>4

\* Entries that are set or inferred do not concern the enum.
LEMMA EntriesKeepEnum ==
  ASSUME EnumInv, UNCHANGED enumVars, NEW changed, Publish(changed, Absent)
  PROVE  EnumInv'
<1>1. /\ \E E : events' \in Seq(E)
      /\ Len(events) \in Nat /\ Len(events') = Len(events) + 1
      /\ \A i \in 1..Len(events) : events'[i] = events[i]
      /\ events'[Len(events')].enum = Absent
  BY PublishAppends
<1>2. \A i \in 1..Len(events') : Carries(i)' => i \in 1..Len(events) /\ Carries(i)
  BY <1>1 DEF Carries
<1>3. ASSUME NEW i \in 1..Len(events), LastCarried(i) PROVE LastCarried(i)' /\ i \in 1..Len(events')
  BY <1>1, <1>2, <1>3 DEF LastCarried, Carries, enumVars
<1>4. QED
  BY <1>1, <1>2, <1>3 DEF EnumInv, ShownEnum, enumVars

LEMMA SetEnumCarries ==
  ASSUME EnumInv, NEW e \in Enums, SetEnumParameter(e)
  PROVE  EnumInv'
<1>1. enumParam' = e /\ ~enumIgnored' /\ Publish(NoEntries, e) /\ e # Absent /\ TakesEnum(e)
  BY SyncAssumption DEF SetEnumParameter
<1>2. /\ \E E : events' \in Seq(E)
      /\ Len(events) \in Nat /\ Len(events') = Len(events) + 1
      /\ events'[Len(events')].enum = e
  BY <1>1, PublishAppends
<1>3. LastCarried(Len(events))' /\ Len(events') \in 1..Len(events')
  BY <1>1, <1>2 DEF LastCarried, Carries
<1>4. QED
  BY <1>2, <1>3 DEF EnumInv

\* The event handled last makes the enum that of the parameter.
LEMMA HandlingKeepsEnum ==
  ASSUME EnumInv, HandleEvent
  PROVE  EnumInv'
<1>1. PICK E : events \in Seq(E)
  BY DEF EnumInv
<1>2. /\ events # <<>> /\ events' = Tail(events)
      /\ enum' = (IF Carries(1) /\ TakesEnum(events[1].enum) THEN AsInt(events[1].enum) ELSE enum)
      /\ enumParam' = enumParam /\ enumIgnored' = enumIgnored
  BY <1>1 DEF HandleEvent, EnumAfter, Carries, enumVars
<1>3. /\ events' \in Seq(E) /\ Len(events) \in Nat /\ Len(events') = Len(events) - 1
      /\ \A i \in 1..Len(events') : events'[i] = events[i + 1]
  BY <1>1, <1>2
<1>4. \A i \in 1..Len(events') : Carries(i)' <=> Carries(i + 1)
  BY <1>3 DEF Carries
<1>5. CASE enum = ShownEnum /\ \A i \in 1..Len(events) : ~Carries(i)
  BY <1>2, <1>3, <1>4, <1>5 DEF EnumInv, ShownEnum
<1>6. CASE LastCarried(1)
  BY <1>2, <1>3, <1>4, <1>6 DEF EnumInv, LastCarried, ShownEnum
<1>7. ASSUME NEW i \in 1..Len(events), i # 1, LastCarried(i) PROVE EnumInv'
  <2>1. i - 1 \in 1..Len(events') /\ i - 1 + 1 = i
    BY <1>3, <1>7
  <2>2. /\ events'[i - 1].enum = enumParam' /\ events'[i - 1].enum # Absent
        /\ TakesEnum(enumParam') /\ ~enumIgnored'
    BY <1>2, <1>3, <1>7, <2>1 DEF LastCarried, Carries
  <2>3. \A j \in 1..Len(events') : j > i - 1 => ~Carries(j)'
    BY <1>3, <1>4, <1>7, <2>1 DEF LastCarried
  <2>4. \E h \in 1..Len(events') : LastCarried(h)'
    BY <2>1, <2>2, <2>3 DEF LastCarried, Carries
  <2>5. QED
    BY <1>3, <2>4 DEF EnumInv
<1>8. QED
  BY <1>5, <1>6, <1>7 DEF EnumInv

\* Ticks, starts and nodes of the tree leave the enum alone.
OnlyEntries ==
  /\ UNCHANGED enumVars
  /\ UNCHANGED events \/ \E changed : Publish(changed, Absent)

LEMMA TickOnlyEntries ==
  ASSUME NEW new, Tick(new) \/ TickThrows(new) PROVE OnlyEntries
BY DEF Tick, TickThrows, AfterTick, Sync, OnlyEntries

LEMMA NodesOnlyEntries == NodeStep => OnlyEntries
<1>1. ASSUME NEW k, NEW v, SetEntryParameter(k, v) \/ RejectEntryParameter(k, v)
      PROVE  OnlyEntries
  BY <1>1 DEF SetEntryParameter, RejectEntryParameter, OnlyEntries
<1>2. ServeSet => OnlyEntries
  BY <1>1 DEF ServeSet
<1>3. ServeRead => OnlyEntries
  BY DEF ServeRead, OnlyEntries, syncVars
<1>4. ASSUME NEW k, NEW port, NEW type, SendSet(k, port, type) PROVE OnlyEntries
  BY <1>4, TickOnlyEntries DEF SendSet, NodeTick
<1>5. ASSUME NEW k, SendGet(k) \/ SendHas(k) PROVE OnlyEntries
  BY <1>5, TickOnlyEntries DEF SendGet, SendHas, NodeTick
<1>6. GiveUp \/ SetResponse \/ HasResponse \/ GetFails => OnlyEntries
  BY TickOnlyEntries DEF GiveUp, SetResponse, HasResponse, GetFails, NodeTick
<1>7. ASSUME NEW out, NEW type, GetResponse(out, type) PROVE OnlyEntries
  BY <1>7, TickOnlyEntries DEF GetResponse, NodeTick
<1>8. QED
  BY <1>2, <1>3, <1>4, <1>5, <1>6, <1>7 DEF NodeStep

LEMMA OnlyEntriesKeepEnum == EnumInv /\ OnlyEntries => EnumInv'
<1>1. EnumInv /\ UNCHANGED <<enumVars, events>> => EnumInv'
  BY DEF EnumInv, LastCarried, ShownEnum, Carries, enumVars
<1>2. QED
  BY <1>1, EntriesKeepEnum DEF OnlyEntries

LEMMA NextEnum == EnumInv /\ [Next]_vars => EnumInv'
<1> SUFFICES ASSUME EnumInv, [Next]_vars PROVE EnumInv'
  OBVIOUS
<1>1. CASE NodeStep
  BY <1>1, NodesOnlyEntries, OnlyEntriesKeepEnum
<1>2. CASE ExecutionStep
  <2>1. ASSUME NEW clear, Start(clear) PROVE OnlyEntries
    BY <2>1 DEF Start, OnlyEntries
  <2>2. QED
    BY <1>2, <2>1, TickOnlyEntries, OnlyEntriesKeepEnum DEF ExecutionStep
<1>3. CASE ParameterStep
  <2>1. ASSUME NEW k, NEW v, SetEntryParameter(k, v) \/ RejectEntryParameter(k, v)
        PROVE  OnlyEntries
    BY <2>1 DEF SetEntryParameter, RejectEntryParameter, OnlyEntries
  <2>2. SetAllowDynamic \/ ClearBlackboardService => OnlyEntries
    BY DEF SetAllowDynamic, ClearBlackboardService, OnlyEntries
  <2>3. QED
    BY <1>3, <2>1, <2>2, OnlyEntriesKeepEnum, SetEnumCarries, HandlingKeepsEnum
       DEF ParameterStep
<1>4. CASE UNCHANGED vars
  BY <1>4, OnlyEntriesKeepEnum DEF vars, syncVars, OnlyEntries
<1>5. QED
  BY <1>1, <1>2, <1>3, <1>4 DEF Next

(***************************************************************************)
(* generic_executor_node.cpp: a tree that is built once the parameter      *)
(* events are handled uses the enums the parameters show, whatever trees   *)
(* ran and whatever was set while they waited; it has none for an override *)
(* that the constructor left out, until the parameter is set.              *)
(***************************************************************************)
THEOREM EnumCorrect == Spec => TreeUsesEnumParameter
<1>1. Init => EnumInv
  <2>1. ASSUME Init PROVE events = <<>> /\ enum = ShownEnum
    BY <2>1 DEF Init, SyncInit, ShownEnum
  <2>2. <<>> \in Seq({}) /\ Len(<<>>) = 0
    OBVIOUS
  <2>3. QED
    BY <2>1, <2>2 DEF EnumInv
<1>2. EnumInv => (~busy /\ busy' /\ events = <<>> => enum = ShownEnum)
  <2>1. Len(<<>>) = 0
    OBVIOUS
  <2>2. QED
    BY <2>1 DEF EnumInv
<1>3. QED
  BY <1>1, <1>2, NextEnum, PTL DEF Spec, TreeUsesEnumParameter, ShownEnum

-----------------------------------------------------------------------------
(* The values of the parameters and of the entries.                        *)

EventSpace == [entries : [Keys -> ParameterSpace \cup {Absent}], enum : Enums \cup {Absent}]

BlackboardSpace == [Keys -> EntrySpace \cup {Absent}]

SyncTypeOK ==
  /\ param \in [Keys -> ParameterSpace \cup {Absent}]
  /\ cache \in [Keys -> ParameterSpace \cup {Absent}]
  /\ blackboard \in BlackboardSpace
  /\ events \in Seq(EventSpace)

CarriesKey(i, k) == events[i].entries[k] # Absent

\* What was granted can be converted, for it was checked.
Convertible ==
  \A i \in 1..Len(events), k \in Keys :
    CarriesKey(i, k) => CreateAnyFromParameterValue(events[i].entries[k]) # NoValue

LastCarriedKey(i, k) ==
  /\ CarriesKey(i, k) /\ events[i].entries[k] = param[k]
  /\ \A j \in 1..Len(events) : j > i => ~CarriesKey(j, k)

\* The event that comes last will have the cache know the parameter.
KeyInStep(k) ==
  \/ (cache[k] = param[k] \/ Refused(k)) /\ \A i \in 1..Len(events) : ~CarriesKey(i, k)
  \/ \E i \in 1..Len(events) : LastCarriedKey(i, k)

CacheKnows == ended = "no" => \A k \in Keys \ (cleared \cup ignored) : KeyInStep(k)

\* The value of an entry is of its type ...
WellTyped(store) ==
  \A k \in Keys : HasValue(store[k]) /\ IsStronglyTyped(store[k]) => store[k].value.type = store[k].declared

\* ... and so is the value that is cached of it.
KeyTyped(k) ==
  cache[k] # Absent =>
    /\ blackboard[k] # Absent
    /\ blackboard[k].declared \in ParameterTypes => cache[k].type = blackboard[k].declared

CacheTyped == ended = "no" => \A k \in Keys \ cleared : KeyTyped(k)

SyncInv == SyncTypeOK /\ Convertible /\ WellTyped(blackboard) /\ CacheKnows /\ CacheTyped

\* What the conversions return.
LEMMA AnyFromParameter ==
  ASSUME NEW v \in ParameterSpace, CreateAnyFromParameterValue(v) # NoValue
  PROVE  /\ CreateAnyFromParameterValue(v) \in ValueSpace
         /\ CreateAnyFromParameterValue(v).type = v.type
BY ConversionAssumption DEF CreateAnyFromParameterValue, ParameterSpace, ValueSpace

LEMMA ValueFacts ==
  ASSUME NEW any \in ValueSpace
  PROVE  any.text \in Texts /\ any.type # "unset" /\ any # NoValue /\ any # Absent
BY ConversionAssumption, SyncAssumption DEF ValueSpace

LEMMA ParameterFacts ==
  ASSUME NEW v \in ParameterSpace
  PROVE  v \in ValueSpace /\ v.type \in ParameterTypes /\ v.text \in Texts
BY DEF ParameterSpace, ValueSpace

LEMMA InferredTypeFacts ==
  ASSUME NEW any PROVE InferredType(any) \in ParameterTypes \cup {"unset"}
BY ConversionAssumption DEF InferredType

LEMMA ParameterFromAny ==
  ASSUME NEW any \in ValueSpace, NEW type \in ParameterTypes \cup {"unset"}
  PROVE  LET v == CreateParameterValueFromAny(any, type)
         IN  /\ v \in ParameterSpace \cup {NoValue}
             /\ v # NoValue => v.type = IF type = "unset" THEN InferredType(any) ELSE type
<1> DEFINE T == IF type = "unset" THEN InferredType(any) ELSE type
<1>1. T \in ParameterTypes \cup {"unset"}
  BY InferredTypeFacts
<1>2. any.text \in Texts /\ any.type # "unset"
  BY ValueFacts
<1> HIDE DEF T
<1>3. /\ Cast(any, T) \in ParameterSpace \cup {NoValue}
      /\ Cast(any, T) # NoValue => Cast(any, T).type = T
  BY <1>1, <1>2 DEF Cast, ParameterSpace
<1>4. QED
  BY <1>3 DEF CreateParameterValueFromAny, T

LEMMA TranslatedFacts ==
  ASSUME SyncTypeOK, NEW new \in BlackboardSpace, NEW k \in Keys
  PROVE  /\ Translated(new, k) \in ParameterSpace \cup {NoValue}
         /\ Translated(new, k) # NoValue =>
              /\ HasValue(new[k])
              /\ Translated(new, k).type =
                   IF cache[k] = Absent THEN InferredType(new[k].value) ELSE cache[k].type
<1> DEFINE type == IF cache[k] = Absent THEN "unset" ELSE cache[k].type
<1>1. type \in ParameterTypes \cup {"unset"} /\ (type = "unset" <=> cache[k] = Absent)
  BY ParameterFacts, ConversionAssumption DEF SyncTypeOK
<1>2. HasValue(new[k]) => new[k].value \in ValueSpace
  BY DEF HasValue, BlackboardSpace, EntrySpace
<1>3. Translated(new, k) = IF HasValue(new[k]) THEN CreateParameterValueFromAny(new[k].value, type) ELSE NoValue
  BY DEF Translated
<1> HIDE DEF type
<1>4. CASE HasValue(new[k])
  <2>1. /\ Translated(new, k) \in ParameterSpace \cup {NoValue}
        /\ Translated(new, k) # NoValue =>
             Translated(new, k).type = IF type = "unset" THEN InferredType(new[k].value) ELSE type
    BY <1>1, <1>2, <1>3, <1>4, ParameterFromAny
  <2>2. QED
    BY <1>1, <1>4, <2>1 DEF type
<1>5. CASE ~HasValue(new[k])
  BY <1>3, <1>5
<1>6. QED
  BY <1>4, <1>5

LEMMA InferredFacts ==
  ASSUME SyncTypeOK, NEW new \in BlackboardSpace
  PROVE  /\ Inferred(new) \in [Keys -> ParameterSpace \cup {Absent}]
         /\ \A k \in Keys : Inferred(new)[k] # Absent =>
              /\ Inferred(new)[k] = Translated(new, k) /\ Translated(new, k) # NoValue
              /\ Translated(new, k) \in ParameterSpace
<1>1. \A k \in Keys : Translated(new, k) \in ParameterSpace \cup {NoValue}
  BY TranslatedFacts
<1>2. QED
  BY <1>1 DEF Inferred

\* How entries may move while they are not cleared.
MayBecome(new) ==
  /\ new \in BlackboardSpace /\ WellTyped(new)
  /\ \A k \in Keys : blackboard[k] # Absent =>
       new[k] # Absent /\ new[k].declared = blackboard[k].declared

LEMMA EntryFacts ==
  ASSUME NEW type \in ParameterTypes \cup PortTypes \cup {"any"}, NEW value \in ValueSpace \cup {NoValue}
  PROVE  /\ Declared(type, value) \in EntrySpace /\ Declared(type, value) # Absent
         /\ Declared(type, value).declared = type /\ Declared(type, value).value = value
<1>1. Declared(type, value) \in EntrySpace
  BY DEF Declared, EntrySpace
<1>2. QED
  BY <1>1, SyncAssumption DEF Declared

LEMMA WrittenFacts ==
  ASSUME NEW entry \in EntrySpace \cup {Absent}, NEW value \in ValueSpace, MayWrite(entry, value)
  PROVE  LET w == Written(entry, value)
         IN  /\ w \in EntrySpace /\ w # Absent /\ w.value = value
             /\ entry # Absent => w.declared = entry.declared
             /\ IsStronglyTyped(w) => w.value.type = w.declared
<1>1. CASE entry = Absent
  <2>1. Written(entry, value) = Declared("any", value)
    BY <1>1 DEF Written
  <2>2. QED
    BY <1>1, <2>1, EntryFacts DEF IsStronglyTyped
<1>2. CASE entry # Absent
  <2>1. entry \in EntrySpace
    BY <1>2
  <2>2. Written(entry, value) = [entry EXCEPT !.value = value]
    BY <1>2 DEF Written
  <2>3. /\ Written(entry, value) \in EntrySpace /\ Written(entry, value).value = value
        /\ Written(entry, value).declared = entry.declared
    BY <2>1, <2>2 DEF EntrySpace
  <2>4. QED
    BY <1>2, <2>3, SyncAssumption DEF IsStronglyTyped, MayWrite
<1>3. QED
  BY <1>1, <1>2

LEMMA OneWritten ==
  ASSUME SyncTypeOK, WellTyped(blackboard), NEW k \in Keys, NEW value \in ValueSpace, MayWrite(blackboard[k], value)
  PROVE  MayBecome([blackboard EXCEPT ![k] = Written(@, value)])
<1> DEFINE new == [blackboard EXCEPT ![k] = Written(@, value)]
<1>1. blackboard \in BlackboardSpace /\ blackboard[k] \in EntrySpace \cup {Absent}
  BY DEF SyncTypeOK, BlackboardSpace
<1>2. /\ Written(blackboard[k], value) \in EntrySpace /\ Written(blackboard[k], value) # Absent
      /\ blackboard[k] # Absent => Written(blackboard[k], value).declared = blackboard[k].declared
      /\ IsStronglyTyped(Written(blackboard[k], value)) =>
           Written(blackboard[k], value).value.type = Written(blackboard[k], value).declared
  BY <1>1, WrittenFacts
<1>3. /\ new \in BlackboardSpace /\ new[k] = Written(blackboard[k], value)
      /\ \A j \in Keys : j # k => new[j] = blackboard[j]
  BY <1>1, <1>2 DEF BlackboardSpace
<1> HIDE DEF new
<1>4. WellTyped(new)
  BY <1>2, <1>3 DEF WellTyped
<1>5. QED
  BY <1>2, <1>3, <1>4 DEF MayBecome, new

LEMMA NothingWritten ==
  ASSUME SyncTypeOK, WellTyped(blackboard) PROVE MayBecome(blackboard)
BY DEF SyncTypeOK, MayBecome

LEMMA TreeWritesFacts ==
  ASSUME SyncTypeOK, WellTyped(blackboard), NEW new \in TreeWrites PROVE MayBecome(new)
<1>1. CASE new = blackboard
  BY <1>1, NothingWritten
<1>2. ASSUME NEW k \in Keys, NEW v \in EntryValues, MayWrite(blackboard[k], v),
             new = [blackboard EXCEPT ![k] = Written(@, v)]
      PROVE  MayBecome(new)
  BY <1>2, OneWritten, SyncAssumption
<1>3. QED
  BY <1>1, <1>2 DEF TreeWrites

\* A new blackboard has no entry.
LEMMA PortsDeclareFacts ==
  ASSUME NEW store \in BlackboardSpace, WellTyped(store), NEW new \in PortsDeclare(store)
  PROVE  /\ new \in BlackboardSpace /\ WellTyped(new)
         /\ \A k \in Keys : store[k] # Absent => new[k] = store[k]
<1>1. CASE new = store
  BY <1>1
<1>2. ASSUME NEW k \in Keys, store[k] = Absent, NEW type \in PortTypes,
             new = [store EXCEPT ![k] = Declared(type, NoValue)]
      PROVE  /\ new \in BlackboardSpace /\ WellTyped(new)
             /\ \A j \in Keys : store[j] # Absent => new[j] = store[j]
  <2>1. Declared(type, NoValue) \in EntrySpace /\ Declared(type, NoValue).value = NoValue
    BY EntryFacts
  <2>2. /\ new \in BlackboardSpace /\ new[k] = Declared(type, NoValue)
        /\ \A j \in Keys : j # k => new[j] = store[j]
    BY <1>2, <2>1 DEF BlackboardSpace
  <2>3. QED
    BY <1>2, <2>1, <2>2 DEF WellTyped, HasValue
<1>3. QED
  BY <1>1, <1>2 DEF PortsDeclare

-----------------------------------------------------------------------------
(* The kinds of steps: entries and parameters that are set, an event that   *)
(* is handled, a blackboard that is cleared.                                *)

\* An entry that stays takes what it took.
LEMMA RefusedStays ==
  ASSUME NEW k \in Keys, MayBecome(blackboard'), param'[k] = param[k], Refused(k)
  PROVE  Refused(k)'
<1>1. blackboard[k] # Absent /\ param[k] # Absent /\ ~Takes(blackboard[k], param[k])
  BY DEF Refused
<1>2. blackboard'[k] # Absent /\ blackboard'[k].declared = blackboard[k].declared
  BY <1>1 DEF MayBecome
<1>3. ~Takes(blackboard'[k], param'[k])
  BY <1>1, <1>2 DEF Takes, IsStronglyTyped
<1>4. QED
  BY <1>1, <1>2, <1>3 DEF Refused

LEMMA EntriesMove ==
  ASSUME SyncInv, ended = "no", MayBecome(blackboard'), UNCHANGED <<param, cache, events, cleared, ignored>>
  PROVE  SyncInv'
<1>1. SyncTypeOK' /\ WellTyped(blackboard)'
  BY DEF SyncInv, SyncTypeOK, MayBecome, WellTyped
<1>2. Convertible'
  BY DEF SyncInv, Convertible, CarriesKey
<1>3. ASSUME NEW k \in Keys \ (cleared \cup ignored) PROVE KeyInStep(k)'
  <2>1. KeyInStep(k)
    BY DEF SyncInv, CacheKnows
  <2>2. Refused(k) => Refused(k)'
    BY RefusedStays
  <2>3. QED
    BY <2>1, <2>2 DEF KeyInStep, LastCarriedKey, CarriesKey
<1>4. ASSUME NEW k \in Keys \ cleared PROVE KeyTyped(k)'
  BY DEF SyncInv, CacheTyped, KeyTyped, MayBecome
<1>5. QED
  BY <1>1, <1>2, <1>3, <1>4 DEF SyncInv, CacheKnows, CacheTyped

\* What an event on its way tells of a key, once it was published.
LEMMA PublishCarries ==
  ASSUME SyncTypeOK, NEW changed \in [Keys -> ParameterSpace \cup {Absent}], NEW e \in Enums \cup {Absent},
         Publish(changed, e)
  PROVE  /\ events' \in Seq(EventSpace)
         /\ Len(events) \in Nat /\ Len(events') = Len(events) + 1
         /\ \A i \in 1..Len(events) : events'[i] = events[i]
         /\ events'[Len(events')].entries = changed
<1> DEFINE event == [entries |-> changed, enum |-> e]
<1>1. event \in EventSpace /\ event.entries = changed
  BY DEF EventSpace
<1>2. events' = Append(events, event) /\ events \in Seq(EventSpace)
  BY DEF Publish, SyncTypeOK
<1> HIDE DEF event
<1>3. QED
  BY <1>1, <1>2

\* Parameters that are set, and cached at once if their entries are new.
SetParameters(changed) ==
  /\ changed \in [Keys -> ParameterSpace \cup {Absent}]
  /\ \A k \in Keys : changed[k] # Absent => CreateAnyFromParameterValue(changed[k]) # NoValue
  /\ \E e \in Enums \cup {Absent} : Publish(changed, e)
  /\ param' = [k \in Keys |-> IF changed[k] = Absent THEN param[k] ELSE changed[k]]
  /\ ignored' = ignored \ {k \in Keys : changed[k] # Absent}
  /\ cache' \in [Keys -> ParameterSpace \cup {Absent}]
  /\ \A k \in Keys : cache'[k] # cache[k] => changed[k] # Absent /\ KeyTyped(k)'

LEMMA ParametersMove ==
  ASSUME SyncInv, ended = "no", MayBecome(blackboard'), UNCHANGED cleared, NEW changed, SetParameters(changed)
  PROVE  SyncInv'
<1>1. PICK e \in Enums \cup {Absent} : Publish(changed, e)
  BY DEF SetParameters
<1>2. changed \in [Keys -> ParameterSpace \cup {Absent}]
  BY DEF SetParameters
<1>3. /\ events' \in Seq(EventSpace)
      /\ Len(events) \in Nat /\ Len(events') = Len(events) + 1
      /\ \A i \in 1..Len(events) : events'[i] = events[i]
      /\ events'[Len(events')].entries = changed
  BY <1>1, <1>2, PublishCarries DEF SyncInv
<1>4. SyncTypeOK'
  BY <1>2, <1>3 DEF SyncInv, SyncTypeOK, SetParameters, MayBecome
<1>5. WellTyped(blackboard)'
  BY DEF MayBecome, WellTyped
<1>6. /\ \A i \in 1..Len(events), k \in Keys : CarriesKey(i, k)' <=> CarriesKey(i, k)
      /\ \A k \in Keys : CarriesKey(Len(events), k)' <=> changed[k] # Absent
  BY <1>3 DEF CarriesKey
<1>7. Convertible'
  <2>1. ASSUME NEW i \in 1..Len(events'), NEW k \in Keys, CarriesKey(i, k)'
        PROVE  CreateAnyFromParameterValue(events'[i].entries[k]) # NoValue
    <3>1. CASE i = Len(events')
      BY <1>3, <1>6, <2>1, <3>1 DEF SetParameters
    <3>2. CASE i # Len(events')
      <4>1. i \in 1..Len(events)
        BY <1>3, <3>2
      <4>2. QED
        BY <1>3, <1>6, <2>1, <4>1 DEF SyncInv, Convertible
    <3>3. QED
      BY <3>1, <3>2
  <2>2. QED
    BY <2>1 DEF Convertible
<1>8. ASSUME NEW k \in Keys \ cleared
      PROVE  (k \notin ignored' => KeyInStep(k)') /\ KeyTyped(k)'
  <2>1. (k \notin ignored => KeyInStep(k)) /\ KeyTyped(k)
    BY DEF SyncInv, CacheKnows, CacheTyped
  <2>2. CASE changed[k] # Absent
    <3>1. param'[k] = changed[k]
      BY <2>2 DEF SetParameters
    <3>2. LastCarriedKey(Len(events), k)' /\ Len(events') \in 1..Len(events')
      BY <1>3, <1>6, <2>2, <3>1 DEF LastCarriedKey
    <3>3. KeyTyped(k)'
      BY <2>1 DEF SetParameters, KeyTyped, MayBecome
    <3>4. QED
      BY <3>2, <3>3 DEF KeyInStep
  <2>3. CASE changed[k] = Absent
    <3>1. param'[k] = param[k] /\ cache'[k] = cache[k]
      BY <2>3 DEF SetParameters
    <3>2. Refused(k) => Refused(k)'
      BY <3>1, RefusedStays
    <3>3. ASSUME NEW i \in 1..Len(events), LastCarriedKey(i, k)
          PROVE  LastCarriedKey(i, k)' /\ i \in 1..Len(events')
      <4>1. CarriesKey(i, k)' /\ events'[i].entries[k] = param'[k]
        BY <1>3, <1>6, <3>1, <3>3 DEF LastCarriedKey
      <4>2. ASSUME NEW j \in 1..Len(events'), j > i PROVE ~CarriesKey(j, k)'
        <5>1. j = Len(events') \/ j \in 1..Len(events)
          BY <1>3
        <5>2. QED
          BY <1>6, <2>3, <3>3, <4>2, <5>1 DEF LastCarriedKey
      <4>3. QED
        BY <1>3, <4>1, <4>2 DEF LastCarriedKey
    <3>4. ASSUME \A i \in 1..Len(events) : ~CarriesKey(i, k)
          PROVE  \A i \in 1..Len(events') : ~CarriesKey(i, k)'
      <4>1. \A i \in 1..Len(events') : i = Len(events') \/ i \in 1..Len(events)
        BY <1>3
      <4>2. QED
        BY <1>6, <2>3, <3>4, <4>1
    <3>5. k \notin ignored' => KeyInStep(k)'
      <4>1. k \in ignored' <=> k \in ignored
        BY <2>3 DEF SetParameters
      <4>2. QED
        BY <2>1, <3>1, <3>2, <3>3, <3>4, <4>1 DEF KeyInStep
    <3>6. KeyTyped(k)'
      BY <2>1, <3>1 DEF KeyTyped, MayBecome
    <3>7. QED
      BY <3>5, <3>6
  <2>4. QED
    BY <2>2, <2>3
<1>9. QED
  BY <1>4, <1>5, <1>7, <1>8 DEF SyncInv, CacheKnows, CacheTyped

\* The entry a parameter event leaves, and what is cached of it.
LEMMA StoredFacts ==
  ASSUME SyncTypeOK, NEW k \in Keys, NEW value \in ParameterSpace, Takes(blackboard[k], value)
  PROVE  LET entry == StoredEntry(k, value)
         IN  /\ entry \in EntrySpace /\ entry # Absent
             /\ entry.value.type = value.type
             /\ IsStronglyTyped(entry) => entry.declared = value.type
<1> DEFINE any == CreateAnyFromParameterValue(value)
           type == IF blackboard[k] = Absent THEN any.type ELSE blackboard[k].declared
<1>1. any \in ValueSpace /\ any.type = value.type /\ value.type \in ParameterTypes
  BY AnyFromParameter, ParameterFacts DEF Takes
<1>2. blackboard[k] \in EntrySpace \cup {Absent}
  BY DEF SyncTypeOK, BlackboardSpace
<1>3. type \in ParameterTypes \cup PortTypes \cup {"any"}
  BY <1>1, <1>2 DEF EntrySpace
<1>4. IsStronglyTyped(blackboard[k]) => blackboard[k].declared = any.type
  BY DEF Takes
<1>5. StoredEntry(k, value) = Declared(type, any)
  BY DEF StoredEntry
<1> HIDE DEF any
<1>6. type = any.type \/ type = "any"
  BY <1>4 DEF IsStronglyTyped
<1> HIDE DEF type
<1>7. QED
  BY <1>1, <1>3, <1>5, <1>6, EntryFacts DEF IsStronglyTyped

LEMMA HandledFacts ==
  ASSUME SyncInv, HandleEvent, NEW k \in Keys
  PROVE  LET v == events[1].entries[k]
         IN  /\ CarriesKey(1, k) /\ Takes(blackboard[k], v) =>
                  blackboard'[k] = StoredEntry(k, v) /\ cache'[k] = v
             /\ ~(CarriesKey(1, k) /\ Takes(blackboard[k], v)) =>
                  blackboard'[k] = blackboard[k] /\ cache'[k] = cache[k]
<1> DEFINE changed == events[1].entries
<1>1. blackboard' = WithEntries(changed) /\ cache' = WithCached(changed)
  BY DEF HandleEvent
<1>2. k \in Taken(changed) <=> CarriesKey(1, k) /\ Takes(blackboard[k], changed[k])
  BY DEF Taken, CarriesKey
<1>3. Taken(changed) \subseteq Keys /\ DOMAIN blackboard = Keys /\ DOMAIN cache = Keys
  BY DEF Taken, SyncInv, SyncTypeOK, BlackboardSpace
<1> HIDE DEF changed
<1>4. /\ blackboard'[k] = IF k \in Taken(changed) THEN StoredEntry(k, changed[k]) ELSE blackboard[k]
      /\ cache'[k] = IF k \in Taken(changed) THEN changed[k] ELSE cache[k]
  BY <1>1, <1>3 DEF WithEntries, WithCached
<1>5. QED
  BY <1>2, <1>4 DEF changed

LEMMA HandledTyped ==
  ASSUME SyncInv, HandleEvent
  PROVE  SyncTypeOK' /\ WellTyped(blackboard)' /\ Convertible'
<1>1. /\ events \in Seq(EventSpace) /\ events # <<>> /\ events' = Tail(events)
  BY DEF HandleEvent, SyncInv, SyncTypeOK
<1>2. /\ Len(events) \in Nat /\ 1 \in 1..Len(events) /\ Len(events') = Len(events) - 1
      /\ events' \in Seq(EventSpace)
      /\ \A i \in 1..Len(events') : events'[i] = events[i + 1] /\ i + 1 \in 1..Len(events)
      /\ events[1] \in EventSpace
  BY <1>1
<1>3. ASSUME NEW k \in Keys, CarriesKey(1, k)
      PROVE  events[1].entries[k] \in ParameterSpace
  BY <1>2, <1>3 DEF CarriesKey, EventSpace
<1>4. DOMAIN blackboard' = Keys /\ DOMAIN cache' = Keys
      /\ blackboard' = [k \in DOMAIN blackboard' |-> blackboard'[k]]
      /\ cache' = [k \in DOMAIN cache' |-> cache'[k]]
  BY DEF HandleEvent, WithEntries, WithCached, SyncInv, SyncTypeOK, BlackboardSpace
<1>5. ASSUME NEW k \in Keys
      PROVE  /\ blackboard'[k] \in EntrySpace \cup {Absent}
             /\ cache'[k] \in ParameterSpace \cup {Absent}
             /\ HasValue(blackboard'[k]) /\ IsStronglyTyped(blackboard'[k]) =>
                  blackboard'[k].value.type = blackboard'[k].declared
  <2>1. CASE CarriesKey(1, k) /\ Takes(blackboard[k], events[1].entries[k])
    BY <1>3, <2>1, HandledFacts, StoredFacts DEF SyncInv
  <2>2. CASE ~(CarriesKey(1, k) /\ Takes(blackboard[k], events[1].entries[k]))
    BY <2>2, HandledFacts DEF SyncInv, SyncTypeOK, BlackboardSpace, WellTyped
  <2>3. QED
    BY <2>1, <2>2
<1>6. SyncTypeOK'
  BY <1>2, <1>4, <1>5 DEF HandleEvent, SyncInv, SyncTypeOK, BlackboardSpace
<1>7. Convertible'
  BY <1>2 DEF SyncInv, Convertible, CarriesKey
<1>8. QED
  BY <1>5, <1>6, <1>7 DEF WellTyped

LEMMA HandledInStep ==
  ASSUME SyncInv, ended = "no", HandleEvent, NEW k \in Keys \ cleared
  PROVE  (k \notin ignored => KeyInStep(k)') /\ KeyTyped(k)'
<1> DEFINE v == events[1].entries[k]
<1>1. /\ events \in Seq(EventSpace) /\ events # <<>> /\ events' = Tail(events)
      /\ param' = param
  BY DEF HandleEvent, SyncInv, SyncTypeOK
<1>2. /\ Len(events) \in Nat /\ 1 \in 1..Len(events) /\ Len(events') = Len(events) - 1
      /\ \A i \in 1..Len(events') : events'[i] = events[i + 1] /\ i + 1 \in 1..Len(events)
      /\ events[1] \in EventSpace
  BY <1>1
<1>3. \A i \in 1..Len(events') : CarriesKey(i, k)' <=> CarriesKey(i + 1, k)
  BY <1>2 DEF CarriesKey
<1>4. (k \notin ignored => KeyInStep(k)) /\ KeyTyped(k)
  BY DEF SyncInv, CacheKnows, CacheTyped
<1>5. CarriesKey(1, k) => v \in ParameterSpace /\ v # Absent /\ CreateAnyFromParameterValue(v) # NoValue
  BY <1>2 DEF CarriesKey, EventSpace, SyncInv, Convertible
<1>6. /\ CarriesKey(1, k) /\ Takes(blackboard[k], v) =>
           blackboard'[k] = StoredEntry(k, v) /\ cache'[k] = v
      /\ ~(CarriesKey(1, k) /\ Takes(blackboard[k], v)) =>
           blackboard'[k] = blackboard[k] /\ cache'[k] = cache[k]
  BY HandledFacts
<1>7. KeyTyped(k)'
  <2>1. CASE CarriesKey(1, k) /\ Takes(blackboard[k], v)
    <3>1. /\ blackboard'[k] # Absent /\ cache'[k] = v
          /\ IsStronglyTyped(blackboard'[k]) => blackboard'[k].declared = v.type
      BY <1>5, <1>6, <2>1, StoredFacts DEF SyncInv
    <3>2. QED
      BY <3>1, ConversionAssumption DEF KeyTyped, IsStronglyTyped
  <2>2. CASE ~(CarriesKey(1, k) /\ Takes(blackboard[k], v))
    BY <1>4, <1>6, <2>2 DEF KeyTyped
  <2>3. QED
    BY <2>1, <2>2
<1>8. CASE (cache[k] = param[k] \/ Refused(k)) /\ \A i \in 1..Len(events) : ~CarriesKey(i, k)
  <2>1. blackboard'[k] = blackboard[k] /\ cache'[k] = cache[k]
    BY <1>2, <1>6, <1>8
  <2>2. Refused(k)' <=> Refused(k)
    BY <1>1, <2>1 DEF Refused, Takes
  <2>3. QED
    BY <1>1, <1>2, <1>3, <1>7, <1>8, <2>1, <2>2 DEF KeyInStep
<1>9. CASE LastCarriedKey(1, k)
  <2>1. \A i \in 1..Len(events') : ~CarriesKey(i, k)'
    BY <1>2, <1>3, <1>9 DEF LastCarriedKey
  <2>2. CarriesKey(1, k) /\ v = param[k]
    BY <1>9 DEF LastCarriedKey
  <2>3. CASE Takes(blackboard[k], v)
    BY <1>1, <1>6, <1>7, <2>1, <2>2, <2>3 DEF KeyInStep
  <2>4. CASE ~Takes(blackboard[k], v)
    <3>1. blackboard'[k] = blackboard[k] /\ blackboard[k] # Absent /\ param[k] # Absent
      BY <1>5, <1>6, <2>2, <2>4 DEF Takes, IsStronglyTyped
    <3>2. ~Takes(blackboard'[k], param'[k])
      BY <1>1, <2>2, <2>4, <3>1
    <3>3. Refused(k)'
      BY <1>1, <3>1, <3>2 DEF Refused
    <3>4. QED
      BY <1>7, <2>1, <3>3 DEF KeyInStep
  <2>5. QED
    BY <2>3, <2>4
<1>10. ASSUME NEW i \in 1..Len(events), i # 1, LastCarriedKey(i, k)
       PROVE  KeyInStep(k)'
  <2>1. i - 1 \in 1..Len(events') /\ i - 1 + 1 = i
    BY <1>2, <1>10
  <2>2. CarriesKey(i - 1, k)' /\ events'[i - 1].entries[k] = param'[k]
    BY <1>1, <1>2, <1>3, <1>10, <2>1 DEF LastCarriedKey
  <2>3. \A j \in 1..Len(events') : j > i - 1 => ~CarriesKey(j, k)'
    BY <1>2, <1>3, <1>10, <2>1 DEF LastCarriedKey
  <2>4. \E h \in 1..Len(events') : LastCarriedKey(h, k)'
    BY <2>1, <2>2, <2>3 DEF LastCarriedKey
  <2>5. QED
    BY <2>4 DEF KeyInStep
<1>11. QED
  BY <1>4, <1>7, <1>8, <1>9, <1>10 DEF KeyInStep

LEMMA EventHandled ==
  ASSUME SyncInv, ended = "no", HandleEvent PROVE SyncInv'
<1>1. cleared' = cleared /\ ignored' = ignored
  BY DEF HandleEvent
<1>2. QED
  BY <1>1, HandledTyped, HandledInStep DEF SyncInv, CacheKnows, CacheTyped

LEMMA BlackboardCleared ==
  ASSUME SyncInv, ClearGlobalBlackboard, UNCHANGED events,
         blackboard' \in BlackboardSpace, WellTyped(blackboard')
  PROVE  SyncInv'
<1>1. /\ param' = NoEntries /\ cleared' = Keys /\ cache' = cache /\ ignored' = {}
  BY DEF ClearGlobalBlackboard
<1>2. SyncTypeOK'
  BY <1>1 DEF SyncInv, SyncTypeOK, NoEntries
<1>3. Convertible'
  BY DEF SyncInv, Convertible, CarriesKey
<1>4. WellTyped(blackboard)'
  BY DEF WellTyped
<1>5. QED
  BY <1>1, <1>2, <1>3, <1>4 DEF SyncInv, CacheKnows, CacheTyped

-----------------------------------------------------------------------------
(* The synchronization after a tick.                                        *)

LEMMA InferredKeyTyped ==
  ASSUME SyncInv, NEW new, MayBecome(new), NEW k \in Keys, cache[k] = Absent, Inferred(new)[k] # Absent
  PROVE  /\ new[k] # Absent
         /\ new[k].declared \in ParameterTypes => Inferred(new)[k].type = new[k].declared
<1>1. new \in BlackboardSpace /\ WellTyped(new)
  BY DEF MayBecome
<1>2. Inferred(new)[k] = Translated(new, k) /\ Translated(new, k) # NoValue
  BY <1>1, InferredFacts DEF SyncInv
<1>3. HasValue(new[k]) /\ Translated(new, k).type = InferredType(new[k].value)
  BY <1>1, <1>2, TranslatedFacts DEF SyncInv
<1>4. ASSUME new[k].declared \in ParameterTypes
      PROVE  InferredType(new[k].value) = new[k].declared
  <2>1. new[k].value.type = new[k].declared
    BY <1>1, <1>3, <1>4, ConversionAssumption DEF WellTyped, IsStronglyTyped, HasValue
  <2>2. QED
    BY <1>4, <2>1, ConversionAssumption DEF InferredType
<1>5. QED
  BY <1>2, <1>3, <1>4 DEF HasValue

LEMMA SyncGranted ==
  ASSUME SyncInv, ended = "no", NEW new, MayBecome(new), blackboard' = new, cleared' = cleared, Sync(new),
         \A k \in Keys : Inferred(new)[k] # Absent => Takes(new[k], Inferred(new)[k])
  PROVE  SyncInv'
<1> DEFINE inferred == Inferred(new)
           changed == {k \in Keys : inferred[k] # Absent}
<1>1. inferred \in [Keys -> ParameterSpace \cup {Absent}]
  BY InferredFacts DEF SyncInv, MayBecome
<1>2. /\ cache' = [k \in Keys |-> IF cache[k] = Absent THEN inferred[k] ELSE cache[k]]
      /\ param' = [k \in Keys |-> IF k \in changed THEN inferred[k] ELSE param[k]]
      /\ ignored' = ignored \ changed
      /\ IF changed = {} THEN UNCHANGED events ELSE Publish(inferred, Absent)
  BY DEF Sync
<1>3. \A k \in Keys : inferred[k] # Absent => CreateAnyFromParameterValue(inferred[k]) # NoValue
  BY DEF Takes
<1>4. ASSUME NEW k \in Keys, cache'[k] # cache[k]
      PROVE  inferred[k] # Absent /\ KeyTyped(k)'
  <2>1. cache[k] = Absent /\ cache'[k] = inferred[k] /\ inferred[k] # Absent
    BY <1>2, <1>4
  <2>2. /\ new[k] # Absent
        /\ new[k].declared \in ParameterTypes => inferred[k].type = new[k].declared
    BY <2>1, InferredKeyTyped
  <2>3. QED
    BY <2>1, <2>2 DEF KeyTyped
<1>5. param \in [Keys -> ParameterSpace \cup {Absent}] /\ cache \in [Keys -> ParameterSpace \cup {Absent}]
  BY DEF SyncInv, SyncTypeOK
<1>6. /\ changed = {k \in Keys : inferred[k] # Absent}
      /\ \A k \in Keys : k \in changed <=> inferred[k] # Absent
  OBVIOUS
<1> HIDE DEF inferred, changed
<1>7. cache' \in [Keys -> ParameterSpace \cup {Absent}]
  BY <1>1, <1>2, <1>5
<1>8. CASE changed = {}
  <2>1. param' = param /\ cache' = cache
    BY <1>2, <1>5, <1>6, <1>8
  <2>2. events' = events /\ ignored' = ignored
    BY <1>2, <1>8
  <2>3. QED
    BY <2>1, <2>2, EntriesMove
<1>9. CASE changed # {}
  <2>1. param' = [k \in Keys |-> IF inferred[k] = Absent THEN param[k] ELSE inferred[k]]
    BY <1>2, <1>6
  <2>2. Publish(inferred, Absent)
    BY <1>2, <1>9
  <2>3. \E e \in Enums \cup {Absent} : Publish(inferred, e)
    BY <2>2
  <2>4. \A k \in Keys : cache'[k] # cache[k] => inferred[k] # Absent /\ KeyTyped(k)'
    BY <1>4 DEF KeyTyped
  <2>5. ignored' = ignored \ {k \in Keys : inferred[k] # Absent}
    BY <1>2, <1>6
  <2>6. SetParameters(inferred)
    BY <1>1, <1>3, <1>7, <2>1, <2>3, <2>4, <2>5 DEF SetParameters, KeyTyped
  <2>7. QED
    BY <2>6, ParametersMove
<1>10. QED
  BY <1>8, <1>9

LEMMA SyncRefused ==
  ASSUME SyncInv, NEW new, MayBecome(new), blackboard' = new, Sync(new),
         NEW h \in Keys, Inferred(new)[h] # Absent, ~Takes(new[h], Inferred(new)[h])
  PROVE  SyncInv' /\ ended' = "synchronization"
<1>1. Inferred(new) \in [Keys -> ParameterSpace \cup {Absent}]
  BY InferredFacts DEF SyncInv, MayBecome
<1>2. /\ cache' = [k \in Keys |-> IF cache[k] = Absent THEN Inferred(new)[k] ELSE cache[k]]
      /\ ended' = "synchronization" /\ param' = param /\ events' = events
  BY DEF Sync
<1>3. SyncTypeOK' /\ WellTyped(blackboard)'
  BY <1>1, <1>2 DEF SyncInv, SyncTypeOK, MayBecome, WellTyped
<1>4. Convertible'
  BY <1>2 DEF SyncInv, Convertible, CarriesKey
<1>5. QED
  BY <1>2, <1>3, <1>4 DEF SyncInv, CacheKnows, CacheTyped

\* A tick of the tree, of which an exception may be the end.
Ticks == \E new : MayBecome(new) /\ (Tick(new) \/ TickThrows(new))

LEMMA TicksSync ==
  ASSUME SyncInv, ended = "no", Ticks PROVE SyncInv'
<1>1. PICK new : MayBecome(new) /\ (Tick(new) \/ TickThrows(new))
  BY DEF Ticks
<1>2. CASE TickThrows(new)
  BY <1>1, <1>2, EntriesMove DEF TickThrows
<1>3. CASE Tick(new)
  <2>1. blackboard' = new /\ cleared' = cleared /\ MayBecome(blackboard')
    BY <1>1, <1>3 DEF Tick, AfterTick
  <2>2. CASE ~allowDynamic
    BY <1>3, <2>1, <2>2, EntriesMove DEF Tick, AfterTick
  <2>3. CASE allowDynamic
    <3>1. Sync(new)
      BY <1>3, <2>3 DEF Tick, AfterTick
    <3>2. QED
      BY <1>1, <2>1, <3>1, SyncGranted, SyncRefused
  <2>4. QED
    BY <2>2, <2>3
<1>4. QED
  BY <1>1, <1>2, <1>3

\* A parameter that exists is not undeclared by a tick.
LEMMA TicksKeepParameters ==
  ASSUME SyncInv, Ticks, NEW k \in Keys, param[k] # Absent PROVE param'[k] # Absent /\ busy
<1>1. PICK new : MayBecome(new) /\ (Tick(new) \/ TickThrows(new))
  BY DEF Ticks
<1>2. busy /\ (param' = param \/ Sync(new))
  BY <1>1 DEF Tick, TickThrows, AfterTick
<1>3. CASE Sync(new)
  <2> DEFINE changed == {j \in Keys : Inferred(new)[j] # Absent}
  <2>1. param' = param \/ param' = [j \in Keys |-> IF j \in changed THEN Inferred(new)[j] ELSE param[j]]
    BY <1>3 DEF Sync
  <2>2. QED
    BY <1>2, <2>1
<1>4. QED
  BY <1>2, <1>3

-----------------------------------------------------------------------------
(* The other steps.                                                         *)

LEMMA SetEntrySync ==
  ASSUME SyncInv, ended = "no", NEW k \in Keys, NEW v \in ParameterSpace,
         SetEntryParameter(k, v) \/ RejectEntryParameter(k, v)
  PROVE  SyncInv'
<1>1. CASE SetEntryParameter(k, v)
  <2> DEFINE changed == [NoEntries EXCEPT ![k] = v]
  <2>1. /\ changed \in [Keys -> ParameterSpace \cup {Absent}]
        /\ changed[k] = v /\ \A j \in Keys : j # k => changed[j] = Absent
    BY DEF NoEntries
  <2>2. v # Absent /\ CreateAnyFromParameterValue(v) # NoValue
    BY <1>1, ParameterFacts, ValueFacts DEF SetEntryParameter, Granted, Takes
  <2>3. /\ Publish(changed, Absent) /\ cache' = cache /\ blackboard' = blackboard /\ cleared' = cleared
        /\ param' = [param EXCEPT ![k] = v] /\ ignored' = ignored \ {k}
    BY <1>1 DEF SetEntryParameter
  <2> HIDE DEF changed
  <2>4. param' = [j \in Keys |-> IF changed[j] = Absent THEN param[j] ELSE changed[j]]
    BY <2>1, <2>2, <2>3 DEF SyncInv, SyncTypeOK
  <2>5. SetParameters(changed)
    <3>1. \E e \in Enums \cup {Absent} : Publish(changed, e)
      BY <2>3
    <3>2. cache' \in [Keys -> ParameterSpace \cup {Absent}]
      BY <2>3 DEF SyncInv, SyncTypeOK
    <3>3. \A j \in Keys : changed[j] # Absent => CreateAnyFromParameterValue(changed[j]) # NoValue
      BY <2>1, <2>2
    <3>4. ignored' = ignored \ {j \in Keys : changed[j] # Absent}
      BY <2>1, <2>2, <2>3
    <3>5. QED
      BY <2>1, <2>3, <2>4, <3>1, <3>2, <3>3, <3>4 DEF SetParameters, KeyTyped
  <2>6. MayBecome(blackboard')
    BY <2>3, NothingWritten DEF SyncInv
  <2>7. QED
    BY <2>3, <2>5, <2>6, ParametersMove
<1>2. CASE RejectEntryParameter(k, v)
  <2>1. UNCHANGED <<param, blackboard, cache, cleared, ignored, events>>
    BY <1>2 DEF RejectEntryParameter, entryVars
  <2>2. \A j \in Keys : (KeyInStep(j)' <=> KeyInStep(j)) /\ (KeyTyped(j)' <=> KeyTyped(j))
    BY <2>1 DEF KeyInStep, LastCarriedKey, CarriesKey, Refused, KeyTyped, Takes
  <2>3. QED
    BY <2>1, <2>2 DEF SyncInv, SyncTypeOK, Convertible, CarriesKey, WellTyped, CacheKnows, CacheTyped
<1>3. QED
  BY <1>1, <1>2

LEMMA SetEnumSync ==
  ASSUME SyncInv, ended = "no", NEW e \in Enums, SetEnumParameter(e) PROVE SyncInv'
<1>1. UNCHANGED <<param, blackboard, cache, cleared, ignored>> /\ Publish(NoEntries, e)
  BY DEF SetEnumParameter, entryVars
<1>2. NoEntries \in [Keys -> ParameterSpace \cup {Absent}] /\ \A k \in Keys : NoEntries[k] = Absent
  BY DEF NoEntries
<1>3. param' = [k \in Keys |-> IF NoEntries[k] = Absent THEN param[k] ELSE NoEntries[k]]
  BY <1>1, <1>2 DEF SyncInv, SyncTypeOK
<1>4. SetParameters(NoEntries)
  <2>1. \E f \in Enums \cup {Absent} : Publish(NoEntries, f)
    BY <1>1
  <2>2. cache' \in [Keys -> ParameterSpace \cup {Absent}]
    BY <1>1 DEF SyncInv, SyncTypeOK
  <2>3. QED
    BY <1>1, <1>2, <1>3, <2>1, <2>2 DEF SetParameters, KeyTyped
<1>5. MayBecome(blackboard')
  BY <1>1, NothingWritten DEF SyncInv
<1>6. QED
  BY <1>1, <1>4, <1>5, ParametersMove

LEMMA StartSync ==
  ASSUME SyncInv, ended = "no", NEW clear \in BOOLEAN, Start(clear) PROVE SyncInv'
<1>1. NoEntries \in BlackboardSpace /\ WellTyped(NoEntries)
  BY DEF NoEntries, BlackboardSpace, WellTyped, HasValue
<1>2. CASE clear
  <2>1. blackboard' \in PortsDeclare(NoEntries) /\ ClearGlobalBlackboard /\ events' = events
    BY <1>2 DEF Start
  <2>2. blackboard' \in BlackboardSpace /\ WellTyped(blackboard')
    BY <1>1, <2>1, PortsDeclareFacts
  <2>3. QED
    BY <2>1, <2>2, BlackboardCleared
<1>3. CASE ~clear
  <2>1. blackboard' \in PortsDeclare(blackboard) /\ UNCHANGED <<param, cache, events, cleared, ignored>>
    BY <1>3 DEF Start
  <2>2. /\ blackboard' \in BlackboardSpace /\ WellTyped(blackboard')
        /\ \A k \in Keys : blackboard[k] # Absent => blackboard'[k] = blackboard[k]
    BY <2>1, PortsDeclareFacts DEF SyncInv, SyncTypeOK
  <2>3. MayBecome(blackboard')
    BY <2>2 DEF MayBecome
  <2>4. QED
    BY <2>1, <2>3, EntriesMove
<1>4. QED
  BY <1>2, <1>3

LEMMA ClearServiceSync ==
  ASSUME SyncInv, ClearBlackboardService PROVE SyncInv'
<1>1. ClearGlobalBlackboard /\ events' = events /\ blackboard' = NoEntries
  BY DEF ClearBlackboardService
<1>2. NoEntries \in BlackboardSpace /\ WellTyped(NoEntries)
  BY DEF NoEntries, BlackboardSpace, WellTyped, HasValue
<1>3. QED
  BY <1>1, <1>2, BlackboardCleared

\* What neither sets nor writes.
LEMMA NothingMoves ==
  ASSUME SyncInv, UNCHANGED <<ended, entryVars, events>> PROVE SyncInv'
<1>1. UNCHANGED <<param, blackboard, cache, cleared, ignored, events, ended>>
  BY DEF entryVars
<1>2. \A k \in Keys : (KeyInStep(k)' <=> KeyInStep(k)) /\ (KeyTyped(k)' <=> KeyTyped(k))
  BY <1>1 DEF KeyInStep, LastCarriedKey, CarriesKey, Refused, KeyTyped, Takes
<1>3. QED
  BY <1>1, <1>2 DEF SyncInv, SyncTypeOK, Convertible, CarriesKey, WellTyped, CacheKnows, CacheTyped

-----------------------------------------------------------------------------
(* The requests of the nodes of the tree.                                   *)

RequestSpace ==
  [op : {"set", "get", "has"}, key : Keys, value : ParameterSpace \cup {Absent},
   phase : {"sent", "granted", "refused"}]

RequestTypeOK ==
  request # NoRequest =>
    /\ request \in RequestSpace
    /\ request.op = "set" /\ request.phase = "sent" => request.value \in ParameterSpace
    /\ request.op = "get" /\ request.phase = "granted" => request.value \in ParameterSpace

\* What a tick may leave of the request and of the keys that are found.
MayGo(r, keys) ==
  /\ Goes(r, keys)
  /\ keys \subseteq {k \in Keys : param[k] # Absent}
  /\ \/ r = NoRequest
     \/ r = request /\ keys = {}
     \/ /\ r \in RequestSpace /\ r.phase = "sent"
        /\ r.op = "set" => r.value \in ParameterSpace

NodeTicks == Ticks /\ \E r, keys : MayGo(r, keys)

\* A granted parameter exists until its answer is received.
FoundInv ==
  /\ found \subseteq {k \in Keys : param[k] # Absent}
  /\ ~busy => request = NoRequest /\ found = {}
  /\ request # NoRequest /\ request.phase = "granted" => param[request.key] # Absent
  /\ request # NoRequest /\ request.op = "get" /\ request.phase = "refused" => request.key \notin found

NodesInv == SyncInv /\ RequestTypeOK /\ FoundInv

LEMMA RequestFacts ==
  ASSUME NEW op \in {"set", "get", "has"}, NEW k \in Keys, NEW value \in ParameterSpace \cup {Absent}
  PROVE  /\ Request(op, k, value) \in RequestSpace /\ Request(op, k, value).phase = "sent"
         /\ Request(op, k, value).op = op /\ Request(op, k, value).value = value
BY DEF Request, RequestSpace

LEMMA RequestedFacts ==
  ASSUME SyncTypeOK, NEW port \in Literals \cup Keys \cup {NoPort}, NEW type \in SetTypes, ~SetRequestThrows(port, type)
  PROVE  RequestedValue(port, type) \in ParameterSpace \cup {NoValue}
<1>1. CASE port = NoPort
  <2>1. type \in ParameterTypes /\ DefaultText[type] \in Texts
    BY <1>1, NodesAssumption DEF SetTypes, SetRequestThrows
  <2>2. RequestedValue(port, type) = [type |-> type, text |-> DefaultText[type]]
    BY <1>1, NodesAssumption DEF RequestedValue
  <2>3. QED
    BY <2>1, <2>2 DEF ParameterSpace
<1>2. CASE port \in Literals
  <2>1. type \in ParameterTypes /\ port \in Texts /\ port # NoPort
    BY <1>2, NodesAssumption DEF SetTypes, SetRequestThrows
  <2>2. RequestedValue(port, type) = Cast([type |-> "literal", text |-> port], type)
    BY <1>2, <2>1 DEF RequestedValue
  <2>3. QED
    BY <2>1, <2>2 DEF ParameterSpace, Cast
<1>3. CASE port \in Keys
  <2>1. port # NoPort /\ port \notin Literals
    BY <1>3, NodesAssumption
  <2>2. RequestedValue(port, type) =
          IF HasValue(blackboard[port]) THEN CreateParameterValueFromAny(blackboard[port].value, type) ELSE NoValue
    BY <1>3, <2>1 DEF RequestedValue
  <2>3. HasValue(blackboard[port]) => blackboard[port].value \in ValueSpace
    BY <1>3 DEF SyncTypeOK, BlackboardSpace, EntrySpace, HasValue
  <2>4. type \in ParameterTypes \cup {"unset"}
    BY DEF SetTypes
  <2>5. HasValue(blackboard[port]) =>
          CreateParameterValueFromAny(blackboard[port].value, type) \in ParameterSpace \cup {NoValue}
    BY <2>3, <2>4, ParameterFromAny
  <2>6. QED
    BY <2>2, <2>5
<1>4. QED
  BY <1>1, <1>2, <1>3

LEMMA IdleTick ==
  ASSUME SyncInv, NodeTick \/ TickThrows(blackboard) PROVE Ticks
BY NothingWritten DEF SyncInv, NodeTick, Ticks

LEMMA SendSetTicks ==
  ASSUME SyncInv, NEW k \in Keys, NEW port \in Literals \cup Keys \cup {NoPort}, NEW type \in SetTypes, SendSet(k, port, type)
  PROVE  NodeTicks
<1>1. Ticks
  BY IdleTick DEF SendSet
<1>2. CASE SetRequestThrows(port, type)
  <2>1. Goes(NoRequest, {})
    BY <1>2 DEF SendSet
  <2>2. QED
    BY <1>1, <2>1 DEF NodeTicks, MayGo
<1>3. CASE ~SetRequestThrows(port, type)
  <2> DEFINE value == RequestedValue(port, type)
             r == IF value = NoValue THEN NoRequest ELSE Request("set", k, value)
  <2>1. Goes(r, {})
    BY <1>3 DEF SendSet
  <2>2. value \in ParameterSpace \cup {NoValue}
    BY <1>3, RequestedFacts DEF SyncInv
  <2> HIDE DEF value
  <2>3. \/ r = NoRequest
        \/ r \in RequestSpace /\ r.phase = "sent" /\ (r.op = "set" => r.value \in ParameterSpace)
    BY <2>2, RequestFacts
  <2> HIDE DEF r
  <2>4. MayGo(r, {})
    BY <2>1, <2>3 DEF MayGo
  <2>5. QED
    BY <1>1, <2>4 DEF NodeTicks
<1>4. QED
  BY <1>2, <1>3

LEMMA SendReadTicks ==
  ASSUME SyncInv, NEW k \in Keys, SendGet(k) \/ SendHas(k) PROVE NodeTicks
<1>1. Ticks
  BY IdleTick DEF SendGet, SendHas
<1>2. PICK op \in {"get", "has"} : Goes(Request(op, k, Absent), {})
  BY DEF SendGet, SendHas
<1>3. /\ Request(op, k, Absent) \in RequestSpace /\ Request(op, k, Absent).phase = "sent"
      /\ Request(op, k, Absent).op = op
  BY RequestFacts
<1>4. MayGo(Request(op, k, Absent), {})
  BY <1>2, <1>3 DEF MayGo
<1>5. QED
  BY <1>1, <1>4 DEF NodeTicks

\* An answer ends the request; what it grants is found.
LEMMA AnswerGoes ==
  ASSUME NodesInv, request # NoRequest, Ticks, NEW keys, Goes(NoRequest, keys),
         keys \subseteq IF request.phase = "granted" THEN {request.key} ELSE {}
  PROVE  NodeTicks
<1>1. keys \subseteq {k \in Keys : param[k] # Absent}
  BY DEF NodesInv, FoundInv, RequestTypeOK, RequestSpace
<1>2. MayGo(NoRequest, keys)
  BY <1>1 DEF MayGo
<1>3. QED
  BY <1>2 DEF NodeTicks

LEMMA ResponseTicks ==
  ASSUME NodesInv, GiveUp \/ SetResponse \/ HasResponse \/ GetFails PROVE NodeTicks
<1>1. Ticks /\ request # NoRequest
  BY IdleTick DEF NodesInv, GiveUp, SetResponse, HasResponse, GetFails, Answered
<1>2. \/ Goes(NoRequest, {})
      \/ Goes(NoRequest, IF request.phase = "granted" THEN {request.key} ELSE {})
  BY DEF GiveUp, SetResponse, HasResponse, GetFails
<1>3. CASE Goes(NoRequest, {})
  BY <1>1, <1>3, AnswerGoes
<1>4. CASE Goes(NoRequest, IF request.phase = "granted" THEN {request.key} ELSE {})
  BY <1>1, <1>4, AnswerGoes
<1>5. QED
  BY <1>2, <1>3, <1>4

LEMMA ReceivedFacts ==
  ASSUME NEW v \in ParameterSpace PROVE Received(v) \in ValueSpace
BY ConversionAssumption DEF Received, ParameterSpace, ValueSpace

LEMMA GetResponseTicks ==
  ASSUME NodesInv, NEW out \in Keys, NEW type \in GetTypes, GetResponse(out, type) PROVE NodeTicks
<1> DEFINE any == IF type = "unset" THEN CreateAnyFromParameterValue(request.value) ELSE Received(request.value)
<1>1. /\ request # NoRequest /\ request.phase = "granted" /\ request.op = "get"
      /\ Goes(NoRequest, {request.key})
  BY DEF GetResponse, Answered
<1>2. request.value \in ParameterSpace
  BY <1>1 DEF NodesInv, RequestTypeOK
<1>3. any # NoValue => any \in ValueSpace
  BY <1>2, AnyFromParameter, ReceivedFacts
<1>4. \/ any # NoValue /\ MayWrite(blackboard[out], any) /\ Tick([blackboard EXCEPT ![out] = Written(@, any)])
      \/ NodeTick
      \/ TickThrows(blackboard)
  BY DEF GetResponse
<1> HIDE DEF any
<1>5. Ticks
  <2>1. CASE any # NoValue /\ MayWrite(blackboard[out], any) /\ Tick([blackboard EXCEPT ![out] = Written(@, any)])
    <3>1. MayBecome([blackboard EXCEPT ![out] = Written(@, any)])
      BY <1>3, <2>1, OneWritten DEF NodesInv, SyncInv
    <3>2. QED
      BY <2>1, <3>1 DEF Ticks
  <2>2. CASE NodeTick \/ TickThrows(blackboard)
    BY <2>2, IdleTick DEF NodesInv
  <2>3. QED
    BY <1>4, <2>1, <2>2
<1>6. QED
  BY <1>1, <1>5, AnswerGoes

LEMMA TreeTicks ==
  ASSUME NodesInv, NEW new \in TreeWrites, Tick(new) \/ TickThrows(new), Goes(request, {}) PROVE NodeTicks
<1>1. MayBecome(new)
  BY TreeWritesFacts DEF NodesInv, SyncInv
<1>2. MayGo(request, {})
  BY DEF MayGo
<1>3. QED
  BY <1>1, <1>2 DEF NodeTicks, Ticks

\* A node that is ticked, or a service that is called.
LEMMA NodeStepKinds ==
  NodesInv /\ NodeStep => NodeTicks \/ ServeSet \/ ServeRead
BY SendSetTicks, SendReadTicks, ResponseTicks, GetResponseTicks DEF NodesInv, NodeStep

LEMMA NodeTicksInv ==
  ASSUME NodesInv, ended = "no", NodeTicks PROVE NodesInv'
<1>1. SyncInv'
  BY TicksSync DEF NodesInv, NodeTicks
<1>2. PICK r, keys : MayGo(r, keys)
  BY DEF NodeTicks
<1>3. \/ request' = r /\ busy' /\ found' = found \cup keys
      \/ request' = NoRequest /\ found' = {}
  BY <1>2 DEF MayGo, Goes
<1>4. \A k \in Keys : param[k] # Absent => param'[k] # Absent
  BY TicksKeepParameters DEF NodesInv, NodeTicks
<1>5. RequestTypeOK'
  BY <1>2, <1>3 DEF NodesInv, RequestTypeOK, MayGo
<1>6. FoundInv'
  <2>1. CASE request' = NoRequest
    BY <1>2, <1>3, <1>4, <2>1 DEF NodesInv, FoundInv, MayGo
  <2>2. CASE request' # NoRequest
    <3>1. /\ request' = r /\ busy' /\ found' = found \cup keys
          /\ r # NoRequest
      BY <1>3, <2>2
    <3>2. found' \subseteq {k \in Keys : param'[k] # Absent}
      BY <1>2, <1>4, <3>1 DEF NodesInv, FoundInv, MayGo
    <3>3. CASE r = request /\ keys = {}
      <4>1. request' = request /\ found' = found /\ request \in RequestSpace
        BY <3>1, <3>3 DEF NodesInv, RequestTypeOK
      <4>2. request.phase = "granted" => param'[request.key] # Absent
        BY <1>4, <3>1, <3>3, <4>1 DEF NodesInv, FoundInv, RequestSpace
      <4>3. QED
        BY <3>1, <3>2, <3>3, <4>1, <4>2 DEF NodesInv, FoundInv
    <3>4. CASE r.phase = "sent"
      BY <3>1, <3>2, <3>4 DEF FoundInv
    <3>5. QED
      BY <1>2, <3>1, <3>3, <3>4 DEF MayGo
  <2>3. QED
    BY <2>1, <2>2
<1>7. QED
  BY <1>1, <1>5, <1>6 DEF NodesInv

LEMMA ServeSetInv ==
  ASSUME NodesInv, ended = "no", ServeSet PROVE NodesInv'
<1>1. /\ request # NoRequest /\ request \in RequestSpace /\ request.op = "set"
      /\ request.value \in ParameterSpace
  BY DEF ServeSet, NodesInv, RequestTypeOK
<1>2. SetEntryParameter(request.key, request.value) \/ RejectEntryParameter(request.key, request.value)
  BY DEF ServeSet
<1>3. request.key \in Keys
  BY <1>1 DEF RequestSpace
<1>4. SyncInv'
  BY <1>1, <1>2, <1>3, SetEntrySync DEF NodesInv
<1>5. PICK phase \in {"granted", "refused"} :
        /\ Answer(Absent, phase)
        /\ phase = "granted" => SetEntryParameter(request.key, request.value)
  BY DEF ServeSet
<1>6. /\ request' \in RequestSpace /\ request'.op = "set" /\ request'.phase = phase
      /\ request'.key = request.key
  <2>1. request' = [[request EXCEPT !.value = Absent] EXCEPT !.phase = phase]
    BY <1>5, Zenon DEF Answer
  <2>2. QED
    BY <1>1, <2>1 DEF RequestSpace
<1>7. RequestTypeOK'
  BY <1>6 DEF RequestTypeOK
<1>8. /\ \A k \in Keys : param[k] # Absent => param'[k] # Absent
      /\ SetEntryParameter(request.key, request.value) => param'[request.key] # Absent
      /\ busy' = busy
  <2>1. param \in [Keys -> ParameterSpace \cup {Absent}] /\ request.value # Absent
    BY <1>1, ParameterFacts, ValueFacts DEF NodesInv, SyncInv, SyncTypeOK
  <2>2. QED
    BY <1>2, <1>3, <2>1 DEF SetEntryParameter, RejectEntryParameter, executionVars, entryVars
<1>9. found' = found /\ busy
  BY <1>1 DEF ServeSet, NodesInv, FoundInv
<1>10. FoundInv'
  BY <1>5, <1>6, <1>8, <1>9 DEF NodesInv, FoundInv
<1>11. QED
  BY <1>4, <1>7, <1>10 DEF NodesInv

LEMMA ServeReadInv ==
  ASSUME NodesInv, ended = "no", ServeRead PROVE NodesInv'
<1>1. /\ request # NoRequest /\ request \in RequestSpace /\ request.op # "set" /\ request.key \in Keys
  BY DEF ServeRead, NodesInv, RequestTypeOK, RequestSpace
<1>2. UNCHANGED syncVars /\ found' = found
  BY DEF ServeRead
<1>3. /\ UNCHANGED <<ended, entryVars, events>> /\ param' = param /\ busy' = busy
  BY <1>2 DEF syncVars, executionVars, entryVars
<1>4. SyncInv'
  BY <1>3, NothingMoves DEF NodesInv
<1> DEFINE value == IF request.op = "get" THEN param[request.key] ELSE Absent
           phase == IF param[request.key] = Absent THEN "refused" ELSE "granted"
<1>5. Answer(value, phase)
  BY DEF ServeRead
<1>6. value \in ParameterSpace \cup {Absent} /\ phase \in {"refused", "granted"}
  BY <1>1 DEF NodesInv, SyncInv, SyncTypeOK
<1>7. /\ phase = "granted" <=> param[request.key] # Absent
      /\ request.op = "get" /\ phase = "granted" => value \in ParameterSpace
  BY <1>1 DEF NodesInv, SyncInv, SyncTypeOK
<1> HIDE DEF value, phase
<1>8. /\ request' \in RequestSpace /\ request'.op = request.op /\ request'.phase = phase
      /\ request'.key = request.key /\ request'.value = value
  <2>1. request' = [[request EXCEPT !.value = value] EXCEPT !.phase = phase]
    BY <1>5, Zenon DEF Answer
  <2>2. QED
    BY <1>1, <1>6, <2>1 DEF RequestSpace
<1>9. RequestTypeOK'
  BY <1>1, <1>6, <1>7, <1>8 DEF RequestTypeOK
<1>10. busy /\ found \subseteq {k \in Keys : param[k] # Absent}
  BY <1>1 DEF NodesInv, FoundInv
<1>11. FoundInv'
  BY <1>1, <1>2, <1>3, <1>6, <1>7, <1>8, <1>10 DEF FoundInv
<1>12. QED
  BY <1>4, <1>9, <1>11 DEF NodesInv

\* Steps of others leave the requests alone, and parameters that are found.
LEMMA OthersInv ==
  ASSUME NodesInv, SyncInv', UNCHANGED <<request, found>>, busy => busy',
         \A k \in Keys : busy /\ param[k] # Absent => param'[k] # Absent
  PROVE  NodesInv'
<1>1. RequestTypeOK'
  BY DEF NodesInv, RequestTypeOK
<1>2. FoundInv'
  BY DEF NodesInv, FoundInv, RequestTypeOK, RequestSpace
<1>3. QED
  BY <1>1, <1>2 DEF NodesInv

LEMMA ParameterStepInv ==
  ASSUME NodesInv, ended = "no", ParameterStep PROVE NodesInv'
<1>1. ASSUME NEW k \in Keys, NEW v \in ParameterValues, SetEntryParameter(k, v) \/ RejectEntryParameter(k, v)
      PROVE  SyncInv' /\ busy' = busy /\ \A j \in Keys : param[j] # Absent => param'[j] # Absent
  <2>1. v \in ParameterSpace /\ v # Absent
    BY SyncAssumption, ParameterFacts, ValueFacts
  <2>2. SyncInv'
    BY <1>1, <2>1, SetEntrySync DEF NodesInv
  <2>3. param \in [Keys -> ParameterSpace \cup {Absent}]
    BY DEF NodesInv, SyncInv, SyncTypeOK
  <2>4. QED
    BY <1>1, <2>1, <2>2, <2>3 DEF SetEntryParameter, RejectEntryParameter, executionVars, entryVars
<1>2. ASSUME NEW e \in Enums, SetEnumParameter(e) PROVE SyncInv' /\ busy' = busy /\ param' = param
  BY <1>2, SetEnumSync DEF NodesInv, SetEnumParameter, executionVars, entryVars
<1>3. SetAllowDynamic => SyncInv' /\ busy' = busy /\ param' = param
  BY NothingMoves DEF NodesInv, SetAllowDynamic, entryVars
<1>4. HandleEvent => SyncInv' /\ busy' = busy /\ param' = param
  BY EventHandled DEF NodesInv, HandleEvent, executionVars
<1>5. ClearBlackboardService => SyncInv' /\ busy' = busy /\ ~busy
  BY ClearServiceSync DEF NodesInv, ClearBlackboardService, ClearGlobalBlackboard, MayClearNow, executionVars
<1>6. /\ SyncInv' /\ busy' = busy /\ UNCHANGED <<request, found>>
      /\ \A k \in Keys : busy /\ param[k] # Absent => param'[k] # Absent
  BY <1>1, <1>2, <1>3, <1>4, <1>5 DEF ParameterStep
<1>7. QED
  BY <1>6, OthersInv

LEMMA ExecutionStepInv ==
  ASSUME NodesInv, ended = "no", ExecutionStep PROVE NodesInv'
<1>1. ASSUME NEW clear \in BOOLEAN, Start(clear), UNCHANGED <<request, found>> PROVE NodesInv'
  <2>1. SyncInv' /\ ~busy
    BY <1>1, StartSync DEF NodesInv, Start
  <2>2. QED
    BY <1>1, <2>1, OthersInv
<1>2. ASSUME NEW new \in TreeWrites, Tick(new) \/ TickThrows(new), Goes(request, {}) PROVE NodesInv'
  BY <1>2, TreeTicks, NodeTicksInv
<1>3. QED
  BY <1>1, <1>2 DEF ExecutionStep

LEMMA NextNodes == NodesInv /\ [Next]_vars => NodesInv'
<1> SUFFICES ASSUME NodesInv, [Next]_vars PROVE NodesInv'
  OBVIOUS
<1>1. CASE Next
  BY <1>1, NodeStepKinds, NodeTicksInv, ServeSetInv, ServeReadInv, ParameterStepInv, ExecutionStepInv DEF Next
<1>2. CASE UNCHANGED vars
  <2>1. /\ UNCHANGED <<ended, entryVars, events, request, found>> /\ busy' = busy /\ param' = param
    BY <1>2 DEF vars, syncVars, executionVars, entryVars
  <2>2. SyncInv'
    BY <2>1, NothingMoves DEF NodesInv
  <2>3. QED
    BY <2>1, <2>2, OthersInv
<1>3. QED
  BY <1>1, <1>2

LEMMA InitNodes == Init => NodesInv
<1> SUFFICES ASSUME Init PROVE NodesInv
  OBVIOUS
<1>1. /\ ended = "no" /\ events = <<>> /\ Len(events) = 0 /\ request = NoRequest /\ found = {}
      /\ param \in [Keys -> ParameterValues \cup {Absent}] /\ LeavesOut(ignored)
      /\ cache = [k \in Keys |-> IF k \in ignored THEN Absent ELSE param[k]]
      /\ blackboard = [k \in Keys |-> IF cache[k] = Absent THEN Absent
                                     ELSE Declared(cache[k].type, CreateAnyFromParameterValue(cache[k]))]
  BY DEF Init, SyncInit
<1>2. /\ param \in [Keys -> ParameterSpace \cup {Absent}]
      /\ cache \in [Keys -> ParameterSpace \cup {Absent}]
  BY <1>1, SyncAssumption
<1>3. ASSUME NEW k \in Keys, cache[k] # Absent
      PROVE  /\ blackboard[k] \in EntrySpace /\ blackboard[k] # Absent
             /\ blackboard[k].declared = cache[k].type /\ blackboard[k].value.type = cache[k].type
  <2>1. Takes(Absent, cache[k])
    BY <1>1, <1>3 DEF LeavesOut, Overrides
  <2>2. cache[k] \in ParameterSpace /\ CreateAnyFromParameterValue(cache[k]) # NoValue
    BY <1>2, <1>3, <2>1 DEF Takes
  <2>3. /\ CreateAnyFromParameterValue(cache[k]) \in ValueSpace
        /\ CreateAnyFromParameterValue(cache[k]).type = cache[k].type
        /\ cache[k].type \in ParameterTypes
    BY <2>2, AnyFromParameter, ParameterFacts
  <2>4. blackboard[k] = Declared(cache[k].type, CreateAnyFromParameterValue(cache[k]))
    BY <1>1, <1>3
  <2>5. QED
    BY <2>3, <2>4, EntryFacts
<1>4. \A k \in Keys : cache[k] = Absent => blackboard[k] = Absent
  BY <1>1
<1>5. SyncTypeOK
  BY <1>1, <1>2, <1>3, <1>4 DEF SyncTypeOK, BlackboardSpace
<1>6. WellTyped(blackboard) /\ Convertible
  BY <1>1, <1>3, <1>4 DEF WellTyped, HasValue, Convertible
<1>7. \A k \in Keys \ ignored : KeyInStep(k)
  BY <1>1 DEF KeyInStep
<1>8. \A k \in Keys : KeyTyped(k)
  BY <1>3 DEF KeyTyped
<1>9. QED
  BY <1>1, <1>5, <1>6, <1>7, <1>8 DEF NodesInv, SyncInv, CacheKnows, CacheTyped, RequestTypeOK, FoundInv

(***************************************************************************)
(* generic_executor_node.cpp: once the parameter events are handled, the   *)
(* values that afterTick() compares entries with are those of the          *)
(* parameters, in whatever order clients, nodes of the tree and ticks set  *)
(* them and whichever overrides the constructor applied; those it left out *)
(* are excepted until they are set.  The event that comes last tells the   *)
(* value of the parameter.                                                 *)
(***************************************************************************)
THEOREM CacheCorrect == Spec => []CacheIsParameter
<1>1. NodesInv => CacheIsParameter
  <2>1. Len(<<>>) = 0
    OBVIOUS
  <2>2. ASSUME NodesInv, ended = "no", events = <<>>, NEW k \in Keys \ (cleared \cup ignored)
        PROVE  cache[k] = param[k] \/ Refused(k)
    BY <2>1, <2>2 DEF NodesInv, SyncInv, CacheKnows, KeyInStep
  <2>3. QED
    BY <2>2 DEF CacheIsParameter
<1>2. QED
  BY <1>1, InitNodes, NextNodes, PTL DEF Spec

(***************************************************************************)
(* generic_executor_node.cpp, set_parameter.cpp, get_parameter.cpp: a      *)
(* GetParameter finds what the execution set, got or looked for before.    *)
(***************************************************************************)
THEOREM FoundCorrect == Spec => FoundStays
<1>1. NodesInv => (GetFails => request.key \notin found)
  BY DEF NodesInv, FoundInv, GetFails, Answered
<1>2. QED
  BY <1>1, InitNodes, NextNodes, PTL DEF Spec, FoundStays

-----------------------------------------------------------------------------
(* A parameter that the node's own callback refuses.                        *)

\* Translating the entry once more does not change the parameter.
LEMMA TranslatedAgain ==
  ASSUME SyncInv, NEW new \in BlackboardSpace, blackboard' = new, NEW k \in Keys, Inferred(new)[k] # Absent,
         cache'[k] = IF cache[k] = Absent THEN Inferred(new)[k] ELSE cache[k]
  PROVE  Translated(blackboard, k)' = Inferred(new)[k]
<1>1. /\ Inferred(new)[k] = Translated(new, k) /\ Translated(new, k) # NoValue
      /\ Translated(new, k) \in ParameterSpace
  BY InferredFacts DEF SyncInv
<1>2. HasValue(new[k])
  BY <1>1, TranslatedFacts DEF SyncInv
<1>3. CASE cache[k] # Absent
  BY <1>1, <1>3 DEF Translated
<1>4. CASE cache[k] = Absent
  <2> DEFINE any == new[k].value
             T == InferredType(any)
  <2>1. Translated(new, k) = Cast(any, T)
    BY <1>2, <1>4 DEF Translated, CreateParameterValueFromAny
  <2>2. cache'[k] # Absent /\ cache'[k].type = T /\ T # "unset"
    BY <1>1, <1>4, TranslatedFacts, ConversionAssumption, ParameterFacts DEF SyncInv
  <2> HIDE DEF T
  <2>3. Translated(blackboard, k)' = CreateParameterValueFromAny(any, T)
    BY <1>2, <2>2 DEF Translated
  <2>4. CreateParameterValueFromAny(any, T) = Cast(any, T)
    BY <2>2 DEF CreateParameterValueFromAny
  <2>5. QED
    BY <1>1, <2>1, <2>3, <2>4
<1>5. QED
  BY <1>3, <1>4

LEMMA RefusedIsForeign ==
  ASSUME SyncInv, ended = "no", NEW new, MayBecome(new), blackboard' = new, cleared' = cleared, Sync(new),
         NEW k \in Keys, Inferred(new)[k] # Absent, ~Takes(new[k], Inferred(new)[k])
  PROVE  OnlyForeignTypesFail'
<1> DEFINE v == Inferred(new)[k]
           any == CreateAnyFromParameterValue(v)
<1>1. new \in BlackboardSpace /\ WellTyped(new)
  BY DEF MayBecome
<1>2. v = Translated(new, k) /\ v # NoValue /\ v \in ParameterSpace /\ HasValue(new[k])
  BY <1>1, InferredFacts, TranslatedFacts DEF SyncInv
<1>3. CASE any = NoValue
  <2>1. cache'[k] = IF cache[k] = Absent THEN v ELSE cache[k]
    BY DEF Sync
  <2>2. Translated(blackboard, k)' = v
    BY <1>1, <2>1, TranslatedAgain
  <2>3. IsLostWhenPrinted(k)'
    BY <1>2, <1>3, <2>2 DEF IsLostWhenPrinted
  <2>4. QED
    BY <2>3 DEF OnlyForeignTypesFail
<1>4. CASE any # NoValue /\ k \notin cleared
  <2>1. any.type = v.type
    BY <1>2, <1>4, AnyFromParameter
  <2>2. new[k] # Absent /\ new[k].declared # "any" /\ new[k].declared # v.type
    BY <1>4, <2>1 DEF Takes, IsStronglyTyped
  <2>3. ASSUME new[k].declared \in ParameterTypes PROVE FALSE
    <3>1. CASE cache[k] = Absent
      BY <2>2, <2>3, <3>1, InferredKeyTyped
    <3>2. CASE cache[k] # Absent
      <4>1. blackboard[k] # Absent /\ new[k].declared = blackboard[k].declared
        BY <1>4, <3>2 DEF SyncInv, CacheTyped, KeyTyped, MayBecome
      <4>2. cache[k].type = new[k].declared
        BY <1>4, <2>3, <3>2, <4>1 DEF SyncInv, CacheTyped, KeyTyped
      <4>3. v.type = cache[k].type
        BY <1>1, <1>2, <3>2, TranslatedFacts DEF SyncInv
      <4>4. QED
        BY <2>2, <4>2, <4>3
    <3>3. QED
      BY <3>1, <3>2
  <2>4. QED
    BY <2>2, <2>3 DEF OnlyForeignTypesFail
<1>5. CASE k \in cleared
  BY <1>5 DEF OnlyForeignTypesFail
<1>6. QED
  BY <1>3, <1>4, <1>5

LEMMA TicksFail ==
  ASSUME SyncInv, ended = "no", Ticks PROVE OnlyForeignTypesFail'
<1>1. PICK new : MayBecome(new) /\ (Tick(new) \/ TickThrows(new))
  BY DEF Ticks
<1>2. blackboard' = new /\ cleared' = cleared /\ (ended' = ended \/ Sync(new))
  BY <1>1 DEF Tick, TickThrows, AfterTick
<1>3. CASE ended' = ended
  BY <1>3 DEF OnlyForeignTypesFail
<1>4. CASE Sync(new) /\ \A k \in Keys : Inferred(new)[k] # Absent => Takes(new[k], Inferred(new)[k])
  BY <1>4 DEF Sync, OnlyForeignTypesFail
<1>5. CASE Sync(new) /\ \E k \in Keys : Inferred(new)[k] # Absent /\ ~Takes(new[k], Inferred(new)[k])
  BY <1>1, <1>2, <1>5, RefusedIsForeign
<1>6. QED
  BY <1>2, <1>3, <1>4, <1>5

LEMMA OthersDoNotFail ==
  ASSUME ended = "no", ServeSet \/ ServeRead \/ ParameterStep \/ \E clear \in BOOLEAN : Start(clear)
  PROVE  ended' # "synchronization"
<1>1. ASSUME NEW k, NEW v, SetEntryParameter(k, v) \/ RejectEntryParameter(k, v)
      PROVE  ended' # "synchronization"
  BY <1>1 DEF SetEntryParameter, RejectEntryParameter, executionVars
<1>2. ServeSet => ended' # "synchronization"
  BY <1>1 DEF ServeSet
<1>3. ServeRead => ended' = ended
  BY DEF ServeRead, syncVars, executionVars
<1>4. ParameterStep => ended' # "synchronization"
  BY <1>1 DEF ParameterStep, SetEnumParameter, SetAllowDynamic, HandleEvent, ClearBlackboardService, executionVars
<1>5. ASSUME NEW clear, Start(clear) PROVE ended' = ended
  BY <1>5 DEF Start
<1>6. QED
  BY <1>2, <1>3, <1>4, <1>5

(***************************************************************************)
(* generic_executor_node.cpp: setting the parameters inferred from the     *)
(* entries only ends the process for an entry that was cleared, one whose  *)
(* port has a type no parameter has, or one whose value is lost when it is *)
(* printed, whatever is set from outside while the tree writes.            *)
(***************************************************************************)
THEOREM FailuresForeign == Spec => []OnlyForeignTypesFail
<1>1. Init => OnlyForeignTypesFail
  BY DEF Init, SyncInit, OnlyForeignTypesFail
<1>2. NodesInv /\ OnlyForeignTypesFail /\ [Next]_vars => OnlyForeignTypesFail'
  <2> SUFFICES ASSUME NodesInv, OnlyForeignTypesFail, [Next]_vars PROVE OnlyForeignTypesFail'
    OBVIOUS
  <2>1. CASE UNCHANGED vars
    BY <2>1 DEF vars, syncVars, executionVars, entryVars, OnlyForeignTypesFail, IsLostWhenPrinted, Translated
  <2>2. CASE Next
    <3>1. ended = "no" /\ (NodeStep \/ ParameterStep \/ ExecutionStep)
      BY <2>2 DEF Next
    <3>2. ExecutionStep => NodeTicks \/ \E clear \in BOOLEAN : Start(clear)
      BY TreeTicks DEF ExecutionStep
    <3>3. NodeTicks \/ ServeSet \/ ServeRead \/ ParameterStep \/ \E clear \in BOOLEAN : Start(clear)
      BY <3>1, <3>2, NodeStepKinds
    <3>4. CASE NodeTicks
      BY <3>1, <3>4, TicksFail DEF NodesInv, NodeTicks
    <3>5. CASE ~NodeTicks
      BY <3>1, <3>3, <3>5, OthersDoNotFail DEF OnlyForeignTypesFail
    <3>6. QED
      BY <3>4, <3>5
  <2>3. QED
    BY <2>1, <2>2
<1>3. QED
  BY <1>1, <1>2, InitNodes, NextNodes, PTL DEF Spec
=============================================================================
