---------------------------- MODULE MissionProofs ----------------------------
(***************************************************************************)
(* For any groups of contingencies and emergencies, whatever their trees   *)
(* return: the flag of the third branch is true to it, the branches start  *)
(* one at a time and an emergency is for good.                             *)
(*                                                                         *)
(* FlagIsTrue is not inductive: that a tick handles every event it notices *)
(* rests on an emergency never being noticed as an event only, and that an *)
(* emergency is found in the list of its handlers on where it came from.   *)
(***************************************************************************)
EXTENDS Mission, TLAPS

\* What the first tick finds.
Untouched ==
  phase = "bringup" =>
    event = NoEvent /\ ~emergency /\ inactive /\ handler.at = 0

\* Where an emergency comes from, and which of its handlers is under way.
EmergencyKnown ==
  /\ emergency => event \in Range(Emergencies)
  /\ ~emergency /\ phase = "run" => event \notin Range(Emergencies)
  /\ rescuer.at # 0 => emergency /\ Emergencies[rescuer.at] = event
  /\ rescue = "handling" => rescuer.at # 0
  /\ emergency /\ phase = "run" => mission = "idle"

IInv == TypeOK /\ FlagIsTrue /\ Untouched /\ EmergencyKnown

----------------------------------------------------------------------------
\* What the monitor child of the parallel leaves: the entries only change by
\* the event, and nothing changes once there is an emergency.
LEMMA MonitorSees ==
  ASSUME TypeOK, NEW o \in Observations, Monitor(o)
  PROVE  /\ monitorAt' \in Nat \ {0}
         /\ emergency => o = Unnoticed
         /\ \/ o = Unnoticed
            \/ \E e \in Events \cup {NoEvent} : o = Noticed(e)
<1>1. CASE Muted /\ o = Unnoticed /\ UNCHANGED monitorAt
  BY <1>1 DEF TypeOK
<1>2. CASE o = Unnoticed /\ \E k \in DOMAIN MonitorOrder : MonitorRuns(k)
  <2>1. PICK k \in DOMAIN MonitorOrder : MonitorRuns(k)
    BY <1>2
  <2>2. monitorAt' \in Nat \ {0}
    BY <2>1 DEF MonitorRuns, TypeOK
  <2> QED
    BY <1>2, <2>2
<1>3. CASE \E e \in Events \cup {NoEvent} : MonitorReturns(e) /\ o = Noticed(e)
  BY <1>3 DEF MonitorReturns, Muted
<1> QED
  BY <1>1, <1>2, <1>3 DEF Monitor

\* What the branches find, in the words of the invariant: a contingency is
\* noticed only together with its flag, and an emergency only as one.
LEMMA Observed ==
  ASSUME IInv, NEW o \in Observations, Monitor(o), phase \in {"bringup", "run"}
  PROVE  /\ o.emergency => o.event \in Range(Emergencies)
         /\ ~o.emergency => o.event \notin Range(Emergencies)
         /\ ~o.emergency /\ o.event # NoEvent => ~o.inactive
         /\ o.inactive => handler.at = 0
         /\ ~o.inactive /\ handler.at = 0 => o.event # NoEvent /\ ~o.emergency
<1> USE MissionAssumption
<1>1. CASE o = Unnoticed
  BY <1>1 DEF IInv, FlagIsTrue, Untouched, EmergencyKnown, Unnoticed, TypeOK, Events
<1>2. CASE ~emergency /\ \E e \in Events \cup {NoEvent} : o = Noticed(e)
  <2>1. PICK e \in Events \cup {NoEvent} : o = Noticed(e)
    BY <1>2
  <2>2. /\ o.event = e
        /\ o.emergency = (emergency \/ (e # event /\ e \in Range(Emergencies)))
        /\ o.inactive = (inactive
             /\ ~(e # event /\ e \in Range(Contingencies) \ Range(Emergencies)))
    BY <2>1 DEF Noticed
  <2>3. event \notin Range(Emergencies)
    BY <1>2, MissionAssumption DEF IInv, Untouched, EmergencyKnown
  <2> QED
    BY <1>2, <2>2, <2>3 DEF IInv, FlagIsTrue, Untouched, TypeOK, Events
<1> QED
  BY <1>1, <1>2, MonitorSees DEF IInv

\* A sequence that advances stays one of the list.
LEMMA AdvancedType ==
  ASSUME NEW list, NEW s, NEW r, NEW i \in 1 .. Len(list)
  PROVE  /\ Advanced(s, i, r) \in HandlerStates(list)
         /\ Advanced(s, i, r).at = i
BY DEF Advanced, HandlerStates

\* What an ended mission leaves.
LEMMA EndsType ==
  ASSUME TypeOK, NEW o \in Observations, NEW next \in ShutDownPhases, Ends(o, next),
         Len(Contingencies) \in Nat, Len(Emergencies) \in Nat
  PROVE  /\ phase' \in ShutDownPhases
         /\ mission' = "idle" /\ rescue' = "idle"
         /\ rescuer' \in HandlerStates(Emergencies) /\ rescuer'.at = 0
         /\ handler' \in HandlerStates(Contingencies) /\ handler'.at = 0
         /\ inactive' \in BOOLEAN
BY DEF Ends, HandlerHalted, NoneHandled, HandlerStates, Observations

----------------------------------------------------------------------------
\* The three branches.  Each keeps the invariant, given what the tick notices.
TickFacts(o) ==
  /\ event' = o.event
  /\ emergency' = o.emergency
  /\ monitorAt' \in Nat \ {0}
  /\ UNCHANGED active

\* A tick that ends the parallel keeps it.
LEMMA EndsInv ==
  ASSUME IInv, NEW o \in Observations, Monitor(o), TickFacts(o),
         phase \in {"bringup", "run"}, NEW next \in ShutDownPhases, Ends(o, next)
  PROVE  IInv'
<1> USE MissionAssumption
<1>1. /\ phase' \in ShutDownPhases
      /\ mission' = "idle" /\ rescue' = "idle"
      /\ rescuer' \in HandlerStates(Emergencies) /\ rescuer'.at = 0
      /\ handler' \in HandlerStates(Contingencies) /\ handler'.at = 0
      /\ inactive' \in BOOLEAN
  BY EndsType DEF IInv
<1>2. TypeOK'
  BY <1>1 DEF IInv, TypeOK, TickFacts, Observations
<1> QED
  BY <1>1, <1>2, Observed
  DEF IInv, FlagIsTrue, Untouched, EmergencyKnown, ShutDownPhases, TickFacts

LEMMA MissionBranchInv ==
  ASSUME IInv, NEW o \in Observations, Monitor(o), TickFacts(o),
         phase \in {"bringup", "run"}, NEW r \in Statuses, MissionBranch(o, r)
  PROVE  IInv'
<1> USE MissionAssumption
<1>1. CASE \E next \in ShutDownPhases : Ends(o, next)
  BY <1>1, EndsInv
<1>2. CASE /\ phase' = "run" /\ mission' \in {"running", "waiting"}
           /\ HandlerHalted(o) /\ UNCHANGED <<rescue, rescuer>>
  <2>1. handler' \in HandlerStates(Contingencies) /\ handler'.at = 0
    BY <1>2 DEF HandlerHalted, NoneHandled, HandlerStates
  <2>2. inactive'
    BY <1>2, Observed DEF HandlerHalted, MissionBranch, Observations
  <2>3. TypeOK'
    BY <1>2, <2>1, <2>2 DEF IInv, TypeOK, TickFacts, Observations
  <2>4. rescuer.at = 0
    <3>1. emergency => o = Unnoticed
      BY MonitorSees DEF IInv
    <3> QED
      BY <3>1 DEF IInv, EmergencyKnown, MissionBranch, Unnoticed
  <2> QED
    BY <1>2, <2>1, <2>2, <2>3, <2>4, Observed
    DEF IInv, FlagIsTrue, Untouched, EmergencyKnown, TickFacts, MissionBranch
<1> QED
  BY <1>1, <1>2 DEF MissionBranch, Statuses, ShutDownPhases

LEMMA EmergencyBranchInv ==
  ASSUME IInv, NEW o \in Observations, Monitor(o), TickFacts(o),
         phase \in {"bringup", "run"}, NEW r \in Statuses, EmergencyBranch(o, r)
  PROVE  IInv'
<1> USE MissionAssumption
<1>1. CASE \E next \in ShutDownPhases : Ends(o, next)
  BY <1>1, EndsInv
<1>2. ASSUME phase' = "run", mission' = "idle", HandlerHalted(o),
             rescue' \in {"waiting", "handling"},
             rescuer' \in HandlerStates(Emergencies),
             rescuer'.at # 0 => Emergencies[rescuer'.at] = o.event,
             rescue' = "handling" => rescuer'.at # 0
      PROVE  IInv'
  <2>1. handler' \in HandlerStates(Contingencies) /\ handler'.at = 0
    BY <1>2 DEF HandlerHalted, NoneHandled, HandlerStates
  <2>2. inactive'
    BY <1>2, Observed DEF HandlerHalted, EmergencyBranch, Observations
  <2>3. TypeOK'
    BY <1>2, <2>1, <2>2 DEF IInv, TypeOK, TickFacts, Observations
  <2> QED
    BY <1>2, <2>1, <2>2, <2>3, Observed
    DEF IInv, FlagIsTrue, Untouched, EmergencyKnown, TickFacts, EmergencyBranch
<1>3. rescuer.at # 0 => Emergencies[rescuer.at] = o.event
  <2>1. emergency => o = Unnoticed
    BY MonitorSees DEF IInv
  <2> QED
    BY <2>1 DEF IInv, EmergencyKnown, Unnoticed
<1>4. CASE rescue = "handling" \/ Ready(o)
  <2>1. PICK i \in 0 .. Len(Emergencies) :
          /\ Serves(Emergencies, rescuer, o.event, r, FALSE, i)
          /\ \/ i = 0 /\ Ends(o, "error")
             \/ i # 0 /\ i = rescuer.at /\ r = "SUCCESS"
                /\ \E next \in ShutDownPhases : Ends(o, next)
             \/ /\ i # 0 /\ (i # rescuer.at \/ r # "SUCCESS")
                /\ rescue' = "handling" /\ rescuer' = Advanced(rescuer, i, r)
                /\ mission' = "idle" /\ phase' = "run" /\ HandlerHalted(o)
    BY <1>4 DEF EmergencyBranch
  <2>2. CASE i = 0 \/ (i = rescuer.at /\ r = "SUCCESS")
    BY <1>1, <2>1, <2>2 DEF ShutDownPhases
  <2>3. CASE i # 0 /\ ~(i = rescuer.at /\ r = "SUCCESS")
    <3>1. i \in 1 .. Len(Emergencies)
      BY <2>3
    <3>2. rescuer' \in HandlerStates(Emergencies) /\ rescuer'.at = i
      BY <2>1, <2>3, <3>1, AdvancedType
    <3>3. Emergencies[i] = o.event
      BY <1>3, <2>1, <2>3 DEF Serves, Holds
    <3> QED
      BY <1>2, <2>1, <2>3, <3>2, <3>3
  <2> QED
    BY <2>2, <2>3
<1>5. CASE ~(rescue = "handling" \/ Ready(o))
  <2>1. /\ rescue' = "waiting" /\ UNCHANGED rescuer
        /\ mission' = "idle" /\ phase' = "run" /\ HandlerHalted(o)
    BY <1>5 DEF EmergencyBranch
  <2>2. rescuer' \in HandlerStates(Emergencies)
    BY <2>1 DEF IInv, TypeOK
  <2> QED
    BY <1>2, <1>3, <2>1, <2>2
<1> QED
  BY <1>4, <1>5

LEMMA ContingencyBranchInv ==
  ASSUME IInv, NEW o \in Observations, Monitor(o), TickFacts(o),
         phase \in {"bringup", "run"}, NEW r \in Statuses, ContingencyBranch(o, r)
  PROVE  IInv'
<1> USE MissionAssumption
<1>1. PICK i \in 0 .. Len(Contingencies) :
        \/ i = 0 /\ Ends(o, "error")
        \/ /\ i # 0
           /\ handler' = Advanced(handler, i, r)
           /\ mission' = "idle" /\ phase' = "run"
           /\ inactive' = o.inactive
           /\ UNCHANGED <<rescue, rescuer>>
  BY DEF ContingencyBranch
<1>2. CASE i = 0
  BY <1>1, <1>2, EndsInv DEF ShutDownPhases
<1>3. CASE i # 0
  <2>1. handler' \in HandlerStates(Contingencies) /\ handler'.at = i
    BY <1>1, <1>3, AdvancedType
  <2>2. TypeOK'
    BY <1>1, <1>3, <2>1 DEF IInv, TypeOK, TickFacts, Observations
  <2>3. ~inactive' /\ o.event # NoEvent /\ ~o.emergency
    BY <1>1, <1>3, Observed DEF ContingencyBranch
  <2>4. rescuer.at = 0
    <3>1. emergency => o = Unnoticed
      BY MonitorSees DEF IInv
    <3> QED
      BY <2>3, <3>1 DEF IInv, EmergencyKnown, Unnoticed
  <2> QED
    BY <1>1, <1>3, <2>1, <2>2, <2>3, <2>4, Observed
    DEF IInv, FlagIsTrue, Untouched, EmergencyKnown, TickFacts
<1> QED
  BY <1>2, <1>3

----------------------------------------------------------------------------
LEMMA InitInv == Init => IInv
<1> SUFFICES ASSUME Init PROVE IInv
  OBVIOUS
<1>1. /\ NoneHandled \in HandlerStates(Contingencies)
      /\ NoneHandled \in HandlerStates(Emergencies)
      /\ NoneHandled.at = 0
  BY MissionAssumption DEF NoneHandled, HandlerStates
<1>2. TypeOK
  <2>1. rescuer \in HandlerStates(Emergencies) /\ handler \in HandlerStates(Contingencies)
    BY <1>1 DEF Init
  <2>2. emergency \in BOOLEAN /\ inactive \in BOOLEAN
    BY DEF Init
  <2>3. monitorAt \in Nat \ {0} /\ active \subseteq Events
    BY DEF Init
  <2> QED
    BY <2>1, <2>2, <2>3 DEF Init, TypeOK
<1>3. FlagIsTrue /\ Untouched /\ EmergencyKnown
  BY <1>1 DEF Init, FlagIsTrue, Untouched, EmergencyKnown
<1> QED
  BY <1>2, <1>3 DEF IInv

LEMMA TickInv ==
  ASSUME IInv, NEW r \in Statuses, Tick(r) PROVE IInv'
<1>1. PICK o \in Observations :
        /\ Monitor(o)
        /\ event' = o.event
        /\ emergency' = o.emergency
        /\ MissionBranch(o, r) \/ EmergencyBranch(o, r) \/ ContingencyBranch(o, r)
  BY DEF Tick
<1>2. TickFacts(o) /\ phase \in {"bringup", "run"}
  BY <1>1, MonitorSees DEF Tick, TickFacts, IInv
<1> QED
  BY <1>1, <1>2, MissionBranchInv, EmergencyBranchInv, ContingencyBranchInv

LEMMA NextInv == IInv /\ [Next]_vars => IInv'
<1> SUFFICES ASSUME IInv, [Next]_vars PROVE IInv'
  OBVIOUS
<1> USE DEF IInv
<1>1. CASE \E e \in Events : Happen(e)
  BY <1>1 DEF Happen, blackboard, branches, TypeOK, FlagIsTrue, Untouched, EmergencyKnown
<1>2. CASE \E r \in Statuses : BringUp(r)
  BY <1>2 DEF BringUp, blackboard, branches, TypeOK, FlagIsTrue, Untouched,
              EmergencyKnown, ShutDownPhases
<1>3. CASE \E r \in Statuses : Tick(r)
  BY <1>3, TickInv
<1>4. CASE \E next \in ShutDownPhases : ShutDown(next)
  BY <1>4 DEF ShutDown, blackboard, branches, TypeOK, FlagIsTrue, Untouched,
              EmergencyKnown, ShutDownPhases
<1>5. CASE UNCHANGED vars
  BY <1>5 DEF vars, blackboard, branches, TypeOK, FlagIsTrue, Untouched, EmergencyKnown
<1> QED
  BY <1>1, <1>2, <1>3, <1>4, <1>5 DEF Next

\* The entries of the blackboard and the states of the branches stay in their
\* types, whatever the trees of the mission return.
THEOREM TypeCorrect == Spec => []TypeOK
<1>1. IInv => TypeOK
  BY DEF IInv
<1> QED
  BY <1>1, InitInv, NextInv, PTL DEF Spec

\* contingency_inactive is true to the third branch, and a noticed contingency
\* is never left without its branch.
THEOREM FlagCorrect == Spec => []FlagIsTrue
<1>1. IInv => FlagIsTrue
  BY DEF IInv
<1> QED
  BY <1>1, InitInv, NextInv, PTL DEF Spec

----------------------------------------------------------------------------
\* A branch that starts found the handler of the contingencies halted.
LEMMA TickStartsAlone ==
  ASSUME IInv, NEW r \in Statuses, Tick(r),
         \/ mission # "running" /\ mission' = "running"
         \/ rescuer.at = 0 /\ rescuer'.at # 0
  PROVE  handler.at = 0
<1>1. PICK o \in Observations :
        /\ Monitor(o)
        /\ MissionBranch(o, r) \/ EmergencyBranch(o, r) \/ ContingencyBranch(o, r)
  BY DEF Tick
<1>2. o.inactive => handler.at = 0
  BY <1>1, Observed DEF Tick
<1>3. CASE MissionBranch(o, r)
  BY <1>2, <1>3 DEF MissionBranch, Ready, Ends, NoneHandled
<1>4. CASE EmergencyBranch(o, r)
  <2>1. mission' # "running"
    BY <1>4 DEF EmergencyBranch, Ends
  <2>2. rescuer.at = 0 /\ rescuer'.at # 0
    BY <2>1
  <2>3. CASE Ready(o)
    BY <1>2, <2>3 DEF Ready
  <2>4. CASE rescue = "handling" /\ ~Ready(o)
    BY <2>2, <2>4 DEF IInv, EmergencyKnown
  <2>5. CASE rescue # "handling" /\ ~Ready(o)
    BY <1>4, <2>2, <2>5 DEF EmergencyBranch
  <2> QED
    BY <2>3, <2>4, <2>5
<1>5. CASE ContingencyBranch(o, r)
  BY <1>5 DEF ContingencyBranch, Ends, NoneHandled
<1> QED
  BY <1>1, <1>3, <1>4, <1>5
\* For any groups of events: a branch only starts once the handler of the
\* contingencies was halted.
THEOREM StartsAloneCorrect == Spec => StartsAlone
<1>1. IInv /\ [Next]_vars =>
        [ \/ mission # "running" /\ mission' = "running"
          \/ rescuer.at = 0 /\ rescuer'.at # 0
          => handler.at = 0 ]_vars
  <2> SUFFICES ASSUME IInv, Next,
                      \/ mission # "running" /\ mission' = "running"
                      \/ rescuer.at = 0 /\ rescuer'.at # 0
               PROVE  handler.at = 0
    OBVIOUS
  <2>1. PICK r \in Statuses : Tick(r)
    BY DEF Next, Happen, BringUp, ShutDown, branches
  <2> QED
    BY <2>1, TickStartsAlone
<1> QED
  BY <1>1, InitInv, NextInv, PTL DEF Spec, StartsAlone

----------------------------------------------------------------------------
\* What a tick keeps of an emergency.
EmergencyKept ==
  /\ emergency' /\ event' = event
  /\ mission' = "idle" /\ handler'.at = 0
  /\ rescuer'.at # 0 => Emergencies[rescuer'.at] = event
  /\ phase' = "error" => rescuer.at # 0

LEMMA TickKeepsEmergency ==
  ASSUME IInv, NEW r \in Statuses, Tick(r), phase = "run", emergency
  PROVE  EmergencyKept
<1> USE MissionAssumption
<1>1. PICK o \in Observations :
        /\ Monitor(o) /\ event' = o.event /\ emergency' = o.emergency
        /\ MissionBranch(o, r) \/ EmergencyBranch(o, r) \/ ContingencyBranch(o, r)
  BY DEF Tick
<1>2. o.emergency /\ o.event = event
  BY <1>1, MonitorSees DEF IInv, Unnoticed
<1>3. EmergencyBranch(o, r)
  BY <1>1, <1>2 DEF MissionBranch, ContingencyBranch
<1>4. emergency' /\ event' = event
  BY <1>1, <1>2
<1>5. mission' = "idle" /\ handler'.at = 0
  <2>1. mission' = "idle" /\ HandlerHalted(o)
    BY <1>3 DEF EmergencyBranch, Ends
  <2> QED
    BY <2>1 DEF HandlerHalted, NoneHandled
<1>6. rescuer'.at # 0 => Emergencies[rescuer'.at] = event
  BY <1>4, TickInv DEF IInv, EmergencyKnown
<1>7. phase' = "error" => rescuer.at # 0
  <2> SUFFICES ASSUME phase' = "error", rescuer.at = 0 PROVE FALSE
    OBVIOUS
  <2>1. PICK i \in 0 .. Len(Emergencies) :
          /\ Serves(Emergencies, rescuer, o.event, r, FALSE, i)
          /\ i = 0 \/ i = rescuer.at
    BY <1>3 DEF EmergencyBranch
  <2>2. \A j \in DOMAIN Emergencies : Emergencies[j] # event
    BY <1>2, <2>1 DEF Serves, Holds
  <2>3. event \in Range(Emergencies)
    BY DEF IInv, EmergencyKnown
  <2> QED
    BY <2>2, <2>3 DEF Range
<1> QED
  BY <1>4, <1>5, <1>6, <1>7 DEF EmergencyKept

\* For any groups of events: an emergency that was noticed is for good, and
\* only its own handler can fail the mission.
THEOREM EmergencyCorrect == Spec => EmergencyStands
<1>1. IInv /\ [Next]_vars => [phase = "run" /\ emergency => EmergencyKept]_vars
  <2> SUFFICES ASSUME IInv, Next, phase = "run", emergency PROVE EmergencyKept
    OBVIOUS
  <2>1. CASE \E e \in Events : Happen(e)
    BY <2>1 DEF Happen, blackboard, branches, EmergencyKept, IInv, FlagIsTrue,
                EmergencyKnown
  <2>2. CASE \E r \in Statuses : Tick(r)
    BY <2>2, TickKeepsEmergency
  <2>3. CASE ~(\E r \in Statuses : Tick(r)) /\ ~(\E e \in Events : Happen(e))
    BY <2>3 DEF Next, BringUp, ShutDown
  <2> QED
    BY <2>1, <2>2, <2>3
<1> QED
  BY <1>1, InitInv, NextInv, PTL DEF Spec, EmergencyStands, EmergencyKept
==============================================================================
