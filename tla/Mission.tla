------------------------------- MODULE Mission -------------------------------
(***************************************************************************)
(* The mission orchestrator: the tree of orchestrator_base.xml with the    *)
(* subtrees MissionBuildHandlerBase puts into it.  Every tick of the tree  *)
(* first asks the event monitors and then serves one of three branches of  *)
(* a reactive fallback: the mission, the handling of an emergency, or the  *)
(* handling of a contingency.  The branches and the monitor only share the *)
(* entries event_id, is_emergency and contingency_inactive of the root     *)
(* blackboard.                                                             *)
(*                                                                         *)
(* The trees of the mission itself, of the monitors and of the handlers    *)
(* are the user's: they return RUNNING, SUCCESS or FAILURE at will.  The   *)
(* control nodes are BehaviorTree.CPP's and only appear by what they do to *)
(* the branches below them.                                                *)
(***************************************************************************)
EXTENDS Integers, Sequences, Functions

CONSTANTS
  Contingencies,  \* the monitors of the group CONTINGENCY, in its order
  Emergencies,    \* the monitors of the group EMERGENCY, in its order
  NoEvent         \* the empty event_id

VARIABLES
  phase,        \* the child of the root sequence that is ticked
  event,        \* event_id
  emergency,    \* is_emergency
  inactive,     \* contingency_inactive
  monitorAt,    \* the monitor the fallback of the monitors continues with
  mission,      \* first branch: idle, waiting for the handler, running
  rescue,       \* second branch: idle, waiting, handling
  rescuer,      \* the sequences below __HandleEmergency__
  handler,      \* the sequences below __HandleContingency__
  active        \* the conditions that hold in the world

blackboard == <<event, emergency, inactive>>
branches == <<mission, rescue, rescuer, handler>>
vars == <<phase, blackboard, monitorAt, branches, active>>

ASSUME MissionAssumption ==
  /\ NoEvent \notin Range(Contingencies) \cup Range(Emergencies)
  /\ Len(Contingencies) \in Nat /\ DOMAIN Contingencies = 1 .. Len(Contingencies)
  /\ Len(Emergencies) \in Nat /\ DOMAIN Emergencies = 1 .. Len(Emergencies)

Events == Range(Contingencies) \cup Range(Emergencies)
Statuses == {"RUNNING", "SUCCESS", "FAILURE"}

----------------------------------------------------------------------------
(* What the builder puts into __MonitorEvents__ and below the handlers.    *)

\* As a builder would order the monitors that goes through the groups in the
\* order of the configuration.
MonitorOrderOfGroups ==
  Contingencies \o SelectSeq(Emergencies, LAMBDA e : e \notin Range(Contingencies))

\* Emergencies first; a contingency that is an emergency is asked once.
MonitorOrder ==
  Emergencies \o SelectSeq(Contingencies, LAMBDA c : c \notin Range(Emergencies))

\* No sequence of a reactive fallback of handlers is under way.
NoneHandled == [at |-> 0, pos |-> "start"]

\* A sequence <<event_id == monitor, handler, hold>> that is ticked while the
\* event is v and its handler returns r does not fail.  It is asynchronous:
\* after a child that succeeds at once it returns RUNNING, and continues with
\* the next child in the next tick.
Holds(list, s, i, v, r, hold) ==
  IF s.at = i /\ s.pos # "hold"
  THEN r # "FAILURE" /\ (hold /\ s.pos = "handle" /\ r = "SUCCESS" => v = list[i])
  ELSE v = list[i]

\* Where it stands afterwards.
Advanced(s, i, r) ==
  IF s.at # i THEN [at |-> i, pos |-> "start"]
  ELSE IF s.pos = "hold" \/ r = "SUCCESS" THEN [at |-> i, pos |-> "hold"]
  ELSE [at |-> i, pos |-> "handle"]

\* The reactive fallback ends up with sequence i, the first that does not
\* fail, and halts all others; 0 if every one fails.
Serves(list, s, v, r, hold, i) ==
  /\ \A j \in DOMAIN list : j < i \/ i = 0 => ~Holds(list, s, j, v, r, hold)
  /\ i # 0 => i \in DOMAIN list /\ Holds(list, s, i, v, r, hold)

----------------------------------------------------------------------------
Init ==
  /\ phase = "bringup"
  /\ event = NoEvent
  /\ emergency = FALSE
  /\ inactive = TRUE
  /\ monitorAt = 1
  /\ mission = "idle"
  /\ rescue = "idle"
  /\ rescuer = NoneHandled
  /\ handler = NoneHandled
  /\ active = {}

\* A condition a monitor looks for comes or goes.
Happen(e) ==
  /\ active' = (active \ {e}) \cup ({e} \ active)
  /\ UNCHANGED <<phase, blackboard, monitorAt, branches>>

BringUp(status) ==
  /\ phase = "bringup"
  /\ status # "SUCCESS"
  /\ phase' = IF status = "RUNNING" THEN "bringup" ELSE "error"
  /\ UNCHANGED <<blackboard, monitorAt, branches, active>>

----------------------------------------------------------------------------
(* The event monitor: the first child of the parallel.                     *)

\* As if _failureIf were left out of the tree.
MutedNever == FALSE

\* Nothing is asked any more once an emergency was noticed: _failureIf.
Muted == emergency

\* The monitors up to k, from where the fallback stands, fail; k is still
\* running.
MonitorRuns(k) ==
  /\ ~Muted
  /\ k \in monitorAt .. Len(MonitorOrder)
  /\ \A i \in monitorAt .. k - 1 : MonitorOrder[i] \notin active
  /\ monitorAt' = k

\* The fallback of the monitors returns: e is event_id.
MonitorReturns(e) ==
  /\ ~Muted
  /\ \E k \in monitorAt .. Len(MonitorOrder) + 1 :
       /\ \A i \in monitorAt .. k - 1 : MonitorOrder[i] \notin active
       /\ IF k > Len(MonitorOrder) THEN e = NoEvent
          ELSE e = MonitorOrder[k] /\ e \in active
  /\ monitorAt' = 1

\* The entries after the monitor child of the parallel, which the branches
\* see: a changed event is an emergency, a contingency or the end of one.
Noticed(e) ==
  [event     |-> e,
   emergency |-> emergency \/ (e # event /\ e \in Range(Emergencies)),
   inactive  |-> inactive
     /\ ~(e # event /\ e \in Range(Contingencies) \ Range(Emergencies))]

Observations ==
  [event : Events \cup {NoEvent}, emergency : BOOLEAN, inactive : BOOLEAN]

Unnoticed == [event |-> event, emergency |-> emergency, inactive |-> inactive]

Monitor(o) ==
  \/ Muted /\ o = Unnoticed /\ UNCHANGED monitorAt
  \/ o = Unnoticed /\ \E k \in DOMAIN MonitorOrder : MonitorRuns(k)
  \/ \E e \in Events \cup {NoEvent} : MonitorReturns(e) /\ o = Noticed(e)

----------------------------------------------------------------------------
(* The reactive fallback: the second child of the parallel.  A branch that *)
(* runs halts the others.                                                  *)

\* As the third branch would be halted without _onHalted.
HandlerHaltedSilently(o) == handler' = NoneHandled /\ inactive' = o.inactive

\* The third branch is halted: _onHalted, if it was running.
HandlerHalted(o) == handler' = NoneHandled /\ inactive' = (o.inactive \/ handler.at # 0)

\* A tick that ends the parallel, by an error or with nothing left to do,
\* halts everything below it.
Ends(o, next) ==
  /\ phase' = next
  /\ mission' = "idle" /\ rescue' = "idle" /\ rescuer' = NoneHandled
  /\ HandlerHalted(o)

\* When the parallel succeeds, the shutdown is ticked at once.
ShutDownPhases == {"shutdown", "done", "error"}

\* As if the two branches did not begin with their waiting.
ReadyAlways(o) == o.inactive \in BOOLEAN

\* A branch waits until contingency_inactive before its first tick.
Ready(o) == o.inactive

\* First branch: _while event_id == '' && is_emergency == false.
MissionBranch(o, r) ==
  /\ o.event = NoEvent /\ ~o.emergency
  /\ IF mission = "running" \/ Ready(o)
     THEN \/ r = "RUNNING" /\ mission' = "running" /\ phase' = "run"
             /\ HandlerHalted(o) /\ UNCHANGED <<rescue, rescuer>>
          \/ r = "SUCCESS" /\ \E next \in ShutDownPhases : Ends(o, next)
          \/ r = "FAILURE" /\ Ends(o, "error")
     ELSE /\ mission' = "waiting" /\ phase' = "run"
          /\ HandlerHalted(o) /\ UNCHANGED <<rescue, rescuer>>

\* Second branch: _skipIf is_emergency == false.
EmergencyBranch(o, r) ==
  /\ o.emergency
  /\ IF rescue = "handling" \/ Ready(o)
     THEN \E i \in 0 .. Len(Emergencies) :
            /\ Serves(Emergencies, rescuer, o.event, r, FALSE, i)
            /\ \/ i = 0 /\ Ends(o, "error")
               \/ i # 0 /\ i = rescuer.at /\ r = "SUCCESS"
                  /\ \E next \in ShutDownPhases : Ends(o, next)
               \/ /\ i # 0 /\ (i # rescuer.at \/ r # "SUCCESS")
                  /\ rescue' = "handling" /\ rescuer' = Advanced(rescuer, i, r)
                  /\ mission' = "idle" /\ phase' = "run" /\ HandlerHalted(o)
     ELSE /\ rescue' = "waiting" /\ UNCHANGED rescuer
          /\ mission' = "idle" /\ phase' = "run" /\ HandlerHalted(o)

\* Third branch: _skipIf contingency_inactive == true, which is only asked
\* while it does not run.  Its own event_id == '' is never met: the first
\* branch is.
ContingencyBranch(o, r) ==
  /\ o.event # NoEvent /\ ~o.emergency
  /\ handler.at # 0 \/ ~o.inactive
  /\ \E i \in 0 .. Len(Contingencies) :
       /\ Serves(Contingencies, handler, o.event, r, TRUE, i)
       /\ \/ i = 0 /\ Ends(o, "error")
          \/ /\ i # 0
             /\ handler' = Advanced(handler, i, r)
             /\ mission' = "idle" /\ phase' = "run"
             /\ inactive' = o.inactive
             /\ UNCHANGED <<rescue, rescuer>>

\* One tick of the tree.  The first one follows the tick in which the bringup
\* succeeds.
Tick(r) ==
  /\ phase \in {"bringup", "run"}
  /\ \E o \in Observations :
       /\ Monitor(o)
       /\ event' = o.event
       /\ emergency' = o.emergency
       /\ MissionBranch(o, r) \/ EmergencyBranch(o, r) \/ ContingencyBranch(o, r)
  /\ UNCHANGED active

ShutDown(next) ==
  /\ phase = "shutdown"
  /\ phase' = next
  /\ UNCHANGED <<blackboard, monitorAt, branches, active>>

Next ==
  \/ \E e \in Events : Happen(e)
  \/ \E r \in Statuses : BringUp(r) \/ Tick(r)
  \/ \E next \in ShutDownPhases : ShutDown(next)

Spec == Init /\ [][Next]_vars

\* The executor's timer ticks the tree again and again; neither the bringup
\* nor the monitors run forever.
FairSpec ==
  /\ Spec
  /\ WF_vars(\E r \in Statuses : Tick(r))
  /\ WF_vars((\E r \in Statuses : Tick(r)) /\ (monitorAt' = 1))

----------------------------------------------------------------------------
\* The sequences below a handler subtree, at list's monitors.
HandlerStates(list) == [at : 0 .. Len(list), pos : {"start", "handle", "hold"}]

TypeOK ==
  /\ phase \in {"bringup", "run"} \cup ShutDownPhases
  /\ event \in Events \cup {NoEvent}
  /\ emergency \in BOOLEAN /\ inactive \in BOOLEAN
  /\ monitorAt \in Nat \ {0}
  /\ mission \in {"idle", "waiting", "running"}
  /\ rescue \in {"idle", "waiting", "handling"}
  /\ rescuer \in HandlerStates(Emergencies)
  /\ handler \in HandlerStates(Contingencies)
  /\ active \subseteq Events

\* contingency_inactive, which the monitor clears and the third branch sets,
\* tells whether a handler of a contingency is under way; and one is under way
\* exactly while an event that is no emergency is noticed, so that the tree
\* never idles with all branches skipped.
FlagIsTrue ==
  phase = "run" =>
    /\ inactive <=> handler.at = 0
    /\ handler.at # 0 <=> event # NoEvent /\ ~emergency

\* The mission and the handler of an emergency are only started by a tick that
\* finds the handler of a contingency halted: the two first nodes of their
\* branches, named HaltContingencyHandler, are for that.
StartsAlone ==
  [][ \/ mission # "running" /\ mission' = "running"
      \/ rescuer.at = 0 /\ rescuer'.at # 0
      => handler.at = 0 ]_vars

\* An emergency is for good: no later event replaces it, the mission and the
\* contingencies are over, and the mission ends with an error only after the
\* handler of this emergency was started: by its failure, or by an error of the
\* shutdown that follows it.
EmergencyStands ==
  [][ phase = "run" /\ emergency =>
      /\ emergency' /\ event' = event
      /\ mission' = "idle" /\ handler'.at = 0
      /\ rescuer'.at # 0 => Emergencies[rescuer'.at] = event
      /\ phase' = "error" => rescuer.at # 0 ]_vars

\* A condition that stays is noticed if it is an emergency, whatever else is
\* active; a noticed emergency is handled; and without an event the mission
\* goes on.
Responds ==
  /\ \A e \in Range(Emergencies) :
       <>[](e \in active) => <>(emergency \/ phase \in ShutDownPhases)
  /\ emergency ~> rescuer.at # 0 \/ phase \in ShutDownPhases
  /\ phase = "run" /\ event = NoEvent /\ ~emergency
       ~> mission = "running" \/ event # NoEvent \/ phase \in ShutDownPhases
==============================================================================
