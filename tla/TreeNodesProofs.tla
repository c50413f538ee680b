--------------------------- MODULE TreeNodesProofs ---------------------------
(***************************************************************************)
(* Theorems of TreeNodes, for any set of nodes, topics, requests and       *)
(* messages.                                                               *)
(***************************************************************************)
EXTENDS TreeNodes, TLAPS

-----------------------------------------------------------------------------
(***************************************************************************)
(* Service node: without a halt, the only request the client may know is   *)
(* the one the node is running for, and it is gone once it is answered.    *)
(***************************************************************************)
ServiceInv ==
  /\ request \in Nat /\ response \in Nat
  /\ halted \in BOOLEAN
  /\ pending \subseteq Nat
  /\ halted = FALSE =>
       /\ pending \subseteq {request}
       /\ status # "RUNNING" => pending = {}
       /\ status = "RUNNING" /\ response # 0 => response = request /\ pending = {}

LEMMA ServiceInitially == ServiceInit => ServiceInv
<1>1. ServiceInit => request \in Nat /\ response \in Nat /\ response = 0 /\ pending = {}
  BY DEF ServiceInit
<1>2. ServiceInit => halted \in BOOLEAN
  BY Zenon DEF ServiceInit
<1>3. QED
  BY <1>1, <1>2 DEF ServiceInv

LEMMA ServiceStays ==
  ServiceInv /\ (ServiceNext \/ DestroyService \/ UNCHANGED serviceVars) => ServiceInv'
<1> SUFFICES ASSUME ServiceInv, ServiceNext \/ DestroyService \/ UNCHANGED serviceVars
             PROVE  ServiceInv'
  OBVIOUS
<1> USE DEF ServiceInv, serverVars, nodeVars
<1>1. CASE StartFails
  BY <1>1 DEF StartFails
<1>2. CASE SendRequest
  BY <1>2 DEF SendRequest
<1>3. CASE TickTimesOut
  BY <1>3 DEF TickTimesOut
<1>4. CASE TickCompletes
  BY <1>4 DEF TickCompletes
<1>5. CASE HaltService
  BY <1>5 DEF HaltService
<1>6. CASE TimeoutExpires
  BY <1>6 DEF TimeoutExpires
<1>7. CASE \E r \in Requests : Answer(r)
  BY <1>7 DEF Answer
<1>8. ASSUME NEW r \in Requests, ResponseArrives(r) PROVE ServiceInv'
  <2>1. r \in Nat /\ r # 0
    BY ServiceAssumption, <1>8 DEF Requests
  <2>2. QED
    BY <2>1, <1>8 DEF ResponseArrives
<1>9. CASE DestroyService
  BY <1>9 DEF DestroyService
<1>10. CASE UNCHANGED serviceVars
  BY <1>10 DEF serviceVars
<1>11. QED
  BY <1>1, <1>2, <1>3, <1>4, <1>5, <1>6, <1>7, <1>8, <1>9, <1>10
     DEF ServiceNext, TickService

LEMMA NextOfService ==
  [Next]_vars => ServiceNext \/ DestroyService \/ UNCHANGED serviceVars
  BY DEF Next, vars, StartExecution, Terminate, ServiceStep, SubscriberStep, WriteEntry

(***************************************************************************)
(* ros_service_node.hpp: only an activation that is halted leaves a        *)
(* response behind for a later one, however many requests are sent and in  *)
(* whatever order they are answered.                                       *)
(***************************************************************************)
THEOREM ResponsesCorrect == Spec => []OnlyHaltsLeaveResponses
<1>1. Init => ServiceInv
  BY ServiceInitially DEF Init
<1>2. ServiceInv /\ [Next]_vars => ServiceInv'
  BY ServiceStays, NextOfService
<1>3. ServiceInv => OnlyHaltsLeaveResponses
  <2>1. ServiceInv /\ ~halted => halted = FALSE
    BY Zenon DEF ServiceInv
  <2>2. ServiceInv /\ halted = FALSE /\ status = "RUNNING" /\ response # 0 =>
          response = request
    BY DEF ServiceInv
  <2>3. QED
    BY <2>1, <2>2, Zenon DEF OnlyHaltsLeaveResponses
<1>4. QED
  BY <1>1, <1>2, <1>3, PTL DEF Spec

-----------------------------------------------------------------------------
(***************************************************************************)
(* Subscriber nodes: CallbacksAreHolders is inductive once it is known     *)
(* that only objects that exist hold an instance or are called back by it. *)
(***************************************************************************)
CallbackInv ==
  /\ alive \in SUBSET Nodes
  /\ \E g \in {0, 1} : alive \cap (Names \X {g}) = {}
  /\ sub \in [Nodes -> Topics \cup {None}]
  /\ \A n \in Nodes \ alive : sub[n] = None
  /\ entry \in Topics \cup {None}
  /\ \A t \in Topics : callbacks[t] \subseteq alive
  /\ dangling \subseteq Topics
  /\ CallbacksAreHolders

LEMMA ReplaceKeeps ==
  ASSUME CallbackInv, NEW new \in SUBSET Nodes, new \cap alive = {}, Replace(new),
         \E g \in {0, 1} : new \cap (Names \X {g}) = {}
  PROVE  CallbackInv'
<1> DEFINE subs == [n \in Nodes |-> IF n \in new THEN Constructed(n) ELSE None]
<1>0. PICK left \in SUBSET Leaving(new, subs) :
        /\ alive' = new /\ sub' = subs /\ UNCHANGED <<entry, corrupted>>
        /\ Keep(subs, [t \in Topics |-> Owners(t, subs, alive)
                                        \cup {n \in left : StaticTopic[n[1]] = t}], new)
  BY DEF Replace
<1> DEFINE owners(t) == Owners(t, subs, alive) \cup {n \in left : StaticTopic[n[1]] = t}
<1>1. /\ callbacks' = [t \in Topics |-> IF Held(t, subs) THEN owners(t) \cap new ELSE {}]
      /\ dangling' = {t \in Topics : Held(t, subs)
                         /\ (t \in dangling \/ ~(owners(t) \subseteq new))}
  BY <1>0 DEF Keep
<1>2. \A n \in Nodes : Constructed(n) \in Topics \cup {None}
  BY SubscriberAssumption DEF Constructed, Nodes
<1>3. subs \in [Nodes -> Topics \cup {None}]
  BY <1>2
<1>4. \A n \in Nodes : subs[n] # None => n \in new
  OBVIOUS
<1>5. ASSUME NEW t \in Topics, NEW n \in left, StaticTopic[n[1]] = t
      PROVE  n \in new /\ LeavesCallback(n[1], t)
  BY <1>5 DEF Leaving, LeavesCallback
<1> HIDE DEF subs
<1>6. ASSUME NEW t \in Topics
      PROVE  /\ callbacks[t] \subseteq alive
             /\ {n \in Nodes : subs[n] = t} \subseteq new
  BY <1>4, SubscriberAssumption DEF CallbackInv
<1>7. ASSUME NEW t \in Topics
      PROVE  /\ callbacks'[t] \subseteq new
             /\ {n \in new : subs[n] = t} \subseteq callbacks'[t]
             /\ \A n \in callbacks'[t] : subs[n] = t \/ LeavesCallback(n[1], t)
  BY <1>1, <1>5, <1>6 DEF Owners, Held
<1>8. ASSUME NEW t \in dangling' PROVE \E name \in Names : LeavesCallback(name, t)
  <2>1. t \in Topics /\ (t \in dangling \/ ~(owners(t) \subseteq new))
    BY <1>1, <1>8
  <2>2. CASE t \in dangling
    BY <2>2 DEF CallbackInv, CallbacksAreHolders
  <2>3. CASE ~(owners(t) \subseteq new)
    <3>1. PICK n \in callbacks[t] : n \notin {m \in alive : sub[m] = t}
      BY <2>1, <2>3, <1>5, <1>6 DEF Owners
    <3>2. n \in alive /\ sub[n] # t /\ n[1] \in Names
      BY <2>1, <3>1, <1>6 DEF CallbackInv, Nodes
    <3>3. LeavesCallback(n[1], t)
      BY <2>1, <3>1, <3>2 DEF CallbackInv, CallbacksAreHolders
    <3>4. QED
      BY <3>2, <3>3
  <2>4. QED
    BY <2>1, <2>2, <2>3
<1>9. CallbacksAreHolders'
  BY <1>0, <1>7, <1>8 DEF CallbackInv, CallbacksAreHolders
<1>10. QED
  BY <1>0, <1>1, <1>3, <1>4, <1>7, <1>9 DEF CallbackInv

LEMMA SubscribesKeeps ==
  ASSUME CallbackInv, NEW m \in Nodes, TickSubscribes(m)
  PROVE  CallbackInv'
<1> DEFINE owners(t) == Owners(t, sub', {})
<1>1. /\ m \in alive /\ sub[m] = None /\ entry \in Topics
      /\ sub' = [sub EXCEPT ![m] = entry]
      /\ UNCHANGED <<alive, entry, corrupted>>
      /\ callbacks' = [t \in Topics |-> IF Held(t, sub') THEN owners(t) \cap alive ELSE {}]
      /\ dangling' = {t \in Topics : Held(t, sub')
                         /\ (t \in dangling \/ ~(owners(t) \subseteq alive))}
  BY DEF TickSubscribes, Keep, CallbackInv
<1>2. sub' \in [Nodes -> Topics \cup {None}]
  BY <1>1 DEF CallbackInv
<1>3. \A n \in Nodes \ alive : sub'[n] = None
  BY <1>1 DEF CallbackInv
<1>4. ASSUME NEW t \in Topics PROVE owners(t) = callbacks[t] \cup {n \in alive : sub'[n] = t}
  BY <1>3, SubscriberAssumption DEF Owners, CallbackInv
<1>5. dangling' \subseteq dangling
  BY <1>1, <1>4 DEF CallbackInv
<1>6. ASSUME NEW t \in Topics, NEW n \in callbacks[t]
      PROVE  sub'[n] = t \/ LeavesCallback(n[1], t)
  <2>1. n \in Nodes /\ (sub[n] = t \/ LeavesCallback(n[1], t))
    BY DEF CallbackInv, CallbacksAreHolders
  <2>2. QED
    BY <1>1, <2>1, SubscriberAssumption DEF CallbackInv
<1>7. ASSUME NEW t \in Topics
      PROVE  /\ callbacks'[t] \subseteq alive
             /\ {n \in alive : sub'[n] = t} \subseteq callbacks'[t]
             /\ \A n \in callbacks'[t] : sub'[n] = t \/ LeavesCallback(n[1], t)
  <2> HIDE DEF owners
  <2>1. callbacks'[t] = IF Held(t, sub') THEN owners(t) \cap alive ELSE {}
    BY <1>1
  <2>2. Held(t, sub') \/ {n \in alive : sub'[n] = t} = {}
    BY DEF Held, CallbackInv
  <2>3. callbacks'[t] \subseteq callbacks[t] \cup {n \in alive : sub'[n] = t}
    BY <1>4, <2>1
  <2>4. {n \in alive : sub'[n] = t} \subseteq callbacks'[t]
    BY <1>4, <2>1, <2>2
  <2>5. QED
    BY <1>6, <2>1, <2>3, <2>4
<1>8. CallbacksAreHolders'
  BY <1>1, <1>5, <1>7 DEF CallbackInv, CallbacksAreHolders
<1>9. QED
  BY <1>1, <1>2, <1>3, <1>5, <1>7, <1>8 DEF CallbackInv

LEMMA DanglingAllows ==
  CallbackInv => (dangling # {} => \E name \in Names : Resubscribes(name))
  BY DEF CallbackInv, CallbacksAreHolders, LeavesCallback

LEMMA ConstructKeeps == CallbackInv /\ Construct => CallbackInv'
<1> SUFFICES ASSUME CallbackInv, Construct PROVE CallbackInv'
  OBVIOUS
<1> DEFINE g == FreeGeneration
<1>1. g \in {0, 1} /\ alive \cap (Names \X {g}) = {}
  BY DEF CallbackInv, FreeGeneration
<1>2. Names \X {g} \in SUBSET Nodes
  BY <1>1 DEF Nodes
<1>3. \E h \in {0, 1} : (Names \X {g}) \cap (Names \X {h}) = {}
  <2>1. (Names \X {0}) \cap (Names \X {1}) = {}
    OBVIOUS
  <2>2. QED
    BY <1>1, <2>1
<1>4. QED
  BY <1>1, <1>2, <1>3, ReplaceKeeps DEF Construct

LEMMA TerminateKeeps == CallbackInv /\ DestroySubscribers => CallbackInv'
<1>1. ASSUME CallbackInv, DestroySubscribers PROVE CallbackInv'
  <2>1. {} \in SUBSET Nodes /\ {} \cap alive = {}
    OBVIOUS
  <2>2. \E g \in {0, 1} : {} \cap (Names \X {g}) = {}
    OBVIOUS
  <2>3. QED
    BY <1>1, <2>1, <2>2, ReplaceKeeps DEF DestroySubscribers
<1>2. QED
  BY <1>1

LEMMA CallbacksStay == CallbackInv /\ [Next]_vars => CallbackInv'
<1> SUFFICES ASSUME CallbackInv, [Next]_vars PROVE CallbackInv'
  OBVIOUS
<1>1. CASE StartExecution
  BY <1>1, ConstructKeeps DEF StartExecution
<1>2. CASE Terminate
  BY <1>2, TerminateKeeps DEF Terminate
<1>3. CASE /\ UNCHANGED <<alive, sub, callbacks, dangling>> /\ entry' \in Topics \cup {None}
           /\ corrupted' => corrupted \/ dangling # {}
  BY <1>3, DanglingAllows DEF CallbackInv, CallbacksAreHolders
<1>4. CASE ServiceStep
  BY <1>3, <1>4 DEF ServiceStep, subscriberVars, objectVars, instanceVars, CallbackInv
<1>5. CASE SubscriberStep
  <2>1. ASSUME NEW t \in Topics, Receive(t) PROVE CallbackInv'
    BY <1>3, <2>1 DEF Receive, CallbackInv
  <2>2. ASSUME NEW m \in Nodes, TickSubscribed(m) PROVE CallbackInv'
    BY <1>3, <2>2 DEF TickSubscribed, instanceVars, CallbackInv
  <2>3. QED
    BY <1>5, <2>1, <2>2, SubscribesKeeps
       DEF SubscriberStep, ReceiveStep, TickSubscriber
<1>6. CASE WriteEntry
  BY <1>3, <1>6 DEF WriteEntry, SetEntry, objectVars, instanceVars
<1>7. CASE UNCHANGED vars
  BY <1>3, <1>7 DEF vars, subscriberVars, objectVars, instanceVars, CallbackInv
<1>8. QED
  BY <1>1, <1>2, <1>4, <1>5, <1>6, <1>7 DEF Next

(***************************************************************************)
(* ros_subscriber_node.hpp: whenever trees are started, left behind by a   *)
(* failed start and replaced, a shared subscription calls back the nodes   *)
(* that hold it, and beyond them only what a class that subscribes twice   *)
(* has left there.                                                         *)
(***************************************************************************)
THEOREM CallbacksCorrect == Spec => []CallbacksAreHolders
<1>1. Init => CallbackInv
  BY DEF Init, SubscriberInit, CallbackInv, CallbacksAreHolders
<1>2. CallbackInv => CallbacksAreHolders
  BY DEF CallbackInv
<1>3. QED
  BY <1>1, <1>2, CallbacksStay, PTL DEF Spec

-----------------------------------------------------------------------------
(***************************************************************************)
(* Messages: those seen are not newer than the last one published, and a   *)
(* node without subscription has evaluated none.                           *)
(***************************************************************************)
MessageInv ==
  /\ CallbackInv
  /\ published \in Nat
  /\ topicMsg \in [Topics -> 0..published]
  /\ lastMsg \in [Nodes -> 0..published]
  /\ evaluated \in [Nodes -> 0..published]
  /\ \A n \in alive : sub[n] = None => evaluated[n] = 0
  /\ LastMessageKnown

LEMMA MissedIsKnown ==
  ASSUME MessageInv, NEW t \in Topics \cup {None}
  PROVE  MissedMessage(t) \in 0..published
BY DEF MessageInv, MissedMessage

LEMMA ReplaceInforms ==
  ASSUME MessageInv, NEW new \in SUBSET Nodes, Replace(new)
  PROVE  /\ published' = published
         /\ topicMsg' \in [Topics -> 0..published]
         /\ lastMsg' \in [Nodes -> 0..published]
         /\ evaluated' \in [Nodes -> 0..published]
         /\ \A n \in alive' : evaluated'[n] = 0
         /\ LastMessageKnown'
<1> DEFINE subs == [n \in Nodes |-> IF n \in new THEN Constructed(n) ELSE None]
<1>1. /\ alive' = new /\ sub' = subs /\ published' = published
      /\ lastMsg' = [n \in Nodes |-> IF n \in new THEN FirstMessage(n) ELSE 0]
      /\ evaluated' = [n \in Nodes |-> 0]
      /\ topicMsg' = [t \in Topics |-> IF Held(t, subs) THEN topicMsg[t] ELSE 0]
  BY DEF Replace, Keep
<1>2. /\ \A n \in Nodes : subs[n] \in Topics \cup {None}
      /\ \A n \in new : Constructed(n) \in Topics \cup {None}
      /\ \A n \in new : StaticTopic[n[1]] \in Topics \cup {None}
  BY SubscriberAssumption DEF Constructed, Nodes
<1>8. ASSUME NEW n \in new, ~Resubscribes(n[1])
      PROVE  FirstMessage(n) = MissedMessage(subs[n])
  BY <1>8, SubscriberAssumption DEF FirstMessage, Constructed, Resubscribes, MissedMessage, Nodes
<1> HIDE DEF subs
<1>3. 0 \in 0..published /\ topicMsg \in [Topics -> 0..published]
  BY DEF MessageInv
<1>4. lastMsg' \in [Nodes -> 0..published]
  BY <1>1, <1>2, <1>3, MissedIsKnown DEF FirstMessage
<1>5. ASSUME NEW n \in new, subs[n] # None, ~Resubscribes(n[1])
      PROVE  lastMsg'[n] = topicMsg'[subs[n]] /\ evaluated'[n] = 0
  BY <1>1, <1>2, <1>5, <1>8 DEF Held, MissedMessage
<1>6. LastMessageKnown'
  <2>1. ASSUME NEW n \in new, subs[n] # None, ~Resubscribes(n[1])
        PROVE  /\ topicMsg'[subs[n]] = IF lastMsg'[n] # 0 THEN lastMsg'[n] ELSE evaluated'[n]
               /\ lastMsg'[n] # 0 => lastMsg'[n] > evaluated'[n]
    BY <1>4, <1>5, <2>1 DEF MessageInv
  <2>2. QED
    BY <1>1, <2>1 DEF LastMessageKnown
<1>7. QED
  BY <1>1, <1>3, <1>4, <1>6

LEMMA ReceiveInforms ==
  ASSUME MessageInv, NEW t \in Topics, Receive(t)
  PROVE  MessageInv'
<1>1. /\ published' = published + 1 /\ published' \in Nat
      /\ topicMsg' = [topicMsg EXCEPT ![t] = published']
      /\ lastMsg' = [n \in Nodes |-> IF n \in callbacks[t] THEN published' ELSE lastMsg[n]]
      /\ corrupted' = (t \in dangling)
      /\ UNCHANGED <<alive, sub, callbacks, dangling, entry, evaluated>>
  BY DEF Receive, Publish, MessageInv
<1>2. CallbackInv'
  BY <1>1, DanglingAllows DEF MessageInv, CallbackInv, CallbacksAreHolders
<1>3. /\ topicMsg' \in [Topics -> 0..published']
      /\ lastMsg' \in [Nodes -> 0..published']
      /\ evaluated' \in [Nodes -> 0..published']
  BY <1>1 DEF MessageInv
<1>4. ASSUME NEW n \in alive, sub[n] # None, ~Resubscribes(n[1])
      PROVE  /\ topicMsg'[sub[n]] = IF lastMsg'[n] # 0 THEN lastMsg'[n] ELSE evaluated[n]
             /\ lastMsg'[n] # 0 => lastMsg'[n] > evaluated[n]
  <2>1. n \in Nodes /\ sub[n] \in Topics /\ (n \in callbacks[t] <=> sub[n] = t)
    BY <1>4 DEF MessageInv, CallbackInv, CallbacksAreHolders, LeavesCallback
  <2>2. evaluated[n] \in 0..published
    BY <2>1 DEF MessageInv
  <2>3. CASE sub[n] = t
    BY <1>1, <2>1, <2>2, <2>3 DEF MessageInv
  <2>4. CASE sub[n] # t
    BY <1>1, <1>4, <2>1, <2>4 DEF MessageInv, LastMessageKnown
  <2>5. QED
    BY <2>3, <2>4
<1>5. LastMessageKnown'
  BY <1>1, <1>4 DEF LastMessageKnown
<1>6. QED
  BY <1>1, <1>2, <1>3, <1>5 DEF MessageInv

LEMMA EvaluateInforms ==
  ASSUME MessageInv, NEW n \in Nodes, n \in alive, sub[n] # None, TickSubscribed(n)
  PROVE  MessageInv'
<1>1. /\ evaluated' = [evaluated EXCEPT ![n] = IF lastMsg[n] = 0 THEN @ ELSE lastMsg[n]]
      /\ lastMsg' = [lastMsg EXCEPT ![n] = 0]
      /\ UNCHANGED <<alive, sub, callbacks, dangling, topicMsg, entry, published, corrupted>>
  BY DEF TickSubscribed, Evaluate, instanceVars
<1>2. CallbackInv'
  BY <1>1 DEF MessageInv, CallbackInv, CallbacksAreHolders
<1>3. lastMsg' \in [Nodes -> 0..published] /\ evaluated' \in [Nodes -> 0..published]
  BY <1>1 DEF MessageInv
<1>4. LastMessageKnown'
  BY <1>1, <1>3 DEF MessageInv, LastMessageKnown, CallbackInv
<1>5. QED
  BY <1>1, <1>2, <1>3, <1>4 DEF MessageInv

LEMMA SubscribeInforms ==
  ASSUME MessageInv, NEW m \in Nodes, TickSubscribes(m)
  PROVE  MessageInv'
<1> DEFINE msg == MissedMessage(entry)
<1>1. /\ m \in alive /\ sub[m] = None /\ entry \in Topics /\ entry # None
      /\ sub' = [sub EXCEPT ![m] = entry]
      /\ evaluated' = [evaluated EXCEPT ![m] = IF msg = 0 THEN @ ELSE msg]
      /\ lastMsg' = [lastMsg EXCEPT ![m] = 0]
      /\ topicMsg' = [t \in Topics |-> IF Held(t, sub') THEN topicMsg[t] ELSE 0]
      /\ UNCHANGED <<alive, published>>
  BY DEF TickSubscribes, Evaluate, Keep, MessageInv, CallbackInv
<1>2. CallbackInv'
  BY SubscribesKeeps DEF MessageInv
<1>3. msg = topicMsg[entry] /\ msg \in 0..published
  BY <1>1 DEF MissedMessage, MessageInv
<1>4. /\ topicMsg' \in [Topics -> 0..published]
      /\ lastMsg' \in [Nodes -> 0..published]
      /\ evaluated' \in [Nodes -> 0..published]
  BY <1>1, <1>3 DEF MessageInv
<1>5. \A n \in alive : sub'[n] # None => topicMsg'[sub'[n]] = topicMsg[sub'[n]]
  BY <1>1, <1>2 DEF Held, CallbackInv
<1> HIDE DEF msg
<1>6. ASSUME NEW n \in alive, sub'[n] # None, ~Resubscribes(n[1])
      PROVE  /\ topicMsg'[sub'[n]] = IF lastMsg'[n] # 0 THEN lastMsg'[n] ELSE evaluated'[n]
             /\ lastMsg'[n] # 0 => lastMsg'[n] > evaluated'[n]
  <2>1. n \in Nodes /\ sub \in [Nodes -> Topics \cup {None}]
    BY DEF MessageInv, CallbackInv
  <2>2. CASE n = m
    <3>1. lastMsg'[n] = 0 /\ evaluated[n] = 0 /\ sub'[n] = entry
      BY <1>1, <2>1, <2>2 DEF MessageInv
    <3>2. evaluated'[n] = msg
      BY <1>1, <2>1, <2>2, <3>1 DEF MessageInv
    <3>3. QED
      BY <1>3, <1>5, <1>6, <3>1, <3>2
  <2>3. CASE n # m
    BY <1>1, <1>5, <1>6, <2>1, <2>3 DEF MessageInv, LastMessageKnown
  <2>4. QED
    BY <2>2, <2>3
<1>7. LastMessageKnown'
  BY <1>1, <1>6 DEF LastMessageKnown
<1>8. \A n \in alive' : sub'[n] = None => evaluated'[n] = 0
  BY <1>1 DEF MessageInv, CallbackInv
<1>9. QED
  BY <1>1, <1>2, <1>4, <1>7, <1>8 DEF MessageInv

LEMMA MessagesStay == MessageInv /\ [Next]_vars => MessageInv'
<1> SUFFICES ASSUME MessageInv, [Next]_vars PROVE MessageInv'
  OBVIOUS
<1>1. CallbackInv'
  BY CallbacksStay DEF MessageInv
<1>2. ASSUME NEW new \in SUBSET Nodes, Replace(new) PROVE MessageInv'
  BY <1>1, <1>2, ReplaceInforms DEF MessageInv
<1>3. CASE StartExecution
  <2>1. FreeGeneration \in {0, 1}
    BY DEF FreeGeneration, MessageInv, CallbackInv
  <2>2. QED
    BY <1>2, <1>3, <2>1 DEF StartExecution, Construct, Nodes
<1>4. CASE Terminate
  BY <1>2, <1>4 DEF Terminate, DestroySubscribers
<1>5. CASE UNCHANGED <<alive, sub, lastMsg, topicMsg, published, evaluated>>
  BY <1>1, <1>5 DEF MessageInv, LastMessageKnown
<1>6. CASE ServiceStep
  BY <1>5, <1>6 DEF ServiceStep, subscriberVars, objectVars, instanceVars
<1>7. CASE SubscriberStep
  <2>1. ASSUME NEW n \in Nodes, TickSubscribed(n) PROVE MessageInv'
    BY <2>1, EvaluateInforms DEF TickSubscribed
  <2>2. QED
    BY <1>7, <2>1, ReceiveInforms, SubscribeInforms
       DEF SubscriberStep, ReceiveStep, TickSubscriber
<1>8. CASE WriteEntry
  BY <1>5, <1>8 DEF WriteEntry, SetEntry, objectVars, instanceVars
<1>9. CASE UNCHANGED vars
  BY <1>5, <1>9 DEF vars, subscriberVars, objectVars, instanceVars
<1>10. QED
  BY <1>3, <1>4, <1>6, <1>7, <1>8, <1>9 DEF Next

(***************************************************************************)
(* ros_subscriber_node.hpp: the last message of a topic reaches each node  *)
(* that holds the subscription, whenever it joined, and is evaluated once. *)
(***************************************************************************)
THEOREM MessagesCorrect == Spec => []LastMessageKnown
<1>1. Init => MessageInv
  BY SubscriberAssumption
     DEF Init, SubscriberInit, MessageInv, CallbackInv, CallbacksAreHolders, LastMessageKnown
<1>2. MessageInv => LastMessageKnown
  BY DEF MessageInv
<1>3. QED
  BY <1>1, <1>2, MessagesStay, PTL DEF Spec
=============================================================================
