-------------------------- MODULE RosSubscriberNode --------------------------
(***************************************************************************)
(* core/node/ros_subscriber_node.hpp and the registry of shared entities   *)
(* in core/node/base/ros_node_base.hpp: condition nodes that evaluate the  *)
(* newest message of a topic.  The nodes of a topic share one subscription *)
(* with one list of callbacks; it lives as long as some node holds it.     *)
(*                                                                         *)
(* A node object is a name and a generation, since the nodes of a new tree *)
(* are constructed before those of the former one are destroyed.  Messages *)
(* are numbered in the order they are published.                           *)
(*                                                                         *)
(* A callback captures this.  A message broadcast to the callback of an    *)
(* object that was destroyed is undefined behaviour: the model stops.      *)
(***************************************************************************)
EXTENDS Integers

CONSTANTS
  Names,         \* the subscriber nodes of the tree
  Topics,
  None,          \* no topic
  StaticTopic,   \* per name: the topic known at construction, None: it is
                 \* read from the blackboard
  DerivedTopic,  \* per name: the topic a derived constructor subscribes to
  MaxMessages    \* bound: how many messages are published

ASSUME SubscriberAssumption ==
  /\ None \notin Topics
  /\ StaticTopic \in [Names -> Topics \cup {None}]
  /\ DerivedTopic \in [Names -> Topics \cup {None}]
  /\ MaxMessages \in Nat

Nodes == Names \X {0, 1}

VARIABLES
  alive,      \* the node objects that exist
  sub,        \* per object: the topic of sub_instance_, None: nullptr
  dynamic,    \* per object: dynamic_client_instance_
  lastMsg,    \* per object: last_msg_, 0: nullptr
  callbacks,  \* per topic: the living objects the shared instance calls back
  dangling,   \* the topics whose instance calls back an object destroyed
  topicMsg,   \* per topic: last_msg of the shared instance, 0: nullptr
  entry,      \* the blackboard entry that dynamic names are read from
  published,  \* messages published so far
  evaluated,  \* history, per object: the last message given to onTick()
  corrupted   \* history: an object was called back after its destruction

objectVars == <<alive, sub, dynamic, lastMsg>>
instanceVars == <<callbacks, dangling, topicMsg>>
subscriberVars == <<objectVars, instanceVars, entry, published, evaluated, corrupted>>

SubscriberTypeOK ==
  /\ alive \subseteq Nodes
  /\ sub \in [Nodes -> Topics \cup {None}]
  /\ \A n \in Nodes \ alive : sub[n] = None
  /\ dynamic \in [Nodes -> BOOLEAN]
  /\ lastMsg \in [Nodes -> 0..published]
  /\ callbacks \in [Topics -> SUBSET alive]
  /\ dangling \subseteq Topics
  /\ topicMsg \in [Topics -> 0..published]
  /\ entry \in Topics \cup {None}
  /\ published \in 0..MaxMessages
  /\ evaluated \in [Nodes -> 0..published]
  /\ corrupted \in BOOLEAN

SubscriberInit ==
  /\ alive = {} /\ sub = [n \in Nodes |-> None]
  /\ dynamic = [n \in Nodes |-> FALSE]
  /\ lastMsg = [n \in Nodes |-> 0]
  /\ callbacks = [t \in Topics |-> {}] /\ dangling = {}
  /\ topicMsg = [t \in Topics |-> 0]
  /\ entry = None /\ published = 0
  /\ evaluated = [n \in Nodes |-> 0] /\ corrupted = FALSE

-----------------------------------------------------------------------------
(***************************************************************************)
(* The shared instance of a topic.                                         *)
(***************************************************************************)
Held(t, subs) == \E n \in Nodes : subs[n] = t

\* What the registry keeps once the objects subscribe to subs, those of living
\* exist and the lists of callbacks are owners: an instance nobody holds is
\* gone, and with it its callbacks and its last message.
Keep(subs, owners, living) ==
  /\ callbacks' = [t \in Topics |-> IF Held(t, subs) THEN owners[t] \cap living ELSE {}]
  /\ dangling' = {t \in Topics : Held(t, subs)
                     /\ (t \in dangling \/ ~(owners[t] \subseteq living))}
  /\ topicMsg' = [t \in Topics |-> IF Held(t, subs) THEN topicMsg[t] ELSE 0]

\* last_msg_ of a node that subscribes to t in createSubscriber().
MissedMessage(t) == IF t = None THEN 0 ELSE topicMsg[t]

\* Mutant: the destructor leaves the callback with the instance.
OwnersKept(t, subs, dead) ==
  callbacks[t] \cup {n \in Nodes : subs[n] = t}

\* The callbacks of t after the objects of subs registered with it and those
\* of dead that held it removed theirs (addCallback, removeCallback).
Owners(t, subs, dead) ==
  (callbacks[t] \cup {n \in Nodes : subs[n] = t}) \ {n \in dead : sub[n] = t}

-----------------------------------------------------------------------------
(***************************************************************************)
(* The life of the objects.  Replace constructs the objects of a new tree  *)
(* and then destroys the former tree's, if there are any.                  *)
(*                                                                         *)
(* createSubscriber() is public.  A derived constructor that subscribes to *)
(* another topic than the base did replaces the instance and leaves its    *)
(* callback with the former one, which lives on if others hold it: objects *)
(* of the former tree, or those of the new one constructed before.         *)
(***************************************************************************)
Constructed(n) ==
  IF DerivedTopic[n[1]] # None THEN DerivedTopic[n[1]] ELSE StaticTopic[n[1]]

Resubscribes(name) ==
  StaticTopic[name] # None /\ DerivedTopic[name] \notin {None, StaticTopic[name]}

\* last_msg_ once the constructors ran: the last instance that has a message.
FirstMessage(n) ==
  LET latest == MissedMessage(Constructed(n))
  IN IF latest # 0 THEN latest ELSE MissedMessage(StaticTopic[n[1]])

\* The new objects whose callbacks may be left with the topic of the base.
Leaving(new, subs) ==
  {n \in new : Resubscribes(n[1]) /\ Held(StaticTopic[n[1]], subs)}

Replace(new) ==
  LET dead == alive
      subs == [n \in Nodes |-> IF n \in new THEN Constructed(n) ELSE None]
  IN \E left \in SUBSET Leaving(new, subs) :
     /\ {n \in Leaving(new, subs) : Held(StaticTopic[n[1]], sub)} \subseteq left
     /\ alive' = new
     /\ sub' = subs
     /\ dynamic' = [n \in Nodes |-> n \in new /\ StaticTopic[n[1]] = None]
     /\ lastMsg' = [n \in Nodes |-> IF n \in new THEN FirstMessage(n) ELSE 0]
     /\ evaluated' = [n \in Nodes |-> 0]
     /\ Keep(subs, [t \in Topics |-> Owners(t, subs, dead)
                                     \cup {n \in left : StaticTopic[n[1]] = t}], new)
     /\ UNCHANGED <<entry, published, corrupted>>

\* The objects of a new tree are none of those that exist.
FreeGeneration == CHOOSE g \in {0, 1} : alive \cap (Names \X {g}) = {}

Construct == Replace(Names \X {FreeGeneration})

DestroySubscribers == Replace({})

-----------------------------------------------------------------------------
(***************************************************************************)
(* Messages and ticks.                                                     *)
(***************************************************************************)
Publish == published' = published + 1 /\ published < MaxMessages

\* Mutant: a node that has not read its message yet is not given the next one.
ReceiveIfRead(t) ==
  /\ Publish /\ Held(t, sub)
  /\ topicMsg' = [topicMsg EXCEPT ![t] = published']
  /\ lastMsg' = [n \in Nodes |-> IF n \in callbacks[t] /\ lastMsg[n] = 0
                                 THEN published' ELSE lastMsg[n]]
  /\ corrupted' = (t \in dangling)
  /\ UNCHANGED <<alive, sub, dynamic, callbacks, dangling, entry, evaluated>>

\* The callback of the subscription: keep the message and broadcast it.
Receive(t) ==
  /\ Publish
  /\ Held(t, sub)
  /\ topicMsg' = [topicMsg EXCEPT ![t] = published']
  /\ lastMsg' = [n \in Nodes |-> IF n \in callbacks[t] THEN published'
                                 ELSE lastMsg[n]]
  /\ corrupted' = (t \in dangling)
  /\ UNCHANGED <<alive, sub, dynamic, callbacks, dangling, entry, evaluated>>

\* onTick(last_msg_); last_msg_.reset();
Evaluate(n, msg) ==
  /\ evaluated' = [evaluated EXCEPT ![n] = IF msg = 0 THEN @ ELSE msg]
  /\ lastMsg' = [lastMsg EXCEPT ![n] = 0]

\* tick() of a node that has its subscription: the intention to resolve the
\* name is discarded.
TickSubscribed(n) ==
  /\ n \in alive /\ sub[n] # None
  /\ dynamic' = [dynamic EXCEPT ![n] = FALSE]
  /\ Evaluate(n, lastMsg[n])
  /\ UNCHANGED <<alive, sub, instanceVars, entry, published, corrupted>>

\* tick() of a node without one: subscribe to the topic the entry names.  If it
\* names none, tick() throws and the tree is terminated.
TickSubscribes(n) ==
  /\ n \in alive /\ sub[n] = None /\ dynamic[n]
  /\ entry # None
  /\ sub' = [sub EXCEPT ![n] = entry]
  /\ Evaluate(n, MissedMessage(entry))
  /\ Keep(sub', [t \in Topics |-> Owners(t, sub', {})], alive)
  /\ UNCHANGED <<alive, dynamic, entry, published, corrupted>>

\* Somebody writes or removes the blackboard entry.
SetEntry(t) ==
  /\ entry # t
  /\ entry' = t
  /\ UNCHANGED <<objectVars, instanceVars, published, evaluated, corrupted>>

-----------------------------------------------------------------------------
(***************************************************************************)
(* The shared instance calls back the objects that hold it, although trees *)
(* are replaced while their nodes share instances: none that lives is      *)
(* forgotten.  Who else it calls back, and whose callback it keeps beyond  *)
(* the object's life, was constructed by a class that subscribes again     *)
(* where the base did: nothing removes that callback.                      *)
(***************************************************************************)
LeavesCallback(name, t) == Resubscribes(name) /\ StaticTopic[name] = t

CallbacksAreHolders ==
  /\ \A t \in Topics :
       /\ {n \in alive : sub[n] = t} \subseteq callbacks[t]
       /\ \A n \in callbacks[t] : sub[n] = t \/ LeavesCallback(n[1], t)
  /\ \A t \in dangling : \E name \in Names : LeavesCallback(name, t)
  /\ corrupted => \E name \in Names : Resubscribes(name)

(***************************************************************************)
(* The last message of a topic waits in each of its nodes, or it was the   *)
(* last one the node evaluated: no node misses it, whenever it subscribed, *)
(* none holds an older one, and none evaluates a message again.  A node    *)
(* that subscribed again may be given messages of both topics.             *)
(***************************************************************************)
LastMessageKnown ==
  \A n \in alive : sub[n] # None /\ ~Resubscribes(n[1]) =>
    /\ topicMsg[sub[n]] = (IF lastMsg[n] # 0 THEN lastMsg[n] ELSE evaluated[n])
    /\ lastMsg[n] # 0 => lastMsg[n] > evaluated[n]
=============================================================================
