---------------------------- MODULE NodeClients ----------------------------
(***************************************************************************)
(* core/node/ros_action_node.hpp, ros_service_node.hpp and                 *)
(* ros_publisher_node.hpp: how a node that was constructed comes to the    *)
(* client or publisher it works with.  The base constructor creates it if  *)
(* the expression for its name can be resolved, a derived constructor may  *)
(* ask for another one, and otherwise the first tick of an activation      *)
(* tries, as long as there is none.                                        *)
(*                                                                         *)
(* A name is a topic without placeholders.  Waiting for the other side is  *)
(* one step, which may see it arrive.                                      *)
(***************************************************************************)
EXTENDS NodeConstruction

CONSTANTS
  Publishers,  \* the classes that publish; the others ask a server
  Stored,      \* the values the tree may write to the entry of the pointer
  NoClient,
  OwnName      \* the name of the executor's own ROS 2 node

VARIABLES
  client,     \* client_instance_, publisher_: the name it was created for
  dynamic,    \* dynamic_client_instance_
  reachable,  \* the servers (subscribers) of all names are up
  stored,     \* the entry at the pointer, NoValue: it does not exist
  met,        \* the other side was found when the client was created
  served      \* the name the last goal, request or message went to

vars == <<portVars, client, dynamic, reachable, stored, met, served>>

Init ==
  /\ NodeInit
  /\ client = NoClient /\ dynamic = FALSE /\ reachable \in BOOLEAN
  /\ stored = NoValue /\ met = FALSE /\ served = NoClient

-----------------------------------------------------------------------------
Attempt(c, isOk, isMet, isUp) == [client |-> c, ok |-> isOk, met |-> isMet, reachable |-> isUp]

Kept(isOk) == Attempt(client, isOk, met, reachable)

IsName(name) == \E i \in DOMAIN name : name[i] # <<"text", "">>

\* A name that holds the text of a pointer is not a ROS 2 name.
IsValidName(name) == \A i \in DOMAIN name : name[i] # <<"text", Pointer>>

\* The wait for the other side ends when it is found, which may happen while
\* it lasts, or with the time allowed for it.
Found(a) == {TRUE, a.reachable}

\* Mutant: a server that is not found in time is only logged.
CreateClientUnchecked(a, name) ==
  IF ~IsName(name) \/ ~IsValidName(name) THEN {[a EXCEPT !.ok = FALSE]}
  ELSE {Attempt(name, TRUE, found, found) : found \in Found(a)}

\* createClient(), createPublisher(), after the attempt a.  The member is
\* assigned before the wait that may throw.
CreateClient(a, name) ==
  IF ~IsName(name) \/ ~IsValidName(name) THEN {[a EXCEPT !.ok = FALSE]}
  ELSE IF a.client = name /\ a.reachable THEN {a}
  ELSE {Attempt(name, found \/ node.allowUnreachable, found, found) :
          found \in Found(a)}

\* What the base class makes of the expression, while there is no client.
Resolve(result, isOk) ==
  IF result.ok THEN CreateClient(Kept(TRUE), result.text) ELSE {Kept(isOk)}

(***************************************************************************)
(* The nodes for parameters name their server after the port they are      *)
(* given, as it is written in the XML, or after the executor's own node.   *)
(***************************************************************************)
DerivedName ==
  LET given == Configured({"in", "inout"})
      p == node.derived
  IN  <<<<"text", IF p \in DOMAIN given /\ given[p] # "" THEN given[p] ELSE OwnName>>>>

Derive(a) == IF a.ok /\ node.derived # "" THEN CreateClient(a, DerivedName) ELSE {a}

Adopt(a) ==
  /\ client' = a.client /\ met' = a.met /\ reachable' = a.reachable

\* The constructors.  A node without a context has no client.
Construct ==
  /\ Configure
  /\ UNCHANGED <<stored, served>>
  /\ \/ /\ options.class \in RosClasses
        /\ \E result \in TopicNames(node.topic, config', stored) :
             \E base \in Resolve(result, TRUE) : \E a \in Derive(base) :
               /\ dynamic' = ~result.ok
               /\ phase' = IF a.ok THEN "constructed" ELSE "failed"
               /\ Adopt(a)
     \/ /\ options.class \notin RosClasses
        /\ phase' = "constructed"
        /\ UNCHANGED <<client, dynamic, met, reachable>>

\* The first tick tries again where the constructors left no client.
TriesAgain == dynamic /\ client = NoClient

AtTick(result) == IF TriesAgain THEN Resolve(result, FALSE) ELSE {Kept(client # NoClient)}

(***************************************************************************)
(* The first tick of an activation.  A node without a name, or whose       *)
(* server is not ready, throws (the default of onFailure()), which ends    *)
(* the tree; a publisher publishes to whoever is there.                    *)
(***************************************************************************)
Activate ==
  /\ phase = "constructed" /\ options.class \in RosClasses
  /\ dynamic' = TriesAgain
  /\ \E result \in TopicNames(node.topic, config, stored) :
       \E a \in AtTick(result) :
         /\ Adopt(a)
         /\ IF a.ok /\ (a.reachable \/ options.class \in Publishers)
            THEN served' = a.client /\ UNCHANGED phase
            ELSE phase' = "failed" /\ UNCHANGED served
  /\ UNCHANGED <<node, options, model, ports, config, stored>>

\* The rest of the tree, and of the system.
WriteEntry ==
  /\ phase = "constructed"
  /\ stored' \in Stored
  /\ UNCHANGED <<portVars, client, dynamic, reachable, met, served>>

ServersComeAndGo ==
  /\ phase = "constructed"
  /\ reachable' = ~reachable
  /\ UNCHANGED <<portVars, client, dynamic, stored, met, served>>

Prepare ==
  /\ BuildManifest \/ BuildModel \/ Register
  /\ UNCHANGED <<client, dynamic, reachable, stored, met, served>>

Next == Prepare \/ Construct \/ Activate \/ WriteEntry \/ ServersComeAndGo

Spec == Init /\ [][Next]_vars

-----------------------------------------------------------------------------
(***************************************************************************)
(* The client a node comes to is one its expression names with the values  *)
(* its ports have at that moment, or its derived constructor asks for,     *)
(* whole and without a placeholder, and it serves nobody else: only a      *)
(* client whose other side was found in time or need not be (ros_action_-  *)
(* node.hpp:228-243, 463-497, 600-641 and their like).  It says nothing of *)
(* how long the values that named the client stay what they were: see the  *)
(* divergence on dynamic names.                                            *)
(***************************************************************************)
ClientIsWanted ==
  [][/\ client' # client /\ phase' = "constructed" =>
          /\ Placeholders(client') = {}
          /\ \/ client' = DerivedName
             \/ \E r \in TopicNames(node.topic, config', stored) : r.ok /\ client' = r.text
     /\ served' # served =>
          /\ served' = client'
          /\ met' \/ node.allowUnreachable
     /\ phase = "constructed" /\ phase' = "constructed" =>
          met' \/ node.allowUnreachable \/ client' = NoClient]_vars
=============================================================================
