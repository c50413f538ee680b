---------------------------- MODULE NodeRegistry ----------------------------
(***************************************************************************)
(* The nodes a TreeDocument knows (core/tree/tree_document.cpp): the       *)
(* manifest it keeps of them and the behavior tree factory they are        *)
(* registered with, [manifest, factory].  The factory maps a name to the   *)
(* options its builder was made with.                                      *)
(*                                                                         *)
(* The operations work on both, one node after the other, and throw in the *)
(* middle: a result is [ok, reg], with the registry as the exception       *)
(* leaves it.                                                              *)
(***************************************************************************)
EXTENDS NodePorts

CONSTANT Native  \* the names of the nodes BehaviorTree.CPP provides

ASSUME NativeAssumption == Native \subseteq Names

NoNodes == [manifest |-> Empty, factory |-> Empty]

Registered(reg) == DOMAIN reg.manifest

\* NodeRegistrationOptions::operator==: the canonical encodings agree.
SameOptions(a, b) == Encode(a) = Encode(b)

(***************************************************************************)
(* registerNodes().  Reserved names are refused before anything happens.   *)
(* A node that is registered already with the same options is left alone;  *)
(* one with other options is an error, or with override is taken out first *)
(* and lost if the new one cannot be registered.                           *)
(***************************************************************************)
\* Mutant: the old node stays in the factory when it is overridden.
TakenOutOfManifest(reg, S) ==
  [manifest |-> Restrict(reg.manifest, DOMAIN reg.manifest \ S), factory |-> reg.factory]

TakenOut(reg, S) ==
  [manifest |-> Restrict(reg.manifest, DOMAIN reg.manifest \ S),
   factory |-> Restrict(reg.factory, DOMAIN reg.factory \ S)]

PutIn(reg, m) == [manifest |-> Over(m, reg.manifest), factory |-> Over(m, reg.factory)]

\* The entries of m before the first of the entries F that cannot be added.
RegisteredUntil(reg, m, F, override) ==
  [ok |-> F = {},
   reg |-> PutIn(TakenOut(reg, IF override THEN Registered(reg) \cap (HandledBefore(DOMAIN m, F) \cup FailedAt(F)) ELSE {}),
                 Restrict(m, {n \in HandledBefore(DOMAIN m, F) : override \/ n \notin Registered(reg)}))]

\* Mutant: a node that is registered with other options is replaced.
RegisterNodesReplacing(reg, m, override) ==
  IF DOMAIN m \cap Native # {} THEN [ok |-> FALSE, reg |-> reg]
  ELSE RegisteredUntil(reg, m, {n \in DOMAIN m : ~Registrable(m[n])}, TRUE)

RegisterNodes(reg, m, override) ==
  IF DOMAIN m \cap Native # {} THEN [ok |-> FALSE, reg |-> reg]
  ELSE RegisteredUntil(reg, m,
         {n \in DOMAIN m :
            IF n \in Registered(reg) /\ ~override THEN ~SameOptions(reg.manifest[n], m[n])
            ELSE ~Registrable(m[n]) \/ n \in DOMAIN reg.factory \ Registered(reg)},
         override)

(***************************************************************************)
(* applyNodeNamespace(): the manifest is renamed at once, then builders    *)
(* are moved one by one, in order.  All of them must be in the factory,    *)
(* and moving one fails when its new name is not free yet: the old one is  *)
(* gone by then.                                                           *)
(***************************************************************************)
MovedBuilders(reg) ==
  LET old == Registered(reg)
      \* the new name is taken by a builder that is not moved before
      clash == {n \in old : Under[n] \in DOMAIN reg.factory /\
                            ~(Under[n] \in old /\ Rank[Under[n]] < Rank[n])}
      moved == HandledBefore(old, clash)
      gone == moved \cup FailedAt(clash)
  IN  IF ~(old \subseteq DOMAIN reg.factory) THEN [ok |-> FALSE, factory |-> reg.factory]
      ELSE [ok |-> clash = {},
            factory |-> Over(Namespaced(Restrict(reg.factory, moved)),
                             Restrict(reg.factory, DOMAIN reg.factory \ gone))]

NamespaceNodes(reg) ==
  LET WithBuilders(r) ==
        [ok |-> r.ok, reg |-> [manifest |-> ApplyNamespace(reg.manifest), factory |-> r.factory]]
  IN  WithBuilders(MovedBuilders(reg))

\* reset(): builders of the manifest's nodes are taken out.
ResetNodes(reg) == [manifest |-> Empty, factory |-> TakenOut(reg, Registered(reg)).factory]

(***************************************************************************)
(* The entries of the registry for the nodes S, for getRequiredNode-       *)
(* Manifest(): nodes without an entry are an error.                        *)
(***************************************************************************)
RequiredManifest(reg, S) ==
  [ok |-> S \ Native \subseteq Registered(reg),
   manifest |-> Restrict(reg.manifest, S \cap Registered(reg))]
=============================================================================
