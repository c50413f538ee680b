----------------------------- MODULE NodePorts -----------------------------
(***************************************************************************)
(* core/node/ros_node_context.cpp, node_registration_template.hpp and      *)
(* TreeDocument::getNodeModel(): what the registration options do to the   *)
(* list of ports a node is registered with.                                *)
(***************************************************************************)
EXTENDS NodeManifest

CONSTANTS
  ClassPorts,   \* ClassPorts[c]: the ports list of class c, port -> [dir, default]
  RosClasses,   \* the classes that are constructed with a RosNodeContext
  NoValue       \* a port without a default value

ASSUME PortsAssumption ==
  \A c \in DOMAIN ClassPorts : \A p \in DOMAIN ClassPorts[c] :
    LET port == ClassPorts[c][p]
    IN  port = [dir |-> port.dir, default |-> port.default] /\ port.dir \in {"in", "out", "inout"}

-----------------------------------------------------------------------------
(***************************************************************************)
(* modifyProvidedPortsListForRegistration().  An alias is added once: a    *)
(* port of that name, the class's own or an earlier alias, stays as it is. *)
(***************************************************************************)
\* The loop finds an alias inserted before as if the class provided it.
AliasKeyKnown(alias, provided, p) ==
  p \in DOMAIN provided \/ \E q \in DOMAIN alias : Rank[q] < Rank[p] /\ alias[q] = p

WithAliases(provided, alias) ==
  InOrder(DOMAIN alias, provided, LAMBDA p, list : Over(list, Single(alias[p], list[p])))

\* The ports a default is set for: the port, and its alias or first original.
DefaultTargets(alias, p) ==
  {p} \cup (IF p \in DOMAIN alias THEN {alias[p]}
            ELSE FailedAt({q \in DOMAIN alias : alias[q] = p}))

WithDefaults(list, opts) ==
  InOrder(DOMAIN opts.default, list, LAMBDA p, l : [q \in DOMAIN l |->
            IF q \in DefaultTargets(opts.alias, p)
            THEN [l[q] EXCEPT !.default = opts.default[p]] ELSE l[q]])

\* The ports of a registered node, or that registering it throws.
ModifiedPorts(opts) ==
  LET provided == ClassPorts[opts.class]
      known == \A p \in DOMAIN opts.alias : AliasKeyKnown(opts.alias, provided, p)
      Result(aliased) ==
        IF known /\ DOMAIN opts.default \subseteq DOMAIN aliased
        THEN [ok |-> TRUE, ports |-> WithDefaults(aliased, opts)]
        ELSE [ok |-> FALSE, ports |-> Empty]
  IN  Result(WithAliases(provided, opts.alias))

(***************************************************************************)
(* registerWithBehaviorTreeFactory(): only a node that takes a context can *)
(* copy the alias to the original, others refuse aliases.                  *)
(***************************************************************************)
Registrable(opts) ==
  /\ opts.class \in DOMAIN ClassPorts
  /\ ModifiedPorts(opts).ok
  /\ opts.class \in RosClasses \/ opts.alias = Empty

\* getNodeModel(): the factory's ports without those hidden or aliased.
NodeModel(list, opts) ==
  Restrict(list, DOMAIN list \ (opts.hidden \cup DOMAIN opts.alias))
=============================================================================
