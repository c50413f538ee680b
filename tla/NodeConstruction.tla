-------------------------- MODULE NodeConstruction --------------------------
(***************************************************************************)
(* The way of one node from its entry in a package's YAML file, through    *)
(* the build and core/node/ros_node_context.cpp, to the configuration its  *)
(* implementation reads, and the topic name its expression stands for.     *)
(*                                                                         *)
(* An aliased port is duplicated: the node's model shows the alias only,   *)
(* the user sets the alias, and the implementation reads the original,     *)
(* which the alias is copied onto when the node is constructed.            *)
(***************************************************************************)
EXTENDS ManifestBuild

CONSTANTS
  NodeInputs,   \* the nodes to build: [yaml, parent, installed, attributes, topic, ...]
  Pointer,      \* the value of a port that is read from the blackboard
  ValueLength   \* the length of a value's text next to the text it replaces

\* What is given for ports: a finite map from their names.
IsPortMap(f) == DOMAIN f \subseteq Names /\ IsFiniteSet(DOMAIN f)

\* A manifest that has been read: its entries are decoded options.
IsManifest(m) ==
  \A n \in DOMAIN m : /\ DOMAIN m[n] = DOMAIN DefaultOptions
                      /\ IsPortMap(m[n].alias) /\ IsPortMap(m[n].default)

\* Packages have a name, and a parent whose node has none is malformed.
ASSUME InputAssumption ==
  /\ BuildPackage # ""
  /\ \A id \in DOMAIN Earlier : IsManifest(Earlier[id])
  /\ \A n \in NodeInputs :
       /\ \A f \in {"alias", "default"} \cap DOMAIN n.yaml : IsPortMap(n.yaml[f])
       /\ \A k \in DOMAIN n.installed : k = [package |-> k.package, id |-> k.id] /\ IsManifest(n.installed[k])
       /\ n.parent # NoParent => n.parent.node # ""
       /\ DOMAIN n.topic \subseteq Nat

VARIABLES
  node,      \* the node's YAML, the manifests installed, its XML attributes and topic
  options,   \* its registration options
  model,     \* its entry in the model file
  phase,
  ports,     \* the ports list the factory holds for it
  config     \* NodeConfig: [input, output], port -> value

portVars == <<node, options, model, phase, ports, config>>

-----------------------------------------------------------------------------
\* create_node_manifest
BuildManifest ==
  LET entry == ManifestEntry(node.yaml, node.parent, node.installed)
  IN  /\ phase = "yaml"
      /\ options' = entry.options
      /\ phase' = IF entry.ok THEN "built" ELSE "refused"
      /\ UNCHANGED <<node, model, ports, config>>

\* create_node_model
BuildModel ==
  LET entry == ModelEntry(options)
  IN  /\ phase = "built"
      /\ model' = entry.file
      /\ phase' = IF entry.ok THEN "new" ELSE "refused"
      /\ UNCHANGED <<node, options, ports, config>>

\* A document that uses the node registers it with the options of its manifest.
Register ==
  /\ phase = "new"
  /\ Registrable(options)
  /\ phase' = "registered"
  /\ ports' = ModifiedPorts(options).ports
  /\ UNCHANGED <<node, options, model, config>>

(***************************************************************************)
(* The factory constructs the node: attributes are the values of ports of  *)
(* that name, ports that are left out get their default.                   *)
(***************************************************************************)
Configured(dirs) ==
  LET set == {p \in DOMAIN ports : /\ ports[p].dir \in dirs
                                   /\ p \in DOMAIN node.attributes \/ ports[p].default # NoValue}
  IN  [p \in set |-> IF p \in DOMAIN node.attributes THEN node.attributes[p] ELSE ports[p].default]

\* Mutant: only ports that have a value already are updated.
CopyAliasUpdatesOnly(alias, p, c) ==
  LET a == alias[p]
  IN  IF a \in DOMAIN c.input /\ p \in DOMAIN c.input
      THEN [c EXCEPT !.input = Over(Single(p, c.input[a]), @)] ELSE c

\* copyAliasedPortValuesToOriginalPorts(): one alias, and all.
CopyAlias(alias, p, c) ==
  LET a == alias[p]
  IN  CASE a \in DOMAIN c.input  -> [c EXCEPT !.input = Over(Single(p, c.input[a]), @)]
        [] a \in DOMAIN c.output /\ a \notin DOMAIN c.input
                                 -> [c EXCEPT !.output = Over(Single(p, c.output[a]), @)]
        [] OTHER -> c

CopyAliases(alias, c) == InOrder(DOMAIN alias, c, LAMBDA p, d : CopyAlias(alias, p, d))

\* The part of every constructor that prepares the configuration.
Configure ==
  /\ phase = "registered"
  /\ DOMAIN node.attributes \subseteq DOMAIN ports
  /\ config' = CopyAliases(options.alias, [input |-> Configured({"in", "inout"}),
                                           output |-> Configured({"out", "inout"})])
  /\ UNCHANGED <<node, options, model, ports>>

-----------------------------------------------------------------------------
(***************************************************************************)
(* getTopicName(): node.topic is a sequence of texts and of placeholders,  *)
(* each a pair.  A placeholder whose port is missing, empty or cannot be   *)
(* read yet is an error; stored is what the blackboard has at the pointer, *)
(* NoValue if nothing.  The loop replaces the placeholders in the very     *)
(* string its regex iterator runs over: once a value of another length has *)
(* been put in, the iterator is invalid, and what the loop does with each  *)
(* later placeholder is anybody's guess ("kept": it is not replaced).      *)
(***************************************************************************)
Placeholders(topic) == {i \in DOMAIN topic : topic[i][1] = "input"}

InputValue(c, p, stored) == IF c.input[p] = Pointer THEN stored ELSE c.input[p]

Readable(c, p, stored) ==
  /\ p \in DOMAIN c.input
  /\ c.input[p] # ""
  /\ InputValue(c, p, stored) # NoValue

\* The placeholders before which the string has changed its length.
AfterResize(topic, c, stored) ==
  {i \in Placeholders(topic) :
     \E j \in Placeholders(topic) : j < i /\ ValueLength[InputValue(c, topic[j][2], stored)] # 0}

Substituted(topic, c, stored, kept) ==
  [i \in DOMAIN topic |->
    IF i \in Placeholders(topic) \ kept
    THEN <<"text", InputValue(c, topic[i][2], stored)>> ELSE topic[i]]

NoTopic == [ok |-> FALSE, text |-> <<>>]

TopicNames(topic, c, stored) ==
  IF topic = <<>> \/ \E i \in Placeholders(topic) : ~Readable(c, topic[i][2], stored)
  THEN {NoTopic}
  ELSE {[ok |-> TRUE, text |-> Substituted(topic, c, stored, kept)] :
          kept \in SUBSET AfterResize(topic, c, stored)}

NodeInit ==
  /\ node \in NodeInputs
  /\ options = DefaultOptions
  /\ model = {}
  /\ phase = "yaml" /\ ports = Empty
  /\ config = [input |-> Empty, output |-> Empty]

-----------------------------------------------------------------------------
Constructed == phase = "constructed"

\* The values the implementation of the node sees for one of its ports.
Seen(p) == {c[p] : c \in {d \in {config.input, config.output} : p \in DOMAIN d}}

\* The ports the options alias in the plain way: a port that is only read or only
\* written, to a name that is no other port's, and none is aliased to it.
PlainAlias(p) ==
  /\ p \in DOMAIN options.alias
  /\ ClassPorts[options.class][p].dir # "inout"
  /\ options.alias[p] \notin DOMAIN ClassPorts[options.class] \cup DOMAIN options.alias
  /\ \A q \in DOMAIN options.alias : options.alias[q] # p
  /\ \A q \in DOMAIN options.alias : options.alias[q] = options.alias[p] => q = p

(***************************************************************************)
(* What the model of a node shows, to a C++ or a Python program, is what   *)
(* its implementation gets (ros_node_context.cpp:183-261, tree_document.   *)
(* cpp:1550-1707, node_model.py): a port that the user sets under the only *)
(* name the model has for it, or leaves to the default the model states,   *)
(* reaches the implementation with that value, aliased or not, with        *)
(* defaults given for either name, as long as the XML uses no port the     *)
(* model hides.                                                            *)
(***************************************************************************)
ModelIsTrue ==
  \A shown \in {ReadModel(model, options), PythonModel(model)} :
    Constructed /\ DOMAIN node.attributes \subseteq DOMAIN shown =>
      \A p \in DOMAIN ClassPorts[options.class] :
        LET name == IF PlainAlias(p) THEN options.alias[p] ELSE p
        IN  name \in DOMAIN shown =>
              /\ shown[name].dir = ClassPorts[options.class][p].dir
              /\ Seen(p) = CASE name \in DOMAIN node.attributes -> {node.attributes[name]}
                            [] name \notin DOMAIN node.attributes /\ shown[name].default # NoValue
                                 -> {shown[name].default}
                            [] OTHER -> {}

(***************************************************************************)
(* A node that inherits from a parent never shows a port its parent has    *)
(* renamed or hidden, whatever it renames and hides itself, so the parent's *)
(* implementation ports stay internal (node_registration_options.cpp:      *)
(* 74-237, tree_document.cpp:1680-1707).  The parent is the manifest this  *)
(* build wrote, if none of that identity is installed, or else the only    *)
(* installed one the identity names.                                       *)
(***************************************************************************)
ParentKeepsPortsHidden ==
  phase = "registered" /\ node.parent # NoParent =>
    LET wanted == [package |-> node.parent.package, id |-> node.parent.id]
        known == {k \in DOMAIN node.installed : k.id = wanted.id /\ wanted.package \in {"", k.package}}
        manifests == IF wanted \notin DOMAIN node.installed /\ wanted.package = BuildPackage
                     THEN {Earlier[wanted.id]} ELSE {node.installed[k] : k \in known}
    IN  \E manifest \in manifests :
          LET parent == manifest[node.parent.node]
          IN  DOMAIN PythonModel(model) \cap (parent.hidden \cup DOMAIN parent.alias) = {}
=============================================================================
