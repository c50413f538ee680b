--------------------------- MODULE ManifestBuild ---------------------------
(***************************************************************************)
(* cli/create_node_manifest.cpp and create_node_model.cpp, with the model  *)
(* files of core/tree/tree_document.cpp and tree/node_model.py: what the   *)
(* build of a package makes of a node of its manifests.  The options are   *)
(* decoded, with the parent looked up among the manifests this build wrote *)
(* before and those that are installed, and written back without a parent; *)
(* the node is registered once to list its ports in a model file.          *)
(*                                                                         *)
(* A manifest is identified by [package, id], with the package "" where    *)
(* none is named; a parent is [package, id, node].  A model file is a set  *)
(* of elements [tag, name, default].                                       *)
(***************************************************************************)
EXTENDS NodePorts

CONSTANTS
  BuildPackage,      \* the package that is built
  BuildClasses,      \* the classes its libraries register
  InstalledClasses,  \* those of other packages that are installed
  Earlier,           \* Earlier[id]: the manifests it generated before this one
  NoParent

ASSUME BuildAssumption == BuildClasses \cup InstalledClasses \subseteq DOMAIN ClassPorts

NotFound == [ok |-> FALSE, manifest |-> Empty]

-----------------------------------------------------------------------------
(***************************************************************************)
(* registerLocalManifest() refuses what is installed already, and the      *)
(* build goes on without: only the others are local.                       *)
(***************************************************************************)
LocalManifests(installed) ==
  LET free == {id \in DOMAIN Earlier : [package |-> BuildPackage, id |-> id] \notin DOMAIN installed}
  IN  [mid \in {[package |-> BuildPackage, id |-> id] : id \in free} |-> Earlier[mid.id]]

\* NodeManifestResource: the only one with the id, in the package if it is named.
Installed(mid, installed) ==
  LET matches == {k \in DOMAIN installed : k.id = mid.id /\ mid.package \in {"", k.package}}
  IN  IF Cardinality(matches) # 1 THEN NotFound
      ELSE [ok |-> TRUE, manifest |-> installed[CHOOSE k \in matches : TRUE]]

\* fromResource(): a local manifest answers to its full identity only.
FromResource(mid, installed) ==
  LET local == LocalManifests(installed)
  IN  IF mid \in DOMAIN local THEN [ok |-> TRUE, manifest |-> local[mid]] ELSE Installed(mid, installed)

ParentManifest(parent, installed) ==
  FromResource([package |-> parent.package, id |-> parent.id], installed)

\* The options of a node: decoded on top of its parent's.
BuiltOptions(yaml, parent, installed) ==
  IF parent = NoParent THEN DecodeWithParent(yaml, "", Empty)
  ELSE DecodeWithParent(yaml, parent.node, ParentManifest(parent, installed).manifest)

\* The library of a class: one the package builds, or an installed one.
HasLibrary(class) == class \in BuildClasses \cup InstalledClasses

\* create_node_manifest: the entry of a node in the manifest file, or an error.
ManifestEntry(yaml, parent, installed) ==
  LET built == BuiltOptions(yaml, parent, installed)
  IN  [ok |-> built.ok /\ Valid(built.options) /\ HasLibrary(built.options.class),
       options |-> Encode(built.options)]

-----------------------------------------------------------------------------
(***************************************************************************)
(* Model files.  A node is written after the ports its options hide have   *)
(* been taken out.                                                         *)
(***************************************************************************)
Tags == [in |-> "input_port", out |-> "output_port", inout |-> "inout_port"]

\* addNodeModel()
WrittenModel(model) ==
  {[tag |-> Tags[model[p].dir], name |-> p, default |-> model[p].default] : p \in DOMAIN model}

\* create_node_model: a node that can be registered gets a model.
ModelEntry(opts) ==
  IF Registrable(opts)
  THEN [ok |-> TRUE, file |-> WrittenModel(NodeModel(ModifiedPorts(opts).ports, opts))]
  ELSE [ok |-> FALSE, file |-> {}]

\* The ports of a model file, given what its reader takes each tag for.
PortsOf(file, direction) ==
  [p \in {e.name : e \in file} |->
    LET e == CHOOSE e \in file : e.name = p IN [dir |-> direction[e.tag], default |-> e.default]]

TagsOf(file) == {e.tag : e \in file}

\* getNodeModel() of the file, with the options of the manifest beside it.
ReadModel(file, opts) ==
  NodeModel(PortsOf(file, [tag \in TagsOf(file) |-> CHOOSE d \in DOMAIN Tags : Tags[d] = tag]), opts)

\* node_model.py: every tag it does not know is an input.
PythonModel(file) ==
  PortsOf(file, [tag \in TagsOf(file) |-> IF tag \in {Tags["out"], Tags["inout"]}
                                          THEN CHOOSE d \in DOMAIN Tags : Tags[d] = tag ELSE "in"])
=============================================================================
