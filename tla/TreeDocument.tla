---------------------------- MODULE TreeDocument ----------------------------
(***************************************************************************)
(* core/tree/tree_document.cpp: documents of behavior trees, how they are  *)
(* read from files that include others, merged and edited.                 *)
(*                                                                         *)
(* A document is [trees, root, reg]: its tree elements in order, the name  *)
(* of its root tree and the nodes it knows (NodeRegistry).  A tree is      *)
(* [name, nodes]; nodes is its XML in document order, every element with   *)
(* its depth, the tree it refers to when it is a SubTree, its inline       *)
(* registration options, and the value of the port called Port.            *)
(*                                                                         *)
(* Every operation may throw half-way: a result is [ok, doc], with the     *)
(* document as the exception leaves it.                                    *)
(***************************************************************************)
EXTENDS NodeRegistry

CONSTANTS
  Files,      \* XML files, installed or not
  Content,    \* Content[f]: what file f holds, for the files there are
  Port,       \* the port whose values are modelled
  NoTree,     \* no root tree, no reference, no tree to cherry-pick
  NoOptions,  \* an element without inline registration options
  Malformed   \* inline options that cannot be parsed

\* An element of a tree, and a tree.
IsElement(e) == e \in [depth : Int, name : {e.name}, ref : {e.ref}, opts : {e.opts}, port : {e.port}]
IsTree(tree) ==
  /\ tree \in [name : {tree.name}, nodes : Seq(Range(tree.nodes))]
  /\ \A e \in Range(tree.nodes) : IsElement(e)

ASSUME ContentAssumption ==
  /\ IsFiniteSet(Files)
  /\ DOMAIN Content \subseteq Files
  /\ \A f \in DOMAIN Content :
       /\ Content[f].trees \in Seq(Range(Content[f].trees))
       /\ \A tree \in Range(Content[f].trees) : IsTree(tree)
       /\ Content[f].includes \in Seq([file : Files, tree : {inc.tree : inc \in Range(Content[f].includes)}])

\* Bound of the model: no file has two trees of one name.
ASSUME NamesAssumption ==
  \A f \in DOMAIN Content : \A i, j \in DOMAIN Content[f].trees :
    Content[f].trees[i].name = Content[f].trees[j].name => i = j

EmptyDoc == [trees |-> <<>>, root |-> NoTree, reg |-> NoNodes]

Ok(doc) == [ok |-> TRUE, doc |-> doc]
Thrown(doc) == [ok |-> FALSE, doc |-> doc]

\* The operation op on the document of a result, unless that threw.
Then(result, op(_)) == IF result.ok THEN op(result.doc) ELSE result

\* The operation op for every element of a sequence, until it throws.
ForEach(seq, result, op(_, _)) ==
  LET Step(r, e) == IF r.ok THEN op(r.doc, e) ELSE r
      after[n \in 0..Len(seq)] == IF n = 0 THEN result ELSE Step(after[n - 1], seq[n])
  IN  after[Len(seq)]

-----------------------------------------------------------------------------
(***************************************************************************)
(* Trees and their elements.                                               *)
(***************************************************************************)
TreeNames(trees) == {trees[i].name : i \in DOMAIN trees}
HasTree(doc, name) == name \in TreeNames(doc.trees)
NumberOf(trees, name) == CHOOSE i \in DOMAIN trees :
                           trees[i].name = name /\ \A j \in 1..(i - 1) : trees[j].name # name
GetTree(doc, name) == doc.trees[NumberOf(doc.trees, name)]

\* The trees at some of the positions, in order.
TreesAt(trees, kept) ==
  [i \in 1..Cardinality(kept) |-> trees[CHOOSE k \in kept : Cardinality({j \in kept : j <= k}) = i]]

TopLevel(nodes) == {i \in DOMAIN nodes : nodes[i].depth = 1}
\* The last element of the subtree under element i, 0: the tree element.
LastBelow(nodes, i) ==
  IF i = 0 THEN Len(nodes)
  ELSE CHOOSE j \in i..Len(nodes) :
         /\ \A k \in (i + 1)..j : nodes[k].depth > nodes[i].depth
         /\ j = Len(nodes) \/ nodes[j + 1].depth <= nodes[i].depth
FirstChild(nodes) == IF nodes = <<>> THEN <<>> ELSE SubSeq(nodes, 1, LastBelow(nodes, 1))

NodeNames(nodes) == {nodes[i].name : i \in DOMAIN nodes}
Refs(nodes) == {nodes[i].ref : i \in DOMAIN nodes} \ {NoTree}

\* The trees among trees that those named in S refer to, S included.
Closure(trees, S) ==
  LET With(R) == R \cup UNION {Refs(trees[i].nodes) : i \in {j \in DOMAIN trees : trees[j].name \in R}}
      reached[n \in 0..Len(trees)] == IF n = 0 THEN S ELSE LET R == reached[n - 1] IN With(R)
  IN  reached[Len(trees)] \cap TreeNames(trees)

WellFormed(tree) == Cardinality(TopLevel(tree.nodes)) = 1

(***************************************************************************)
(* NodeElement(), refreshPortInfoCache(): a handle to an element writes    *)
(* the default of each of its ports that has no value, if the node is      *)
(* known by then.  deepApply() makes a handle of every element.            *)
(***************************************************************************)
ModelPort(reg, name) ==
  LET options == reg.manifest[name]
      model == NodeModel(ModifiedPorts(options).ports, options)
  IN  CASE name \notin Registered(reg) -> "unknown"
        [] name \in Registered(reg) /\ Port \notin DOMAIN model -> "unknown"
        [] OTHER -> IF model[Port].default = NoValue THEN "plain" ELSE "default"

Handled(reg, element) ==
  IF element.port = "unset" /\ ModelPort(reg, element.name) = "default"
  THEN [element EXCEPT !.port = "default"] ELSE element

Traversed(reg, nodes) == [i \in DOMAIN nodes |-> Handled(reg, nodes[i])]

(***************************************************************************)
(* The inline registration options of a tree.  The same node may give them *)
(* more than once, and a registered node may repeat its own, but not       *)
(* others.  registerNodes() then gets those of the nodes that are new.     *)
(***************************************************************************)
\* parseInlineRegistrationOptions(): YAML, decoded, with a class.
Parsed(opts) == opts # Malformed /\ Valid(opts)

InlineOptions(reg, nodes) ==
  LET given == {i \in DOMAIN nodes : nodes[i].opts # NoOptions /\ nodes[i].name # "SubTree"}
      new == {nodes[i].name : i \in given} \ Registered(reg)
  IN  [ok |-> \A i, j \in given :
                /\ Parsed(nodes[i].opts)
                /\ nodes[i].name \in Registered(reg) =>
                     SameOptions(reg.manifest[nodes[i].name], nodes[i].opts)
                /\ nodes[i].name = nodes[j].name /\ nodes[j].opts # Malformed =>
                     SameOptions(nodes[i].opts, nodes[j].opts),
       map |-> [n \in new |-> nodes[CHOOSE i \in given : nodes[i].name = n].opts]]

WithRegistry(doc, r) == [ok |-> r.ok, doc |-> [doc EXCEPT !.reg = r.reg]]

WithNodes(doc, m, override) == WithRegistry(doc, RegisterNodes(doc.reg, m, override))

AppendTree(doc, tree, verify) ==
  LET Append1(inline) ==
        IF ~inline.ok THEN Thrown(doc)
        ELSE Then(WithNodes(doc, inline.map, FALSE), LAMBDA d : Ok([d EXCEPT !.trees = Append(@, tree)]))
  IN  IF verify /\ ~WellFormed(tree) THEN Thrown(doc)
      ELSE Append1(InlineOptions(doc.reg, FirstChild(tree.nodes)))

AppendTrees(doc, trees, verify) ==
  ForEach(trees, Ok(doc), LAMBDA d, t : AppendTree(d, t, verify))

(***************************************************************************)
(* setRootTreeName(), removeTree(), newTree().                             *)
(***************************************************************************)
WithRoot(doc, name) == IF HasTree(doc, name) THEN Ok([doc EXCEPT !.root = name]) ELSE Thrown(doc)

WithoutTree(doc, name) ==
  IF HasTree(doc, name) THEN Ok([doc EXCEPT !.trees = RemoveAt(@, NumberOf(@, name))])
  ELSE Thrown(doc)

WithNewTree(doc, name) ==
  IF HasTree(doc, name) THEN Thrown(doc)
  ELSE Ok([doc EXCEPT !.trees = Append(@, [name |-> name, nodes |-> <<>>])])

-----------------------------------------------------------------------------
(***************************************************************************)
(* mergeTreeDocumentImpl().  xml is a document's XML: whether its root     *)
(* element is <root> or a single <BehaviorTree>, whether the format is     *)
(* the one expected, its trees and the name of its root tree.  The trees   *)
(* of its includes have been put into a buffer document.                   *)
(***************************************************************************)
Disjoint(doc, trees) == TreeNames(doc.trees) \cap TreeNames(trees) = {}

AdoptRoot(doc, xml) ==
  Then(IF xml.root = NoTree THEN Ok(doc) ELSE WithRoot(doc, xml.root),
       LAMBDA d : IF Len(xml.trees) = 1 THEN WithRoot(d, xml.trees[1].name) ELSE Ok(d))

MergeDirect(doc, xml, adopt) ==
  IF ~Disjoint(doc, xml.trees) THEN Thrown(doc)
  ELSE Then(AppendTrees(doc, xml.trees, TRUE),
            LAMBDA d : IF adopt THEN AdoptRoot(d, xml) ELSE Ok(d))

MergeXml(doc, xml, buffer, adopt) ==
  IF ~xml.valid \/ ~buffer.ok \/ ~Disjoint(doc, buffer.doc.trees) THEN Thrown(doc)
  ELSE Then(AppendTrees(doc, buffer.doc.trees, FALSE), LAMBDA d : MergeDirect(d, xml, adopt))

XmlOf(doc) == [valid |-> TRUE, includes |-> <<>>, trees |-> doc.trees, root |-> doc.root]
XmlOfTree(tree) == [valid |-> TRUE, includes |-> <<>>, trees |-> <<tree>>, root |-> NoTree]

(***************************************************************************)
(* One <include>: the file it names has been read into a working document. *)
(* A resource names one of its trees: only that and the trees it depends   *)
(* on are kept.  A tree the buffer has already is dropped if it is the     *)
(* same there.                                                             *)
(***************************************************************************)
Pick(doc, name) ==
  IF name = NoTree THEN doc
  ELSE LET required == Closure(doc.trees, {name})
       IN  [doc EXCEPT !.trees = TreesAt(@, {i \in DOMAIN @ : @[i].name \in required})]

\* Mutant: a tree is dropped if the buffer has any tree of its name.
DropNamesakes(doc, buffer) ==
  [doc EXCEPT !.trees = TreesAt(@, {i \in DOMAIN @ : ~HasTree(buffer, @[i].name)})]

DropShared(doc, buffer) ==
  LET Shared(tree) == HasTree(buffer, tree.name) /\ GetTree(buffer, tree.name) = tree
  IN  [doc EXCEPT !.trees = TreesAt(@, {i \in DOMAIN @ : ~Shared(@[i])})]

Include(buffer, work, pick) ==
  IF ~work.ok \/ (pick # NoTree /\ ~HasTree(work.doc, pick)) THEN Thrown(buffer)
  ELSE MergeXml(buffer, XmlOf(DropShared(Pick(work.doc, pick), buffer)), Ok(EmptyDoc), FALSE)

(***************************************************************************)
(* mergeFileImpl() into a new document.  An include is read while its file *)
(* is: WorkDocs[S][f] is what comes of file f while those of S are being   *)
(* read.  One of them again is a circular include, and a resource that is  *)
(* not installed has no content.                                           *)
(***************************************************************************)
IncludeBuffer(includes, work) ==
  ForEach(includes, Ok(EmptyDoc), LAMBDA b, inc : Include(b, work[inc.file], inc.tree))

ReadFile(f, work) == MergeXml(EmptyDoc, Content[f], IncludeBuffer(Content[f].includes, work), FALSE)

WorkDocs[S \in SUBSET Files] ==
  [f \in Files |-> IF f \in S \/ f \notin DOMAIN Content THEN Thrown(EmptyDoc)
                   ELSE ReadFile(f, WorkDocs[S \cup {f}])]

Buffers == [f \in DOMAIN Content |-> IncludeBuffer(Content[f].includes, WorkDocs[{f}])]

MergeFile(doc, f, adopt) ==
  IF f \notin DOMAIN Content THEN Thrown(doc) ELSE MergeXml(doc, Content[f], Buffers[f], adopt)

\* Documents that have been read from files: <<f, adopt>>, by mergeFile(f, adopt).
Loaded == [s \in Files \X BOOLEAN |-> MergeFile(EmptyDoc, s[1], s[2])]

-----------------------------------------------------------------------------
(***************************************************************************)
(* getRequiredNodeManifest() and the operations on another document's      *)
(* trees.  auto: auto_register_nodes.                                      *)
(***************************************************************************)
Required(doc, nodes) == RequiredManifest(doc.reg, NodeNames(nodes))

RegisterRequired(doc, other, nodes, auto) ==
  LET Register(required) ==
        IF required.ok THEN WithNodes(doc, required.manifest, FALSE) ELSE Thrown(doc)
  IN  IF auto THEN Register(Required(other, nodes)) ELSE Ok(doc)

AllNodes(trees) == FlattenSeq([i \in DOMAIN trees |-> trees[i].nodes])

MergeDocument(doc, other, adopt, auto) ==
  Then(RegisterRequired(doc, other, AllNodes(other.trees), auto),
       LAMBDA d : MergeXml(d, XmlOf(other), Ok(EmptyDoc), adopt))

MergeTree(doc, other, tree, makeRoot, auto) ==
  Then(RegisterRequired(doc, other, tree.nodes, auto),
       LAMBDA d : MergeXml(d, XmlOfTree(tree), Ok(EmptyDoc), makeRoot))

(***************************************************************************)
(* insertBeforeImpl(): elements become children of element "parent" (0:    *)
(* the tree itself) of a tree, at the end or before one: its first child,  *)
(* or one that is no child of it, which is an error once there are         *)
(* children.                                                               *)
(***************************************************************************)
PlaceAt(doc, at, elements) ==
  LET nodes == doc.trees[at.tree].nodes
      depth == IF at.parent = 0 THEN 0 ELSE nodes[at.parent].depth
      last == LastBelow(nodes, at.parent)
      behind == IF at.before = "end" THEN last ELSE at.parent
      deeper == [i \in DOMAIN elements |-> [elements[i] EXCEPT !.depth = @ + depth]]
  IN  IF at.before = "stranger" /\ last > at.parent THEN Thrown(doc)
      ELSE Ok([doc EXCEPT !.trees[at.tree].nodes =
                 SubSeq(nodes, 1, behind) \o [deeper EXCEPT ![1] = Handled(doc.reg, @)]
                 \o SubSeq(nodes, behind + 1, Len(nodes))])

Element(name, ref) ==
  <<[depth |-> 1, name |-> name, ref |-> ref, opts |-> NoOptions, port |-> "unset"]>>

InsertNode(doc, at, name) == PlaceAt(doc, at, Element(name, NoTree))

\* insertNode() with options: they are only used if the name is new.
InsertNodeWithOptions(doc, at, name, options) ==
  Then(IF name \in Registered(doc.reg) THEN Ok(doc) ELSE WithNodes(doc, name :> options, FALSE),
       LAMBDA d : InsertNode(d, at, name))

InsertSubTreeName(doc, at, name) ==
  IF HasTree(doc, name) THEN PlaceAt(doc, at, Element("SubTree", name)) ELSE Thrown(doc)

\* insertSubTreeNode() with a tree element of another document.
InsertSubTreeElement(doc, at, other, tree) ==
  Then(IF HasTree(doc, tree.name)
       THEN IF GetTree(doc, tree.name) = tree THEN Ok(doc) ELSE Thrown(doc)
       ELSE MergeTree(doc, other, tree, FALSE, TRUE),
       LAMBDA d : InsertSubTreeName(d, at, tree.name))

(***************************************************************************)
(* insertTreeFromDocument().  The trees the tree refers to are merged and  *)
(* a copy of its first child is inserted.  Following the references does   *)
(* not end when they form a cycle.  The nodes that are looked for are the  *)
(* ones below the first child of each tree.                                *)
(***************************************************************************)
Acyclic(doc, name) ==
  \A n \in Closure(doc.trees, {name}) : n \notin Closure(doc.trees, Refs(GetTree(doc, n).nodes))

Unresolved(doc, S) ==
  UNION {Refs(GetTree(doc, n).nodes) : n \in Closure(doc.trees, S)} \ TreeNames(doc.trees)

\* Mutant: the trees a tree refers to are not followed further.
DependenciesOfTree(other, name) == Refs(GetTree(other, name).nodes) \ {name}

Dependencies(other, name) == Closure(other.trees, {name}) \ {name}

UnknownBelow(doc, nodes) ==
  NodeNames(Tail(FirstChild(nodes))) \ (Registered(doc.reg) \cup Native)

InsertTree(doc, at, other, name, auto) ==
  LET Into(nodes, required) ==
        Then(RegisterRequired(doc, other, nodes, auto),
             LAMBDA d :
               IF \/ Unresolved(other, {name}) # {}
                  \/ \E n \in required \cup {name} :
                       \/ GetTree(other, n).nodes = <<>>
                       \/ UnknownBelow(d, GetTree(other, n).nodes) # {}
               THEN Thrown(d)
               ELSE Then(MergeXml(d, XmlOf([other EXCEPT !.trees = TreesAt(@, {i \in DOMAIN @ : @[i].name \in required})]),
                                  Ok(EmptyDoc), FALSE),
                         LAMBDA m : PlaceAt(m, at, FirstChild(IF auto THEN Traversed(other.reg, nodes) ELSE nodes))))
  IN  IF HasTree(other, name) THEN Into(GetTree(other, name).nodes, Dependencies(other, name))
      ELSE Thrown(doc)

\* The tree that is meant when none is named.
RootOf(other) ==
  CASE other.root # NoTree -> other.root
    [] other.root = NoTree /\ Len(other.trees) = 1 -> other.trees[1].name
    [] OTHER -> NoTree

\* Mutant: when it fails, the tree of that name is removed again.
NewTreeRemovedAgain(doc, other, name, auto) ==
  LET tree == IF name = NoTree THEN RootOf(other) ELSE name
      filled == IF tree = NoTree THEN Thrown(doc)
                ELSE Then(WithNewTree(doc, tree),
                          LAMBDA d : InsertTree(d, [tree |-> Len(d.trees), parent |-> 0, before |-> "end"],
                                                other, tree, auto))
  IN  IF filled.ok \/ ~HasTree(filled.doc, tree) THEN filled ELSE Thrown(WithoutTree(filled.doc, tree).doc)

\* newTreeFromDocument(): the new tree stays when it cannot be filled.
NewTreeFromDocument(doc, other, name, auto) ==
  LET tree == IF name = NoTree THEN RootOf(other) ELSE name
  IN  IF tree = NoTree THEN Thrown(doc)
      ELSE Then(WithNewTree(doc, tree),
                LAMBDA d : InsertTree(d, [tree |-> Len(d.trees), parent |-> 0, before |-> "end"],
                                      other, tree, auto))

(***************************************************************************)
(* setInlineRegistrationOptions(): every node that is not native gets the  *)
(* options it is registered with, until one is not registered.             *)
(***************************************************************************)
WithInlineOptions(reg, nodes) ==
  LET unknown == {i \in DOMAIN nodes : nodes[i].name \notin Registered(reg) \cup Native}
      done == {i \in DOMAIN nodes : \A j \in unknown : i < j}
  IN  [ok |-> unknown = {},
       nodes |-> [i \in DOMAIN nodes |->
                   IF i \in done /\ nodes[i].name \notin Native
                   THEN [Handled(reg, nodes[i]) EXCEPT !.opts = reg.manifest[nodes[i].name]]
                   ELSE nodes[i]]]

\* applyNodeNamespace() renames the elements before it moves the builders.
NamespaceDocument(doc) ==
  LET Renamed(e) == IF e.name \in Registered(doc.reg) THEN [e EXCEPT !.name = Under[@]] ELSE e
      InNamespace(tree) == [tree EXCEPT !.nodes = [k \in DOMAIN @ |-> Renamed(@[k])]]
  IN  WithRegistry([doc EXCEPT !.trees = [i \in DOMAIN @ |-> InNamespace(@[i])]], NamespaceNodes(doc.reg))
=============================================================================
