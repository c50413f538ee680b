-------------------------- MODULE DocumentEditing --------------------------
(***************************************************************************)
(* A TreeDocument and the operations on it that a behavior builder or a    *)
(* user makes (core/tree/tree_document.cpp), in any order.  Documents the  *)
(* operations take trees from have been read from files.  An operation     *)
(* that throws is an ordinary step: its caller goes on with the document   *)
(* as it is then.                                                          *)
(***************************************************************************)
EXTENDS TreeDocument

CONSTANTS
  TreeName,        \* names of trees
  StartFiles,      \* bound: files the document may have been read from
  NewNodes,        \* names of nodes that are inserted one by one
  ManifestFiles,   \* the files of the manifests of behaviors, in sequences
  MaxSteps  \* bound: how many operations

ASSUME EditingAssumption == StartFiles \subseteq Files

VARIABLES
  document,   \* the document being edited
  operation,  \* the last operation: [op, ok]
  steps,      \* how many operations there were
  parted      \* history: a namespace was applied that threw half-way

docVars == <<document, operation, steps, parted>>

Perform(op, result) ==
  /\ steps < MaxSteps
  /\ document' = result.doc
  /\ operation' = [op |-> op, ok |-> result.ok]
  /\ steps' = steps + 1

Do(op, result) == Perform(op, result) /\ UNCHANGED parted

\* The manifests of behaviors that can be read.
Manifests == {FromFiles(files).map : files \in {f \in ManifestFiles : FromFiles(f).ok}}

\* The documents that can be read; the root is adopted or not.
Sources == {Loaded[s].doc : s \in {t \in Files \X BOOLEAN : Loaded[t].ok}}
TreesOf(other) == {other.trees[i] : i \in DOMAIN other.trees}

\* The places elements are inserted at: in a tree, or in its first element.
Places(befores) ==
  {at \in [tree : DOMAIN document.trees, parent : {0, 1}, before : befores] :
     at.parent = 0 \/ (document.trees[at.tree].nodes # <<>> /\ document.trees[at.tree].nodes[1].name # "SubTree")}

-----------------------------------------------------------------------------
MergeFromFile ==
  \E f \in Files, adopt \in BOOLEAN : Do("merge", MergeFile(document, f, adopt))

\* mergeResource(): the nodes of the resource's manifests come first.
MergeResource ==
  \E f \in DOMAIN Content, m \in Manifests :
    Do("merge", Then(WithNodes(document, m, FALSE), LAMBDA d : MergeFile(d, f, FALSE)))

MergeFromDocument ==
  \E other \in Sources, auto \in BOOLEAN : Do("merge", MergeDocument(document, other, TRUE, auto))

\* mergeTree(), newTree() with a tree element.
MergeFromTree ==
  \E other \in Sources : \E tree \in TreesOf(other), root \in BOOLEAN :
    Do("mergeTree", MergeTree(document, other, tree, root, TRUE))

NewTree == \E name \in TreeName : Do("newTree", WithNewTree(document, name))

(***************************************************************************)
(* newTreeFromDocument(), and insertTree...(): from a document, a string   *)
(* or a file.  The root is only known if the file was read that way.       *)
(***************************************************************************)
NewTreeFrom ==
  \E other \in Sources, name \in TreeName \cup {NoTree}, auto \in BOOLEAN :
    /\ LET tree == IF name = NoTree THEN RootOf(other) ELSE name
       IN  HasTree(other, tree) => Acyclic(other, tree)
    /\ Do("newTreeFrom", NewTreeFromDocument(document, other, name, auto))

InsertTreeFrom ==
  \E other \in Sources, name \in TreeName, auto \in BOOLEAN, at \in Places({"end", "stranger"}) :
    /\ HasTree(other, name) => Acyclic(other, name)
    /\ Do("insertTree", InsertTree(document, at, other, name, auto))

InsertOneNode ==
  \E at \in Places({"end", "first", "stranger"}), name \in NewNodes :
    Do("insertNode", InsertNode(document, at, name))

InsertRegisteredNode ==
  \E at \in Places({"end"}), m \in Manifests : \E name \in DOMAIN m :
    Do("insertNode", InsertNodeWithOptions(document, at, name, m[name]))

InsertSubTree ==
  \E at \in Places({"end"}) :
    \/ \E name \in TreeName : Do("insertSubTree", InsertSubTreeName(document, at, name))
    \/ \E other \in Sources : \E tree \in TreesOf(other) :
         Do("insertSubTree", InsertSubTreeElement(document, at, other, tree))

RemoveTree == \E name \in TreeName : Do("remove", WithoutTree(document, name))

\* removeFirstChild() of a tree: its first child, or the first node of a name.
RemoveFirstChild ==
  \E t \in DOMAIN document.trees :
    LET nodes == Traversed(document.reg, document.trees[t].nodes)
        Without(i) == [document EXCEPT !.trees[t].nodes =
                         SubSeq(nodes, 1, i - 1) \o SubSeq(nodes, LastBelow(nodes, i) + 1, Len(nodes))]
        First(name) == CHOOSE i \in DOMAIN nodes :
                         nodes[i].name = name /\ \A j \in 1..(i - 1) : nodes[j].name # name
    IN  \/ Do("remove", IF nodes = <<>> THEN Thrown(document)
                        ELSE Ok([document EXCEPT !.trees[t].nodes =
                                   SubSeq(@, LastBelow(@, 1) + 1, Len(@))]))
        \/ \E name \in Names :
             Do("remove", IF name \in NodeNames(nodes) THEN Ok(Without(First(name)))
                          ELSE Thrown([document EXCEPT !.trees[t].nodes = nodes]))

RemoveChildren ==
  \E t \in DOMAIN document.trees : Do("remove", Ok([document EXCEPT !.trees[t].nodes = <<>>]))

SetRoot == \E name \in TreeName : Do("setRoot", WithRoot(document, name))

\* TreeElement::setName(): no check whether there is a tree of that name.
SetTreeName ==
  \E t \in DOMAIN document.trees, name \in TreeName :
    Do("rename", Ok([document EXCEPT !.trees[t].name = name]))

\* TreeElement::operator=
AssignTree ==
  \E t \in DOMAIN document.trees, other \in Sources : \E tree \in TreesOf(other) :
    Do("assign", IF document.trees[t].name # tree.name /\ HasTree(document, tree.name) THEN Thrown(document)
                 ELSE Ok([document EXCEPT !.trees[t] = tree]))

(***************************************************************************)
(* NodeElement::operator=: a copy of another element, with everything      *)
(* below it, takes the place of this one and what is below it.  Nothing    *)
(* checks the trees and nodes the copy refers to.  Bound of the model: the *)
(* copy is of a tree's first element, and replaces a leaf.                 *)
(***************************************************************************)
AssignNode ==
  \E t \in DOMAIN document.trees, other \in Sources :
    \E i \in DOMAIN document.trees[t].nodes, tree \in {u \in TreesOf(other) : u.nodes # <<>>} :
      LET nodes == document.trees[t].nodes
          copy == FirstChild(tree.nodes)
          Below(e) == [e EXCEPT !.depth = nodes[i].depth + @ - 1]
          placed == [k \in DOMAIN copy |-> Below(IF k = 1 THEN Handled(other.reg, copy[k]) ELSE copy[k])]
      IN  /\ LastBelow(nodes, i) = i
          /\ Do("assign", Ok([document EXCEPT !.trees[t].nodes =
                                SubSeq(nodes, 1, i - 1) \o placed \o SubSeq(nodes, i + 1, Len(nodes))]))

\* setPorts() and resetPorts() of an element, by a handle to it.
SetPort ==
  \E t \in DOMAIN document.trees : \E i \in DOMAIN document.trees[t].nodes :
    LET element == Handled(document.reg, document.trees[t].nodes[i])
        known == ModelPort(document.reg, element.name)
        With(value) == [document EXCEPT !.trees[t].nodes[i] = [element EXCEPT !.port = value]]
    IN  \/ Do("setPort", IF known = "unknown" THEN Thrown(document) ELSE Ok(With("set")))
        \/ Do("setPort", IF known = "unknown" THEN Ok(document)
                         ELSE Ok(With(IF known = "default" THEN "default" ELSE "unset")))

SetInlineOptions ==
  \E t \in DOMAIN document.trees :
    LET r == WithInlineOptions(document.reg, document.trees[t].nodes)
    IN  Do("setInline", [ok |-> r.ok, doc |-> [document EXCEPT !.trees[t].nodes = r.nodes]])

\* getRequiredNodeManifest() of a tree, const: every element gets a handle.
GetRequiredNodes ==
  \E t \in DOMAIN document.trees :
    Do("required", [ok |-> Required(document, document.trees[t].nodes).ok,
                    doc |-> [document EXCEPT !.trees[t].nodes = Traversed(document.reg, @)]])

RegisterManifest ==
  \E m \in Manifests, override \in BOOLEAN :
    Do(IF override THEN "override" ELSE "register", WithNodes(document, m, override))

\* A namespace that makes a name of one that is taken clashes: the manifest and
\* the elements have been renamed by then, some of the builders have not.
ApplyNodeNamespace ==
  LET result == NamespaceDocument(document)
  IN  /\ Registered(document.reg) \subseteq DOMAIN Under
      /\ Perform("namespace", result)
      /\ parted' = (parted \/ ~result.ok)

Reset ==
  \E unregister \in BOOLEAN :
    Do("reset", Ok([EmptyDoc EXCEPT !.reg = IF unregister THEN ResetNodes(document.reg) ELSE document.reg]))

-----------------------------------------------------------------------------
\* A new document, or one whose first operation was to merge a file.
EditInit ==
  /\ document \in {EmptyDoc} \cup {Loaded[<<f, TRUE>>].doc : f \in {g \in StartFiles : Loaded[<<g, TRUE>>].ok}}
  /\ operation = [op |-> "reset", ok |-> TRUE]
  /\ steps = 0 /\ parted = FALSE

EditNext ==
  \/ MergeFromFile \/ MergeResource \/ MergeFromDocument \/ MergeFromTree
  \/ NewTree \/ NewTreeFrom \/ InsertTreeFrom
  \/ InsertOneNode \/ InsertRegisteredNode \/ InsertSubTree
  \/ RemoveTree \/ RemoveFirstChild \/ RemoveChildren
  \/ SetRoot \/ SetTreeName \/ AssignTree \/ AssignNode
  \/ SetPort \/ SetInlineOptions \/ GetRequiredNodes
  \/ RegisterManifest \/ ApplyNodeNamespace \/ Reset

EditSpec == EditInit /\ [][EditNext]_docVars

-----------------------------------------------------------------------------
Elements(d) == UNION {{d.trees[i].nodes[k] : k \in DOMAIN d.trees[i].nodes} : i \in DOMAIN d.trees}

TypeOK ==
  /\ DOMAIN document.reg.manifest \subseteq Names \ Native
  /\ TreeNames(document.trees) \subseteq TreeName
  /\ document.root \in TreeName \cup {NoTree}
  /\ \A i \in DOMAIN document.trees : \A k \in DOMAIN document.trees[i].nodes :
       LET nodes == document.trees[i].nodes
       IN  /\ nodes[k].name \in Names
           /\ nodes[k].depth \in 1..(IF k = 1 THEN 1 ELSE nodes[k - 1].depth + 1)
  /\ operation.ok \in BOOLEAN /\ steps \in 0..MaxSteps /\ parted \in BOOLEAN

(***************************************************************************)
(* The manifest a document keeps and the factory it creates trees with     *)
(* agree about every node, the options it was built with included, also    *)
(* after an operation that threw for one of several nodes.  One exception  *)
(* alone parts them, for good: that of a namespace that clashes, between   *)
(* the manifest and the builders (tree_document.cpp:1371-1516, 1769-1785). *)
(***************************************************************************)
FactoryMatchesManifest == ~parted => document.reg.factory = document.reg.manifest

(***************************************************************************)
(* Nothing but an explicit override, a namespace or a reset changes what a *)
(* known node is: neither merging a document nor inserting a tree or a     *)
(* node, with or without inline options, whether it succeeds or throws     *)
(* (tree_document.cpp:881-932, 1431-1516).                                 *)
(***************************************************************************)
RegistrationsKept ==
  [][operation'.op \notin {"override", "namespace", "reset"} =>
       \A n \in Registered(document.reg) :
         n \in Registered(document'.reg) /\ document'.reg.manifest[n] = document.reg.manifest[n]]_docVars

(***************************************************************************)
(* An operation that takes trees from elsewhere and throws has only added  *)
(* to the document: every tree is still there, at its place and as it was  *)
(* (tree_document.cpp:845-1290).                                           *)
(***************************************************************************)
FailureOnlyAdds ==
  [][operation'.op \in {"merge", "mergeTree", "newTreeFrom", "insertTree", "insertSubTree"} /\ ~operation'.ok =>
       IsPrefix(document.trees, document'.trees)]_docVars

(***************************************************************************)
(* A tree comes with everything it refers to: merging and inserting trees  *)
(* leaves no reference without a tree, except those that the trees of a    *)
(* file leave to the document it is merged into, being neither to trees of *)
(* the file nor to ones it includes (tree_document.cpp:286-336, 1049-1094).*)
(* Only once it is done: an operation that throws for the inline options   *)
(* of one tree leaves the trees before it (tree_document.cpp:1100-1124).   *)
(***************************************************************************)
RefsOf(trees) == UNION {Refs(trees[i].nodes) : i \in DOMAIN trees}
Dangling(d) == RefsOf(d.trees) \ TreeNames(d.trees)

LeftOpen ==
  UNION {RefsOf(Content[f].trees) \ TreeNames(Content[f].trees \o Buffers[f].doc.trees) :
           f \in {g \in DOMAIN Content : Buffers[g].ok}}

NoNewDangling ==
  [][operation'.ok /\ operation'.op \in {"merge", "newTreeFrom", "insertTree"} =>
       Dangling(document') \subseteq Dangling(document) \cup LeftOpen]_docVars

(***************************************************************************)
(* Two includes can be given in either order: whether they can be merged   *)
(* into the document, the trees it has then and the nodes it knows do not  *)
(* depend on it (tree_document.cpp:952-1110).                              *)
(***************************************************************************)
BothIncluded ==
  [f \in Files |-> [g \in Files |->
     IncludeBuffer(<<[file |-> f, tree |-> NoTree], [file |-> g, tree |-> NoTree]>>, WorkDocs[{}])]]

OutcomeOf(f, g) ==
  LET r == MergeXml(document, XmlOf(EmptyDoc), BothIncluded[f][g], FALSE)
  IN  IF r.ok THEN <<{r.doc.trees[i] : i \in DOMAIN r.doc.trees}, r.doc.reg>> ELSE <<>>

IncludeOrderIrrelevant == \A f, g \in Files : OutcomeOf(f, g) = OutcomeOf(g, f)

=============================================================================
