----------------------------- MODULE Resources -----------------------------
(***************************************************************************)
(* The ament index of behaviors and of node manifests and the identities   *)
(* that look into it, read by the C++ classes BehaviorResource,            *)
(* TreeResource and NodeManifestResource and by the Python classes of the  *)
(* same names.                                                             *)
(*                                                                         *)
(* An identity string <category>/<package>::<alias> is a category and the  *)
(* tokens between the separators "::"; a token that is absent or empty is  *)
(* NoName.  The alias of a tree has two tokens, its file's stem and its    *)
(* name.  The string <package>::<metadata_id> of a node manifest has no    *)
(* category.  A line of the index is what the packages' build writes.      *)
(***************************************************************************)
EXTENDS Naturals, Sequences, FiniteSets

CONSTANTS
  Packages,         \* packages that may register behaviors
  NoName,           \* the empty string
  TreeCategory,     \* _AUTO_APMS_BEHAVIOR_TREE_CORE__DEFAULT_BEHAVIOR_CATEGORY__TREE
  DefaultCategory,  \* _AUTO_APMS_BEHAVIOR_TREE_CORE__DEFAULT_BEHAVIOR_CATEGORY
  Lines,            \* the behaviors packages may register, line by line
  ManifestLines,    \* the node manifests packages may register, line by line
  Texts,            \* the identity strings users write: [category, tokens]
  MaxInstalled      \* bound of the model: lines in the index

(***************************************************************************)
(* A line: [valid, category, alias, trees, root, clash]: whether it has    *)
(* the six fields, the trees its file holds (none if the file cannot be    *)
(* parsed), the root among them or NoName, and whether two of its node     *)
(* manifests configure the same node.  A line of a node manifest:          *)
(* [valid, id, decodes, reads]: whether it has the three fields, whether   *)
(* C++ decodes the manifest and its model, and whether Python reads them.  *)
(***************************************************************************)
ASSUME ResourceAssumption ==
  /\ NoName \notin Packages \union {TreeCategory}
  /\ \A line \in Lines : line.alias \in Seq(STRING) /\ line.category # NoName
  /\ \A line \in ManifestLines : line.id \in Seq(STRING) \ {<<NoName>>} /\ (line.decodes => line.reads)
  /\ \A text \in Texts : text.tokens \in Seq(STRING) /\ Len(text.tokens) >= 1

VARIABLES
  index,      \* the behaviors each package has installed
  manifests   \* the node manifests each package has installed

Refused == [found |-> FALSE]

\* The registered line of a package, as the resource object keeps it.
Resource(p, line) == [found |-> TRUE, package |-> p, line |-> line]

------------------------------------------------------------------------
(* Identities.                                                             *)

\* BehaviorResourceIdentity: a single token is an alias.
Identity(text) ==
  [category |-> text.category,
   package  |-> IF Len(text.tokens) > 1 THEN Head(text.tokens) ELSE NoName,
   alias    |-> IF Len(text.tokens) > 1 THEN Tail(text.tokens) ELSE text.tokens]

IsEmpty(id) == id.package = NoName /\ id.alias = <<NoName>>

\* With a default category, as for trees.
WithCategory(id, category) ==
  IF id.category \in {NoName, DefaultCategory} THEN [id EXCEPT !.category = category] ELSE id

\* Python has one constructor for both, with NoName if there is no default.
PythonIdentity(text, category) ==
  IF category = NoName THEN Identity(text) ELSE WithCategory(Identity(text), category)

\* NodeManifestResourceIdentity: a single token is a metadata id.
ManifestIdentity(text) == [package |-> Identity(text).package, id |-> Identity(text).alias]

\* C++ drops empty tokens of a tree's alias before it counts them ...
TreeTokens(id) == {i \in DOMAIN id.alias : id.alias[i] # NoName}

IsTreeIdentity(id) == ~IsEmpty(id) /\ Cardinality(TreeTokens(id)) = 2

\* ... Python does not.
IsPythonTreeIdentity(id) == ~IsEmpty(id) /\ Len(id.alias) = 2 /\ NoName \notin {id.alias[1], id.alias[2]}

\* Mutant: the category is left out.
PrintedWithoutCategory(r) == [category |-> NoName, tokens |-> <<r.package>> \o r.line.alias]

\* str()
Printed(r) == [category |-> r.line.category, tokens |-> <<r.package>> \o r.line.alias]

------------------------------------------------------------------------
(* Searching.                                                              *)

Searched(id) == IF id.package # NoName THEN {id.package} \cap Packages ELSE Packages

Entries(packages) == UNION {{[package |-> p, line |-> line] : line \in index[p]} : p \in packages}

Matches(id) ==
  {e \in Entries(Searched(id)) :
     /\ e.line.alias = id.alias
     /\ id.category \in {NoName, e.line.category}}

\* Mutant: the first match is taken.
OnlyFirst(matches, entries) ==
  IF matches = {} \/ \E e \in entries : ~e.line.valid
  THEN Refused
  ELSE LET e == CHOOSE e \in matches : TRUE IN Resource(e.package, e.line)

\* A match that is the only one.  A line without its six fields ends the search.
Only(matches, entries) ==
  IF Cardinality(matches) # 1 \/ \E e \in entries : ~e.line.valid
  THEN Refused
  ELSE LET e == CHOOSE e \in matches : TRUE IN Resource(e.package, e.line)

\* BehaviorResource: the node manifests of the behavior must not share a node.
Behavior(id) ==
  IF IsEmpty(id) \/ \E e \in Matches(id) : e.line.clash
  THEN Refused
  ELSE Only(Matches(id), Entries(Searched(id)))

\* TreeResource: its file must hold the tree.
Tree(id) ==
  LET r == Behavior(id)
  IN  IF r.found /\ Len(r.line.alias) = 2 /\ r.line.alias[2] \in r.line.trees THEN r ELSE Refused

FindTree(text) ==
  LET id == WithCategory(Identity(text), TreeCategory)
  IN  IF IsTreeIdentity(id) THEN Tree(id) ELSE Refused

FindBehavior(text) == Behavior(Identity(text))

\* BehaviorResource::find() puts an identity together and reads it.
Find(alias, package, category) ==
  FindBehavior([category |-> category, tokens |-> <<package>> \o alias])

\* The trees findByTreeName() and findByFileStem() look at: part 2 or part 1
\* of the alias, in one package or in all.  Lines without six fields are passed over.
TreeEntries(part, name, package) ==
  {e \in Entries(Searched([package |-> package])) :
     /\ e.line.valid
     /\ e.line.category = TreeCategory
     /\ Len(e.line.alias) = 2
     /\ e.line.alias[part] = name}

FindTreeBy(part, name, package) ==
  LET found == TreeEntries(part, name, package)
  IN  IF name = NoName \/ Cardinality(found) # 1
      THEN Refused
      ELSE LET e == CHOOSE e \in found : TRUE
           IN  Tree([category |-> e.line.category, package |-> e.package, alias |-> e.line.alias])

\* Mutant: an identity without a category only finds behaviors of the default one.
PythonBehaviorOfDefault(id) ==
  IF IsEmpty(id) THEN Refused
  ELSE Only(Matches(WithCategory(id, DefaultCategory)), Entries(Searched(id)))

\* The Python classes: a later node manifest replaces the nodes of an earlier one,
\* and the file of a tree is not parsed.
PythonBehavior(id) ==
  IF IsEmpty(id) THEN Refused ELSE Only(Matches(id), Entries(Searched(id)))

\* BehaviorResource.find()
PythonFind(alias, package, category) ==
  PythonBehavior(PythonIdentity([category |-> category, tokens |-> <<package>> \o alias], NoName))

PythonFindTree(text) ==
  LET id == PythonIdentity(text, TreeCategory)
      r  == PythonBehavior(id)
  IN  IF IsPythonTreeIdentity(id) /\ r.found /\ Len(r.line.alias) = 2 THEN r ELSE Refused

PythonFindTreeBy(part, name, package) ==
  LET found == TreeEntries(part, name, package)
  IN  IF name = NoName \/ Cardinality(found) # 1
      THEN Refused
      ELSE LET e == CHOOSE e \in found : TRUE
           IN  PythonBehavior([category |-> e.line.category, package |-> e.package, alias |-> e.line.alias])

\* getBehaviorResourceIdentities(), internal behaviors included: the identities of
\* all lines.
Listed == {[category |-> e.line.category, package |-> e.package, alias |-> e.line.alias] : e \in Entries(Packages)}

------------------------------------------------------------------------
(* Node manifests.                                                         *)

ManifestEntries(packages) ==
  UNION {{[package |-> p, line |-> line] : line \in manifests[p]} : p \in packages}

\* A line with the metadata id, the only one.  A line without its three fields
\* ends the search, and so does a match the reader cannot load.
ManifestIn(mid, readable) ==
  LET entries == ManifestEntries(Searched(mid))
      matches == {e \in entries : e.line.id = mid.id}
  IN  IF mid.id = <<NoName>> \/ \E e \in matches : e.line \notin readable
      THEN Refused
      ELSE Only(matches, entries)

FindManifest(text) == ManifestIn(ManifestIdentity(text), {line \in ManifestLines : line.decodes})

PythonFindManifest(text) == ManifestIn(ManifestIdentity(text), {line \in ManifestLines : line.reads})

\* NodeManifestResource.find()
PythonManifestOf(id, package) == PythonFindManifest([category |-> NoName, tokens |-> <<package>> \o id])

\* str()
PrintedManifest(r) == [category |-> NoName, tokens |-> <<r.package>> \o r.line.id]

\* getNodeManifestResourceIdentities(): of all lines, complete or not.
ListedManifests == {[package |-> e.package, id |-> e.line.id] : e \in ManifestEntries(Packages)}

\* The strings that may name a node manifest.
ManifestTexts == {text \in Texts : text.category = NoName}

------------------------------------------------------------------------
IndexInit ==
  /\ index = [p \in Packages |-> {}]
  /\ manifests = [p \in Packages |-> {}]

MayInstall == Cardinality(Entries(Packages)) + Cardinality(ManifestEntries(Packages)) < MaxInstalled

\* A package is installed with one behavior more.
Install(p, line) ==
  /\ MayInstall
  /\ line \notin index[p]
  /\ index' = [index EXCEPT ![p] = @ \union {line}]
  /\ UNCHANGED manifests

\* A package is installed with one node manifest more.
InstallManifest(p, line) ==
  /\ MayInstall
  /\ line \notin manifests[p]
  /\ manifests' = [manifests EXCEPT ![p] = @ \union {line}]
  /\ UNCHANGED index

------------------------------------------------------------------------
(* What users of identities rely on.                                       *)

\* The unique identity of a resource, printed and read again, finds that
\* resource, and so does its tree's name or its file's stem once the package is
\* added: naming more never finds something else.  What is found is listed.
PrintedIdentityFindsIt ==
  /\ \A text \in Texts :
       /\ FindBehavior(text).found => FindBehavior(Printed(FindBehavior(text))) = FindBehavior(text)
       /\ FindTree(text).found => FindTree(Printed(FindTree(text))) = FindTree(text)
  /\ \A id \in Listed, part \in {1, 2} :
       Len(id.alias) = 2 =>
         LET wide == FindTreeBy(part, id.alias[part], NoName)
         IN  wide.found => FindTreeBy(part, id.alias[part], wide.package) = wide
  /\ \A text \in ManifestTexts :
       FindManifest(text).found =>
         /\ FindManifest(PrintedManifest(FindManifest(text))) = FindManifest(text)
         /\ ManifestIdentity(PrintedManifest(FindManifest(text))) \in ListedManifests

\* "This is the Python equivalent of" (resources.py): whatever C++ finds by an
\* identity, a tree's name, a file's stem or a metadata id, Python finds, and
\* finds the same.
PythonFindsSame ==
  /\ \A text \in Texts :
       /\ FindBehavior(text).found => PythonBehavior(PythonIdentity(text, NoName)) = FindBehavior(text)
       /\ FindTree(text).found => PythonFindTree(text) = FindTree(text)
  /\ \A id \in Listed, part \in {1, 2} :
       Len(id.alias) = 2 =>
         LET tree == FindTreeBy(part, id.alias[part], NoName)
         IN  tree.found => PythonFindTreeBy(part, id.alias[part], NoName) = tree
  /\ \A id \in Listed :
       Find(id.alias, id.package, id.category).found =>
         PythonFind(id.alias, id.package, id.category) = Find(id.alias, id.package, id.category)
  /\ \A text \in ManifestTexts : FindManifest(text).found => PythonFindManifest(text) = FindManifest(text)
  /\ \A mid \in ListedManifests :
       LET exact == [category |-> NoName, tokens |-> <<mid.package>> \o mid.id]
       IN  FindManifest(exact).found => PythonManifestOf(mid.id, mid.package) = FindManifest(exact)

\* What an installation may do to what the identities find: nothing, or one more
\* match makes them ambiguous, and never one of another package than they name.
NotRedirected ==
  /\ \A text \in Texts :
       FindTree(text).found =>
         /\ FindTree(text)' \in {FindTree(text), Refused}
         /\ /\ Identity(text).package # NoName
            /\ index'[Identity(text).package] = index[Identity(text).package]
            => FindTree(text)' = FindTree(text)
  /\ \A text \in ManifestTexts :
       FindManifest(text).found =>
         /\ FindManifest(text)' \in {FindManifest(text), Refused}
         /\ /\ Identity(text).package # NoName
            /\ manifests'[Identity(text).package] = manifests[Identity(text).package]
            => FindManifest(text)' = FindManifest(text)

\* Installing a behavior or a node manifest never makes an identity mean another
\* resource: it keeps its own or becomes ambiguous, and one that names its package
\* is not concerned by what other packages install.
InstallNeverRedirects == [][<<index, manifests>>' # <<index, manifests>> => NotRedirected]_<<index, manifests>>
============================================================================
