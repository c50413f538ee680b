--------------------------- MODULE NodeManifest ---------------------------
(***************************************************************************)
(* core/node/node_manifest.cpp, node_registration_options.cpp: what a node *)
(* manifest holds and how manifests are combined.                          *)
(*                                                                         *)
(* A manifest is a function from the names of nodes to the options they    *)
(* are registered with.  std::map iterates over it in the order of its     *)
(* keys, Rank; a loop that throws has handled the names before the one it  *)
(* failed for, and a result says so: [ok |-> FALSE, map |-> ...].          *)
(***************************************************************************)
EXTENDS Integers, Sequences, FiniteSets, TLC, Functions, Folds, SequencesExt

CONSTANTS
  Names,      \* names of nodes, and of ports
  Rank,       \* the lexicographic order of Names
  Under,      \* Under[n] = "ns.n", for the names in its domain
  NoClass     \* an empty class_name

ASSUME ManifestAssumption ==
  /\ Rank \in [Names -> Nat]
  /\ \A m, n \in Names : Rank[m] = Rank[n] => m = n
  /\ DOMAIN Under \subseteq Names
  /\ \A n \in DOMAIN Under : Under[n] \in Names
  /\ \A m, n \in DOMAIN Under : Rank[m] < Rank[n] => Rank[Under[m]] < Rank[Under[n]]

Empty == <<>>  \* the manifest without a node, the map without a key

\* The map with one key.
Single(key, value) == [k \in {key} |-> value]

\* The entries of f, and those of g whose keys f does not have.
Over(f, g) == [k \in DOMAIN f \cup DOMAIN g |-> IF k \in DOMAIN f THEN f[k] ELSE g[k]]

\* The names of S a loop handles that fails at the members of F.
HandledBefore(S, F) == {n \in S : \A f \in F : Rank[n] < Rank[f]}

\* The member of F the loop fails at, if there is one.
FailedAt(F) == {f \in F : \A g \in F : Rank[f] <= Rank[g]}

\* A loop over the names of S, in their order: step(n, result) for each of them.
LastOf(S) == CHOOSE n \in S : \A m \in S : Rank[m] <= Rank[n]
InOrder(S, start, step(_, _)) == MapThenFoldSet(step, start, LAMBDA n : n, LastOf, S)

-----------------------------------------------------------------------------
(***************************************************************************)
(* NodeRegistrationOptions: the fields that are decoded one by one.  The   *)
(* scalars and "extra" share the field "rest".                             *)
(***************************************************************************)
DefaultOptions ==
  [class |-> NoClass, alias |-> Empty, default |-> Empty, hidden |-> {}, rest |-> "default"]

Valid(options) == options.class # NoClass

\* encode(): every field, never the parent.
Encode(options) == options

\* Mutant: the aliases of a node replace those of its parent.
DecodeReplacesAliases(yaml, base) == Over(yaml, base)

(***************************************************************************)
(* decode(): a key that is present in the YAML map replaces what the       *)
(* parent (or the default) has; aliases and defaults are replaced port by  *)
(* port, and hidden ports are only added.  A YAML value of the wrong kind  *)
(* or an unknown key throws: such a map is the value "malformed".          *)
(***************************************************************************)
Decode(yaml, base) ==
  [f \in DOMAIN base |->
    IF f \notin DOMAIN yaml THEN base[f]
    ELSE CASE f \in {"alias", "default"} -> Over(yaml[f], base[f])
           [] f = "hidden" -> base[f] \cup yaml[f]
           [] OTHER -> yaml[f]]

\* The base: the node's entry in the parent's manifest, found as a resource.
DecodeWithParent(yaml, parent, manifest) ==
  IF "malformed" \in DOMAIN yaml \/ (parent # "" /\ parent \notin DOMAIN manifest)
  THEN [ok |-> FALSE, options |-> DefaultOptions]
  ELSE [ok |-> TRUE,
        options |-> Decode(yaml, IF parent = "" THEN DefaultOptions ELSE manifest[parent])]

-----------------------------------------------------------------------------
(***************************************************************************)
(* NodeManifest.  add(), and what merges and files use it for.             *)
(***************************************************************************)
AddNode(m, n, options) ==
  IF n \in DOMAIN m \/ ~Valid(options) THEN [ok |-> FALSE, map |-> m]
  ELSE [ok |-> TRUE, map |-> Over(Single(n, options), m)]

\* With replace, the old entry is erased before add() may refuse the new one.
MergeManifest(m, other, replace) ==
  LET fails == {n \in DOMAIN other : ~Valid(other[n]) \/ (~replace /\ n \in DOMAIN m)}
      erased == IF replace THEN FailedAt(fails) ELSE {}
  IN  [ok |-> fails = {},
       map |-> Over(Restrict(other, HandledBefore(DOMAIN other, fails)),
                    Restrict(m, DOMAIN m \ erased))]

Namespaced(m) == [n \in {Under[k] : k \in DOMAIN m} |-> m[CHOOSE k \in DOMAIN m : Under[k] = n]]

\* applyNodeNamespace(): never fails, prefixes stay distinct.
ApplyNamespace(m) == Namespaced(m)

\* decode() of a manifest file, a sequence of [name, yaml] without parents.
DecodeManifest(file) ==
  FoldLeft(LAMBDA r, e :
             LET decoded == DecodeWithParent(e.yaml, "", Empty)
             IN  IF r.ok /\ decoded.ok THEN AddNode(r.map, e.name, decoded.options)
                 ELSE [r EXCEPT !.ok = FALSE],
           [ok |-> TRUE, map |-> Empty], file)

\* fromFiles(): names given by two files are an error, whatever their options.
FromFiles(files) ==
  FoldLeft(LAMBDA r, file :
             LET next == DecodeManifest(file)
             IN  IF r.ok /\ next.ok THEN MergeManifest(r.map, next.map, FALSE)
                 ELSE [r EXCEPT !.ok = FALSE],
           [ok |-> TRUE, map |-> Empty], files)
=============================================================================
