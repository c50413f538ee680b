------------------------- MODULE MCDocumentEditing -------------------------
(* Three trees, two nodes and their namespaced names, and files that include  *)
(* one another: whole, one tree of them, twice, in a circle, in conflict.      *)
EXTENDS DocumentEditing

MCOrder == <<"A", "B", "Sequence", "SubTree", "in", "ns.A", "ns.B", "ns.ns.A", "out", "x">>
MCNames == Range(MCOrder)
MCRank == [n \in MCNames |-> CHOOSE i \in DOMAIN MCOrder : MCOrder[i] = n]
MCUnder == ("A" :> "ns.A") @@ ("B" :> "ns.B") @@ ("ns.A" :> "ns.ns.A")
MCClassPorts ==
  [c \in {"Ros", "Plain"} |->
    ("in" :> [dir |-> "in", default |-> "none"]) @@ ("out" :> [dir |-> "out", default |-> "yes"])]

OptA == [DefaultOptions EXCEPT !.class = "Ros", !.alias = ("in" :> "x")]
OptB == [DefaultOptions EXCEPT !.class = "Plain"]
YamlA == [class |-> "Ros", alias |-> "in" :> "x"]
YamlB == [class |-> "Plain"]
YamlBad == [class |-> "Plain", alias |-> "in" :> "x"]
Entry(name, yaml) == [name |-> name, yaml |-> yaml]
\* One node, two in one file, two in two files, a reserved name, a name another
\* node gets from a namespace, and files that give a name twice, lack a class or
\* cannot be decoded.
MCManifestFiles ==
  {<< <<Entry("A", YamlA)>> >>, << <<Entry("B", YamlB), Entry("A", YamlB)>> >>,
   << <<Entry("A", YamlA)>>, <<Entry("B", YamlBad)>> >>, << <<Entry("Sequence", YamlB)>> >>,
   << <<Entry("A", YamlA)>>, <<Entry("A", YamlA)>> >>, << <<Entry("B", YamlA)>> >>, << <<Entry("A", [rest |-> "own"])>> >>,
   << <<Entry("ns.A", YamlA)>> >>, << <<Entry("B", [malformed |-> TRUE])>>, <<Entry("A", YamlA)>> >>}
E(depth, name, opts) == [depth |-> depth, name |-> name, ref |-> NoTree, opts |-> opts, port |-> "unset"]
S(depth, tree) == [E(depth, "SubTree", NoOptions) EXCEPT !.ref = tree]
Whole(f) == [file |-> f, tree |-> NoTree]
Xml(includes, trees, root) ==
  [valid |-> TRUE, includes |-> includes, trees |-> trees, root |-> root]

T3 == [name |-> "T3", nodes |-> <<E(1, "Sequence", NoOptions), E(2, "B", OptB)>>]
MCContent ==
  [lib |-> Xml(<<>>, <<[name |-> "T2", nodes |-> <<E(1, "Sequence", NoOptions), S(2, "T3")>>], T3,
                       [name |-> "T1", nodes |-> <<E(1, "A", OptB)>>]>>, NoTree),
   main |-> Xml(<<[file |-> "lib", tree |-> "T2"]>>,
                <<[name |-> "T1", nodes |-> <<E(1, "Sequence", NoOptions), E(2, "A", OptA), S(2, "T2")>>]>>, "T1"),
   shared |-> Xml(<<[file |-> "lib", tree |-> "T3"]>>, <<>>, NoTree),
   twice |-> Xml(<<Whole("shared"), Whole("main")>>, <<>>, NoTree),
   leaf |-> Xml(<<>>, <<[name |-> "T2", nodes |-> <<E(1, "Sequence", NoOptions), E(2, "A", NoOptions), S(2, "T1")>>]>>, NoTree),
   loop |-> Xml(<<Whole("twice"), Whole("loop")>>, <<>>, NoTree)]
MCFiles == {"lib", "main", "shared", "twice", "leaf", "loop", "missing"}
=============================================================================
