------------------------- MODULE MCNodeConstruction -------------------------
(* Three classes, one of them without a context; every alias map from the ports *)
(* to two other names, defaults and attributes for up to two ports each.       *)
EXTENDS NodeClients

MCNames == {"in", "out", "x", "y"}
MCRank == [n \in MCNames |-> CASE n = "in" -> 1 [] n = "out" -> 2 [] n = "x" -> 3 [] n = "y" -> 4]
MCUnder == <<>>
MCClassPorts ==
  [c \in {"Ros", "Publisher", "Plain"} |->
    ("in" :> [dir |-> "in", default |-> "none"])
    @@ ("out" :> [dir |-> IF c = "Publisher" THEN "inout" ELSE "out", default |-> "short"])]
MCValueLength == [v \in {"short", "same", ""} |-> IF v = "same" THEN 0 ELSE -3]
MCTopics == {<<>>, <<<<"input", "in">>>>, <<<<"text", "ns">>, <<"input", "x">>>>}
Partial(S, T) == UNION {[D -> T] : D \in {E \in SUBSET S : Cardinality(E) <= 2}}
MCManifest(alias, hidden) == "base" :> [DefaultOptions EXCEPT !.class = "Ros", !.alias = alias, !.hidden = hidden]
MCEarlier == "own" :> MCManifest("in" :> "y", {"x"})
Mid(package) == [package |-> package, id |-> "own"]
\* No parent; one of this build, new or installed before with less hidden; one of
\* another package, named or not, alone or not; one that does not exist.
MCOld == MCManifest(<<>>, {"y"})
Parent(package, name) == [package |-> package, id |-> "own", node |-> name]
MCFamilies ==
  {<<NoParent, <<>>>>, <<Parent("pkg", "base"), <<>>>>, <<Parent("pkg", "base"), Mid("pkg") :> MCOld>>,
   <<Parent("", "base"), <<>>>>, <<Parent("", "base"), Mid("other") :> MCOld>>,
   <<Parent("", "base"), (Mid("other") :> MCOld) @@ (Mid("pkg") :> MCOld)>>,
   <<Parent("other", "base"), Mid("other") :> MCOld>>, <<Parent("pkg", "missing"), <<>>>>}
MCYaml ==
  {[class |-> c, alias |-> a, default |-> d] :
     c \in {"Ros", "Plain"}, a \in Partial({"in", "out"}, {"in", "x", "y"}), d \in Partial(MCNames, {"same"})}
  \cup {[alias |-> a] : a \in Partial({"in", "out"}, {"x"})}
  \cup {[class |-> "Ros", hidden |-> {"out"}], [class |-> "Ros", malformed |-> TRUE], [class |-> "Unbuilt"]}
\* Every way to rename and to fill ports, and every way to name a client.
MCNodes ==
  {[yaml |-> y, parent |-> f[1], installed |-> f[2], attributes |-> t, topic |-> <<>>, derived |-> "",
    allowUnreachable |-> FALSE] :
     y \in MCYaml, f \in MCFamilies, t \in Partial({"in", "x", "y"}, {"short", "pointer"})}
  \cup
  {[yaml |-> [class |-> c, alias |-> a], parent |-> NoParent, installed |-> <<>>, attributes |-> t, topic |-> p, derived |-> d,
    allowUnreachable |-> u] :
     c \in {"Ros", "Publisher"}, a \in {<<>>, "in" :> "x", "out" :> "x"}, t \in Partial({"in", "x"}, {"short", "pointer", ""}),
     p \in MCTopics, d \in {"", "in"}, u \in BOOLEAN}
=============================================================================
