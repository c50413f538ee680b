-------------------------- MODULE MCBuildRequests --------------------------
EXTENDS BuildRequests

MCLine(category, alias, trees, clash) ==
  [valid |-> TRUE, category |-> category, alias |-> alias, trees |-> trees, clash |-> clash]

\* Two trees of one file, a tree that its file lost, a behavior with the alias
\* of a tree and clashing manifests, one of two trees with the same name, a
\* mission, and a line without its six fields.
MCLines == {MCLine("tree", <<"f", "A">>, {"A", "B"}, FALSE),
            MCLine("tree", <<"f", "B">>, {"A", "B"}, FALSE),
            MCLine("tree", <<"h", "A">>, {"B"}, FALSE),
            MCLine("other", <<"f", "A">>, {"A"}, TRUE),
            MCLine("other", <<"f", "B">>, {"B"}, FALSE),
            MCLine("mission", <<"m">>, {}, FALSE),
            [MCLine("tree", <<"x">>, {}, FALSE) EXCEPT !.valid = FALSE]}

MCText(category, tokens) == [category |-> category, tokens |-> tokens]

MCTexts == {MCText("", <<"", "f", "A">>), MCText("", <<"p", "f", "A">>), MCText("", <<"", "f", "B">>),
            MCText("", <<"f", "B">>), MCText("other", <<"p", "f", "B">>), MCText("default", <<"q", "f", "B">>),
            MCText("tree", <<"", "h", "A">>), MCText("", <<"", "f", "", "A">>), MCText("", <<"f">>), MCText("", <<"q", "f">>), MCText("", <<"g">>), MCText("other", <<"">>)}

\* Node manifests: two that are fine, one that only Python reads, and a line
\* without its three fields.
MCManifestLine(id, valid, decodes) == [id |-> id, valid |-> valid, decodes |-> decodes, reads |-> TRUE]
MCManifestLines == {MCManifestLine(<<"f">>, TRUE, TRUE), MCManifestLine(<<"f", "B">>, TRUE, TRUE),
                    MCManifestLine(<<"g">>, TRUE, FALSE), MCManifestLine(<<"h">>, FALSE, TRUE)}

MCGoalTexts == {MCText("", <<"", "f", "A">>), MCText("", <<"p", "f", "B">>), MCText("", <<"m">>)}

\* Missions: one that is complete, one of several trees, one whose trees are not
\* all installed, none, and two that cannot be read.
MCValue(shape, items) == [shape |-> shape, items |-> items]
MCA == MCText("", <<"", "f", "A">>)
MCB == MCText("", <<"p", "f", "B">>)
MCMap(groups) == [kind |-> "map", groups |-> groups]
MCNone == [kind |-> "empty", groups |-> <<>>]
MCOther == [kind |-> "other", groups |-> <<>>]
MCComplete ==
  MCMap([MISSION |-> MCValue("sequence", <<<<MCB>>>>), BRINGUP |-> MCValue("sequence", <<<<MCA>>>>),
         SHUTDOWN |-> MCValue("null", <<>>), EMERGENCY |-> MCValue("map", <<<<MCA, MCB>>>>)])
MCSeveral == MCMap([MISSION |-> MCValue("sequence", <<<<MCB>>, <<MCA>>>>)])
MCIncomplete == MCMap([MISSION |-> MCValue("sequence", <<<<MCText("", <<"", "h", "A">>)>>>>)])
MCNoTreeName == MCMap([MISSION |-> MCValue("sequence", <<<<MCText("", <<"f">>)>>>>)])
MCConfigTexts == {MCNone, MCOther, MCComplete, MCSeveral, MCIncomplete, MCNoTreeName}
MCConfigOf == [line \in Lines |-> IF line.category = "mission" THEN MCComplete ELSE MCOther]

MCDocument(readable, verified, trees, root) ==
  [readable |-> readable, verified |-> verified, trees |-> trees, root |-> root]

\* One executor finds nothing, one the trees of a file and a mission.
MCDeployments ==
  {[p \in Packages |-> {}],
   [p \in Packages |-> IF p = "p" THEN {MCLine("tree", <<"f", t>>, {"A", "B"}, FALSE) : t \in {"A", "B"}}
                                     \union {MCLine("mission", <<"m">>, {}, FALSE)} ELSE {}]}

MCDocuments == {MCDocument(TRUE, TRUE, {"A"}, NoTree), MCDocument(TRUE, TRUE, {"A", "B"}, NoTree),
                MCDocument(TRUE, TRUE, {"A", "B"}, "A"), MCDocument(TRUE, FALSE, {"B"}, "B")}

MCEntryPoints == {[wellFormed |-> TRUE, tree |-> "B", values |-> {"x=1"}],
                  [wellFormed |-> FALSE, tree |-> "A", values |-> {}]}
============================================================================
