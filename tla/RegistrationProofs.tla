-------------------------- MODULE RegistrationProofs --------------------------
(***************************************************************************)
(* What a node is registered with, whatever files, manifests and packages  *)
(* there are: the documents that register it, and the way of one node from *)
(* its entry in a package to its client.                                   *)
(*                                                                         *)
(* The inductive invariant of the documents is on one document: its trees  *)
(* are a sequence, and its factory agrees with its manifest.  Operations   *)
(* are composed of others, so the work is in showing that each only adds   *)
(* to a document; the loops over trees and includes are unfolded, and      *)
(* reading a file that includes others is shown to end.                    *)
(*                                                                         *)
(* For the references between trees, the trees of a document are seen as a *)
(* set: every merge is shown to add the trees it is given (Carries) and to *)
(* leave no more references open than those have, and what is cherry-      *)
(* picked is shown to be closed.  For the order of includes, their inline  *)
(* options are seen as a set that fits a registry or not.                  *)
(*                                                                         *)
(* The invariant of one node says what its build and its client have come  *)
(* to, phase by phase; its ports are followed through the loops over       *)
(* aliases and defaults.                                                   *)
(***************************************************************************)
EXTENDS DocumentEditing, NodeClients, FiniteSetTheorems, WellFoundedInduction, TLAPS

-----------------------------------------------------------------------------
(***************************************************************************)
(* Sequences that are gone through step by step.                           *)
(***************************************************************************)
\* Induction, for a set of numbers.
LEMMA NatSetInduction ==
  ASSUME NEW S, 0 \in S, \A n \in Nat : n \in S => n + 1 \in S
  PROVE  Nat \subseteq S
<1> DEFINE R == OpToRel(<, Nat)
           T == Nat \ S
<1>1. ASSUME T # {} PROVE FALSE
  <2>1. IsWellFoundedOn(R, Nat)
    BY NatLessThanWellFounded
  <2>2. \A x, y \in Nat : x < y => <<x, y>> \in R
    BY DEF OpToRel
  <2> HIDE DEF R
  <2>3. T \subseteq Nat /\ T # {}
    BY <1>1
  <2>4. PICK x \in T : \A y \in T : <<y, x>> \notin R
    <3> HIDE DEF T
    <3>1. QED
      BY <2>1, <2>3, WFMin
  <2>5. x \in Nat /\ x # 0 /\ x - 1 \in Nat /\ x - 1 < x /\ x - 1 + 1 = x
    BY <2>4
  <2>6. x - 1 \in S
    BY <2>2, <2>4, <2>5
  <2>7. x \in S
    BY <2>5, <2>6
  <2>8. QED
    BY <2>4, <2>7
<1>2. QED
  BY <1>1

IsSequence(s) == \E E : s \in Seq(E)

\* t goes on where s ends.
Continues(s, t) == Len(s) <= Len(t) /\ \A i \in 1..Len(s) : t[i] = s[i]

LEMMA Appended ==
  ASSUME NEW s, IsSequence(s), NEW e
  PROVE  IsSequence(Append(s, e)) /\ Continues(s, Append(s, e))
<1>1. PICK E : s \in Seq(E)
  BY DEF IsSequence
<1>2. s \in Seq(E \cup {e}) /\ e \in E \cup {e}
  BY <1>1
<1>3. Append(s, e) \in Seq(E \cup {e})
  BY <1>2
<1>4. QED
  BY <1>1, <1>3 DEF IsSequence, Continues

LEMMA LengthIsNat == ASSUME NEW s, IsSequence(s) PROVE Len(s) \in Nat /\ DOMAIN s = 1..Len(s)
BY DEF IsSequence

LEMMA ContinuesStays ==
  ASSUME NEW s, IsSequence(s) PROVE Continues(s, s)
BY LengthIsNat DEF Continues

LEMMA ContinuesOn ==
  ASSUME NEW s, NEW t, NEW u, IsSequence(s), IsSequence(t), IsSequence(u), Continues(s, t), Continues(t, u)
  PROVE  Continues(s, u)
BY LengthIsNat DEF Continues

LEMMA ContinuesIsPrefix ==
  ASSUME NEW s, NEW t, IsSequence(s), IsSequence(t), Continues(s, t) PROVE IsPrefix(s, t)
<1>1. PICK E : s \in Seq(E)
  BY DEF IsSequence
<1>2. PICK F : t \in Seq(F)
  BY DEF IsSequence
<1>3. Len(s) \in Nat /\ Len(t) \in Nat /\ Len(s) <= Len(t) /\ \A i \in 1..Len(s) : t[i] = s[i]
  BY <1>1, <1>2 DEF Continues
<1>4. SubSeq(s, 1, Len(s)) = SubSeq(t, 1, Len(s))
  BY <1>1, <1>2, <1>3
<1>5. QED
  BY <1>3, <1>4 DEF IsPrefix

\* Positions of a sequence make a sequence.
LEMMA TreesAtFacts ==
  ASSUME NEW trees, IsSequence(trees), NEW kept, kept \subseteq DOMAIN trees
  PROVE  IsSequence(TreesAt(trees, kept))
<1>1. IsFiniteSet(1..Len(trees)) /\ DOMAIN trees = 1..Len(trees)
  BY LengthIsNat, FS_Interval
<1>2. Cardinality(kept) \in Nat
  BY <1>1, FS_Subset, FS_CardinalityType
<1> DEFINE chosen(i) == trees[CHOOSE k \in kept : Cardinality({j \in kept : j <= k}) = i]
           E == {chosen(i) : i \in 1..Cardinality(kept)}
<1>3. TreesAt(trees, kept) = [i \in 1..Cardinality(kept) |-> chosen(i)]
  BY DEF TreesAt
<1>4. \A i \in 1..Cardinality(kept) : chosen(i) \in E
  OBVIOUS
<1> HIDE DEF chosen, E
<1>5. TreesAt(trees, kept) \in Seq(E)
  BY <1>2, <1>3, <1>4
<1>6. QED
  BY <1>5 DEF IsSequence

-----------------------------------------------------------------------------
(***************************************************************************)
(* The registry.                                                           *)
(***************************************************************************)
IsMap(f) == f = [k \in DOMAIN f |-> f[k]]

\* Manifest and factory agree, unless a namespace has parted them.
IsPair(reg) == reg = [manifest |-> reg.manifest, factory |-> reg.factory]

IsRegistry(reg) ==
  /\ IsPair(reg)
  /\ ~parted => reg.factory = reg.manifest /\ IsMap(reg.manifest)

\* Every node is what it was.
Keeps(old, new) ==
  \A n \in DOMAIN old.manifest : n \in DOMAIN new.manifest /\ new.manifest[n] = old.manifest[n]

LEMMA KeepsOn == \A a, b, c : Keeps(a, b) /\ Keeps(b, c) => Keeps(a, c)
BY DEF Keeps

LEMMA OverFacts ==
  ASSUME NEW f, NEW g
  PROVE  /\ IsMap(Over(f, g)) /\ DOMAIN Over(f, g) = DOMAIN f \cup DOMAIN g
         /\ \A k \in DOMAIN g : k \notin DOMAIN f => Over(f, g)[k] = g[k]
BY DEF Over, IsMap

LEMMA RegisterFacts ==
  ASSUME NEW reg, IsRegistry(reg), NEW m, NEW override
  PROVE  LET r == RegisterNodes(reg, m, override)
         IN  IsRegistry(r.reg) /\ (~override => Keeps(reg, r.reg))
<1>1. CASE DOMAIN m \cap Native # {}
  <2>1. RegisterNodes(reg, m, override) = [ok |-> FALSE, reg |-> reg]
    BY <1>1 DEF RegisterNodes
  <2>2. QED
    BY <2>1 DEF Keeps
<1>2. CASE DOMAIN m \cap Native = {}
  <2>1. PICK F : RegisterNodes(reg, m, override) = RegisteredUntil(reg, m, F, override)
    BY <1>2 DEF RegisterNodes
  <2> DEFINE out == IF override THEN Registered(reg) \cap (HandledBefore(DOMAIN m, F) \cup FailedAt(F)) ELSE {}
             new == {n \in HandledBefore(DOMAIN m, F) : override \/ n \notin Registered(reg)}
             left == Restrict(reg.manifest, DOMAIN reg.manifest \ out)
             built == Restrict(reg.factory, DOMAIN reg.factory \ out)
             added == Restrict(m, new)
  <2>2. RegisterNodes(reg, m, override).reg = PutIn(TakenOut(reg, out), added)
    BY <2>1 DEF RegisteredUntil
  <2>3. ~override => out = {} /\ \A n \in new : n \notin DOMAIN reg.manifest
    BY DEF Registered
  <2>4. TakenOut(reg, out) = [manifest |-> left, factory |-> built] /\ (~parted => built = left)
    BY DEF TakenOut, IsRegistry
  <2>5. DOMAIN left = DOMAIN reg.manifest \ out /\ \A n \in DOMAIN left : left[n] = reg.manifest[n]
    BY DEF Restrict
  <2>6. DOMAIN added = new
    BY DEF Restrict
  <2> HIDE DEF out, new, left, built, added
  <2>7. PutIn(TakenOut(reg, out), added) = [manifest |-> Over(added, left), factory |-> Over(added, built)]
    BY <2>4 DEF PutIn
  <2> DEFINE whole == Over(added, left)
  <2>8. /\ IsMap(whole) /\ DOMAIN whole = DOMAIN added \cup DOMAIN left
        /\ \A k \in DOMAIN left : k \notin DOMAIN added => whole[k] = left[k]
    BY OverFacts
  <2> HIDE DEF whole
  <2>9. IsRegistry(RegisterNodes(reg, m, override).reg)
    <3>1. /\ RegisterNodes(reg, m, override).reg = [manifest |-> whole, factory |-> Over(added, built)]
          /\ ~parted => Over(added, built) = whole
      BY <2>2, <2>4, <2>7 DEF whole
    <3>2. QED
      BY <3>1, <2>8 DEF IsRegistry, IsPair
  <2>10. ASSUME ~override PROVE Keeps(reg, RegisterNodes(reg, m, override).reg)
    <3>1. \A n \in DOMAIN reg.manifest : n \in DOMAIN left /\ n \notin DOMAIN added
      BY <2>3, <2>5, <2>6, <2>10
    <3>2. \A n \in DOMAIN reg.manifest : n \in DOMAIN whole /\ whole[n] = reg.manifest[n]
      BY <2>5, <2>8, <3>1
    <3>3. RegisterNodes(reg, m, override).reg.manifest = whole
      BY <2>2, <2>7 DEF whole
    <3>4. QED
      BY <3>2, <3>3 DEF Keeps
  <2>11. QED
    BY <2>9, <2>10
<1>3. QED
  BY <1>1, <1>2

LEMMA NoNodesFacts == IsRegistry(NoNodes)
<1>1. IsMap(<<>>)
  BY DEF IsMap
<1>2. QED
  BY <1>1 DEF NoNodes, Empty, IsRegistry, IsPair

LEMMA ResetFacts ==
  ASSUME NEW reg, IsRegistry(reg) PROVE IsRegistry(ResetNodes(reg))
<1> DEFINE r == ResetNodes(reg)
           built == Restrict(reg.factory, DOMAIN reg.factory \ DOMAIN reg.manifest)
<1>1. r = [manifest |-> <<>>, factory |-> built]
  BY DEF ResetNodes, TakenOut, Registered, Empty
<1>2. ~parted => built = <<>>
  BY DEF Restrict, IsRegistry
<1>3. IsMap(<<>>)
  BY DEF IsMap
<1> HIDE DEF r, built
<1>4. IsRegistry(r)
  BY <1>1, <1>2, <1>3 DEF IsRegistry, IsPair
<1>5. QED
  BY <1>4 DEF r

\* A namespace that does not throw moves all builders.
LEMMA NamespaceFacts ==
  ASSUME NEW reg, IsRegistry(reg)
  PROVE  /\ IsPair(NamespaceNodes(reg).reg)
         /\ NamespaceNodes(reg).ok => IsRegistry(NamespaceNodes(reg).reg)
<1> DEFINE old == DOMAIN reg.manifest
           clash == {n \in old : Under[n] \in DOMAIN reg.factory /\ ~(Under[n] \in old /\ Rank[Under[n]] < Rank[n])}
           named == Namespaced(reg.manifest)
           builders == MovedBuilders(reg).factory
<1>1. NamespaceNodes(reg).reg = [manifest |-> named, factory |-> builders]
  BY DEF NamespaceNodes, ApplyNamespace
<1>0. NamespaceNodes(reg).ok => clash = {}
  BY DEF NamespaceNodes, MovedBuilders, Registered
<1>2. IsMap(named)
  BY DEF Namespaced, IsMap
<1>3. ASSUME ~parted, NamespaceNodes(reg).ok PROVE builders = named
  <2>1. clash = {} /\ DOMAIN reg.factory = old
    BY <1>0, <1>3 DEF IsRegistry
  <2>2. HandledBefore(old, {}) = old /\ FailedAt({}) = {}
    BY DEF HandledBefore, FailedAt
  <2>3. builders = Over(Namespaced(Restrict(reg.factory, old)), Restrict(reg.factory, old \ old))
    <3>1. MovedBuilders(reg) =
            LET moved == HandledBefore(old, clash)
                gone == moved \cup FailedAt(clash)
            IN  IF ~(old \subseteq DOMAIN reg.factory) THEN [ok |-> FALSE, factory |-> reg.factory]
                ELSE [ok |-> clash = {},
                      factory |-> Over(Namespaced(Restrict(reg.factory, moved)),
                                       Restrict(reg.factory, DOMAIN reg.factory \ gone))]
      BY DEF MovedBuilders, Registered
    <3> HIDE DEF clash
    <3>2. QED
      BY <2>1, <2>2, <3>1
  <2>4. Restrict(reg.factory, old) = reg.manifest
    BY <1>3 DEF IsRegistry, IsMap, Restrict
  <2>5. DOMAIN Restrict(reg.factory, old \ old) = {}
    BY DEF Restrict
  <2> HIDE DEF named, builders
  <2>6. Over(named, Restrict(reg.factory, old \ old)) = named
    BY <1>2, <2>5 DEF Over, IsMap
  <2>7. QED
    BY <2>3, <2>4, <2>6 DEF named
<1> HIDE DEF named, builders
<1>4. QED
  BY <1>1, <1>2, <1>3 DEF IsRegistry, IsPair

-----------------------------------------------------------------------------
(***************************************************************************)
(* Documents, and operations that only add to them.                        *)
(***************************************************************************)
IsDoc(d) ==
  /\ d = [trees |-> d.trees, root |-> d.root, reg |-> d.reg]
  /\ IsSequence(d.trees)
  /\ IsRegistry(d.reg)

\* A document of which nothing is known about the registry.
IsShaped(d) ==
  /\ d = [trees |-> d.trees, root |-> d.root, reg |-> d.reg]
  /\ IsSequence(d.trees)
  /\ IsPair(d.reg)

\* e is what d was, and perhaps more.
Grown(d, e) == IsDoc(e) /\ Keeps(d.reg, e.reg) /\ Continues(d.trees, e.trees)

LEMMA GrownStays == ASSUME NEW d, IsDoc(d) PROVE Grown(d, d)
BY ContinuesStays DEF Grown, IsDoc, Keeps

LEMMA GrownOn ==
  ASSUME NEW d, NEW e, NEW f, IsDoc(d), Grown(d, e), Grown(e, f) PROVE Grown(d, f)
BY KeepsOn, ContinuesOn DEF Grown, IsDoc

LEMMA EmptyFacts == IsDoc(EmptyDoc)
<1>1. IsSequence(<<>>)
  BY DEF IsSequence
<1>2. EmptyDoc = [trees |-> <<>>, root |-> NoTree, reg |-> NoNodes]
  BY DEF EmptyDoc
<1> HIDE DEF EmptyDoc
<1>3. QED
  BY <1>1, <1>2, NoNodesFacts DEF IsDoc

LEMMA WithNodesFacts ==
  ASSUME NEW d, IsDoc(d), NEW m, NEW override
  PROVE  LET r == WithNodes(d, m, override)
         IN  IsDoc(r.doc) /\ (~override => Grown(d, r.doc))
<1> DEFINE reg == RegisterNodes(d.reg, m, override).reg
           e == WithNodes(d, m, override).doc
<1>1. e = [d EXCEPT !.reg = reg]
  BY DEF WithNodes, WithRegistry
<1>2. IsRegistry(reg) /\ (~override => Keeps(d.reg, reg))
  BY RegisterFacts DEF IsDoc
<1> HIDE DEF reg
<1>3. e = [trees |-> d.trees, root |-> d.root, reg |-> reg]
  BY <1>1 DEF IsDoc
<1> HIDE DEF e
<1>4. IsDoc(e)
  BY <1>2, <1>3 DEF IsDoc
<1>5. ~override => Grown(d, e)
  BY <1>2, <1>3, <1>4, ContinuesStays DEF IsDoc, Grown
<1>6. QED
  BY <1>4, <1>5 DEF e

LEMMA AppendedFacts ==
  ASSUME NEW d, IsDoc(d), NEW tree
  PROVE  Grown(d, [d EXCEPT !.trees = Append(@, tree)])
<1> DEFINE e == [d EXCEPT !.trees = Append(@, tree)]
<1>1. e = [trees |-> Append(d.trees, tree), root |-> d.root, reg |-> d.reg]
  <2>1. d = [trees |-> d.trees, root |-> d.root, reg |-> d.reg]
    BY DEF IsDoc
  <2>2. QED
    BY <2>1, SMTT(30)
<1>2. IsSequence(Append(d.trees, tree)) /\ Continues(d.trees, Append(d.trees, tree))
  BY Appended DEF IsDoc
<1> HIDE DEF e
<1>3. QED
  BY <1>1, <1>2 DEF IsDoc, Grown, Keeps, e

LEMMA AppendTreeFacts ==
  ASSUME NEW d, IsDoc(d), NEW tree, NEW verify
  PROVE  Grown(d, AppendTree(d, tree, verify).doc)
<1> DEFINE inline == InlineOptions(d.reg, FirstChild(tree.nodes))
           known == WithNodes(d, inline.map, FALSE)
           e == [known.doc EXCEPT !.trees = Append(@, tree)]
<1>1. AppendTree(d, tree, verify) \in {Thrown(d), known, Ok(e)}
  BY DEF AppendTree, Then
<1>2. Grown(d, d) /\ Grown(d, known.doc)
  BY GrownStays, WithNodesFacts
<1>3. Grown(d, e)
  <2> HIDE DEF known
  <2>1. IsDoc(known.doc)
    BY <1>2 DEF Grown
  <2>2. QED
    BY <1>2, <2>1, AppendedFacts, GrownOn
<1> HIDE DEF known, e
<1>4. QED
  BY <1>1, <1>2, <1>3 DEF Thrown, Ok

\* What a loop over the elements of a sequence has done after some of them.
LEMMA AppendTreesUnfolds ==
  ASSUME NEW d, NEW trees, IsSequence(trees), NEW verify
  PROVE  \E after : /\ after[0] = Ok(d)
                    /\ \A n \in 1..Len(trees) :
                         after[n] = IF after[n - 1].ok THEN AppendTree(after[n - 1].doc, trees[n], verify)
                                    ELSE after[n - 1]
                    /\ AppendTrees(d, trees, verify) = after[Len(trees)]
<1> DEFINE Step(r, e) == IF r.ok THEN AppendTree(r.doc, e, verify) ELSE r
           Is(f, n) == f = [m \in 0..n |-> IF m = 0 THEN Ok(d) ELSE Step(f[m - 1], trees[m])]
           S == {n \in Nat : \E f : Is(f, n)}
           N == Len(trees)
<1>0. N \in Nat
  BY LengthIsNat
<1>1. AppendTrees(d, trees, verify) = (CHOOSE f : Is(f, N))[N]
  BY DEF AppendTrees, ForEach
<1> HIDE DEF Step, N
<1>2. 0 \in S
  <2>1. Is([m \in 0..0 |-> Ok(d)], 0)
    OBVIOUS
  <2>2. \E f : Is(f, 0)
    BY <2>1
  <2>3. QED
    BY <2>2
<1>3. ASSUME NEW n \in Nat, n \in S PROVE n + 1 \in S
  <2>1. PICK f : Is(f, n)
    BY <1>3
  <2> DEFINE g == [m \in 0..(n + 1) |-> IF m = n + 1 THEN Step(f[n], trees[n + 1]) ELSE f[m]]
  <2>2. ASSUME NEW m \in 0..(n + 1) PROVE g[m] = IF m = 0 THEN Ok(d) ELSE Step(g[m - 1], trees[m])
    BY <2>1
  <2>3. Is(g, n + 1)
    BY <2>2
  <2>4. \E h : Is(h, n + 1)
    BY <2>3
  <2>5. QED
    BY <2>4
<1>4. Nat \subseteq S
  <2> HIDE DEF S
  <2>1. QED
    BY <1>2, <1>3, NatSetInduction
<1>5. \E f : Is(f, N)
  BY <1>0, <1>4
<1> DEFINE after == CHOOSE f : Is(f, N)
<1>6. Is(after, N)
  BY <1>5
<1>7. AppendTrees(d, trees, verify) = after[N]
  BY <1>1
<1> HIDE DEF after
<1>8. after[0] = Ok(d) /\ \A n \in 1..N : after[n] = Step(after[n - 1], trees[n])
  BY <1>0, <1>6
<1>9. QED
  BY <1>7, <1>8 DEF Step, N

LEMMA AppendTreesFacts ==
  ASSUME NEW d, IsDoc(d), NEW trees, IsSequence(trees), NEW verify
  PROVE  Grown(d, AppendTrees(d, trees, verify).doc)
<1>1. PICK after : /\ after[0] = Ok(d)
                   /\ \A n \in 1..Len(trees) :
                        after[n] = IF after[n - 1].ok THEN AppendTree(after[n - 1].doc, trees[n], verify)
                                   ELSE after[n - 1]
                   /\ AppendTrees(d, trees, verify) = after[Len(trees)]
  BY AppendTreesUnfolds
<1> DEFINE S == {n \in Nat : n <= Len(trees) => Grown(d, after[n].doc)}
<1>2. Len(trees) \in Nat
  BY LengthIsNat
<1>3. 0 \in S
  BY <1>1, GrownStays DEF Ok
<1>4. ASSUME NEW n \in Nat, n \in S PROVE n + 1 \in S
  <2> SUFFICES ASSUME n + 1 <= Len(trees) PROVE Grown(d, after[n + 1].doc)
    OBVIOUS
  <2> DEFINE next == AppendTree(after[n].doc, trees[n + 1], verify)
  <2>1. Grown(d, after[n].doc)
    BY <1>2, <1>4
  <2>2. after[n + 1] = IF after[n].ok THEN next ELSE after[n]
    <3>1. n + 1 \in 1..Len(trees) /\ (n + 1) - 1 = n
      BY <1>2
    <3>2. QED
      BY <1>1, <3>1
  <2>3. Grown(d, next.doc)
    <3>1. IsDoc(after[n].doc)
      BY <2>1 DEF Grown
    <3>2. Grown(after[n].doc, next.doc)
      BY <3>1, AppendTreeFacts
    <3> HIDE DEF next
    <3>3. QED
      BY <2>1, <3>1, <3>2, GrownOn
  <2> HIDE DEF next
  <2>4. QED
    BY <2>1, <2>2, <2>3
<1>5. Nat \subseteq S
  <2> HIDE DEF S
  <2>1. QED
    BY <1>3, <1>4, NatSetInduction
<1>6. QED
  BY <1>1, <1>2, <1>5

LEMMA WithRootFacts ==
  ASSUME NEW d, IsDoc(d), NEW name
  PROVE  Grown(d, WithRoot(d, name).doc) /\ WithRoot(d, name).doc.trees = d.trees
<1>1. WithRoot(d, name).doc \in {d, [d EXCEPT !.root = name]}
  BY DEF WithRoot, Ok, Thrown
<1>2. [d EXCEPT !.root = name] = [trees |-> d.trees, root |-> name, reg |-> d.reg]
  BY DEF IsDoc
<1> DEFINE e == [d EXCEPT !.root = name]
<1>3. WithRoot(d, name).doc \in {d, e} /\ e = [trees |-> d.trees, root |-> name, reg |-> d.reg]
  BY <1>1, <1>2
<1> HIDE DEF e
<1>4. IsDoc(e)
  BY <1>3 DEF IsDoc
<1>5. Grown(d, e) /\ e.trees = d.trees
  BY <1>3, <1>4, ContinuesStays DEF Grown, Keeps, IsDoc
<1>6. QED
  BY <1>3, <1>5, GrownStays

LEMMA AdoptRootFacts ==
  ASSUME NEW d, IsDoc(d), NEW xml PROVE Grown(d, AdoptRoot(d, xml).doc)
<1> DEFINE first == IF xml.root = NoTree THEN Ok(d) ELSE WithRoot(d, xml.root)
<1>1. AdoptRoot(d, xml) \in {first, WithRoot(first.doc, xml.trees[1].name), Ok(first.doc)}
  BY DEF AdoptRoot, Then
<1>2. Grown(d, first.doc)
  BY GrownStays, WithRootFacts DEF Ok
<1> HIDE DEF first
<1> DEFINE second == WithRoot(first.doc, xml.trees[1].name)
<1>3. Grown(d, second.doc)
  <2>1. IsDoc(first.doc)
    BY <1>2 DEF Grown
  <2>2. Grown(first.doc, second.doc)
    BY <2>1, WithRootFacts
  <2> HIDE DEF second
  <2>3. QED
    BY <1>2, <2>1, <2>2, GrownOn
<1> HIDE DEF second
<1>4. AdoptRoot(d, xml) \in {first, second, Ok(first.doc)}
  BY <1>1 DEF second
<1>5. QED
  BY <1>2, <1>3, <1>4 DEF Ok

LEMMA MergeXmlFacts ==
  ASSUME NEW d, IsDoc(d), NEW xml, IsSequence(xml.trees), NEW buffer, IsSequence(buffer.doc.trees), NEW adopt
  PROVE  Grown(d, MergeXml(d, xml, buffer, adopt).doc)
<1>1. ASSUME NEW e, IsDoc(e) PROVE Grown(e, MergeDirect(e, xml, adopt).doc)
  <2> DEFINE all == AppendTrees(e, xml.trees, TRUE)
             rooted == AdoptRoot(all.doc, xml)
  <2>1. MergeDirect(e, xml, adopt) \in {Thrown(e), all, Ok(all.doc), rooted}
    BY DEF MergeDirect, Then
  <2>2. Grown(e, all.doc)
    BY <1>1, AppendTreesFacts
  <2>3. Grown(e, rooted.doc)
    <3> HIDE DEF all
    <3>1. IsDoc(all.doc)
      BY <2>2 DEF Grown
    <3>2. Grown(all.doc, rooted.doc)
      BY <3>1, AdoptRootFacts
    <3> HIDE DEF rooted
    <3>3. QED
      BY <1>1, <2>2, <3>2, GrownOn
  <2> HIDE DEF all, rooted
  <2>4. QED
    BY <1>1, <2>1, <2>2, <2>3, GrownStays DEF Ok, Thrown
<1> DEFINE included == AppendTrees(d, buffer.doc.trees, FALSE)
           merged == MergeDirect(included.doc, xml, adopt)
<1>2. MergeXml(d, xml, buffer, adopt) \in {Thrown(d), included, merged}
  BY DEF MergeXml, Then
<1>3. Grown(d, included.doc)
  BY AppendTreesFacts
<1>4. Grown(d, merged.doc)
  <2> HIDE DEF included
  <2>1. IsDoc(included.doc)
    BY <1>3 DEF Grown
  <2>2. Grown(included.doc, merged.doc)
    BY <1>1, <2>1
  <2> HIDE DEF merged
  <2>3. QED
    BY <1>3, <2>2, GrownOn
<1> HIDE DEF included, merged
<1>5. QED
  BY <1>2, <1>3, <1>4, GrownStays DEF Thrown

-----------------------------------------------------------------------------
(***************************************************************************)
(* Reading files that include others.                                      *)
(***************************************************************************)
LEMMA ReplacedFacts ==
  ASSUME NEW d, IsDoc(d), NEW trees, IsSequence(trees), NEW e, e = [d EXCEPT !.trees = trees]
  PROVE  IsDoc(e) /\ e.reg = d.reg /\ e.trees = trees
<1>1. e = [trees |-> trees, root |-> d.root, reg |-> d.reg]
  BY DEF IsDoc
<1>2. QED
  BY <1>1 DEF IsDoc

LEMMA PickFacts ==
  ASSUME NEW d, IsDoc(d), NEW name PROVE IsDoc(Pick(d, name))
<1> DEFINE kept == {i \in DOMAIN d.trees : d.trees[i].name \in Closure(d.trees, {name})}
           picked == TreesAt(d.trees, kept)
           e == [d EXCEPT !.trees = picked]
<1>1. Pick(d, name) = IF name = NoTree THEN d ELSE e
  BY DEF Pick
<1>2. IsSequence(picked)
  <2>1. IsSequence(d.trees) /\ kept \subseteq DOMAIN d.trees
    BY DEF IsDoc
  <2> HIDE DEF kept
  <2>2. QED
    BY <2>1, TreesAtFacts
<1> HIDE DEF picked
<1>3. IsDoc(e)
  BY <1>2, ReplacedFacts
<1>4. QED
  BY <1>1, <1>3

LEMMA DropSharedFacts ==
  ASSUME NEW d, IsDoc(d), NEW buffer PROVE IsDoc(DropShared(d, buffer))
<1> DEFINE Shared(tree) == HasTree(buffer, tree.name) /\ GetTree(buffer, tree.name) = tree
           kept == {i \in DOMAIN d.trees : ~Shared(d.trees[i])}
           left == TreesAt(d.trees, kept)
           e == [d EXCEPT !.trees = left]
<1>1. DropShared(d, buffer) = e
  BY DEF DropShared
<1>2. IsSequence(left)
  <2>1. IsSequence(d.trees) /\ kept \subseteq DOMAIN d.trees
    BY DEF IsDoc
  <2> HIDE DEF kept
  <2>2. QED
    BY <2>1, TreesAtFacts
<1> HIDE DEF left
<1>3. IsDoc(e)
  BY <1>2, ReplacedFacts
<1>4. QED
  BY <1>1, <1>3

LEMMA XmlOfFacts ==
  /\ \A d : IsDoc(d) => IsSequence(XmlOf(d).trees)
  /\ \A tree : IsSequence(XmlOfTree(tree).trees)
  /\ IsSequence(Ok(EmptyDoc).doc.trees)
<1>1. \A d : XmlOf(d).trees = d.trees
  BY DEF XmlOf
<1>2. ASSUME NEW tree PROVE IsSequence(XmlOfTree(tree).trees)
  <2>1. XmlOfTree(tree).trees = <<tree>>
    BY DEF XmlOfTree
  <2>2. <<tree>> \in Seq({tree})
    OBVIOUS
  <2>3. QED
    BY <2>1, <2>2 DEF IsSequence
<1>3. Ok(EmptyDoc).doc = EmptyDoc
  BY DEF Ok
<1>4. QED
  BY <1>1, <1>2, <1>3, EmptyFacts DEF IsDoc

LEMMA IncludeFacts ==
  ASSUME NEW buffer, IsDoc(buffer), NEW work, IsDoc(work.doc), NEW pick
  PROVE  Grown(buffer, Include(buffer, work, pick).doc)
<1> DEFINE picked == Pick(work.doc, pick)
           left == DropShared(picked, buffer)
           xml == XmlOf(left)
           merged == MergeXml(buffer, xml, Ok(EmptyDoc), FALSE)
<1>1. Include(buffer, work, pick) \in {Thrown(buffer), merged}
  BY DEF Include
<1>2. IsDoc(picked)
  BY PickFacts
<1> HIDE DEF picked
<1>3. IsDoc(left)
  BY <1>2, DropSharedFacts
<1> HIDE DEF left
<1>4. IsSequence(xml.trees) /\ IsSequence(Ok(EmptyDoc).doc.trees)
  BY <1>3, XmlOfFacts
<1> HIDE DEF xml
<1>5. Grown(buffer, merged.doc)
  BY <1>4, MergeXmlFacts
<1> HIDE DEF merged
<1>6. QED
  BY <1>1, <1>5, GrownStays DEF Thrown

LEMMA IncludeBufferUnfolds ==
  ASSUME NEW includes, IsSequence(includes), NEW work
  PROVE  \E after : /\ after[0] = Ok(EmptyDoc)
                    /\ \A n \in 1..Len(includes) :
                         after[n] = IF after[n - 1].ok
                                    THEN Include(after[n - 1].doc, work[includes[n].file], includes[n].tree)
                                    ELSE after[n - 1]
                    /\ IncludeBuffer(includes, work) = after[Len(includes)]
<1> DEFINE Step(r, e) == IF r.ok THEN Include(r.doc, work[e.file], e.tree) ELSE r
           Is(f, n) == f = [m \in 0..n |-> IF m = 0 THEN Ok(EmptyDoc) ELSE Step(f[m - 1], includes[m])]
           S == {n \in Nat : \E f : Is(f, n)}
           N == Len(includes)
<1>0. N \in Nat
  BY LengthIsNat
<1>1. IncludeBuffer(includes, work) = (CHOOSE f : Is(f, N))[N]
  BY DEF IncludeBuffer, ForEach
<1> HIDE DEF Step, N
<1>2. 0 \in S
  <2>1. Is([m \in 0..0 |-> Ok(EmptyDoc)], 0)
    OBVIOUS
  <2>2. \E f : Is(f, 0)
    BY <2>1
  <2>3. QED
    BY <2>2
<1>3. ASSUME NEW n \in Nat, n \in S PROVE n + 1 \in S
  <2>1. PICK f : Is(f, n)
    BY <1>3
  <2> DEFINE g == [m \in 0..(n + 1) |-> IF m = n + 1 THEN Step(f[n], includes[n + 1]) ELSE f[m]]
  <2>2. ASSUME NEW m \in 0..(n + 1) PROVE g[m] = IF m = 0 THEN Ok(EmptyDoc) ELSE Step(g[m - 1], includes[m])
    BY <2>1
  <2>3. Is(g, n + 1)
    BY <2>2
  <2>4. \E h : Is(h, n + 1)
    BY <2>3
  <2>5. QED
    BY <2>4
<1>4. Nat \subseteq S
  <2> HIDE DEF S
  <2>1. QED
    BY <1>2, <1>3, NatSetInduction
<1>5. \E f : Is(f, N)
  BY <1>0, <1>4
<1> DEFINE after == CHOOSE f : Is(f, N)
<1>6. Is(after, N)
  BY <1>5
<1>7. IncludeBuffer(includes, work) = after[N]
  BY <1>1
<1> HIDE DEF after
<1>8. after[0] = Ok(EmptyDoc) /\ \A n \in 1..N : after[n] = Step(after[n - 1], includes[n])
  BY <1>0, <1>6
<1>9. QED
  BY <1>7, <1>8 DEF Step, N

\* What has been read of every file.
AllRead(work) == \A f \in Files : IsDoc(work[f].doc)

LEMMA IncludeBufferFacts ==
  ASSUME NEW f \in DOMAIN Content, NEW work, AllRead(work)
  PROVE  IsDoc(IncludeBuffer(Content[f].includes, work).doc)
<1> DEFINE includes == Content[f].includes
<1>1. IsSequence(includes) /\ \A n \in 1..Len(includes) : includes[n].file \in Files
  <2> DEFINE T == {inc.tree : inc \in Range(includes)}
             Inclusion == [file : Files, tree : T]
  <2>1. includes \in Seq(Inclusion) /\ \A inc \in Inclusion : inc.file \in Files
    BY ContentAssumption
  <2> HIDE DEF includes, Inclusion
  <2>2. IsSequence(includes)
    BY <2>1 DEF IsSequence
  <2>3. ASSUME NEW n \in 1..Len(includes) PROVE includes[n].file \in Files
    <3>1. includes[n] \in Inclusion
      BY <2>1
    <3>2. QED
      BY <2>1, <3>1
  <2>4. QED
    BY <2>2, <2>3
<1> HIDE DEF includes
<1>2. PICK after : /\ after[0] = Ok(EmptyDoc)
                   /\ \A n \in 1..Len(includes) :
                        after[n] = IF after[n - 1].ok
                                   THEN Include(after[n - 1].doc, work[includes[n].file], includes[n].tree)
                                   ELSE after[n - 1]
                   /\ IncludeBuffer(includes, work) = after[Len(includes)]
  BY <1>1, IncludeBufferUnfolds
<1> DEFINE S == {n \in Nat : n <= Len(includes) => IsDoc(after[n].doc)}
<1>3. Len(includes) \in Nat
  BY <1>1, LengthIsNat
<1>4. 0 \in S
  BY <1>2, EmptyFacts DEF Ok
<1>5. ASSUME NEW n \in Nat, n \in S PROVE n + 1 \in S
  <2> SUFFICES ASSUME n + 1 <= Len(includes) PROVE IsDoc(after[n + 1].doc)
    OBVIOUS
  <2> DEFINE next == Include(after[n].doc, work[includes[n + 1].file], includes[n + 1].tree)
  <2>1. IsDoc(after[n].doc)
    BY <1>3, <1>5
  <2>2. n + 1 \in 1..Len(includes) /\ (n + 1) - 1 = n
    BY <1>3
  <2>3. after[n + 1] = IF after[n].ok THEN next ELSE after[n]
    BY <1>2, <2>2
  <2>4. IsDoc(work[includes[n + 1].file].doc)
    BY <1>1, <2>2 DEF AllRead
  <2>5. IsDoc(next.doc)
    BY <2>1, <2>4, IncludeFacts DEF Grown
  <2> HIDE DEF next
  <2>6. QED
    BY <2>1, <2>3, <2>5
<1>6. Nat \subseteq S
  <2> HIDE DEF S
  <2>1. QED
    BY <1>4, <1>5, NatSetInduction
<1>7. IsDoc(after[Len(includes)].doc)
  BY <1>3, <1>6
<1>8. QED
  BY <1>2, <1>7 DEF includes

LEMMA MergeContentFacts ==
  ASSUME NEW d, IsDoc(d), NEW f \in DOMAIN Content, NEW buffer, IsDoc(buffer.doc), NEW adopt
  PROVE  Grown(d, MergeXml(d, Content[f], buffer, adopt).doc)
<1>1. IsSequence(Content[f].trees)
  BY ContentAssumption DEF IsSequence
<1>2. IsSequence(buffer.doc.trees)
  BY DEF IsDoc
<1>3. QED
  BY <1>1, <1>2, MergeXmlFacts

LEMMA ReadFileFacts ==
  ASSUME NEW f \in DOMAIN Content, NEW work, AllRead(work) PROVE IsDoc(ReadFile(f, work).doc)
BY IncludeBufferFacts, EmptyFacts, MergeContentFacts DEF ReadFile, Grown

-----------------------------------------------------------------------------
(***************************************************************************)
(* A file that includes itself, over others or not, is not read again: the *)
(* fewer files are left, the less there is to read.                        *)
(***************************************************************************)
\* What is read of every file while those of S are being read.
ReadWith(S, g) ==
  [f \in Files |-> IF f \in S \/ f \notin DOMAIN Content THEN Thrown(EmptyDoc) ELSE ReadFile(f, g[S \cup {f}])]

Left(S) == Cardinality(Files \ S)

LEMMA LeftFacts ==
  ASSUME NEW S \in SUBSET Files
  PROVE  /\ Left(S) \in Nat
         /\ \A f \in Files \ S : S \cup {f} \in SUBSET Files /\ Left(S \cup {f}) = Left(S) - 1
         /\ Left(S) = 0 => S = Files
<1>1. IsFiniteSet(Files)
  BY ContentAssumption
<1>2. IsFiniteSet(Files \ S)
  BY <1>1, FS_Difference
<1>3. Left(S) \in Nat
  BY <1>2, FS_CardinalityType DEF Left
<1>4. ASSUME NEW f \in Files \ S PROVE S \cup {f} \in SUBSET Files /\ Left(S \cup {f}) = Left(S) - 1
  <2>1. Files \ (S \cup {f}) = (Files \ S) \ {f}
    OBVIOUS
  <2>2. Cardinality((Files \ S) \ {f}) = Cardinality(Files \ S) - 1
    BY <1>2, <1>4, FS_RemoveElement
  <2>3. QED
    BY <2>1, <2>2 DEF Left
<1>5. Left(S) = 0 => Files \ S = {}
  BY <1>2, FS_EmptySet DEF Left
<1>6. QED
  BY <1>3, <1>4, <1>5

LEMMA ReadWithAgrees ==
  ASSUME NEW S, NEW g, NEW h, \A f \in Files \ S : g[S \cup {f}] = h[S \cup {f}]
  PROVE  ReadWith(S, g) = ReadWith(S, h)
BY DEF ReadWith

LEMMA WorkDocsDef == WorkDocs = [S \in SUBSET Files |-> ReadWith(S, WorkDocs)]
<1> DEFINE Right(g, n) == \A S \in SUBSET Files : Left(S) <= n => g[S] = ReadWith(S, g)
           Next1(g) == [S \in SUBSET Files |-> ReadWith(S, g)]
           N == {n \in Nat : \E g : g = [S \in SUBSET Files |-> g[S]] /\ Right(g, n)}
<1>1. 0 \in N
  <2> DEFINE g == [S \in SUBSET Files |-> ReadWith(S, <<>>)]
  <2>1. ASSUME NEW S \in SUBSET Files, Left(S) <= 0 PROVE g[S] = ReadWith(S, g)
    <3>1. S = Files
      BY <2>1, LeftFacts
    <3> HIDE DEF g
    <3>2. ReadWith(S, <<>>) = ReadWith(S, g)
      BY <3>1, ReadWithAgrees
    <3>3. QED
      BY <3>2 DEF g
  <2>2. \E h : h = [S \in SUBSET Files |-> h[S]] /\ Right(h, 0)
    BY <2>1
  <2>3. QED
    BY <2>2
<1>2. ASSUME NEW n \in Nat, n \in N PROVE n + 1 \in N
  <2>1. PICK g : Right(g, n)
    BY <1>2
  <2> DEFINE h == Next1(g)
  <2>2. \A S \in SUBSET Files : h[S] = ReadWith(S, g)
    OBVIOUS
  <2>3. \A S \in SUBSET Files : Left(S) <= n => h[S] = g[S]
    BY <2>1, <2>2
  <2>4. h = [S \in SUBSET Files |-> h[S]]
    OBVIOUS
  <2> HIDE DEF h
  <2>5. ASSUME NEW S \in SUBSET Files, Left(S) <= n + 1 PROVE h[S] = ReadWith(S, h)
    <3>1. \A f \in Files \ S : S \cup {f} \in SUBSET Files /\ Left(S \cup {f}) <= n
      BY <2>5, LeftFacts
    <3>2. \A f \in Files \ S : g[S \cup {f}] = h[S \cup {f}]
      BY <2>3, <3>1
    <3>3. ReadWith(S, g) = ReadWith(S, h)
      BY <3>2, ReadWithAgrees
    <3>4. QED
      BY <2>2, <3>3
  <2>6. \E k : k = [S \in SUBSET Files |-> k[S]] /\ Right(k, n + 1)
    BY <2>4, <2>5
  <2> HIDE DEF Right
  <2>7. QED
    BY <2>6
<1>3. Nat \subseteq N
  <2> HIDE DEF N
  <2>1. QED
    BY <1>1, <1>2, NatSetInduction
<1>4. Left({}) \in Nat /\ \A S \in SUBSET Files : Left(S) <= Left({})
  <2>1. IsFiniteSet(Files)
    BY ContentAssumption
  <2>2. Left({}) \in Nat
    BY LeftFacts
  <2>3. ASSUME NEW S \in SUBSET Files PROVE Left(S) <= Left({})
    <3>1. Files \ S \subseteq Files /\ Files \ {} = Files
      OBVIOUS
    <3>2. Cardinality(Files \ S) <= Cardinality(Files)
      BY <2>1, <3>1, FS_Subset
    <3>3. QED
      BY <3>1, <3>2 DEF Left
  <2>4. QED
    BY <2>2, <2>3
<1>5. PICK g : g = [S \in SUBSET Files |-> g[S]] /\ Right(g, Left({}))
  BY <1>3, <1>4
<1>6. g = [S \in SUBSET Files |-> ReadWith(S, g)]
  BY <1>4, <1>5
<1>7. \E h : h = [S \in SUBSET Files |-> ReadWith(S, h)]
  BY <1>6
<1>8. WorkDocs = CHOOSE h : h = [S \in SUBSET Files |-> ReadWith(S, h)]
  BY DEF WorkDocs, ReadWith
<1>9. QED
  BY <1>7, <1>8

LEMMA WorkDocsFacts ==
  ASSUME NEW S \in SUBSET Files PROVE AllRead(WorkDocs[S])
<1> DEFINE N == {n \in Nat : \A R \in SUBSET Files : Left(R) <= n => AllRead(WorkDocs[R])}
<1>1. \A R \in SUBSET Files : WorkDocs[R] = ReadWith(R, WorkDocs)
  BY WorkDocsDef
<1>2. ASSUME NEW R \in SUBSET Files,
             \A f \in Files \ R : R \cup {f} \in SUBSET Files /\ AllRead(WorkDocs[R \cup {f}])
      PROVE  AllRead(WorkDocs[R])
  <2> SUFFICES ASSUME NEW f \in Files PROVE IsDoc(WorkDocs[R][f].doc)
    BY DEF AllRead
  <2>1. WorkDocs[R][f] = IF f \in R \/ f \notin DOMAIN Content THEN Thrown(EmptyDoc)
                         ELSE ReadFile(f, WorkDocs[R \cup {f}])
    BY <1>1 DEF ReadWith
  <2>2. IsDoc(Thrown(EmptyDoc).doc)
    BY EmptyFacts DEF Thrown
  <2>3. f \in DOMAIN Content /\ f \notin R => IsDoc(ReadFile(f, WorkDocs[R \cup {f}]).doc)
    BY <1>2, ReadFileFacts
  <2>4. QED
    BY <2>1, <2>2, <2>3
<1>3. 0 \in N
  <2>1. ASSUME NEW R \in SUBSET Files, Left(R) <= 0 PROVE AllRead(WorkDocs[R])
    <3>1. R = Files
      BY <2>1, LeftFacts
    <3>2. QED
      BY <1>2, <3>1
  <2>2. QED
    BY <2>1
<1>4. ASSUME NEW n \in Nat, n \in N PROVE n + 1 \in N
  <2>1. ASSUME NEW R \in SUBSET Files, Left(R) <= n + 1 PROVE AllRead(WorkDocs[R])
    <3>1. \A f \in Files \ R : R \cup {f} \in SUBSET Files /\ Left(R \cup {f}) <= n
      BY <2>1, LeftFacts
    <3>2. \A f \in Files \ R : AllRead(WorkDocs[R \cup {f}])
      BY <1>4, <3>1
    <3>3. QED
      BY <1>2, <3>1, <3>2
  <2>2. QED
    BY <2>1
<1>5. Nat \subseteq N
  <2> HIDE DEF N
  <2>1. QED
    BY <1>3, <1>4, NatSetInduction
<1>6. Left(S) \in Nat
  BY LeftFacts
<1>7. QED
  BY <1>5, <1>6

LEMMA MergeFileFacts ==
  ASSUME NEW d, IsDoc(d), NEW f \in Files, NEW adopt
  PROVE  Grown(d, MergeFile(d, f, adopt).doc)
<1>1. CASE f \notin DOMAIN Content
  BY <1>1, GrownStays DEF MergeFile, Thrown
<1>2. CASE f \in DOMAIN Content
  <2>1. AllRead(WorkDocs[{f}])
    BY WorkDocsFacts
  <2>2. Buffers[f] = IncludeBuffer(Content[f].includes, WorkDocs[{f}])
    BY <1>2 DEF Buffers
  <2>3. IsDoc(Buffers[f].doc)
    BY <1>2, <2>1, <2>2, IncludeBufferFacts
  <2>4. MergeFile(d, f, adopt) = MergeXml(d, Content[f], Buffers[f], adopt)
    BY <1>2 DEF MergeFile
  <2>5. QED
    BY <1>2, <2>3, <2>4, MergeContentFacts
<1>3. QED
  BY <1>1, <1>2

\* The documents that operations take trees from.
LEMMA LoadedFacts ==
  /\ \A f \in Files, adopt \in BOOLEAN : IsDoc(Loaded[<<f, adopt>>].doc)
  /\ \A other \in Sources : IsDoc(other)
<1>1. ASSUME NEW f \in Files, NEW adopt \in BOOLEAN PROVE IsDoc(Loaded[<<f, adopt>>].doc)
  <2>1. Loaded[<<f, adopt>>] = MergeFile(EmptyDoc, f, adopt)
    BY DEF Loaded
  <2>2. QED
    BY <2>1, EmptyFacts, MergeFileFacts DEF Grown
<1>2. ASSUME NEW other \in Sources PROVE IsDoc(other)
  <2>1. PICK s \in Files \X BOOLEAN : other = Loaded[s].doc
    BY DEF Sources
  <2>2. PICK f \in Files, adopt \in BOOLEAN : s = <<f, adopt>>
    OBVIOUS
  <2>3. QED
    BY <1>1, <2>1, <2>2
<1>3. QED
  BY <1>1, <1>2

-----------------------------------------------------------------------------
(***************************************************************************)
(* Operations that may change what is there, if they succeed.              *)
(***************************************************************************)
\* No node is lost or changed, and a failure only adds.
Adds(d, r) ==
  /\ IsDoc(r.doc) /\ Keeps(d.reg, r.doc.reg)
  /\ ~r.ok => Grown(d, r.doc)

LEMMA GrownAdds == ASSUME NEW d, NEW r, Grown(d, r.doc) PROVE Adds(d, r)
BY DEF Adds, Grown

LEMMA AddsOn ==
  ASSUME NEW d, NEW e, NEW r, IsDoc(d), Grown(d, e), Adds(e, r) PROVE Adds(d, r)
BY KeepsOn, GrownOn DEF Adds, Grown

LEMMA ThrownFacts ==
  ASSUME NEW d, IsDoc(d) PROVE Grown(d, Thrown(d).doc) /\ Grown(d, Ok(d).doc)
BY GrownStays DEF Thrown, Ok

\* A tree of the document is changed.
LEMMA EditedFacts ==
  ASSUME NEW d, IsDoc(d), NEW i, NEW tree, NEW e, e = [d EXCEPT !.trees = [d.trees EXCEPT ![i] = tree]]
  PROVE  IsDoc(e) /\ Keeps(d.reg, e.reg) /\ e.reg = d.reg
<1>1. PICK E : d.trees \in Seq(E)
  BY DEF IsDoc, IsSequence
<1> DEFINE trees == [d.trees EXCEPT ![i] = tree]
<1>2. trees \in Seq(E \cup {tree})
  <2>1. Len(d.trees) \in Nat /\ DOMAIN d.trees = 1..Len(d.trees) /\ \A j \in 1..Len(d.trees) : d.trees[j] \in E
    BY <1>1
  <2>2. trees = [j \in 1..Len(d.trees) |-> IF j = i THEN tree ELSE d.trees[j]]
    BY <1>1, <2>1
  <2> HIDE DEF trees
  <2>3. QED
    BY <2>1, <2>2
<1> HIDE DEF trees
<1>3. IsSequence(trees)
  BY <1>2 DEF IsSequence
<1>4. e = [d EXCEPT !.trees = trees]
  BY DEF trees
<1>5. QED
  BY <1>3, <1>4, ReplacedFacts DEF Keeps

LEMMA NodesFacts ==
  ASSUME NEW d, IsDoc(d), NEW i, NEW nodes
  PROVE  LET e == [d EXCEPT !.trees[i].nodes = nodes] IN IsDoc(e) /\ Keeps(d.reg, e.reg) /\ e.reg = d.reg
<1> DEFINE tree == [d.trees[i] EXCEPT !.nodes = nodes]
           e == [d EXCEPT !.trees[i].nodes = nodes]
<1>1. e = [d EXCEPT !.trees = [d.trees EXCEPT ![i] = tree]]
  OBVIOUS
<1> HIDE DEF e, tree
<1>2. IsDoc(e) /\ Keeps(d.reg, e.reg) /\ e.reg = d.reg
  BY <1>1, EditedFacts
<1>3. QED
  BY <1>2 DEF e

LEMMA PlaceAtFacts ==
  ASSUME NEW d, IsDoc(d), NEW at, NEW elements PROVE Adds(d, PlaceAt(d, at, elements))
<1>1. PICK nodes : PlaceAt(d, at, elements) \in {Thrown(d), Ok([d EXCEPT !.trees[at.tree].nodes = nodes])}
  BY DEF PlaceAt
<1> DEFINE e == [d EXCEPT !.trees[at.tree].nodes = nodes]
<1>2. IsDoc(e) /\ Keeps(d.reg, e.reg)
  BY NodesFacts
<1>3. PlaceAt(d, at, elements) \in {Thrown(d), Ok(e)}
  BY <1>1
<1> HIDE DEF e
<1>4. Adds(d, Ok(e))
  BY <1>2 DEF Ok, Adds
<1>5. Adds(d, Thrown(d))
  BY ThrownFacts, GrownAdds
<1>6. QED
  BY <1>3, <1>4, <1>5

LEMMA RegisterRequiredFacts ==
  ASSUME NEW d, IsDoc(d), NEW other, NEW nodes, NEW auto
  PROVE  Grown(d, RegisterRequired(d, other, nodes, auto).doc)
<1>1. PICK m : RegisterRequired(d, other, nodes, auto) \in {Ok(d), Thrown(d), WithNodes(d, m, FALSE)}
  BY DEF RegisterRequired
<1>2. Grown(d, WithNodes(d, m, FALSE).doc)
  BY WithNodesFacts
<1>3. QED
  BY <1>1, <1>2, ThrownFacts

\* A document is merged into another, when one that is as good can be.
LEMMA MergeInFacts ==
  ASSUME NEW d, IsDoc(d), NEW r, Grown(d, r.doc), NEW xml, IsSequence(xml.trees), NEW adopt
  PROVE  Grown(d, MergeXml(r.doc, xml, Ok(EmptyDoc), adopt).doc)
<1> DEFINE merged == MergeXml(r.doc, xml, Ok(EmptyDoc), adopt)
<1>1. IsDoc(r.doc) /\ IsSequence(Ok(EmptyDoc).doc.trees)
  BY XmlOfFacts DEF Grown
<1>2. Grown(r.doc, merged.doc)
  BY <1>1, MergeXmlFacts
<1> HIDE DEF merged
<1>3. Grown(d, merged.doc)
  BY <1>2, GrownOn
<1>4. QED
  BY <1>3 DEF merged

LEMMA MergeDocumentFacts ==
  ASSUME NEW d, IsDoc(d), NEW other, IsDoc(other), NEW adopt, NEW auto
  PROVE  Grown(d, MergeDocument(d, other, adopt, auto).doc)
<1> DEFINE known == RegisterRequired(d, other, AllNodes(other.trees), auto)
           merged == MergeXml(known.doc, XmlOf(other), Ok(EmptyDoc), adopt)
<1>1. MergeDocument(d, other, adopt, auto) \in {known, merged}
  BY DEF MergeDocument, Then
<1>2. Grown(d, known.doc)
  BY RegisterRequiredFacts
<1> HIDE DEF known
<1>3. Grown(d, merged.doc)
  BY <1>2, XmlOfFacts, MergeInFacts
<1> HIDE DEF merged
<1>4. QED
  BY <1>1, <1>2, <1>3

LEMMA MergeTreeFacts ==
  ASSUME NEW d, IsDoc(d), NEW other, NEW tree, NEW makeRoot, NEW auto
  PROVE  Grown(d, MergeTree(d, other, tree, makeRoot, auto).doc)
<1> DEFINE known == RegisterRequired(d, other, tree.nodes, auto)
           merged == MergeXml(known.doc, XmlOfTree(tree), Ok(EmptyDoc), makeRoot)
<1>1. MergeTree(d, other, tree, makeRoot, auto) \in {known, merged}
  BY DEF MergeTree, Then
<1>2. Grown(d, known.doc)
  BY RegisterRequiredFacts
<1> HIDE DEF known
<1>3. Grown(d, merged.doc)
  BY <1>2, XmlOfFacts, MergeInFacts
<1> HIDE DEF merged
<1>4. QED
  BY <1>1, <1>2, <1>3

LEMMA WithNewTreeFacts ==
  ASSUME NEW d, IsDoc(d), NEW name PROVE Grown(d, WithNewTree(d, name).doc)
<1> DEFINE tree == [name |-> name, nodes |-> <<>>]
           e == [d EXCEPT !.trees = Append(@, tree)]
<1>1. WithNewTree(d, name) \in {Thrown(d), Ok(e)}
  BY DEF WithNewTree
<1> HIDE DEF tree
<1>2. Grown(d, e)
  BY AppendedFacts
<1> HIDE DEF e
<1>3. QED
  BY <1>1, <1>2, ThrownFacts DEF Ok

LEMMA WithoutTreeFacts ==
  ASSUME NEW d, IsDoc(d), NEW name
  PROVE  IsDoc(WithoutTree(d, name).doc) /\ WithoutTree(d, name).doc.reg = d.reg
<1> DEFINE n == NumberOf(d.trees, name)
           left == RemoveAt(d.trees, n)
           e == [d EXCEPT !.trees = left]
<1>1. CASE ~HasTree(d, name)
  BY <1>1 DEF WithoutTree, Thrown
<1>2. CASE HasTree(d, name)
  <2>1. WithoutTree(d, name) = Ok(e)
    BY <1>2 DEF WithoutTree
  <2>2. n \in DOMAIN d.trees
    <3> DEFINE Numbers == {i \in 1..Len(d.trees) : d.trees[i].name = name}
    <3>1. Len(d.trees) \in Nat /\ DOMAIN d.trees = 1..Len(d.trees)
      BY LengthIsNat DEF IsDoc
    <3>2. Numbers \subseteq Nat /\ Numbers # {}
      BY <1>2, <3>1 DEF HasTree, TreeNames
    <3>3. PICK i \in Numbers : \A j \in Numbers : i <= j
      <4> DEFINE S == {k \in Nat : \A m \in 0..k : m \notin Numbers}
      <4>1. ASSUME \A i \in Numbers : \E j \in Numbers : j < i PROVE FALSE
        <5>1. 0 \in S
          BY <3>1
        <5>2. ASSUME NEW k \in Nat, k \in S PROVE k + 1 \in S
          BY <3>2, <4>1, <5>2
        <5> HIDE DEF S
        <5>3. Nat \subseteq S
          BY <5>1, <5>2, NatSetInduction
        <5>4. QED
          BY <3>2, <5>3 DEF S
      <4>2. QED
        BY <3>2, <4>1
    <3>4. i \in DOMAIN d.trees /\ d.trees[i].name = name /\ \A j \in 1..(i - 1) : d.trees[j].name # name
      BY <3>1, <3>3
    <3>5. QED
      BY <3>4 DEF NumberOf
  <2> HIDE DEF n
  <2>3. IsSequence(left)
    <3>1. PICK E : d.trees \in Seq(E)
      BY DEF IsDoc, IsSequence
    <3>2. n \in 1..Len(d.trees)
      BY <2>2, <3>1
    <3>3. RemoveAt(d.trees, n) \in Seq(E)
      BY <3>1, <3>2 DEF RemoveAt
    <3>4. QED
      BY <3>3 DEF IsSequence
  <2> HIDE DEF left
  <2>4. IsDoc(e) /\ e.reg = d.reg
    BY <2>3, ReplacedFacts
  <2> HIDE DEF e
  <2>5. QED
    BY <2>1, <2>4 DEF Ok
<1>3. QED
  BY <1>1, <1>2

LEMMA InsertTreeFacts ==
  ASSUME NEW d, IsDoc(d), NEW at, NEW other, IsDoc(other), NEW name, NEW auto
  PROVE  Adds(d, InsertTree(d, at, other, name, auto))
<1> DEFINE nodes == GetTree(other, name).nodes
           known == RegisterRequired(d, other, nodes, auto)
           kept == {i \in DOMAIN other.trees : other.trees[i].name \in Dependencies(other, name)}
           trees == TreesAt(other.trees, kept)
           part == [other EXCEPT !.trees = trees]
           merged == MergeXml(known.doc, XmlOf(part), Ok(EmptyDoc), FALSE)
           elements == FirstChild(IF auto THEN Traversed(other.reg, nodes) ELSE nodes)
           placed == PlaceAt(merged.doc, at, elements)
<1>1. InsertTree(d, at, other, name, auto) \in {Thrown(d), known, Thrown(known.doc), merged, placed}
  BY DEF InsertTree, Then
<1>2. Grown(d, known.doc)
  BY RegisterRequiredFacts
<1>3. IsSequence(trees)
  <2>1. IsSequence(other.trees) /\ kept \subseteq DOMAIN other.trees
    BY DEF IsDoc
  <2> HIDE DEF kept
  <2>2. QED
    BY <2>1, TreesAtFacts
<1> HIDE DEF nodes, known, trees, elements
<1>4. IsDoc(part)
  BY <1>3, ReplacedFacts
<1> HIDE DEF part
<1>5. Grown(d, merged.doc)
  BY <1>2, <1>4, XmlOfFacts, MergeInFacts
<1> HIDE DEF merged
<1>6. Adds(d, placed)
  <2>1. IsDoc(merged.doc)
    BY <1>5 DEF Grown
  <2>2. Adds(merged.doc, placed)
    BY <2>1, PlaceAtFacts
  <2> HIDE DEF placed
  <2>3. QED
    BY <1>5, <2>2, AddsOn
<1> HIDE DEF placed
<1>7. Adds(d, known) /\ Adds(d, merged) /\ Adds(d, Thrown(d)) /\ Adds(d, Thrown(known.doc))
  BY <1>2, <1>5, ThrownFacts, GrownAdds DEF Thrown
<1>8. QED
  BY <1>1, <1>6, <1>7

LEMMA NewTreeFromFacts ==
  ASSUME NEW d, IsDoc(d), NEW other, IsDoc(other), NEW name, NEW auto
  PROVE  Adds(d, NewTreeFromDocument(d, other, name, auto))
<1> DEFINE tree == IF name = NoTree THEN RootOf(other) ELSE name
           new == WithNewTree(d, tree)
           at == [tree |-> Len(new.doc.trees), parent |-> 0, before |-> "end"]
           filled == InsertTree(new.doc, at, other, tree, auto)
<1>1. NewTreeFromDocument(d, other, name, auto) \in {Thrown(d), new, filled}
  BY DEF NewTreeFromDocument, Then
<1> HIDE DEF tree
<1>2. Grown(d, new.doc)
  BY WithNewTreeFacts
<1> HIDE DEF new
<1>3. Adds(d, filled)
  <2>1. IsDoc(new.doc)
    BY <1>2 DEF Grown
  <2> HIDE DEF at
  <2>2. Adds(new.doc, filled)
    BY <2>1, InsertTreeFacts
  <2> HIDE DEF filled
  <2>3. QED
    BY <1>2, <2>2, AddsOn
<1> HIDE DEF filled
<1>4. QED
  BY <1>1, <1>2, <1>3, ThrownFacts, GrownAdds

LEMMA InsertNodeFacts ==
  ASSUME NEW d, IsDoc(d), NEW at, NEW name, NEW opts
  PROVE  Adds(d, InsertNode(d, at, name)) /\ Adds(d, InsertNodeWithOptions(d, at, name, opts))
<1>1. \A e : IsDoc(e) => Adds(e, InsertNode(e, at, name))
  BY PlaceAtFacts DEF InsertNode
<1>2. PICK m : m = (name :> opts)
  OBVIOUS
<1> DEFINE known == IF name \in Registered(d.reg) THEN Ok(d) ELSE WithNodes(d, m, FALSE)
           placed == InsertNode(known.doc, at, name)
<1>3. InsertNodeWithOptions(d, at, name, opts) \in {known, placed}
  BY <1>2 DEF InsertNodeWithOptions, Then
<1>4. Grown(d, known.doc)
  BY ThrownFacts, WithNodesFacts
<1> HIDE DEF known
<1>5. Adds(d, placed)
  <2>1. Adds(known.doc, placed)
    BY <1>1, <1>4 DEF Grown
  <2> HIDE DEF placed
  <2>2. QED
    BY <1>4, <2>1, AddsOn
<1> HIDE DEF placed
<1>6. QED
  BY <1>1, <1>3, <1>4, <1>5, GrownAdds

LEMMA InsertSubTreeFacts ==
  ASSUME NEW d, IsDoc(d), NEW at, NEW name, NEW other, NEW tree
  PROVE  Adds(d, InsertSubTreeName(d, at, name)) /\ Adds(d, InsertSubTreeElement(d, at, other, tree))
<1>1. ASSUME NEW e, IsDoc(e), NEW n PROVE Adds(e, InsertSubTreeName(e, at, n))
  <2>1. InsertSubTreeName(e, at, n) \in {Thrown(e), PlaceAt(e, at, Element("SubTree", n))}
    BY DEF InsertSubTreeName
  <2>2. QED
    BY <1>1, <2>1, ThrownFacts, GrownAdds, PlaceAtFacts
<1> DEFINE merged == MergeTree(d, other, tree, FALSE, TRUE)
           there == IF HasTree(d, tree.name)
                    THEN IF GetTree(d, tree.name) = tree THEN Ok(d) ELSE Thrown(d)
                    ELSE merged
           placed == InsertSubTreeName(there.doc, at, tree.name)
<1>2. InsertSubTreeElement(d, at, other, tree) \in {there, placed}
  BY DEF InsertSubTreeElement, Then
<1>3. Grown(d, there.doc)
  BY ThrownFacts, MergeTreeFacts
<1> HIDE DEF there
<1>4. Adds(d, placed)
  <2>1. Adds(there.doc, placed)
    BY <1>1, <1>3 DEF Grown
  <2> HIDE DEF placed
  <2>2. QED
    BY <1>3, <2>1, AddsOn
<1> HIDE DEF placed
<1>5. QED
  BY <1>1, <1>2, <1>3, <1>4, GrownAdds

LEMMA NamespaceDocumentFacts ==
  ASSUME NEW d, IsDoc(d)
  PROVE  LET r == NamespaceDocument(d)
         IN  IsShaped(r.doc) /\ (r.ok => IsRegistry(r.doc.reg))
<1>1. PICK trees : /\ NamespaceDocument(d) = WithRegistry([d EXCEPT !.trees = trees], NamespaceNodes(d.reg))
                   /\ trees = [i \in DOMAIN d.trees |-> trees[i]]
  <2> DEFINE Renamed(e) == IF e.name \in Registered(d.reg) THEN [e EXCEPT !.name = Under[@]] ELSE e
             InNamespace(tree) == [tree EXCEPT !.nodes = [k \in DOMAIN @ |-> Renamed(@[k])]]
             trees == [i \in DOMAIN d.trees |-> InNamespace(d.trees[i])]
  <2>1. NamespaceDocument(d) = WithRegistry([d EXCEPT !.trees = trees], NamespaceNodes(d.reg))
    BY DEF NamespaceDocument
  <2>2. trees = [i \in DOMAIN d.trees |-> trees[i]]
    OBVIOUS
  <2> HIDE DEF trees
  <2>3. QED
    BY <2>1, <2>2
<1> DEFINE e == [d EXCEPT !.trees = trees]
           reg == NamespaceNodes(d.reg).reg
<1>2. IsSequence(trees)
  <2> DEFINE E == {trees[i] : i \in DOMAIN d.trees}
  <2>1. Len(d.trees) \in Nat /\ DOMAIN d.trees = 1..Len(d.trees)
    BY LengthIsNat DEF IsDoc
  <2>2. \A i \in DOMAIN d.trees : trees[i] \in E
    OBVIOUS
  <2> HIDE DEF E
  <2>3. trees \in [1..Len(d.trees) -> E]
    BY <1>1, <2>1, <2>2
  <2>4. trees \in Seq(E)
    BY <2>1, <2>3
  <2>5. QED
    BY <2>4 DEF IsSequence
<1>3. IsDoc(e)
  BY <1>2, ReplacedFacts
<1>4. IsPair(reg) /\ (NamespaceNodes(d.reg).ok => IsRegistry(reg))
  BY NamespaceFacts DEF IsDoc
<1>5. /\ NamespaceDocument(d).doc = [e EXCEPT !.reg = reg]
      /\ NamespaceDocument(d).ok = NamespaceNodes(d.reg).ok
  BY <1>1 DEF WithRegistry
<1> HIDE DEF e, reg
<1>6. [e EXCEPT !.reg = reg] = [trees |-> e.trees, root |-> e.root, reg |-> reg]
  BY <1>3 DEF IsDoc
<1>7. QED
  BY <1>3, <1>4, <1>5, <1>6 DEF IsDoc, IsShaped

-----------------------------------------------------------------------------
(***************************************************************************)
(* What a step does to the document, action by action.                     *)
(***************************************************************************)
Changes == {"override", "namespace", "reset"}
Takes == {"merge", "mergeTree", "newTreeFrom", "insertTree", "insertSubTree"}

Sound ==
  /\ IsDoc(document)'
  /\ operation'.op \notin Changes => Keeps(document.reg, document'.reg)
  /\ operation'.op \in Takes /\ ~operation'.ok => Continues(document.trees, document'.trees)

LEMMA DoFacts ==
  ASSUME NEW op, NEW r, Do(op, r), IsDoc(r.doc),
         op \in Changes \/ Keeps(document.reg, r.doc.reg),
         op \in Takes => Adds(document, r)
  PROVE  Sound
<1>1. document' = r.doc /\ operation' = [op |-> op, ok |-> r.ok] /\ parted' = parted
  BY DEF Do, Perform
<1>2. IsDoc(document)'
  BY <1>1 DEF IsDoc, IsRegistry
<1>3. QED
  BY <1>1, <1>2 DEF Sound, Adds, Grown

\* A namespace that throws ends the agreement of the registry.
LEMMA NamespaceSound ==
  ASSUME NEW r, Perform("namespace", r), parted' = (parted \/ ~r.ok),
         IsShaped(r.doc), r.ok => IsRegistry(r.doc.reg)
  PROVE  Sound
<1>1. document' = r.doc /\ operation' = [op |-> "namespace", ok |-> r.ok]
  BY DEF Perform
<1>2. CASE r.ok
  <2>1. IsDoc(document)'
    <3>1. parted' => parted
      BY <1>2, Zenon
    <3>2. parted => parted'
      BY Zenon
    <3>3. QED
      BY <1>1, <1>2, <3>1, <3>2 DEF IsDoc, IsShaped, IsRegistry
  <2>2. QED
    BY <1>1, <2>1 DEF Sound, Changes, Takes
<1>3. CASE ~r.ok
  <2>1. parted'
    BY <1>3, Zenon
  <2>2. IsDoc(document)'
    BY <1>1, <2>1 DEF IsDoc, IsShaped, IsRegistry
  <2>3. QED
    BY <1>1, <2>2 DEF Sound, Changes, Takes
<1>4. QED
  BY <1>2, <1>3

LEMMA AddsSound == ASSUME NEW op, NEW r, Do(op, r), Adds(document, r) PROVE Sound
BY DoFacts DEF Adds

\* An operation on what is there: one tree is another, or nothing changed.
Edits(d, e) == e = d \/ \E i, tree : e = [d EXCEPT !.trees = [d.trees EXCEPT ![i] = tree]]

LEMMA NodesEdit == \A d, i, nodes : Edits(d, [d EXCEPT !.trees[i].nodes = nodes])
<1> SUFFICES ASSUME NEW d, NEW i, NEW nodes PROVE Edits(d, [d EXCEPT !.trees[i].nodes = nodes])
  OBVIOUS
<1> DEFINE tree == [d.trees[i] EXCEPT !.nodes = nodes]
<1>1. [d EXCEPT !.trees[i].nodes = nodes] = [d EXCEPT !.trees = [d.trees EXCEPT ![i] = tree]]
  OBVIOUS
<1> HIDE DEF tree
<1>2. QED
  BY <1>1 DEF Edits

LEMMA EditSound ==
  ASSUME NEW op, NEW r, Do(op, r), op \notin Takes, IsDoc(document), Edits(document, r.doc)
  PROVE  Sound
<1>1. IsDoc(r.doc) /\ Keeps(document.reg, r.doc.reg)
  <2>1. CASE r.doc = document
    BY <2>1, GrownStays DEF Grown
  <2>2. CASE r.doc # document
    <3>1. PICK i, tree : r.doc = [document EXCEPT !.trees = [document.trees EXCEPT ![i] = tree]]
      BY <2>2 DEF Edits
    <3>2. QED
      BY <3>1, EditedFacts
  <2>3. QED
    BY <2>1, <2>2
<1>2. QED
  BY <1>1, DoFacts

LEMMA MergeSteps ==
  ASSUME IsDoc(document), MergeFromFile \/ MergeResource \/ MergeFromDocument \/ MergeFromTree PROVE Sound
<1>1. CASE MergeFromFile
  <2>1. PICK f \in Files, adopt \in BOOLEAN : Do("merge", MergeFile(document, f, adopt))
    BY <1>1 DEF MergeFromFile
  <2>2. Adds(document, MergeFile(document, f, adopt))
    BY MergeFileFacts, GrownAdds
  <2>3. QED
    BY <2>1, <2>2, AddsSound
<1>2. CASE MergeResource
  <2>1. PICK f \in DOMAIN Content, m \in Manifests :
          Do("merge", Then(WithNodes(document, m, FALSE), LAMBDA d : MergeFile(d, f, FALSE)))
    BY <1>2 DEF MergeResource
  <2> DEFINE known == WithNodes(document, m, FALSE)
             merged == MergeFile(known.doc, f, FALSE)
  <2>2. PICK r : r \in {known, merged} /\ Do("merge", r)
    BY <2>1 DEF Then
  <2>3. Grown(document, known.doc) /\ f \in Files
    BY WithNodesFacts, ContentAssumption
  <2> HIDE DEF known
  <2>4. Grown(document, merged.doc)
    <3>1. IsDoc(known.doc)
      BY <2>3 DEF Grown
    <3>2. Grown(known.doc, merged.doc)
      BY <2>3, <3>1, MergeFileFacts
    <3> HIDE DEF merged
    <3>3. QED
      BY <2>3, <3>2, GrownOn
  <2> HIDE DEF merged
  <2>5. QED
    BY <2>2, <2>3, <2>4, GrownAdds, AddsSound
<1>3. CASE MergeFromDocument
  <2>1. PICK other \in Sources, auto \in BOOLEAN : Do("merge", MergeDocument(document, other, TRUE, auto))
    BY <1>3 DEF MergeFromDocument
  <2>2. Adds(document, MergeDocument(document, other, TRUE, auto))
    BY LoadedFacts, MergeDocumentFacts, GrownAdds
  <2>3. QED
    BY <2>1, <2>2, AddsSound
<1>4. CASE MergeFromTree
  <2>1. PICK other \in Sources : \E tree \in TreesOf(other), root \in BOOLEAN :
          Do("mergeTree", MergeTree(document, other, tree, root, TRUE))
    BY <1>4 DEF MergeFromTree
  <2>2. PICK tree \in TreesOf(other), root \in BOOLEAN :
          Do("mergeTree", MergeTree(document, other, tree, root, TRUE))
    BY <2>1
  <2>3. Adds(document, MergeTree(document, other, tree, root, TRUE))
    BY MergeTreeFacts, GrownAdds
  <2>4. QED
    BY <2>2, <2>3, AddsSound
<1>5. QED
  BY <1>1, <1>2, <1>3, <1>4

LEMMA InsertSteps ==
  ASSUME IsDoc(document),
         NewTree \/ NewTreeFrom \/ InsertTreeFrom \/ InsertOneNode \/ InsertRegisteredNode \/ InsertSubTree
  PROVE  Sound
<1>1. CASE NewTree
  <2>1. PICK name \in TreeName : Do("newTree", WithNewTree(document, name))
    BY <1>1 DEF NewTree
  <2>2. Adds(document, WithNewTree(document, name))
    BY WithNewTreeFacts, GrownAdds
  <2>3. QED
    BY <2>1, <2>2, AddsSound
<1>2. CASE NewTreeFrom
  <2>1. PICK other \in Sources, name \in TreeName \cup {NoTree}, auto \in BOOLEAN :
          Do("newTreeFrom", NewTreeFromDocument(document, other, name, auto))
    BY <1>2 DEF NewTreeFrom
  <2>2. Adds(document, NewTreeFromDocument(document, other, name, auto))
    BY LoadedFacts, NewTreeFromFacts
  <2>3. QED
    BY <2>1, <2>2, AddsSound
<1>3. CASE InsertTreeFrom
  <2>1. PICK other \in Sources, name \in TreeName, auto \in BOOLEAN, at \in Places({"end", "stranger"}) :
          Do("insertTree", InsertTree(document, at, other, name, auto))
    BY <1>3 DEF InsertTreeFrom
  <2>2. Adds(document, InsertTree(document, at, other, name, auto))
    BY LoadedFacts, InsertTreeFacts
  <2>3. QED
    BY <2>1, <2>2, AddsSound
<1>4. CASE InsertOneNode
  <2>1. PICK at, name : Do("insertNode", InsertNode(document, at, name))
    BY <1>4 DEF InsertOneNode
  <2>2. QED
    BY <2>1, InsertNodeFacts, AddsSound
<1>5. CASE InsertRegisteredNode
  <2>1. PICK at, name, opts : Do("insertNode", InsertNodeWithOptions(document, at, name, opts))
    BY <1>5 DEF InsertRegisteredNode
  <2>2. QED
    BY <2>1, InsertNodeFacts, AddsSound
<1>6. CASE InsertSubTree
  <2>1. PICK at : \/ \E name \in TreeName : Do("insertSubTree", InsertSubTreeName(document, at, name))
                  \/ \E other \in Sources : \E tree \in TreesOf(other) :
                       Do("insertSubTree", InsertSubTreeElement(document, at, other, tree))
    BY <1>6 DEF InsertSubTree
  <2>2. CASE \E name \in TreeName : Do("insertSubTree", InsertSubTreeName(document, at, name))
    BY <2>2, InsertSubTreeFacts, AddsSound
  <2>3. CASE \E other \in Sources : \E tree \in TreesOf(other) :
               Do("insertSubTree", InsertSubTreeElement(document, at, other, tree))
    BY <2>3, InsertSubTreeFacts, AddsSound
  <2>4. QED
    BY <2>1, <2>2, <2>3
<1>7. QED
  BY <1>1, <1>2, <1>3, <1>4, <1>5, <1>6

LEMMA RemoveSteps ==
  ASSUME IsDoc(document), RemoveTree \/ RemoveFirstChild \/ RemoveChildren \/ SetRoot
  PROVE  Sound
<1>1. CASE RemoveTree
  <2>1. PICK name \in TreeName : Do("remove", WithoutTree(document, name))
    BY <1>1 DEF RemoveTree
  <2>2. IsDoc(WithoutTree(document, name).doc) /\ Keeps(document.reg, WithoutTree(document, name).doc.reg)
    BY WithoutTreeFacts DEF Keeps
  <2>3. QED
    BY <2>1, <2>2, DoFacts DEF Takes
<1>2. CASE RemoveFirstChild
  <2> DEFINE all(t) == Traversed(document.reg, document.trees[t].nodes)
             First(t, name) == CHOOSE i \in DOMAIN all(t) :
                                 all(t)[i].name = name /\ \A j \in 1..(i - 1) : all(t)[j].name # name
             without(t, i) == SubSeq(all(t), 1, i - 1) \o SubSeq(all(t), LastBelow(all(t), i) + 1, Len(all(t)))
             rest(t) == SubSeq(document.trees[t].nodes, LastBelow(document.trees[t].nodes, 1) + 1,
                               Len(document.trees[t].nodes))
             With(t, nodes) == [document EXCEPT !.trees[t].nodes = nodes]
  <2>1. PICK t \in DOMAIN document.trees :
          \/ Do("remove", IF all(t) = <<>> THEN Thrown(document) ELSE Ok(With(t, rest(t))))
          \/ \E name \in Names :
               Do("remove", IF name \in NodeNames(all(t)) THEN Ok(With(t, without(t, First(t, name))))
                            ELSE Thrown(With(t, all(t))))
    BY <1>2 DEF RemoveFirstChild
  <2> HIDE DEF all, First, without, rest
  <2>2. \A nodes : Edits(document, With(t, nodes))
    BY NodesEdit
  <2> HIDE DEF With
  <2>3. PICK r, e : Do("remove", r) /\ r \in {Thrown(e), Ok(e)} /\ Edits(document, e)
    BY <2>1, <2>2 DEF Edits
  <2>4. Edits(document, r.doc)
    BY <2>3 DEF Ok, Thrown
  <2>5. QED
    BY <2>3, <2>4, EditSound DEF Takes
<1>3. CASE RemoveChildren
  <2>1. PICK t : Do("remove", Ok([document EXCEPT !.trees[t].nodes = <<>>]))
    BY <1>3 DEF RemoveChildren
  <2> DEFINE e == [document EXCEPT !.trees[t].nodes = <<>>]
  <2>2. Edits(document, e)
    BY NodesEdit
  <2> HIDE DEF e
  <2>3. Edits(document, Ok(e).doc)
    BY <2>2 DEF Ok
  <2>4. Do("remove", Ok(e))
    BY <2>1 DEF e
  <2>5. QED
    BY <2>3, <2>4, EditSound DEF Takes
<1>4. CASE SetRoot
  <2>1. PICK name \in TreeName : Do("setRoot", WithRoot(document, name))
    BY <1>4 DEF SetRoot
  <2>2. Adds(document, WithRoot(document, name))
    BY WithRootFacts, GrownAdds
  <2>3. QED
    BY <2>1, <2>2, AddsSound
<1>5. QED
  BY <1>1, <1>2, <1>3, <1>4

LEMMA TreeSteps ==
  ASSUME IsDoc(document), SetTreeName \/ AssignTree \/ AssignNode
  PROVE  Sound
<1>1. CASE SetTreeName
  <2>1. PICK t, name : Do("rename", Ok([document EXCEPT !.trees[t].name = name]))
    BY <1>1 DEF SetTreeName
  <2> DEFINE tree == [document.trees[t] EXCEPT !.name = name]
             e == [document EXCEPT !.trees = [document.trees EXCEPT ![t] = tree]]
  <2>2. Do("rename", Ok(e))
    BY <2>1
  <2> HIDE DEF tree
  <2>3. Edits(document, e)
    BY DEF Edits
  <2> HIDE DEF e
  <2>4. Edits(document, Ok(e).doc)
    BY <2>3 DEF Ok
  <2>5. QED
    BY <2>2, <2>4, EditSound DEF Takes
<1>2. CASE AssignTree
  <2>1. PICK t, tree, r : Do("assign", r) /\ r \in {Thrown(document), Ok([document EXCEPT !.trees[t] = tree])}
    BY <1>2 DEF AssignTree
  <2> DEFINE e == [document EXCEPT !.trees = [document.trees EXCEPT ![t] = tree]]
  <2>2. r \in {Thrown(document), Ok(e)}
    BY <2>1
  <2>3. Edits(document, e)
    BY DEF Edits
  <2> HIDE DEF e
  <2>4. Edits(document, document)
    BY DEF Edits
  <2>5. Edits(document, r.doc)
    BY <2>2, <2>3, <2>4 DEF Ok, Thrown
  <2>6. QED
    BY <2>1, <2>5, EditSound DEF Takes
<1>3. CASE AssignNode
  <2>1. PICK t, nodes : Do("assign", Ok([document EXCEPT !.trees[t].nodes = nodes]))
    BY <1>3 DEF AssignNode
  <2> DEFINE e == [document EXCEPT !.trees[t].nodes = nodes]
  <2>2. Edits(document, e)
    BY NodesEdit
  <2> HIDE DEF e
  <2>3. Edits(document, Ok(e).doc)
    BY <2>2 DEF Ok
  <2>4. Do("assign", Ok(e))
    BY <2>1 DEF e
  <2>5. QED
    BY <2>3, <2>4, EditSound DEF Takes
<1>4. QED
  BY <1>1, <1>2, <1>3

LEMMA NodeSteps ==
  ASSUME IsDoc(document), SetPort \/ SetInlineOptions \/ GetRequiredNodes
  PROVE  Sound
<1>1. CASE SetPort
  <2> DEFINE element(t, i) == Handled(document.reg, document.trees[t].nodes[i])
             known(t, i) == ModelPort(document.reg, element(t, i).name)
             With(t, i, value) == [document EXCEPT !.trees[t].nodes[i] = [element(t, i) EXCEPT !.port = value]]
  <2>1. PICK t \in DOMAIN document.trees : \E i \in DOMAIN document.trees[t].nodes :
          \/ Do("setPort", IF known(t, i) = "unknown" THEN Thrown(document) ELSE Ok(With(t, i, "set")))
          \/ Do("setPort", IF known(t, i) = "unknown" THEN Ok(document)
                           ELSE Ok(With(t, i, IF known(t, i) = "default" THEN "default" ELSE "unset")))
    BY <1>1 DEF SetPort
  <2> HIDE DEF known, element
  <2>2. ASSUME NEW i, NEW value PROVE Edits(document, With(t, i, value))
    <3> DEFINE nodes == [document.trees[t].nodes EXCEPT ![i] = [element(t, i) EXCEPT !.port = value]]
    <3>1. With(t, i, value) = [document EXCEPT !.trees[t].nodes = nodes]
      OBVIOUS
    <3> HIDE DEF nodes
    <3>2. Edits(document, [document EXCEPT !.trees[t].nodes = nodes])
      BY NodesEdit
    <3> HIDE DEF With
    <3>3. QED
      BY <3>1, <3>2
  <2> HIDE DEF With
  <2>3. Edits(document, document)
    BY DEF Edits
  <2>4. PICK r, e : Do("setPort", r) /\ r \in {Thrown(e), Ok(e)} /\ Edits(document, e)
    BY <2>1, <2>2, <2>3
  <2>5. Edits(document, r.doc)
    BY <2>4 DEF Ok, Thrown
  <2>6. QED
    BY <2>4, <2>5, EditSound DEF Takes
<1>2. CASE SetInlineOptions
  <2> DEFINE inline(t) == WithInlineOptions(document.reg, document.trees[t].nodes)
             e(t) == [document EXCEPT !.trees[t].nodes = inline(t).nodes]
             r(t) == [ok |-> inline(t).ok, doc |-> e(t)]
  <2>1. PICK t \in DOMAIN document.trees : Do("setInline", r(t))
    BY <1>2 DEF SetInlineOptions
  <2> HIDE DEF inline
  <2>2. Edits(document, e(t))
    BY NodesEdit
  <2> HIDE DEF e
  <2>3. Edits(document, r(t).doc)
    BY <2>2
  <2> HIDE DEF r
  <2>4. QED
    BY <2>1, <2>3, EditSound DEF Takes
<1>3. CASE GetRequiredNodes
  <2> DEFINE ok(t) == Required(document, document.trees[t].nodes).ok
             nodes(t) == Traversed(document.reg, document.trees[t].nodes)
             e(t) == [document EXCEPT !.trees[t].nodes = nodes(t)]
             r(t) == [ok |-> ok(t), doc |-> e(t)]
  <2>1. PICK t \in DOMAIN document.trees : Do("required", r(t))
    BY <1>3 DEF GetRequiredNodes
  <2> HIDE DEF ok, nodes
  <2>2. Edits(document, e(t))
    BY NodesEdit
  <2> HIDE DEF e
  <2>3. Edits(document, r(t).doc)
    BY <2>2
  <2> HIDE DEF r
  <2>4. QED
    BY <2>1, <2>3, EditSound DEF Takes
<1>4. QED
  BY <1>1, <1>2, <1>3

LEMMA RegistrySteps ==
  ASSUME IsDoc(document), RegisterManifest \/ ApplyNodeNamespace \/ Reset
  PROVE  Sound
<1>1. CASE RegisterManifest
  <2>1. PICK m \in Manifests, override \in BOOLEAN :
          Do(IF override THEN "override" ELSE "register", WithNodes(document, m, override))
    BY <1>1 DEF RegisterManifest
  <2>2. /\ IsDoc(WithNodes(document, m, override).doc)
        /\ ~override => Keeps(document.reg, WithNodes(document, m, override).doc.reg)
    BY WithNodesFacts DEF Grown
  <2> DEFINE op == IF override THEN "override" ELSE "register"
  <2>3. op \notin Takes /\ (override => op \in Changes)
    BY DEF Takes, Changes
  <2> HIDE DEF op
  <2>4. Do(op, WithNodes(document, m, override))
    BY <2>1 DEF op
  <2>5. QED
    BY <2>2, <2>3, <2>4, DoFacts
<1>2. CASE ApplyNodeNamespace
  <2> DEFINE r == NamespaceDocument(document)
  <2>1. Perform("namespace", r) /\ parted' = (parted \/ ~r.ok)
    BY <1>2 DEF ApplyNodeNamespace
  <2>2. IsShaped(r.doc) /\ (r.ok => IsRegistry(r.doc.reg))
    BY NamespaceDocumentFacts
  <2> HIDE DEF r
  <2>3. QED
    BY <2>1, <2>2, NamespaceSound
<1>3. CASE Reset
  <2>1. PICK unregister \in BOOLEAN :
          Do("reset", Ok([EmptyDoc EXCEPT !.reg = IF unregister THEN ResetNodes(document.reg) ELSE document.reg]))
    BY <1>3 DEF Reset
  <2> DEFINE reg == IF unregister THEN ResetNodes(document.reg) ELSE document.reg
             e == [EmptyDoc EXCEPT !.reg = reg]
  <2>2. IsRegistry(reg)
    BY ResetFacts DEF IsDoc
  <2>3. Do("reset", Ok(e))
    BY <2>1
  <2> HIDE DEF reg
  <2>4. e = [trees |-> <<>>, root |-> NoTree, reg |-> reg]
    BY DEF EmptyDoc
  <2>5. IsSequence(<<>>)
    BY EmptyFacts DEF EmptyDoc, IsDoc
  <2> HIDE DEF e
  <2>6. IsDoc(Ok(e).doc)
    BY <2>2, <2>4, <2>5 DEF IsDoc, Ok
  <2>7. QED
    BY <2>3, <2>6, DoFacts DEF Changes, Takes
<1>4. QED
  BY <1>1, <1>2, <1>3

-----------------------------------------------------------------------------
(***************************************************************************)
(* The inductive invariant: the document is one.                           *)
(***************************************************************************)
DocumentInv == IsDoc(document)

LEMMA InitSound == EditInit => DocumentInv
<1> SUFFICES ASSUME EditInit PROVE IsDoc(document)
  BY DEF DocumentInv
<1>1. CASE document = EmptyDoc
  BY <1>1, EmptyFacts
<1>2. CASE document # EmptyDoc
  <2>1. PICK f \in StartFiles : document = Loaded[<<f, TRUE>>].doc
    BY <1>2 DEF EditInit
  <2>2. f \in Files
    BY EditingAssumption
  <2>3. QED
    BY <2>1, <2>2, LoadedFacts
<1>3. QED
  BY <1>1, <1>2

LEMMA StepSound == DocumentInv /\ EditNext => Sound
BY MergeSteps, InsertSteps, RemoveSteps, TreeSteps, NodeSteps, RegistrySteps DEF DocumentInv, EditNext

LEMMA StutterSound == DocumentInv /\ UNCHANGED docVars => DocumentInv'
BY DEF DocumentInv, docVars, IsDoc, IsRegistry

LEMMA DocumentCorrect == EditSpec => []DocumentInv
<1>1. DocumentInv /\ [EditNext]_docVars => DocumentInv'
  BY StepSound, StutterSound DEF Sound, DocumentInv
<1>2. QED
  BY InitSound, <1>1, PTL DEF EditSpec

(***************************************************************************)
(* Whatever files, manifests and trees there are: the factory builds every *)
(* node with the options the document has of it, after any sequence of     *)
(* operations, those that threw half-way included, until a namespace that  *)
(* clashes with a name that is taken parts the two.                        *)
(***************************************************************************)
THEOREM FactoryCorrect == EditSpec => []FactoryMatchesManifest
<1>1. DocumentInv => FactoryMatchesManifest
  BY DEF DocumentInv, IsDoc, IsRegistry, FactoryMatchesManifest
<1>2. QED
  BY <1>1, DocumentCorrect, PTL

(***************************************************************************)
(* A node that is known stays as it is, also where a namespace clashes:    *)
(* only an override, a namespace or a reset changes it.                    *)
(***************************************************************************)
THEOREM RegistrationsCorrect == EditSpec => RegistrationsKept
<1> DEFINE KeepsNodes == operation'.op \notin {"override", "namespace", "reset"} =>
                           \A n \in Registered(document.reg) :
                             n \in Registered(document'.reg) /\ document'.reg.manifest[n] = document.reg.manifest[n]
<1>1. DocumentInv /\ [EditNext]_docVars => [KeepsNodes]_docVars
  <2>1. Sound => KeepsNodes
    BY DEF Sound, Changes, Keeps, Registered
  <2>2. QED
    BY <2>1, StepSound
<1> HIDE DEF KeepsNodes
<1>2. EditSpec => [][KeepsNodes]_docVars
  BY <1>1, DocumentCorrect, PTL DEF EditSpec
<1>3. QED
  BY <1>2 DEF KeepsNodes, RegistrationsKept

(***************************************************************************)
(* Merging or inserting trees that fails leaves every tree where and as it *)
(* was, however deep in the includes or the loop over the trees it does.   *)
(***************************************************************************)
THEOREM FailureCorrect == EditSpec => FailureOnlyAdds
<1> DEFINE Only == operation'.op \in {"merge", "mergeTree", "newTreeFrom", "insertTree", "insertSubTree"}
                     /\ ~operation'.ok => IsPrefix(document.trees, document'.trees)
<1>1. DocumentInv /\ [EditNext]_docVars => [Only]_docVars
  <2>1. DocumentInv /\ Sound => Only
    <3> SUFFICES ASSUME DocumentInv, Sound, operation'.op \in Takes, ~operation'.ok
                 PROVE  IsPrefix(document.trees, document'.trees)
      BY DEF Takes
    <3>1. IsSequence(document.trees) /\ IsSequence(document'.trees)
      BY DEF DocumentInv, Sound, IsDoc
    <3>2. Continues(document.trees, document'.trees)
      BY DEF Sound
    <3>3. QED
      BY <3>1, <3>2, ContinuesIsPrefix
  <2>2. QED
    BY <2>1, StepSound
<1> HIDE DEF Only
<1>2. EditSpec => [][Only]_docVars
  BY <1>1, DocumentCorrect, PTL DEF EditSpec
<1>3. QED
  BY <1>2 DEF Only, FailureOnlyAdds

-----------------------------------------------------------------------------
(***************************************************************************)
(* The trees of a document as a set.                                       *)
(***************************************************************************)
LEMMA AppendedRange ==
  ASSUME NEW s, IsSequence(s), NEW e
  PROVE  Range(Append(s, e)) = Range(s) \cup {e}
<1>1. PICK E : s \in Seq(E)
  BY DEF IsSequence
<1>2. Len(s) \in Nat /\ DOMAIN s = 1..Len(s)
  BY <1>1
<1>3. s \in Seq(E \cup {e}) /\ e \in E \cup {e}
  BY <1>1
<1>4. DOMAIN Append(s, e) = 1..(Len(s) + 1)
  BY <1>3
<1>5. Append(s, e)[Len(s) + 1] = e /\ \A i \in 1..Len(s) : Append(s, e)[i] = s[i]
  BY <1>3
<1>6. 1..(Len(s) + 1) = 1..Len(s) \cup {Len(s) + 1}
  BY <1>2
<1>7. QED
  BY <1>2, <1>4, <1>5, <1>6 DEF Range

\* A result has the trees there were and perhaps some of T, and all once it is done.
Carries(d, T, r) ==
  /\ Range(r.doc.trees) \subseteq Range(d.trees) \cup T
  /\ Range(d.trees) \subseteq Range(r.doc.trees)
  /\ r.ok => T \subseteq Range(r.doc.trees)

LEMMA WithNodesTrees ==
  ASSUME NEW d, IsDoc(d), NEW m, NEW override PROVE WithNodes(d, m, override).doc.trees = d.trees
<1>1. PICK reg : WithNodes(d, m, override).doc = [d EXCEPT !.reg = reg]
  BY DEF WithNodes, WithRegistry
<1>2. [d EXCEPT !.reg = reg] = [trees |-> d.trees, root |-> d.root, reg |-> reg]
  BY DEF IsDoc
<1>3. QED
  BY <1>1, <1>2

LEMMA AppendTreeCarries ==
  ASSUME NEW d, IsDoc(d), NEW tree, NEW verify
  PROVE  Carries(d, {tree}, AppendTree(d, tree, verify))
<1> DEFINE inline == InlineOptions(d.reg, FirstChild(tree.nodes))
           known == WithNodes(d, inline.map, FALSE)
           e == [known.doc EXCEPT !.trees = Append(@, tree)]
<1>1. \/ AppendTree(d, tree, verify) = Thrown(d)
      \/ AppendTree(d, tree, verify) = known /\ ~known.ok
      \/ AppendTree(d, tree, verify) = Ok(e)
  BY DEF AppendTree, Then
<1>2. IsDoc(known.doc) /\ known.doc.trees = d.trees
  BY WithNodesFacts, WithNodesTrees
<1> HIDE DEF known
<1>3. e.trees = Append(d.trees, tree)
  BY <1>2 DEF IsDoc
<1>4. Range(e.trees) = Range(d.trees) \cup {tree}
  BY <1>3, AppendedRange DEF IsDoc
<1> HIDE DEF e
<1>5. QED
  BY <1>1, <1>2, <1>4 DEF Thrown, Ok, Carries

LEMMA AppendTreesCarries ==
  ASSUME NEW d, IsDoc(d), NEW trees, IsSequence(trees), NEW verify
  PROVE  Carries(d, Range(trees), AppendTrees(d, trees, verify))
<1>1. PICK after : /\ after[0] = Ok(d)
                   /\ \A n \in 1..Len(trees) :
                        after[n] = IF after[n - 1].ok THEN AppendTree(after[n - 1].doc, trees[n], verify)
                                   ELSE after[n - 1]
                   /\ AppendTrees(d, trees, verify) = after[Len(trees)]
  BY AppendTreesUnfolds
<1> DEFINE First(n) == {trees[i] : i \in 1..n}
           Good(n) == IsDoc(after[n].doc) /\ Carries(d, First(n), after[n])
           S == {n \in Nat : n <= Len(trees) => Good(n)}
<1>2. Len(trees) \in Nat /\ DOMAIN trees = 1..Len(trees)
  BY LengthIsNat
<1>3. 0 \in S
  BY <1>1 DEF Ok, Carries
<1>4. ASSUME NEW n \in Nat, n \in S PROVE n + 1 \in S
  <2> SUFFICES ASSUME n + 1 <= Len(trees) PROVE Good(n + 1)
    OBVIOUS
  <2> DEFINE next == AppendTree(after[n].doc, trees[n + 1], verify)
  <2>1. Good(n)
    BY <1>2, <1>4
  <2>2. after[n + 1] = IF after[n].ok THEN next ELSE after[n]
    <3>1. n + 1 \in 1..Len(trees) /\ (n + 1) - 1 = n
      BY <1>2
    <3>2. QED
      BY <1>1, <3>1
  <2>3. IsDoc(next.doc) /\ Carries(after[n].doc, {trees[n + 1]}, next)
    BY <2>1, AppendTreeFacts, AppendTreeCarries DEF Grown
  <2>4. First(n + 1) = First(n) \cup {trees[n + 1]}
    <3>1. 1..(n + 1) = 1..n \cup {n + 1}
      OBVIOUS
    <3>2. QED
      BY <3>1
  <2> HIDE DEF next, First
  <2>5. CASE after[n].ok
    BY <2>1, <2>2, <2>3, <2>4, <2>5 DEF Carries
  <2>6. CASE ~after[n].ok
    BY <2>1, <2>2, <2>4, <2>6 DEF Carries
  <2>7. QED
    BY <2>5, <2>6
<1>5. Nat \subseteq S
  <2> HIDE DEF S
  <2>1. QED
    BY <1>3, <1>4, NatSetInduction
<1>6. First(Len(trees)) = Range(trees)
  BY <1>2 DEF Range
<1> HIDE DEF First
<1>7. Good(Len(trees))
  BY <1>2, <1>5
<1>8. QED
  BY <1>1, <1>6, <1>7

LEMMA CarriesOn ==
  ASSUME NEW d, NEW S, NEW r, NEW T, NEW s, Carries(d, S, r), Carries(r.doc, T, s), s.ok => r.ok
  PROVE  Carries(d, S \cup T, s)
BY DEF Carries

LEMMA AdoptRootTrees ==
  ASSUME NEW d, IsDoc(d), NEW xml PROVE AdoptRoot(d, xml).doc.trees = d.trees
<1> DEFINE first == IF xml.root = NoTree THEN Ok(d) ELSE WithRoot(d, xml.root)
           second == WithRoot(first.doc, xml.trees[1].name)
<1>1. AdoptRoot(d, xml) \in {first, second, Ok(first.doc)}
  BY DEF AdoptRoot, Then
<1>2. IsDoc(first.doc) /\ first.doc.trees = d.trees
  BY WithRootFacts DEF Ok, Grown
<1> HIDE DEF first
<1>3. second.doc.trees = d.trees
  BY <1>2, WithRootFacts
<1> HIDE DEF second
<1>4. QED
  BY <1>1, <1>2, <1>3 DEF Ok

LEMMA MergeDirectCarries ==
  ASSUME NEW d, IsDoc(d), NEW xml, IsSequence(xml.trees), NEW adopt
  PROVE  Carries(d, Range(xml.trees), MergeDirect(d, xml, adopt))
<1> DEFINE all == AppendTrees(d, xml.trees, TRUE)
           rooted == AdoptRoot(all.doc, xml)
<1>1. \/ MergeDirect(d, xml, adopt) = Thrown(d)
      \/ MergeDirect(d, xml, adopt) = all
      \/ all.ok /\ MergeDirect(d, xml, adopt) \in {rooted, Ok(all.doc)}
  BY DEF MergeDirect, Then
<1>2. IsDoc(all.doc) /\ Carries(d, Range(xml.trees), all)
  BY AppendTreesFacts, AppendTreesCarries DEF Grown
<1> HIDE DEF all
<1>3. rooted.doc.trees = all.doc.trees
  BY <1>2, AdoptRootTrees
<1> HIDE DEF rooted
<1>4. QED
  BY <1>1, <1>2, <1>3 DEF Carries, Thrown, Ok

LEMMA MergeXmlCarries ==
  ASSUME NEW d, IsDoc(d), NEW xml, IsSequence(xml.trees), NEW buffer, IsSequence(buffer.doc.trees), NEW adopt
  PROVE  LET r == MergeXml(d, xml, buffer, adopt)
         IN  /\ Carries(d, Range(buffer.doc.trees) \cup Range(xml.trees), r)
             /\ r.ok => buffer.ok
<1> DEFINE included == AppendTrees(d, buffer.doc.trees, FALSE)
           merged == MergeDirect(included.doc, xml, adopt)
           r == MergeXml(d, xml, buffer, adopt)
<1>1. \/ r = Thrown(d)
      \/ r = included /\ ~included.ok
      \/ r = merged /\ included.ok /\ buffer.ok
  BY DEF MergeXml, Then
<1>2. IsDoc(included.doc) /\ Carries(d, Range(buffer.doc.trees), included)
  BY AppendTreesFacts, AppendTreesCarries DEF Grown
<1> HIDE DEF included
<1>3. Carries(included.doc, Range(xml.trees), merged)
  BY <1>2, MergeDirectCarries
<1> HIDE DEF merged, r
<1> DEFINE Good == Carries(d, Range(buffer.doc.trees) \cup Range(xml.trees), r) /\ (r.ok => buffer.ok)
<1>4. ASSUME r = merged, included.ok, buffer.ok PROVE Good
  BY <1>2, <1>3, <1>4, CarriesOn
<1>5. ASSUME r = included, ~included.ok PROVE Good
  BY <1>2, <1>5 DEF Carries
<1>6. ASSUME r = Thrown(d) PROVE Good
  BY <1>6 DEF Carries, Thrown
<1>7. Good
  BY <1>1, <1>4, <1>5, <1>6 DEF r
<1>8. QED
  BY <1>7 DEF r


\* Every tree has a name of its own.
Distinct(trees) == \A i, j \in DOMAIN trees : trees[i].name = trees[j].name => i = j

LEMMA TreesAtRange ==
  ASSUME NEW trees, IsSequence(trees), NEW kept, kept \subseteq DOMAIN trees
  PROVE  /\ Range(TreesAt(trees, kept)) = {trees[i] : i \in kept}
         /\ Distinct(trees) => Distinct(TreesAt(trees, kept))
<1> DEFINE Upto(k) == {j \in kept : j <= k}
           rank(k) == Cardinality(Upto(k))
           n == Cardinality(kept)
           f == [k \in kept |-> rank(k)]
           at(i) == CHOOSE k \in kept : rank(k) = i
<1>1. IsFiniteSet(1..Len(trees)) /\ DOMAIN trees = 1..Len(trees) /\ Len(trees) \in Nat
  BY LengthIsNat, FS_Interval
<1>2. IsFiniteSet(kept) /\ n \in Nat /\ kept \subseteq Nat
  BY <1>1, FS_Subset, FS_CardinalityType
<1>3. ASSUME NEW k \in kept PROVE IsFiniteSet(Upto(k)) /\ rank(k) \in 1..n
  <2>1. Upto(k) \in SUBSET kept /\ k \in Upto(k)
    BY <1>2
  <2> HIDE DEF Upto
  <2>2. IsFiniteSet(Upto(k)) /\ Cardinality(Upto(k)) <= n
    BY <1>2, <2>1, FS_Subset
  <2>3. Cardinality(Upto(k)) \in Nat /\ Cardinality(Upto(k)) # 0
    BY <2>1, <2>2, FS_CardinalityType, FS_EmptySet
  <2>4. QED
    BY <1>2, <2>2, <2>3
<1>4. ASSUME NEW k \in kept, NEW l \in kept, k < l PROVE rank(k) # rank(l)
  <2>1. Upto(k) \in SUBSET Upto(l) /\ l \in Upto(l) /\ l \notin Upto(k)
    BY <1>2, <1>4
  <2>2. IsFiniteSet(Upto(l))
    BY <1>3
  <2> HIDE DEF Upto
  <2>3. QED
    BY <2>1, <2>2, FS_Subset
<1>5. \A k, l \in kept : rank(k) = rank(l) => k = l
  <2> HIDE DEF rank
  <2>1. QED
    BY <1>2, <1>4
<1>6. f \in Surjection(kept, 1..n)
  <2> HIDE DEF rank
  <2>1. f \in Injection(kept, 1..n)
    BY <1>3, <1>5 DEF Injection, IsInjective
  <2>2. IsFiniteSet(1..n) /\ Cardinality(1..n) = n
    BY <1>2, FS_Interval
  <2> HIDE DEF f
  <2>3. QED
    BY <1>2, <2>1, <2>2, FS_Injection
<1>7. \A i \in 1..n : \E k \in kept : rank(k) = i
  <2> HIDE DEF rank
  <2>1. QED
    BY <1>6 DEF Surjection
<1>8. \A i \in 1..n : at(i) \in kept /\ rank(at(i)) = i
  <2> HIDE DEF rank
  <2>1. QED
    BY <1>7
<1>9. \A k \in kept : rank(k) \in 1..n /\ at(rank(k)) = k
  <2> HIDE DEF rank
  <2>1. QED
    BY <1>3, <1>5
<1>10. TreesAt(trees, kept) = [i \in 1..n |-> trees[at(i)]]
  BY DEF TreesAt
<1> HIDE DEF rank, at, n
<1>11. Range(TreesAt(trees, kept)) = {trees[i] : i \in kept}
  BY <1>8, <1>9, <1>10 DEF Range
<1>12. ASSUME Distinct(trees) PROVE Distinct(TreesAt(trees, kept))
  <2> SUFFICES ASSUME NEW i \in 1..n, NEW j \in 1..n, trees[at(i)].name = trees[at(j)].name PROVE i = j
    BY <1>10 DEF Distinct
  <2>1. at(i) = at(j)
    BY <1>8, <1>12 DEF Distinct
  <2>2. QED
    BY <1>8, <2>1
<1>13. QED
  BY <1>11, <1>12

-----------------------------------------------------------------------------
(***************************************************************************)
(* The trees that trees refer to.                                          *)
(***************************************************************************)
\* One more round of following references.
Followed(trees, R) == R \cup UNION {Refs(trees[i].nodes) : i \in {j \in DOMAIN trees : trees[j].name \in R}}

\* reached is what the rounds reach from S.
Rounds(trees, S, reached) ==
  /\ reached[0] = S
  /\ \A n \in 1..Len(trees) : reached[n] = Followed(trees, reached[n - 1])
  /\ Closure(trees, S) = reached[Len(trees)] \cap TreeNames(trees)

LEMMA ClosureUnfolds ==
  ASSUME NEW trees, IsSequence(trees), NEW S0 PROVE \E reached : Rounds(trees, S0, reached)
<1> DEFINE With(R) == R \cup UNION {Refs(trees[i].nodes) : i \in {j \in DOMAIN trees : trees[j].name \in R}}
           Is(f, n) == f = [m \in 0..n |-> IF m = 0 THEN S0 ELSE With(f[m - 1])]
           S == {n \in Nat : \E f : Is(f, n)}
           N == Len(trees)
<1>0. N \in Nat
  BY LengthIsNat
<1>1. Closure(trees, S0) = (CHOOSE f : Is(f, N))[N] \cap TreeNames(trees)
  BY DEF Closure
<1> HIDE DEF With, N
<1>2. 0 \in S
  <2>1. Is([m \in 0..0 |-> S0], 0)
    OBVIOUS
  <2>2. \E f : Is(f, 0)
    BY <2>1
  <2>3. QED
    BY <2>2
<1>3. ASSUME NEW n \in Nat, n \in S PROVE n + 1 \in S
  <2>1. PICK f : Is(f, n)
    BY <1>3
  <2> DEFINE g == [m \in 0..(n + 1) |-> IF m = n + 1 THEN With(f[n]) ELSE f[m]]
  <2>2. ASSUME NEW m \in 0..(n + 1) PROVE g[m] = IF m = 0 THEN S0 ELSE With(g[m - 1])
    BY <2>1
  <2>3. Is(g, n + 1)
    BY <2>2
  <2>4. \E h : Is(h, n + 1)
    BY <2>3
  <2>5. QED
    BY <2>4
<1>4. Nat \subseteq S
  <2> HIDE DEF S
  <2>1. QED
    BY <1>2, <1>3, NatSetInduction
<1>5. \E f : Is(f, N)
  BY <1>0, <1>4
<1> DEFINE reached == CHOOSE f : Is(f, N)
<1>6. Is(reached, N)
  BY <1>5
<1>7. Closure(trees, S0) = reached[N] \cap TreeNames(trees)
  BY <1>1
<1> HIDE DEF reached
<1>8. reached[0] = S0 /\ \A n \in 1..N : reached[n] = With(reached[n - 1])
  BY <1>0, <1>6
<1>9. QED
  BY <1>7, <1>8 DEF With, N, Followed, Rounds

LEMMA NamesFinite ==
  ASSUME NEW trees, IsSequence(trees)
  PROVE  IsFiniteSet(TreeNames(trees)) /\ Cardinality(TreeNames(trees)) \in Nat
         /\ Cardinality(TreeNames(trees)) <= Len(trees)
<1> DEFINE f == [i \in 1..Len(trees) |-> trees[i].name]
<1>1. Len(trees) \in Nat /\ DOMAIN trees = 1..Len(trees)
  BY LengthIsNat
<1>2. f \in Surjection(1..Len(trees), TreeNames(trees))
  BY <1>1 DEF Surjection, TreeNames
<1>3. IsFiniteSet(1..Len(trees)) /\ Cardinality(1..Len(trees)) = Len(trees)
  <2> DEFINE n == Len(trees)
  <2>1. n \in Nat
    BY <1>1
  <2> HIDE DEF n
  <2>2. IsFiniteSet(1..n) /\ Cardinality(1..n) = n
    BY <2>1, FS_Interval
  <2>3. QED
    BY <2>2 DEF n
<1>4. QED
  BY <1>2, <1>3, FS_Surjection, FS_CardinalityType

(***************************************************************************)
(* As many rounds as there are trees are enough: what is reached is closed *)
(* under references to trees that are there.                               *)
(***************************************************************************)
LEMMA ClosureFacts ==
  ASSUME NEW trees, IsSequence(trees), NEW S
  PROVE  /\ S \cap TreeNames(trees) \subseteq Closure(trees, S)
         /\ Closure(trees, S) \subseteq TreeNames(trees)
         /\ \A i \in DOMAIN trees : trees[i].name \in Closure(trees, S) =>
              Refs(trees[i].nodes) \cap TreeNames(trees) \subseteq Closure(trees, S)
<1>1. PICK reached : Rounds(trees, S, reached)
  BY ClosureUnfolds
<1> DEFINE N == TreeNames(trees)
           In(n) == reached[n] \cap N
           Closed(n) == \A i \in DOMAIN trees : trees[i].name \in reached[n] => Refs(trees[i].nodes) \cap N \subseteq reached[n]
           Good(n) == S \subseteq reached[n] /\ (Closed(n) \/ Cardinality(In(n)) >= n + 1)
           G == {n \in Nat : n <= Len(trees) => Good(n)}
<1>2. Len(trees) \in Nat /\ DOMAIN trees = 1..Len(trees)
  BY LengthIsNat
<1>3. IsFiniteSet(N) /\ Cardinality(N) \in Nat /\ Cardinality(N) <= Len(trees)
  BY NamesFinite
<1>4. \A i \in DOMAIN trees : trees[i].name \in N
  BY DEF TreeNames
<1> HIDE DEF N
<1>5. \A n : IsFiniteSet(In(n)) /\ Cardinality(In(n)) \in Nat /\ Cardinality(In(n)) <= Cardinality(N)
  <2> SUFFICES ASSUME NEW n PROVE IsFiniteSet(In(n)) /\ Cardinality(In(n)) \in Nat /\ Cardinality(In(n)) <= Cardinality(N)
    OBVIOUS
  <2>1. In(n) \in SUBSET N
    OBVIOUS
  <2> HIDE DEF In
  <2>2. QED
    BY <1>3, <2>1, FS_Subset, FS_CardinalityType
<1>6. 0 \in G
  <2>1. reached[0] = S
    BY <1>1 DEF Rounds
  <2>2. CASE In(0) = {}
    BY <1>4, <2>1, <2>2
  <2>3. CASE In(0) # {}
    <3>1. Cardinality(In(0)) # 0
      <4>1. IsFiniteSet(In(0))
        BY <1>5
      <4> HIDE DEF In
      <4>2. QED
        BY <2>3, <4>1, FS_EmptySet
    <3>2. Cardinality(In(0)) \in Nat
      BY <1>5
    <3> HIDE DEF In
    <3>3. QED
      BY <2>1, <3>1, <3>2
  <2>4. QED
    BY <2>2, <2>3
<1>7. ASSUME NEW n \in Nat, n \in G PROVE n + 1 \in G
  <2> SUFFICES ASSUME n + 1 <= Len(trees) PROVE Good(n + 1)
    OBVIOUS
  <2>1. Good(n)
    BY <1>2, <1>7
  <2>2. reached[n + 1] = Followed(trees, reached[n])
    <3>1. n + 1 \in 1..Len(trees) /\ (n + 1) - 1 = n
      BY <1>2
    <3>2. QED
      BY <1>1, <3>1 DEF Rounds
  <2>3. reached[n] \subseteq reached[n + 1]
    BY <2>2 DEF Followed
  <2>4. CASE Closed(n)
    <3>1. In(n + 1) \subseteq In(n)
      BY <2>2, <2>4 DEF Followed
    <3>2. Closed(n + 1)
      BY <1>4, <2>3, <2>4, <3>1
    <3>3. QED
      BY <2>1, <2>3, <3>2
  <2>5. CASE ~Closed(n)
    <3>1. PICK x : x \in N /\ x \notin reached[n] /\ x \in reached[n + 1]
      BY <2>2, <2>5 DEF Followed
    <3>2. In(n) \in SUBSET In(n + 1) /\ x \in In(n + 1) /\ x \notin In(n)
      BY <2>3, <3>1
    <3>3. Cardinality(In(n)) >= n + 1
      BY <2>1, <2>5
    <3>4. Cardinality(In(n)) \in Nat /\ Cardinality(In(n + 1)) \in Nat /\ IsFiniteSet(In(n + 1))
      BY <1>5
    <3>5. Cardinality(In(n + 1)) >= (n + 1) + 1
      <4> HIDE DEF In
      <4>1. Cardinality(In(n)) <= Cardinality(In(n + 1)) /\ Cardinality(In(n)) # Cardinality(In(n + 1))
        BY <3>2, <3>4, FS_Subset
      <4>2. QED
        BY <3>3, <3>4, <4>1
    <3> HIDE DEF In, Closed
    <3>6. QED
      BY <2>1, <2>3, <3>5
  <2>6. QED
    BY <2>4, <2>5
<1>8. Nat \subseteq G
  <2> HIDE DEF G
  <2>1. QED
    BY <1>6, <1>7, NatSetInduction
<1>9. Good(Len(trees))
  <2> HIDE DEF Good
  <2>1. QED
    BY <1>2, <1>8
<1>10. Closed(Len(trees))
  <2>1. ~(Cardinality(In(Len(trees))) >= Len(trees) + 1)
    <3>1. Cardinality(In(Len(trees))) \in Nat /\ Cardinality(In(Len(trees))) <= Cardinality(N)
      BY <1>5
    <3> HIDE DEF In
    <3>2. QED
      BY <1>2, <1>3, <3>1
  <2> HIDE DEF Closed, In
  <2>2. QED
    BY <1>9, <2>1
<1>11. Closure(trees, S) = In(Len(trees))
  BY <1>1 DEF Rounds, N
<1>12. QED
  BY <1>9, <1>10, <1>11 DEF N

LEMMA ClosureMonotone ==
  ASSUME NEW trees, IsSequence(trees), NEW S, NEW T, S \subseteq T
  PROVE  Closure(trees, S) \subseteq Closure(trees, T)
<1>1. PICK r : Rounds(trees, S, r)
  BY ClosureUnfolds
<1>2. PICK s : Rounds(trees, T, s)
  BY ClosureUnfolds
<1> DEFINE G == {n \in Nat : n <= Len(trees) => r[n] \subseteq s[n]}
<1>3. Len(trees) \in Nat
  BY LengthIsNat
<1>4. 0 \in G
  BY <1>1, <1>2 DEF Rounds
<1>5. ASSUME NEW n \in Nat, n \in G PROVE n + 1 \in G
  <2> SUFFICES ASSUME n + 1 <= Len(trees) PROVE r[n + 1] \subseteq s[n + 1]
    OBVIOUS
  <2>1. r[n] \subseteq s[n]
    BY <1>3, <1>5
  <2>2. n + 1 \in 1..Len(trees) /\ (n + 1) - 1 = n
    BY <1>3
  <2>3. r[n + 1] = Followed(trees, r[n]) /\ s[n + 1] = Followed(trees, s[n])
    BY <1>1, <1>2, <2>2 DEF Rounds
  <2>4. QED
    BY <2>1, <2>3 DEF Followed
<1>6. Nat \subseteq G
  <2> HIDE DEF G
  <2>1. QED
    BY <1>4, <1>5, NatSetInduction
<1>7. r[Len(trees)] \subseteq s[Len(trees)]
  BY <1>3, <1>6
<1>8. QED
  BY <1>1, <1>2, <1>7 DEF Rounds

-----------------------------------------------------------------------------
(***************************************************************************)
(* References without a tree, of documents that are put together.          *)
(***************************************************************************)
NamesIn(T) == {tree.name : tree \in T}
RefsIn(T) == UNION {Refs(tree.nodes) : tree \in T}
Loose(T) == RefsIn(T) \ NamesIn(T)

LEMMA InFacts ==
  /\ \A trees : TreeNames(trees) = NamesIn(Range(trees)) /\ RefsOf(trees) = RefsIn(Range(trees))
  /\ \A S, T : NamesIn(S \cup T) = NamesIn(S) \cup NamesIn(T) /\ RefsIn(S \cup T) = RefsIn(S) \cup RefsIn(T)
<1>1. \A trees : TreeNames(trees) = NamesIn(Range(trees))
  BY DEF TreeNames, NamesIn, Range
<1>2. \A trees : RefsOf(trees) = RefsIn(Range(trees))
  BY DEF RefsOf, RefsIn, Range
<1>3. \A S, T : NamesIn(S \cup T) = NamesIn(S) \cup NamesIn(T)
  BY DEF NamesIn
<1>4. \A S, T : RefsIn(S \cup T) = RefsIn(S) \cup RefsIn(T)
  BY DEF RefsIn
<1>5. QED
  BY <1>1, <1>2, <1>3, <1>4

LEMMA DanglingLoose == \A d : Dangling(d) = Loose(Range(d.trees))
BY InFacts DEF Dangling, Loose

LEMMA LooseUnion == \A S, T : Loose(S \cup T) \subseteq Loose(S) \cup Loose(T)
BY InFacts DEF Loose

LEMMA NumberOfFacts ==
  ASSUME NEW trees, IsSequence(trees), NEW name \in TreeNames(trees)
  PROVE  NumberOf(trees, name) \in DOMAIN trees /\ trees[NumberOf(trees, name)].name = name
<1> DEFINE Numbers == {i \in 1..Len(trees) : trees[i].name = name}
<1>1. Len(trees) \in Nat /\ DOMAIN trees = 1..Len(trees)
  BY LengthIsNat
<1>2. Numbers \subseteq Nat /\ Numbers # {}
  BY <1>1 DEF TreeNames
<1>3. PICK i \in Numbers : \A j \in Numbers : i <= j
  <2> DEFINE S == {k \in Nat : \A m \in 0..k : m \notin Numbers}
  <2>1. ASSUME \A i \in Numbers : \E j \in Numbers : j < i PROVE FALSE
    <3>1. 0 \in S
      BY <1>1
    <3>2. ASSUME NEW k \in Nat, k \in S PROVE k + 1 \in S
      BY <1>2, <2>1, <3>2
    <3> HIDE DEF S
    <3>3. Nat \subseteq S
      BY <3>1, <3>2, NatSetInduction
    <3>4. QED
      BY <1>2, <3>3 DEF S
  <2>2. QED
    BY <1>2, <2>1
<1>4. i \in DOMAIN trees /\ trees[i].name = name /\ \A j \in 1..(i - 1) : trees[j].name # name
  BY <1>1, <1>3
<1>5. QED
  BY <1>4 DEF NumberOf

\* A tree that is picked comes with what it refers to.
LEMMA PickLoose ==
  ASSUME NEW d, IsDoc(d), NEW name
  PROVE  LET e == Pick(d, name)
         IN  Dangling(e) \subseteq Dangling(d) /\ Range(e.trees) \subseteq Range(d.trees)
<1> DEFINE C == Closure(d.trees, {name})
           kept == {i \in DOMAIN d.trees : d.trees[i].name \in C}
           picked == TreesAt(d.trees, kept)
           e == [d EXCEPT !.trees = picked]
<1>1. CASE name = NoTree
  BY <1>1 DEF Pick
<1>2. CASE name # NoTree
  <2>1. Pick(d, name) = e
    BY <1>2 DEF Pick
  <2>2. Range(picked) = {d.trees[i] : i \in kept}
    <3>1. IsSequence(d.trees) /\ kept \subseteq DOMAIN d.trees
      BY DEF IsDoc
    <3> HIDE DEF kept
    <3>2. QED
      BY <3>1, TreesAtRange
  <2>3. \A i \in DOMAIN d.trees : d.trees[i].name \in C => Refs(d.trees[i].nodes) \cap TreeNames(d.trees) \subseteq C
    BY ClosureFacts DEF IsDoc
  <2>4. e.trees = picked
    BY DEF IsDoc
  <2> HIDE DEF C, picked
  <2>5. Range(picked) \subseteq Range(d.trees)
    BY <2>2 DEF Range
  <2>6. Loose(Range(picked)) \subseteq Dangling(d)
    <3> SUFFICES ASSUME NEW r \in Loose(Range(picked)) PROVE r \in Dangling(d)
      OBVIOUS
    <3>1. PICK i \in kept : r \in Refs(d.trees[i].nodes)
      BY <2>2 DEF Loose, RefsIn
    <3>2. r \in TreeNames(d.trees) => r \in C
      BY <2>3, <3>1
    <3>3. \A j \in kept : d.trees[j].name # r
      <4>1. \A j \in kept : d.trees[j] \in Range(picked)
        BY <2>2
      <4> HIDE DEF kept
      <4>2. QED
        BY <4>1 DEF Loose, NamesIn
    <3>4. r \notin TreeNames(d.trees)
      BY <3>2, <3>3 DEF TreeNames
    <3>5. r \in RefsOf(d.trees)
      BY <3>1 DEF RefsOf
    <3>6. QED
      BY <3>4, <3>5 DEF Dangling
  <2> HIDE DEF e
  <2>7. QED
    BY <2>1, <2>4, <2>5, <2>6, DanglingLoose
<1>3. QED
  BY <1>1, <1>2

LEMMA DropSharedRange ==
  ASSUME NEW d, IsDoc(d), NEW buffer, IsDoc(buffer)
  PROVE  /\ Range(DropShared(d, buffer).trees) \subseteq Range(d.trees)
         /\ Range(d.trees) \subseteq Range(DropShared(d, buffer).trees) \cup Range(buffer.trees)
<1> DEFINE Shared(tree) == HasTree(buffer, tree.name) /\ GetTree(buffer, tree.name) = tree
           kept == {i \in DOMAIN d.trees : ~Shared(d.trees[i])}
           left == TreesAt(d.trees, kept)
<1>1. DropShared(d, buffer).trees = left
  BY DEF DropShared, IsDoc
<1>2. Range(left) = {d.trees[i] : i \in kept}
  <2>1. IsSequence(d.trees) /\ kept \subseteq DOMAIN d.trees
    BY DEF IsDoc
  <2> HIDE DEF kept
  <2>2. QED
    BY <2>1, TreesAtRange
<1> HIDE DEF left
<1>3. \A tree : Shared(tree) => tree \in Range(buffer.trees)
  BY NumberOfFacts DEF IsDoc, HasTree, GetTree, Range
<1> HIDE DEF Shared
<1>4. Range(left) \subseteq Range(d.trees)
  BY <1>2 DEF Range
<1>5. \A i \in DOMAIN d.trees : d.trees[i] \in Range(left) \/ Shared(d.trees[i])
  BY <1>2
<1>6. \A i \in DOMAIN d.trees : d.trees[i] \in Range(left) \cup Range(buffer.trees)
  BY <1>3, <1>5
<1>7. Range(d.trees) \subseteq Range(left) \cup Range(buffer.trees)
  BY <1>6 DEF Range
<1>8. QED
  BY <1>1, <1>4, <1>7

LEMMA IncludeCarries ==
  ASSUME NEW buffer, IsDoc(buffer), NEW work, IsDoc(work.doc), NEW pick
  PROVE  LET r == Include(buffer, work, pick)
         IN  /\ Range(r.doc.trees) \subseteq Range(buffer.trees) \cup Range(work.doc.trees)
             /\ r.ok => work.ok /\ Dangling(r.doc) \subseteq Dangling(buffer) \cup Dangling(work.doc)
<1> DEFINE picked == Pick(work.doc, pick)
           left == DropShared(picked, buffer)
           xml == XmlOf(left)
           merged == MergeXml(buffer, xml, Ok(EmptyDoc), FALSE)
           r == Include(buffer, work, pick)
           Good == /\ Range(r.doc.trees) \subseteq Range(buffer.trees) \cup Range(work.doc.trees)
                   /\ r.ok => work.ok /\ Dangling(r.doc) \subseteq Dangling(buffer) \cup Dangling(work.doc)
<1>1. r = Thrown(buffer) \/ (r = merged /\ work.ok)
  BY DEF Include
<1>2. IsDoc(picked) /\ Range(picked.trees) \subseteq Range(work.doc.trees) /\ Dangling(picked) \subseteq Dangling(work.doc)
  BY PickFacts, PickLoose
<1> HIDE DEF picked
<1>3. /\ IsDoc(left)
      /\ Range(left.trees) \subseteq Range(picked.trees)
      /\ Range(picked.trees) \subseteq Range(left.trees) \cup Range(buffer.trees)
  BY <1>2, DropSharedFacts, DropSharedRange
<1> HIDE DEF left
<1>4. IsSequence(xml.trees) /\ IsSequence(Ok(EmptyDoc).doc.trees) /\ xml.trees = left.trees
  BY <1>3, XmlOfFacts DEF XmlOf
<1>5. Range(Ok(EmptyDoc).doc.trees) = {}
  BY DEF Ok, EmptyDoc, Range
<1> HIDE DEF xml
<1>6. Carries(buffer, Range(left.trees), merged)
  BY <1>4, <1>5, MergeXmlCarries
<1> HIDE DEF merged, r
<1>7. ASSUME r = merged, work.ok PROVE Good
  <2>1. Range(r.doc.trees) \subseteq Range(buffer.trees) \cup Range(work.doc.trees)
    BY <1>2, <1>3, <1>6, <1>7 DEF Carries
  <2>2. ASSUME r.ok PROVE Dangling(r.doc) \subseteq Dangling(buffer) \cup Dangling(work.doc)
    <3>1. Range(r.doc.trees) = Range(buffer.trees) \cup Range(picked.trees)
      BY <1>3, <1>6, <1>7, <2>2 DEF Carries
    <3>2. Loose(Range(r.doc.trees)) \subseteq Loose(Range(buffer.trees)) \cup Loose(Range(picked.trees))
      BY <3>1, LooseUnion
    <3>3. QED
      BY <1>2, <3>2, DanglingLoose
  <2>3. QED
    BY <1>7, <2>1, <2>2
<1>8. ASSUME r = Thrown(buffer) PROVE Good
  BY <1>8 DEF Thrown
<1>9. Good
  BY <1>1, <1>7, <1>8
<1>10. QED
  BY <1>9 DEF r

LEMMA IncludesFacts ==
  ASSUME NEW f \in DOMAIN Content
  PROVE  /\ IsSequence(Content[f].includes)
         /\ \A n \in 1..Len(Content[f].includes) : Content[f].includes[n].file \in Files
<1> DEFINE includes == Content[f].includes
           T == {inc.tree : inc \in Range(includes)}
           Inclusion == [file : Files, tree : T]
<1>1. includes \in Seq(Inclusion) /\ \A inc \in Inclusion : inc.file \in Files
  BY ContentAssumption
<1> HIDE DEF includes, Inclusion
<1>2. IsSequence(includes)
  BY <1>1 DEF IsSequence
<1>3. ASSUME NEW n \in 1..Len(includes) PROVE includes[n].file \in Files
  <2>1. includes[n] \in Inclusion
    BY <1>1
  <2>2. QED
    BY <1>1, <2>1
<1>4. QED
  BY <1>2, <1>3 DEF includes

\* The loop over the includes of a file.
Including(f, work, after) ==
  LET includes == Content[f].includes
  IN  /\ after[0] = Ok(EmptyDoc)
      /\ \A n \in 1..Len(includes) :
           after[n] = IF after[n - 1].ok THEN Include(after[n - 1].doc, work[includes[n].file], includes[n].tree)
                      ELSE after[n - 1]
      /\ IncludeBuffer(includes, work) = after[Len(includes)]

LEMMA IncludingFacts ==
  ASSUME NEW f \in DOMAIN Content, NEW work, AllRead(work)
  PROVE  \E after : Including(f, work, after) /\ \A n \in 0..Len(Content[f].includes) : IsDoc(after[n].doc)
<1> DEFINE includes == Content[f].includes
<1>1. IsSequence(includes) /\ \A n \in 1..Len(includes) : includes[n].file \in Files
  BY IncludesFacts
<1>2. PICK after : Including(f, work, after)
  BY <1>1, IncludeBufferUnfolds DEF Including
<1> DEFINE S == {n \in Nat : n <= Len(includes) => IsDoc(after[n].doc)}
<1>3. Len(includes) \in Nat
  BY <1>1, LengthIsNat
<1> HIDE DEF includes
<1>4. 0 \in S
  BY <1>2, EmptyFacts DEF Ok, Including
<1>5. ASSUME NEW n \in Nat, n \in S PROVE n + 1 \in S
  <2> SUFFICES ASSUME n + 1 <= Len(includes) PROVE IsDoc(after[n + 1].doc)
    OBVIOUS
  <2> DEFINE next == Include(after[n].doc, work[includes[n + 1].file], includes[n + 1].tree)
  <2>1. IsDoc(after[n].doc)
    BY <1>3, <1>5
  <2>2. n + 1 \in 1..Len(includes) /\ (n + 1) - 1 = n
    BY <1>3
  <2>3. after[n + 1] = IF after[n].ok THEN next ELSE after[n]
    BY <1>2, <2>2 DEF Including, includes
  <2>4. IsDoc(work[includes[n + 1].file].doc)
    BY <1>1, <2>2 DEF AllRead
  <2>5. IsDoc(next.doc)
    BY <2>1, <2>4, IncludeFacts DEF Grown
  <2> HIDE DEF next
  <2>6. QED
    BY <2>1, <2>3, <2>5
<1>6. Nat \subseteq S
  <2> HIDE DEF S
  <2>1. QED
    BY <1>4, <1>5, NatSetInduction
<1>7. \A n \in 0..Len(includes) : IsDoc(after[n].doc)
  BY <1>3, <1>6
<1>8. QED
  BY <1>2, <1>7 DEF includes

LEMMA IncludeBufferOpen ==
  ASSUME NEW f \in DOMAIN Content, NEW work, AllRead(work), NEW L,
         \A g \in Files : work[g].ok => Dangling(work[g].doc) \subseteq L,
         IncludeBuffer(Content[f].includes, work).ok
  PROVE  Dangling(IncludeBuffer(Content[f].includes, work).doc) \subseteq L
<1> DEFINE includes == Content[f].includes
<1>1. IsSequence(includes) /\ \A n \in 1..Len(includes) : includes[n].file \in Files
  BY IncludesFacts
<1>2. PICK after : Including(f, work, after) /\ \A n \in 0..Len(includes) : IsDoc(after[n].doc)
  BY IncludingFacts
<1> DEFINE S == {n \in Nat : n <= Len(includes) /\ after[n].ok => Dangling(after[n].doc) \subseteq L}
<1>3. Len(includes) \in Nat
  BY <1>1, LengthIsNat
<1> HIDE DEF includes
<1>4. 0 \in S
  BY <1>2 DEF Ok, Including, Dangling, RefsOf, EmptyDoc
<1>5. ASSUME NEW n \in Nat, n \in S PROVE n + 1 \in S
  <2> SUFFICES ASSUME n + 1 <= Len(includes), after[n + 1].ok PROVE Dangling(after[n + 1].doc) \subseteq L
    OBVIOUS
  <2> DEFINE of == work[includes[n + 1].file]
             next == Include(after[n].doc, of, includes[n + 1].tree)
  <2>1. n + 1 \in 1..Len(includes) /\ (n + 1) - 1 = n /\ n \in 0..Len(includes)
    BY <1>3
  <2>2. after[n + 1] = IF after[n].ok THEN next ELSE after[n]
    BY <1>2, <2>1 DEF Including, includes
  <2>3. after[n].ok /\ after[n + 1] = next
    BY <2>2
  <2>4. Dangling(after[n].doc) \subseteq L
    BY <1>3, <1>5, <2>1, <2>3
  <2>5. IsDoc(of.doc) /\ (of.ok => Dangling(of.doc) \subseteq L)
    BY <1>1, <2>1 DEF AllRead
  <2> HIDE DEF of
  <2>6. next.ok => of.ok /\ Dangling(next.doc) \subseteq Dangling(after[n].doc) \cup Dangling(of.doc)
    BY <1>2, <2>1, <2>5, IncludeCarries
  <2> HIDE DEF next
  <2>7. QED
    BY <2>3, <2>4, <2>5, <2>6
<1>6. Nat \subseteq S
  <2> HIDE DEF S
  <2>1. QED
    BY <1>4, <1>5, NatSetInduction
<1>7. after[Len(includes)] = IncludeBuffer(Content[f].includes, work)
  BY <1>2 DEF Including, includes
<1>8. QED
  BY <1>3, <1>6, <1>7

(***************************************************************************)
(* What is read of a file does not depend on the files that include it, as *)
(* long as none of them is included again.                                 *)
(***************************************************************************)
LEMMA IncludeBufferSame ==
  ASSUME NEW f \in DOMAIN Content, NEW work, AllRead(work), NEW other, AllRead(other),
         \A g \in Files : work[g].ok => other[g] = work[g],
         IncludeBuffer(Content[f].includes, work).ok
  PROVE  IncludeBuffer(Content[f].includes, other) = IncludeBuffer(Content[f].includes, work)
<1> DEFINE includes == Content[f].includes
<1>1. IsSequence(includes) /\ \A n \in 1..Len(includes) : includes[n].file \in Files
  BY IncludesFacts
<1>2. PICK after : Including(f, work, after) /\ \A n \in 0..Len(includes) : IsDoc(after[n].doc)
  BY IncludingFacts
<1>3. PICK alike : Including(f, other, alike)
  BY IncludingFacts
<1> DEFINE S == {n \in Nat : n <= Len(includes) /\ after[n].ok => alike[n] = after[n]}
<1>4. Len(includes) \in Nat
  BY <1>1, LengthIsNat
<1> HIDE DEF includes
<1>5. 0 \in S
  BY <1>2, <1>3 DEF Including
<1>6. ASSUME NEW n \in Nat, n \in S PROVE n + 1 \in S
  <2> SUFFICES ASSUME n + 1 <= Len(includes), after[n + 1].ok PROVE alike[n + 1] = after[n + 1]
    OBVIOUS
  <2> DEFINE of == includes[n + 1].file
             next(d, w) == Include(d, w[of], includes[n + 1].tree)
  <2>1. n + 1 \in 1..Len(includes) /\ (n + 1) - 1 = n /\ n \in 0..Len(includes)
    BY <1>4
  <2>2. after[n + 1] = IF after[n].ok THEN next(after[n].doc, work) ELSE after[n]
    BY <1>2, <2>1 DEF Including, includes
  <2>3. alike[n + 1] = IF alike[n].ok THEN next(alike[n].doc, other) ELSE alike[n]
    BY <1>3, <2>1 DEF Including, includes
  <2>4. after[n].ok /\ next(after[n].doc, work).ok
    BY <2>2
  <2>5. alike[n] = after[n]
    BY <1>4, <1>6, <2>1, <2>4
  <2>6. of \in Files /\ IsDoc(work[of].doc)
    BY <1>1, <2>1 DEF AllRead
  <2>7. work[of].ok
    BY <1>2, <2>1, <2>4, <2>6, IncludeCarries
  <2>8. other[of] = work[of]
    BY <2>6, <2>7
  <2> HIDE DEF of
  <2>9. QED
    BY <2>2, <2>3, <2>4, <2>5, <2>8
<1>7. Nat \subseteq S
  <2> HIDE DEF S
  <2>1. QED
    BY <1>5, <1>6, NatSetInduction
<1>8. /\ after[Len(includes)] = IncludeBuffer(Content[f].includes, work)
      /\ alike[Len(includes)] = IncludeBuffer(Content[f].includes, other)
  BY <1>2, <1>3 DEF Including, includes
<1>9. QED
  BY <1>4, <1>7, <1>8

LEMMA ReadFileOk ==
  ASSUME NEW f \in DOMAIN Content, NEW work, AllRead(work), ReadFile(f, work).ok
  PROVE  LET b == IncludeBuffer(Content[f].includes, work)
         IN  /\ b.ok /\ IsDoc(b.doc)
             /\ Range(ReadFile(f, work).doc.trees) = Range(b.doc.trees) \cup Range(Content[f].trees)
<1> DEFINE b == IncludeBuffer(Content[f].includes, work)
           r == MergeXml(EmptyDoc, Content[f], b, FALSE)
<1>1. ReadFile(f, work) = r
  BY DEF ReadFile
<1>2. IsDoc(b.doc) /\ IsSequence(b.doc.trees)
  BY IncludeBufferFacts DEF IsDoc
<1>3. IsSequence(Content[f].trees)
  BY ContentAssumption DEF IsSequence
<1> HIDE DEF b
<1>4. Carries(EmptyDoc, Range(b.doc.trees) \cup Range(Content[f].trees), r) /\ (r.ok => b.ok)
  BY <1>2, <1>3, EmptyFacts, MergeXmlCarries
<1>5. Range(EmptyDoc.trees) = {}
  BY DEF EmptyDoc, Range
<1> HIDE DEF r
<1>6. r.ok
  BY <1>1
<1>7. b.ok /\ Range(r.doc.trees) = Range(b.doc.trees) \cup Range(Content[f].trees)
  BY <1>4, <1>5, <1>6 DEF Carries
<1>8. QED
  BY <1>1, <1>2, <1>7 DEF b

\* Induction over the files that are left.
LEMMA LeftInduction ==
  ASSUME NEW Good,
         \A R \in SUBSET Files : (\A f \in Files \ R : R \cup {f} \in Good) => R \in Good
  PROVE  SUBSET Files \subseteq Good
<1> DEFINE N == {n \in Nat : \A R \in SUBSET Files : Left(R) <= n => R \in Good}
<1>1. 0 \in N
  <2>1. ASSUME NEW R \in SUBSET Files, Left(R) <= 0 PROVE R \in Good
    <3>1. R = Files
      BY <2>1, LeftFacts
    <3>2. QED
      BY <3>1
  <2>2. QED
    BY <2>1
<1>2. ASSUME NEW n \in Nat, n \in N PROVE n + 1 \in N
  <2>1. ASSUME NEW R \in SUBSET Files, Left(R) <= n + 1 PROVE R \in Good
    <3>1. \A f \in Files \ R : R \cup {f} \in SUBSET Files /\ Left(R \cup {f}) <= n
      BY <2>1, LeftFacts
    <3>2. \A f \in Files \ R : R \cup {f} \in Good
      BY <1>2, <3>1
    <3>3. QED
      BY <3>2
  <2>2. QED
    BY <2>1
<1>3. Nat \subseteq N
  <2> HIDE DEF N
  <2>1. QED
    BY <1>1, <1>2, NatSetInduction
<1>4. \A R \in SUBSET Files : Left(R) \in Nat
  BY LeftFacts
<1>5. QED
  BY <1>3, <1>4

LEMMA ReadInFull ==
  \A S \in SUBSET Files : \A f \in Files :
    WorkDocs[S][f] = IF f \in S \/ f \notin DOMAIN Content THEN Thrown(EmptyDoc)
                     ELSE ReadFile(f, WorkDocs[S \cup {f}])
<1>1. \A S \in SUBSET Files : WorkDocs[S] = ReadWith(S, WorkDocs)
  BY WorkDocsDef
<1>2. QED
  BY <1>1 DEF ReadWith

LEMMA WorkDocsSame ==
  ASSUME NEW S \in SUBSET Files, NEW T \in SUBSET Files, S \subseteq T, NEW f \in Files, WorkDocs[T][f].ok
  PROVE  WorkDocs[S][f] = WorkDocs[T][f]
<1> DEFINE Good == {R \in SUBSET Files : \A Q \in SUBSET R : \A g \in Files : WorkDocs[R][g].ok => WorkDocs[Q][g] = WorkDocs[R][g]}
<1>1. \A R \in SUBSET Files : AllRead(WorkDocs[R]) /\ WorkDocs[R] = ReadWith(R, WorkDocs)
  BY WorkDocsDef, WorkDocsFacts
<1>2. ASSUME NEW R \in SUBSET Files, \A g \in Files \ R : R \cup {g} \in Good PROVE R \in Good
  <2> SUFFICES ASSUME NEW Q \in SUBSET R, NEW g \in Files, WorkDocs[R][g].ok PROVE WorkDocs[Q][g] = WorkDocs[R][g]
    OBVIOUS
  <2> DEFINE b(P) == IncludeBuffer(Content[g].includes, WorkDocs[P \cup {g}])
  <2>1. g \notin R /\ g \in DOMAIN Content
    <3>1. WorkDocs[R][g] = IF g \in R \/ g \notin DOMAIN Content THEN Thrown(EmptyDoc)
                           ELSE ReadFile(g, WorkDocs[R \cup {g}])
      BY ReadInFull
    <3>2. QED
      BY <3>1 DEF Thrown
  <2>2. WorkDocs[R][g] = ReadFile(g, WorkDocs[R \cup {g}]) /\ WorkDocs[Q][g] = ReadFile(g, WorkDocs[Q \cup {g}])
    BY <2>1, ReadInFull
  <2>3. R \cup {g} \in SUBSET Files /\ Q \cup {g} \in SUBSET Files /\ Q \cup {g} \in SUBSET (R \cup {g})
    OBVIOUS
  <2>4. AllRead(WorkDocs[R \cup {g}]) /\ AllRead(WorkDocs[Q \cup {g}])
    BY <1>1, <2>3
  <2>5. \A h \in Files : WorkDocs[R \cup {g}][h].ok => WorkDocs[Q \cup {g}][h] = WorkDocs[R \cup {g}][h]
    BY <1>2, <2>1, <2>3
  <2>6. b(R).ok
    BY <2>1, <2>2, <2>4, ReadFileOk
  <2>7. b(Q) = b(R)
    BY <2>1, <2>4, <2>5, <2>6, IncludeBufferSame
  <2>8. QED
    BY <2>2, <2>7 DEF ReadFile
<1>3. SUBSET Files \subseteq Good
  <2> HIDE DEF Good
  <2>1. QED
    BY <1>2, LeftInduction
<1>4. QED
  BY <1>3

\* What is included of a file that can be read is the buffer of the file.
LEMMA BufferSame ==
  ASSUME NEW f \in DOMAIN Content, NEW T \in SUBSET Files, f \in T,
         IncludeBuffer(Content[f].includes, WorkDocs[T]).ok
  PROVE  IncludeBuffer(Content[f].includes, WorkDocs[T]) = Buffers[f]
<1>1. f \in Files /\ {f} \in SUBSET Files /\ {f} \subseteq T
  BY ContentAssumption
<1>2. AllRead(WorkDocs[T]) /\ AllRead(WorkDocs[{f}])
  BY <1>1, WorkDocsFacts
<1>3. \A g \in Files : WorkDocs[T][g].ok => WorkDocs[{f}][g] = WorkDocs[T][g]
  BY <1>1, WorkDocsSame
<1>4. Buffers[f] = IncludeBuffer(Content[f].includes, WorkDocs[{f}])
  BY DEF Buffers
<1>5. QED
  BY <1>2, <1>3, <1>4, IncludeBufferSame

LEMMA TogetherNames ==
  ASSUME NEW s, IsSequence(s), NEW t, IsSequence(t) PROVE TreeNames(s \o t) \subseteq TreeNames(s) \cup TreeNames(t)
<1>1. PICK E : s \in Seq(E)
  BY DEF IsSequence
<1>2. PICK F : t \in Seq(F)
  BY DEF IsSequence
<1>3. s \in Seq(E \cup F) /\ t \in Seq(E \cup F)
  BY <1>1, <1>2
<1>4. ASSUME NEW i \in DOMAIN (s \o t) PROVE (\E j \in DOMAIN s : (s \o t)[i] = s[j]) \/ (\E j \in DOMAIN t : (s \o t)[i] = t[j])
  <2>1. Len(s) \in Nat /\ Len(t) \in Nat /\ i \in 1..(Len(s) + Len(t)) /\ DOMAIN s = 1..Len(s) /\ DOMAIN t = 1..Len(t)
    BY <1>3, <1>4
  <2>2. CASE i <= Len(s)
    <3>1. i \in DOMAIN s /\ (s \o t)[i] = s[i]
      BY <1>3, <2>1, <2>2
    <3>2. QED
      BY <3>1
  <2>3. CASE i > Len(s)
    <3>1. i - Len(s) \in DOMAIN t /\ (s \o t)[i] = t[i - Len(s)]
      BY <1>3, <2>1, <2>3
    <3>2. QED
      BY <3>1
  <2>4. QED
    BY <2>1, <2>2, <2>3
<1>5. QED
  BY <1>4 DEF TreeNames

\* What a file leaves open, its own trees and those it includes.
LEMMA FileLoose ==
  ASSUME NEW f \in DOMAIN Content, Buffers[f].ok, IsDoc(Buffers[f].doc), Dangling(Buffers[f].doc) \subseteq LeftOpen
  PROVE  Loose(Range(Buffers[f].doc.trees) \cup Range(Content[f].trees)) \subseteq LeftOpen
<1> DEFINE b == Buffers[f].doc.trees
           c == Content[f].trees
<1>1. IsSequence(b) /\ IsSequence(c)
  BY ContentAssumption DEF IsDoc, IsSequence
<1>2. TreeNames(c \o b) \subseteq TreeNames(c) \cup TreeNames(b)
  BY <1>1, TogetherNames
<1>3. RefsOf(c) \ TreeNames(c \o b) \subseteq LeftOpen
  BY DEF LeftOpen
<1>4. Loose(Range(b)) \subseteq LeftOpen
  BY DanglingLoose
<1> HIDE DEF b, c
<1>5. /\ RefsIn(Range(b) \cup Range(c)) = RefsOf(b) \cup RefsOf(c)
      /\ NamesIn(Range(b) \cup Range(c)) = TreeNames(b) \cup TreeNames(c)
  BY InFacts
<1>6. Loose(Range(b)) = RefsOf(b) \ TreeNames(b)
  BY InFacts DEF Loose
<1>7. ASSUME NEW r \in Loose(Range(b) \cup Range(c)) PROVE r \in LeftOpen
  <2>1. r \notin TreeNames(c) /\ r \notin TreeNames(b)
    BY <1>5, <1>7 DEF Loose
  <2>2. r \in Loose(Range(b)) \/ r \in RefsOf(c)
    BY <1>5, <1>6, <1>7, <2>1 DEF Loose
  <2>3. QED
    BY <1>2, <1>3, <1>4, <2>1, <2>2
<1>8. QED
  BY <1>7 DEF b, c

LEMMA WorkDocsOpen ==
  ASSUME NEW S \in SUBSET Files, NEW f \in Files, WorkDocs[S][f].ok
  PROVE  Dangling(WorkDocs[S][f].doc) \subseteq LeftOpen
<1> DEFINE Good == {R \in SUBSET Files : \A g \in Files : WorkDocs[R][g].ok => Dangling(WorkDocs[R][g].doc) \subseteq LeftOpen}
<1>1. \A R \in SUBSET Files : AllRead(WorkDocs[R]) /\ WorkDocs[R] = ReadWith(R, WorkDocs)
  BY WorkDocsDef, WorkDocsFacts
<1>2. ASSUME NEW R \in SUBSET Files, \A g \in Files \ R : R \cup {g} \in Good PROVE R \in Good
  <2> SUFFICES ASSUME NEW g \in Files, WorkDocs[R][g].ok PROVE Dangling(WorkDocs[R][g].doc) \subseteq LeftOpen
    OBVIOUS
  <2> DEFINE work == WorkDocs[R \cup {g}]
             b == IncludeBuffer(Content[g].includes, work)
  <2>1. g \notin R /\ g \in DOMAIN Content
    <3>1. WorkDocs[R][g] = IF g \in R \/ g \notin DOMAIN Content THEN Thrown(EmptyDoc)
                           ELSE ReadFile(g, WorkDocs[R \cup {g}])
      BY ReadInFull
    <3>2. QED
      BY <3>1 DEF Thrown
  <2>2. WorkDocs[R][g] = ReadFile(g, work)
    BY <2>1, ReadInFull
  <2>3. R \cup {g} \in SUBSET Files /\ g \in R \cup {g}
    OBVIOUS
  <2>4. AllRead(work) /\ \A h \in Files : work[h].ok => Dangling(work[h].doc) \subseteq LeftOpen
    BY <1>1, <1>2, <2>1, <2>3
  <2>5. b.ok /\ IsDoc(b.doc) /\ Range(ReadFile(g, work).doc.trees) = Range(b.doc.trees) \cup Range(Content[g].trees)
    BY <2>1, <2>2, <2>4, ReadFileOk
  <2>6. Dangling(b.doc) \subseteq LeftOpen
    BY <2>1, <2>4, <2>5, IncludeBufferOpen
  <2>7. b = Buffers[g]
    BY <2>1, <2>3, <2>5, BufferSame
  <2> HIDE DEF b, work
  <2>8. Loose(Range(b.doc.trees) \cup Range(Content[g].trees)) \subseteq LeftOpen
    BY <2>1, <2>5, <2>6, <2>7, FileLoose
  <2>9. QED
    BY <2>2, <2>5, <2>8, DanglingLoose
<1>3. SUBSET Files \subseteq Good
  <2> HIDE DEF Good
  <2>1. QED
    BY <1>2, LeftInduction
<1>4. QED
  BY <1>3

LEMMA BuffersOpen ==
  ASSUME NEW f \in DOMAIN Content, Buffers[f].ok
  PROVE  IsDoc(Buffers[f].doc) /\ Dangling(Buffers[f].doc) \subseteq LeftOpen
<1>1. f \in Files /\ {f} \in SUBSET Files
  BY ContentAssumption
<1>2. AllRead(WorkDocs[{f}]) /\ \A g \in Files : WorkDocs[{f}][g].ok => Dangling(WorkDocs[{f}][g].doc) \subseteq LeftOpen
  BY <1>1, WorkDocsFacts, WorkDocsOpen
<1>3. Buffers[f] = IncludeBuffer(Content[f].includes, WorkDocs[{f}])
  BY DEF Buffers
<1>4. QED
  BY <1>2, <1>3, IncludeBufferFacts, IncludeBufferOpen

LEMMA MergeFileOpen ==
  ASSUME NEW d, IsDoc(d), NEW f \in Files, NEW adopt, MergeFile(d, f, adopt).ok
  PROVE  Dangling(MergeFile(d, f, adopt).doc) \subseteq Dangling(d) \cup LeftOpen
<1>1. f \in DOMAIN Content
  BY DEF MergeFile, Thrown
<1> DEFINE r == MergeXml(d, Content[f], Buffers[f], adopt)
           T == Range(Buffers[f].doc.trees) \cup Range(Content[f].trees)
<1>2. MergeFile(d, f, adopt) = r
  BY <1>1 DEF MergeFile
<1>3. {f} \in SUBSET Files /\ Buffers[f] = IncludeBuffer(Content[f].includes, WorkDocs[{f}])
  BY <1>1 DEF Buffers
<1>4. IsDoc(Buffers[f].doc)
  BY <1>1, <1>3, WorkDocsFacts, IncludeBufferFacts
<1>5. IsSequence(Content[f].trees) /\ IsSequence(Buffers[f].doc.trees)
  BY <1>1, <1>4, ContentAssumption DEF IsDoc, IsSequence
<1>6. Carries(d, T, r) /\ Buffers[f].ok
  BY <1>2, <1>5, MergeXmlCarries
<1>7. Loose(T) \subseteq LeftOpen
  BY <1>1, <1>6, BuffersOpen, FileLoose
<1> HIDE DEF r, T
<1>8. Range(r.doc.trees) = Range(d.trees) \cup T
  BY <1>2, <1>6 DEF Carries
<1>9. Loose(Range(r.doc.trees)) \subseteq Loose(Range(d.trees)) \cup LeftOpen
  BY <1>7, <1>8, LooseUnion
<1>10. QED
  BY <1>2, <1>9, DanglingLoose

LEMMA SourcesOpen == \A other \in Sources : Dangling(other) \subseteq LeftOpen
<1> SUFFICES ASSUME NEW other \in Sources PROVE Dangling(other) \subseteq LeftOpen
  OBVIOUS
<1>1. PICK s \in Files \X BOOLEAN : other = Loaded[s].doc /\ Loaded[s].ok
  BY DEF Sources
<1>2. Loaded[s] = MergeFile(EmptyDoc, s[1], s[2]) /\ s[1] \in Files
  BY DEF Loaded
<1>3. Dangling(EmptyDoc) = {}
  BY DEF Dangling, RefsOf, EmptyDoc
<1>4. QED
  BY <1>1, <1>2, <1>3, EmptyFacts, MergeFileOpen

-----------------------------------------------------------------------------
(***************************************************************************)
(* The trees of a document that has been read are those of the files, each *)
(* with a name of its own.                                                 *)
(***************************************************************************)
LEMMA AppendedDistinct ==
  ASSUME NEW s, IsSequence(s), Distinct(s), NEW e, e.name \notin TreeNames(s) PROVE Distinct(Append(s, e))
<1>1. PICK E : s \in Seq(E)
  BY DEF IsSequence
<1>2. s \in Seq(E \cup {e}) /\ Len(s) \in Nat /\ DOMAIN s = 1..Len(s)
  BY <1>1
<1>3. DOMAIN Append(s, e) = 1..(Len(s) + 1)
  BY <1>2
<1>4. Append(s, e)[Len(s) + 1] = e /\ \A i \in 1..Len(s) : Append(s, e)[i] = s[i]
  BY <1>2
<1>5. \A i \in 1..Len(s) : s[i].name # e.name
  BY <1>2 DEF TreeNames
<1>6. \A i \in 1..(Len(s) + 1) : i \in 1..Len(s) \/ i = Len(s) + 1
  BY <1>2
<1>7. QED
  BY <1>2, <1>3, <1>4, <1>5, <1>6 DEF Distinct

LEMMA AppendTreeDistinct ==
  ASSUME NEW d, IsDoc(d), Distinct(d.trees), NEW tree, tree.name \notin TreeNames(d.trees), NEW verify
  PROVE  Distinct(AppendTree(d, tree, verify).doc.trees)
<1> DEFINE inline == InlineOptions(d.reg, FirstChild(tree.nodes))
           known == WithNodes(d, inline.map, FALSE)
           e == [known.doc EXCEPT !.trees = Append(@, tree)]
<1>1. AppendTree(d, tree, verify) \in {Thrown(d), known, Ok(e)}
  BY DEF AppendTree, Then
<1>2. IsDoc(known.doc) /\ known.doc.trees = d.trees
  BY WithNodesFacts, WithNodesTrees
<1> HIDE DEF known
<1>3. e.trees = Append(d.trees, tree)
  BY <1>2 DEF IsDoc
<1>4. Distinct(e.trees)
  BY <1>3, AppendedDistinct DEF IsDoc
<1> HIDE DEF e
<1>5. QED
  BY <1>1, <1>2, <1>4 DEF Thrown, Ok

LEMMA AppendTreesDistinct ==
  ASSUME NEW d, IsDoc(d), Distinct(d.trees), NEW trees, IsSequence(trees), Distinct(trees), Disjoint(d, trees), NEW verify
  PROVE  Distinct(AppendTrees(d, trees, verify).doc.trees)
<1>1. PICK after : /\ after[0] = Ok(d)
                   /\ \A n \in 1..Len(trees) :
                        after[n] = IF after[n - 1].ok THEN AppendTree(after[n - 1].doc, trees[n], verify)
                                   ELSE after[n - 1]
                   /\ AppendTrees(d, trees, verify) = after[Len(trees)]
  BY AppendTreesUnfolds
<1> DEFINE First(n) == {trees[i] : i \in 1..n}
           Good(n) == /\ IsDoc(after[n].doc) /\ Distinct(after[n].doc.trees)
                      /\ Range(after[n].doc.trees) \subseteq Range(d.trees) \cup First(n)
           S == {n \in Nat : n <= Len(trees) => Good(n)}
<1>2. Len(trees) \in Nat /\ DOMAIN trees = 1..Len(trees)
  BY LengthIsNat
<1>3. 0 \in S
  BY <1>1 DEF Ok
<1>4. ASSUME NEW n \in Nat, n \in S PROVE n + 1 \in S
  <2> SUFFICES ASSUME n + 1 <= Len(trees) PROVE Good(n + 1)
    OBVIOUS
  <2> DEFINE tree == trees[n + 1]
             next == AppendTree(after[n].doc, tree, verify)
  <2>1. Good(n)
    BY <1>2, <1>4
  <2>2. after[n + 1] = IF after[n].ok THEN next ELSE after[n]
    <3>1. n + 1 \in 1..Len(trees) /\ (n + 1) - 1 = n
      BY <1>2
    <3>2. QED
      BY <1>1, <3>1
  <2>3. tree.name \notin TreeNames(after[n].doc.trees)
    <3>1. tree.name \notin TreeNames(d.trees)
      <4>1. n + 1 \in DOMAIN trees
        BY <1>2
      <4>2. trees[n + 1].name \in TreeNames(trees)
        BY <4>1 DEF TreeNames
      <4>3. QED
        BY <4>2 DEF Disjoint
    <3>2. \A i \in 1..n : trees[i].name # tree.name
      BY <1>2 DEF Distinct
    <3>3. TreeNames(after[n].doc.trees) \subseteq NamesIn(Range(d.trees)) \cup NamesIn(First(n))
      <4> HIDE DEF First
      <4>1. QED
        BY <2>1, InFacts DEF NamesIn
    <3>4. tree.name \notin NamesIn(First(n))
      BY <3>2 DEF NamesIn
    <3>5. NamesIn(Range(d.trees)) = TreeNames(d.trees)
      BY InFacts
    <3>6. QED
      BY <3>1, <3>3, <3>4, <3>5
  <2>4. IsDoc(next.doc) /\ Carries(after[n].doc, {tree}, next) /\ Distinct(next.doc.trees)
    BY <2>1, <2>3, AppendTreeFacts, AppendTreeCarries, AppendTreeDistinct DEF Grown
  <2>5. First(n) \subseteq First(n + 1) /\ tree \in First(n + 1)
    BY <1>2
  <2> HIDE DEF next, First, tree
  <2>6. QED
    BY <2>1, <2>2, <2>4, <2>5 DEF Carries
<1>5. Nat \subseteq S
  <2> HIDE DEF S
  <2>1. QED
    BY <1>3, <1>4, NatSetInduction
<1>6. QED
  BY <1>1, <1>2, <1>5

LEMMA MergeXmlDistinct ==
  ASSUME NEW d, IsDoc(d), Distinct(d.trees), NEW xml, IsSequence(xml.trees), Distinct(xml.trees),
         NEW buffer, IsSequence(buffer.doc.trees), Distinct(buffer.doc.trees), NEW adopt,
         MergeXml(d, xml, buffer, adopt).ok
  PROVE  Distinct(MergeXml(d, xml, buffer, adopt).doc.trees)
<1> DEFINE included == AppendTrees(d, buffer.doc.trees, FALSE)
           merged == MergeDirect(included.doc, xml, adopt)
           all == AppendTrees(included.doc, xml.trees, TRUE)
           rooted == AdoptRoot(all.doc, xml)
           r == MergeXml(d, xml, buffer, adopt)
<1>1. r = merged /\ Disjoint(d, buffer.doc.trees)
  BY DEF MergeXml, Then, Thrown
<1>2. IsDoc(included.doc) /\ Distinct(included.doc.trees)
  BY <1>1, AppendTreesFacts, AppendTreesDistinct DEF Grown
<1> HIDE DEF included
<1>3. merged.ok
  BY <1>1
<1>4. merged \in {all, rooted, Ok(all.doc)} /\ Disjoint(included.doc, xml.trees)
  BY <1>3 DEF MergeDirect, Then, Thrown
<1>5. IsDoc(all.doc) /\ Distinct(all.doc.trees)
  BY <1>2, <1>4, AppendTreesFacts, AppendTreesDistinct DEF Grown
<1> HIDE DEF all, merged, r
<1>6. rooted.doc.trees = all.doc.trees
  BY <1>5, AdoptRootTrees
<1> HIDE DEF rooted
<1>7. merged.doc.trees = all.doc.trees
  BY <1>4, <1>6 DEF Ok
<1>8. QED
  BY <1>1, <1>5, <1>7 DEF r

LEMMA PickDistinct ==
  ASSUME NEW d, IsDoc(d), Distinct(d.trees), NEW name PROVE Distinct(Pick(d, name).trees)
<1> DEFINE kept == {i \in DOMAIN d.trees : d.trees[i].name \in Closure(d.trees, {name})}
           picked == TreesAt(d.trees, kept)
<1>1. Distinct(picked)
  <2>1. IsSequence(d.trees) /\ kept \subseteq DOMAIN d.trees
    BY DEF IsDoc
  <2> HIDE DEF kept
  <2>2. QED
    BY <2>1, TreesAtRange
<1>2. Pick(d, name) = IF name = NoTree THEN d ELSE [d EXCEPT !.trees = picked]
  BY DEF Pick
<1> HIDE DEF picked
<1>3. [d EXCEPT !.trees = picked].trees = picked
  BY DEF IsDoc
<1>4. QED
  BY <1>1, <1>2, <1>3

LEMMA DropSharedDistinct ==
  ASSUME NEW d, IsDoc(d), Distinct(d.trees), NEW buffer PROVE Distinct(DropShared(d, buffer).trees)
<1> DEFINE Shared(tree) == HasTree(buffer, tree.name) /\ GetTree(buffer, tree.name) = tree
           kept == {i \in DOMAIN d.trees : ~Shared(d.trees[i])}
           left == TreesAt(d.trees, kept)
<1>1. DropShared(d, buffer).trees = left
  BY DEF DropShared, IsDoc
<1>2. IsSequence(d.trees) /\ kept \subseteq DOMAIN d.trees
  BY DEF IsDoc
<1> HIDE DEF kept
<1>3. Distinct(left)
  BY <1>2, TreesAtRange
<1>4. QED
  BY <1>1, <1>3

LEMMA EmptyDistinct == Distinct(EmptyDoc.trees) /\ Distinct(Ok(EmptyDoc).doc.trees) /\ Range(EmptyDoc.trees) = {}
<1>1. EmptyDoc.trees = <<>> /\ Ok(EmptyDoc).doc = EmptyDoc
  BY DEF EmptyDoc, Ok
<1>2. Distinct(<<>>) /\ Range(<<>>) = {}
  BY DEF Distinct, Range
<1>3. QED
  BY <1>1, <1>2

LEMMA IncludeDistinct ==
  ASSUME NEW buffer, IsDoc(buffer), Distinct(buffer.trees), NEW work, IsDoc(work.doc), work.ok => Distinct(work.doc.trees),
         NEW pick, Include(buffer, work, pick).ok
  PROVE  Distinct(Include(buffer, work, pick).doc.trees)
<1> DEFINE picked == Pick(work.doc, pick)
           left == DropShared(picked, buffer)
           xml == XmlOf(left)
           merged == MergeXml(buffer, xml, Ok(EmptyDoc), FALSE)
<1>1. Include(buffer, work, pick) = merged /\ work.ok
  BY DEF Include, Thrown
<1>2. IsDoc(picked) /\ Distinct(picked.trees)
  BY <1>1, PickFacts, PickDistinct
<1> HIDE DEF picked
<1>3. IsDoc(left) /\ Distinct(left.trees)
  BY <1>2, DropSharedFacts, DropSharedDistinct
<1> HIDE DEF left
<1>4. IsSequence(xml.trees) /\ IsSequence(Ok(EmptyDoc).doc.trees) /\ Distinct(xml.trees)
  BY <1>3, XmlOfFacts DEF XmlOf
<1> HIDE DEF xml
<1>5. merged.ok
  BY <1>1
<1>6. Distinct(merged.doc.trees)
  BY <1>4, <1>5, EmptyDistinct, MergeXmlDistinct
<1>7. QED
  BY <1>1, <1>6

ContentTrees == UNION {Range(Content[f].trees) : f \in DOMAIN Content}

\* A document as it is read from files.
ReadWell(r) == Range(r.doc.trees) \subseteq ContentTrees /\ (r.ok => Distinct(r.doc.trees))

LEMMA IncludeBufferWell ==
  ASSUME NEW f \in DOMAIN Content, NEW work, AllRead(work), \A g \in Files : ReadWell(work[g])
  PROVE  ReadWell(IncludeBuffer(Content[f].includes, work))
<1> DEFINE includes == Content[f].includes
<1>1. IsSequence(includes) /\ \A n \in 1..Len(includes) : includes[n].file \in Files
  BY IncludesFacts
<1>2. PICK after : Including(f, work, after) /\ \A n \in 0..Len(includes) : IsDoc(after[n].doc)
  BY IncludingFacts
<1> DEFINE S == {n \in Nat : n <= Len(includes) => ReadWell(after[n])}
<1>3. Len(includes) \in Nat
  BY <1>1, LengthIsNat
<1> HIDE DEF includes
<1>4. 0 \in S
  BY <1>2, EmptyDistinct DEF Ok, Including, ReadWell
<1>5. ASSUME NEW n \in Nat, n \in S PROVE n + 1 \in S
  <2> SUFFICES ASSUME n + 1 <= Len(includes) PROVE ReadWell(after[n + 1])
    OBVIOUS
  <2> DEFINE of == work[includes[n + 1].file]
             next == Include(after[n].doc, of, includes[n + 1].tree)
  <2>1. n + 1 \in 1..Len(includes) /\ (n + 1) - 1 = n /\ n \in 0..Len(includes)
    BY <1>3
  <2>2. after[n + 1] = IF after[n].ok THEN next ELSE after[n]
    BY <1>2, <2>1 DEF Including, includes
  <2>3. ReadWell(after[n]) /\ IsDoc(after[n].doc)
    BY <1>2, <1>3, <1>5, <2>1
  <2>4. IsDoc(of.doc) /\ ReadWell(of)
    BY <1>1, <2>1 DEF AllRead
  <2> HIDE DEF of
  <2>5. Range(next.doc.trees) \subseteq ContentTrees
    BY <2>3, <2>4, IncludeCarries DEF ReadWell
  <2>6. after[n].ok /\ next.ok => Distinct(next.doc.trees)
    BY <2>3, <2>4, IncludeDistinct DEF ReadWell
  <2> HIDE DEF next
  <2>7. QED
    BY <2>2, <2>3, <2>5, <2>6 DEF ReadWell
<1>6. Nat \subseteq S
  <2> HIDE DEF S
  <2>1. QED
    BY <1>4, <1>5, NatSetInduction
<1>7. after[Len(includes)] = IncludeBuffer(Content[f].includes, work)
  BY <1>2 DEF Including, includes
<1>8. QED
  BY <1>3, <1>6, <1>7

LEMMA MergeContentWell ==
  ASSUME NEW f \in DOMAIN Content, NEW buffer, IsDoc(buffer.doc), ReadWell(buffer), NEW adopt
  PROVE  ReadWell(MergeXml(EmptyDoc, Content[f], buffer, adopt))
<1> DEFINE r == MergeXml(EmptyDoc, Content[f], buffer, adopt)
<1>1. IsSequence(Content[f].trees) /\ Distinct(Content[f].trees) /\ IsSequence(buffer.doc.trees)
  BY ContentAssumption, NamesAssumption DEF IsDoc, IsSequence, Distinct
<1>2. Range(Content[f].trees) \subseteq ContentTrees
  BY DEF ContentTrees
<1>3. Carries(EmptyDoc, Range(buffer.doc.trees) \cup Range(Content[f].trees), r) /\ (r.ok => buffer.ok)
  BY <1>1, EmptyFacts, MergeXmlCarries
<1>4. r.ok => Distinct(r.doc.trees)
  BY <1>1, <1>3, EmptyFacts, EmptyDistinct, MergeXmlDistinct DEF ReadWell
<1> HIDE DEF r
<1>5. ReadWell(r)
  BY <1>2, <1>3, <1>4, EmptyDistinct DEF ReadWell, Carries
<1>6. QED
  BY <1>5 DEF r

LEMMA WorkDocsWell ==
  ASSUME NEW S \in SUBSET Files, NEW f \in Files PROVE ReadWell(WorkDocs[S][f])
<1> DEFINE Good == {R \in SUBSET Files : \A g \in Files : ReadWell(WorkDocs[R][g])}
<1>1. ASSUME NEW R \in SUBSET Files, \A g \in Files \ R : R \cup {g} \in Good PROVE R \in Good
  <2> SUFFICES ASSUME NEW g \in Files PROVE ReadWell(WorkDocs[R][g])
    OBVIOUS
  <2> DEFINE work == WorkDocs[R \cup {g}]
  <2>1. WorkDocs[R][g] = IF g \in R \/ g \notin DOMAIN Content THEN Thrown(EmptyDoc) ELSE ReadFile(g, work)
    BY ReadInFull
  <2>2. ReadWell(Thrown(EmptyDoc))
    BY EmptyDistinct DEF ReadWell, Thrown
  <2>3. ASSUME g \in DOMAIN Content, g \notin R PROVE ReadWell(ReadFile(g, work))
    <3>1. R \cup {g} \in SUBSET Files
      OBVIOUS
    <3>2. AllRead(work) /\ \A h \in Files : ReadWell(work[h])
      BY <1>1, <2>3, <3>1, WorkDocsFacts
    <3> HIDE DEF work
    <3>3. QED
      BY <2>3, <3>2, IncludeBufferFacts, IncludeBufferWell, MergeContentWell DEF ReadFile
  <2> HIDE DEF work
  <2>4. QED
    BY <2>1, <2>2, <2>3
<1>2. SUBSET Files \subseteq Good
  <2> HIDE DEF Good
  <2>1. QED
    BY <1>1, LeftInduction
<1>3. QED
  BY <1>2

LEMMA BuffersWell ==
  ASSUME NEW f \in DOMAIN Content PROVE IsDoc(Buffers[f].doc) /\ ReadWell(Buffers[f])
<1>1. f \in Files /\ {f} \in SUBSET Files
  BY ContentAssumption
<1>2. AllRead(WorkDocs[{f}]) /\ \A g \in Files : ReadWell(WorkDocs[{f}][g])
  BY <1>1, WorkDocsFacts, WorkDocsWell
<1>3. Buffers[f] = IncludeBuffer(Content[f].includes, WorkDocs[{f}])
  BY DEF Buffers
<1>4. QED
  BY <1>2, <1>3, IncludeBufferFacts, IncludeBufferWell

LEMMA LoadedWell == \A s \in Files \X BOOLEAN : ReadWell(Loaded[s])
<1> SUFFICES ASSUME NEW s \in Files \X BOOLEAN PROVE ReadWell(Loaded[s])
  OBVIOUS
<1>1. Loaded[s] = MergeFile(EmptyDoc, s[1], s[2])
  BY DEF Loaded
<1>2. CASE s[1] \notin DOMAIN Content
  BY <1>1, <1>2, EmptyDistinct DEF MergeFile, Thrown, ReadWell
<1>3. CASE s[1] \in DOMAIN Content
  <2>1. Loaded[s] = MergeXml(EmptyDoc, Content[s[1]], Buffers[s[1]], s[2])
    BY <1>1, <1>3 DEF MergeFile
  <2>2. QED
    BY <1>3, <2>1, BuffersWell, MergeContentWell
<1>4. QED
  BY <1>2, <1>3

LEMMA SourcesWell ==
  \A other \in Sources : IsDoc(other) /\ Distinct(other.trees) /\ \A tree \in Range(other.trees) : IsTree(tree)
<1> SUFFICES ASSUME NEW other \in Sources
             PROVE  IsDoc(other) /\ Distinct(other.trees) /\ \A tree \in Range(other.trees) : IsTree(tree)
  OBVIOUS
<1>1. PICK s \in Files \X BOOLEAN : other = Loaded[s].doc /\ Loaded[s].ok
  BY DEF Sources
<1>2. ReadWell(Loaded[s])
  BY LoadedWell
<1>3. \A tree \in ContentTrees : IsTree(tree)
  BY ContentAssumption DEF ContentTrees
<1>4. QED
  BY <1>1, <1>2, <1>3, LoadedFacts DEF ReadWell

-----------------------------------------------------------------------------
(***************************************************************************)
(* The elements of a tree.                                                 *)
(***************************************************************************)
LEMMA LeastNumber ==
  ASSUME NEW S, S \subseteq Nat, S # {} PROVE \E i \in S : \A j \in S : i <= j
<1> DEFINE N == {k \in Nat : \A m \in 0..k : m \notin S}
<1>1. ASSUME \A i \in S : \E j \in S : j < i PROVE FALSE
  <2>1. 0 \in N
    BY <1>1
  <2>2. ASSUME NEW k \in Nat, k \in N PROVE k + 1 \in N
    BY <1>1, <2>2
  <2> HIDE DEF N
  <2>3. Nat \subseteq N
    BY <2>1, <2>2, NatSetInduction
  <2>4. PICK x \in S : TRUE
    OBVIOUS
  <2>5. x \in Nat /\ x \in N
    BY <2>3, <2>4
  <2>6. x \notin S
    BY <2>5 DEF N
  <2>7. QED
    BY <2>4, <2>6
<1>2. QED
  BY <1>1

IsNodes(nodes) == \E E : nodes \in Seq(E) /\ \A e \in E : IsElement(e)

LEMMA NodesType ==
  ASSUME NEW nodes, IsNodes(nodes)
  PROVE  /\ Len(nodes) \in Nat /\ DOMAIN nodes = 1..Len(nodes)
         /\ nodes \in Seq(Range(nodes))
         /\ \A i \in 1..Len(nodes) : IsElement(nodes[i])
<1>1. PICK E : nodes \in Seq(E) /\ \A e \in E : IsElement(e)
  BY DEF IsNodes
<1>2. Len(nodes) \in Nat /\ DOMAIN nodes = 1..Len(nodes) /\ nodes \in [1..Len(nodes) -> E]
  BY <1>1
<1>3. nodes \in [1..Len(nodes) -> Range(nodes)]
  BY <1>2 DEF Range
<1>4. nodes \in Seq(Range(nodes))
  BY <1>2, <1>3
<1>5. QED
  BY <1>1, <1>2, <1>4

LEMMA NodesMade ==
  ASSUME NEW nodes, NEW n \in Nat, nodes = [i \in 1..n |-> nodes[i]], \A i \in 1..n : IsElement(nodes[i])
  PROVE  IsNodes(nodes)
<1> DEFINE E == {nodes[i] : i \in 1..n}
<1>1. \A i \in 1..n : nodes[i] \in E
  OBVIOUS
<1>2. \A e \in E : IsElement(e)
  OBVIOUS
<1> HIDE DEF E
<1>3. nodes \in Seq(E)
  BY <1>1
<1>4. QED
  BY <1>2, <1>3 DEF IsNodes

LEMMA TreeMade ==
  /\ \A tree : IsTree(tree) <=> tree = [name |-> tree.name, nodes |-> tree.nodes] /\ IsNodes(tree.nodes)
  /\ \A name, nodes : IsNodes(nodes) => IsTree([name |-> name, nodes |-> nodes])
<1>1. ASSUME NEW tree, IsTree(tree) PROVE tree = [name |-> tree.name, nodes |-> tree.nodes] /\ IsNodes(tree.nodes)
  <2>1. tree = [name |-> tree.name, nodes |-> tree.nodes]
    BY <1>1 DEF IsTree
  <2>2. tree.nodes \in Seq(Range(tree.nodes)) /\ \A e \in Range(tree.nodes) : IsElement(e)
    BY <1>1 DEF IsTree
  <2>3. QED
    BY <2>1, <2>2 DEF IsNodes
<1>2. ASSUME NEW tree, tree = [name |-> tree.name, nodes |-> tree.nodes], IsNodes(tree.nodes) PROVE IsTree(tree)
  <2>1. /\ tree.nodes \in Seq(Range(tree.nodes))
        /\ \A i \in DOMAIN tree.nodes : IsElement(tree.nodes[i])
    BY <1>2, NodesType
  <2>2. \A e \in Range(tree.nodes) : IsElement(e)
    BY <2>1 DEF Range
  <2>3. QED
    BY <1>2, <2>1, <2>2 DEF IsTree
<1>3. ASSUME NEW name, NEW nodes, IsNodes(nodes) PROVE IsTree([name |-> name, nodes |-> nodes])
  BY <1>2, <1>3
<1>4. QED
  BY <1>1, <1>2, <1>3

\* Another element in the place of e.
LEMMA ElementFacts ==
  ASSUME NEW e, IsElement(e)
  PROVE  /\ \A port : IsElement([e EXCEPT !.port = port]) /\ [e EXCEPT !.port = port].ref = e.ref
         /\ \A depth \in Int : IsElement([e EXCEPT !.depth = depth]) /\ [e EXCEPT !.depth = depth].ref = e.ref
         /\ \A name : IsElement([e EXCEPT !.name = name]) /\ [e EXCEPT !.name = name].ref = e.ref
         /\ \A opts : IsElement([e EXCEPT !.opts = opts]) /\ [e EXCEPT !.opts = opts].ref = e.ref
         /\ e.depth \in Int
<1>1. e = [depth |-> e.depth, name |-> e.name, ref |-> e.ref, opts |-> e.opts, port |-> e.port] /\ e.depth \in Int
  BY DEF IsElement
<1>2. \A depth \in Int : \A name, ref, opts, port :
        IsElement([depth |-> depth, name |-> name, ref |-> ref, opts |-> opts, port |-> port])
  BY DEF IsElement
<1>3. \A port : [e EXCEPT !.port = port] = [depth |-> e.depth, name |-> e.name, ref |-> e.ref, opts |-> e.opts, port |-> port]
  BY <1>1
<1>4. \A depth : [e EXCEPT !.depth = depth] = [depth |-> depth, name |-> e.name, ref |-> e.ref, opts |-> e.opts, port |-> e.port]
  BY <1>1
<1>5. \A name : [e EXCEPT !.name = name] = [depth |-> e.depth, name |-> name, ref |-> e.ref, opts |-> e.opts, port |-> e.port]
  BY <1>1
<1>6. \A opts : [e EXCEPT !.opts = opts] = [depth |-> e.depth, name |-> e.name, ref |-> e.ref, opts |-> opts, port |-> e.port]
  BY <1>1
<1>7. QED
  BY <1>1, <1>2, <1>3, <1>4, <1>5, <1>6

LEMMA HandledFacts ==
  ASSUME NEW e, IsElement(e), NEW reg PROVE IsElement(Handled(reg, e)) /\ Handled(reg, e).ref = e.ref
BY ElementFacts DEF Handled

LEMMA TraversedFacts ==
  ASSUME NEW nodes, IsNodes(nodes), NEW reg
  PROVE  IsNodes(Traversed(reg, nodes)) /\ Refs(Traversed(reg, nodes)) = Refs(nodes)
         /\ DOMAIN Traversed(reg, nodes) = DOMAIN nodes /\ Len(Traversed(reg, nodes)) = Len(nodes)
<1> DEFINE t == Traversed(reg, nodes)
<1>1. Len(nodes) \in Nat /\ DOMAIN nodes = 1..Len(nodes) /\ \A i \in 1..Len(nodes) : IsElement(nodes[i])
  BY NodesType
<1>2. t = [i \in 1..Len(nodes) |-> Handled(reg, nodes[i])]
  BY <1>1 DEF Traversed
<1>3. \A i \in 1..Len(nodes) : IsElement(t[i]) /\ t[i].ref = nodes[i].ref
  BY <1>1, <1>2, HandledFacts
<1>4. t = [i \in 1..Len(nodes) |-> t[i]] /\ DOMAIN t = 1..Len(nodes)
  BY <1>2
<1> HIDE DEF t
<1>5. IsNodes(t)
  BY <1>1, <1>3, <1>4, NodesMade
<1>6. Refs(t) = Refs(nodes)
  BY <1>1, <1>3, <1>4 DEF Refs
<1>7. Len(t) = Len(nodes)
  BY <1>1, <1>4, <1>5, NodesType
<1>8. QED
  BY <1>1, <1>4, <1>5, <1>6, <1>7 DEF t

LEMMA LastBelowFacts ==
  ASSUME NEW nodes, IsNodes(nodes), NEW i \in 0..Len(nodes)
  PROVE  LastBelow(nodes, i) \in i..Len(nodes)
<1>1. Len(nodes) \in Nat /\ \A k \in 1..Len(nodes) : nodes[k].depth \in Int
  BY NodesType, ElementFacts
<1>2. CASE i = 0
  BY <1>1, <1>2 DEF LastBelow
<1>3. CASE i # 0
  <2> DEFINE Ends == {j \in i..Len(nodes) : j = Len(nodes) \/ nodes[j + 1].depth <= nodes[i].depth}
  <2>1. Ends \subseteq Nat /\ Len(nodes) \in Ends
    BY <1>1, <1>3
  <2>2. PICK j \in Ends : \A k \in Ends : j <= k
    <3> HIDE DEF Ends
    <3>1. QED
      BY <2>1, LeastNumber
  <2>3. \A k \in (i + 1)..j : nodes[k].depth > nodes[i].depth
    <3> SUFFICES ASSUME NEW k \in (i + 1)..j PROVE nodes[k].depth > nodes[i].depth
      OBVIOUS
    <3>1. k - 1 \in i..Len(nodes) /\ k - 1 # Len(nodes) /\ (k - 1) + 1 = k /\ k - 1 < j /\ k \in 1..Len(nodes) /\ i \in 1..Len(nodes)
      BY <1>1, <1>3
    <3>2. k - 1 \notin Ends
      <4> HIDE DEF Ends
      <4>1. j \in Nat /\ k - 1 \in Int /\ ~(j <= k - 1)
        BY <2>1, <2>2, <3>1
      <4>2. QED
        BY <2>2, <4>1
    <3>3. ~(nodes[k].depth <= nodes[i].depth)
      BY <3>1, <3>2
    <3>4. QED
      BY <1>1, <3>1, <3>3
  <2>4. \E l \in i..Len(nodes) : /\ \A k \in (i + 1)..l : nodes[k].depth > nodes[i].depth
                                 /\ l = Len(nodes) \/ nodes[l + 1].depth <= nodes[i].depth
    BY <2>2, <2>3
  <2>5. LastBelow(nodes, i) = CHOOSE l \in i..Len(nodes) :
                                /\ \A k \in (i + 1)..l : nodes[k].depth > nodes[i].depth
                                /\ l = Len(nodes) \/ nodes[l + 1].depth <= nodes[i].depth
    BY <1>3 DEF LastBelow
  <2>6. QED
    BY <2>4, <2>5
<1>4. QED
  BY <1>2, <1>3

LEMMA SubSeqNodes ==
  ASSUME NEW nodes, IsNodes(nodes), NEW i \in Nat, i >= 1, NEW j \in Int, j <= Len(nodes)
  PROVE  IsNodes(SubSeq(nodes, i, j)) /\ Refs(SubSeq(nodes, i, j)) \subseteq Refs(nodes)
<1> DEFINE s == SubSeq(nodes, i, j)
<1>1. PICK E : nodes \in Seq(E) /\ \A e \in E : IsElement(e)
  BY DEF IsNodes
<1>2. Len(nodes) \in Nat /\ DOMAIN nodes = 1..Len(nodes)
  BY <1>1
<1>3. CASE j < i
  <2>1. s = <<>>
    BY <1>1, <1>2, <1>3
  <2>2. IsNodes(<<>>) /\ Refs(<<>>) = {}
    <3>1. <<>> \in Seq({})
      OBVIOUS
    <3>2. QED
      BY <3>1 DEF IsNodes, Refs
  <2>3. QED
    BY <2>1, <2>2
<1>4. CASE ~(j < i)
  <2>1. s \in Seq(E) /\ Len(s) = j - i + 1 /\ \A k \in 1..(j - i + 1) : s[k] = nodes[k + i - 1]
    BY <1>1, <1>2, <1>4
  <2>2. DOMAIN s = 1..(j - i + 1) /\ \A k \in 1..(j - i + 1) : k + i - 1 \in DOMAIN nodes
    BY <1>2, <1>4, <2>1
  <2> HIDE DEF s
  <2>3. Refs(s) \subseteq Refs(nodes)
    BY <2>1, <2>2 DEF Refs
  <2>4. QED
    BY <1>1, <2>1, <2>3 DEF IsNodes, s
<1>5. QED
  BY <1>3, <1>4

LEMMA JoinedNodes ==
  ASSUME NEW s, IsNodes(s), NEW t, IsNodes(t)
  PROVE  IsNodes(s \o t) /\ Refs(s \o t) \subseteq Refs(s) \cup Refs(t)
<1>1. PICK E : s \in Seq(E) /\ \A e \in E : IsElement(e)
  BY DEF IsNodes
<1>2. PICK F : t \in Seq(F) /\ \A e \in F : IsElement(e)
  BY DEF IsNodes
<1>3. s \in Seq(E \cup F) /\ t \in Seq(E \cup F)
  BY <1>1, <1>2
<1>4. s \o t \in Seq(E \cup F)
  BY <1>3
<1>5. ASSUME NEW i \in DOMAIN (s \o t) PROVE (\E j \in DOMAIN s : (s \o t)[i] = s[j]) \/ (\E j \in DOMAIN t : (s \o t)[i] = t[j])
  <2>1. Len(s) \in Nat /\ Len(t) \in Nat /\ i \in 1..(Len(s) + Len(t)) /\ DOMAIN s = 1..Len(s) /\ DOMAIN t = 1..Len(t)
    BY <1>3, <1>5
  <2>2. CASE i <= Len(s)
    <3>1. i \in DOMAIN s /\ (s \o t)[i] = s[i]
      BY <1>3, <2>1, <2>2
    <3>2. QED
      BY <3>1
  <2>3. CASE i > Len(s)
    <3>1. i - Len(s) \in DOMAIN t /\ (s \o t)[i] = t[i - Len(s)]
      BY <1>3, <2>1, <2>3
    <3>2. QED
      BY <3>1
  <2>4. QED
    BY <2>1, <2>2, <2>3
<1>6. IsNodes(s \o t)
  BY <1>1, <1>2, <1>4 DEF IsNodes
<1>7. Refs(s \o t) \subseteq Refs(s) \cup Refs(t)
  BY <1>5 DEF Refs
<1>8. QED
  BY <1>6, <1>7

LEMMA FirstChildFacts ==
  ASSUME NEW nodes, IsNodes(nodes) PROVE IsNodes(FirstChild(nodes)) /\ Refs(FirstChild(nodes)) \subseteq Refs(nodes)
<1>1. CASE nodes = <<>>
  BY <1>1 DEF FirstChild
<1>2. CASE nodes # <<>>
  <2>1. Len(nodes) \in Nat /\ nodes \in Seq(Range(nodes))
    BY NodesType
  <2>2. Len(nodes) # 0
    BY <1>2, <2>1
  <2>3. LastBelow(nodes, 1) \in 1..Len(nodes)
    BY <2>1, <2>2, LastBelowFacts
  <2>4. FirstChild(nodes) = SubSeq(nodes, 1, LastBelow(nodes, 1))
    BY <1>2 DEF FirstChild
  <2>5. QED
    BY <2>1, <2>3, <2>4, SubSeqNodes
<1>3. QED
  BY <1>1, <1>2

-----------------------------------------------------------------------------
(***************************************************************************)
(* Documents whose trees are trees, and what an insertion refers to.       *)
(***************************************************************************)
Formed(d) == IsDoc(d) /\ \A tree \in Range(d.trees) : IsTree(tree)

LEMMA FormedTrees ==
  ASSUME NEW d, Formed(d)
  PROVE  /\ DOMAIN d.trees = 1..Len(d.trees) /\ Len(d.trees) \in Nat
         /\ \A i \in DOMAIN d.trees : IsTree(d.trees[i]) /\ IsNodes(d.trees[i].nodes)
<1>1. DOMAIN d.trees = 1..Len(d.trees) /\ Len(d.trees) \in Nat
  BY LengthIsNat DEF Formed, IsDoc
<1>2. \A i \in DOMAIN d.trees : d.trees[i] \in Range(d.trees)
  BY DEF Range
<1>3. QED
  BY <1>1, <1>2, TreeMade DEF Formed

\* A tree is put in the place of tree i.
Put(d, i, tree) == [d EXCEPT !.trees = [d.trees EXCEPT ![i] = tree]]

LEMMA PutFacts ==
  ASSUME NEW d, Formed(d), NEW i \in DOMAIN d.trees, NEW tree, IsTree(tree)
  PROVE  /\ Formed(Put(d, i, tree))
         /\ tree.name = d.trees[i].name => TreeNames(Put(d, i, tree).trees) = TreeNames(d.trees)
         /\ RefsOf(Put(d, i, tree).trees) \subseteq RefsOf(d.trees) \cup Refs(tree.nodes)
<1> DEFINE trees == [d.trees EXCEPT ![i] = tree]
           e == [d EXCEPT !.trees = [d.trees EXCEPT ![i] = tree]]
<1>0. e = Put(d, i, tree)
  BY DEF Put
<1>1. IsDoc(e)
  BY EditedFacts DEF Formed
<1>2. DOMAIN trees = DOMAIN d.trees /\ trees[i] = tree /\ \A j \in DOMAIN d.trees : j # i => trees[j] = d.trees[j]
  OBVIOUS
<1>3. e.trees = trees
  BY DEF Formed, IsDoc
<1> HIDE DEF trees, e
<1>4. \A j \in DOMAIN d.trees : IsTree(d.trees[j])
  BY FormedTrees
<1>5. \A t \in Range(e.trees) : IsTree(t)
  BY <1>2, <1>3, <1>4 DEF Range
<1>6. ASSUME tree.name = d.trees[i].name PROVE TreeNames(e.trees) = TreeNames(d.trees)
  <2>1. \A j \in DOMAIN trees : trees[j].name = d.trees[j].name
    BY <1>2, <1>6
  <2>2. QED
    BY <1>2, <1>3, <2>1 DEF TreeNames
<1>7. RefsOf(e.trees) \subseteq RefsOf(d.trees) \cup Refs(tree.nodes)
  <2>1. \A j \in DOMAIN trees : Refs(trees[j].nodes) \subseteq RefsOf(d.trees) \cup Refs(tree.nodes)
    BY <1>2 DEF RefsOf
  <2>2. QED
    BY <1>3, <2>1 DEF RefsOf
<1>8. QED
  BY <1>0, <1>1, <1>5, <1>6, <1>7 DEF Formed

LEMMA NodesPlaced ==
  ASSUME NEW d, Formed(d), NEW i \in DOMAIN d.trees, NEW nodes, IsNodes(nodes)
  PROVE  LET e == [d EXCEPT !.trees[i].nodes = nodes]
         IN  /\ Formed(e) /\ TreeNames(e.trees) = TreeNames(d.trees)
             /\ RefsOf(e.trees) \subseteq RefsOf(d.trees) \cup Refs(nodes)
<1> DEFINE tree == [d.trees[i] EXCEPT !.nodes = nodes]
           e == [d EXCEPT !.trees[i].nodes = nodes]
<1>1. IsTree(d.trees[i])
  BY FormedTrees
<1>2. d.trees[i] = [name |-> d.trees[i].name, nodes |-> d.trees[i].nodes]
  BY <1>1, TreeMade
<1>3. tree = [name |-> d.trees[i].name, nodes |-> nodes]
  BY <1>2
<1>4. e = Put(d, i, tree)
  BY DEF Put
<1> HIDE DEF tree, e
<1>5. IsTree(tree) /\ tree.name = d.trees[i].name /\ tree.nodes = nodes
  BY <1>3, TreeMade
<1>6. /\ Formed(e)
      /\ tree.name = d.trees[i].name => TreeNames(e.trees) = TreeNames(d.trees)
      /\ RefsOf(e.trees) \subseteq RefsOf(d.trees) \cup Refs(tree.nodes)
  BY <1>4, <1>5, PutFacts
<1>7. QED
  BY <1>5, <1>6 DEF e

\* Elements as they are below another, of which the first got a handle.
Nested(elements, depth, reg) ==
  LET deeper == [i \in DOMAIN elements |-> [elements[i] EXCEPT !.depth = @ + depth]]
  IN  [deeper EXCEPT ![1] = Handled(reg, @)]

LEMMA NestedFacts ==
  ASSUME NEW elements, IsNodes(elements), NEW depth \in Int, NEW reg
  PROVE  IsNodes(Nested(elements, depth, reg)) /\ Refs(Nested(elements, depth, reg)) \subseteq Refs(elements)
<1> DEFINE deeper == [i \in DOMAIN elements |-> [elements[i] EXCEPT !.depth = @ + depth]]
           placed == [deeper EXCEPT ![1] = Handled(reg, @)]
           n == Len(elements)
<1>1. n \in Nat /\ DOMAIN elements = 1..n /\ \A i \in 1..n : IsElement(elements[i])
  BY NodesType
<1> HIDE DEF n
<1>2. ASSUME NEW i \in 1..n PROVE IsElement(deeper[i]) /\ deeper[i].ref = elements[i].ref
  <2> DEFINE more == elements[i].depth + depth
  <2>1. more \in Int
    BY <1>1, ElementFacts
  <2>2. deeper[i] = [elements[i] EXCEPT !.depth = more]
    BY <1>1
  <2> HIDE DEF more
  <2>3. QED
    BY <1>1, <2>1, <2>2, ElementFacts
<1>3. placed = [i \in 1..n |-> placed[i]] /\ \A i \in 1..n : placed[i] \in {deeper[i], Handled(reg, deeper[i])}
  BY <1>1
<1> HIDE DEF placed
<1>4. \A i \in 1..n : IsElement(placed[i]) /\ placed[i].ref = elements[i].ref
  <2> SUFFICES ASSUME NEW i \in 1..n PROVE IsElement(placed[i]) /\ placed[i].ref = elements[i].ref
    OBVIOUS
  <2>1. IsElement(deeper[i]) /\ deeper[i].ref = elements[i].ref
    BY <1>2
  <2>2. IsElement(Handled(reg, deeper[i])) /\ Handled(reg, deeper[i]).ref = deeper[i].ref
    BY <2>1, HandledFacts
  <2>3. QED
    BY <1>3, <2>1, <2>2
<1>5. IsNodes(placed)
  BY <1>1, <1>3, <1>4, NodesMade
<1>6. DOMAIN placed = DOMAIN elements
  BY <1>1, <1>3
<1>7. Refs(placed) \subseteq Refs(elements)
  BY <1>1, <1>4, <1>6 DEF Refs
<1>8. QED
  BY <1>5, <1>7 DEF placed, Nested

\* A place there is in a document.
IsPlace(d, at) == at.tree \in DOMAIN d.trees /\ at.parent \in 0..Len(d.trees[at.tree].nodes)

LEMMA PlaceAtRefs ==
  ASSUME NEW d, Formed(d), NEW at, IsPlace(d, at), NEW elements, IsNodes(elements)
  PROVE  LET r == PlaceAt(d, at, elements)
         IN  /\ Formed(r.doc)
             /\ r.ok => /\ TreeNames(r.doc.trees) = TreeNames(d.trees)
                        /\ RefsOf(r.doc.trees) \subseteq RefsOf(d.trees) \cup Refs(elements)
<1> DEFINE nodes == d.trees[at.tree].nodes
           depth == IF at.parent = 0 THEN 0 ELSE nodes[at.parent].depth
           last == LastBelow(nodes, at.parent)
           behind == IF at.before = "end" THEN last ELSE at.parent
           deeper == [i \in DOMAIN elements |-> [elements[i] EXCEPT !.depth = @ + depth]]
           placed == [deeper EXCEPT ![1] = Handled(d.reg, @)]
           front == SubSeq(nodes, 1, behind)
           back == SubSeq(nodes, behind + 1, Len(nodes))
           all == front \o placed \o back
           e == [d EXCEPT !.trees[at.tree].nodes = all]
           r == PlaceAt(d, at, elements)
<1>1. r \in {Thrown(d), Ok(e)}
  BY DEF PlaceAt
<1>2. IsNodes(nodes) /\ Len(nodes) \in Nat /\ at.parent \in 0..Len(nodes)
  BY FormedTrees, NodesType DEF IsPlace
<1> HIDE DEF nodes
<1>3. depth \in Int
  BY <1>2, NodesType, ElementFacts
<1>4. behind \in 0..Len(nodes)
  <2>1. last \in at.parent..Len(nodes)
    <3>1. nodes \in Seq(Range(nodes))
      BY <1>2, NodesType
    <3>2. QED
      BY <1>2, <3>1, LastBelowFacts
  <2>2. QED
    BY <1>2, <2>1
<1> HIDE DEF depth, last, behind, placed
<1>5. IsNodes(placed) /\ Refs(placed) \subseteq Refs(elements)
  <2>1. placed = Nested(elements, depth, d.reg)
    BY DEF placed, Nested
  <2>2. QED
    BY <1>3, <2>1, NestedFacts
<1>6. IsNodes(front) /\ Refs(front) \subseteq Refs(nodes) /\ IsNodes(back) /\ Refs(back) \subseteq Refs(nodes)
  <2>1. behind \in Int /\ behind <= Len(nodes) /\ behind + 1 \in Nat /\ behind + 1 >= 1 /\ Len(nodes) \in Int
    BY <1>2, <1>4
  <2>2. QED
    BY <1>2, <2>1, SubSeqNodes
<1> HIDE DEF front, back
<1>7. IsNodes(all) /\ Refs(all) \subseteq Refs(nodes) \cup Refs(elements)
  <2>1. IsNodes(front \o placed) /\ Refs(front \o placed) \subseteq Refs(front) \cup Refs(placed)
    BY <1>5, <1>6, JoinedNodes
  <2>2. IsNodes(all) /\ Refs(all) \subseteq Refs(front \o placed) \cup Refs(back)
    BY <1>6, <2>1, JoinedNodes
  <2>3. QED
    BY <1>5, <1>6, <2>1, <2>2
<1> HIDE DEF all
<1>8. Formed(e) /\ TreeNames(e.trees) = TreeNames(d.trees) /\ RefsOf(e.trees) \subseteq RefsOf(d.trees) \cup Refs(all)
  BY <1>7, NodesPlaced DEF IsPlace
<1>9. Refs(nodes) \subseteq RefsOf(d.trees)
  BY DEF nodes, RefsOf, IsPlace
<1> HIDE DEF e, r
<1>10. /\ Formed(r.doc)
       /\ r.ok => /\ TreeNames(r.doc.trees) = TreeNames(d.trees)
                  /\ RefsOf(r.doc.trees) \subseteq RefsOf(d.trees) \cup Refs(elements)
  <2>1. CASE r = Thrown(d)
    BY <2>1 DEF Thrown
  <2>2. CASE r = Ok(e)
    BY <1>7, <1>8, <1>9, <2>2 DEF Ok
  <2>3. QED
    BY <1>1, <2>1, <2>2
<1>11. QED
  BY <1>10 DEF r

\* A tree refers only to trees that are required as well, where there are no cycles.
LEMMA RequiredFacts ==
  ASSUME NEW other, IsDoc(other), Distinct(other.trees), NEW name, HasTree(other, name), Acyclic(other, name),
         NEW i \in DOMAIN other.trees, other.trees[i].name \in Closure(other.trees, {name}),
         NEW r \in Refs(other.trees[i].nodes), r \in TreeNames(other.trees)
  PROVE  r \in Dependencies(other, name)
<1> DEFINE C == Closure(other.trees, {name})
           n == other.trees[i].name
<1>1. IsSequence(other.trees)
  BY DEF IsDoc
<1>2. r \in C
  BY <1>1, ClosureFacts
<1>3. r # name
  <2> SUFFICES ASSUME r = name PROVE FALSE
    OBVIOUS
  <2>1. GetTree(other, n) = other.trees[i]
    <3>1. n \in TreeNames(other.trees)
      BY DEF TreeNames
    <3>2. NumberOf(other.trees, n) \in DOMAIN other.trees /\ other.trees[NumberOf(other.trees, n)].name = n
      BY <1>1, <3>1, NumberOfFacts
    <3>3. NumberOf(other.trees, n) = i
      BY <3>2 DEF Distinct
    <3>4. QED
      BY <3>3 DEF GetTree
  <2>2. n \notin Closure(other.trees, Refs(other.trees[i].nodes))
    BY <2>1 DEF Acyclic
  <2>3. {name} \subseteq Refs(other.trees[i].nodes)
    OBVIOUS
  <2>4. C \subseteq Closure(other.trees, Refs(other.trees[i].nodes))
    BY <1>1, <2>3, ClosureMonotone
  <2>5. QED
    BY <2>2, <2>4
<1>4. QED
  BY <1>2, <1>3 DEF Dependencies

LEMMA RegisterRequiredTrees ==
  ASSUME NEW d, IsDoc(d), NEW other, NEW nodes, NEW auto
  PROVE  RegisterRequired(d, other, nodes, auto).doc.trees = d.trees
<1>1. PICK m : RegisterRequired(d, other, nodes, auto) \in {Ok(d), Thrown(d), WithNodes(d, m, FALSE)}
  BY DEF RegisterRequired
<1>2. WithNodes(d, m, FALSE).doc.trees = d.trees
  BY WithNodesTrees
<1>3. Ok(d).doc = d /\ Thrown(d).doc = d
  BY DEF Ok, Thrown
<1>4. QED
  BY <1>1, <1>2, <1>3

\* A document is merged into one whose trees are those of d.
LEMMA MergedIn ==
  ASSUME NEW d, IsDoc(d), NEW k, IsDoc(k), k.trees = d.trees, NEW xml, IsSequence(xml.trees), NEW adopt,
         NEW r, r = MergeXml(k, xml, Ok(EmptyDoc), adopt)
  PROVE  /\ Range(r.doc.trees) \subseteq Range(d.trees) \cup Range(xml.trees)
         /\ r.ok => Range(r.doc.trees) = Range(d.trees) \cup Range(xml.trees)
<1>1. IsSequence(Ok(EmptyDoc).doc.trees)
  BY XmlOfFacts
<1>2. Carries(k, Range(Ok(EmptyDoc).doc.trees) \cup Range(xml.trees), r)
  BY <1>1, MergeXmlCarries
<1>3. Ok(EmptyDoc).doc = EmptyDoc
  BY DEF Ok
<1>4. QED
  BY <1>2, <1>3, EmptyDistinct DEF Carries

LEMMA InsertTreeRefs ==
  ASSUME NEW d, Formed(d), NEW at, IsPlace(d, at),
         NEW other, Formed(other), Distinct(other.trees), NEW name, HasTree(other, name) => Acyclic(other, name), NEW auto
  PROVE  LET r == InsertTree(d, at, other, name, auto)
         IN  Formed(r.doc) /\ (r.ok => Dangling(r.doc) \subseteq Dangling(d) \cup Dangling(other))
<1> DEFINE r == InsertTree(d, at, other, name, auto)
           nodes == GetTree(other, name).nodes
           known == RegisterRequired(d, other, nodes, auto)
           kept == {i \in DOMAIN other.trees : other.trees[i].name \in Dependencies(other, name)}
           trees == TreesAt(other.trees, kept)
           part == [other EXCEPT !.trees = trees]
           xml == XmlOf(part)
           merged == MergeXml(known.doc, xml, Ok(EmptyDoc), FALSE)
           elements == FirstChild(IF auto THEN Traversed(other.reg, nodes) ELSE nodes)
           placed == PlaceAt(merged.doc, at, elements)
           Good == Formed(r.doc) /\ (r.ok => Dangling(r.doc) \subseteq Dangling(d) \cup Dangling(other))
<1>1. CASE ~HasTree(other, name)
  <2>1. r = Thrown(d)
    BY <1>1 DEF InsertTree
  <2> HIDE DEF r
  <2>2. Formed(r.doc) /\ ~r.ok
    BY <2>1 DEF Thrown
  <2>3. QED
    BY <2>2 DEF r
<1>2. ASSUME HasTree(other, name) PROVE Good
  <2> HIDE DEF Good
  <2>1. \/ r \in {known, Thrown(known.doc)} /\ ~r.ok
        \/ r = merged /\ ~merged.ok
        \/ r = placed /\ merged.ok
    <3>1. \A e : ~Thrown(e).ok
      BY DEF Thrown
    <3>2. QED
      BY <1>2, <3>1 DEF InsertTree, Then
  <2>2. IsDoc(d) /\ IsDoc(other) /\ IsSequence(other.trees) /\ kept \subseteq DOMAIN other.trees
    BY DEF Formed, IsDoc
  <2>3. known.doc.trees = d.trees /\ IsDoc(known.doc)
    BY <2>2, RegisterRequiredFacts, RegisterRequiredTrees DEF Grown
  <2>4. PICK t \in DOMAIN other.trees : other.trees[t].name = name /\ nodes = other.trees[t].nodes
    <3>1. name \in TreeNames(other.trees)
      BY <1>2 DEF HasTree
    <3>2. QED
      BY <2>2, <3>1, NumberOfFacts DEF GetTree
  <2> HIDE DEF r, nodes, known, kept
  <2>5. IsSequence(trees) /\ Range(trees) = {other.trees[i] : i \in kept}
    BY <2>2, TreesAtFacts, TreesAtRange
  <2> HIDE DEF trees
  <2>6. IsDoc(part) /\ part.trees = trees
    BY <2>2, <2>5, ReplacedFacts DEF IsDoc
  <2> HIDE DEF part
  <2>7. IsSequence(xml.trees) /\ xml.trees = trees
    BY <2>5, <2>6 DEF XmlOf
  <2> HIDE DEF xml
  <2>8. /\ Range(merged.doc.trees) \subseteq Range(d.trees) \cup Range(trees)
        /\ merged.ok => Range(merged.doc.trees) = Range(d.trees) \cup Range(trees)
    <3>1. /\ Range(merged.doc.trees) \subseteq Range(d.trees) \cup Range(xml.trees)
          /\ merged.ok => Range(merged.doc.trees) = Range(d.trees) \cup Range(xml.trees)
      <4>1. ASSUME NEW adopt, NEW m, m = MergeXml(known.doc, xml, Ok(EmptyDoc), adopt)
            PROVE  /\ Range(m.doc.trees) \subseteq Range(d.trees) \cup Range(xml.trees)
                   /\ m.ok => Range(m.doc.trees) = Range(d.trees) \cup Range(xml.trees)
        <5>1. IsDoc(d) /\ IsDoc(known.doc) /\ known.doc.trees = d.trees /\ IsSequence(xml.trees)
          BY <2>2, <2>3, <2>7
        <5> HIDE DEF xml
        <5>2. Range(m.doc.trees) \subseteq Range(d.trees) \cup Range(xml.trees)
          BY <4>1, <5>1, MergedIn
        <5>3. m.ok => Range(m.doc.trees) = Range(d.trees) \cup Range(xml.trees)
          BY <4>1, <5>1, MergedIn
        <5>4. QED
          BY <5>2, <5>3
      <4>2. QED
        BY <4>1
    <3> HIDE DEF merged
    <3>2. QED
      BY <2>7, <3>1
  <2>9. Grown(d, merged.doc)
    <3>1. Grown(d, known.doc)
      BY <2>2, RegisterRequiredFacts DEF known
    <3>2. QED
      BY <2>2, <2>7, <3>1, MergeInFacts
  <2> HIDE DEF merged
  <2>10. Formed(merged.doc) /\ IsPlace(merged.doc, at)
    <3>1. \A tree \in Range(trees) : IsTree(tree)
      BY <2>2, <2>5, FormedTrees
    <3>2. \A tree \in Range(d.trees) : IsTree(tree)
      BY DEF Formed
    <3>3. Formed(merged.doc)
      BY <2>8, <2>9, <3>1, <3>2 DEF Formed, Grown
    <3>4. at.tree \in DOMAIN merged.doc.trees /\ merged.doc.trees[at.tree] = d.trees[at.tree]
      <4>1. DOMAIN d.trees = 1..Len(d.trees) /\ Len(d.trees) \in Nat
        BY FormedTrees
      <4>2. DOMAIN merged.doc.trees = 1..Len(merged.doc.trees) /\ Len(merged.doc.trees) \in Nat
        BY <3>3, FormedTrees
      <4>3. QED
        BY <2>9, <4>1, <4>2 DEF Grown, Continues, IsPlace
    <3>5. QED
      BY <3>3, <3>4 DEF IsPlace
  <2>11. IsNodes(elements) /\ Refs(elements) \subseteq Refs(nodes)
    <3>1. IsNodes(nodes)
      BY <2>4, FormedTrees
    <3> DEFINE given == IF auto THEN Traversed(other.reg, nodes) ELSE nodes
    <3>2. IsNodes(given) /\ Refs(given) = Refs(nodes)
      BY <3>1, TraversedFacts
    <3> HIDE DEF given
    <3>3. IsNodes(FirstChild(given)) /\ Refs(FirstChild(given)) \subseteq Refs(given)
      BY <3>2, FirstChildFacts
    <3>4. QED
      BY <3>2, <3>3 DEF given
  <2> HIDE DEF elements
  <2>12. /\ Formed(placed.doc)
         /\ placed.ok => /\ TreeNames(placed.doc.trees) = TreeNames(merged.doc.trees)
                         /\ RefsOf(placed.doc.trees) \subseteq RefsOf(merged.doc.trees) \cup Refs(elements)
    BY <2>10, <2>11, PlaceAtRefs
  <2> HIDE DEF placed
  <2>13. ASSUME NEW n \in RefsIn(Range(trees)) \cup Refs(nodes), n \notin NamesIn(Range(trees))
         PROVE  n \in Dangling(other)
    <3>1. PICK i \in DOMAIN other.trees : /\ other.trees[i].name \in Closure(other.trees, {name})
                                          /\ n \in Refs(other.trees[i].nodes)
      <4>1. CASE n \in Refs(nodes)
        <5>1. name \in Closure(other.trees, {name})
          BY <1>2, <2>2, ClosureFacts DEF HasTree
        <5>2. QED
          BY <2>4, <4>1, <5>1
      <4>2. CASE n \in RefsIn(Range(trees))
        BY <2>5, <4>2 DEF RefsIn, kept, Dependencies
      <4>3. QED
        BY <2>13, <4>1, <4>2
    <3>2. n \notin Dependencies(other, name)
      <4> SUFFICES ASSUME n \in Dependencies(other, name) PROVE FALSE
        OBVIOUS
      <4>1. n \in TreeNames(other.trees)
        BY <2>2, ClosureFacts DEF Dependencies
      <4>2. PICK j \in kept : other.trees[j].name = n
        BY <4>1 DEF kept, TreeNames
      <4>3. QED
        BY <2>5, <2>13, <4>2 DEF NamesIn
    <3>3. n \notin TreeNames(other.trees)
      BY <1>2, <2>2, <3>1, <3>2, RequiredFacts
    <3>4. n \in RefsOf(other.trees)
      BY <3>1 DEF RefsOf
    <3>5. QED
      BY <3>3, <3>4 DEF Dangling
  <2>14. ASSUME merged.ok, placed.ok PROVE Dangling(placed.doc) \subseteq Dangling(d) \cup Dangling(other)
    <3>1. TreeNames(merged.doc.trees) = NamesIn(Range(d.trees)) \cup NamesIn(Range(trees))
      BY <2>8, <2>14, InFacts
    <3>2. RefsOf(merged.doc.trees) = RefsIn(Range(d.trees)) \cup RefsIn(Range(trees))
      BY <2>8, <2>14, InFacts
    <3>3. Dangling(d) = RefsIn(Range(d.trees)) \ NamesIn(Range(d.trees))
      BY InFacts DEF Dangling
    <3>4. Dangling(placed.doc) = RefsOf(placed.doc.trees) \ TreeNames(placed.doc.trees)
      BY DEF Dangling
    <3>5. QED
      BY <2>11, <2>12, <2>13, <2>14, <3>1, <3>2, <3>3, <3>4
  <2>15. Formed(d) /\ Formed(known.doc) /\ Formed(Thrown(known.doc).doc)
    BY <2>3 DEF Formed, Thrown
  <2>16. QED
    BY <2>1, <2>10, <2>12, <2>14, <2>15 DEF Good
<1>3. QED
  BY <1>1, <1>2

LEMMA FormedOn ==
  ASSUME NEW d, Formed(d), NEW T, \A tree \in T : IsTree(tree),
         NEW e, IsDoc(e), Range(e.trees) \subseteq Range(d.trees) \cup T
  PROVE  Formed(e)
BY DEF Formed

LEMMA SameTrees ==
  ASSUME NEW d, Formed(d), NEW e, IsDoc(e), e.trees = d.trees PROVE Formed(e) /\ Dangling(e) = Dangling(d)
BY DEF Formed, Dangling

LEMMA MergeFileFormed ==
  ASSUME NEW d, Formed(d), NEW f \in Files, NEW adopt PROVE Formed(MergeFile(d, f, adopt).doc)
<1> DEFINE r == MergeFile(d, f, adopt)
           T == Range(Buffers[f].doc.trees) \cup Range(Content[f].trees)
<1>1. IsDoc(d) /\ Grown(d, r.doc)
  BY MergeFileFacts DEF Formed
<1>2. CASE f \notin DOMAIN Content
  <2>1. r = Thrown(d)
    BY <1>2 DEF MergeFile
  <2> HIDE DEF r
  <2>2. Formed(r.doc)
    BY <2>1 DEF Thrown
  <2>3. QED
    BY <2>2 DEF r
<1>3. CASE f \in DOMAIN Content
  <2>1. r = MergeXml(d, Content[f], Buffers[f], adopt)
    BY <1>3 DEF MergeFile
  <2>2. IsDoc(Buffers[f].doc) /\ Range(Buffers[f].doc.trees) \subseteq ContentTrees
    BY <1>3, BuffersWell DEF ReadWell
  <2>3. IsSequence(Buffers[f].doc.trees) /\ IsSequence(Content[f].trees)
    BY <1>3, <2>2, ContentAssumption DEF IsDoc, IsSequence
  <2>4. Carries(d, T, r)
    <3> HIDE DEF r
    <3>1. QED
      BY <1>1, <2>1, <2>3, MergeXmlCarries
  <2>5. \A tree \in T : IsTree(tree)
    <3>1. \A tree \in ContentTrees : IsTree(tree)
      BY ContentAssumption DEF ContentTrees
    <3>2. Range(Content[f].trees) \subseteq ContentTrees
      BY <1>3 DEF ContentTrees
    <3>3. QED
      BY <2>2, <3>1, <3>2
  <2> HIDE DEF r, T
  <2>6. Formed(r.doc)
    BY <1>1, <2>4, <2>5, FormedOn DEF Carries, Grown
  <2>7. QED
    BY <2>6 DEF r
<1>4. QED
  BY <1>2, <1>3

LEMMA MergeDocumentRefs ==
  ASSUME NEW d, Formed(d), NEW other, Formed(other), NEW adopt, NEW auto
  PROVE  LET r == MergeDocument(d, other, adopt, auto)
         IN  Formed(r.doc) /\ (r.ok => Dangling(r.doc) \subseteq Dangling(d) \cup Dangling(other))
<1> DEFINE r == MergeDocument(d, other, adopt, auto)
           known == RegisterRequired(d, other, AllNodes(other.trees), auto)
           merged == MergeXml(known.doc, XmlOf(other), Ok(EmptyDoc), adopt)
<1>1. (r = known /\ ~known.ok) \/ r = merged
  BY DEF MergeDocument, Then
<1>2. IsDoc(d) /\ IsDoc(other) /\ IsSequence(XmlOf(other).trees) /\ XmlOf(other).trees = other.trees
  BY XmlOfFacts DEF Formed, IsDoc, XmlOf
<1>3. known.doc.trees = d.trees /\ IsDoc(known.doc) /\ Grown(d, known.doc)
  BY <1>2, RegisterRequiredFacts, RegisterRequiredTrees DEF Grown
<1>4. Grown(d, merged.doc)
  <2> HIDE DEF known
  <2>1. QED
    BY <1>2, <1>3, MergeInFacts
<1>5. /\ Range(merged.doc.trees) \subseteq Range(d.trees) \cup Range(other.trees)
      /\ merged.ok => Range(merged.doc.trees) = Range(d.trees) \cup Range(other.trees)
  <2> HIDE DEF known
  <2>1. Range(merged.doc.trees) \subseteq Range(d.trees) \cup Range(XmlOf(other).trees)
    BY <1>2, <1>3, MergedIn
  <2>2. merged.ok => Range(merged.doc.trees) = Range(d.trees) \cup Range(XmlOf(other).trees)
    BY <1>2, <1>3, MergedIn
  <2> HIDE DEF merged
  <2>3. QED
    BY <1>2, <2>1, <2>2
<1> HIDE DEF r, known, merged
<1>6. Formed(known.doc) /\ Formed(merged.doc)
  BY <1>3, <1>4, <1>5, FormedOn, SameTrees DEF Formed, Grown
<1>7. ASSUME merged.ok PROVE Dangling(merged.doc) \subseteq Dangling(d) \cup Dangling(other)
  BY <1>5, <1>7, LooseUnion, DanglingLoose
<1>8. Formed(r.doc) /\ (r.ok => Dangling(r.doc) \subseteq Dangling(d) \cup Dangling(other))
  BY <1>1, <1>6, <1>7
<1>9. QED
  BY <1>8 DEF r

LEMMA MergeTreeFormed ==
  ASSUME NEW d, Formed(d), NEW other, NEW tree, IsTree(tree), NEW root, NEW auto
  PROVE  Formed(MergeTree(d, other, tree, root, auto).doc)
<1> DEFINE r == MergeTree(d, other, tree, root, auto)
           known == RegisterRequired(d, other, tree.nodes, auto)
           merged == MergeXml(known.doc, XmlOfTree(tree), Ok(EmptyDoc), root)
<1>1. r \in {known, merged}
  BY DEF MergeTree, Then
<1>2. IsDoc(d) /\ IsSequence(XmlOfTree(tree).trees) /\ Range(XmlOfTree(tree).trees) = {tree}
  <2>1. XmlOfTree(tree).trees = <<tree>>
    BY DEF XmlOfTree
  <2>2. Range(<<tree>>) = {tree}
    BY DEF Range
  <2>3. QED
    BY <2>1, <2>2, XmlOfFacts DEF Formed
<1>3. known.doc.trees = d.trees /\ IsDoc(known.doc) /\ Grown(d, known.doc)
  BY <1>2, RegisterRequiredFacts, RegisterRequiredTrees DEF Grown
<1>4. Grown(d, merged.doc)
  <2> HIDE DEF known
  <2>1. QED
    BY <1>2, <1>3, MergeInFacts
<1>5. Range(merged.doc.trees) \subseteq Range(d.trees) \cup {tree}
  <2> HIDE DEF known
  <2>1. Range(merged.doc.trees) \subseteq Range(d.trees) \cup Range(XmlOfTree(tree).trees)
    BY <1>2, <1>3, MergedIn
  <2> HIDE DEF merged
  <2>2. QED
    BY <1>2, <2>1
<1> HIDE DEF r, known, merged
<1>6. Formed(known.doc) /\ Formed(merged.doc)
  BY <1>3, <1>4, <1>5, FormedOn, SameTrees DEF Grown
<1>7. QED
  BY <1>1, <1>6 DEF r

LEMMA NewTreeRefs ==
  ASSUME NEW d, Formed(d), NEW name
  PROVE  LET r == WithNewTree(d, name)
         IN  /\ Formed(r.doc) /\ Dangling(r.doc) \subseteq Dangling(d)
             /\ r.ok => Len(r.doc.trees) \in DOMAIN r.doc.trees
<1> DEFINE tree == [name |-> name, nodes |-> <<>>]
           e == [d EXCEPT !.trees = Append(@, tree)]
           r == WithNewTree(d, name)
<1>1. r = Thrown(d) \/ r = Ok(e)
  BY DEF WithNewTree
<1>2. IsDoc(d) /\ IsSequence(d.trees) /\ d = [trees |-> d.trees, root |-> d.root, reg |-> d.reg]
  BY DEF Formed, IsDoc
<1>3. IsTree(tree) /\ Refs(tree.nodes) = {}
  <2>1. IsNodes(<<>>)
    <3> DEFINE E == {}
    <3>1. <<>> \in Seq(E) /\ \A x \in E : IsElement(x)
      OBVIOUS
    <3> HIDE DEF E
    <3>2. QED
      BY <3>1 DEF IsNodes
  <2>2. Refs(<<>>) = {}
    BY DEF Refs
  <2>3. QED
    BY <2>1, <2>2, TreeMade
<1> HIDE DEF tree
<1>4. e.trees = Append(d.trees, tree)
  BY <1>2
<1>5. IsDoc(e)
  BY <1>2, AppendedFacts DEF Grown
<1> HIDE DEF e
<1>6. Range(e.trees) = Range(d.trees) \cup {tree}
  BY <1>2, <1>4, AppendedRange
<1>7. Formed(e)
  BY <1>3, <1>5, <1>6, FormedOn
<1>8. Dangling(e) \subseteq Dangling(d)
  <2>1. Loose({tree}) = {}
    BY <1>3 DEF Loose, RefsIn
  <2>2. QED
    BY <1>6, <2>1, LooseUnion, DanglingLoose
<1>9. Len(e.trees) \in DOMAIN e.trees
  <2>1. PICK E : d.trees \in Seq(E)
    BY <1>2 DEF IsSequence
  <2>2. Len(e.trees) = Len(d.trees) + 1 /\ Len(d.trees) \in Nat
    BY <1>4, <2>1
  <2>3. DOMAIN e.trees = 1..Len(e.trees)
    BY <1>7, FormedTrees
  <2>4. QED
    BY <2>2, <2>3
<1> HIDE DEF r
<1>10. /\ Formed(r.doc) /\ Dangling(r.doc) \subseteq Dangling(d)
       /\ r.ok => Len(r.doc.trees) \in DOMAIN r.doc.trees
  <2>1. CASE r = Thrown(d)
    BY <2>1 DEF Thrown
  <2>2. CASE r = Ok(e)
    BY <1>7, <1>8, <1>9, <2>2 DEF Ok
  <2>3. QED
    BY <1>1, <2>1, <2>2
<1>11. QED
  BY <1>10 DEF r

LEMMA NewTreeFromRefs ==
  ASSUME NEW d, Formed(d), NEW other, Formed(other), Distinct(other.trees), NEW name, NEW auto,
         LET tree == IF name = NoTree THEN RootOf(other) ELSE name IN HasTree(other, tree) => Acyclic(other, tree)
  PROVE  LET r == NewTreeFromDocument(d, other, name, auto)
         IN  Formed(r.doc) /\ (r.ok => Dangling(r.doc) \subseteq Dangling(d) \cup Dangling(other))
<1> DEFINE tree == IF name = NoTree THEN RootOf(other) ELSE name
           new == WithNewTree(d, tree)
           at == [tree |-> Len(new.doc.trees), parent |-> 0, before |-> "end"]
           filled == InsertTree(new.doc, at, other, tree, auto)
           r == NewTreeFromDocument(d, other, name, auto)
<1>1. \/ r \in {Thrown(d), new} /\ ~r.ok
      \/ r = filled /\ new.ok
  <2>1. ~Thrown(d).ok
    BY DEF Thrown
  <2>2. QED
    BY <2>1 DEF NewTreeFromDocument, Then
<1>2. HasTree(other, tree) => Acyclic(other, tree)
  OBVIOUS
<1> HIDE DEF tree, r
<1>3. /\ Formed(new.doc) /\ Dangling(new.doc) \subseteq Dangling(d)
      /\ new.ok => Len(new.doc.trees) \in DOMAIN new.doc.trees
  BY NewTreeRefs
<1> HIDE DEF new
<1>4. ASSUME new.ok
      PROVE  Formed(filled.doc) /\ (filled.ok => Dangling(filled.doc) \subseteq Dangling(new.doc) \cup Dangling(other))
  <2>1. IsPlace(new.doc, at)
    <3>1. at.parent \in 0..Len(new.doc.trees[at.tree].nodes)
      BY <1>3, <1>4, FormedTrees, NodesType
    <3>2. QED
      BY <1>3, <1>4, <3>1 DEF IsPlace
  <2> HIDE DEF at
  <2>2. QED
    BY <1>2, <1>3, <2>1, InsertTreeRefs
<1> HIDE DEF filled
<1>5. Formed(Thrown(d).doc)
  BY DEF Thrown
<1>6. Formed(r.doc) /\ (r.ok => Dangling(r.doc) \subseteq Dangling(d) \cup Dangling(other))
  BY <1>1, <1>3, <1>4, <1>5
<1>7. QED
  BY <1>6 DEF r

LEMMA ElementNodes == \A name, ref : IsNodes(Element(name, ref))
<1> SUFFICES ASSUME NEW name, NEW ref PROVE IsNodes(Element(name, ref))
  OBVIOUS
<1> DEFINE e == [depth |-> 1, name |-> name, ref |-> ref, opts |-> NoOptions, port |-> "unset"]
<1>1. IsElement(e)
  BY DEF IsElement
<1>2. Element(name, ref) = <<e>>
  BY DEF Element
<1> HIDE DEF e
<1> DEFINE E == {e}
<1>3. <<e>> \in Seq(E) /\ \A x \in E : IsElement(x)
  BY <1>1
<1> HIDE DEF E
<1>4. IsNodes(<<e>>)
  BY <1>3 DEF IsNodes
<1>5. QED
  BY <1>2, <1>4

LEMMA InsertNodeFormed ==
  ASSUME NEW d, Formed(d), NEW at, IsPlace(d, at), NEW name, NEW opts
  PROVE  Formed(InsertNode(d, at, name).doc) /\ Formed(InsertNodeWithOptions(d, at, name, opts).doc)
<1>1. \A e : Formed(e) /\ IsPlace(e, at) => Formed(InsertNode(e, at, name).doc)
  BY ElementNodes, PlaceAtRefs DEF InsertNode
<1>2. PICK m : m = (name :> opts)
  OBVIOUS
<1> DEFINE known == IF name \in Registered(d.reg) THEN Ok(d) ELSE WithNodes(d, m, FALSE)
           placed == InsertNode(known.doc, at, name)
<1>3. InsertNodeWithOptions(d, at, name, opts) \in {known, placed}
  BY <1>2 DEF InsertNodeWithOptions, Then
<1>4. IsDoc(known.doc) /\ known.doc.trees = d.trees
  <2>1. IsDoc(WithNodes(d, m, FALSE).doc) /\ WithNodes(d, m, FALSE).doc.trees = d.trees
    BY WithNodesFacts, WithNodesTrees DEF Formed, Grown
  <2>2. IsDoc(Ok(d).doc) /\ Ok(d).doc.trees = d.trees
    BY DEF Ok, Formed
  <2>3. QED
    BY <2>1, <2>2
<1> HIDE DEF known
<1>5. Formed(known.doc) /\ IsPlace(known.doc, at)
  BY <1>4, SameTrees DEF IsPlace
<1>6. Formed(placed.doc)
  BY <1>1, <1>5
<1> HIDE DEF placed
<1>7. QED
  BY <1>1, <1>3, <1>5, <1>6

LEMMA InsertSubTreeFormed ==
  ASSUME NEW d, Formed(d), NEW at, IsPlace(d, at), NEW name, NEW other, NEW tree, IsTree(tree)
  PROVE  Formed(InsertSubTreeName(d, at, name).doc) /\ Formed(InsertSubTreeElement(d, at, other, tree).doc)
<1>1. ASSUME NEW e, Formed(e), IsPlace(e, at), NEW n PROVE Formed(InsertSubTreeName(e, at, n).doc)
  <2>1. InsertSubTreeName(e, at, n) \in {Thrown(e), PlaceAt(e, at, Element("SubTree", n))}
    BY DEF InsertSubTreeName
  <2>2. Formed(Thrown(e).doc)
    BY <1>1 DEF Thrown
  <2>3. Formed(PlaceAt(e, at, Element("SubTree", n)).doc)
    BY <1>1, ElementNodes, PlaceAtRefs
  <2>4. QED
    BY <2>1, <2>2, <2>3
<1> DEFINE merged == MergeTree(d, other, tree, FALSE, TRUE)
           there == IF HasTree(d, tree.name)
                    THEN IF GetTree(d, tree.name) = tree THEN Ok(d) ELSE Thrown(d)
                    ELSE merged
           placed == InsertSubTreeName(there.doc, at, tree.name)
<1>2. InsertSubTreeElement(d, at, other, tree) \in {there, placed}
  BY DEF InsertSubTreeElement, Then
<1>3. Grown(d, there.doc) /\ Formed(there.doc)
  <2>1. there \in {Ok(d), Thrown(d), merged}
    OBVIOUS
  <2>2. Grown(d, merged.doc) /\ Formed(merged.doc)
    BY MergeTreeFacts, MergeTreeFormed DEF Formed
  <2>3. Grown(d, Ok(d).doc) /\ Grown(d, Thrown(d).doc) /\ Ok(d).doc = d /\ Thrown(d).doc = d
    BY ThrownFacts DEF Ok, Thrown, Formed
  <2> HIDE DEF there, merged
  <2>4. QED
    BY <2>1, <2>2, <2>3
<1> HIDE DEF there
<1>4. IsPlace(there.doc, at)
  <2>1. DOMAIN d.trees = 1..Len(d.trees) /\ Len(d.trees) \in Nat
    BY FormedTrees
  <2>2. DOMAIN there.doc.trees = 1..Len(there.doc.trees) /\ Len(there.doc.trees) \in Nat
    BY <1>3, FormedTrees
  <2>3. QED
    BY <1>3, <2>1, <2>2 DEF Grown, Continues, IsPlace
<1>5. Formed(placed.doc)
  BY <1>1, <1>3, <1>4
<1> HIDE DEF placed
<1>6. QED
  BY <1>1, <1>2, <1>3, <1>5

-----------------------------------------------------------------------------
(***************************************************************************)
(* What a step refers to, action by action.                                *)
(***************************************************************************)
Brings == {"merge", "newTreeFrom", "insertTree"}

Complete ==
  /\ Formed(document)'
  /\ operation'.ok /\ operation'.op \in Brings => Dangling(document') \subseteq Dangling(document) \cup LeftOpen

LEMMA DoComplete ==
  ASSUME NEW op, NEW r, Do(op, r), Formed(r.doc),
         r.ok /\ op \in Brings => Dangling(r.doc) \subseteq Dangling(document) \cup LeftOpen
  PROVE  Complete
<1>1. document' = r.doc /\ operation' = [op |-> op, ok |-> r.ok] /\ parted' = parted
  BY DEF Do, Perform
<1>2. Formed(document)'
  BY <1>1 DEF Formed, IsDoc, IsRegistry
<1>3. QED
  BY <1>1, <1>2 DEF Complete

LEMMA SourceFacts ==
  ASSUME NEW other \in Sources
  PROVE  /\ Formed(other) /\ Distinct(other.trees) /\ Dangling(other) \subseteq LeftOpen
         /\ \A tree \in TreesOf(other) : IsTree(tree)
<1>1. Formed(other) /\ Distinct(other.trees) /\ Dangling(other) \subseteq LeftOpen
  BY SourcesWell, SourcesOpen DEF Formed
<1>2. QED
  BY <1>1, FormedTrees DEF TreesOf

LEMMA MergeComplete ==
  ASSUME Formed(document), MergeFromFile \/ MergeResource \/ MergeFromDocument \/ MergeFromTree PROVE Complete
<1>0. IsDoc(document)
  BY DEF Formed
<1>1. CASE MergeFromFile
  <2>1. PICK f \in Files, adopt \in BOOLEAN : Do("merge", MergeFile(document, f, adopt))
    BY <1>1 DEF MergeFromFile
  <2> DEFINE r == MergeFile(document, f, adopt)
  <2>2. Formed(r.doc) /\ (r.ok => Dangling(r.doc) \subseteq Dangling(document) \cup LeftOpen)
    BY <1>0, MergeFileFormed, MergeFileOpen
  <2> HIDE DEF r
  <2>3. Complete
    BY <2>1, <2>2, DoComplete DEF r
  <2>4. QED
    BY <2>3
<1>2. CASE MergeResource
  <2>1. PICK f \in DOMAIN Content, m \in Manifests :
          Do("merge", Then(WithNodes(document, m, FALSE), LAMBDA d : MergeFile(d, f, FALSE)))
    BY <1>2 DEF MergeResource
  <2> DEFINE known == WithNodes(document, m, FALSE)
             merged == MergeFile(known.doc, f, FALSE)
  <2>2. PICK r : ((r = known /\ ~known.ok) \/ r = merged) /\ Do("merge", r)
    BY <2>1 DEF Then
  <2>3. IsDoc(known.doc) /\ known.doc.trees = document.trees /\ f \in Files
    BY <1>0, WithNodesFacts, WithNodesTrees, ContentAssumption DEF Grown
  <2> HIDE DEF known
  <2>4. Formed(known.doc) /\ Dangling(known.doc) = Dangling(document)
    BY <2>3, SameTrees
  <2>5. Formed(merged.doc) /\ (merged.ok => Dangling(merged.doc) \subseteq Dangling(known.doc) \cup LeftOpen)
    BY <2>3, <2>4, MergeFileFormed, MergeFileOpen
  <2> HIDE DEF merged
  <2>6. QED
    BY <2>2, <2>4, <2>5, DoComplete
<1>3. CASE MergeFromDocument
  <2>1. PICK other \in Sources, auto \in BOOLEAN : Do("merge", MergeDocument(document, other, TRUE, auto))
    BY <1>3 DEF MergeFromDocument
  <2> DEFINE r == MergeDocument(document, other, TRUE, auto)
  <2>2. Formed(r.doc) /\ (r.ok => Dangling(r.doc) \subseteq Dangling(document) \cup Dangling(other))
    BY SourceFacts, MergeDocumentRefs
  <2>3. Do("merge", r)
    BY <2>1
  <2> HIDE DEF r
  <2>4. QED
    BY <2>2, <2>3, SourceFacts, DoComplete
<1>4. CASE MergeFromTree
  <2>1. PICK other \in Sources : \E tree \in TreesOf(other), root \in BOOLEAN :
          Do("mergeTree", MergeTree(document, other, tree, root, TRUE))
    BY <1>4 DEF MergeFromTree
  <2>2. PICK tree \in TreesOf(other), root \in BOOLEAN :
          Do("mergeTree", MergeTree(document, other, tree, root, TRUE))
    BY <2>1
  <2>3. Formed(MergeTree(document, other, tree, root, TRUE).doc)
    BY SourceFacts, MergeTreeFormed
  <2>4. QED
    BY <2>2, <2>3, DoComplete DEF Brings
<1>5. QED
  BY <1>1, <1>2, <1>3, <1>4

LEMMA PlacesFacts ==
  ASSUME Formed(document), NEW befores, NEW at \in Places(befores) PROVE IsPlace(document, at)
<1>1. at.tree \in DOMAIN document.trees /\ at.parent \in {0, 1}
      /\ (at.parent = 0 \/ document.trees[at.tree].nodes # <<>>)
  BY DEF Places
<1> DEFINE nodes == document.trees[at.tree].nodes
<1>2. IsNodes(nodes)
  BY <1>1, FormedTrees
<1> HIDE DEF nodes
<1>3. Len(nodes) \in Nat /\ nodes \in Seq(Range(nodes))
  BY <1>2, NodesType
<1>4. nodes # <<>> => Len(nodes) # 0
  BY <1>3
<1>5. QED
  BY <1>1, <1>3, <1>4 DEF IsPlace, nodes

LEMMA InsertComplete ==
  ASSUME Formed(document),
         NewTree \/ NewTreeFrom \/ InsertTreeFrom \/ InsertOneNode \/ InsertRegisteredNode \/ InsertSubTree
  PROVE  Complete
<1>1. CASE NewTree
  <2>1. PICK name \in TreeName : Do("newTree", WithNewTree(document, name))
    BY <1>1 DEF NewTree
  <2>2. Formed(WithNewTree(document, name).doc)
    BY NewTreeRefs
  <2>3. QED
    BY <2>1, <2>2, DoComplete DEF Brings
<1>2. CASE NewTreeFrom
  <2>1. PICK other \in Sources, name \in TreeName \cup {NoTree}, auto \in BOOLEAN :
          /\ LET tree == IF name = NoTree THEN RootOf(other) ELSE name
             IN  HasTree(other, tree) => Acyclic(other, tree)
          /\ Do("newTreeFrom", NewTreeFromDocument(document, other, name, auto))
    BY <1>2 DEF NewTreeFrom
  <2> DEFINE r == NewTreeFromDocument(document, other, name, auto)
  <2>2. Formed(r.doc) /\ (r.ok => Dangling(r.doc) \subseteq Dangling(document) \cup Dangling(other))
    BY <2>1, SourceFacts, NewTreeFromRefs
  <2>3. Do("newTreeFrom", r)
    BY <2>1
  <2> HIDE DEF r
  <2>4. QED
    BY <2>2, <2>3, SourceFacts, DoComplete
<1>3. CASE InsertTreeFrom
  <2>1. PICK other \in Sources, name \in TreeName, auto \in BOOLEAN, at \in Places({"end", "stranger"}) :
          /\ HasTree(other, name) => Acyclic(other, name)
          /\ Do("insertTree", InsertTree(document, at, other, name, auto))
    BY <1>3 DEF InsertTreeFrom
  <2> DEFINE r == InsertTree(document, at, other, name, auto)
  <2>2. IsPlace(document, at)
    BY PlacesFacts
  <2>3. Formed(r.doc) /\ (r.ok => Dangling(r.doc) \subseteq Dangling(document) \cup Dangling(other))
    BY <2>1, <2>2, SourceFacts, InsertTreeRefs
  <2>4. Do("insertTree", r)
    BY <2>1
  <2> HIDE DEF r
  <2>5. QED
    BY <2>3, <2>4, SourceFacts, DoComplete
<1>4. CASE InsertOneNode
  <2>1. PICK at \in Places({"end", "first", "stranger"}), name \in NewNodes : Do("insertNode", InsertNode(document, at, name))
    BY <1>4 DEF InsertOneNode
  <2>2. Formed(InsertNode(document, at, name).doc)
    BY PlacesFacts, InsertNodeFormed
  <2>3. QED
    BY <2>1, <2>2, DoComplete DEF Brings
<1>5. CASE InsertRegisteredNode
  <2>1. PICK at \in Places({"end"}), m \in Manifests :
          \E name \in DOMAIN m : Do("insertNode", InsertNodeWithOptions(document, at, name, m[name]))
    BY <1>5 DEF InsertRegisteredNode
  <2>1a. PICK name \in DOMAIN m : Do("insertNode", InsertNodeWithOptions(document, at, name, m[name]))
    BY <2>1
  <2>2. Formed(InsertNodeWithOptions(document, at, name, m[name]).doc)
    BY PlacesFacts, InsertNodeFormed
  <2>3. QED
    BY <2>1a, <2>2, DoComplete DEF Brings
<1>6. CASE InsertSubTree
  <2>1. PICK at \in Places({"end"}) :
          \/ \E name \in TreeName : Do("insertSubTree", InsertSubTreeName(document, at, name))
          \/ \E other \in Sources : \E tree \in TreesOf(other) :
               Do("insertSubTree", InsertSubTreeElement(document, at, other, tree))
    BY <1>6 DEF InsertSubTree
  <2>2. IsPlace(document, at)
    BY PlacesFacts
  <2>3. CASE \E name \in TreeName : Do("insertSubTree", InsertSubTreeName(document, at, name))
    <3>1. PICK name \in TreeName : Do("insertSubTree", InsertSubTreeName(document, at, name))
      BY <2>3
    <3>2. IsTree([name |-> name, nodes |-> Element(name, name)])
      BY ElementNodes, TreeMade
    <3>3. Formed(InsertSubTreeName(document, at, name).doc)
      BY <2>2, <3>2, InsertSubTreeFormed
    <3>4. QED
      BY <3>1, <3>3, DoComplete DEF Brings
  <2>4. CASE \E other \in Sources : \E tree \in TreesOf(other) :
               Do("insertSubTree", InsertSubTreeElement(document, at, other, tree))
    <3>1. PICK other \in Sources : \E tree \in TreesOf(other) :
            Do("insertSubTree", InsertSubTreeElement(document, at, other, tree))
      BY <2>4
    <3>2. PICK tree \in TreesOf(other) : Do("insertSubTree", InsertSubTreeElement(document, at, other, tree))
      BY <3>1
    <3>3. IsTree(tree)
      BY SourceFacts
    <3>4. Formed(InsertSubTreeElement(document, at, other, tree).doc)
      BY <2>2, <3>3, InsertSubTreeFormed
    <3>5. QED
      BY <3>2, <3>4, DoComplete DEF Brings
  <2>5. QED
    BY <2>1, <2>3, <2>4
<1>7. QED
  BY <1>1, <1>2, <1>3, <1>4, <1>5, <1>6

LEMMA RemovedFormed ==
  ASSUME NEW d, Formed(d), NEW name PROVE Formed(WithoutTree(d, name).doc)
<1> DEFINE n == NumberOf(d.trees, name)
           left == RemoveAt(d.trees, n)
           e == [d EXCEPT !.trees = left]
<1>1. IsDoc(d) /\ IsSequence(d.trees) /\ d = [trees |-> d.trees, root |-> d.root, reg |-> d.reg]
  BY DEF Formed, IsDoc
<1>2. CASE ~HasTree(d, name)
  <2>1. WithoutTree(d, name) = Thrown(d)
    BY <1>2 DEF WithoutTree
  <2>2. QED
    BY <2>1 DEF Thrown
<1>3. CASE HasTree(d, name)
  <2>1. WithoutTree(d, name) = Ok(e)
    BY <1>3 DEF WithoutTree
  <2>2. n \in DOMAIN d.trees
    BY <1>1, <1>3, NumberOfFacts DEF HasTree
  <2> HIDE DEF n
  <2>3. IsDoc(WithoutTree(d, name).doc)
    BY <1>1, WithoutTreeFacts
  <2>4. e.trees = left
    BY <1>1
  <2>5. \A tree \in Range(left) : IsTree(tree)
    <3>1. PICK E : d.trees \in Seq(E)
      BY <1>1 DEF IsSequence
    <3> DEFINE T == Range(d.trees)
    <3>2. d.trees \in [1..Len(d.trees) -> T] /\ Len(d.trees) \in Nat
      BY <3>1 DEF Range
    <3>3. d.trees \in Seq(T)
      BY <3>2
    <3>4. \A tree \in T : IsTree(tree)
      BY DEF Formed
    <3> HIDE DEF T
    <3>5. n \in 1..Len(d.trees)
      BY <2>2, <3>2
    <3>6. left \in Seq(T)
      BY <3>3, <3>5 DEF RemoveAt
    <3> HIDE DEF left
    <3>7. Range(left) \subseteq T
      BY <3>6 DEF Range
    <3>8. QED
      BY <3>4, <3>7
  <2> HIDE DEF left, e
  <2>6. WithoutTree(d, name).doc = e
    BY <2>1 DEF Ok
  <2>7. QED
    BY <2>3, <2>4, <2>5, <2>6 DEF Formed
<1>4. QED
  BY <1>2, <1>3

\* The first element of a name, and the elements but one and what is below it.
LEMMA FirstNamed ==
  ASSUME NEW nodes, IsNodes(nodes), NEW name \in NodeNames(nodes),
         NEW first, first = CHOOSE i \in DOMAIN nodes : nodes[i].name = name /\ \A j \in 1..(i - 1) : nodes[j].name # name
  PROVE  first \in 1..Len(nodes)
<1> DEFINE S == {i \in 1..Len(nodes) : nodes[i].name = name}
<1>1. Len(nodes) \in Nat /\ DOMAIN nodes = 1..Len(nodes)
  BY NodesType
<1>2. S \subseteq Nat /\ S # {}
  BY <1>1 DEF NodeNames
<1>3. PICK i \in S : \A j \in S : i <= j
  <2> HIDE DEF S
  <2>1. QED
    BY <1>2, LeastNumber
<1>4. i \in DOMAIN nodes /\ nodes[i].name = name /\ \A j \in 1..(i - 1) : nodes[j].name # name
  BY <1>1, <1>3
<1>5. QED
  BY <1>1, <1>4

LEMMA WithoutNodes ==
  ASSUME NEW nodes, IsNodes(nodes), NEW i \in 1..Len(nodes)
  PROVE  /\ IsNodes(SubSeq(nodes, 1, i - 1) \o SubSeq(nodes, LastBelow(nodes, i) + 1, Len(nodes)))
         /\ IsNodes(SubSeq(nodes, LastBelow(nodes, i) + 1, Len(nodes)))
<1> DEFINE last == LastBelow(nodes, i)
           front == SubSeq(nodes, 1, i - 1)
           back == SubSeq(nodes, last + 1, Len(nodes))
<1>1. Len(nodes) \in Nat /\ i \in 0..Len(nodes) /\ nodes \in Seq(Range(nodes))
  BY NodesType
<1>2. last \in i..Len(nodes)
  BY <1>1, LastBelowFacts
<1> HIDE DEF last
<1>3. i - 1 \in Int /\ i - 1 <= Len(nodes) /\ last + 1 \in Nat /\ last + 1 >= 1 /\ Len(nodes) \in Int
  BY <1>1, <1>2
<1>4. IsNodes(front)
  BY <1>3, SubSeqNodes
<1>5. IsNodes(back)
  BY <1>1, <1>3, SubSeqNodes
<1> HIDE DEF front, back
<1>6. IsNodes(front \o back)
  BY <1>4, <1>5, JoinedNodes
<1>7. QED
  BY <1>5, <1>6 DEF front, back, last

\* An operation on the elements of one tree.
LEMMA NodesComplete ==
  ASSUME Formed(document), NEW op, op \notin Brings, NEW r, Do(op, r),
         r.doc = document \/ \E t \in DOMAIN document.trees : \E nodes :
                               IsNodes(nodes) /\ r.doc = [document EXCEPT !.trees[t].nodes = nodes]
  PROVE  Complete
<1>1. CASE r.doc = document
  BY <1>1, DoComplete
<1>2. CASE r.doc # document
  <2>1a. PICK t \in DOMAIN document.trees :
           \E nodes : IsNodes(nodes) /\ r.doc = [document EXCEPT !.trees[t].nodes = nodes]
    BY <1>2
  <2>1. PICK nodes : IsNodes(nodes) /\ r.doc = [document EXCEPT !.trees[t].nodes = nodes]
    BY <2>1a
  <2> DEFINE e == [document EXCEPT !.trees[t].nodes = nodes]
  <2>2. Formed(e)
    BY <2>1, NodesPlaced
  <2>3. r.doc = e
    BY <2>1
  <2> HIDE DEF e
  <2>4. QED
    BY <2>2, <2>3, DoComplete
<1>3. QED
  BY <1>1, <1>2

LEMMA RemoveComplete ==
  ASSUME Formed(document), RemoveTree \/ RemoveFirstChild \/ RemoveChildren \/ SetRoot
  PROVE  Complete
<1>1. CASE RemoveTree
  <2>1. PICK name \in TreeName : Do("remove", WithoutTree(document, name))
    BY <1>1 DEF RemoveTree
  <2>2. Formed(WithoutTree(document, name).doc)
    BY RemovedFormed
  <2>3. QED
    BY <2>1, <2>2, DoComplete DEF Brings
<1>2. CASE RemoveFirstChild
  <2> DEFINE all(t) == Traversed(document.reg, document.trees[t].nodes)
             First(t, name) == CHOOSE i \in DOMAIN all(t) :
                                 all(t)[i].name = name /\ \A j \in 1..(i - 1) : all(t)[j].name # name
             without(t, i) == SubSeq(all(t), 1, i - 1) \o SubSeq(all(t), LastBelow(all(t), i) + 1, Len(all(t)))
             rest(t) == SubSeq(document.trees[t].nodes, LastBelow(document.trees[t].nodes, 1) + 1,
                               Len(document.trees[t].nodes))
             With(t, nodes) == [document EXCEPT !.trees[t].nodes = nodes]
  <2>1. PICK t \in DOMAIN document.trees :
          \/ Do("remove", IF all(t) = <<>> THEN Thrown(document) ELSE Ok(With(t, rest(t))))
          \/ \E name \in Names :
               Do("remove", IF name \in NodeNames(all(t)) THEN Ok(With(t, without(t, First(t, name))))
                            ELSE Thrown(With(t, all(t))))
    BY <1>2 DEF RemoveFirstChild
  <2>2. IsNodes(document.trees[t].nodes)
    BY FormedTrees
  <2>3. IsNodes(all(t)) /\ Len(all(t)) = Len(document.trees[t].nodes)
    BY <2>2, TraversedFacts
  <2>4. all(t) # <<>> => IsNodes(rest(t))
    <3> HIDE DEF all
    <3>1. SUFFICES ASSUME all(t) # <<>> PROVE IsNodes(rest(t))
      OBVIOUS
    <3>2. Len(all(t)) \in Nat /\ all(t) \in Seq(Range(all(t)))
      BY <2>3, NodesType
    <3>3. Len(all(t)) # 0
      BY <3>1, <3>2
    <3>4. 1 \in 1..Len(document.trees[t].nodes)
      BY <2>3, <3>2, <3>3
    <3>5. QED
      BY <2>2, <3>4, WithoutNodes
  <2>5. ASSUME NEW name \in NodeNames(all(t)) PROVE IsNodes(without(t, First(t, name)))
    <3> HIDE DEF all
    <3>1. First(t, name) \in 1..Len(all(t))
      BY <2>3, FirstNamed
    <3> HIDE DEF First
    <3>2. QED
      BY <2>3, <3>1, WithoutNodes
  <2> HIDE DEF all, First, without, rest
  <2> DEFINE Fine(e) == e = document \/ \E u \in DOMAIN document.trees : \E nodes : IsNodes(nodes) /\ e = With(u, nodes)
  <2>6. PICK r, e : Do("remove", r) /\ r \in {Thrown(e), Ok(e)} /\ Fine(e)
    <3>1. \A nodes : IsNodes(nodes) => Fine(With(t, nodes))
      OBVIOUS
    <3>2. Fine(document)
      OBVIOUS
    <3> HIDE DEF Fine, With
    <3>3. QED
      BY <2>1, <2>3, <2>4, <2>5, <3>1, <3>2
  <2>7. r.doc = e
    BY <2>6 DEF Ok, Thrown
  <2>8. "remove" \notin Brings
    BY DEF Brings
  <2>9. QED
    BY <2>6, <2>7, <2>8, NodesComplete
<1>3. CASE RemoveChildren
  <2>1. PICK t \in DOMAIN document.trees : Do("remove", Ok([document EXCEPT !.trees[t].nodes = <<>>]))
    BY <1>3 DEF RemoveChildren
  <2>2. IsNodes(<<>>)
    <3> DEFINE E == {}
    <3>1. <<>> \in Seq(E) /\ \A e \in E : IsElement(e)
      OBVIOUS
    <3> HIDE DEF E
    <3>2. QED
      BY <3>1 DEF IsNodes
  <2>3. Ok([document EXCEPT !.trees[t].nodes = <<>>]).doc = [document EXCEPT !.trees[t].nodes = <<>>]
    BY DEF Ok
  <2>4. "remove" \notin Brings
    BY DEF Brings
  <2>5. QED
    BY <2>1, <2>2, <2>3, <2>4, NodesComplete
<1>4. CASE SetRoot
  <2>1. PICK name \in TreeName : Do("setRoot", WithRoot(document, name))
    BY <1>4 DEF SetRoot
  <2> DEFINE r == WithRoot(document, name)
  <2>2. IsDoc(document)
    BY DEF Formed
  <2>3. r.doc.trees = document.trees
    BY <2>2 DEF WithRoot, Ok, Thrown, IsDoc
  <2>4. IsDoc(r.doc)
    BY <2>2, WithRootFacts DEF Grown
  <2> HIDE DEF r
  <2>5. Formed(r.doc)
    BY <2>3, <2>4, SameTrees
  <2>6. QED
    BY <2>1, <2>5, DoComplete DEF Brings, r
<1>5. QED
  BY <1>1, <1>2, <1>3, <1>4

LEMMA TreeComplete ==
  ASSUME Formed(document), SetTreeName \/ AssignTree \/ AssignNode
  PROVE  Complete
<1>0. "rename" \notin Brings /\ "assign" \notin Brings
  BY DEF Brings
<1>1. CASE SetTreeName
  <2>1. PICK t \in DOMAIN document.trees, name \in TreeName : Do("rename", Ok([document EXCEPT !.trees[t].name = name]))
    BY <1>1 DEF SetTreeName
  <2> DEFINE tree == [document.trees[t] EXCEPT !.name = name]
             e == [document EXCEPT !.trees = [document.trees EXCEPT ![t] = tree]]
  <2>2. Do("rename", Ok(e))
    BY <2>1
  <2>3. e = Put(document, t, tree)
    BY DEF Put
  <2>4. IsTree(tree)
    <3>1. IsTree(document.trees[t])
      BY FormedTrees
    <3>2. document.trees[t] = [name |-> document.trees[t].name, nodes |-> document.trees[t].nodes]
          /\ IsNodes(document.trees[t].nodes)
      BY <3>1, TreeMade
    <3>3. tree = [name |-> name, nodes |-> document.trees[t].nodes]
      BY <3>2
    <3> HIDE DEF tree
    <3>4. QED
      BY <3>2, <3>3, TreeMade
  <2> HIDE DEF tree, e
  <2>5. Formed(Ok(e).doc)
    BY <2>3, <2>4, PutFacts DEF Ok
  <2>6. QED
    BY <1>0, <2>2, <2>5, DoComplete
<1>2. CASE AssignTree
  <2>1. PICK t \in DOMAIN document.trees, other \in Sources : \E tree \in TreesOf(other) :
          Do("assign", IF document.trees[t].name # tree.name /\ HasTree(document, tree.name) THEN Thrown(document)
                       ELSE Ok([document EXCEPT !.trees[t] = tree]))
    BY <1>2 DEF AssignTree
  <2>2. PICK tree \in TreesOf(other) :
          Do("assign", IF document.trees[t].name # tree.name /\ HasTree(document, tree.name) THEN Thrown(document)
                       ELSE Ok([document EXCEPT !.trees[t] = tree]))
    BY <2>1
  <2>3. IsTree(tree)
    BY SourceFacts
  <2> DEFINE e == [document EXCEPT !.trees = [document.trees EXCEPT ![t] = tree]]
  <2>4. e = Put(document, t, tree)
    BY DEF Put
  <2>5. PICK r : Do("assign", r) /\ r \in {Thrown(document), Ok(e)}
    BY <2>2
  <2> HIDE DEF e
  <2>6. Formed(e)
    BY <2>3, <2>4, PutFacts
  <2>7. Formed(r.doc)
    BY <2>5, <2>6 DEF Ok, Thrown
  <2>8. QED
    BY <1>0, <2>5, <2>7, DoComplete
<1>3. CASE AssignNode
  <2> DEFINE Lower(e, by) == [e EXCEPT !.depth = by + @ - 1]
  <2>1. PICK t \in DOMAIN document.trees, other \in Sources :
          \E i \in DOMAIN document.trees[t].nodes, tree \in {u \in TreesOf(other) : u.nodes # <<>>} :
            LET nodes == document.trees[t].nodes
                copy == FirstChild(tree.nodes)
                placed == [k \in DOMAIN copy |->
                             Lower(IF k = 1 THEN Handled(other.reg, copy[k]) ELSE copy[k], nodes[i].depth)]
            IN  Do("assign", Ok([document EXCEPT !.trees[t].nodes =
                                   SubSeq(nodes, 1, i - 1) \o placed \o SubSeq(nodes, i + 1, Len(nodes))]))
    BY <1>3 DEF AssignNode
  <2> DEFINE nodes == document.trees[t].nodes
  <2>2. PICK i \in DOMAIN nodes, tree \in TreesOf(other) :
          LET copy == FirstChild(tree.nodes)
              placed == [k \in DOMAIN copy |->
                           Lower(IF k = 1 THEN Handled(other.reg, copy[k]) ELSE copy[k], nodes[i].depth)]
          IN  Do("assign", Ok([document EXCEPT !.trees[t].nodes =
                                 SubSeq(nodes, 1, i - 1) \o placed \o SubSeq(nodes, i + 1, Len(nodes))]))
    BY <2>1
  <2> DEFINE copy == FirstChild(tree.nodes)
             by == nodes[i].depth
             Made(k) == IF k = 1 THEN Handled(other.reg, copy[k]) ELSE copy[k]
             placed == [k \in DOMAIN copy |-> Lower(Made(k), by)]
             front == SubSeq(nodes, 1, i - 1)
             back == SubSeq(nodes, i + 1, Len(nodes))
             all == front \o placed \o back
  <2>3. Do("assign", Ok([document EXCEPT !.trees[t].nodes = all]))
    BY <2>2
  <2>4. IsNodes(nodes)
    BY FormedTrees
  <2>5. IsNodes(copy)
    <3>1. IsTree(tree)
      BY SourceFacts
    <3>2. QED
      BY <3>1, TreeMade, FirstChildFacts
  <2> HIDE DEF copy, nodes
  <2>6. Len(nodes) \in Nat /\ i \in 1..Len(nodes) /\ by \in Int
    <3>1. Len(nodes) \in Nat /\ i \in 1..Len(nodes) /\ IsElement(nodes[i])
      BY <2>4, NodesType
    <3>2. QED
      BY <3>1, ElementFacts
  <2> HIDE DEF by
  <2>7. IsNodes(placed)
    <3> DEFINE n == Len(copy)
    <3>1. n \in Nat /\ DOMAIN copy = 1..n /\ \A k \in 1..n : IsElement(copy[k])
      BY <2>5, NodesType
    <3> HIDE DEF n
    <3>2. ASSUME NEW k \in 1..n PROVE IsElement(placed[k])
      <4>1. IsElement(Made(k))
        BY <3>1, HandledFacts
      <4>2. placed[k] = Lower(Made(k), by)
        BY <3>1
      <4> HIDE DEF Made
      <4> DEFINE depth == by + Made(k).depth - 1
      <4>3. depth \in Int
        BY <2>6, <4>1, ElementFacts
      <4>4. Lower(Made(k), by) = [Made(k) EXCEPT !.depth = depth]
        OBVIOUS
      <4> HIDE DEF depth, Lower, placed
      <4>5. QED
        BY <4>1, <4>2, <4>3, <4>4, ElementFacts
    <3>3. placed = [k \in 1..n |-> placed[k]]
      BY <3>1
    <3> HIDE DEF placed
    <3>4. QED
      BY <3>1, <3>2, <3>3, NodesMade
  <2>8. IsNodes(front) /\ IsNodes(back)
    <3>1. i - 1 \in Int /\ i - 1 <= Len(nodes) /\ i + 1 \in Nat /\ i + 1 >= 1 /\ Len(nodes) \in Int
      BY <2>6
    <3>2. QED
      BY <2>4, <2>6, <3>1, SubSeqNodes
  <2> HIDE DEF placed, front, back
  <2>9. IsNodes(all)
    <3>1. IsNodes(front \o placed)
      BY <2>7, <2>8, JoinedNodes
    <3>2. QED
      BY <2>8, <3>1, JoinedNodes
  <2> HIDE DEF all
  <2>10. Ok([document EXCEPT !.trees[t].nodes = all]).doc = [document EXCEPT !.trees[t].nodes = all]
    BY DEF Ok
  <2>11. QED
    BY <1>0, <2>3, <2>9, <2>10, NodesComplete
<1>4. QED
  BY <1>1, <1>2, <1>3

LEMMA NodeComplete ==
  ASSUME Formed(document), SetPort \/ SetInlineOptions \/ GetRequiredNodes
  PROVE  Complete
<1>0. "setPort" \notin Brings /\ "setInline" \notin Brings /\ "required" \notin Brings
  BY DEF Brings
<1>1. CASE SetPort
  <2> DEFINE element(t, i) == Handled(document.reg, document.trees[t].nodes[i])
             known(t, i) == ModelPort(document.reg, element(t, i).name)
             With(t, i, value) == [document EXCEPT !.trees[t].nodes[i] = [element(t, i) EXCEPT !.port = value]]
  <2>0. PICK t \in DOMAIN document.trees : \E i \in DOMAIN document.trees[t].nodes :
          \/ Do("setPort", IF known(t, i) = "unknown" THEN Thrown(document) ELSE Ok(With(t, i, "set")))
          \/ Do("setPort", IF known(t, i) = "unknown" THEN Ok(document)
                           ELSE Ok(With(t, i, IF known(t, i) = "default" THEN "default" ELSE "unset")))
    BY <1>1 DEF SetPort
  <2>1. PICK i \in DOMAIN document.trees[t].nodes :
          \/ Do("setPort", IF known(t, i) = "unknown" THEN Thrown(document) ELSE Ok(With(t, i, "set")))
          \/ Do("setPort", IF known(t, i) = "unknown" THEN Ok(document)
                           ELSE Ok(With(t, i, IF known(t, i) = "default" THEN "default" ELSE "unset")))
    BY <2>0
  <2> DEFINE Set(value) == [document.trees[t].nodes EXCEPT ![i] = [element(t, i) EXCEPT !.port = value]]
  <2>2. ASSUME NEW value PROVE IsNodes(Set(value))
    <3> DEFINE nodes == document.trees[t].nodes
               e == [element(t, i) EXCEPT !.port = value]
               n == Len(nodes)
    <3>1. IsNodes(nodes)
      BY FormedTrees
    <3> HIDE DEF nodes
    <3>2. n \in Nat /\ DOMAIN nodes = 1..n /\ \A k \in 1..n : IsElement(nodes[k])
      BY <3>1, NodesType
    <3> HIDE DEF n
    <3>3. IsElement(e)
      <4>1. IsElement(nodes[i])
        BY <3>2 DEF nodes
      <4>2. IsElement(element(t, i))
        BY <4>1, HandledFacts DEF nodes
      <4> HIDE DEF element
      <4>3. QED
        BY <4>2, ElementFacts
    <3>4. Set(value) = [nodes EXCEPT ![i] = e]
      BY DEF nodes
    <3> HIDE DEF Set, e, element, known, With
    <3>5. Set(value) = [k \in 1..n |-> Set(value)[k]] /\ \A k \in 1..n : Set(value)[k] \in {nodes[k], e}
      BY <3>2, <3>4
    <3>6. \A k \in 1..n : IsElement(Set(value)[k])
      BY <3>2, <3>3, <3>5
    <3>7. QED
      BY <3>2, <3>5, <3>6, NodesMade
  <2>3. \A value : With(t, i, value) = [document EXCEPT !.trees[t].nodes = Set(value)]
    OBVIOUS
  <2> HIDE DEF known, element, With, Set
  <2>4. PICK r : Do("setPort", r) /\ (r.doc = document \/ \E value : r.doc = With(t, i, value))
    <3>1. \A e : Ok(e).doc = e /\ Thrown(e).doc = e
      BY DEF Ok, Thrown
    <3>2. QED
      BY <2>1, <3>1
  <2>5. r.doc = document \/ \E u \in DOMAIN document.trees : \E nodes :
                              IsNodes(nodes) /\ r.doc = [document EXCEPT !.trees[u].nodes = nodes]
    BY <2>2, <2>3, <2>4
  <2>6. QED
    BY <1>0, <2>4, <2>5, NodesComplete
<1>2. CASE SetInlineOptions
  <2> DEFINE inline(t) == WithInlineOptions(document.reg, document.trees[t].nodes)
             e(t) == [document EXCEPT !.trees[t].nodes = inline(t).nodes]
             r(t) == [ok |-> inline(t).ok, doc |-> e(t)]
  <2>1. PICK t \in DOMAIN document.trees : Do("setInline", r(t))
    BY <1>2 DEF SetInlineOptions
  <2>2. IsNodes(inline(t).nodes)
    <3> DEFINE nodes == document.trees[t].nodes
               n == Len(nodes)
               new == inline(t).nodes
    <3>1. n \in Nat /\ DOMAIN nodes = 1..n /\ \A k \in 1..n : IsElement(nodes[k])
      BY FormedTrees, NodesType
    <3> HIDE DEF n
    <3>2. \A k \in 1..n : \E opts : new[k] \in {nodes[k], [Handled(document.reg, nodes[k]) EXCEPT !.opts = opts]}
      BY <3>1 DEF WithInlineOptions
    <3>3. new = [k \in 1..n |-> new[k]]
      BY <3>1 DEF WithInlineOptions
    <3> HIDE DEF new, nodes, r, e, inline
    <3>4. ASSUME NEW k \in 1..n PROVE IsElement(new[k])
      <4>1. PICK opts : new[k] \in {nodes[k], [Handled(document.reg, nodes[k]) EXCEPT !.opts = opts]}
        BY <3>2
      <4>2. IsElement(Handled(document.reg, nodes[k]))
        BY <3>1, HandledFacts
      <4>3. IsElement([Handled(document.reg, nodes[k]) EXCEPT !.opts = opts])
        BY <4>2, ElementFacts
      <4>4. QED
        BY <3>1, <4>1, <4>3
    <3>5. IsNodes(new)
      BY <3>1, <3>3, <3>4, NodesMade
    <3>6. QED
      BY <3>5 DEF new
  <2> HIDE DEF inline
  <2>3. r(t).doc = [document EXCEPT !.trees[t].nodes = inline(t).nodes]
    OBVIOUS
  <2> HIDE DEF r, e
  <2>4. QED
    BY <1>0, <2>1, <2>2, <2>3, NodesComplete
<1>3. CASE GetRequiredNodes
  <2> DEFINE ok(t) == Required(document, document.trees[t].nodes).ok
             nodes(t) == Traversed(document.reg, document.trees[t].nodes)
             r(t) == [ok |-> ok(t), doc |-> [document EXCEPT !.trees[t].nodes = nodes(t)]]
  <2>1. PICK t \in DOMAIN document.trees : Do("required", r(t))
    BY <1>3 DEF GetRequiredNodes
  <2>2. IsNodes(nodes(t))
    BY FormedTrees, TraversedFacts
  <2> HIDE DEF ok, nodes
  <2>3. r(t).doc = [document EXCEPT !.trees[t].nodes = nodes(t)]
    OBVIOUS
  <2> HIDE DEF r
  <2>4. QED
    BY <1>0, <2>1, <2>2, <2>3, NodesComplete
<1>4. QED
  BY <1>1, <1>2, <1>3

LEMMA EmptyFormed == \A reg : IsRegistry(reg) => Formed([EmptyDoc EXCEPT !.reg = reg])
<1> SUFFICES ASSUME NEW reg, IsRegistry(reg) PROVE Formed([EmptyDoc EXCEPT !.reg = reg])
  OBVIOUS
<1> DEFINE e == [EmptyDoc EXCEPT !.reg = reg]
<1>1. e = [trees |-> <<>>, root |-> NoTree, reg |-> reg]
  BY DEF EmptyDoc
<1>2. IsSequence(<<>>)
  BY EmptyFacts DEF EmptyDoc, IsDoc
<1> HIDE DEF e
<1>3. IsDoc(e) /\ e.trees = <<>>
  BY <1>1, <1>2 DEF IsDoc
<1>4. Range(<<>>) = {}
  BY DEF Range
<1>5. Formed(e)
  BY <1>3, <1>4 DEF Formed
<1>6. QED
  BY <1>5 DEF e

LEMMA NamespaceFormed ==
  ASSUME NEW d, Formed(d)
  PROVE  \A tree \in Range(NamespaceDocument(d).doc.trees) : IsTree(tree)
<1> DEFINE Renamed(e) == IF e.name \in Registered(d.reg) THEN [e EXCEPT !.name = Under[@]] ELSE e
           InNamespace(tree) == [tree EXCEPT !.nodes = [k \in DOMAIN @ |-> Renamed(@[k])]]
           trees == [i \in DOMAIN d.trees |-> InNamespace(d.trees[i])]
           e == [d EXCEPT !.trees = trees]
           reg == NamespaceNodes(d.reg).reg
<1>2. NamespaceDocument(d).doc = [e EXCEPT !.reg = reg]
  BY DEF NamespaceDocument, WithRegistry
<1>3. ASSUME NEW i \in DOMAIN d.trees PROVE IsTree(trees[i])
  <2> DEFINE nodes == d.trees[i].nodes
             n == Len(nodes)
             new == [k \in DOMAIN nodes |-> Renamed(nodes[k])]
  <2>1. d.trees[i] = [name |-> d.trees[i].name, nodes |-> nodes] /\ IsNodes(nodes)
    BY FormedTrees, TreeMade
  <2>2. trees[i] = [name |-> d.trees[i].name, nodes |-> new]
    BY <2>1
  <2>3. n \in Nat /\ DOMAIN nodes = 1..n /\ \A k \in 1..n : IsElement(nodes[k])
    BY <2>1, NodesType
  <2> HIDE DEF n
  <2>4. ASSUME NEW k \in 1..n PROVE IsElement(new[k])
    <3>1. \E name : new[k] \in {nodes[k], [nodes[k] EXCEPT !.name = name]}
      BY <2>3
    <3> HIDE DEF new
    <3>2. QED
      BY <2>3, <3>1, ElementFacts
  <2>5. new = [k \in 1..n |-> new[k]]
    BY <2>3
  <2> HIDE DEF new, nodes
  <2>6. IsNodes(new)
    BY <2>3, <2>4, <2>5, NodesMade
  <2> HIDE DEF trees
  <2>7. QED
    BY <2>2, <2>6, TreeMade
<1>4. NamespaceDocument(d).doc.trees = trees
  <2>1. d = [trees |-> d.trees, root |-> d.root, reg |-> d.reg]
    BY DEF Formed, IsDoc
  <2> HIDE DEF trees, reg
  <2>2. QED
    BY <1>2, <2>1
<1>5. DOMAIN trees = DOMAIN d.trees
  OBVIOUS
<1> HIDE DEF trees
<1>6. \A tree \in Range(NamespaceDocument(d).doc.trees) : IsTree(tree)
  BY <1>3, <1>4, <1>5 DEF Range
<1>7. QED
  BY <1>6

LEMMA RegistryComplete ==
  ASSUME Formed(document), RegisterManifest \/ ApplyNodeNamespace \/ Reset
  PROVE  Complete
<1>0. IsDoc(document)
  BY DEF Formed
<1>1. CASE RegisterManifest
  <2>1. PICK m \in Manifests, override \in BOOLEAN :
          Do(IF override THEN "override" ELSE "register", WithNodes(document, m, override))
    BY <1>1 DEF RegisterManifest
  <2>2. IsDoc(WithNodes(document, m, override).doc) /\ WithNodes(document, m, override).doc.trees = document.trees
    BY <1>0, WithNodesFacts, WithNodesTrees
  <2> DEFINE op == IF override THEN "override" ELSE "register"
  <2>3. op \notin Brings
    BY DEF Brings
  <2> HIDE DEF op
  <2>4. Do(op, WithNodes(document, m, override))
    BY <2>1 DEF op
  <2>5. Formed(WithNodes(document, m, override).doc)
    BY <2>2, SameTrees
  <2>6. QED
    BY <2>3, <2>4, <2>5, DoComplete
<1>2. CASE ApplyNodeNamespace
  <2>1. document' = NamespaceDocument(document).doc /\ operation'.op = "namespace"
    BY <1>2 DEF ApplyNodeNamespace, Perform
  <2>2. IsDoc(document)'
    BY <1>0, <1>2, RegistrySteps DEF Sound
  <2>3. \A tree \in Range(NamespaceDocument(document).doc.trees) : IsTree(tree)
    BY NamespaceFormed
  <2>4. Formed(document)'
    BY <2>1, <2>2, <2>3 DEF Formed
  <2>5. QED
    BY <2>1, <2>4 DEF Complete, Brings
<1>3. CASE Reset
  <2>1. PICK unregister \in BOOLEAN :
          Do("reset", Ok([EmptyDoc EXCEPT !.reg = IF unregister THEN ResetNodes(document.reg) ELSE document.reg]))
    BY <1>3 DEF Reset
  <2> DEFINE reg == IF unregister THEN ResetNodes(document.reg) ELSE document.reg
             e == [EmptyDoc EXCEPT !.reg = reg]
  <2>2. IsRegistry(reg)
    BY <1>0, ResetFacts DEF IsDoc
  <2>3. Do("reset", Ok(e))
    BY <2>1
  <2> HIDE DEF reg
  <2>4. Formed(e)
    BY <2>2, EmptyFormed
  <2> HIDE DEF e
  <2>5. Formed(Ok(e).doc)
    BY <2>4 DEF Ok
  <2>6. QED
    BY <2>3, <2>5, DoComplete DEF Brings
<1>4. QED
  BY <1>1, <1>2, <1>3

TreesInv == Formed(document)

LEMMA InitFormed == EditInit => TreesInv
<1> SUFFICES ASSUME EditInit PROVE Formed(document)
  BY DEF TreesInv
<1>1. IsDoc(document)
  BY InitSound DEF DocumentInv
<1>2. Range(document.trees) \subseteq ContentTrees
  <2>1. CASE document = EmptyDoc
    BY <2>1, EmptyDistinct
  <2>2. CASE document # EmptyDoc
    <3>1. PICK f \in StartFiles : document = Loaded[<<f, TRUE>>].doc
      BY <2>2 DEF EditInit
    <3>2. <<f, TRUE>> \in Files \X BOOLEAN
      BY EditingAssumption
    <3>3. QED
      BY <3>1, <3>2, LoadedWell DEF ReadWell
  <2>3. QED
    BY <2>1, <2>2
<1>3. \A tree \in ContentTrees : IsTree(tree)
  BY ContentAssumption DEF ContentTrees
<1>4. QED
  BY <1>1, <1>2, <1>3 DEF Formed

LEMMA StepComplete == TreesInv /\ EditNext => Complete
BY MergeComplete, InsertComplete, RemoveComplete, TreeComplete, NodeComplete, RegistryComplete DEF TreesInv, EditNext

LEMMA TreesCorrect == EditSpec => []TreesInv
<1>1. TreesInv /\ UNCHANGED docVars => TreesInv'
  BY DEF TreesInv, docVars, Formed, IsDoc, IsRegistry
<1>2. TreesInv /\ [EditNext]_docVars => TreesInv'
  BY <1>1, StepComplete DEF Complete, TreesInv
<1>3. QED
  BY InitFormed, <1>2, PTL DEF EditSpec

(***************************************************************************)
(* Whatever files and trees there are: an operation that takes trees from  *)
(* elsewhere and succeeds leaves no reference without a tree that was not  *)
(* there before, or that a file leaves open, however deep in includes and  *)
(* however many references away the tree it takes is.                      *)
(***************************************************************************)
THEOREM ReferencesCorrect == EditSpec => NoNewDangling
<1> DEFINE NoneOpen == operation'.ok /\ operation'.op \in {"merge", "newTreeFrom", "insertTree"} =>
                     Dangling(document') \subseteq Dangling(document) \cup LeftOpen
<1>1. TreesInv /\ [EditNext]_docVars => [NoneOpen]_docVars
  BY StepComplete DEF Complete, Brings
<1>2. QED
  BY TreesCorrect, <1>1, PTL DEF EditSpec, NoNewDangling

-----------------------------------------------------------------------------
(***************************************************************************)
(* Inline options as a set.  Elements with options go together with a      *)
(* registry or not, and what the registry is then does not depend on the   *)
(* order the trees they are in are appended in.                            *)
(***************************************************************************)
InlineOf(tree) == {e \in Range(FirstChild(tree.nodes)) : e.opts # NoOptions /\ e.name # "SubTree"}
InlineIn(T) == UNION {InlineOf(tree) : tree \in T}

Fits(reg, P) ==
  /\ \A e \in P : Parsed(e.opts)
  /\ \A e \in P : e.name \in Registered(reg) => reg.manifest[e.name] = e.opts
  /\ \A e \in P : e.name \notin Registered(reg) => /\ e.name \notin Native \cup DOMAIN reg.factory
                                                   /\ Registrable(e.opts)
  /\ \A e, f \in P : e.name = f.name => e.opts = f.opts

NewNames(reg, P) == {e.name : e \in P} \ Registered(reg)
NewOptions(reg, P) == [n \in NewNames(reg, P) |-> (CHOOSE e \in P : e.name = n).opts]

\* The registry with the nodes of P.
With(reg, P) ==
  [manifest |-> Over(NewOptions(reg, P), reg.manifest), factory |-> Over(NewOptions(reg, P), reg.factory)]

LEMMA WithFacts ==
  ASSUME NEW reg, NEW P, Fits(reg, P)
  PROVE  /\ Registered(With(reg, P)) = Registered(reg) \cup {e.name : e \in P}
         /\ DOMAIN With(reg, P).factory = DOMAIN reg.factory \cup NewNames(reg, P)
         /\ \A n \in Registered(reg) : With(reg, P).manifest[n] = reg.manifest[n]
         /\ \A n \in DOMAIN reg.factory \ NewNames(reg, P) : With(reg, P).factory[n] = reg.factory[n]
         /\ \A e \in P : With(reg, P).manifest[e.name] = e.opts
         /\ \A e \in P : e.name \in NewNames(reg, P) => With(reg, P).factory[e.name] = e.opts
<1> DEFINE new == NewNames(reg, P)
           m == NewOptions(reg, P)
           w == With(reg, P)
<1>1. DOMAIN m = new
  BY DEF NewOptions
<1>2. ASSUME NEW e \in P, e.name \in new PROVE m[e.name] = e.opts
  <2>1. PICK f \in P : f.name = e.name /\ m[e.name] = f.opts
    BY <1>2 DEF NewOptions
  <2>2. QED
    BY <2>1 DEF Fits
<1>3. w = [manifest |-> Over(m, reg.manifest), factory |-> Over(m, reg.factory)]
  BY DEF With
<1> HIDE DEF m, w
<1>4. /\ DOMAIN w.manifest = new \cup DOMAIN reg.manifest
      /\ \A n \in DOMAIN w.manifest : w.manifest[n] = IF n \in new THEN m[n] ELSE reg.manifest[n]
  BY <1>1, <1>3 DEF Over
<1>5. /\ DOMAIN w.factory = new \cup DOMAIN reg.factory
      /\ \A n \in DOMAIN w.factory : w.factory[n] = IF n \in new THEN m[n] ELSE reg.factory[n]
  BY <1>1, <1>3 DEF Over
<1>6. \A n \in Registered(reg) : n \notin new
  BY DEF NewNames
<1>7. \A e \in P : e.name \in new \/ e.name \in Registered(reg)
  BY DEF NewNames
<1>8. Registered(w) = Registered(reg) \cup {e.name : e \in P}
  BY <1>4 DEF Registered, NewNames
<1>9. \A e \in P : w.manifest[e.name] = e.opts
  BY <1>2, <1>4, <1>6, <1>7 DEF Fits, Registered
<1>10. \A e \in P : e.name \in new => w.factory[e.name] = e.opts
  BY <1>2, <1>5
<1>11. \A n \in Registered(reg) : w.manifest[n] = reg.manifest[n]
  BY <1>4, <1>6 DEF Registered
<1>12. QED
  BY <1>5, <1>8, <1>9, <1>10, <1>11 DEF w

LEMMA FitsBoth ==
  ASSUME NEW reg, NEW P, NEW Q
  PROVE  Fits(reg, P \cup Q) <=> Fits(reg, P) /\ Fits(With(reg, P), Q)
<1> DEFINE w == With(reg, P)
<1>1. ASSUME Fits(reg, P \cup Q) PROVE Fits(reg, P) /\ Fits(w, Q)
  <2>1. Fits(reg, P)
    BY <1>1 DEF Fits
  <2>2. /\ Registered(w) = Registered(reg) \cup {e.name : e \in P}
        /\ DOMAIN w.factory = DOMAIN reg.factory \cup NewNames(reg, P)
        /\ \A n \in Registered(reg) : w.manifest[n] = reg.manifest[n]
        /\ \A e \in P : w.manifest[e.name] = e.opts
    BY <2>1, WithFacts
  <2> HIDE DEF w
  <2>3. \A e \in Q : Parsed(e.opts)
    BY <1>1 DEF Fits
  <2>4. \A e \in Q : e.name \in Registered(w) => w.manifest[e.name] = e.opts
    <3> SUFFICES ASSUME NEW e \in Q, e.name \in Registered(w) PROVE w.manifest[e.name] = e.opts
      OBVIOUS
    <3>1. CASE e.name \in Registered(reg)
      BY <1>1, <2>2, <3>1 DEF Fits
    <3>2. CASE e.name \notin Registered(reg)
      <4>1. PICK f \in P : f.name = e.name
        BY <2>2, <3>2
      <4>2. f.opts = e.opts
        BY <1>1, <4>1 DEF Fits
      <4>3. QED
        BY <2>2, <4>1, <4>2
    <3>3. QED
      BY <3>1, <3>2
  <2>5. \A e \in Q : e.name \notin Registered(w) => e.name \notin Native \cup DOMAIN w.factory /\ Registrable(e.opts)
    <3>1. NewNames(reg, P) \subseteq Registered(w)
      BY <2>2 DEF NewNames
    <3>2. QED
      BY <1>1, <2>2, <3>1 DEF Fits
  <2>6. \A e, f \in Q : e.name = f.name => e.opts = f.opts
    BY <1>1 DEF Fits
  <2>7. QED
    BY <2>1, <2>3, <2>4, <2>5, <2>6 DEF Fits
<1>2. ASSUME Fits(reg, P), Fits(w, Q) PROVE Fits(reg, P \cup Q)
  <2>1. /\ Registered(w) = Registered(reg) \cup {e.name : e \in P}
        /\ DOMAIN w.factory = DOMAIN reg.factory \cup NewNames(reg, P)
        /\ \A n \in Registered(reg) : w.manifest[n] = reg.manifest[n]
        /\ \A e \in P : w.manifest[e.name] = e.opts
    BY <1>2, WithFacts
  <2> HIDE DEF w
  <2>2. \A e \in P \cup Q : Parsed(e.opts)
    BY <1>2 DEF Fits
  <2>3. \A e \in P \cup Q : e.name \in Registered(reg) => reg.manifest[e.name] = e.opts
    BY <1>2, <2>1 DEF Fits
  <2>4. ASSUME NEW e \in P, NEW f \in Q, e.name = f.name PROVE e.opts = f.opts
    BY <1>2, <2>1, <2>4 DEF Fits
  <2>5. \A e \in P \cup Q : e.name \notin Registered(reg) =>
          e.name \notin Native \cup DOMAIN reg.factory /\ Registrable(e.opts)
    <3> SUFFICES ASSUME NEW e \in P \cup Q, e.name \notin Registered(reg)
                 PROVE  e.name \notin Native \cup DOMAIN reg.factory /\ Registrable(e.opts)
      OBVIOUS
    <3>1. CASE e \in P
      BY <1>2, <3>1 DEF Fits
    <3>2. CASE e \in Q /\ e.name \notin Registered(w)
      BY <1>2, <2>1, <3>2 DEF Fits
    <3>3. CASE e \in Q /\ e.name \in Registered(w)
      <4>1. PICK f \in P : f.name = e.name
        BY <2>1, <3>3
      <4>2. f.opts = e.opts
        BY <2>4, <3>3, <4>1
      <4>3. QED
        BY <1>2, <4>1, <4>2 DEF Fits
    <3>4. QED
      BY <3>1, <3>2, <3>3
  <2>6. \A e, f \in P \cup Q : e.name = f.name => e.opts = f.opts
    BY <1>2, <2>4 DEF Fits
  <2>7. QED
    BY <2>2, <2>3, <2>5, <2>6 DEF Fits
<1>3. QED
  BY <1>1, <1>2

LEMMA WithBoth ==
  ASSUME NEW reg, NEW P, NEW Q, Fits(reg, P \cup Q) PROVE With(With(reg, P), Q) = With(reg, P \cup Q)
<1> DEFINE w == With(reg, P)
           v == With(w, Q)
           u == With(reg, P \cup Q)
<1>1. Fits(reg, P) /\ Fits(w, Q)
  BY FitsBoth
<1>2. /\ Registered(w) = Registered(reg) \cup {e.name : e \in P}
      /\ DOMAIN w.factory = DOMAIN reg.factory \cup NewNames(reg, P)
      /\ \A n \in Registered(reg) : w.manifest[n] = reg.manifest[n]
      /\ \A n \in DOMAIN reg.factory \ NewNames(reg, P) : w.factory[n] = reg.factory[n]
      /\ \A e \in P : w.manifest[e.name] = e.opts
      /\ \A e \in P : e.name \in NewNames(reg, P) => w.factory[e.name] = e.opts
  BY <1>1, WithFacts
<1>3. /\ Registered(u) = Registered(reg) \cup {e.name : e \in P \cup Q}
      /\ DOMAIN u.factory = DOMAIN reg.factory \cup NewNames(reg, P \cup Q)
      /\ \A n \in Registered(reg) : u.manifest[n] = reg.manifest[n]
      /\ \A n \in DOMAIN reg.factory \ NewNames(reg, P \cup Q) : u.factory[n] = reg.factory[n]
      /\ \A e \in P \cup Q : u.manifest[e.name] = e.opts
      /\ \A e \in P \cup Q : e.name \in NewNames(reg, P \cup Q) => u.factory[e.name] = e.opts
  <2> DEFINE R == P \cup Q
  <2>1. Fits(reg, R)
    OBVIOUS
  <2> HIDE DEF R
  <2>2. /\ Registered(With(reg, R)) = Registered(reg) \cup {e.name : e \in R}
        /\ DOMAIN With(reg, R).factory = DOMAIN reg.factory \cup NewNames(reg, R)
        /\ \A n \in Registered(reg) : With(reg, R).manifest[n] = reg.manifest[n]
        /\ \A n \in DOMAIN reg.factory \ NewNames(reg, R) : With(reg, R).factory[n] = reg.factory[n]
        /\ \A e \in R : With(reg, R).manifest[e.name] = e.opts
        /\ \A e \in R : e.name \in NewNames(reg, R) => With(reg, R).factory[e.name] = e.opts
    BY <2>1, WithFacts
  <2>3. QED
    BY <2>2 DEF R
<1>4. u = [manifest |-> u.manifest, factory |-> u.factory] /\ IsMap(u.manifest) /\ IsMap(u.factory)
  BY OverFacts DEF With
<1>5. v = [manifest |-> v.manifest, factory |-> v.factory] /\ IsMap(v.manifest) /\ IsMap(v.factory)
  BY OverFacts DEF With
<1> HIDE DEF w
<1>6. /\ Registered(v) = Registered(w) \cup {e.name : e \in Q}
      /\ DOMAIN v.factory = DOMAIN w.factory \cup NewNames(w, Q)
      /\ \A n \in Registered(w) : v.manifest[n] = w.manifest[n]
      /\ \A n \in DOMAIN w.factory \ NewNames(w, Q) : v.factory[n] = w.factory[n]
      /\ \A e \in Q : v.manifest[e.name] = e.opts
      /\ \A e \in Q : e.name \in NewNames(w, Q) => v.factory[e.name] = e.opts
  BY <1>1, WithFacts
<1> HIDE DEF u, v
<1>7. u.manifest = v.manifest
  <2>1. DOMAIN v.manifest = DOMAIN u.manifest
    BY <1>2, <1>3, <1>6 DEF Registered
  <2>2. \A n \in Registered(u) : v.manifest[n] = u.manifest[n]
    BY <1>2, <1>3, <1>6
  <2>3. QED
    BY <1>4, <1>5, <2>1, <2>2 DEF IsMap, Registered
<1>8. u.factory = v.factory
  <2>1. NewNames(reg, P \cup Q) = NewNames(reg, P) \cup NewNames(w, Q)
    BY <1>2 DEF NewNames
  <2>2. DOMAIN v.factory = DOMAIN u.factory
    BY <1>2, <1>3, <1>6, <2>1
  <2>3. \A n \in DOMAIN u.factory : v.factory[n] = u.factory[n]
    <3> SUFFICES ASSUME NEW n \in DOMAIN u.factory PROVE v.factory[n] = u.factory[n]
      OBVIOUS
    <3>1. CASE n \in NewNames(w, Q)
      <4>1. PICK e \in Q : e.name = n
        BY <3>1 DEF NewNames
      <4>2. QED
        BY <1>3, <1>6, <2>1, <3>1, <4>1
    <3>2. CASE n \in NewNames(reg, P) /\ n \notin NewNames(w, Q)
      <4>1. PICK e \in P : e.name = n
        BY <3>2 DEF NewNames
      <4>2. w.factory[n] = e.opts /\ u.factory[n] = e.opts
        BY <1>2, <1>3, <2>1, <3>2, <4>1
      <4>3. QED
        BY <1>2, <1>6, <3>2, <4>2
    <3>3. CASE n \notin NewNames(reg, P \cup Q)
      BY <1>2, <1>3, <1>6, <2>1, <3>3
    <3>4. QED
      BY <2>1, <3>1, <3>2, <3>3
  <2>4. QED
    BY <1>4, <1>5, <2>2, <2>3 DEF IsMap
<1>9. QED
  BY <1>4, <1>5, <1>7, <1>8 DEF u, v, w

LEMMA RegisterNew ==
  ASSUME NEW reg, NEW m, DOMAIN m \cap Registered(reg) = {}
  PROVE  LET r == RegisterNodes(reg, m, FALSE)
         IN  /\ r.ok <=> \A n \in DOMAIN m : n \notin Native \cup DOMAIN reg.factory /\ Registrable(m[n])
             /\ r.ok => r.reg = [manifest |-> Over(m, reg.manifest), factory |-> Over(m, reg.factory)]
<1> DEFINE r == RegisterNodes(reg, m, FALSE)
           F == {n \in DOMAIN m : IF n \in Registered(reg) /\ ~FALSE THEN ~SameOptions(reg.manifest[n], m[n])
                                  ELSE ~Registrable(m[n]) \/ n \in DOMAIN reg.factory \ Registered(reg)}
           G == {n \in DOMAIN m : ~Registrable(m[n]) \/ n \in DOMAIN reg.factory}
           all == [manifest |-> Over(m, reg.manifest), factory |-> Over(m, reg.factory)]
<1>1. CASE DOMAIN m \cap Native # {}
  <2>1. r = [ok |-> FALSE, reg |-> reg]
    BY <1>1 DEF RegisterNodes
  <2> HIDE DEF r
  <2>2. ~r.ok
    BY <2>1
  <2>3. PICK n \in DOMAIN m : n \in Native
    BY <1>1
  <2>4. /\ r.ok <=> \A k \in DOMAIN m : k \notin Native \cup DOMAIN reg.factory /\ Registrable(m[k])
        /\ r.ok => r.reg = all
    BY <2>2, <2>3
  <2>5. QED
    BY <2>4 DEF r
<1>2. CASE DOMAIN m \cap Native = {}
  <2>1. r = RegisteredUntil(reg, m, F, FALSE)
    BY <1>2 DEF RegisterNodes
  <2>2. F = G
    OBVIOUS
  <2> HIDE DEF F, r
  <2>3. r.ok <=> G = {}
    BY <2>1, <2>2 DEF RegisteredUntil
  <2>4. ASSUME G = {} PROVE r.reg = all
    <3> DEFINE left == Restrict(reg.manifest, DOMAIN reg.manifest \ {})
               built == Restrict(reg.factory, DOMAIN reg.factory \ {})
               added == Restrict(m, {n \in HandledBefore(DOMAIN m, {}) : FALSE \/ n \notin Registered(reg)})
    <3>1. r.reg = PutIn(TakenOut(reg, {}), added)
      BY <2>1, <2>2, <2>4 DEF RegisteredUntil
    <3>2. PutIn(TakenOut(reg, {}), added) = [manifest |-> Over(added, left), factory |-> Over(added, built)]
      BY DEF PutIn, TakenOut
    <3>3. HandledBefore(DOMAIN m, {}) = DOMAIN m
      BY DEF HandledBefore
    <3>4. DOMAIN added = DOMAIN m /\ \A n \in DOMAIN m : added[n] = m[n]
      BY <3>3 DEF Restrict
    <3>5. DOMAIN left = DOMAIN reg.manifest /\ \A n \in DOMAIN reg.manifest : left[n] = reg.manifest[n]
      BY DEF Restrict
    <3>6. DOMAIN built = DOMAIN reg.factory /\ \A n \in DOMAIN reg.factory : built[n] = reg.factory[n]
      BY DEF Restrict
    <3> HIDE DEF left, built, added
    <3>7. Over(added, left) = Over(m, reg.manifest)
      BY <3>4, <3>5 DEF Over
    <3>8. Over(added, built) = Over(m, reg.factory)
      BY <3>4, <3>6 DEF Over
    <3>9. QED
      BY <3>1, <3>2, <3>7, <3>8
  <2> HIDE DEF all
  <2>5. G = {} <=> \A n \in DOMAIN m : n \notin DOMAIN reg.factory /\ Registrable(m[n])
    OBVIOUS
  <2> HIDE DEF G
  <2>6. /\ r.ok <=> \A n \in DOMAIN m : n \notin Native \cup DOMAIN reg.factory /\ Registrable(m[n])
        /\ r.ok => r.reg = all
    BY <1>2, <2>3, <2>4, <2>5
  <2>7. QED
    BY <2>6 DEF r, all
<1>3. QED
  BY <1>1, <1>2

LEMMA InlineFacts ==
  ASSUME NEW reg, NEW tree
  PROVE  LET inline == InlineOptions(reg, FirstChild(tree.nodes))
             P == InlineOf(tree)
         IN  /\ inline.ok <=> /\ \A e \in P : Parsed(e.opts)
                              /\ \A e \in P : e.name \in Registered(reg) => reg.manifest[e.name] = e.opts
                              /\ \A e, f \in P : e.name = f.name => e.opts = f.opts
             /\ DOMAIN inline.map = NewNames(reg, P)
             /\ inline.ok => inline.map = NewOptions(reg, P)
<1> DEFINE nodes == FirstChild(tree.nodes)
           given == {i \in DOMAIN nodes : nodes[i].opts # NoOptions /\ nodes[i].name # "SubTree"}
           new == {nodes[i].name : i \in given} \ Registered(reg)
           P == InlineOf(tree)
           inline == InlineOptions(reg, nodes)
           Agree == /\ \A e \in P : Parsed(e.opts)
                    /\ \A e \in P : e.name \in Registered(reg) => reg.manifest[e.name] = e.opts
                    /\ \A e, f \in P : e.name = f.name => e.opts = f.opts
<1> HIDE DEF nodes
<1>1. P = {nodes[i] : i \in given}
  BY DEF InlineOf, Range, nodes
<1>2. inline.ok <=> \A i, j \in given :
                      /\ Parsed(nodes[i].opts)
                      /\ nodes[i].name \in Registered(reg) => reg.manifest[nodes[i].name] = nodes[i].opts
                      /\ nodes[i].name = nodes[j].name /\ nodes[j].opts # Malformed => nodes[i].opts = nodes[j].opts
  BY DEF InlineOptions, SameOptions, Encode
<1>3. inline.map = [n \in new |-> nodes[CHOOSE i \in given : nodes[i].name = n].opts]
  BY DEF InlineOptions
<1> HIDE DEF P, given, inline
<1>1a. \A k \in given : nodes[k] \in P
  BY <1>1
<1>4. inline.ok <=> Agree
  <2>1. ASSUME inline.ok PROVE Agree
    <3>1. \A i \in given : Parsed(nodes[i].opts) /\ nodes[i].opts # Malformed
      BY <1>2, <2>1 DEF Parsed
    <3>2. QED
      BY <1>1, <1>2, <2>1, <3>1
  <2>2. ASSUME Agree PROVE inline.ok
    <3>1. \A i \in given : nodes[i] \in P
      BY <1>1
    <3>2. QED
      BY <1>2, <2>2, <3>1
  <2>3. QED
    BY <2>1, <2>2
<1>5. new = NewNames(reg, P)
  BY <1>1 DEF NewNames
<1>6. ASSUME inline.ok PROVE inline.map = NewOptions(reg, P)
  <2>1. ASSUME NEW n \in new
        PROVE  nodes[CHOOSE i \in given : nodes[i].name = n].opts = (CHOOSE e \in P : e.name = n).opts
    <3>1. \E i \in given : nodes[i].name = n
      BY <2>1
    <3> DEFINE i == CHOOSE k \in given : nodes[k].name = n
               e == CHOOSE f \in P : f.name = n
    <3>2. i \in given /\ nodes[i].name = n
      BY <3>1
    <3>3. nodes[i] \in P
      BY <1>1a, <3>2
    <3>4. e \in P /\ e.name = n
      BY <3>2, <3>3
    <3> HIDE DEF i, e
    <3>5. nodes[i].opts = e.opts
      BY <1>4, <1>6, <3>2, <3>3, <3>4
    <3>6. QED
      BY <3>5 DEF i, e
  <2>2. NewOptions(reg, P) = [n \in new |-> (CHOOSE e \in P : e.name = n).opts]
    BY <1>5 DEF NewOptions
  <2> HIDE DEF new
  <2>3. QED
    BY <1>3, <2>1, <2>2
<1>7. DOMAIN inline.map = NewNames(reg, P)
  BY <1>3, <1>5
<1> HIDE DEF new
<1>8. QED
  BY <1>4, <1>6, <1>7 DEF inline, nodes, P

\* A tree can be appended if it is well-formed and its options fit.
LEMMA AppendTreeFits ==
  ASSUME NEW d, IsDoc(d), NEW tree, NEW verify
  PROVE  LET r == AppendTree(d, tree, verify)
         IN  /\ r.ok <=> (verify => WellFormed(tree)) /\ Fits(d.reg, InlineOf(tree))
             /\ r.ok => r.doc.reg = With(d.reg, InlineOf(tree))
<1> DEFINE r == AppendTree(d, tree, verify)
           P == InlineOf(tree)
           inline == InlineOptions(d.reg, FirstChild(tree.nodes))
           given == RegisterNodes(d.reg, inline.map, FALSE)
           known == WithNodes(d, inline.map, FALSE)
           e == [known.doc EXCEPT !.trees = Append(@, tree)]
           Good == /\ r.ok <=> (verify => WellFormed(tree)) /\ Fits(d.reg, P)
                   /\ r.ok => r.doc.reg = With(d.reg, P)
<1>1. CASE verify /\ ~WellFormed(tree)
  <2>1. r = Thrown(d)
    BY <1>1 DEF AppendTree
  <2>2. ~r.ok
    BY <2>1 DEF Thrown
  <2> HIDE DEF r, P
  <2>3. Good
    BY <1>1, <2>2
  <2>4. QED
    BY <2>3 DEF r, P
<1>2. ASSUME verify => WellFormed(tree) PROVE Good
  <2>1. /\ ~inline.ok => r = Thrown(d)
        /\ inline.ok /\ ~known.ok => r = known
        /\ inline.ok /\ known.ok => r = Ok(e)
    BY <1>2 DEF AppendTree, Then
  <2>2. /\ inline.ok <=> /\ \A f \in P : Parsed(f.opts)
                         /\ \A f \in P : f.name \in Registered(d.reg) => d.reg.manifest[f.name] = f.opts
                         /\ \A f, g \in P : f.name = g.name => f.opts = g.opts
        /\ DOMAIN inline.map = NewNames(d.reg, P)
        /\ inline.ok => inline.map = NewOptions(d.reg, P)
    BY InlineFacts
  <2> HIDE DEF inline, r, P
  <2>3. DOMAIN inline.map \cap Registered(d.reg) = {}
    BY <2>2 DEF NewNames
  <2>4. /\ given.ok <=> \A n \in DOMAIN inline.map :
                          n \notin Native \cup DOMAIN d.reg.factory /\ Registrable(inline.map[n])
        /\ given.ok => given.reg = [manifest |-> Over(inline.map, d.reg.manifest),
                                    factory |-> Over(inline.map, d.reg.factory)]
    BY <2>3, RegisterNew
  <2>5. known = [ok |-> given.ok, doc |-> [d EXCEPT !.reg = given.reg]]
    BY DEF WithNodes, WithRegistry
  <2> HIDE DEF given
  <2>6. [d EXCEPT !.reg = given.reg] = [trees |-> d.trees, root |-> d.root, reg |-> given.reg]
    BY DEF IsDoc
  <2> HIDE DEF known
  <2>7. known.ok = given.ok /\ e.reg = given.reg
    BY <2>5, <2>6
  <2> HIDE DEF e
  <2>8. ASSUME inline.ok PROVE given.ok <=> Fits(d.reg, P)
    <3>1. \A f \in P : f.name \notin Registered(d.reg) =>
                         f.name \in NewNames(d.reg, P) /\ inline.map[f.name] = f.opts
      <4> SUFFICES ASSUME NEW f \in P, f.name \notin Registered(d.reg)
                   PROVE  f.name \in NewNames(d.reg, P) /\ NewOptions(d.reg, P)[f.name] = f.opts
        BY <2>2, <2>8
      <4>1. f.name \in NewNames(d.reg, P)
        BY DEF NewNames
      <4>2. PICK g \in P : g.name = f.name /\ NewOptions(d.reg, P)[f.name] = g.opts
        BY <4>1 DEF NewOptions
      <4>3. QED
        BY <2>2, <2>8, <4>1, <4>2
    <3>2. \A n \in NewNames(d.reg, P) : \E f \in P : f.name = n /\ n \notin Registered(d.reg)
      BY DEF NewNames
    <3>3. given.ok <=> \A f \in P : f.name \notin Registered(d.reg) =>
                         f.name \notin Native \cup DOMAIN d.reg.factory /\ Registrable(f.opts)
      BY <2>2, <2>4, <3>1, <3>2
    <3>4. QED
      BY <2>2, <2>8, <3>3 DEF Fits
  <2>9. Fits(d.reg, P) => inline.ok
    BY <2>2 DEF Fits
  <2>10. inline.ok /\ given.ok => given.reg = With(d.reg, P)
    BY <2>2, <2>4 DEF With
  <2>11. r.ok <=> inline.ok /\ given.ok
    BY <2>1, <2>7 DEF Thrown, Ok
  <2>12. r.ok => r.doc.reg = given.reg
    BY <2>1, <2>7, <2>11 DEF Ok
  <2>13. QED
    BY <1>2, <2>8, <2>9, <2>10, <2>11, <2>12
<1>3. QED
  BY <1>1, <1>2

\* The registry with the inline options of the trees T.
Taken(reg, T) == IF T = {} THEN reg ELSE With(reg, InlineIn(T))

LEMMA InlineUnion ==
  /\ \A S, T : InlineIn(S \cup T) = InlineIn(S) \cup InlineIn(T)
  /\ \A tree : InlineIn({tree}) = InlineOf(tree)
  /\ InlineIn({}) = {}
BY DEF InlineIn

LEMMA FitsNothing == ASSUME NEW reg PROVE Fits(reg, InlineIn({}))
BY InlineUnion DEF Fits

LEMMA TakenFits ==
  ASSUME NEW reg, NEW S, NEW T
  PROVE  Fits(reg, InlineIn(S \cup T)) <=> Fits(reg, InlineIn(S)) /\ Fits(Taken(reg, S), InlineIn(T))
<1>1. CASE S = {}
  <2>1. S \cup T = T /\ Taken(reg, S) = reg /\ Fits(reg, InlineIn(S))
    BY <1>1, FitsNothing DEF Taken
  <2>2. QED
    BY <2>1
<1>2. CASE S # {}
  <2>1. Taken(reg, S) = With(reg, InlineIn(S))
    BY <1>2 DEF Taken
  <2>2. InlineIn(S \cup T) = InlineIn(S) \cup InlineIn(T)
    BY InlineUnion
  <2> DEFINE P == InlineIn(S)
             Q == InlineIn(T)
  <2> HIDE DEF P, Q
  <2>3. Fits(reg, P \cup Q) <=> Fits(reg, P) /\ Fits(With(reg, P), Q)
    BY FitsBoth
  <2>4. QED
    BY <2>1, <2>2, <2>3 DEF P, Q
<1>3. QED
  BY <1>1, <1>2

LEMMA TakenBoth ==
  ASSUME NEW reg, NEW S, NEW T, Fits(reg, InlineIn(S \cup T))
  PROVE  Taken(Taken(reg, S), T) = Taken(reg, S \cup T)
<1>1. CASE S = {} \/ T = {}
  <2>1. S = {} => S \cup T = T /\ Taken(reg, S) = reg
    BY DEF Taken
  <2>2. T = {} => S \cup T = S /\ \A r : Taken(r, T) = r
    BY DEF Taken
  <2>3. QED
    BY <1>1, <2>1, <2>2
<1>2. CASE S # {} /\ T # {}
  <2>1. S \cup T # {}
    BY <1>2
  <2>2. Taken(reg, S) = With(reg, InlineIn(S))
    BY <1>2 DEF Taken
  <2>3. \A r : Taken(r, T) = With(r, InlineIn(T))
    BY <1>2 DEF Taken
  <2>4. Taken(reg, S \cup T) = With(reg, InlineIn(S \cup T))
    BY <2>1 DEF Taken
  <2>5. InlineIn(S \cup T) = InlineIn(S) \cup InlineIn(T)
    BY InlineUnion
  <2> DEFINE P == InlineIn(S)
             Q == InlineIn(T)
  <2> HIDE DEF P, Q
  <2>6. Fits(reg, P \cup Q)
    BY <2>5 DEF P, Q
  <2>7. With(With(reg, P), Q) = With(reg, P \cup Q)
    BY <2>6, WithBoth
  <2>8. QED
    BY <2>2, <2>3, <2>4, <2>5, <2>7 DEF P, Q
<1>3. QED
  BY <1>1, <1>2

LEMMA AppendTreesFits ==
  ASSUME NEW d, IsDoc(d), NEW trees, IsSequence(trees), NEW verify
  PROVE  LET r == AppendTrees(d, trees, verify)
         IN  /\ r.ok <=> (verify => \A tree \in Range(trees) : WellFormed(tree)) /\ Fits(d.reg, InlineIn(Range(trees)))
             /\ r.ok => r.doc.reg = Taken(d.reg, Range(trees))
<1>1. PICK after : /\ after[0] = Ok(d)
                   /\ \A n \in 1..Len(trees) :
                        after[n] = IF after[n - 1].ok THEN AppendTree(after[n - 1].doc, trees[n], verify)
                                   ELSE after[n - 1]
                   /\ AppendTrees(d, trees, verify) = after[Len(trees)]
  BY AppendTreesUnfolds
<1> DEFINE First(n) == {trees[i] : i \in 1..n}
           Checked(T) == verify => \A tree \in T : WellFormed(tree)
           Good(n) == /\ IsDoc(after[n].doc)
                      /\ after[n].ok <=> Checked(First(n)) /\ Fits(d.reg, InlineIn(First(n)))
                      /\ after[n].ok => after[n].doc.reg = Taken(d.reg, First(n))
           S == {n \in Nat : n <= Len(trees) => Good(n)}
<1>2. Len(trees) \in Nat /\ DOMAIN trees = 1..Len(trees)
  BY LengthIsNat
<1>3. 0 \in S
  <2>1. after[0].ok /\ after[0].doc = d
    BY <1>1 DEF Ok
  <2>2. First(0) = {}
    OBVIOUS
  <2> HIDE DEF First
  <2>3. Fits(d.reg, InlineIn(First(0))) /\ Taken(d.reg, First(0)) = d.reg /\ Checked(First(0))
    BY <2>2, FitsNothing DEF Taken
  <2>4. QED
    BY <2>1, <2>3
<1>4. ASSUME NEW n \in Nat, n \in S PROVE n + 1 \in S
  <2> SUFFICES ASSUME n + 1 <= Len(trees) PROVE Good(n + 1)
    OBVIOUS
  <2> DEFINE tree == trees[n + 1]
             next == AppendTree(after[n].doc, tree, verify)
             T == First(n)
  <2>1. Good(n)
    BY <1>2, <1>4
  <2>2. after[n + 1] = IF after[n].ok THEN next ELSE after[n]
    <3>1. n + 1 \in 1..Len(trees) /\ (n + 1) - 1 = n
      BY <1>2
    <3>2. QED
      BY <1>1, <3>1
  <2>3. First(n + 1) = T \cup {tree}
    <3>1. 1..(n + 1) = 1..n \cup {n + 1}
      OBVIOUS
    <3>2. QED
      BY <3>1
  <2> HIDE DEF T, tree
  <2>4. IsDoc(next.doc)
    BY <2>1, AppendTreeFacts DEF Grown
  <2>5. /\ next.ok <=> (verify => WellFormed(tree)) /\ Fits(after[n].doc.reg, InlineOf(tree))
        /\ next.ok => next.doc.reg = With(after[n].doc.reg, InlineOf(tree))
    BY <2>1, AppendTreeFits
  <2> HIDE DEF next, First
  <2>6. /\ IsDoc(after[n].doc)
        /\ after[n].ok <=> Checked(T) /\ Fits(d.reg, InlineIn(T))
        /\ after[n].ok => after[n].doc.reg = Taken(d.reg, T)
    BY <2>1 DEF T
  <2>7. InlineOf(tree) = InlineIn({tree}) /\ \A reg : Taken(reg, {tree}) = With(reg, InlineIn({tree}))
    BY InlineUnion DEF Taken
  <2>8. Fits(d.reg, InlineIn(T \cup {tree})) <=> Fits(d.reg, InlineIn(T)) /\ Fits(Taken(d.reg, T), InlineIn({tree}))
    BY TakenFits
  <2>9. Fits(d.reg, InlineIn(T \cup {tree})) => Taken(Taken(d.reg, T), {tree}) = Taken(d.reg, T \cup {tree})
    BY TakenBoth
  <2>10. Checked(T \cup {tree}) <=> Checked(T) /\ (verify => WellFormed(tree))
    OBVIOUS
  <2> HIDE DEF Checked
  <2>11. CASE after[n].ok
    <3>1. after[n + 1].ok <=> Checked(T \cup {tree}) /\ Fits(d.reg, InlineIn(T \cup {tree}))
      BY <2>2, <2>5, <2>6, <2>7, <2>8, <2>10, <2>11
    <3>2. after[n + 1].ok => after[n + 1].doc.reg = Taken(d.reg, T \cup {tree})
      BY <2>2, <2>5, <2>6, <2>7, <2>9, <2>11, <3>1
    <3>3. QED
      BY <2>2, <2>3, <2>4, <2>11, <3>1, <3>2
  <2>12. CASE ~after[n].ok
    <3>1. ~(Checked(T \cup {tree}) /\ Fits(d.reg, InlineIn(T \cup {tree})))
      BY <2>6, <2>8, <2>10, <2>12
    <3>2. QED
      BY <2>2, <2>3, <2>6, <2>12, <3>1
  <2>13. QED
    BY <2>11, <2>12
<1>5. Nat \subseteq S
  <2> HIDE DEF S
  <2>1. QED
    BY <1>3, <1>4, NatSetInduction
<1>6. First(Len(trees)) = Range(trees)
  BY <1>2 DEF Range
<1> HIDE DEF First
<1>7. Good(Len(trees))
  BY <1>2, <1>5
<1>8. QED
  BY <1>1, <1>6, <1>7

LEMMA NoneAppended ==
  ASSUME NEW d, IsDoc(d), NEW trees, IsSequence(trees), NEW verify
  PROVE  Len(trees) = 0 => AppendTrees(d, trees, verify) = Ok(d)
<1>1. PICK after : /\ after[0] = Ok(d)
                   /\ \A n \in 1..Len(trees) :
                        after[n] = IF after[n - 1].ok THEN AppendTree(after[n - 1].doc, trees[n], verify)
                                   ELSE after[n - 1]
                   /\ AppendTrees(d, trees, verify) = after[Len(trees)]
  BY AppendTreesUnfolds
<1>2. QED
  BY <1>1

LEMMA NothingAppended ==
  ASSUME NEW d, IsDoc(d), NEW verify PROVE AppendTrees(d, EmptyDoc.trees, verify) = Ok(d)
<1> DEFINE none == EmptyDoc.trees
<1>1. IsSequence(none)
  BY DEF EmptyDoc, IsSequence
<1>2. Len(none) = 0
  BY DEF EmptyDoc
<1> HIDE DEF none
<1>3. AppendTrees(d, none, verify) = Ok(d)
  BY <1>1, <1>2, NoneAppended
<1>4. QED
  BY <1>3 DEF none

LEMMA DropSharedExact ==
  ASSUME NEW d, IsDoc(d), NEW buffer, IsDoc(buffer), Distinct(buffer.trees)
  PROVE  Range(DropShared(d, buffer).trees) = Range(d.trees) \ Range(buffer.trees)
<1> DEFINE Shared(tree) == HasTree(buffer, tree.name) /\ GetTree(buffer, tree.name) = tree
           kept == {i \in DOMAIN d.trees : ~Shared(d.trees[i])}
           left == TreesAt(d.trees, kept)
<1>1. DropShared(d, buffer).trees = left
  BY DEF DropShared, IsDoc
<1>2. Range(left) = {d.trees[i] : i \in kept}
  <2>1. IsSequence(d.trees) /\ kept \subseteq DOMAIN d.trees
    BY DEF IsDoc
  <2> HIDE DEF kept
  <2>2. QED
    BY <2>1, TreesAtRange
<1> HIDE DEF left
<1>3. \A tree : Shared(tree) <=> tree \in Range(buffer.trees)
  <2> SUFFICES ASSUME NEW tree PROVE Shared(tree) <=> tree \in Range(buffer.trees)
    OBVIOUS
  <2> DEFINE n == NumberOf(buffer.trees, tree.name)
  <2>1. IsSequence(buffer.trees)
    BY DEF IsDoc
  <2>2. tree.name \in TreeNames(buffer.trees) => n \in DOMAIN buffer.trees /\ buffer.trees[n].name = tree.name
    BY <2>1, NumberOfFacts
  <2>3. Shared(tree) <=> tree.name \in TreeNames(buffer.trees) /\ buffer.trees[n] = tree
    BY DEF HasTree, GetTree
  <2> HIDE DEF n, Shared
  <2>4. ASSUME tree \in Range(buffer.trees) PROVE Shared(tree)
    <3>1. PICK i \in DOMAIN buffer.trees : buffer.trees[i] = tree
      BY <2>4 DEF Range
    <3>2. tree.name \in TreeNames(buffer.trees)
      BY <3>1 DEF TreeNames
    <3>3. n = i
      BY <2>2, <3>1, <3>2 DEF Distinct
    <3>4. QED
      BY <2>3, <3>1, <3>2, <3>3
  <2>5. Shared(tree) => tree \in Range(buffer.trees)
    BY <2>2, <2>3 DEF Range
  <2>6. QED
    BY <2>4, <2>5
<1> HIDE DEF Shared
<1>4. QED
  BY <1>1, <1>2, <1>3 DEF Range

-----------------------------------------------------------------------------
(***************************************************************************)
(* What a merge without includes needs, and what two includes need.        *)
(***************************************************************************)
WellFormedIn(T) == \A tree \in T : WellFormed(tree)

\* No two different trees of one name.
Agreeing(S, T) == \A tree \in S, other \in T : tree.name = other.name => tree = other

LEMMA MergePlain ==
  ASSUME NEW d, IsDoc(d), NEW xml, xml.valid, IsSequence(xml.trees)
  PROVE  LET r == MergeXml(d, xml, Ok(EmptyDoc), FALSE)
             T == Range(xml.trees)
         IN  /\ r.ok <=> TreeNames(d.trees) \cap NamesIn(T) = {} /\ WellFormedIn(T) /\ Fits(d.reg, InlineIn(T))
             /\ r.ok => r.doc.reg = Taken(d.reg, T) /\ Range(r.doc.trees) = Range(d.trees) \cup T
<1> DEFINE r == MergeXml(d, xml, Ok(EmptyDoc), FALSE)
           none == EmptyDoc.trees
           all == AppendTrees(d, xml.trees, TRUE)
           T == Range(xml.trees)
<1>1. AppendTrees(d, none, FALSE) = Ok(d)
  BY NothingAppended
<1>2. Ok(EmptyDoc).ok /\ Ok(EmptyDoc).doc.trees = none /\ Ok(d).ok /\ Ok(d).doc = d
  BY DEF Ok
<1>3. Disjoint(d, none)
  BY DEF Disjoint, TreeNames, EmptyDoc
<1> HIDE DEF none
<1>4. r = MergeDirect(d, xml, FALSE)
  BY <1>1, <1>2, <1>3 DEF MergeXml, Then
<1>5. MergeDirect(d, xml, FALSE) = IF ~Disjoint(d, xml.trees) THEN Thrown(d) ELSE IF all.ok THEN Ok(all.doc) ELSE all
  BY DEF MergeDirect, Then
<1>6. all.ok <=> WellFormedIn(T) /\ Fits(d.reg, InlineIn(T))
  BY AppendTreesFits DEF WellFormedIn
<1>7. Disjoint(d, xml.trees) <=> TreeNames(d.trees) \cap NamesIn(T) = {}
  BY InFacts DEF Disjoint
<1>8. all.ok => all.doc.reg = Taken(d.reg, T)
  BY AppendTreesFits
<1>9. Carries(d, T, all)
  BY AppendTreesCarries
<1> HIDE DEF all, T, r
<1>9a. r = IF ~Disjoint(d, xml.trees) THEN Thrown(d) ELSE IF all.ok THEN Ok(all.doc) ELSE all
  BY <1>4, <1>5, Zenon
<1>10. r.ok <=> Disjoint(d, xml.trees) /\ all.ok
  BY <1>9a DEF Thrown, Ok
<1>11. r.ok => r.doc = all.doc
  BY <1>9a, <1>10 DEF Ok
<1>12. r.ok => r.doc.reg = Taken(d.reg, T) /\ Range(r.doc.trees) = Range(d.trees) \cup T
  BY <1>8, <1>9, <1>10, <1>11 DEF Carries
<1>13. QED
  BY <1>6, <1>7, <1>10, <1>12 DEF r, T

LEMMA MergeBuffer ==
  ASSUME NEW d, IsDoc(d), NEW buffer, IsDoc(buffer.doc)
  PROVE  LET r == MergeXml(d, XmlOf(EmptyDoc), buffer, FALSE)
             T == Range(buffer.doc.trees)
         IN  /\ r.ok <=> buffer.ok /\ TreeNames(d.trees) \cap NamesIn(T) = {} /\ Fits(d.reg, InlineIn(T))
             /\ r.ok => r.doc.reg = Taken(d.reg, T) /\ Range(r.doc.trees) = Range(d.trees) \cup T
<1> DEFINE r == MergeXml(d, XmlOf(EmptyDoc), buffer, FALSE)
           none == EmptyDoc.trees
           all == AppendTrees(d, buffer.doc.trees, FALSE)
           T == Range(buffer.doc.trees)
<1>1. XmlOf(EmptyDoc).valid /\ XmlOf(EmptyDoc).trees = none
  BY DEF XmlOf
<1>2. IsSequence(buffer.doc.trees)
  BY DEF IsDoc
<1>3. all.ok <=> Fits(d.reg, InlineIn(T))
  BY <1>2, AppendTreesFits
<1>4. all.ok => all.doc.reg = Taken(d.reg, T)
  BY <1>2, AppendTreesFits
<1>5. IsDoc(all.doc) /\ Carries(d, T, all)
  BY <1>2, AppendTreesFacts, AppendTreesCarries DEF Grown
<1>6. Disjoint(d, buffer.doc.trees) <=> TreeNames(d.trees) \cap NamesIn(T) = {}
  BY InFacts DEF Disjoint
<1>7. Disjoint(all.doc, none)
  BY DEF Disjoint, TreeNames, EmptyDoc
<1>8. AppendTrees(all.doc, none, TRUE) = Ok(all.doc)
  BY <1>5, NothingAppended
<1> HIDE DEF all, none, T
<1>9. MergeDirect(all.doc, XmlOf(EmptyDoc), FALSE) = Ok(all.doc)
  BY <1>1, <1>7, <1>8 DEF MergeDirect, Then, Ok
<1>10. r = IF ~buffer.ok \/ ~Disjoint(d, buffer.doc.trees) THEN Thrown(d)
           ELSE IF all.ok THEN MergeDirect(all.doc, XmlOf(EmptyDoc), FALSE) ELSE all
  BY <1>1 DEF MergeXml, Then, all
<1> HIDE DEF r
<1>11. r = IF ~buffer.ok \/ ~Disjoint(d, buffer.doc.trees) THEN Thrown(d)
           ELSE IF all.ok THEN Ok(all.doc) ELSE all
  BY <1>9, <1>10
<1>12. r.ok <=> buffer.ok /\ Disjoint(d, buffer.doc.trees) /\ all.ok
  BY <1>11 DEF Thrown, Ok
<1>13. r.ok => r.doc = all.doc
  BY <1>11, <1>12 DEF Ok
<1>14. r.ok => r.doc.reg = Taken(d.reg, T) /\ Range(r.doc.trees) = Range(d.trees) \cup T
  BY <1>4, <1>5, <1>12, <1>13 DEF Carries
<1>15. QED
  BY <1>3, <1>6, <1>12, <1>14 DEF r, T

\* A whole file is included, less what is there already.
LEMMA IncludeWhole ==
  ASSUME NEW buffer, IsDoc(buffer), Distinct(buffer.trees), NEW work, IsDoc(work.doc)
  PROVE  LET r == Include(buffer, work, NoTree)
             T == Range(work.doc.trees) \ Range(buffer.trees)
         IN  /\ r.ok <=> work.ok /\ TreeNames(buffer.trees) \cap NamesIn(T) = {} /\ WellFormedIn(T)
                         /\ Fits(buffer.reg, InlineIn(T))
             /\ r.ok => r.doc.reg = Taken(buffer.reg, T) /\ Range(r.doc.trees) = Range(buffer.trees) \cup T
<1> DEFINE r == Include(buffer, work, NoTree)
           T == Range(work.doc.trees) \ Range(buffer.trees)
           left == DropShared(work.doc, buffer)
           xml == XmlOf(left)
           merged == MergeXml(buffer, xml, Ok(EmptyDoc), FALSE)
<1>1. r = IF ~work.ok THEN Thrown(buffer) ELSE merged
  BY DEF Include, Pick
<1>2. IsDoc(left) /\ Range(left.trees) = T
  BY DropSharedFacts, DropSharedExact
<1> HIDE DEF left
<1>3. xml.valid /\ IsSequence(xml.trees) /\ Range(xml.trees) = T
  BY <1>2 DEF XmlOf, IsDoc
<1> HIDE DEF xml, T
<1>4. merged.ok <=> TreeNames(buffer.trees) \cap NamesIn(T) = {} /\ WellFormedIn(T) /\ Fits(buffer.reg, InlineIn(T))
  BY <1>3, MergePlain
<1>5. merged.ok => merged.doc.reg = Taken(buffer.reg, T) /\ Range(merged.doc.trees) = Range(buffer.trees) \cup T
  BY <1>3, MergePlain
<1> HIDE DEF merged, r
<1>6. r.ok <=> work.ok /\ merged.ok
  BY <1>1 DEF Thrown
<1>7. QED
  BY <1>1, <1>4, <1>5, <1>6 DEF r, T

\* Two files, read, and the trees there are in both.
TreesOfBoth(v, w) == Range(v.doc.trees) \cup Range(w.doc.trees)

Includable(v, w) ==
  /\ v.ok /\ w.ok
  /\ WellFormedIn(TreesOfBoth(v, w)) /\ Agreeing(Range(v.doc.trees), Range(w.doc.trees))
  /\ Fits(NoNodes, InlineIn(TreesOfBoth(v, w)))

LEMMA OrderFree == \A v, w : TreesOfBoth(v, w) = TreesOfBoth(w, v) /\ (Includable(v, w) <=> Includable(w, v))
<1> SUFFICES ASSUME NEW v, NEW w PROVE TreesOfBoth(v, w) = TreesOfBoth(w, v) /\ (Includable(v, w) <=> Includable(w, v))
  OBVIOUS
<1>1. TreesOfBoth(v, w) = TreesOfBoth(w, v)
  BY DEF TreesOfBoth
<1>2. Agreeing(Range(v.doc.trees), Range(w.doc.trees)) <=> Agreeing(Range(w.doc.trees), Range(v.doc.trees))
  BY DEF Agreeing
<1>3. QED
  BY <1>1, <1>2 DEF Includable

\* Trees of two documents agree if those that only the second has have other names.
LEMMA AgreeingFacts ==
  ASSUME NEW trees, Distinct(trees), NEW U
  PROVE  Agreeing(Range(trees), U) <=> NamesIn(Range(trees)) \cap NamesIn(U \ Range(trees)) = {}
<1> DEFINE R == Range(trees)
<1>1. \A t, u \in R : t.name = u.name => t = u
  BY DEF Distinct, Range
<1> HIDE DEF R
<1>2. ASSUME Agreeing(R, U) PROVE NamesIn(R) \cap NamesIn(U \ R) = {}
  BY <1>2 DEF Agreeing, NamesIn
<1>3. ASSUME NamesIn(R) \cap NamesIn(U \ R) = {}, NEW t \in R, NEW u \in U, t.name = u.name PROVE t = u
  <2>1. t.name \in NamesIn(R)
    BY DEF NamesIn
  <2>2. u \notin R => u.name \in NamesIn(U \ R)
    BY DEF NamesIn
  <2>3. QED
    BY <1>1, <1>3, <2>1, <2>2
<1>4. QED
  BY <1>2, <1>3 DEF Agreeing, R

LEMMA PairIncluded ==
  ASSUME NEW v, IsDoc(v.doc), v.ok => Distinct(v.doc.trees), NEW w, IsDoc(w.doc), NEW r,
         r = IF Include(EmptyDoc, v, NoTree).ok THEN Include(Include(EmptyDoc, v, NoTree).doc, w, NoTree)
             ELSE Include(EmptyDoc, v, NoTree)
  PROVE  /\ IsDoc(r.doc)
         /\ r.ok <=> Includable(v, w)
         /\ r.ok => Range(r.doc.trees) = TreesOfBoth(v, w)
<1> DEFINE R == Range(v.doc.trees)
           U == Range(w.doc.trees)
           b == Include(EmptyDoc, v, NoTree)
           s == Include(b.doc, w, NoTree)
           T == U \ R
<1>1. IsDoc(EmptyDoc) /\ Distinct(EmptyDoc.trees) /\ Range(EmptyDoc.trees) = {} /\ EmptyDoc.reg = NoNodes
  BY EmptyFacts, EmptyDistinct DEF EmptyDoc
<1>2. TreeNames(EmptyDoc.trees) = {} /\ R \ Range(EmptyDoc.trees) = R
  BY <1>1, InFacts DEF NamesIn
<1>3. b.ok <=> v.ok /\ WellFormedIn(R) /\ Fits(NoNodes, InlineIn(R))
  <2> DEFINE Q == R \ Range(EmptyDoc.trees)
  <2>1. b.ok <=> v.ok /\ TreeNames(EmptyDoc.trees) \cap NamesIn(Q) = {} /\ WellFormedIn(Q)
                 /\ Fits(EmptyDoc.reg, InlineIn(Q))
    BY <1>1, IncludeWhole
  <2> HIDE DEF b
  <2>2. QED
    BY <1>1, <1>2, <2>1
<1>4. b.ok => b.doc.reg = Taken(NoNodes, R) /\ Range(b.doc.trees) = R
  <2> DEFINE Q == R \ Range(EmptyDoc.trees)
  <2>1. b.ok => b.doc.reg = Taken(EmptyDoc.reg, Q) /\ Range(b.doc.trees) = Range(EmptyDoc.trees) \cup Q
    BY <1>1, IncludeWhole
  <2> HIDE DEF b
  <2>2. QED
    BY <1>1, <1>2, <2>1
<1>5. IsDoc(b.doc)
  BY <1>1, IncludeFacts DEF Grown
<1>6. b.ok => Distinct(b.doc.trees)
  BY <1>1, IncludeDistinct
<1>7. IsDoc(s.doc)
  BY <1>5, IncludeFacts DEF Grown
<1> HIDE DEF b
<1>8. ASSUME b.ok
      PROVE  /\ s.ok <=> w.ok /\ TreeNames(b.doc.trees) \cap NamesIn(T) = {} /\ WellFormedIn(T)
                         /\ Fits(b.doc.reg, InlineIn(T))
             /\ s.ok => Range(s.doc.trees) = R \cup T
  <2> DEFINE Q == U \ Range(b.doc.trees)
  <2>1. /\ s.ok <=> w.ok /\ TreeNames(b.doc.trees) \cap NamesIn(Q) = {} /\ WellFormedIn(Q)
                    /\ Fits(b.doc.reg, InlineIn(Q))
        /\ s.ok => s.doc.reg = Taken(b.doc.reg, Q) /\ Range(s.doc.trees) = Range(b.doc.trees) \cup Q
    BY <1>5, <1>6, <1>8, IncludeWhole
  <2>2. Q = T /\ Range(b.doc.trees) = R
    BY <1>4, <1>8
  <2> HIDE DEF Q, s, T
  <2>3. QED
    BY <2>1, <2>2
<1>9. r = IF b.ok THEN s ELSE b
  BY DEF b
<1>10. R \cup T = TreesOfBoth(v, w)
  BY DEF TreesOfBoth
<1>11. WellFormedIn(TreesOfBoth(v, w)) <=> WellFormedIn(R) /\ WellFormedIn(T)
  BY <1>10 DEF WellFormedIn
<1>12. Fits(NoNodes, InlineIn(TreesOfBoth(v, w))) <=>
         Fits(NoNodes, InlineIn(R)) /\ Fits(Taken(NoNodes, R), InlineIn(T))
  <2> HIDE DEF R, T
  <2>1. QED
    BY <1>10, TakenFits
<1>13. ASSUME b.ok PROVE Agreeing(R, U) <=> TreeNames(b.doc.trees) \cap NamesIn(T) = {}
  <2>1. TreeNames(b.doc.trees) = NamesIn(R)
    BY <1>4, <1>13, InFacts
  <2>2. Distinct(v.doc.trees)
    BY <1>3, <1>13
  <2>3. QED
    BY <2>1, <2>2, AgreeingFacts
<1>14. Includable(v, w) <=> /\ v.ok /\ w.ok /\ WellFormedIn(TreesOfBoth(v, w)) /\ Agreeing(R, U)
                            /\ Fits(NoNodes, InlineIn(TreesOfBoth(v, w)))
  BY DEF Includable
<1> HIDE DEF R, U, T, s
<1>15. CASE b.ok
  BY <1>3, <1>4, <1>7, <1>8, <1>9, <1>10, <1>11, <1>12, <1>13, <1>14, <1>15
<1>16. CASE ~b.ok
  BY <1>3, <1>5, <1>9, <1>11, <1>12, <1>14, <1>16
<1>17. QED
  BY <1>15, <1>16

LEMMA BothFacts ==
  ASSUME NEW f \in Files, NEW g \in Files
  PROVE  LET v == WorkDocs[{}][f]
             w == WorkDocs[{}][g]
             r == BothIncluded[f][g]
         IN  /\ IsDoc(r.doc)
             /\ r.ok <=> Includable(v, w)
             /\ r.ok => Range(r.doc.trees) = TreesOfBoth(v, w)
<1> DEFINE work == WorkDocs[{}]
           two == <<[file |-> f, tree |-> NoTree], [file |-> g, tree |-> NoTree]>>
           r == BothIncluded[f][g]
<1>1. r = IncludeBuffer(two, work)
  BY DEF BothIncluded
<1>2. {} \in SUBSET Files
  OBVIOUS
<1>3. AllRead(work) /\ ReadWell(work[f]) /\ ReadWell(work[g])
  BY <1>2, WorkDocsFacts, WorkDocsWell
<1>4. two \in Seq({two[1], two[2]})
  OBVIOUS
<1>5. /\ IsSequence(two) /\ Len(two) = 2
      /\ two[1].file = f /\ two[1].tree = NoTree /\ two[2].file = g /\ two[2].tree = NoTree
  BY <1>4 DEF IsSequence
<1> HIDE DEF two, work, r
<1>6. PICK after : /\ after[0] = Ok(EmptyDoc)
                   /\ \A n \in 1..Len(two) :
                        after[n] = IF after[n - 1].ok
                                   THEN Include(after[n - 1].doc, work[two[n].file], two[n].tree)
                                   ELSE after[n - 1]
                   /\ IncludeBuffer(two, work) = after[Len(two)]
  BY <1>5, IncludeBufferUnfolds
<1>7. after[0].ok /\ after[0].doc = EmptyDoc
  BY <1>6 DEF Ok
<1>8. after[1] = Include(EmptyDoc, work[f], NoTree)
  <2>1. 1 \in 1..Len(two) /\ 1 - 1 = 0
    BY <1>5
  <2>2. QED
    BY <1>5, <1>6, <1>7, <2>1
<1>9. after[2] = IF after[1].ok THEN Include(after[1].doc, work[g], NoTree) ELSE after[1]
  <2>1. 2 \in 1..Len(two) /\ 2 - 1 = 1
    BY <1>5
  <2>2. QED
    BY <1>5, <1>6, <2>1
<1>10. r = after[2]
  BY <1>1, <1>5, <1>6
<1>11. IsDoc(work[f].doc) /\ IsDoc(work[g].doc) /\ (work[f].ok => Distinct(work[f].doc.trees))
  BY <1>3 DEF AllRead, ReadWell
<1> DEFINE v == work[f]
           w == work[g]
<1>12. /\ IsDoc(r.doc)
       /\ r.ok <=> Includable(v, w)
       /\ r.ok => Range(r.doc.trees) = TreesOfBoth(v, w)
  <2>1. r = IF Include(EmptyDoc, v, NoTree).ok THEN Include(Include(EmptyDoc, v, NoTree).doc, w, NoTree)
            ELSE Include(EmptyDoc, v, NoTree)
    BY <1>8, <1>9, <1>10
  <2> HIDE DEF v, w
  <2>2. IsDoc(v.doc) /\ IsDoc(w.doc) /\ (v.ok => Distinct(v.doc.trees))
    BY <1>11 DEF v, w
  <2>3. QED
    BY <2>1, <2>2, PairIncluded
<1>13. QED
  BY <1>12 DEF r, work

LEMMA OutcomeFacts ==
  ASSUME NEW f \in Files, NEW g \in Files, DocumentInv
  PROVE  LET v == WorkDocs[{}][f]
             w == WorkDocs[{}][g]
             T == TreesOfBoth(v, w)
         IN  OutcomeOf(f, g) =
               IF Includable(v, w) /\ TreeNames(document.trees) \cap NamesIn(T) = {} /\ Fits(document.reg, InlineIn(T))
               THEN <<Range(document.trees) \cup T, Taken(document.reg, T)>> ELSE <<>>
<1> DEFINE v == WorkDocs[{}][f]
           w == WorkDocs[{}][g]
           T == TreesOfBoth(v, w)
           b == BothIncluded[f][g]
           r == MergeXml(document, XmlOf(EmptyDoc), b, FALSE)
<1>1. /\ IsDoc(b.doc)
      /\ b.ok <=> Includable(v, w)
      /\ b.ok => Range(b.doc.trees) = T
  BY BothFacts
<1>2. OutcomeOf(f, g) = IF r.ok THEN <<{r.doc.trees[i] : i \in DOMAIN r.doc.trees}, r.doc.reg>> ELSE <<>>
  BY DEF OutcomeOf
<1> HIDE DEF b
<1>3. /\ r.ok <=> b.ok /\ TreeNames(document.trees) \cap NamesIn(Range(b.doc.trees)) = {}
                  /\ Fits(document.reg, InlineIn(Range(b.doc.trees)))
      /\ r.ok => /\ r.doc.reg = Taken(document.reg, Range(b.doc.trees))
                 /\ Range(r.doc.trees) = Range(document.trees) \cup Range(b.doc.trees)
  BY <1>1, MergeBuffer DEF DocumentInv
<1>4. {r.doc.trees[i] : i \in DOMAIN r.doc.trees} = Range(r.doc.trees)
  BY DEF Range
<1> HIDE DEF r, v, w, T
<1>5. OutcomeOf(f, g) =
        IF Includable(v, w) /\ TreeNames(document.trees) \cap NamesIn(T) = {} /\ Fits(document.reg, InlineIn(T))
        THEN <<Range(document.trees) \cup T, Taken(document.reg, T)>> ELSE <<>>
  BY <1>1, <1>2, <1>3, <1>4
<1>6. QED
  BY <1>5 DEF v, w, T

(***************************************************************************)
(* Whatever two files hold and include, and whatever document they are     *)
(* included into: the order of the two decides nothing.                    *)
(***************************************************************************)
THEOREM IncludesCorrect == EditSpec => []IncludeOrderIrrelevant
<1>1. DocumentInv => IncludeOrderIrrelevant
  <2> SUFFICES ASSUME DocumentInv, NEW f \in Files, NEW g \in Files PROVE OutcomeOf(f, g) = OutcomeOf(g, f)
    BY DEF IncludeOrderIrrelevant
  <2> DEFINE v == WorkDocs[{}][f]
             w == WorkDocs[{}][g]
             Outcome(T, given) ==
               IF given /\ TreeNames(document.trees) \cap NamesIn(T) = {} /\ Fits(document.reg, InlineIn(T))
               THEN <<Range(document.trees) \cup T, Taken(document.reg, T)>> ELSE <<>>
  <2>1. OutcomeOf(f, g) = Outcome(TreesOfBoth(v, w), Includable(v, w))
    BY OutcomeFacts
  <2>2. OutcomeOf(g, f) = Outcome(TreesOfBoth(w, v), Includable(w, v))
    BY OutcomeFacts
  <2> HIDE DEF v, w
  <2>3. TreesOfBoth(v, w) = TreesOfBoth(w, v) /\ (Includable(v, w) <=> Includable(w, v))
    BY OrderFree
  <2>4. QED
    BY <2>1, <2>2, <2>3
<1>2. QED
  BY <1>1, DocumentCorrect, PTL

-----------------------------------------------------------------------------
(***************************************************************************)
(* One node: what the build keeps of its parent.                           *)
(***************************************************************************)
\* The configuration every constructor prepares.
Prepared ==
  CopyAliases(options.alias, [input |-> Configured({"in", "inout"}), output |-> Configured({"out", "inout"})])

\* What the phases have established, one after the other.
BuildInv ==
  /\ node \in NodeInputs
  /\ LET entry == ManifestEntry(node.yaml, node.parent, node.installed)
     IN  phase \in {"built", "new", "registered", "constructed"} => entry.ok /\ options = entry.options
  /\ phase \in {"new", "registered", "constructed"} =>
       ModelEntry(options).ok /\ model = ModelEntry(options).file
  /\ phase \in {"registered", "constructed"} => ports = ModifiedPorts(options).ports
  /\ phase = "constructed" => DOMAIN node.attributes \subseteq DOMAIN ports /\ config = Prepared

LEMMA BuildInitInv == Init => BuildInv
BY DEF Init, NodeInit, BuildInv

LEMMA BuildStepInv == BuildInv /\ [Next]_vars => BuildInv'
<1> SUFFICES ASSUME BuildInv, [Next]_vars PROVE BuildInv'
  OBVIOUS
<1>1. CASE BuildManifest
  <2> DEFINE entry == ManifestEntry(node.yaml, node.parent, node.installed)
  <2>1. /\ options' = entry.options /\ phase' = IF entry.ok THEN "built" ELSE "refused"
        /\ UNCHANGED node
    BY <1>1 DEF BuildManifest
  <2> HIDE DEF entry
  <2>2. entry' = entry
    BY <2>1 DEF entry
  <2>3. QED
    BY <2>1, <2>2 DEF BuildInv, entry
<1>2. CASE BuildModel
  BY <1>2 DEF BuildModel, BuildInv
<1>3. CASE Register
  BY <1>3 DEF Register, BuildInv
<1>4. CASE Construct
  <2>1. /\ phase = "registered" /\ phase' \in {"constructed", "failed"}
        /\ UNCHANGED <<node, options, model, ports>>
    BY <1>4 DEF Construct, Configure
  <2>2. DOMAIN node.attributes \subseteq DOMAIN ports /\ config' = Prepared
    BY <1>4 DEF Construct, Configure, Prepared
  <2>3. Prepared' = Prepared
    BY <2>1 DEF Prepared, Configured
  <2>4. QED
    BY <2>1, <2>2, <2>3 DEF BuildInv
<1>5. CASE Activate \/ WriteEntry \/ ServersComeAndGo \/ UNCHANGED vars
  <2>1. UNCHANGED <<node, options, model, ports, config>> /\ (phase' = phase \/ phase' = "failed")
    BY <1>5 DEF Activate, WriteEntry, ServersComeAndGo, vars, portVars
  <2>2. Prepared' = Prepared
    BY <2>1 DEF Prepared, Configured
  <2>3. QED
    BY <2>1, <2>2 DEF BuildInv
<1>6. QED
  BY <1>1, <1>2, <1>3, <1>4, <1>5 DEF Next, Prepare

LEMMA BuildInvariant == Spec => []BuildInv
BY BuildInitInv, BuildStepInv, PTL DEF Spec

\* The names a Python program sees are the ports the options show.
LEMMA ModelShows ==
  ASSUME NEW opts, ModelEntry(opts).ok
  PROVE  DOMAIN PythonModel(ModelEntry(opts).file) \cap (opts.hidden \cup DOMAIN opts.alias) = {}
<1> DEFINE list == ModifiedPorts(opts).ports
           shown == NodeModel(list, opts)
           file == ModelEntry(opts).file
<1>1. file = WrittenModel(shown)
  BY DEF ModelEntry
<1>2. DOMAIN shown = DOMAIN list \ (opts.hidden \cup DOMAIN opts.alias)
  BY DEF NodeModel, Restrict
<1> HIDE DEF list, shown, file
<1>3. DOMAIN PythonModel(file) = {e.name : e \in file}
  BY DEF PythonModel, PortsOf
<1>4. \A e \in file : e.name \in DOMAIN shown
  BY <1>1 DEF WrittenModel
<1>5. QED
  BY <1>2, <1>3, <1>4 DEF file

\* The parent's manifest, if its node can be found, is the one that is meant.
LEMMA ParentFound ==
  ASSUME NEW parent, parent # NoParent, NEW installed,
         \A k \in DOMAIN installed : k = [package |-> k.package, id |-> k.id],
         parent.node \in DOMAIN ParentManifest(parent, installed).manifest
  PROVE  LET wanted == [package |-> parent.package, id |-> parent.id]
             known == {k \in DOMAIN installed : k.id = wanted.id /\ wanted.package \in {"", k.package}}
             manifest == ParentManifest(parent, installed).manifest
         IN  \/ /\ wanted \notin DOMAIN installed /\ wanted.package = BuildPackage
                /\ wanted.id \in DOMAIN Earlier /\ manifest = Earlier[wanted.id]
             \/ /\ wanted \in DOMAIN installed \/ wanted.package # BuildPackage
                /\ \E k \in known : manifest = installed[k]
<1> DEFINE wanted == [package |-> parent.package, id |-> parent.id]
           known == {k \in DOMAIN installed : k.id = wanted.id /\ wanted.package \in {"", k.package}}
           manifest == ParentManifest(parent, installed).manifest
           local == LocalManifests(installed)
           free == {id \in DOMAIN Earlier : [package |-> BuildPackage, id |-> id] \notin DOMAIN installed}
<1>1. local = [mid \in {[package |-> BuildPackage, id |-> id] : id \in free} |-> Earlier[mid.id]]
  BY DEF LocalManifests
<1>2. wanted.package = parent.package /\ wanted.id = parent.id
  OBVIOUS
<1>3. CASE wanted \in DOMAIN local
  <2>1. PICK id \in free : wanted = [package |-> BuildPackage, id |-> id]
    BY <1>1, <1>3
  <2>2. wanted.package = BuildPackage /\ wanted.id = id
    BY <2>1
  <2>3. manifest = local[wanted]
    BY <1>3 DEF ParentManifest, FromResource
  <2> HIDE DEF local
  <2>4. manifest = Earlier[id]
    BY <1>1, <1>3, <2>2, <2>3
  <2>5. wanted \notin DOMAIN installed /\ id \in DOMAIN Earlier
    BY <2>1
  <2> HIDE DEF wanted, manifest
  <2>6. QED
    BY <2>2, <2>4, <2>5 DEF wanted, manifest
<1>4. CASE wanted \notin DOMAIN local
  <2>1. manifest = Installed(wanted, installed).manifest
    BY <1>4 DEF ParentManifest, FromResource
  <2>2. Cardinality(known) = 1
    <3>1. ASSUME Cardinality(known) # 1 PROVE FALSE
      <4>1. Installed(wanted, installed) = NotFound
        BY <3>1 DEF Installed
      <4>2. manifest = <<>>
        BY <2>1, <4>1 DEF NotFound, Empty
      <4>3. QED
        BY <4>2
    <3>2. QED
      BY <3>1
  <2>3. known # {}
    <3>1. IsFiniteSet({}) /\ Cardinality({}) = 0
      BY FS_EmptySet
    <3> HIDE DEF known
    <3>2. QED
      BY <2>2, <3>1
  <2>4. manifest = installed[CHOOSE k \in known : TRUE]
    BY <2>1, <2>2 DEF Installed
  <2>5. \E k \in known : manifest = installed[k]
    <3> HIDE DEF known, manifest
    <3>1. QED
      BY <2>3, <2>4
  <2>6. wanted \in DOMAIN installed \/ wanted.package # BuildPackage
    <3>1. PICK k \in known : TRUE
      BY <2>3
    <3>2. k \in DOMAIN installed /\ k.id = parent.id /\ parent.package \in {"", k.package}
      BY <3>1
    <3>3. k = [package |-> k.package, id |-> k.id]
      BY <3>2
    <3>4. parent.package = BuildPackage => k = wanted
      BY <3>2, <3>3, InputAssumption
    <3>5. QED
      BY <3>2, <3>4
  <2> HIDE DEF wanted, known, manifest
  <2>7. QED
    BY <2>5, <2>6 DEF wanted, known, manifest
<1>5. QED
  BY <1>3, <1>4

\* Decoding on top of the parent's options keeps what they rename and hide.
LEMMA DecodeKeeps ==
  ASSUME NEW yaml, NEW base, DOMAIN base = DOMAIN DefaultOptions
  PROVE  /\ base.hidden \subseteq Decode(yaml, base).hidden
         /\ DOMAIN base.alias \subseteq DOMAIN Decode(yaml, base).alias
<1>1. "hidden" \in DOMAIN base /\ "alias" \in DOMAIN base
  BY DEF DefaultOptions
<1>2. Decode(yaml, base).hidden = IF "hidden" \notin DOMAIN yaml THEN base.hidden ELSE base.hidden \cup yaml.hidden
  BY <1>1 DEF Decode
<1>3. Decode(yaml, base).alias = IF "alias" \notin DOMAIN yaml THEN base.alias ELSE Over(yaml.alias, base.alias)
  BY <1>1 DEF Decode
<1>4. DOMAIN Over(yaml.alias, base.alias) = DOMAIN yaml.alias \cup DOMAIN base.alias
  BY DEF Over
<1>5. QED
  BY <1>2, <1>3, <1>4

(***************************************************************************)
(* Whatever a node's YAML says, and whichever manifests are installed or   *)
(* come from this build, the model of a node never shows a port that its   *)
(* parent has renamed or hidden.                                           *)
(***************************************************************************)
THEOREM ParentCorrect == Spec => []ParentKeepsPortsHidden
<1>1. BuildInv => ParentKeepsPortsHidden
  <2> SUFFICES ASSUME BuildInv, phase = "registered", node.parent # NoParent PROVE ParentKeepsPortsHidden
    BY DEF ParentKeepsPortsHidden
  <2> DEFINE wanted == [package |-> node.parent.package, id |-> node.parent.id]
             known == {k \in DOMAIN node.installed : k.id = wanted.id /\ wanted.package \in {"", k.package}}
             manifests == IF wanted \notin DOMAIN node.installed /\ wanted.package = BuildPackage
                          THEN {Earlier[wanted.id]} ELSE {node.installed[k] : k \in known}
             manifest == ParentManifest(node.parent, node.installed).manifest
             parent == manifest[node.parent.node]
             built == BuiltOptions(node.yaml, node.parent, node.installed)
  <2>1. built.ok /\ options = built.options
    BY DEF BuildInv, ManifestEntry, Encode
  <2>2. node.parent.node # "" /\ node.parent.node \in DOMAIN manifest /\ options = Decode(node.yaml, parent)
    <3>1. built = DecodeWithParent(node.yaml, node.parent.node, manifest)
      BY DEF BuiltOptions
    <3>2. node.parent.node # ""
      BY InputAssumption DEF BuildInv
    <3> HIDE DEF built, manifest
    <3>3. QED
      BY <2>1, <3>1, <3>2 DEF DecodeWithParent
  <2>3. \A k \in DOMAIN node.installed : k = [package |-> k.package, id |-> k.id] /\ IsManifest(node.installed[k])
    BY InputAssumption DEF BuildInv
  <2>4. \/ /\ wanted \notin DOMAIN node.installed /\ wanted.package = BuildPackage
           /\ wanted.id \in DOMAIN Earlier /\ manifest = Earlier[wanted.id]
        \/ /\ wanted \in DOMAIN node.installed \/ wanted.package # BuildPackage
           /\ \E k \in known : manifest = node.installed[k]
    BY <2>2, <2>3, ParentFound
  <2> HIDE DEF wanted, manifest
  <2>5. manifest \in manifests /\ IsManifest(manifest)
    BY <2>3, <2>4, InputAssumption
  <2>6. DOMAIN parent = DOMAIN DefaultOptions
    BY <2>2, <2>5 DEF IsManifest
  <2> HIDE DEF parent, known, manifests
  <2>7. parent.hidden \subseteq options.hidden /\ DOMAIN parent.alias \subseteq DOMAIN options.alias
    BY <2>2, <2>6, DecodeKeeps
  <2>8. DOMAIN PythonModel(model) \cap (options.hidden \cup DOMAIN options.alias) = {}
    BY ModelShows DEF BuildInv
  <2>9. DOMAIN PythonModel(model) \cap (parent.hidden \cup DOMAIN parent.alias) = {}
    BY <2>7, <2>8
  <2>10. \E m \in manifests :
           LET p == m[node.parent.node] IN DOMAIN PythonModel(model) \cap (p.hidden \cup DOMAIN p.alias) = {}
    BY <2>5, <2>9 DEF parent
  <2>11. QED
    BY <2>10 DEF ParentKeepsPortsHidden, manifests, known, wanted
<1>2. QED
  BY <1>1, BuildInvariant, PTL

-----------------------------------------------------------------------------
(***************************************************************************)
(* One node: what its implementation gets.  Three loops go through a map   *)
(* of ports, in the order of their names; what each has done is shown for  *)
(* any of the ports, whichever have come before.                           *)
(***************************************************************************)
\* Induction over the subsets of a finite set.
LEMMA SubsetInduction ==
  ASSUME NEW S, IsFiniteSet(S), NEW Good, {} \in Good,
         \A T \in SUBSET S : T # {} /\ (\A x \in T : T \ {x} \in Good) => T \in Good
  PROVE  SUBSET S \subseteq Good
<1> DEFINE N == {n \in Nat : \A T \in SUBSET S : Cardinality(T) = n => T \in Good}
<1>1. \A T \in SUBSET S : IsFiniteSet(T) /\ Cardinality(T) \in Nat
  BY FS_Subset, FS_CardinalityType
<1>2. 0 \in N
  <2>1. \A T \in SUBSET S : Cardinality(T) = 0 => T = {}
    BY <1>1, FS_EmptySet
  <2>2. QED
    BY <2>1
<1>3. ASSUME NEW n \in Nat, n \in N PROVE n + 1 \in N
  <2>1. ASSUME NEW T \in SUBSET S, Cardinality(T) = n + 1 PROVE T \in Good
    <3>1. T # {}
      BY <2>1, FS_EmptySet
    <3>2. ASSUME NEW x \in T PROVE T \ {x} \in Good
      <4>1. Cardinality(T \ {x}) = n
        BY <1>1, <2>1, FS_RemoveElement
      <4>2. QED
        BY <1>3, <4>1
    <3>3. QED
      BY <3>1, <3>2
  <2>2. QED
    BY <2>1
<1> HIDE DEF N
<1>4. Nat \subseteq N
  BY <1>2, <1>3, NatSetInduction
<1>5. QED
  BY <1>1, <1>4 DEF N

\* A finite set of names has a last one.
LEMMA LastFacts ==
  ASSUME NEW S \in SUBSET Names, IsFiniteSet(S), S # {}
  PROVE  LastOf(S) \in S /\ \A m \in S : Rank[m] <= Rank[LastOf(S)]
<1> DEFINE HasLast(T) == \E n \in T : \A m \in T : Rank[m] <= Rank[n]
           Good == {T \in SUBSET S : T # {} => HasLast(T)}
<1>1. ASSUME NEW T \in SUBSET S, T # {}, \A x \in T : T \ {x} \in Good PROVE T \in Good
  <2>1. PICK x \in T : TRUE
    BY <1>1
  <2>2. \A m \in T : Rank[m] \in Nat
    BY ManifestAssumption
  <2>3. CASE T \ {x} = {}
    BY <2>1, <2>2, <2>3
  <2>4. CASE T \ {x} # {}
    <3>1. PICK y \in T \ {x} : \A m \in T \ {x} : Rank[m] <= Rank[y]
      BY <1>1, <2>1, <2>4
    <3>2. HasLast(T)
      <4>1. CASE Rank[x] <= Rank[y]
        BY <2>1, <2>2, <3>1, <4>1
      <4>2. CASE Rank[y] <= Rank[x]
        BY <2>1, <2>2, <3>1, <4>2
      <4>3. QED
        BY <2>1, <2>2, <3>1, <4>1, <4>2
    <3>3. QED
      BY <3>2
  <2>5. QED
    BY <2>3, <2>4
<1>2. {} \in Good
  OBVIOUS
<1> HIDE DEF Good
<1>3. SUBSET S \subseteq Good
  BY <1>1, <1>2, SubsetInduction
<1>4. HasLast(S)
  BY <1>3 DEF Good
<1>5. QED
  BY <1>4 DEF LastOf

\* What the three loops over a map of ports do for one port.
LoopStep(loop, given, p, r) ==
  CASE loop = "aliases" -> Over(r, Single(given[p], r[p]))
    [] loop = "defaults" -> [q \in DOMAIN r |-> IF q \in DefaultTargets(given.alias, p)
                                                THEN [r[q] EXCEPT !.default = given.default[p]] ELSE r[q]]
    [] loop = "copies" -> CopyAlias(given, p, r)

\* The results of a loop, after every subset of the ports.
Results(loop, given, start, S, f) ==
  f = [T \in SUBSET S |-> IF T = {} THEN start ELSE LoopStep(loop, given, LastOf(T), f[T \ {LastOf(T)}])]

\* Each loop has a result.
LEMMA LoopEnds ==
  ASSUME NEW loop, NEW given, NEW start, NEW D \in SUBSET Names, IsFiniteSet(D)
  PROVE  \E f : Results(loop, given, start, D, f)
<1> DEFINE Step(p, r) == LoopStep(loop, given, p, r)
           Is(f, S) == f = [T \in SUBSET S |-> IF T = {} THEN start ELSE Step(LastOf(T), f[T \ {LastOf(T)}])]
           Good == {S \in SUBSET D : \E f : Is(f, S)}
<1> HIDE DEF Step
<1>1. {} \in Good
  <2>1. Is([T \in SUBSET {} |-> start], {})
    OBVIOUS
  <2>2. \E f : Is(f, {})
    BY <2>1
  <2>3. QED
    BY <2>2
<1>2. ASSUME NEW S \in SUBSET D, S # {}, \A x \in S : S \ {x} \in Good PROVE S \in Good
  <2> DEFINE n == LastOf(S)
             R == S \ {n}
  <2>0. \A T \in SUBSET S : T # {} => LastOf(T) \in T /\ \A m \in T : Rank[m] <= Rank[LastOf(T)]
    <3>1. \A T \in SUBSET S : T \in SUBSET Names /\ IsFiniteSet(T)
      BY FS_Subset
    <3>2. QED
      BY <3>1, LastFacts
  <2>1. n \in S
    BY <1>2, <2>0
  <2>2. PICK f : Is(f, R)
    BY <1>2, <2>1
  <2>3. \A T \in SUBSET S : n \in T => LastOf(T) = n
    <3>1. \A m \in S : m \in Names /\ Rank[m] \in Nat /\ Rank[m] <= Rank[n]
      BY <1>2, <2>0, ManifestAssumption
    <3> HIDE DEF n
    <3>2. ASSUME NEW T \in SUBSET S, n \in T PROVE LastOf(T) = n
      <4>1. LastOf(T) \in T /\ Rank[n] <= Rank[LastOf(T)]
        BY <2>0, <3>2
      <4> DEFINE l == LastOf(T)
      <4> HIDE DEF l
      <4>2. l \in Names /\ n \in Names /\ Rank[l] = Rank[n]
        <5>1. l \in S /\ Rank[n] <= Rank[l]
          BY <3>2, <4>1 DEF l
        <5>2. QED
          BY <2>1, <3>1, <5>1
      <4>3. l = n
        BY <4>2, ManifestAssumption
      <4>4. QED
        BY <4>3 DEF l
    <3>3. QED
      BY <3>2
  <2> HIDE DEF n
  <2> DEFINE g == [T \in SUBSET S |-> IF n \in T THEN Step(n, f[T \ {n}]) ELSE f[T]]
  <2>4. ASSUME NEW T \in SUBSET S PROVE g[T] = IF T = {} THEN start ELSE Step(LastOf(T), g[T \ {LastOf(T)}])
    <3>1. CASE n \in T
      <4>1. LastOf(T) = n /\ T \ {n} \in SUBSET S /\ n \notin T \ {n}
        BY <2>3, <3>1
      <4>2. g[T \ {n}] = f[T \ {n}] /\ g[T] = Step(n, f[T \ {n}])
        BY <3>1, <4>1
      <4>3. QED
        BY <3>1, <4>1, <4>2
    <3>2. CASE n \notin T
      <4>1. T \in SUBSET R /\ T \ {LastOf(T)} \in SUBSET S /\ n \notin T \ {LastOf(T)}
        BY <3>2
      <4>2. g[T] = f[T] /\ g[T \ {LastOf(T)}] = f[T \ {LastOf(T)}]
        BY <3>2, <4>1
      <4>3. f[T] = IF T = {} THEN start ELSE Step(LastOf(T), f[T \ {LastOf(T)}])
        BY <2>2, <4>1
      <4>4. QED
        BY <4>2, <4>3
    <3>3. QED
      BY <3>1, <3>2
  <2>5. Is(g, S)
    BY <2>4
  <2>6. \E h : Is(h, S)
    BY <2>5
  <2> HIDE DEF Is
  <2>7. QED
    BY <2>6
<1> HIDE DEF Good
<1>3. D \in Good
  BY <1>1, <1>2, SubsetInduction
<1>4. \E f : Is(f, D)
  BY <1>3 DEF Good
<1>5. QED
  BY <1>4 DEF Step, Results

LEMMA AliasesUnfold ==
  ASSUME NEW provided, NEW alias, IsPortMap(alias)
  PROVE  \E f : Results("aliases", alias, provided, DOMAIN alias, f) /\ WithAliases(provided, alias) = f[DOMAIN alias]
<1> DEFINE Is(f) == f = [T \in SUBSET DOMAIN alias |-> IF T = {} THEN provided ELSE 
                                      LET p == LastOf(T) IN Over(f[T \ {p}], Single(alias[p], f[T \ {p}][p]))]
<1>1. WithAliases(provided, alias) = (CHOOSE f : Is(f))[DOMAIN alias]
  BY DEF WithAliases, InOrder, MapThenFoldSet
<1>2. \A f : Is(f) <=> Results("aliases", alias, provided, DOMAIN alias, f)
  BY DEF Results, LoopStep
<1>3. \E f : Results("aliases", alias, provided, DOMAIN alias, f)
  BY LoopEnds DEF IsPortMap
<1> HIDE DEF Is
<1>4. Is(CHOOSE f : Is(f))
  BY <1>2, <1>3
<1>5. QED
  BY <1>1, <1>2, <1>4

LEMMA DefaultsUnfold ==
  ASSUME NEW list, NEW opts, IsPortMap(opts.default)
  PROVE  \E f : Results("defaults", opts, list, DOMAIN opts.default, f) /\ WithDefaults(list, opts) = f[DOMAIN opts.default]
<1> DEFINE Is(f) == f = [T \in SUBSET DOMAIN opts.default |-> IF T = {} THEN list ELSE 
                   LET p == LastOf(T)
                       l == f[T \ {p}]
                   IN  [q \in DOMAIN l |-> IF q \in DefaultTargets(opts.alias, p)
                                         THEN [l[q] EXCEPT !.default = opts.default[p]] ELSE l[q]]]
<1>1. WithDefaults(list, opts) = (CHOOSE f : Is(f))[DOMAIN opts.default]
  BY DEF WithDefaults, InOrder, MapThenFoldSet
<1>2. \A f : Is(f) <=> Results("defaults", opts, list, DOMAIN opts.default, f)
  BY DEF Results, LoopStep
<1>3. \E f : Results("defaults", opts, list, DOMAIN opts.default, f)
  BY LoopEnds DEF IsPortMap
<1> HIDE DEF Is
<1>4. Is(CHOOSE f : Is(f))
  BY <1>2, <1>3
<1>5. QED
  BY <1>1, <1>2, <1>4

LEMMA CopiesUnfold ==
  ASSUME NEW alias, NEW c, IsPortMap(alias)
  PROVE  \E f : Results("copies", alias, c, DOMAIN alias, f) /\ CopyAliases(alias, c) = f[DOMAIN alias]
<1> DEFINE Is(f) == f = [T \in SUBSET DOMAIN alias |-> IF T = {} THEN c ELSE 
                                      CopyAlias(alias, LastOf(T), f[T \ {LastOf(T)}])]
<1>1. CopyAliases(alias, c) = (CHOOSE f : Is(f))[DOMAIN alias]
  BY DEF CopyAliases, InOrder, MapThenFoldSet
<1>2. \A f : Is(f) <=> Results("copies", alias, c, DOMAIN alias, f)
  BY DEF Results, LoopStep
<1>3. \E f : Results("copies", alias, c, DOMAIN alias, f)
  BY LoopEnds DEF IsPortMap
<1> HIDE DEF Is
<1>4. Is(CHOOSE f : Is(f))
  BY <1>2, <1>3
<1>5. QED
  BY <1>1, <1>2, <1>4

\* The last of the ports a loop has come to is one of them.
LEMMA LastOfSome ==
  ASSUME NEW D \in SUBSET Names, IsFiniteSet(D)
  PROVE  \A T \in SUBSET D : T # {} => LastOf(T) \in T
<1>1. \A T \in SUBSET D : T \in SUBSET Names /\ IsFiniteSet(T)
  BY FS_Subset
<1>2. QED
  BY <1>1, LastFacts

\* The class's own ports stay as they are.
LEMMA OwnPortsStay ==
  ASSUME NEW provided, NEW alias, IsPortMap(alias), NEW q \in DOMAIN provided
  PROVE  LET list == WithAliases(provided, alias) IN q \in DOMAIN list /\ list[q] = provided[q]
<1> DEFINE D == DOMAIN alias
<1>1. D \in SUBSET Names /\ IsFiniteSet(D)
  BY DEF IsPortMap
<1>2. PICK f : Results("aliases", alias, provided, D, f) /\ WithAliases(provided, alias) = f[D]
  BY AliasesUnfold
<1> HIDE DEF D
<1>3. \A T \in SUBSET D : T # {} => LastOf(T) \in T
  BY <1>1, LastOfSome
<1>4. /\ f[{}] = provided
      /\ \A T \in SUBSET D : T # {} =>
           LastOf(T) \in T /\ f[T] = LoopStep("aliases", alias, LastOf(T), f[T \ {LastOf(T)}])
  BY <1>1, <1>2, <1>3 DEF Results
<1> DEFINE Good == {T \in SUBSET D : q \in DOMAIN f[T] /\ f[T][q] = provided[q]}
<1>5. {} \in Good
  BY <1>4
<1>6. ASSUME NEW T \in SUBSET D, T # {}, \A x \in T : T \ {x} \in Good PROVE T \in Good
  <2> DEFINE n == LastOf(T)
             r == f[T \ {n}]
  <2>1. f[T] = Over(r, Single(alias[n], r[n]))
    BY <1>4, <1>6 DEF LoopStep
  <2>2. q \in DOMAIN r /\ r[q] = provided[q]
    BY <1>4, <1>6
  <2> HIDE DEF r, n
  <2>3. q \in DOMAIN f[T] /\ f[T][q] = provided[q]
    BY <2>1, <2>2 DEF Over, Single
  <2>4. QED
    BY <2>3
<1> HIDE DEF Good
<1>7. D \in Good
  BY <1>5, <1>6, <1>1, SubsetInduction
<1>8. QED
  BY <1>2, <1>7 DEF Good

\* An alias that is no other port's name.
IsPlain(provided, alias, p) ==
  /\ p \in DOMAIN alias /\ p \in DOMAIN provided
  /\ alias[p] \notin DOMAIN provided \cup DOMAIN alias
  /\ \A q \in DOMAIN alias : alias[q] # p
  /\ \A q \in DOMAIN alias : alias[q] = alias[p] => q = p

\* It is registered with what the port is.
LEMMA PlainAliasIsPort ==
  ASSUME NEW provided, NEW alias, IsPortMap(alias), NEW p, IsPlain(provided, alias, p)
  PROVE  LET list == WithAliases(provided, alias) IN alias[p] \in DOMAIN list /\ list[alias[p]] = provided[p]
<1> DEFINE D == DOMAIN alias
<1>1. D \in SUBSET Names /\ IsFiniteSet(D)
  BY DEF IsPortMap
<1>2. PICK f : Results("aliases", alias, provided, D, f) /\ WithAliases(provided, alias) = f[D]
  BY AliasesUnfold
<1> HIDE DEF D
<1>3. \A T \in SUBSET D : T # {} => LastOf(T) \in T
  BY <1>1, LastOfSome
<1>4. /\ f[{}] = provided
      /\ \A T \in SUBSET D : T # {} =>
           LastOf(T) \in T /\ f[T] = LoopStep("aliases", alias, LastOf(T), f[T \ {LastOf(T)}])
  BY <1>1, <1>2, <1>3 DEF Results
<1> DEFINE a == alias[p]
           Holds(T, r) == /\ p \in DOMAIN r /\ r[p] = provided[p]
                          /\ p \in T => a \in DOMAIN r /\ r[a] = provided[p]
                          /\ p \notin T => a \notin DOMAIN r
           Good == {T \in SUBSET D : Holds(T, f[T])}
<1>5. {} \in Good
  BY <1>4 DEF IsPlain
<1>6. ASSUME NEW T \in SUBSET D, T # {}, \A x \in T : T \ {x} \in Good PROVE T \in Good
  <2> DEFINE n == LastOf(T)
             r == f[T \ {n}]
  <2>1. f[T] = Over(r, Single(alias[n], r[n]))
    BY <1>4, <1>6 DEF LoopStep
  <2>2. n \in T /\ Holds(T \ {n}, r)
    BY <1>4, <1>6
  <2>3. n # p => alias[n] # a
    BY <2>2 DEF IsPlain, D
  <2> HIDE DEF r, n
  <2>4. /\ DOMAIN f[T] = DOMAIN r \cup {alias[n]}
        /\ alias[n] \notin DOMAIN r => f[T][alias[n]] = r[n]
        /\ \A q \in DOMAIN r : f[T][q] = r[q]
    BY <2>1 DEF Over, Single
  <2>5. Holds(T, f[T])
    BY <2>2, <2>3, <2>4
  <2>6. QED
    BY <2>5
<1> HIDE DEF Good
<1>7. D \in Good
  BY <1>5, <1>6, <1>1, SubsetInduction
<1>8. QED
  BY <1>2, <1>7 DEF Good, IsPlain, D

\* What a ports list says of one port.
IsPort(port) == port = [dir |-> port.dir, default |-> port.default]

\* A default changes no port's direction.
LEMMA DefaultsKeepPorts ==
  ASSUME NEW list, NEW opts, IsPortMap(opts.default), NEW q \in DOMAIN list, IsPort(list[q])
  PROVE  LET new == WithDefaults(list, opts)
         IN  q \in DOMAIN new /\ IsPort(new[q]) /\ new[q].dir = list[q].dir
<1> DEFINE D == DOMAIN opts.default
<1>1. D \in SUBSET Names /\ IsFiniteSet(D)
  BY DEF IsPortMap
<1>2. PICK f : Results("defaults", opts, list, D, f) /\ WithDefaults(list, opts) = f[D]
  BY DefaultsUnfold
<1> HIDE DEF D
<1>3. \A T \in SUBSET D : T # {} => LastOf(T) \in T
  BY <1>1, LastOfSome
<1>4. /\ f[{}] = list
      /\ \A T \in SUBSET D : T # {} =>
           LastOf(T) \in T /\ f[T] = LoopStep("defaults", opts, LastOf(T), f[T \ {LastOf(T)}])
  BY <1>1, <1>2, <1>3 DEF Results
<1> DEFINE Holds(r) == q \in DOMAIN r /\ IsPort(r[q]) /\ r[q].dir = list[q].dir
           Good == {T \in SUBSET D : Holds(f[T])}
<1>5. {} \in Good
  BY <1>4
<1>6. ASSUME NEW T \in SUBSET D, T # {}, \A x \in T : T \ {x} \in Good PROVE T \in Good
  <2> DEFINE n == LastOf(T)
             r == f[T \ {n}]
  <2>1. f[T] = [k \in DOMAIN r |-> IF k \in DefaultTargets(opts.alias, n)
                                   THEN [r[k] EXCEPT !.default = opts.default[n]] ELSE r[k]]
    BY <1>4, <1>6 DEF LoopStep
  <2>2. Holds(r)
    BY <1>4, <1>6
  <2> HIDE DEF r, n
  <2>3. f[T][q] \in {r[q], [r[q] EXCEPT !.default = opts.default[n]]} /\ q \in DOMAIN f[T]
    BY <2>1, <2>2
  <2>4. [r[q] EXCEPT !.default = opts.default[n]] = [dir |-> r[q].dir, default |-> opts.default[n]]
    BY <2>2 DEF IsPort
  <2>5. Holds(f[T])
    BY <2>2, <2>3, <2>4 DEF IsPort
  <2>6. QED
    BY <2>5
<1> HIDE DEF Good
<1>7. D \in Good
  BY <1>5, <1>6, <1>1, SubsetInduction
<1>8. QED
  BY <1>2, <1>7 DEF Good

\* A default that is given for a port or for its alias is given for both.
LEMMA DefaultsAgree ==
  ASSUME NEW provided, NEW opts, IsPortMap(opts.alias), IsPortMap(opts.default), NEW p, IsPlain(provided, opts.alias, p),
         NEW list, p \in DOMAIN list, opts.alias[p] \in DOMAIN list, list[p] = list[opts.alias[p]]
  PROVE  LET new == WithDefaults(list, opts) IN new[p] = new[opts.alias[p]]
<1> DEFINE D == DOMAIN opts.default
<1>1. D \in SUBSET Names /\ IsFiniteSet(D)
  BY DEF IsPortMap
<1>2. PICK f : Results("defaults", opts, list, D, f) /\ WithDefaults(list, opts) = f[D]
  BY DefaultsUnfold
<1> HIDE DEF D
<1>3. \A T \in SUBSET D : T # {} => LastOf(T) \in T
  BY <1>1, LastOfSome
<1>4. /\ f[{}] = list
      /\ \A T \in SUBSET D : T # {} =>
           LastOf(T) \in T /\ f[T] = LoopStep("defaults", opts, LastOf(T), f[T \ {LastOf(T)}])
  BY <1>1, <1>2, <1>3 DEF Results
<1> DEFINE a == opts.alias[p]
           Holds(r) == p \in DOMAIN r /\ a \in DOMAIN r /\ r[p] = r[a]
           Good == {T \in SUBSET D : Holds(f[T])}
<1>5. {} \in Good
  BY <1>4
<1>6. ASSUME NEW e PROVE p \in DefaultTargets(opts.alias, e) <=> a \in DefaultTargets(opts.alias, e)
  <2> DEFINE originals == {q \in DOMAIN opts.alias : opts.alias[q] = e}
  <2>1. p \in DOMAIN opts.alias /\ a \notin DOMAIN opts.alias
        /\ \A q \in DOMAIN opts.alias : opts.alias[q] # p /\ (opts.alias[q] = a => q = p)
    BY DEF IsPlain
  <2>2. CASE e \in DOMAIN opts.alias
    <3>1. DefaultTargets(opts.alias, e) = {e, opts.alias[e]}
      BY <2>2 DEF DefaultTargets
    <3>2. QED
      BY <2>1, <2>2, <3>1
  <2>3. CASE e \notin DOMAIN opts.alias
    <3>1. DefaultTargets(opts.alias, e) = {e} \cup FailedAt(originals)
      BY <2>3 DEF DefaultTargets
    <3>2. FailedAt(originals) \subseteq originals
      BY DEF FailedAt
    <3>3. e = a => originals = {p}
      BY <2>1
    <3>4. FailedAt({p}) = {p}
      BY ManifestAssumption DEF FailedAt, IsPlain, IsPortMap
    <3>5. QED
      BY <2>1, <2>3, <3>1, <3>2, <3>3, <3>4
  <2>4. QED
    BY <2>2, <2>3
<1>7. ASSUME NEW T \in SUBSET D, T # {}, \A x \in T : T \ {x} \in Good PROVE T \in Good
  <2> DEFINE n == LastOf(T)
             r == f[T \ {n}]
  <2>1. f[T] = [k \in DOMAIN r |-> IF k \in DefaultTargets(opts.alias, n)
                                   THEN [r[k] EXCEPT !.default = opts.default[n]] ELSE r[k]]
    BY <1>4, <1>7 DEF LoopStep
  <2>2. Holds(r)
    BY <1>4, <1>7
  <2>3. p \in DefaultTargets(opts.alias, n) <=> a \in DefaultTargets(opts.alias, n)
    BY <1>6
  <2> HIDE DEF r, n
  <2>4. Holds(f[T])
    BY <2>1, <2>2, <2>3
  <2>5. QED
    BY <2>4
<1> HIDE DEF Good
<1>8. D \in Good
  BY <1>5, <1>7, <1>1, SubsetInduction
<1>9. QED
  BY <1>2, <1>8 DEF Good

IsConfig(c) == c = [input |-> c.input, output |-> c.output]

\* Two configurations say the same of a port.
SameAt(c, d, q) ==
  /\ q \in DOMAIN c.input <=> q \in DOMAIN d.input
  /\ q \in DOMAIN c.input => c.input[q] = d.input[q]
  /\ q \in DOMAIN c.output <=> q \in DOMAIN d.output
  /\ q \in DOMAIN c.output => c.output[q] = d.output[q]

\* Copying an alias changes the port only.
LEMMA CopyFacts ==
  ASSUME NEW alias, NEW n, NEW c, IsConfig(c)
  PROVE  LET d == CopyAlias(alias, n, c)
             a == alias[n]
         IN  /\ IsConfig(d)
             /\ \A q : q # n => SameAt(d, c, q)
             /\ a \in DOMAIN c.input => /\ n \in DOMAIN d.input /\ d.input[n] = c.input[a]
                                       /\ d.output = c.output
             /\ a \notin DOMAIN c.input /\ a \in DOMAIN c.output =>
                  n \in DOMAIN d.output /\ d.output[n] = c.output[a] /\ d.input = c.input
             /\ a \notin DOMAIN c.input /\ a \notin DOMAIN c.output => d = c
<1> DEFINE a == alias[n]
           d == CopyAlias(alias, n, c)
<1>1. CASE a \in DOMAIN c.input
  <2>1. d = [input |-> Over(Single(n, c.input[a]), c.input), output |-> c.output]
    BY <1>1 DEF CopyAlias, IsConfig
  <2> HIDE DEF d
  <2>2. QED
    BY <1>1, <2>1 DEF IsConfig, SameAt, Over, Single, d
<1>2. CASE a \notin DOMAIN c.input /\ a \in DOMAIN c.output
  <2>1. d = [input |-> c.input, output |-> Over(Single(n, c.output[a]), c.output)]
    BY <1>2 DEF CopyAlias, IsConfig
  <2> HIDE DEF d
  <2>2. QED
    BY <1>2, <2>1 DEF IsConfig, SameAt, Over, Single, d
<1>3. CASE a \notin DOMAIN c.input /\ a \notin DOMAIN c.output
  <2>1. d = c
    BY <1>3 DEF CopyAlias
  <2>2. QED
    BY <1>3, <2>1 DEF SameAt
<1>4. QED
  BY <1>1, <1>2, <1>3

\* Names that are not aliased stay as they are configured.
LEMMA CopiesKeep ==
  ASSUME NEW alias, IsPortMap(alias), NEW c, IsConfig(c), NEW q, q \notin DOMAIN alias
  PROVE  SameAt(CopyAliases(alias, c), c, q)
<1> DEFINE D == DOMAIN alias
<1>1. D \in SUBSET Names /\ IsFiniteSet(D)
  BY DEF IsPortMap
<1>2. PICK f : Results("copies", alias, c, D, f) /\ CopyAliases(alias, c) = f[D]
  BY CopiesUnfold
<1>3. q \notin D
  OBVIOUS
<1> HIDE DEF D
<1>4. \A T \in SUBSET D : T # {} => LastOf(T) \in T
  BY <1>1, LastOfSome
<1>5. /\ f[{}] = c
      /\ \A T \in SUBSET D : T # {} => f[T] = LoopStep("copies", alias, LastOf(T), f[T \ {LastOf(T)}])
  BY <1>2 DEF Results
<1> DEFINE Holds(d) == IsConfig(d) /\ SameAt(d, c, q)
           Good == {T \in SUBSET D : Holds(f[T])}
<1>6. {} \in Good
  BY <1>5 DEF SameAt
<1>7. ASSUME NEW T \in SUBSET D, T # {}, \A x \in T : T \ {x} \in Good PROVE T \in Good
  <2> DEFINE n == LastOf(T)
             d == f[T \ {n}]
  <2>1. f[T] = CopyAlias(alias, n, d)
    BY <1>5, <1>7 DEF LoopStep
  <2>2. Holds(d) /\ n # q
    BY <1>3, <1>4, <1>7
  <2> HIDE DEF d, n
  <2>3. IsConfig(f[T]) /\ SameAt(f[T], d, q)
    BY <2>1, <2>2, CopyFacts
  <2>4. Holds(f[T])
    BY <2>2, <2>3 DEF SameAt
  <2>5. QED
    BY <2>4
<1> HIDE DEF Good
<1>8. D \in Good
  BY <1>1, <1>6, <1>7, SubsetInduction
<1>9. QED
  BY <1>2, <1>8 DEF Good

\* The port has what its alias had, on the side it had it.
Reached(d, c, p, a) ==
  IF a \in DOMAIN c.input
  THEN /\ p \in DOMAIN d.input /\ d.input[p] = c.input[a]
       /\ p \in DOMAIN d.output <=> p \in DOMAIN c.output
       /\ p \in DOMAIN d.output => d.output[p] = c.output[p]
  ELSE IF a \in DOMAIN c.output
  THEN /\ p \in DOMAIN d.output /\ d.output[p] = c.output[a]
       /\ p \in DOMAIN d.input <=> p \in DOMAIN c.input
       /\ p \in DOMAIN d.input => d.input[p] = c.input[p]
  ELSE SameAt(d, c, p)

LEMMA CopiesReach ==
  ASSUME NEW alias, IsPortMap(alias), NEW c, IsConfig(c),
         NEW p \in DOMAIN alias, alias[p] \notin DOMAIN alias
  PROVE  Reached(CopyAliases(alias, c), c, p, alias[p])
<1> DEFINE D == DOMAIN alias
           a == alias[p]
<1>1. D \in SUBSET Names /\ IsFiniteSet(D)
  BY DEF IsPortMap
<1>2. PICK f : Results("copies", alias, c, D, f) /\ CopyAliases(alias, c) = f[D]
  BY CopiesUnfold
<1>3. a \notin D /\ p \in D /\ a # p
  OBVIOUS
<1> HIDE DEF D
<1>4. \A T \in SUBSET D : T # {} => LastOf(T) \in T
  BY <1>1, LastOfSome
<1>5. /\ f[{}] = c
      /\ \A T \in SUBSET D : T # {} => f[T] = LoopStep("copies", alias, LastOf(T), f[T \ {LastOf(T)}])
  BY <1>2 DEF Results
<1> DEFINE Holds(T, d) == /\ IsConfig(d) /\ SameAt(d, c, a)
                          /\ p \notin T => SameAt(d, c, p)
                          /\ p \in T => Reached(d, c, p, a)
           Good == {T \in SUBSET D : Holds(T, f[T])}
<1>6. {} \in Good
  BY <1>5 DEF SameAt
<1>7. ASSUME NEW T \in SUBSET D, T # {}, \A x \in T : T \ {x} \in Good PROVE T \in Good
  <2> DEFINE n == LastOf(T)
             d == f[T \ {n}]
             e == f[T]
  <2>1. e = CopyAlias(alias, n, d)
    BY <1>5, <1>7 DEF LoopStep
  <2>2. Holds(T \ {n}, d) /\ n \in T /\ n # a
    BY <1>3, <1>4, <1>7
  <2> HIDE DEF d, n, e
  <2>3. IsConfig(e) /\ \A q : q # n => SameAt(e, d, q)
    BY <2>1, <2>2, CopyFacts
  <2>4. SameAt(e, c, a)
    BY <2>2, <2>3 DEF SameAt
  <2>5. ASSUME n = p PROVE Holds(T, e)
    <3>1. SameAt(d, c, a) /\ SameAt(d, c, p)
      BY <2>2, <2>5
    <3>2. /\ a \in DOMAIN d.input => p \in DOMAIN e.input /\ e.input[p] = d.input[a] /\ e.output = d.output
          /\ a \notin DOMAIN d.input /\ a \in DOMAIN d.output =>
               p \in DOMAIN e.output /\ e.output[p] = d.output[a] /\ e.input = d.input
          /\ a \notin DOMAIN d.input /\ a \notin DOMAIN d.output => e = d
      BY <2>1, <2>2, <2>5, CopyFacts
    <3> HIDE DEF a
    <3>3. Reached(e, c, p, a)
      BY <3>1, <3>2 DEF Reached, SameAt
    <3>4. QED
      BY <2>2, <2>3, <2>4, <2>5, <3>3
  <2>6. ASSUME n # p PROVE Holds(T, e)
    <3>1. SameAt(e, d, p)
      BY <2>3, <2>6
    <3> HIDE DEF a
    <3>2. p \notin T => SameAt(e, c, p)
      BY <2>2, <3>1 DEF SameAt
    <3>3. p \in T => Reached(e, c, p, a)
      BY <2>2, <2>6, <3>1 DEF Reached, SameAt
    <3>4. QED
      BY <2>3, <2>4, <3>2, <3>3
  <2>7. Holds(T, e)
    BY <2>5, <2>6
  <2>8. QED
    BY <2>7 DEF e
<1> HIDE DEF Good
<1>8. D \in Good
  BY <1>1, <1>6, <1>7, SubsetInduction
<1>9. QED
  BY <1>2, <1>3, <1>8 DEF Good

Directions == {"in", "out", "inout"}

\* A reader takes a tag for the direction it was written for.
LEMMA TagFacts ==
  /\ DOMAIN Tags = Directions
  /\ \A d \in Directions : (CHOOSE x \in DOMAIN Tags : Tags[x] = Tags[d]) = d
  /\ \A d \in Directions : Tags[d] \in {Tags["out"], Tags["inout"]} <=> d # "in"
<1>1. DOMAIN Tags = Directions
  BY DEF Tags, Directions
<1>2. \A d, x \in Directions : Tags[x] = Tags[d] => x = d
  BY DEF Tags, Directions
<1>3. \A d \in Directions : Tags[d] \in {Tags["out"], Tags["inout"]} <=> d # "in"
  BY DEF Tags, Directions
<1> HIDE DEF Directions
<1>4. QED
  BY <1>1, <1>2, <1>3

\* What the readers of a model file see is what was registered.
LEMMA ShownFacts ==
  ASSUME NEW opts, ModelEntry(opts).ok,
         NEW shown \in {ReadModel(ModelEntry(opts).file, opts), PythonModel(ModelEntry(opts).file)},
         NEW q \in DOMAIN shown
  PROVE  LET list == ModifiedPorts(opts).ports
         IN  /\ q \in DOMAIN list /\ q \notin opts.hidden \cup DOMAIN opts.alias
             /\ IsPort(list[q]) /\ list[q].dir \in Directions => shown[q] = list[q]
<1> DEFINE list == ModifiedPorts(opts).ports
           written == NodeModel(list, opts)
           file == ModelEntry(opts).file
           tags == TagsOf(file)
           read == [tag \in tags |-> CHOOSE d \in DOMAIN Tags : Tags[d] = tag]
           python == [tag \in tags |-> IF tag \in {Tags["out"], Tags["inout"]}
                                      THEN CHOOSE d \in DOMAIN Tags : Tags[d] = tag ELSE "in"]
<1>1. file = WrittenModel(written)
  BY DEF ModelEntry
<1>2. /\ DOMAIN written = DOMAIN list \ (opts.hidden \cup DOMAIN opts.alias)
      /\ \A k \in DOMAIN written : written[k] = list[k]
  BY DEF NodeModel, Restrict
<1>3. PICK direction \in {read, python} : q \in DOMAIN PortsOf(file, direction) /\ shown[q] = PortsOf(file, direction)[q]
  BY DEF ReadModel, PythonModel, NodeModel, Restrict
<1> HIDE DEF list, written, file
<1>4. PICK e \in file : e.name = q
  BY <1>3 DEF PortsOf
<1>5. /\ file = {[tag |-> Tags[written[k].dir], name |-> k, default |-> written[k].default] : k \in DOMAIN written}
  BY <1>1 DEF WrittenModel
<1>6. q \in DOMAIN written
  BY <1>4, <1>5
<1> DEFINE one == [tag |-> Tags[list[q].dir], name |-> q, default |-> list[q].default]
<1>7. one \in file /\ \A x \in file : x.name = q => x = one
  BY <1>2, <1>5, <1>6
<1>8. ASSUME IsPort(list[q]), list[q].dir \in Directions PROVE shown[q] = list[q]
  <2>1. (CHOOSE x \in file : x.name = q) = one
    BY <1>7
  <2>2. shown[q] = [dir |-> direction[one.tag], default |-> one.default]
    BY <1>3, <2>1 DEF PortsOf
  <2>3. one.tag = Tags[list[q].dir] /\ one.default = list[q].default /\ one.tag \in tags
    BY <1>7 DEF TagsOf
  <2> HIDE DEF one, tags
  <2>4. direction[one.tag] = list[q].dir
    <3> DEFINE d == list[q].dir
    <3>1. d \in Directions /\ one.tag = Tags[d]
      BY <1>8, <2>3
    <3> HIDE DEF d
    <3>2. (CHOOSE x \in DOMAIN Tags : Tags[x] = one.tag) = d
      BY <3>1, TagFacts
    <3>3. read[one.tag] = d
      BY <2>3, <3>2
    <3>4. python[one.tag] = d
      <4>1. CASE d = "in"
        BY <2>3, <3>1, <4>1, TagFacts
      <4>2. CASE d # "in"
        BY <2>3, <3>1, <3>2, <4>2, TagFacts
      <4>3. QED
        BY <4>1, <4>2
    <3> HIDE DEF read, python
    <3>5. QED
      BY <1>3, <3>3, <3>4 DEF d
  <2>5. QED
    BY <1>8, <2>2, <2>3, <2>4 DEF IsPort
<1>9. QED
  BY <1>2, <1>6, <1>8 DEF list

\* The ports a node is registered with: its class's own, and the plain aliases.
LEMMA RegisteredPorts ==
  ASSUME NEW opts, Registrable(opts), IsPortMap(opts.alias), IsPortMap(opts.default),
         NEW p \in DOMAIN ClassPorts[opts.class]
  PROVE  LET provided == ClassPorts[opts.class]
             list == ModifiedPorts(opts).ports
         IN  /\ p \in DOMAIN list /\ IsPort(list[p]) /\ list[p].dir = provided[p].dir
             /\ provided[p].dir \in Directions
             /\ IsPlain(provided, opts.alias, p) =>
                  opts.alias[p] \in DOMAIN list /\ list[opts.alias[p]] = list[p]
<1> DEFINE provided == ClassPorts[opts.class]
           aliased == WithAliases(provided, opts.alias)
           a == opts.alias[p]
<1>1. ModifiedPorts(opts).ports = WithDefaults(aliased, opts)
  BY DEF Registrable, ModifiedPorts
<1>2. IsPort(provided[p]) /\ provided[p].dir \in Directions
  BY PortsAssumption DEF Registrable, IsPort, Directions
<1> HIDE DEF provided
<1>3. p \in DOMAIN aliased /\ aliased[p] = provided[p]
  BY OwnPortsStay DEF provided
<1>4. IsPlain(provided, opts.alias, p) => a \in DOMAIN aliased /\ aliased[a] = provided[p]
  BY PlainAliasIsPort
<1> HIDE DEF aliased
<1> DEFINE list == WithDefaults(aliased, opts)
<1>5. p \in DOMAIN list /\ IsPort(list[p]) /\ list[p].dir = provided[p].dir
  BY <1>2, <1>3, DefaultsKeepPorts
<1>6. ASSUME IsPlain(provided, opts.alias, p) PROVE a \in DOMAIN list /\ list[a] = list[p]
  <2>1. a \in DOMAIN aliased /\ aliased[p] = aliased[a] /\ IsPort(aliased[a])
    BY <1>2, <1>3, <1>4, <1>6
  <2>2. a \in DOMAIN list
    BY <2>1, DefaultsKeepPorts
  <2>3. list[p] = list[a]
    BY <1>3, <1>6, <2>1, DefaultsAgree
  <2>4. QED
    BY <2>2, <2>3
<1> HIDE DEF list
<1>7. QED
  BY <1>1, <1>2, <1>5, <1>6 DEF provided, list

\* What decoding makes of maps of ports.
LEMMA DecodedMaps ==
  ASSUME NEW yaml, NEW base, DOMAIN base = DOMAIN DefaultOptions,
         NEW g \in {"alias", "default"}, IsPortMap(base[g]), g \in DOMAIN yaml => IsPortMap(yaml[g])
  PROVE  IsPortMap(Decode(yaml, base)[g])
<1>1. g \in DOMAIN base
  BY DEF DefaultOptions
<1>2. CASE g \notin DOMAIN yaml
  BY <1>1, <1>2 DEF Decode
<1>3. CASE g \in DOMAIN yaml
  <2>1. Decode(yaml, base)[g] = Over(yaml[g], base[g])
    BY <1>1, <1>3 DEF Decode
  <2>2. DOMAIN Over(yaml[g], base[g]) = DOMAIN yaml[g] \cup DOMAIN base[g]
    BY DEF Over
  <2>3. IsFiniteSet(DOMAIN yaml[g] \cup DOMAIN base[g])
    BY <1>3, FS_Union DEF IsPortMap
  <2>4. QED
    BY <1>3, <2>1, <2>2, <2>3 DEF IsPortMap
<1>4. QED
  BY <1>2, <1>3

\* The options a build ends with hold maps of ports.
LEMMA BuiltMaps ==
  ASSUME NEW n \in NodeInputs, BuiltOptions(n.yaml, n.parent, n.installed).ok
  PROVE  LET opts == BuiltOptions(n.yaml, n.parent, n.installed).options
         IN  IsPortMap(opts.alias) /\ IsPortMap(opts.default)
<1> DEFINE built == BuiltOptions(n.yaml, n.parent, n.installed)
<1>1. built.ok
  OBVIOUS
<1>2. \E base : /\ built.options = Decode(n.yaml, base)
                /\ DOMAIN base = DOMAIN DefaultOptions
                /\ IsPortMap(base.alias) /\ IsPortMap(base.default)
  <2>1. CASE n.parent = NoParent
    <3>1. built = DecodeWithParent(n.yaml, "", Empty)
      BY <2>1 DEF BuiltOptions
    <3>2. built.options = Decode(n.yaml, DefaultOptions)
      BY <3>1 DEF DecodeWithParent
    <3>3. IsPortMap(DefaultOptions.alias) /\ IsPortMap(DefaultOptions.default)
      BY FS_EmptySet DEF DefaultOptions, Empty, IsPortMap
    <3>4. QED
      BY <3>2, <3>3
  <2>2. CASE n.parent # NoParent
    <3> DEFINE manifest == ParentManifest(n.parent, n.installed).manifest
               parent == manifest[n.parent.node]
    <3>1. built = DecodeWithParent(n.yaml, n.parent.node, manifest)
      BY <2>2 DEF BuiltOptions
    <3>2. n.parent.node # ""
      BY <2>2, InputAssumption
    <3> HIDE DEF built, manifest
    <3>3. n.parent.node \in DOMAIN manifest /\ built.options = Decode(n.yaml, parent)
      BY <1>1, <3>1, <3>2 DEF DecodeWithParent
    <3>4. \A k \in DOMAIN n.installed : k = [package |-> k.package, id |-> k.id] /\ IsManifest(n.installed[k])
      BY InputAssumption
    <3> DEFINE wanted == [package |-> n.parent.package, id |-> n.parent.id]
               known == {k \in DOMAIN n.installed : k.id = wanted.id /\ wanted.package \in {"", k.package}}
    <3>5. \/ /\ wanted \notin DOMAIN n.installed /\ wanted.package = BuildPackage
             /\ wanted.id \in DOMAIN Earlier /\ manifest = Earlier[wanted.id]
          \/ /\ wanted \in DOMAIN n.installed \/ wanted.package # BuildPackage
             /\ \E k \in known : manifest = n.installed[k]
      BY <2>2, <3>3, <3>4, ParentFound DEF manifest
    <3>6. IsManifest(manifest)
      BY <3>4, <3>5, InputAssumption
    <3>7. QED
      BY <3>3, <3>6 DEF IsManifest
  <2>3. QED
    BY <2>1, <2>2
<1> HIDE DEF built
<1>3. PICK base : /\ built.options = Decode(n.yaml, base)
                  /\ DOMAIN base = DOMAIN DefaultOptions
                  /\ IsPortMap(base.alias) /\ IsPortMap(base.default)
  BY <1>2
<1>4. /\ "alias" \in DOMAIN n.yaml => IsPortMap(n.yaml["alias"])
      /\ "default" \in DOMAIN n.yaml => IsPortMap(n.yaml["default"])
  BY InputAssumption
<1>5. IsPortMap(Decode(n.yaml, base)["alias"])
  BY <1>3, <1>4, DecodedMaps
<1>6. IsPortMap(Decode(n.yaml, base)["default"])
  BY <1>3, <1>4, DecodedMaps
<1>7. QED
  BY <1>3, <1>5, <1>6 DEF built

\* What an attribute or the default gives for a port.
Given(q) ==
  IF q \in DOMAIN node.attributes THEN {node.attributes[q]}
  ELSE IF ports[q].default # NoValue THEN {ports[q].default} ELSE {}

\* The configuration before aliases are copied.
Before == [input |-> Configured({"in", "inout"}), output |-> Configured({"out", "inout"})]

LEMMA ConfiguredFacts ==
  ASSUME NEW dirs, NEW q \in DOMAIN ports
  PROVE  /\ q \in DOMAIN Configured(dirs) <=> ports[q].dir \in dirs /\ Given(q) # {}
         /\ q \in DOMAIN Configured(dirs) => Given(q) = {Configured(dirs)[q]}
BY DEF Configured, Given

\* A port that is not aliased is seen as it is given.
LEMMA SeenUnaliased ==
  ASSUME NEW q \in DOMAIN ports, ports[q].dir \in Directions, SameAt(config, Before, q)
  PROVE  Seen(q) = Given(q)
<1>1. /\ q \in DOMAIN config.input <=> ports[q].dir \in {"in", "inout"} /\ Given(q) # {}
      /\ q \in DOMAIN config.input => Given(q) = {config.input[q]}
  BY ConfiguredFacts DEF SameAt, Before
<1>2. /\ q \in DOMAIN config.output <=> ports[q].dir \in {"out", "inout"} /\ Given(q) # {}
      /\ q \in DOMAIN config.output => Given(q) = {config.output[q]}
  BY ConfiguredFacts DEF SameAt, Before
<1>3. q \in DOMAIN config.input \/ q \in DOMAIN config.output <=> Given(q) # {}
  BY <1>1, <1>2 DEF Directions
<1>4. QED
  BY <1>1, <1>2, <1>3 DEF Seen

\* A port that is aliased in the plain way is seen as its alias is given.
LEMMA SeenAliased ==
  ASSUME NEW p \in DOMAIN ports, NEW a \in DOMAIN ports, ports[a] = ports[p],
         ports[p].dir \in Directions \ {"inout"}, p \notin DOMAIN node.attributes,
         Reached(config, Before, p, a)
  PROVE  Seen(p) = Given(a)
<1>1. /\ p \in DOMAIN Before.input <=> ports[p].dir = "in" /\ Given(p) # {}
      /\ p \in DOMAIN Before.input => Given(p) = {Before.input[p]}
  BY ConfiguredFacts DEF Before, Directions
<1>2. /\ p \in DOMAIN Before.output <=> ports[p].dir = "out" /\ Given(p) # {}
      /\ p \in DOMAIN Before.output => Given(p) = {Before.output[p]}
  BY ConfiguredFacts DEF Before, Directions
<1>3. /\ a \in DOMAIN Before.input <=> ports[p].dir = "in" /\ Given(a) # {}
      /\ a \in DOMAIN Before.input => Given(a) = {Before.input[a]}
  BY ConfiguredFacts DEF Before, Directions
<1>4. /\ a \in DOMAIN Before.output <=> ports[p].dir = "out" /\ Given(a) # {}
      /\ a \in DOMAIN Before.output => Given(a) = {Before.output[a]}
  BY ConfiguredFacts DEF Before, Directions
<1>5. Given(a) = {} => Given(p) = {}
  BY DEF Given
<1> HIDE DEF Before
<1>6. CASE Given(a) = {}
  <2>1. p \notin DOMAIN config.input /\ p \notin DOMAIN config.output
    BY <1>1, <1>2, <1>3, <1>4, <1>5, <1>6 DEF Reached, SameAt
  <2>2. QED
    BY <1>6, <2>1 DEF Seen
<1>7. CASE Given(a) # {} /\ ports[p].dir = "in"
  <2>1. p \in DOMAIN config.input /\ {config.input[p]} = Given(a) /\ p \notin DOMAIN config.output
    BY <1>1, <1>2, <1>3, <1>4, <1>7 DEF Reached
  <2>2. QED
    BY <2>1 DEF Seen
<1>8. CASE Given(a) # {} /\ ports[p].dir = "out"
  <2>1. p \in DOMAIN config.output /\ {config.output[p]} = Given(a) /\ p \notin DOMAIN config.input
    BY <1>1, <1>2, <1>3, <1>4, <1>8 DEF Reached
  <2>2. QED
    BY <2>1 DEF Seen
<1>9. QED
  BY <1>6, <1>7, <1>8 DEF Directions

(***************************************************************************)
(* Whatever a node renames, hides and gives defaults to, and whatever the  *)
(* user writes under the names its model shows: each port of its class is  *)
(* seen by the implementation with the value, or the default, the model    *)
(* has for it under its only name.                                         *)
(***************************************************************************)
THEOREM ModelCorrect == Spec => []ModelIsTrue
<1>1. BuildInv => ModelIsTrue
  <2> SUFFICES ASSUME BuildInv, Constructed,
                      NEW shown \in {ReadModel(model, options), PythonModel(model)},
                      DOMAIN node.attributes \subseteq DOMAIN shown,
                      NEW p \in DOMAIN ClassPorts[options.class],
                      NEW name, name = IF PlainAlias(p) THEN options.alias[p] ELSE p,
                      name \in DOMAIN shown
               PROVE  /\ shown[name].dir = ClassPorts[options.class][p].dir
                      /\ Seen(p) = CASE name \in DOMAIN node.attributes -> {node.attributes[name]}
                                   [] name \notin DOMAIN node.attributes /\ shown[name].default # NoValue
                                        -> {shown[name].default}
                                   [] OTHER -> {}
    BY DEF ModelIsTrue
  <2> DEFINE provided == ClassPorts[options.class]
             a == options.alias[p]
  <2>1. /\ node \in NodeInputs
        /\ BuiltOptions(node.yaml, node.parent, node.installed).ok
        /\ options = BuiltOptions(node.yaml, node.parent, node.installed).options
    BY DEF BuildInv, Constructed, ManifestEntry, Encode
  <2>2. /\ ModelEntry(options).ok /\ model = ModelEntry(options).file
        /\ ports = ModifiedPorts(options).ports
        /\ config = CopyAliases(options.alias, Before)
    BY DEF BuildInv, Constructed, Prepared, Before
  <2>3. IsPortMap(options.alias) /\ IsPortMap(options.default)
    BY <2>1, BuiltMaps
  <2>4. Registrable(options)
    BY <2>2 DEF ModelEntry
  <2>5. /\ p \in DOMAIN ports /\ IsPort(ports[p]) /\ ports[p].dir = provided[p].dir
        /\ provided[p].dir \in Directions
        /\ IsPlain(provided, options.alias, p) => a \in DOMAIN ports /\ ports[a] = ports[p]
    BY <2>2, <2>3, <2>4, RegisteredPorts
  <2>6. /\ \A q \in DOMAIN shown : q \in DOMAIN ports /\ q \notin DOMAIN options.alias
        /\ IsPort(ports[name]) /\ ports[name].dir \in Directions => shown[name] = ports[name]
    BY <2>2, ShownFacts
  <2>7. IsConfig(Before)
    BY DEF Before, IsConfig
  <2> HIDE DEF provided, a
  <2>8. ASSUME shown[name] = ports[name], ports[name].dir = provided[p].dir, Seen(p) = Given(name)
        PROVE  /\ shown[name].dir = provided[p].dir
               /\ Seen(p) = CASE name \in DOMAIN node.attributes -> {node.attributes[name]}
                            [] name \notin DOMAIN node.attributes /\ shown[name].default # NoValue
                                 -> {shown[name].default}
                            [] OTHER -> {}
    BY <2>8 DEF Given
  <2>9. CASE PlainAlias(p)
    <3>1. name = a /\ provided[p].dir # "inout" /\ IsPlain(provided, options.alias, p)
      BY <2>9 DEF PlainAlias, IsPlain, provided, a
    <3>2. ports[a] = ports[p] /\ a \in DOMAIN ports
      BY <2>5, <3>1
    <3>3. shown[name] = ports[name] /\ ports[name].dir = provided[p].dir
      BY <2>5, <2>6, <3>1, <3>2
    <3>4. p \in DOMAIN options.alias /\ p \notin DOMAIN node.attributes
      BY <2>6, <3>1 DEF IsPlain
    <3>5. Reached(config, Before, p, a)
      BY <2>2, <2>3, <2>7, <3>1, <3>4, CopiesReach DEF IsPlain, a
    <3>6. Seen(p) = Given(a)
      BY <2>5, <3>1, <3>2, <3>4, <3>5, SeenAliased
    <3>7. QED
      BY <2>8, <3>1, <3>3, <3>6 DEF provided
  <2>10. CASE ~PlainAlias(p)
    <3>1. name = p /\ p \notin DOMAIN options.alias
      BY <2>6, <2>10
    <3>2. SameAt(config, Before, p)
      BY <2>2, <2>3, <2>7, <3>1, CopiesKeep
    <3>3. Seen(p) = Given(p)
      BY <2>5, <3>2, SeenUnaliased
    <3>4. QED
      BY <2>5, <2>6, <2>8, <3>1, <3>3 DEF provided
  <2>11. QED
    BY <2>9, <2>10
<1>2. QED
  BY <1>1, BuildInvariant, PTL

-----------------------------------------------------------------------------
(***************************************************************************)
(* One node: the client it works with.                                     *)
(***************************************************************************)
\* No topic has two placeholders: the loop that replaces them in the string it
\* runs over stays defined, whatever the values are.
OnePlaceholder == \A n \in NodeInputs : \A i, j \in Placeholders(n.topic) : i = j

Allowed(isMet, c) == isMet \/ node.allowUnreachable \/ c = NoClient

\* A client is not there before its node, and it is the one that is served.
ClientInv ==
  /\ phase \in {"yaml", "built", "new", "refused", "registered"} => client = NoClient /\ served = NoClient
  /\ phase = "constructed" => Allowed(met, client)
  /\ served # NoClient => served = client

\* An attempt to get a client; if it succeeds the client may be used.
IsAttempt(a) == a = Attempt(a.client, a.ok, a.met, a.reachable) /\ (a.ok => Allowed(a.met, a.client))

LEMMA CreateFacts ==
  ASSUME NEW a, IsAttempt(a), NEW name, NEW b \in CreateClient(a, name)
  PROVE  IsAttempt(b) /\ b.client \in {a.client, name}
<1>1. CASE b = [a EXCEPT !.ok = FALSE]
  <2>1. b = Attempt(a.client, FALSE, a.met, a.reachable)
    BY <1>1 DEF IsAttempt, Attempt
  <2>2. QED
    BY <2>1 DEF IsAttempt, Attempt
<1>2. CASE b = a
  BY <1>2
<1>3. CASE \E found \in Found(a) : b = Attempt(name, found \/ node.allowUnreachable, found, found)
  <2>1. PICK found \in Found(a) : b = Attempt(name, found \/ node.allowUnreachable, found, found)
    BY <1>3
  <2>2. b = Attempt(b.client, b.ok, b.met, b.reachable) /\ b.client = name
    BY <2>1 DEF Attempt
  <2>3. b.ok = (found \/ node.allowUnreachable) /\ b.met = found
    BY <2>1 DEF Attempt
  <2>4. b.ok => b.met \/ node.allowUnreachable
    BY <2>3, Zenon
  <2>5. QED
    BY <2>2, <2>4 DEF IsAttempt, Allowed
<1>4. QED
  BY <1>1, <1>2, <1>3 DEF CreateClient

LEMMA ResolveFacts ==
  ASSUME client = NoClient, NEW result, NEW isOk, NEW b \in Resolve(result, isOk)
  PROVE  IsAttempt(b) /\ (b.client = NoClient \/ (result.ok /\ b.client = result.text))
<1>1. \A ok : IsAttempt(Kept(ok)) /\ Kept(ok).client = NoClient
  BY DEF Kept, IsAttempt, Attempt, Allowed
<1>2. CASE result.ok
  <2>1. b \in CreateClient(Kept(TRUE), result.text)
    BY <1>2 DEF Resolve
  <2>2. IsAttempt(Kept(TRUE)) /\ Kept(TRUE).client = NoClient
    BY <1>1
  <2>3. IsAttempt(b) /\ b.client \in {Kept(TRUE).client, result.text}
    BY <2>1, <2>2, CreateFacts
  <2>4. QED
    BY <1>2, <2>2, <2>3
<1>3. CASE ~result.ok
  BY <1>1, <1>3 DEF Resolve
<1>4. QED
  BY <1>2, <1>3

LEMMA DeriveFacts ==
  ASSUME NEW a, IsAttempt(a), NEW b \in Derive(a)
  PROVE  IsAttempt(b) /\ b.client \in {a.client, DerivedName}
BY CreateFacts DEF Derive

\* A name that was made of an expression with one placeholder is whole.
LEMMA TopicFacts ==
  ASSUME OnePlaceholder, node \in NodeInputs, NEW c, NEW now,
         NEW result \in TopicNames(node.topic, c, now), result.ok
  PROVE  Placeholders(result.text) = {}
<1>1. PICK kept \in SUBSET AfterResize(node.topic, c, now) :
        result = [ok |-> TRUE, text |-> Substituted(node.topic, c, now, kept)]
  BY DEF TopicNames, NoTopic
<1>2. AfterResize(node.topic, c, now) = {}
  <2>1. \A i, j \in Placeholders(node.topic) : i = j
    BY DEF OnePlaceholder
  <2>2. DOMAIN node.topic \subseteq Nat
    BY InputAssumption
  <2>3. Placeholders(node.topic) \subseteq Nat
    BY <2>2 DEF Placeholders
  <2>4. QED
    BY <2>1, <2>3 DEF AfterResize
<1> DEFINE text == [i \in DOMAIN node.topic |->
                     IF i \in Placeholders(node.topic) THEN <<"text", InputValue(c, node.topic[i][2], now)>>
                     ELSE node.topic[i]]
<1>3. result.text = text
  BY <1>1, <1>2 DEF Substituted
<1>4. \A i \in DOMAIN node.topic : text[i][1] # "input"
  BY DEF Placeholders
<1> HIDE DEF text
<1>5. DOMAIN text = DOMAIN node.topic
  BY DEF text
<1>6. QED
  BY <1>3, <1>4, <1>5 DEF Placeholders

LEMMA DerivedFacts == Placeholders(DerivedName) = {}
<1>1. PICK value : DerivedName = <<<<"text", value>>>>
  BY DEF DerivedName
<1>2. DOMAIN <<<<"text", value>>>> = {1} /\ <<<<"text", value>>>>[1][1] = "text"
  OBVIOUS
<1>3. QED
  BY <1>1, <1>2 DEF Placeholders

\* What the property says of a step.
Wanted ==
  /\ client' # client /\ phase' = "constructed" =>
       /\ Placeholders(client') = {}
       /\ \/ client' = DerivedName
          \/ \E r \in TopicNames(node.topic, config', stored) : r.ok /\ client' = r.text
  /\ served' # served =>
       /\ served' = client'
       /\ met' \/ node.allowUnreachable
  /\ phase = "constructed" /\ phase' = "constructed" =>
       met' \/ node.allowUnreachable \/ client' = NoClient

LEMMA ConstructWanted ==
  ASSUME OnePlaceholder, node \in NodeInputs, ClientInv, Construct PROVE ClientInv' /\ Wanted
<1>1. phase = "registered" /\ client = NoClient /\ served = NoClient /\ UNCHANGED <<node, stored, served>>
  BY DEF Construct, Configure, ClientInv
<1>2. CASE options.class \notin RosClasses
  <2>1. UNCHANGED <<client, met>> /\ phase' = "constructed"
    BY <1>2 DEF Construct
  <2>2. QED
    BY <1>1, <2>1 DEF ClientInv, Wanted, Allowed
<1>3. CASE options.class \in RosClasses
  <2>1. PICK result \in TopicNames(node.topic, config', stored) :
          \E base \in Resolve(result, TRUE) : \E a \in Derive(base) :
             /\ phase' = IF a.ok THEN "constructed" ELSE "failed"
             /\ Adopt(a)
    BY <1>3 DEF Construct
  <2>2. PICK base \in Resolve(result, TRUE) : \E a \in Derive(base) :
          /\ phase' = IF a.ok THEN "constructed" ELSE "failed"
          /\ Adopt(a)
    BY <2>1
  <2>3. PICK a \in Derive(base) : /\ phase' = IF a.ok THEN "constructed" ELSE "failed"
                                  /\ Adopt(a)
    BY <2>2
  <2>4. IsAttempt(base) /\ (base.client = NoClient \/ (result.ok /\ base.client = result.text))
    BY <1>1, ResolveFacts
  <2>5. IsAttempt(a) /\ a.client \in {base.client, DerivedName}
    BY <2>4, DeriveFacts
  <2>6. client' = a.client /\ met' = a.met
    BY <2>3 DEF Adopt
  <2>7. a.ok => met' \/ node.allowUnreachable \/ client' = NoClient
    BY <2>5, <2>6 DEF IsAttempt, Allowed
  <2>8. client' # client => /\ Placeholders(client') = {}
                            /\ \/ client' = DerivedName
                               \/ result.ok /\ client' = result.text
    <3>1. result.ok => Placeholders(result.text) = {}
      BY TopicFacts
    <3>2. QED
      BY <1>1, <2>4, <2>5, <2>6, <3>1, DerivedFacts
  <2>9. Wanted
    BY <1>1, <2>8 DEF Wanted
  <2>10. ClientInv'
    BY <1>1, <2>3, <2>7 DEF ClientInv, Allowed
  <2>11. QED
    BY <2>9, <2>10
<1>4. QED
  BY <1>2, <1>3

LEMMA ActivateWanted ==
  ASSUME OnePlaceholder, node \in NodeInputs, ClientInv, Activate PROVE ClientInv' /\ Wanted
<1>1. phase = "constructed" /\ Allowed(met, client) /\ UNCHANGED <<node, config, stored>>
  BY DEF Activate, ClientInv
<1>2. PICK result \in TopicNames(node.topic, config, stored) :
        \E a \in AtTick(result) :
          /\ Adopt(a)
          /\ IF a.ok /\ (a.reachable \/ options.class \in Publishers)
             THEN served' = a.client /\ UNCHANGED phase
             ELSE phase' = "failed" /\ UNCHANGED served
  BY DEF Activate
<1>3. PICK a \in AtTick(result) :
        /\ Adopt(a)
        /\ IF a.ok /\ (a.reachable \/ options.class \in Publishers)
           THEN served' = a.client /\ UNCHANGED phase
           ELSE phase' = "failed" /\ UNCHANGED served
  BY <1>2
<1>4. client' = a.client /\ met' = a.met
  BY <1>3 DEF Adopt
<1>5. CASE TriesAgain
  <2>1. client = NoClient /\ served = NoClient
    BY <1>5 DEF TriesAgain, ClientInv
  <2>2. IsAttempt(a) /\ (a.client = NoClient \/ (result.ok /\ a.client = result.text))
    BY <1>5, <2>1, ResolveFacts DEF AtTick
  <2>3. a.ok => met' \/ node.allowUnreachable \/ client' = NoClient
    BY <1>4, <2>2 DEF IsAttempt, Allowed
  <2>4. client' # client => Placeholders(client') = {} /\ result.ok /\ client' = result.text
    BY <1>4, <2>1, <2>2, TopicFacts
  <2>5. Wanted
    BY <1>1, <1>3, <1>4, <2>1, <2>3, <2>4 DEF Wanted
  <2>6. ClientInv'
    BY <1>1, <1>3, <1>4, <2>1, <2>3 DEF ClientInv, Allowed
  <2>7. QED
    BY <2>5, <2>6
<1>6. CASE ~TriesAgain
  <2>1. a = Kept(client # NoClient)
    BY <1>6 DEF AtTick
  <2>2. client' = client /\ met' = met /\ (a.ok => client # NoClient)
    BY <1>4, <2>1 DEF Kept, Attempt
  <2>3. Wanted
    BY <1>1, <1>3, <1>4, <2>2 DEF Wanted, ClientInv, Allowed
  <2>4. ClientInv'
    BY <1>1, <1>3, <1>4, <2>2 DEF ClientInv, Allowed
  <2>5. QED
    BY <2>3, <2>4
<1>7. QED
  BY <1>5, <1>6

LEMMA ClientStep ==
  ASSUME OnePlaceholder, BuildInv, ClientInv, [Next]_vars PROVE ClientInv' /\ [Wanted]_vars
<1>1. node \in NodeInputs
  BY DEF BuildInv
<1>2. CASE Construct
  BY <1>1, <1>2, ConstructWanted
<1>3. CASE Activate
  BY <1>1, <1>3, ActivateWanted
<1>4. CASE Prepare
  <2>1. phase \in {"yaml", "built", "new"} /\ phase' \in {"built", "new", "refused", "registered"}
    BY <1>4 DEF Prepare, BuildManifest, BuildModel, Register
  <2>2. UNCHANGED <<client, served, met, node>>
    BY <1>4 DEF Prepare, BuildManifest, BuildModel, Register
  <2>3. QED
    BY <2>1, <2>2 DEF ClientInv, Wanted
<1>5. CASE WriteEntry \/ ServersComeAndGo
  <2>1. UNCHANGED <<client, served, met, node, phase>>
    BY <1>5 DEF WriteEntry, ServersComeAndGo, portVars
  <2>2. QED
    BY <2>1 DEF ClientInv, Wanted, Allowed
<1>6. CASE UNCHANGED vars
  BY <1>6 DEF vars, portVars, ClientInv, Allowed
<1>7. QED
  BY <1>2, <1>3, <1>4, <1>5, <1>6 DEF Next

(***************************************************************************)
(* Whatever its ports, its expression and the other side do: the client of *)
(* a node is one its expression named when it was created or its derived   *)
(* constructor asked for, whole, and it only serves one that was met or    *)
(* need not be, as long as an expression has one placeholder at most.      *)
(***************************************************************************)
THEOREM ClientCorrect == OnePlaceholder => (Spec => ClientIsWanted)
<1> SUFFICES ASSUME OnePlaceholder PROVE Spec => ClientIsWanted
  OBVIOUS
<1>1. Init => ClientInv
  BY DEF Init, NodeInit, ClientInv
<1>2. BuildInv /\ ClientInv /\ [Next]_vars => ClientInv' /\ [Wanted]_vars
  BY ClientStep
<1>3. Spec => [][Wanted]_vars
  BY <1>1, <1>2, BuildInvariant, PTL DEF Spec
<1>4. QED
  BY <1>3 DEF Wanted, ClientIsWanted
===============================================================================
