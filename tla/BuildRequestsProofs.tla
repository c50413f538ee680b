------------------------ MODULE BuildRequestsProofs ------------------------
(***************************************************************************)
(* For any packages, documents, identities and configurations, and any     *)
(* number of parameter events on their way:                                *)
(*  - the build handler in use is explained: if an event waits, the last   *)
(*    one carries the parameter;                                           *)
(*  - identities find their resource again, in C++ and in Python, and no   *)
(*    installation redirects them: what is found is the only match;        *)
(*  - a tree that is started is that of its request.                       *)
(***************************************************************************)
EXTENDS BuildRequests, FiniteSetTheorems, TLAPS

Explained == handler \in {param, named}

LastEventIsParam == events[Len(events)] = param

IInv ==
  /\ events \in Seq(Handlers)
  /\ alive => IF events = <<>> THEN Explained ELSE LastEventIsParam

\* A goal that has the handler loaded explains it by its own name.
LEMMA LoadExplains ==
  ASSUME IInv, alive, NEW h, Load(h), UNCHANGED <<events, param, alive>>
  PROVE  IInv'
BY DEF IInv, Explained, LastEventIsParam, Load

\* A goal that leaves the handler alone, the end of an execution and the
\* parameter allow_other_build_handlers.
LEMMA NothingLoaded ==
  ASSUME IInv, UNCHANGED <<handler, named, events, param, alive>>
  PROVE  IInv'
BY DEF IInv, Explained, LastEventIsParam

LEMMA GoalsExplain ==
  ASSUME IInv, alive, NEW g \in Goals, RejectGoal(g) \/ StartGoal(g) \/ AbortGoal(g)
  PROVE  IInv'
<1>1. CASE RejectGoal(g)
  <2>1. CASE Busy \/ ~GoalMayChoose(g)
    BY <1>1, <2>1, NothingLoaded DEF RejectGoal
  <2>2. CASE ~(Busy \/ ~GoalMayChoose(g))
    BY <1>1, <2>2, LoadExplains DEF RejectGoal
  <2>3. QED
    BY <2>1, <2>2
<1>2. CASE StartGoal(g)
  BY <1>2, LoadExplains DEF StartGoal
<1>3. CASE AbortGoal(g)
  BY <1>3, LoadExplains DEF AbortGoal
<1>4. QED
  BY <1>1, <1>2, <1>3

\* The parameter is set together with the event that will carry it.
LEMMA ParameterExplains ==
  ASSUME IInv, NEW h \in Handlers, SetHandlerParameter(h)
  PROVE  IInv'
<1>1. events' \in Seq(Handlers) /\ events' # <<>> /\ events'[Len(events')] = h
  BY DEF IInv, SetHandlerParameter
<1>2. param' = h
  BY DEF SetHandlerParameter
<1>3. QED
  BY <1>1, <1>2 DEF IInv, LastEventIsParam

\* The event that is handled last loads the handler the parameter shows.
LEMMA EventExplains ==
  ASSUME IInv, alive, HandleEvent
  PROVE  IInv'
<1>1. /\ events \in Seq(Handlers) /\ events # <<>> /\ LastEventIsParam
      /\ events' = Tail(events) /\ param' = param
  BY DEF IInv, HandleEvent
<1>2. events' \in Seq(Handlers)
  BY <1>1
<1>3. CASE MayLoad
  <2>1. handler' = Head(events)
    BY <1>3 DEF HandleEvent
  <2>2. CASE events' = <<>>
    <3>1. Len(events) = 1
      BY <1>1, <2>2
    <3>2. handler' = param'
      BY <1>1, <2>1, <3>1 DEF LastEventIsParam
    <3>3. QED
      BY <1>2, <2>2, <3>2 DEF IInv, Explained
  <2>3. CASE events' # <<>>
    <3>1. events'[Len(events')] = events[Len(events)]
      BY <1>1, <2>3
    <3>2. QED
      BY <1>1, <1>2, <2>3, <3>1 DEF IInv, LastEventIsParam
  <2>4. QED
    BY <2>2, <2>3
<1>4. CASE ~MayLoad
  BY <1>2, <1>4 DEF HandleEvent, IInv
<1>5. QED
  BY <1>3, <1>4

LEMMA InitIInv == Init => IInv
BY DEF Init, IInv, Explained

LEMMA NextIInv == IInv /\ [Next]_vars => IInv'
<1> SUFFICES ASSUME IInv, [Next]_vars PROVE IInv'
  OBVIOUS
<1>1. CASE alive /\ \E g \in Goals : RejectGoal(g) \/ StartGoal(g) \/ AbortGoal(g)
  BY <1>1, GoalsExplain
<1>2. CASE EndExecution
  BY <1>2, NothingLoaded DEF EndExecution
<1>3. CASE \E h \in Handlers : SetHandlerParameter(h)
  BY <1>3, ParameterExplains
<1>4. CASE \E b \in BOOLEAN : SetAllowOther(b)
  BY <1>4, NothingLoaded DEF SetAllowOther
<1>5. CASE alive /\ HandleEvent
  BY <1>5, EventExplains
<1>6. CASE \E p \in Packages : InstallResource(p)
  BY <1>6, NothingLoaded DEF InstallResource, requestVars
<1>7. CASE UNCHANGED vars
  BY <1>7, NothingLoaded DEF vars, requestVars
<1>8. QED
  BY <1>1, <1>2, <1>3, <1>4, <1>5, <1>6, <1>7 DEF Next, ExecutorNext

(***************************************************************************)
(* Whatever goals are refused, started or aborted and parameters set while *)
(* events wait: once they are handled, the executor builds with the        *)
(* handler its parameter shows or a goal has named                         *)
(* (executor_node.cpp:86-110, generic_executor_node.cpp:540-560).          *)
(***************************************************************************)
THEOREM HandlerCorrect == Spec => []HandlerIsExplained
<1>1. IInv => HandlerIsExplained
  BY DEF IInv, HandlerIsExplained, Explained
<1>2. QED
  BY InitIInv, NextIInv, <1>1, PTL DEF Spec


-----------------------------------------------------------------------------
(* The index and the identities.                                           *)

IndexInv ==
  /\ index \in [Packages -> SUBSET Lines]
  /\ manifests \in [Packages -> SUBSET ManifestLines]
  /\ IsFiniteSet(Entries(Packages)) /\ IsFiniteSet(ManifestEntries(Packages))

\* What is in the index.
LEMMA EntriesFacts ==
  ASSUME IndexInv, NEW P \in SUBSET Packages
  PROVE  /\ Entries(P) \subseteq Entries(Packages)
         /\ \A e \in Entries(P) :
              /\ e.package \in P /\ e.line \in index[e.package] /\ e.line \in Lines
              /\ e = [package |-> e.package, line |-> e.line]
         /\ \A p \in P : \A line \in index[p] : [package |-> p, line |-> line] \in Entries(P)
BY DEF IndexInv, Entries

LEMMA SearchedFacts == ASSUME NEW id PROVE Searched(id) \in SUBSET Packages
BY DEF Searched

\* A search with one match.
LEMMA OnlyFound ==
  ASSUME NEW M, IsFiniteSet(M), NEW E, Only(M, E).found
  PROVE  /\ \E e : M = {e} /\ Only(M, E) = Resource(e.package, e.line)
         /\ \A x \in E : x.line.valid
<1>1. Cardinality(M) = 1 /\ \A x \in E : x.line.valid
  BY DEF Only, Refused
<1>2. PICK e : M = {e}
  BY <1>1, FS_Singleton
<1>3. Only(M, E) = Resource(e.package, e.line)
  <2>1. (CHOOSE x \in M : TRUE) = e
    BY <1>2
  <2>2. QED
    BY <1>1, <2>1 DEF Only
<1>4. QED
  BY <1>1, <1>2, <1>3

LEMMA OnlyMatch ==
  ASSUME NEW e, NEW E, \A x \in E : x.line.valid
  PROVE  Only({e}, E) = Resource(e.package, e.line)
<1>1. Cardinality({e}) = 1
  BY FS_Singleton
<1>2. (CHOOSE x \in {e} : TRUE) = e
  OBVIOUS
<1>3. QED
  BY <1>1, <1>2 DEF Only

\* What a behavior that is found says of the index.
Witness(id, e) ==
  /\ e \in Entries(Packages)
  /\ Matches(id) = {e}
  /\ Behavior(id) = Resource(e.package, e.line)
  /\ \A x \in Entries(Searched(id)) : x.line.valid

LEMMA MatchesFacts ==
  ASSUME IndexInv, NEW id
  PROVE  Matches(id) \subseteq Entries(Packages) /\ IsFiniteSet(Matches(id))
<1>1. Matches(id) \subseteq Entries(Packages)
  BY SearchedFacts, EntriesFacts DEF Matches
<1>2. QED
  BY <1>1, FS_Subset DEF IndexInv

LEMMA BehaviorFound ==
  ASSUME IndexInv, NEW id, Behavior(id).found
  PROVE  /\ ~IsEmpty(id) /\ Behavior(id) = Only(Matches(id), Entries(Searched(id)))
         /\ \E e : Witness(id, e)
<1>1. ~IsEmpty(id) /\ Behavior(id) = Only(Matches(id), Entries(Searched(id)))
  BY DEF Behavior, Refused
<1>2. Matches(id) \subseteq Entries(Packages) /\ IsFiniteSet(Matches(id))
  BY MatchesFacts
<1>3. Only(Matches(id), Entries(Searched(id))).found
  BY <1>1
<1>4. QED
  BY <1>1, <1>2, <1>3, OnlyFound DEF Witness

\* An identity that says more about a behavior that is found finds it, too.
LEMMA BehaviorAgain ==
  ASSUME IndexInv, NEW id, Behavior(id).found, NEW e, Witness(id, e), NEW id2,
         id2.package = e.package, id2.alias = e.line.alias,
         id2.category \in {id.category, e.line.category}
  PROVE  Behavior(id2) = Behavior(id) /\ id2.alias = id.alias /\ ~IsEmpty(id2)
<1>1. /\ e \in Entries(Searched(id)) /\ e.line.alias = id.alias
      /\ id.category \in {NoName, e.line.category}
  BY DEF Witness, Matches
<1>2. /\ e.package \in Searched(id) /\ e.package \in Packages /\ e.package # NoName
      /\ e.line \in index[e.package] /\ e.line \in Lines
      /\ e = [package |-> e.package, line |-> e.line]
  BY <1>1, EntriesFacts, SearchedFacts, ResourceAssumption
<1>3. e.line.category # NoName
  BY <1>2, ResourceAssumption
<1>4. Searched(id2) = {e.package}
  BY <1>2 DEF Searched
<1>5. Entries(Searched(id2)) \subseteq Entries(Searched(id)) /\ e \in Entries(Searched(id2))
  BY <1>2, <1>4 DEF Entries
<1>6. Matches(id2) = {e}
  <2>1. e \in Matches(id2)
    BY <1>1, <1>5 DEF Matches
  <2>2. ASSUME NEW x \in Matches(id2) PROVE x \in Matches(id)
    BY <1>1, <1>3, <1>5 DEF Matches
  <2>3. QED
    BY <2>1, <2>2 DEF Witness
<1>7. ~IsEmpty(id2)
  BY <1>2 DEF IsEmpty
<1>8. ~(\E x \in {e} : x.line.clash)
  BY DEF Behavior, Refused, Witness
<1>9. Behavior(id2) = Only({e}, Entries(Searched(id2)))
  BY <1>6, <1>7, <1>8 DEF Behavior
<1>10. Only({e}, Entries(Searched(id2))) = Resource(e.package, e.line)
  BY <1>5, OnlyMatch DEF Witness
<1>11. QED
  BY <1>1, <1>7, <1>9, <1>10 DEF Witness

\* A string of a package and more is read as these two.
LEMMA TokensRead ==
  ASSUME NEW p, NEW rest \in Seq(STRING), rest # <<>>
  PROVE  Len(<<p>> \o rest) > 1 /\ Head(<<p>> \o rest) = p /\ Tail(<<p>> \o rest) = rest
<1> DEFINE T == STRING \union {p}
<1>1. rest \in Seq(T) /\ <<p>> \in Seq(T)
  OBVIOUS
<1>2. /\ <<p>> \o rest \in Seq(T) /\ Len(<<p>> \o rest) = 1 + Len(rest)
      /\ (<<p>> \o rest)[1] = p /\ \A i \in 1..Len(rest) : (<<p>> \o rest)[i + 1] = rest[i]
      /\ Len(rest) > 0
  BY <1>1
<1>3. Tail(<<p>> \o rest) \in Seq(T) /\ Len(Tail(<<p>> \o rest)) = Len(rest)
  BY <1>2
<1>4. \A i \in 1..Len(rest) : Tail(<<p>> \o rest)[i] = rest[i]
  BY <1>2
<1>5. QED
  BY <1>1, <1>2, <1>3, <1>4

\* The printed identity of a resource is read as its package, category and alias.
LEMMA PrintedReads ==
  ASSUME NEW e, e.line.alias \in Seq(STRING), e.line.alias # <<>>
  PROVE  Identity(Printed(Resource(e.package, e.line))) =
           [category |-> e.line.category, package |-> e.package, alias |-> e.line.alias]
<1>1. /\ Len(<<e.package>> \o e.line.alias) > 1 /\ Head(<<e.package>> \o e.line.alias) = e.package
      /\ Tail(<<e.package>> \o e.line.alias) = e.line.alias
  BY TokensRead
<1>2. QED
  BY <1>1 DEF Identity, Printed, Resource

LEMMA TailOfSeq ==
  ASSUME NEW S, NEW s \in Seq(S), Len(s) > 1
  PROVE  Tail(s) \in Seq(S) /\ Tail(s) # <<>>
<1>1. Tail(s) \in Seq(S) /\ Len(Tail(s)) = Len(s) - 1 /\ Len(s) \in Nat
  OBVIOUS
<1>2. Len(Tail(s)) # 0 /\ Len(<<>>) = 0
  BY <1>1
<1>3. QED
  BY <1>1, <1>2, Zenon

\* The alias of an identity has a token.
LEMMA AliasHasToken ==
  ASSUME NEW text \in Texts PROVE Identity(text).alias # <<>>
<1>1. text.tokens \in Seq(STRING) /\ Len(text.tokens) >= 1
  BY ResourceAssumption
<1>2. CASE Len(text.tokens) > 1
  BY <1>1, <1>2, TailOfSeq, Zenon DEF Identity
<1>3. CASE ~(Len(text.tokens) > 1)
  BY <1>1, <1>3 DEF Identity
<1>4. QED
  BY <1>2, <1>3

LEMMA PrintedBehaviorFound ==
  ASSUME IndexInv, NEW text \in Texts, FindBehavior(text).found
  PROVE  FindBehavior(Printed(FindBehavior(text))) = FindBehavior(text)
<1> DEFINE id == Identity(text)
<1>1. PICK e : Witness(id, e)
  BY BehaviorFound DEF FindBehavior
<1>2. e.line.alias = id.alias /\ e.line \in Lines
  BY <1>1, EntriesFacts DEF Witness, Matches
<1>3. e.line.alias \in Seq(STRING) /\ e.line.alias # <<>>
  BY <1>2, ResourceAssumption, AliasHasToken
<1>4. FindBehavior(text) = Resource(e.package, e.line)
  BY <1>1 DEF FindBehavior, Witness
<1>5. Identity(Printed(FindBehavior(text))) =
        [category |-> e.line.category, package |-> e.package, alias |-> e.line.alias]
  BY <1>3, <1>4, PrintedReads
<1>6. QED
  BY <1>1, <1>5, BehaviorAgain DEF FindBehavior

\* A tree that is found is a behavior that is found, whose file holds it.
LEMMA TreeFound ==
  ASSUME NEW id, Tree(id).found
  PROVE  /\ Behavior(id).found /\ Tree(id) = Behavior(id)
         /\ Len(Behavior(id).line.alias) = 2 /\ Behavior(id).line.alias[2] \in Behavior(id).line.trees
BY DEF Tree, Refused

LEMMA TreeOfBehavior ==
  ASSUME NEW id, NEW id2, Tree(id).found, Behavior(id2) = Behavior(id)
  PROVE  Tree(id2) = Tree(id)
BY DEF Tree

LEMMA FindTreeFound ==
  ASSUME NEW text, FindTree(text).found
  PROVE  LET id == WithCategory(Identity(text), TreeCategory)
         IN  IsTreeIdentity(id) /\ FindTree(text) = Tree(id) /\ Tree(id).found
BY DEF FindTree, Refused

LEMMA CategoryFacts ==
  ASSUME NEW c, NEW p, NEW a, NEW category
  PROVE  WithCategory([category |-> c, package |-> p, alias |-> a], category) =
           [category |-> IF c \in {NoName, DefaultCategory} THEN category ELSE c, package |-> p, alias |-> a]
BY DEF WithCategory

LEMMA PrintedTreeFound ==
  ASSUME IndexInv, NEW text \in Texts, FindTree(text).found
  PROVE  FindTree(Printed(FindTree(text))) = FindTree(text)
<1> DEFINE id == WithCategory(Identity(text), TreeCategory)
<1>1. IsTreeIdentity(id) /\ FindTree(text) = Tree(id) /\ Tree(id).found /\ Behavior(id).found /\ Tree(id) = Behavior(id)
  BY FindTreeFound, TreeFound
<1>2. PICK e : Witness(id, e)
  BY <1>1, BehaviorFound
<1>3. id.alias = Identity(text).alias /\ e.line.alias = id.alias /\ e.line \in Lines
  <2>1. id.alias = Identity(text).alias
    BY DEF Identity, WithCategory
  <2>2. e.line.alias = id.alias /\ e.line \in Lines
    BY <1>2, EntriesFacts DEF Witness, Matches
  <2>3. QED
    BY <2>1, <2>2
<1>4. e.line.alias \in Seq(STRING) /\ e.line.alias # <<>>
  BY <1>3, ResourceAssumption, AliasHasToken
<1>5. FindTree(text) = Resource(e.package, e.line)
  BY <1>1, <1>2 DEF Witness
<1> DEFINE id2 == WithCategory(Identity(Printed(FindTree(text))), TreeCategory)
<1>6. id2 = [category |-> IF e.line.category \in {NoName, DefaultCategory} THEN TreeCategory ELSE e.line.category,
             package |-> e.package, alias |-> e.line.alias]
  <2>1. Identity(Printed(FindTree(text))) =
          [category |-> e.line.category, package |-> e.package, alias |-> e.line.alias]
    BY <1>4, <1>5, PrintedReads
  <2>2. QED
    BY <2>1, CategoryFacts
<1>7. id2.category \in {id.category, e.line.category}
  <2>1. id.category \in {NoName, e.line.category}
    BY <1>2 DEF Witness, Matches
  <2>2. id.category \in {NoName, DefaultCategory} => id.category = TreeCategory
    BY DEF Identity, WithCategory
  <2>3. e.line.category # NoName
    BY <1>3, ResourceAssumption
  <2>4. QED
    BY <1>6, <2>1, <2>2, <2>3
<1> HIDE DEF id, id2
<1>8. Behavior(id2) = Behavior(id) /\ id2.alias = id.alias /\ ~IsEmpty(id2)
  BY <1>1, <1>2, <1>6, <1>7, BehaviorAgain
<1>9. IsTreeIdentity(id2)
  BY <1>1, <1>8 DEF IsTreeIdentity, TreeTokens
<1>10. Tree(id2) = Tree(id)
  BY <1>1, <1>8, TreeOfBehavior
<1>11. QED
  BY <1>1, <1>9, <1>10 DEF FindTree, id, id2

\* The trees of a search by name or by file stem.
LEMMA TreeEntriesFacts ==
  ASSUME IndexInv, NEW part, NEW name, NEW package
  PROVE  /\ TreeEntries(part, name, package) \subseteq Entries(Packages)
         /\ IsFiniteSet(TreeEntries(part, name, package))
<1>1. TreeEntries(part, name, package) \subseteq Entries(Packages)
  BY SearchedFacts, EntriesFacts DEF TreeEntries
<1>2. QED
  BY <1>1, FS_Subset DEF IndexInv

TreeAt(e) == Tree([category |-> e.line.category, package |-> e.package, alias |-> e.line.alias])

LEMMA TreeByFound ==
  ASSUME IndexInv, NEW part, NEW name, NEW package, FindTreeBy(part, name, package).found
  PROVE  /\ name # NoName /\ Cardinality(TreeEntries(part, name, package)) = 1
         /\ \E e : /\ TreeEntries(part, name, package) = {e}
                  /\ FindTreeBy(part, name, package) = TreeAt(e)
                  /\ (CHOOSE x \in TreeEntries(part, name, package) : TRUE) = e
<1>1. name # NoName /\ Cardinality(TreeEntries(part, name, package)) = 1
  BY DEF FindTreeBy, Refused
<1>2. PICK e : TreeEntries(part, name, package) = {e}
  BY <1>1, TreeEntriesFacts, FS_Singleton
<1>3. (CHOOSE x \in TreeEntries(part, name, package) : TRUE) = e
  BY <1>2
<1>4. FindTreeBy(part, name, package) = TreeAt(e)
  BY <1>1, <1>3 DEF FindTreeBy, TreeAt
<1>5. QED
  BY <1>1, <1>2, <1>3, <1>4

\* Naming the package, too, finds the same tree.
LEMMA TreeByWithPackage ==
  ASSUME IndexInv, NEW part, NEW name, FindTreeBy(part, name, NoName).found
  PROVE  FindTreeBy(part, name, FindTreeBy(part, name, NoName).package) = FindTreeBy(part, name, NoName)
<1>1. PICK e : /\ TreeEntries(part, name, NoName) = {e}
               /\ FindTreeBy(part, name, NoName) = TreeAt(e)
  BY TreeByFound
<1> DEFINE id == [category |-> e.line.category, package |-> e.package, alias |-> e.line.alias]
<1>2. e \in Entries(Packages) /\ e.package \in Packages /\ e.package # NoName
  BY <1>1, TreeEntriesFacts, EntriesFacts, ResourceAssumption
<1>3. FindTreeBy(part, name, NoName).package = e.package
  <2>1. Behavior(id).found /\ Tree(id) = Behavior(id)
    BY <1>1, TreeFound DEF TreeAt
  <2>2. PICK x : Witness(id, x)
    BY <2>1, BehaviorFound
  <2>3. x \in Entries({e.package}) /\ Searched(id) = {e.package}
    BY <1>2, <2>2 DEF Witness, Matches, Searched
  <2>4. x.package = e.package
    BY <1>2, <2>3, EntriesFacts
  <2>5. QED
    BY <1>1, <2>1, <2>2, <2>4 DEF Witness, Resource, TreeAt
<1>4. TreeEntries(part, name, e.package) = {e}
  <2>1. Searched([package |-> e.package]) = {e.package} /\ Searched([package |-> NoName]) = Packages
    BY <1>2 DEF Searched
  <2>2. Entries({e.package}) \subseteq Entries(Packages) /\ e \in Entries({e.package})
    BY <1>2 DEF Entries
  <2>3. QED
    BY <1>1, <2>1, <2>2 DEF TreeEntries
<1>5. FindTreeBy(part, name, e.package) = TreeAt(e)
  <2>1. Cardinality({e}) = 1 /\ (CHOOSE x \in {e} : TRUE) = e /\ name # NoName
    BY FS_Singleton, TreeByFound
  <2>2. QED
    BY <1>4, <2>1 DEF FindTreeBy, TreeAt
<1>6. QED
  BY <1>1, <1>3, <1>5

\* Node manifests: the index, and the search with one match.
LEMMA ManifestFacts ==
  ASSUME IndexInv, NEW P \in SUBSET Packages
  PROVE  /\ ManifestEntries(P) \subseteq ManifestEntries(Packages)
         /\ \A e \in ManifestEntries(P) :
              /\ e.package \in P /\ e.line \in ManifestLines
              /\ e = [package |-> e.package, line |-> e.line]
         /\ \A p \in P : \A e \in ManifestEntries(P) : e.package = p => e \in ManifestEntries({p})
BY DEF IndexInv, ManifestEntries

ManifestMatches(mid) == {e \in ManifestEntries(Searched(mid)) : e.line.id = mid.id}

ManifestWitness(mid, readable, e) ==
  /\ e \in ManifestEntries(Packages)
  /\ ManifestMatches(mid) = {e}
  /\ ManifestIn(mid, readable) = Resource(e.package, e.line)
  /\ mid.id # <<NoName>> /\ e.line \in readable
  /\ \A x \in ManifestEntries(Searched(mid)) : x.line.valid

LEMMA ManifestFound ==
  ASSUME IndexInv, NEW mid, NEW readable, ManifestIn(mid, readable).found
  PROVE  \E e : ManifestWitness(mid, readable, e)
<1> DEFINE entries == ManifestEntries(Searched(mid))
<1>1. /\ mid.id # <<NoName>> /\ \A x \in ManifestMatches(mid) : x.line \in readable
      /\ ManifestIn(mid, readable) = Only(ManifestMatches(mid), entries)
  BY DEF ManifestIn, Refused, ManifestMatches
<1>2. ManifestMatches(mid) \subseteq ManifestEntries(Packages)
  BY SearchedFacts, ManifestFacts DEF ManifestMatches
<1>3. IsFiniteSet(ManifestMatches(mid))
  BY <1>2, FS_Subset DEF IndexInv
<1>4. Only(ManifestMatches(mid), entries).found
  BY <1>1
<1> HIDE DEF entries
<1>5. /\ \E e : ManifestMatches(mid) = {e} /\ Only(ManifestMatches(mid), entries) = Resource(e.package, e.line)
      /\ \A x \in entries : x.line.valid
  BY <1>3, <1>4, OnlyFound
<1>6. QED
  BY <1>1, <1>2, <1>5 DEF ManifestWitness, entries

LEMMA ManifestFinds ==
  ASSUME NEW mid, NEW readable, NEW e, ManifestMatches(mid) = {e}, mid.id # <<NoName>>, e.line \in readable,
         \A x \in ManifestEntries(Searched(mid)) : x.line.valid
  PROVE  ManifestIn(mid, readable) = Resource(e.package, e.line)
<1> DEFINE entries == ManifestEntries(Searched(mid))
<1>1. ManifestIn(mid, readable) = Only({e}, entries)
  BY DEF ManifestIn, ManifestMatches
<1>2. QED
  BY <1>1, OnlyMatch

\* The metadata id of a string has a token.
LEMMA PrintedManifestFound ==
  ASSUME IndexInv, NEW text \in ManifestTexts, FindManifest(text).found
  PROVE  /\ FindManifest(PrintedManifest(FindManifest(text))) = FindManifest(text)
         /\ ManifestIdentity(PrintedManifest(FindManifest(text))) \in ListedManifests
<1> DEFINE readable == {line \in ManifestLines : line.decodes}
           mid == ManifestIdentity(text)
           mid2 == ManifestIdentity(PrintedManifest(FindManifest(text)))
<1>1. PICK e : ManifestWitness(mid, readable, e)
  BY ManifestFound DEF FindManifest
<1>2. e.line.id = mid.id /\ e \in ManifestEntries(Searched(mid))
  BY <1>1 DEF ManifestWitness, ManifestMatches
<1>3. e.package \in Packages /\ e.package \in Searched(mid) /\ e.package # NoName /\ e.line \in ManifestLines
  BY <1>2, ManifestFacts, SearchedFacts, ResourceAssumption
<1>4. text \in Texts /\ mid.id = Identity(text).alias
  BY DEF ManifestTexts, ManifestIdentity
<1>5. e.line.id \in Seq(STRING) /\ e.line.id # <<>>
  BY <1>2, <1>3, <1>4, ResourceAssumption, AliasHasToken
<1>6. FindManifest(text) = Resource(e.package, e.line)
  BY <1>1 DEF ManifestWitness, FindManifest
<1>7. mid2 = [package |-> e.package, id |-> e.line.id]
  <2>1. PrintedManifest(FindManifest(text)) = [category |-> NoName, tokens |-> <<e.package>> \o e.line.id]
    BY <1>6 DEF PrintedManifest, Resource
  <2>2. /\ Len(<<e.package>> \o e.line.id) > 1 /\ Head(<<e.package>> \o e.line.id) = e.package
        /\ Tail(<<e.package>> \o e.line.id) = e.line.id
    BY <1>5, TokensRead
  <2>3. Identity([category |-> NoName, tokens |-> <<e.package>> \o e.line.id]) =
          [category |-> NoName, package |-> e.package, alias |-> e.line.id]
    BY <2>2 DEF Identity
  <2>4. QED
    BY <2>1, <2>3 DEF ManifestIdentity
<1> HIDE DEF mid, mid2
<1>8. Searched(mid2) = {e.package} /\ mid2.id = mid.id
  BY <1>2, <1>3, <1>7 DEF Searched
<1>9. ManifestMatches(mid2) = {e}
  <2>1. ManifestEntries({e.package}) \subseteq ManifestEntries(Searched(mid)) /\ e \in ManifestEntries({e.package})
    BY <1>2, <1>3, ManifestFacts, SearchedFacts DEF ManifestEntries
  <2>2. QED
    BY <1>1, <1>8, <2>1 DEF ManifestMatches, ManifestWitness
<1>10. \A x \in ManifestEntries(Searched(mid2)) : x.line.valid
  <2>1. ManifestEntries({e.package}) \subseteq ManifestEntries(Searched(mid))
    BY <1>3 DEF ManifestEntries
  <2>2. QED
    BY <1>1, <1>8, <2>1 DEF ManifestWitness
<1>11. ManifestIn(mid2, readable) = Resource(e.package, e.line)
  BY <1>1, <1>8, <1>9, <1>10, ManifestFinds DEF ManifestWitness
<1>12. mid2 \in ListedManifests
  BY <1>1, <1>7 DEF ListedManifests, ManifestWitness
<1>13. QED
  BY <1>6, <1>11, <1>12 DEF FindManifest, mid2

\* Whatever C++ finds, Python does.
LEMMA PythonBehaviorSame ==
  ASSUME IndexInv, NEW id, Behavior(id).found PROVE PythonBehavior(id) = Behavior(id)
BY BehaviorFound DEF PythonBehavior

LEMMA PythonTreeSame ==
  ASSUME IndexInv, NEW text \in Texts, FindTree(text).found
  PROVE  PythonFindTree(text) = FindTree(text)
<1> DEFINE id == WithCategory(Identity(text), TreeCategory)
<1>1. /\ IsTreeIdentity(id) /\ FindTree(text) = Tree(id) /\ Tree(id).found /\ Behavior(id).found
      /\ Tree(id) = Behavior(id) /\ Len(Behavior(id).line.alias) = 2
  BY FindTreeFound, TreeFound
<1>2. PythonIdentity(text, TreeCategory) = id
  BY ResourceAssumption DEF PythonIdentity
<1> HIDE DEF id
<1>3. PICK e : Witness(id, e)
  BY <1>1, BehaviorFound
<1>4. id.alias \in Seq(STRING) /\ Len(id.alias) = 2
  <2>1. e.line.alias = id.alias /\ e.line \in Lines
    BY <1>3, EntriesFacts DEF Witness, Matches
  <2>2. QED
    BY <1>1, <1>3, <2>1, ResourceAssumption DEF Witness, Resource
<1>5. DOMAIN id.alias = 1..2 /\ TreeTokens(id) \subseteq 1..2
  BY <1>4 DEF TreeTokens
<1>6. TreeTokens(id) = 1..2
  <2>1. IsFiniteSet({1} \union {2}) /\ Cardinality({1} \union {2}) = 2 /\ 1..2 = {1} \union {2}
    <3>1. IsFiniteSet({1}) /\ Cardinality({1}) = 1
      BY FS_Singleton
    <3>2. IsFiniteSet({1} \union {2}) /\ Cardinality({1} \union {2}) = IF 2 \in {1} THEN 1 ELSE 1 + 1
      BY <3>1, FS_AddElement
    <3>3. QED
      BY <3>2
  <2>2. QED
    BY <1>1, <1>5, <2>1, FS_Subset DEF IsTreeIdentity
<1>7. NoName \notin {id.alias[1], id.alias[2]}
  BY <1>6 DEF TreeTokens
<1>8. IsPythonTreeIdentity(id)
  BY <1>1, <1>4, <1>7 DEF IsPythonTreeIdentity, IsTreeIdentity
<1>9. QED
  BY <1>1, <1>2, <1>8, PythonBehaviorSame DEF PythonFindTree

LEMMA PythonTreeBySame ==
  ASSUME IndexInv, NEW part, NEW name, FindTreeBy(part, name, NoName).found
  PROVE  PythonFindTreeBy(part, name, NoName) = FindTreeBy(part, name, NoName)
<1>1. PICK e : /\ TreeEntries(part, name, NoName) = {e}
               /\ FindTreeBy(part, name, NoName) = TreeAt(e)
               /\ (CHOOSE x \in TreeEntries(part, name, NoName) : TRUE) = e
  BY TreeByFound
<1> DEFINE id == [category |-> e.line.category, package |-> e.package, alias |-> e.line.alias]
<1>2. name # NoName /\ Cardinality(TreeEntries(part, name, NoName)) = 1
  BY TreeByFound
<1>3. PythonFindTreeBy(part, name, NoName) = PythonBehavior(id)
  BY <1>1, <1>2 DEF PythonFindTreeBy
<1>4. Tree(id).found /\ FindTreeBy(part, name, NoName) = Tree(id)
  BY <1>1 DEF TreeAt
<1>5. QED
  BY <1>3, <1>4, TreeFound, PythonBehaviorSame

LEMMA PythonManifestSame ==
  ASSUME IndexInv, NEW text, FindManifest(text).found
  PROVE  PythonFindManifest(text) = FindManifest(text)
<1> DEFINE decoded == {line \in ManifestLines : line.decodes}
           read == {line \in ManifestLines : line.reads}
           mid == ManifestIdentity(text)
<1>1. PICK e : ManifestWitness(mid, decoded, e)
  BY ManifestFound DEF FindManifest
<1>2. e.line \in read
  BY <1>1, ResourceAssumption DEF ManifestWitness
<1>3. ManifestIn(mid, read) = Resource(e.package, e.line)
  BY <1>1, <1>2, ManifestFinds DEF ManifestWitness
<1>4. QED
  BY <1>1, <1>3 DEF FindManifest, PythonFindManifest, ManifestWitness

LEMMA PrintedFinds == IndexInv => PrintedIdentityFindsIt
<1> SUFFICES ASSUME IndexInv PROVE PrintedIdentityFindsIt
  OBVIOUS
<1>1. \A text \in Texts :
        /\ FindBehavior(text).found => FindBehavior(Printed(FindBehavior(text))) = FindBehavior(text)
        /\ FindTree(text).found => FindTree(Printed(FindTree(text))) = FindTree(text)
  BY PrintedBehaviorFound, PrintedTreeFound
<1>2. \A id \in Listed, part \in {1, 2} :
        Len(id.alias) = 2 =>
          LET wide == FindTreeBy(part, id.alias[part], NoName)
          IN  wide.found => FindTreeBy(part, id.alias[part], wide.package) = wide
  BY TreeByWithPackage
<1>3. QED
  BY <1>1, <1>2, PrintedManifestFound DEF PrintedIdentityFindsIt

LEMMA PythonSame == IndexInv => PythonFindsSame
<1> SUFFICES ASSUME IndexInv PROVE PythonFindsSame
  OBVIOUS
<1>1. ASSUME NEW text, FindBehavior(text).found
      PROVE  PythonBehavior(PythonIdentity(text, NoName)) = FindBehavior(text)
  BY <1>1, PythonBehaviorSame DEF PythonIdentity, FindBehavior
<1>2. \A id \in Listed :
        Find(id.alias, id.package, id.category).found =>
          PythonFind(id.alias, id.package, id.category) = Find(id.alias, id.package, id.category)
  BY <1>1 DEF Find, PythonFind
<1>3. \A id \in Listed, part \in {1, 2} :
        Len(id.alias) = 2 =>
          LET one == FindTreeBy(part, id.alias[part], NoName)
          IN  one.found => PythonFindTreeBy(part, id.alias[part], NoName) = one
  BY PythonTreeBySame
<1>4. \A mid \in ListedManifests :
        LET exact == [category |-> NoName, tokens |-> <<mid.package>> \o mid.id]
        IN  FindManifest(exact).found => PythonManifestOf(mid.id, mid.package) = FindManifest(exact)
  BY PythonManifestSame DEF PythonManifestOf
<1>5. QED
  BY <1>1, <1>2, <1>3, <1>4, PythonTreeSame, PythonManifestSame DEF PythonFindsSame

\* Only an installation changes the index.
LEMMA OnlyInstallationsChange ==
  ASSUME [Next]_vars
  PROVE  UNCHANGED <<index, manifests>> \/ \E p \in Packages : InstallResource(p)
<1>1. ASSUME NEW g, RejectGoal(g) \/ StartGoal(g) \/ AbortGoal(g) PROVE UNCHANGED <<index, manifests>>
  BY <1>1 DEF RejectGoal, StartGoal, AbortGoal
<1>2. EndExecution \/ HandleEvent => UNCHANGED <<index, manifests>>
  BY DEF EndExecution, HandleEvent
<1>3. ASSUME NEW h, SetHandlerParameter(h) \/ SetAllowOther(h) PROVE UNCHANGED <<index, manifests>>
  BY <1>3 DEF SetHandlerParameter, SetAllowOther
<1>4. UNCHANGED vars => UNCHANGED <<index, manifests>>
  BY DEF vars
<1>5. QED
  BY <1>1, <1>2, <1>3, <1>4 DEF Next, ExecutorNext

\* A tree or a node manifest that an identity finds is its only match, now and
\* after a step.
FoundFacts ==
  IndexInv =>
    /\ \A text :
         /\ FindTree(text).found =>
              LET id == WithCategory(Identity(text), TreeCategory)
              IN  \E e : Witness(id, e) /\ FindTree(text) = Behavior(id)
         /\ FindTree(text).found \/ FindTree(text) = Refused
    /\ \A text, readable :
         /\ ManifestIn(ManifestIdentity(text), readable).found =>
              \E e : ManifestWitness(ManifestIdentity(text), readable, e)
         /\ \/ ManifestIn(ManifestIdentity(text), readable).found
            \/ ManifestIn(ManifestIdentity(text), readable) = Refused

LEMMA FoundNow == FoundFacts
<1> SUFFICES ASSUME IndexInv PROVE FoundFacts
  BY DEF FoundFacts
<1>1. ASSUME NEW text, FindTree(text).found
      PROVE  LET id == WithCategory(Identity(text), TreeCategory)
             IN  \E e : Witness(id, e) /\ FindTree(text) = Behavior(id)
  BY <1>1, FindTreeFound, TreeFound, BehaviorFound
<1>2. ASSUME NEW M, NEW E PROVE Only(M, E).found \/ Only(M, E) = Refused
  BY DEF Only, Resource
<1>3. ASSUME NEW id PROVE Tree(id).found \/ Tree(id) = Refused
  BY DEF Tree
<1>4. ASSUME NEW text PROVE FindTree(text).found \/ FindTree(text) = Refused
  BY <1>3 DEF FindTree
<1>5. ASSUME NEW mid, NEW readable
      PROVE  ManifestIn(mid, readable).found \/ ManifestIn(mid, readable) = Refused
  BY <1>2 DEF ManifestIn
<1>6. QED
  BY <1>1, <1>4, <1>5, ManifestFound DEF FoundFacts

LEMMA FoundThen == FoundFacts'
BY FoundNow, PTL

\* What an installation does to the index.
Grows ==
  /\ \A P \in SUBSET Packages : Entries(P) \subseteq Entries(P)'
  /\ \A P \in SUBSET Packages : ManifestEntries(P) \subseteq ManifestEntries(P)'

LEMMA InstallGrows ==
  ASSUME IndexInv, NEW p \in Packages, InstallResource(p)
  PROVE  IndexInv' /\ Grows
<1>1. CASE \E line \in Lines : Install(p, line)
  <2>1. PICK line \in Lines : Install(p, line)
    BY <1>1
  <2>2. index' \in [Packages -> SUBSET Lines] /\ manifests' = manifests
        /\ index'[p] = index[p] \union {line} /\ \A q \in Packages : q # p => index'[q] = index[q]
    BY <2>1 DEF Install, IndexInv
  <2>3. Entries(Packages)' = Entries(Packages) \union {[package |-> p, line |-> line]}
    BY <2>2 DEF Entries, IndexInv
  <2>4. \A P : ManifestEntries(P)' = ManifestEntries(P)
    BY <2>2 DEF ManifestEntries
  <2>5. IsFiniteSet(Entries(Packages)')
    <3>1. IsFiniteSet(Entries(Packages))
      BY DEF IndexInv
    <3>2. QED
      BY <2>3, <3>1, FS_AddElement
  <2>6. IndexInv'
    BY <2>2, <2>4, <2>5 DEF IndexInv
  <2>7. \A P \in SUBSET Packages : Entries(P) \subseteq Entries(P)'
    BY <2>2 DEF Entries
  <2>8. QED
    BY <2>4, <2>6, <2>7 DEF Grows
<1>2. CASE \E line \in ManifestLines : InstallManifest(p, line)
  <2>1. PICK line \in ManifestLines : InstallManifest(p, line)
    BY <1>2
  <2>2. manifests' \in [Packages -> SUBSET ManifestLines] /\ index' = index
        /\ manifests'[p] = manifests[p] \union {line}
        /\ \A q \in Packages : q # p => manifests'[q] = manifests[q]
    BY <2>1 DEF InstallManifest, IndexInv
  <2>3. ManifestEntries(Packages)' = ManifestEntries(Packages) \union {[package |-> p, line |-> line]}
    BY <2>2 DEF ManifestEntries, IndexInv
  <2>4. \A P : Entries(P)' = Entries(P)
    BY <2>2 DEF Entries
  <2>5. IsFiniteSet(ManifestEntries(Packages)')
    <3>1. IsFiniteSet(ManifestEntries(Packages))
      BY DEF IndexInv
    <3>2. QED
      BY <2>3, <3>1, FS_AddElement
  <2>6. IndexInv'
    BY <2>2, <2>4, <2>5 DEF IndexInv
  <2>7. \A P \in SUBSET Packages : ManifestEntries(P) \subseteq ManifestEntries(P)'
    BY <2>2 DEF ManifestEntries
  <2>8. QED
    BY <2>4, <2>6, <2>7 DEF Grows
<1>3. QED
  BY <1>1, <1>2 DEF InstallResource

LEMMA TreeNotRedirected ==
  ASSUME IndexInv, IndexInv', Grows, NEW text \in Texts, FindTree(text).found
  PROVE  /\ FindTree(text)' \in {FindTree(text), Refused}
         /\ /\ Identity(text).package # NoName
            /\ index'[Identity(text).package] = index[Identity(text).package]
            => FindTree(text)' = FindTree(text)
<1> DEFINE id == WithCategory(Identity(text), TreeCategory)
<1>1. PICK e : Witness(id, e) /\ FindTree(text) = Behavior(id)
  BY FoundNow DEF FoundFacts
<1>2. Identity(text).package = id.package
  BY DEF Identity, WithCategory
<1> HIDE DEF id
<1>3. Searched(id)' = Searched(id) /\ Searched(id) \in SUBSET Packages
  BY SearchedFacts DEF Searched
<1>4. Matches(id) \subseteq Matches(id)'
  BY <1>3 DEF Matches, Grows
<1>5. CASE FindTree(text)'.found
  <2>1. PICK x : Witness(id, x)' /\ FindTree(text)' = Behavior(id)'
    BY <1>5, FoundThen DEF FoundFacts, id
  <2>2. Matches(id) = {e} /\ Matches(id)' = {x}
    BY <1>1, <2>1 DEF Witness
  <2>3. x = e
    BY <1>4, <2>2
  <2>4. QED
    BY <1>1, <2>1, <2>3 DEF Witness, Resource
<1>6. ASSUME ~FindTree(text)'.found PROVE FindTree(text)' = Refused
  <2>1. FindTree(text)'.found \/ FindTree(text)' = Refused
    BY FoundThen DEF FoundFacts, Refused
  <2>2. QED
    BY <1>6, <2>1
<1>7. ASSUME id.package # NoName, index'[id.package] = index[id.package]
      PROVE  FindTree(text)' = FindTree(text)
  <2>1. Searched(id) \subseteq {id.package}
    BY <1>7 DEF Searched
  <2>2. Entries(Searched(id))' = Entries(Searched(id))
    BY <1>3, <1>7, <2>1 DEF Entries
  <2>3. Matches(id)' = Matches(id)
    BY <1>3, <2>2 DEF Matches
  <2>4. Behavior(id)' = Behavior(id)
    BY <1>3, <2>2, <2>3 DEF Behavior
  <2>5. Tree(id)' = Tree(id)
    BY <2>4 DEF Tree
  <2>6. QED
    BY <2>5 DEF FindTree, id
<1>8. QED
  BY <1>2, <1>5, <1>6, <1>7

LEMMA ManifestNotRedirected ==
  ASSUME IndexInv, IndexInv', Grows, NEW text \in ManifestTexts, FindManifest(text).found
  PROVE  /\ FindManifest(text)' \in {FindManifest(text), Refused}
         /\ /\ Identity(text).package # NoName
            /\ manifests'[Identity(text).package] = manifests[Identity(text).package]
            => FindManifest(text)' = FindManifest(text)
<1> DEFINE mid == ManifestIdentity(text)
           readable == {line \in ManifestLines : line.decodes}
<1>1. PICK e : ManifestWitness(mid, readable, e)
  BY FoundNow DEF FoundFacts, FindManifest
<1>2. Identity(text).package = mid.package
  BY DEF ManifestIdentity
<1>3. FindManifest(text) = ManifestIn(mid, readable) /\ FindManifest(text)' = ManifestIn(mid, readable)'
  BY DEF FindManifest
<1>4. /\ ManifestIn(mid, readable)'.found => \E x : ManifestWitness(mid, readable, x)'
      /\ ManifestIn(mid, readable)'.found \/ ManifestIn(mid, readable)' = Refused
  BY FoundThen DEF FoundFacts
<1> HIDE DEF mid, readable
<1>5. Searched(mid)' = Searched(mid) /\ Searched(mid) \in SUBSET Packages
  BY SearchedFacts DEF Searched
<1>6. ManifestMatches(mid) \subseteq ManifestMatches(mid)'
  BY <1>5 DEF ManifestMatches, Grows
<1>7. CASE ManifestIn(mid, readable)'.found
  <2>1. PICK x : ManifestWitness(mid, readable, x)'
    BY <1>4, <1>7
  <2>2. ManifestMatches(mid) = {e} /\ ManifestMatches(mid)' = {x}
    BY <1>1, <2>1 DEF ManifestWitness
  <2>3. x = e
    BY <1>6, <2>2
  <2>4. QED
    BY <1>1, <1>3, <2>1, <2>3 DEF ManifestWitness, Resource
<1>8. ASSUME mid.package # NoName, manifests'[mid.package] = manifests[mid.package]
      PROVE  ManifestIn(mid, readable)' = ManifestIn(mid, readable)
  <2>1. Searched(mid) \subseteq {mid.package}
    BY <1>8 DEF Searched
  <2>2. ManifestEntries(Searched(mid))' = ManifestEntries(Searched(mid))
    BY <1>5, <1>8, <2>1 DEF ManifestEntries
  <2>3. QED
    BY <1>5, <2>2 DEF ManifestIn
<1>9. QED
  BY <1>2, <1>3, <1>4, <1>7, <1>8

LEMMA NextIndexInv == IndexInv /\ [Next]_vars => IndexInv'
<1> SUFFICES ASSUME IndexInv, [Next]_vars PROVE IndexInv'
  OBVIOUS
<1>1. CASE UNCHANGED <<index, manifests>>
  BY <1>1 DEF IndexInv, Entries, ManifestEntries
<1>2. CASE \E p \in Packages : InstallResource(p)
  BY <1>2, InstallGrows
<1>3. QED
  BY <1>1, <1>2, OnlyInstallationsChange

LEMMA InitIndexInv == Init => IndexInv
<1> SUFFICES ASSUME Init PROVE IndexInv
  OBVIOUS
<1>1. index = [p \in Packages |-> {}] /\ manifests = [p \in Packages |-> {}]
  BY DEF Init, IndexInit
<1>2. Entries(Packages) = {} /\ ManifestEntries(Packages) = {}
  BY <1>1 DEF Entries, ManifestEntries
<1>3. QED
  BY <1>1, <1>2, FS_EmptySet DEF IndexInv

(***************************************************************************)
(* behavior.cpp:28-130, behavior.hpp:327-445, tree_resource.cpp:31-258:    *)
(* the unique identity of a resource, printed and read again, finds that   *)
(* resource, whatever packages have installed.                             *)
(***************************************************************************)
THEOREM IdentitiesFindTheirResource == Spec => []PrintedIdentityFindsIt
BY InitIndexInv, NextIndexInv, PrintedFinds, PTL DEF Spec

(***************************************************************************)
(* resources.py against behavior.cpp, tree_resource.cpp and                *)
(* node_manifest_resource.cpp: whatever C++ finds, Python finds the same.  *)
(***************************************************************************)
THEOREM PythonCorrect == Spec => []PythonFindsSame
BY InitIndexInv, NextIndexInv, PythonSame, PTL DEF Spec

(***************************************************************************)
(* No installation makes an identity mean another resource.                *)
(***************************************************************************)
THEOREM InstallationsCorrect == Spec => InstallNeverRedirects
<1>1. ASSUME IndexInv, [Next]_vars, <<index, manifests>>' # <<index, manifests>>
      PROVE  NotRedirected
  <2>1. PICK p \in Packages : InstallResource(p)
    BY <1>1, OnlyInstallationsChange
  <2>2. IndexInv' /\ Grows
    BY <1>1, <2>1, InstallGrows
  <2>3. QED
    BY <1>1, <2>2, TreeNotRedirected, ManifestNotRedirected DEF NotRedirected
<1>2. QED
  BY <1>1, InitIndexInv, NextIndexInv, PTL DEF Spec, InstallNeverRedirects

-----------------------------------------------------------------------------
\* A build handler's memory has its four parts.
IsMemory(m) == m = [trees |-> m.trees, root |-> m.root, values |-> m.values, config |-> m.config]

LEMMA FreshIsMemory == IsMemory(Fresh)
BY DEF IsMemory, Fresh

\* What of a memory is replaced, and that it stays one.
LEMMA MemoryUpdates ==
  ASSUME NEW m, IsMemory(m)
  PROVE  /\ \A t, r : [m EXCEPT !.trees = t, !.root = r] =
                       [trees |-> t, root |-> r, values |-> m.values, config |-> m.config]
         /\ \A r, v : [m EXCEPT !.root = r, !.values = v] =
                       [trees |-> m.trees, root |-> r, values |-> v, config |-> m.config]
         /\ \A v : [m EXCEPT !.values = v] =
                    [trees |-> m.trees, root |-> m.root, values |-> v, config |-> m.config]
         /\ \A c : [m EXCEPT !.config = c] =
                    [trees |-> m.trees, root |-> m.root, values |-> m.values, config |-> c]
<1>1. \E t, r, v, c : /\ m = [trees |-> t, root |-> r, values |-> v, config |-> c]
                      /\ t = m.trees /\ r = m.root /\ v = m.values /\ c = m.config
  BY Zenon DEF IsMemory
<1>2. PICK t, r, v, c : /\ m = [trees |-> t, root |-> r, values |-> v, config |-> c]
                        /\ t = m.trees /\ r = m.root /\ v = m.values /\ c = m.config
  BY <1>1
<1>3. ASSUME NEW x, NEW y
      PROVE  [m EXCEPT !.trees = x, !.root = y] =
               [trees |-> x, root |-> y, values |-> m.values, config |-> m.config]
  <2>1. [m EXCEPT !.trees = x] = [trees |-> x, root |-> r, values |-> v, config |-> c]
    BY <1>2
  <2>2. [[trees |-> x, root |-> r, values |-> v, config |-> c] EXCEPT !.root = y] =
          [trees |-> x, root |-> y, values |-> v, config |-> c]
    OBVIOUS
  <2>3. QED
    BY <1>2, <2>1, <2>2, Zenon
<1>4. ASSUME NEW x, NEW y
      PROVE  [m EXCEPT !.root = x, !.values = y] =
               [trees |-> m.trees, root |-> x, values |-> y, config |-> m.config]
  <2>1. [m EXCEPT !.root = x] = [trees |-> t, root |-> x, values |-> v, config |-> c]
    BY <1>2
  <2>2. [[trees |-> t, root |-> x, values |-> v, config |-> c] EXCEPT !.values = y] =
          [trees |-> t, root |-> x, values |-> y, config |-> c]
    OBVIOUS
  <2>3. QED
    BY <1>2, <2>1, <2>2, Zenon
<1>5. ASSUME NEW x
      PROVE  [m EXCEPT !.values = x] =
               [trees |-> m.trees, root |-> m.root, values |-> x, config |-> m.config]
  BY <1>2
<1>6. ASSUME NEW x
      PROVE  [m EXCEPT !.config = x] =
               [trees |-> m.trees, root |-> m.root, values |-> m.values, config |-> x]
  BY <1>2
<1>7. QED
  BY <1>3, <1>4, <1>5, <1>6, Zenon

\* The trees and the root that a request leaves if it is accepted.
LEMMA WithEntryAsks ==
  ASSUME NEW m, IsMemory(m), NEW trees, NEW root, NEW entry
  PROVE  LET r == WithEntry(m, trees, root, entry)
         IN  /\ IsMemory(r.memory)
             /\ r.ok /\ root \in trees \union {NoTree} =>
                  /\ r.memory.trees = trees
                  /\ r.memory.root = IF entry # NoEntry THEN entry.tree ELSE root
                  /\ r.memory.root \in trees
<1> DEFINE asked == [m EXCEPT !.trees = trees, !.root = root]
           r == WithEntry(m, trees, root, entry)
<1>1. asked = [trees |-> trees, root |-> root, values |-> m.values, config |-> m.config]
  BY MemoryUpdates
<1>2. CASE entry = NoEntry
  <2>1. r = [ok |-> root # NoTree, memory |-> asked]
    BY <1>2 DEF WithEntry
  <2> HIDE DEF r, asked
  <2>2. r.memory = [trees |-> trees, root |-> root, values |-> m.values, config |-> m.config]
        /\ (r.ok => root # NoTree)
    BY <1>1, <2>1
  <2>3. QED
    BY <1>2, <2>2 DEF IsMemory, r
<1>3. CASE entry # NoEntry /\ ~entry.wellFormed
  <2>1. r = [ok |-> FALSE, memory |-> asked]
    BY <1>3 DEF WithEntry
  <2> HIDE DEF r, asked
  <2>2. r.memory = [trees |-> trees, root |-> root, values |-> m.values, config |-> m.config] /\ ~r.ok
    BY <1>1, <2>1
  <2>3. QED
    BY <2>2 DEF IsMemory, r
<1>4. CASE entry # NoEntry /\ entry.wellFormed
  <2>1. r = [ok     |-> entry.tree \in trees,
             memory |-> [asked EXCEPT !.root = IF entry.tree \in trees THEN entry.tree ELSE @,
                                      !.values = entry.values]]
    BY <1>4 DEF WithEntry
  <2>2. [asked EXCEPT !.root = IF entry.tree \in trees THEN entry.tree ELSE @, !.values = entry.values] =
          [trees |-> trees, root |-> IF entry.tree \in trees THEN entry.tree ELSE root,
           values |-> entry.values, config |-> m.config]
    <3> HIDE DEF asked
    <3>1. /\ asked.root = root /\ asked.trees = trees /\ asked.values = m.values
          /\ asked.config = m.config
      BY <1>1
    <3>2. IsMemory(asked)
      BY <1>1, <3>1, Zenon DEF IsMemory
    <3>3. \A x, y : [asked EXCEPT !.root = x, !.values = y] =
                     [trees |-> trees, root |-> x, values |-> y, config |-> m.config]
      <4>1. \A x, y : [asked EXCEPT !.root = x, !.values = y] =
                       [trees |-> asked.trees, root |-> x, values |-> y, config |-> asked.config]
        BY <3>2, MemoryUpdates
      <4>2. QED
        BY <3>1, <4>1
    <3>4. QED
      BY <3>1, <3>3
  <2> HIDE DEF r, asked
  <2>3. /\ r.memory = [trees |-> trees, root |-> IF entry.tree \in trees THEN entry.tree ELSE root,
                       values |-> entry.values, config |-> m.config]
        /\ r.ok => entry.tree \in trees
    BY <2>1, <2>2
  <2>4. QED
    BY <1>4, <2>3 DEF IsMemory, r
<1>5. QED
  BY <1>2, <1>3, <1>4

LEMMA DocumentRootIsTree ==
  ASSUME NEW d \in Documents, d.readable
  PROVE  DocumentRoot(d) \in d.trees \union {NoTree}
<1>1. Cardinality(d.trees) = 1 => (CHOOSE t \in d.trees : TRUE) \in d.trees
  <2>1. Cardinality(d.trees) = 1 => d.trees # {}
    BY FS_EmptySet
  <2>2. QED
    BY <2>1
<1>2. QED
  BY <1>1, BuildAssumption DEF DocumentRoot

Requests == XMLRequests \union IdentityRequests \union ConfigRequests

LEMMA StringAsks ==
  ASSUME NEW m, IsMemory(m), NEW request \in Requests, NEW entry
  PROVE  LET r == StringRequest(m, request, entry)
         IN  /\ IsMemory(r.memory)
             /\ r.ok =>
                  /\ request.kind = "document"
                  /\ r.memory.trees = request.document.trees
                  /\ r.memory.root = IF entry # NoEntry THEN entry.tree ELSE DocumentRoot(request.document)
                  /\ r.memory.root \in r.memory.trees
<1> DEFINE d == Read(request)
           r == StringRequest(m, request, entry)
<1>1. CASE ~d.readable
  <2>1. r = [ok |-> FALSE, memory |-> [Fresh EXCEPT !.values = m.values]]
    BY <1>1 DEF StringRequest
  <2>2. [Fresh EXCEPT !.values = m.values] = [trees |-> {}, root |-> NoTree, values |-> m.values, config |-> NoConfig]
    BY DEF Fresh
  <2> HIDE DEF r
  <2>3. ~r.ok /\ IsMemory(r.memory)
    BY <2>1, <2>2 DEF IsMemory
  <2>4. QED
    BY <2>3 DEF r
<1>2. CASE d.readable /\ ~d.verified
  <2>1. r = [ok |-> FALSE, memory |-> [m EXCEPT !.trees = d.trees, !.root = DocumentRoot(d)]]
    BY <1>2 DEF StringRequest
  <2>2. [m EXCEPT !.trees = d.trees, !.root = DocumentRoot(d)] =
          [trees |-> d.trees, root |-> DocumentRoot(d), values |-> m.values, config |-> m.config]
    BY MemoryUpdates
  <2> HIDE DEF r
  <2>3. QED
    BY <2>1, <2>2 DEF r, IsMemory
<1>3. CASE d.readable /\ d.verified
  <2>1. r = WithEntry(m, d.trees, DocumentRoot(d), entry)
    BY <1>3 DEF StringRequest
  <2>2. request.kind = "document" /\ d = request.document /\ d \in Documents
    <3>1. request.kind = "document"
      BY <1>3 DEF Read, Empty
    <3>2. request \in XMLRequests
      BY <3>1 DEF Requests, IdentityRequests, ConfigRequests
    <3>3. QED
      BY <3>1, <3>2 DEF XMLRequests, Read
  <2>3. DocumentRoot(d) \in d.trees \union {NoTree}
    BY <1>3, <2>2, DocumentRootIsTree
  <2> HIDE DEF d, r
  <2>4. QED
    BY <2>1, <2>2, <2>3, WithEntryAsks DEF r
<1>4. QED
  BY <1>1, <1>2, <1>3

LEMMA FileAsks ==
  ASSUME NEW m, IsMemory(m), NEW request, NEW entry
  PROVE  LET r == FileRequest(m, request, entry)
         IN  /\ IsMemory(r.memory)
             /\ r.ok =>
                  /\ request.kind = "identity"
                  /\ r.memory.trees = FindTree(request.text).line.trees
                  /\ r.memory.root = IF entry # NoEntry THEN entry.tree ELSE FindTree(request.text).line.alias[2]
                  /\ r.memory.root \in r.memory.trees
<1> DEFINE found == IF request.kind = "identity" THEN FindTree(request.text) ELSE Refused
           r == FileRequest(m, request, entry)
<1>1. CASE ~found.found
  <2>1. r = [ok |-> FALSE, memory |-> m]
    BY <1>1 DEF FileRequest
  <2>2. QED
    BY <2>1
<1>2. CASE found.found
  <2>1. r = WithEntry(m, found.line.trees, found.line.alias[2], entry)
    BY <1>2 DEF FileRequest
  <2>2. request.kind = "identity" /\ found = FindTree(request.text)
    BY <1>2 DEF Refused
  <2>3. found.line.alias[2] \in found.line.trees
    BY <1>2, <2>2, FindTreeFound, TreeFound
  <2> HIDE DEF found, r
  <2>4. QED
    BY <2>1, <2>2, <2>3, WithEntryAsks DEF r
<1>3. QED
  BY <1>1, <1>2

LEMMA MissionAsks ==
  ASSUME NEW m, IsMemory(m), NEW h \in MissionHandlers, NEW request
  PROVE  LET r == MissionRequest(h, m, request)
         IN  /\ IsMemory(r.memory)
             /\ r.ok =>
                  /\ r.memory.config = ConfigAsked(request).config
                  /\ ConfigAsked(request).ok
<1> DEFINE created == CreateMissionConfig(h, request)
           r == MissionRequest(h, m, request)
<1>1. r = [ok |-> created.ok, memory |-> IF created.ok THEN [m EXCEPT !.config = created.config] ELSE m]
  BY DEF MissionRequest
<1>2. created.ok => created = ConfigAsked(request)
  BY DEF CreateMissionConfig, ConfigAsked
<1>3. [m EXCEPT !.config = created.config] =
        [trees |-> m.trees, root |-> m.root, values |-> m.values, config |-> created.config]
  BY MemoryUpdates
<1> HIDE DEF created, r
<1>4. QED
  BY <1>1, <1>2, <1>3 DEF IsMemory, r

\* What each build handler makes of a request it accepts.
Obeys(h, r, request, entry) ==
  IF h \in MissionHandlers
  THEN r.memory.config = ConfigAsked(request).config /\ ConfigAsked(request).ok
  ELSE /\ r.memory.trees = TreesAsked(request)
       /\ r.memory.root = RootAsked([request |-> request, entry |-> entry])
       /\ r.memory.root \in r.memory.trees

LEMMA StringsAskTrees ==
  ASSUME NEW request, request.kind = "document", NEW entry
  PROVE  /\ TreesAsked(request) = request.document.trees
         /\ RootAsked([request |-> request, entry |-> entry]) =
              IF entry # NoEntry THEN entry.tree ELSE DocumentRoot(request.document)
BY DEF TreesAsked, RootAsked

LEMMA IdentitiesAskTrees ==
  ASSUME NEW request, request.kind = "identity", NEW entry
  PROVE  /\ TreesAsked(request) = FindTree(request.text).line.trees
         /\ RootAsked([request |-> request, entry |-> entry]) =
              IF entry # NoEntry THEN entry.tree ELSE FindTree(request.text).line.alias[2]
BY DEF TreesAsked, RootAsked

LEMMA HandlersObey ==
  ASSUME NEW m, IsMemory(m), NEW h, NEW request \in Requests, NEW entry
  PROVE  LET r == SetBuildRequest(h, m, request, entry)
         IN  /\ IsMemory(r.memory)
             /\ r.ok /\ h \in Handlers \ {NoHandler} => Obeys(h, r, request, entry)
<1> DEFINE r == SetBuildRequest(h, m, request, entry)
<1>1. CASE h = FromString
  <2>1. r = StringRequest(m, request, entry) /\ h \notin MissionHandlers
    BY <1>1, BuildAssumption DEF SetBuildRequest
  <2> HIDE DEF r
  <2>2. /\ IsMemory(r.memory)
        /\ r.ok =>
             /\ request.kind = "document"
             /\ r.memory.trees = request.document.trees
             /\ r.memory.root = IF entry # NoEntry THEN entry.tree ELSE DocumentRoot(request.document)
             /\ r.memory.root \in r.memory.trees
    BY <2>1, StringAsks
  <2>3. r.ok => Obeys(h, r, request, entry)
    BY <2>1, <2>2, StringsAskTrees DEF Obeys
  <2>4. QED
    BY <2>2, <2>3 DEF r
<1>2. CASE h = FromFile
  <2>1. r = FileRequest(m, request, entry) /\ h \notin MissionHandlers
    BY <1>2, BuildAssumption DEF SetBuildRequest
  <2> HIDE DEF r
  <2>2. QED
    BY <2>1, FileAsks, IdentitiesAskTrees DEF Obeys, r
<1>3. CASE h \in MissionHandlers
  <2>1. r = MissionRequest(h, m, request)
    BY <1>3, BuildAssumption DEF SetBuildRequest
  <2> HIDE DEF r
  <2>2. QED
    BY <1>3, <2>1, MissionAsks DEF Obeys, r
<1>4. CASE h \notin {FromString, FromFile} \union MissionHandlers
  <2>1. r = [ok |-> TRUE, memory |-> m] /\ h \notin Handlers \ {NoHandler}
    BY <1>4 DEF SetBuildRequest, Handlers
  <2> HIDE DEF r
  <2>2. QED
    BY <2>1 DEF r
<1>5. QED
  BY <1>1, <1>2, <1>3, <1>4

TreeInv ==
  /\ IndexInv
  /\ IsMemory(memory)
  /\ handler \in Handlers
  /\ events \in Seq(Handlers)

LEMMA GoalFacts ==
  ASSUME NEW g \in Goals
  PROVE  /\ g = [handler |-> g.handler, request |-> g.request, entry |-> g.entry, manifest |-> g.manifest]
         /\ g.request \in Requests /\ g.handler \in Handlers \union {Unknown, NoTree}
BY DEF Goals, Requests

LEMMA ChosenIsHandler ==
  ASSUME handler \in Handlers, NEW g \in Goals, GoalMayChoose(g)
  PROVE  Chosen(g) \in Handlers
BY GoalFacts DEF GoalMayChoose, Chosen

LEMMA AskedFacts ==
  ASSUME TreeInv, NEW g \in Goals
  PROVE  /\ IsMemory(Asked(g).memory)
         /\ Asked(g).ok /\ Chosen(g) \in Handlers \ {NoHandler} =>
              Obeys(Chosen(g), Asked(g), g.request, g.entry)
<1>1. IsMemory(MemoryAfterLoading(Chosen(g)))
  BY FreshIsMemory DEF TreeInv, MemoryAfterLoading
<1>2. g.request \in Requests
  BY GoalFacts
<1>3. QED
  BY <1>1, <1>2, HandlersObey DEF Asked

LEMMA AfterBuildingIsMemory ==
  ASSUME NEW m, IsMemory(m), NEW h PROVE IsMemory(AfterBuilding(h, m))
<1>1. [Fresh EXCEPT !.values = m.values] = [trees |-> {}, root |-> NoTree, values |-> m.values, config |-> NoConfig]
  BY DEF Fresh
<1>2. IsMemory([Fresh EXCEPT !.values = m.values])
  BY <1>1 DEF IsMemory
<1>3. QED
  BY <1>2 DEF AfterBuilding

LEMMA NextTreeInv == TreeInv /\ [Next]_vars => TreeInv'
<1> SUFFICES ASSUME TreeInv, [Next]_vars PROVE TreeInv'
  OBVIOUS
<1>1. IndexInv'
  BY NextIndexInv DEF TreeInv
<1>2. ASSUME NEW h \in Handlers PROVE IsMemory(MemoryAfterLoading(h))
  BY FreshIsMemory DEF TreeInv, MemoryAfterLoading
<1>3. ASSUME NEW g \in Goals, RejectGoal(g) \/ StartGoal(g) \/ AbortGoal(g)
      PROVE  IsMemory(memory') /\ handler' \in Handlers /\ events' = events
  <2>1. GoalMayChoose(g) => Chosen(g) \in Handlers
    BY ChosenIsHandler DEF TreeInv
  <2>2. IsMemory(Asked(g).memory) /\ IsMemory(AfterBuilding(Chosen(g), Asked(g).memory))
    BY AskedFacts, AfterBuildingIsMemory
  <2>3. CASE RejectGoal(g)
    BY <2>1, <2>2, <2>3, <1>2 DEF RejectGoal, Load, TreeInv
  <2>4. CASE StartGoal(g)
    BY <2>1, <2>2, <2>4 DEF StartGoal, Accepted, Load
  <2>5. CASE AbortGoal(g)
    BY <2>1, <2>2, <2>5 DEF AbortGoal, Accepted, Load
  <2>6. QED
    BY <1>3, <2>3, <2>4, <2>5
<1>4. CASE \E g \in Goals : RejectGoal(g) \/ StartGoal(g) \/ AbortGoal(g)
  BY <1>1, <1>3, <1>4 DEF TreeInv
<1>5. CASE HandleEvent
  <2>1. Head(events) \in Handlers /\ events' \in Seq(Handlers)
    BY <1>5 DEF HandleEvent, TreeInv
  <2>2. IsMemory(memory') /\ handler' \in Handlers
    BY <1>2, <1>5, <2>1 DEF HandleEvent, TreeInv
  <2>3. QED
    BY <1>1, <2>1, <2>2 DEF TreeInv
<1>6. CASE \E h \in Handlers : SetHandlerParameter(h)
  <2>1. events' \in Seq(Handlers)
    BY <1>6 DEF SetHandlerParameter, TreeInv
  <2>2. UNCHANGED <<memory, handler>>
    BY <1>6 DEF SetHandlerParameter
  <2>3. QED
    BY <1>1, <2>1, <2>2 DEF TreeInv
<1>7. CASE UNCHANGED <<memory, handler, events>>
  BY <1>1, <1>7 DEF TreeInv
<1>8. QED
  <2>1. EndExecution \/ UNCHANGED vars => UNCHANGED <<memory, handler, events>>
    BY DEF EndExecution, vars, requestVars
  <2>2. ASSUME NEW b, SetAllowOther(b) PROVE UNCHANGED <<memory, handler, events>>
    BY <2>2 DEF SetAllowOther
  <2>3. ASSUME NEW p, InstallResource(p) PROVE UNCHANGED <<memory, handler, events>>
    BY <2>3 DEF InstallResource, requestVars
  <2>4. QED
    BY <1>4, <1>5, <1>6, <1>7, <2>1, <2>2, <2>3 DEF Next, ExecutorNext

\* A tree that is found is installed.
LEMMA FoundIsInstalled ==
  ASSUME IndexInv, NEW id, Tree(id).found
  PROVE  Tree(id).line \in index[Tree(id).package]
<1>1. Behavior(id).found /\ Tree(id) = Behavior(id)
  BY TreeFound
<1>2. PICK e : Witness(id, e)
  BY <1>1, BehaviorFound
<1>3. e.line \in index[e.package]
  BY <1>2, EntriesFacts DEF Witness
<1>4. QED
  BY <1>1, <1>2, <1>3 DEF Witness, Resource

LEMMA NotEmpty ==
  ASSUME NEW S, NEW f, f = [i \in S |-> f[i]], f # <<>> PROVE S # {}
OBVIOUS

\* A mission that names a tree runs one.
LEMMA MissionNotEmpty ==
  ASSUME NEW request, ConfigAsked(request).ok, ConfigAsked(request).config["MISSION"] # <<>>
  PROVE  TreesNamed(ConfigAsked(request).config)["MISSION"] # <<>>
<1> DEFINE config == ConfigAsked(request).config
<1>1. PICK text : ConfigAsked(request) = DecodeConfig(text)
  BY DEF ConfigAsked, ConfigOfResource
<1>2. config["MISSION"] = Identities(text.groups["MISSION"])
  <2>1. "MISSION" \in Groups
    BY DEF Groups, Lists
  <2>2. QED
    BY <1>1, <2>1 DEF DecodeConfig, NoConfig
<1>3. DOMAIN config["MISSION"] # {}
  <2> DEFINE f == Identities(text.groups["MISSION"])
             S == DOMAIN text.groups["MISSION"].items
  <2>1. f = [i \in S |-> f[i]] /\ DOMAIN f = S
    BY DEF Identities
  <2>2. f # <<>>
    BY <1>2
  <2> HIDE DEF f, S
  <2>3. S # {}
    BY <2>1, <2>2, NotEmpty
  <2>4. QED
    BY <1>2, <2>1, <2>3 DEF f
<1>4. DOMAIN (TreesNamed(config)["MISSION"]) = DOMAIN config["MISSION"]
  BY DEF TreesNamed, Groups, Lists
<1>5. QED
  BY <1>3, <1>4

\* A goal that is accepted starts the tree that it asks for.
LEMMA StartsItsRequest ==
  ASSUME TreeInv, NEW g \in Goals, StartGoal(g)
  PROVE  OfRequest
<1> DEFINE h == Chosen(g)
           m == Asked(g).memory
<1>1. h \in Handlers \ {NoHandler} /\ Asked(g).ok
  BY ChosenIsHandler DEF StartGoal, Accepted, TreeInv
<1>2. Obeys(h, Asked(g), g.request, g.entry)
  BY <1>1, AskedFacts
<1>3. /\ goal'.handler = h /\ goal'.request = g.request /\ goal'.entry = g.entry
      /\ tree' = Built(h, m)
  BY GoalFacts DEF StartGoal
<1> HIDE DEF h
<1>4. CASE h \in MissionHandlers
  <2>1. tree'.mission = TreesNamed(m.config) /\ m.config = ConfigAsked(g.request).config
    BY <1>2, <1>3, <1>4 DEF Built, Obeys
  <2>2. Buildable(m.config)
    BY <1>4 DEF StartGoal, h
  <2>3. ASSUME NEW key \in Groups, NEW i \in DOMAIN tree'.mission[key], NEW j \in DOMAIN tree'.mission[key][i]
        PROVE  tree'.mission[key][i][j].line \in index[tree'.mission[key][i][j].package]
    <3> DEFINE id == m.config[key][i][j]
    <3>1. i \in DOMAIN m.config[key] /\ j \in DOMAIN m.config[key][i] /\ tree'.mission[key][i][j] = Tree(id)
      BY <2>1, <2>3 DEF TreesNamed
    <3>2. Tree(id).found
      BY <2>2, <3>1 DEF Buildable
    <3>3. QED
      BY <3>1, <3>2, FoundIsInstalled DEF TreeInv
  <2>4. tree'.mission["MISSION"] # <<>>
    <3>1. ConfigAsked(g.request).ok
      BY <1>2, <1>4 DEF Obeys
    <3>2. m.config["MISSION"] # <<>>
      BY <2>2 DEF Buildable
    <3>3. QED
      BY <2>1, <3>1, <3>2, MissionNotEmpty
  <2>5. tree'.mission = TreesNamed(ConfigAsked(goal'.request).config)
    BY <1>3, <2>1
  <2>6. QED
    BY <1>3, <1>4, <2>3, <2>4, <2>5 DEF OfRequest
<1>5. CASE h \notin MissionHandlers
  <2>1. tree'.trees = m.trees /\ tree'.root = m.root
    BY <1>3, <1>5 DEF Built
  <2>2. RootAsked(goal') = RootAsked([request |-> g.request, entry |-> g.entry])
    BY <1>3 DEF RootAsked
  <2>3. QED
    BY <1>2, <1>3, <1>5, <2>1, <2>2 DEF OfRequest, Obeys
<1>6. QED
  BY <1>4, <1>5

(***************************************************************************)
(* executor_node.cpp:86-110, tree_from_string.cpp:38-92,                   *)
(* tree_from_resource.cpp:40-95, mission/src/build_handler: a tree that is *)
(* started is that of its own goal's request, whatever was asked, refused  *)
(* or left unbuilt before, and the trees of a mission are all installed.   *)
(***************************************************************************)
THEOREM RequestCorrect == Spec => TreeOfRequest
<1>1. Init => TreeInv
  <2>1. ASSUME Init PROVE handler \in Handlers /\ events \in Seq(Handlers) /\ IsMemory(memory)
    BY <2>1, FreshIsMemory DEF Init
  <2>2. QED
    BY <2>1, InitIndexInv DEF TreeInv
<1>2. ASSUME TreeInv, [Next]_vars, tree' \notin {tree, NoTree} PROVE OfRequest
  <2>1. ASSUME NEW g, RejectGoal(g) \/ AbortGoal(g) PROVE tree' = tree
    BY <2>1 DEF RejectGoal, AbortGoal
  <2>2. ASSUME NEW h, SetHandlerParameter(h) \/ SetAllowOther(h) PROVE tree' = tree
    BY <2>2 DEF SetHandlerParameter, SetAllowOther
  <2>3. EndExecution \/ HandleEvent \/ UNCHANGED vars => tree' \in {tree, NoTree}
    BY DEF EndExecution, HandleEvent, vars, requestVars
  <2>4. ASSUME NEW p, InstallResource(p) PROVE tree' = tree
    BY <2>4 DEF InstallResource, requestVars
  <2>5. \E g \in Goals : StartGoal(g)
    BY <1>2, <2>1, <2>2, <2>3, <2>4 DEF Next, ExecutorNext
  <2>6. QED
    BY <1>2, <2>5, StartsItsRequest
<1>3. QED
  BY <1>1, <1>2, NextTreeInv, PTL DEF Spec, TreeOfRequest

=============================================================================
