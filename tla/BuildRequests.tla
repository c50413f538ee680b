--------------------------- MODULE BuildRequests ---------------------------
(***************************************************************************)
(* How an executor gets its tree: the build handler in use, which goals    *)
(* and the parameter build_handler choose; the handlers TreeFromString,    *)
(* TreeFromResource, MissionFromString and MissionFromResource, which      *)
(* check a request and remember it; and the tree constructor, which has    *)
(* the handler build what it remembers.                                    *)
(*                                                                         *)
(* A document is the set of its trees and its root; an entry point is a    *)
(* tree and the blackboard values to start it with.                        *)
(***************************************************************************)
EXTENDS MissionConfig

CONSTANTS
  NoHandler,   \* PARAM_VALUE_NO_BUILD_HANDLER
  FromString,  \* TreeFromStringBuildHandler
  FromFile,    \* TreeFromResourceBuildHandler
  MissionFromString, \* MissionFromStringBuildHandler
  MissionFromFile,   \* MissionFromResourceBuildHandler
  Orchestrator,      \* the root of every mission
  Unknown,     \* a class that no package provides
  Documents,   \* the documents users send: [readable, verified, trees, root]
  GoalTexts,   \* the identities goals name
  EntryPoints, \* the entry points users send: [wellFormed, tree, values]
  NoTree,      \* no root, no entry point, no tree built
  Deployments, \* bound of the model: the indexes an executor works with, without node manifests
  MaxEvents    \* bound of the model: parameter events on their way

MissionHandlers == {MissionFromString, MissionFromFile}
Handlers == {NoHandler, FromString, FromFile} \union MissionHandlers

\* A document that can be read has the root tree that it names.
ASSUME BuildAssumption ==
  /\ NoHandler \notin {FromString, FromFile} \union MissionHandlers
  /\ FromString # FromFile /\ MissionHandlers \cap {FromString, FromFile} = {}
  /\ \A d \in Documents : d.readable => d.root \in d.trees \union {NoTree}

VARIABLES
  handler,    \* current_build_handler_name_
  memory,     \* what the handler remembers: working_doc_ and entry_point_, or mission_config_
  allowOther, \* the parameter allow_other_build_handlers
  param,      \* the parameter build_handler
  events,     \* parameter events of build_handler that are not handled yet
  tree,       \* the tree that is executed, with its root, initial values and mission
  goal,       \* the goal it was started for (history)
  named,      \* the handler a goal loaded last (history)
  alive       \* FALSE once an exception left the parameter event callback

requestVars == <<handler, memory, allowOther, param, events, tree, goal, named, alive>>
vars == <<requestVars, index, manifests>>

Empty == [readable |-> TRUE, verified |-> TRUE, trees |-> {}, root |-> NoTree]

\* A new instance of a build handler.
Fresh == [trees |-> {}, root |-> NoTree, values |-> {}, config |-> NoConfig]

\* isBusy()
Busy == tree # NoTree

\* What a goal asks to build: a document, the text of a mission, or the identity of
\* a tree or of a mission.
XMLRequests == {[kind |-> "document", document |-> d] : d \in Documents}
IdentityRequests == {[kind |-> "identity", text |-> t] : t \in GoalTexts}
ConfigRequests == {[kind |-> "config", config |-> c] : c \in ConfigTexts}
NoEntry == [wellFormed |-> TRUE, tree |-> NoTree, values |-> {}]

Goals == [handler : Handlers \union {Unknown, NoTree}, request : XMLRequests \union IdentityRequests \union ConfigRequests,
          entry : EntryPoints \union {NoEntry}, manifest : BOOLEAN]

------------------------------------------------------------------------
(* setBuildRequest() of the two handlers: what is remembered afterwards    *)
(* and whether the request is accepted.                                    *)

\* The rest of a request, once a document with these trees is in place: root is
\* the root tree without an entry point.
WithEntry(m, trees, root, entry) ==
  LET asked == [m EXCEPT !.trees = trees, !.root = root]
  IN  IF entry = NoEntry
      THEN [ok |-> root # NoTree, memory |-> asked]
      ELSE IF ~entry.wellFormed
      THEN [ok |-> FALSE, memory |-> asked]
      ELSE [ok     |-> entry.tree \in trees,
            memory |-> [asked EXCEPT !.root = IF entry.tree \in trees THEN entry.tree ELSE @,
                                     !.values = entry.values]]

\* mergeString() with the root adopted, which is the only tree if there is one.
DocumentRoot(d) ==
  IF d.root # NoTree THEN d.root
  ELSE IF Cardinality(d.trees) = 1 THEN CHOOSE t \in d.trees : TRUE ELSE NoTree

Read(request) == IF request.kind = "document" THEN request.document ELSE [Empty EXCEPT !.readable = FALSE]

\* Mutant: the document is not reset first.
StringRequestOnTop(m, request, entry) ==
  LET d == Read(request)
  IN  IF ~d.readable \/ ~d.verified
      THEN [ok |-> FALSE, memory |-> m]
      ELSE WithEntry(m, m.trees \union d.trees, DocumentRoot(d), entry)

StringRequest(m, request, entry) ==
  LET d == Read(request)
  IN  IF ~d.readable
      THEN [ok |-> FALSE, memory |-> [Fresh EXCEPT !.values = m.values]]
      ELSE IF ~d.verified
      THEN [ok |-> FALSE, memory |-> [m EXCEPT !.trees = d.trees, !.root = DocumentRoot(d)]]
      ELSE WithEntry(m, d.trees, DocumentRoot(d), entry)

\* The identity is resolved before the document is reset.
FileRequest(m, request, entry) ==
  LET found == IF request.kind = "identity" THEN FindTree(request.text) ELSE Refused
  IN  IF ~found.found
      THEN [ok |-> FALSE, memory |-> m]
      ELSE WithEntry(m, found.line.trees, found.line.alias[2], entry)

\* createMissionConfig() of the two handlers of missions.
CreateMissionConfig(h, request) ==
  CASE h = MissionFromString /\ request.kind = "config"  -> DecodeConfig(request.config)
    [] h = MissionFromFile /\ request.kind = "identity" -> ConfigOfResource(request.text)
    [] OTHER -> [ok |-> FALSE, config |-> NoConfig]

\* setBuildRequest() of the handlers of missions: the configuration replaces the
\* one remembered, the entry point and the node manifest are ignored.  It completes
\* tree names that are missing, but no identity without one gets this far.
MissionRequest(h, m, request) ==
  LET created == CreateMissionConfig(h, request)
  IN  [ok |-> created.ok, memory |-> IF created.ok THEN [m EXCEPT !.config = created.config] ELSE m]

SetBuildRequest(h, m, request, entry) ==
  CASE h = FromString -> StringRequest(m, request, entry)
    [] h = FromFile   -> FileRequest(m, request, entry)
    [] h \in MissionHandlers -> MissionRequest(h, m, request)
    [] OTHER          -> [ok |-> TRUE, memory |-> m]

------------------------------------------------------------------------
Init ==
  /\ IndexInit
  /\ param \in Handlers
  /\ handler = param
  /\ memory = Fresh
  /\ allowOther \in BOOLEAN
  /\ events = <<>>
  /\ tree = NoTree
  /\ goal = NoTree
  /\ named = param
  /\ alive = TRUE

\* loadBuildHandler() does nothing, throws, or starts with a new instance.
MayLoad == handler = NoHandler \/ allowOther

MemoryAfterLoading(h) == IF h = handler THEN memory ELSE Fresh

\* The handler that getTreeConstructorFromGoal() asks, if it gets that far.
Chosen(g) == IF g.handler = NoTree THEN handler ELSE g.handler

GoalMayChoose(g) ==
  \/ g.handler = NoTree
  \/ allowOther /\ g.handler # Unknown
  \/ ~allowOther /\ g.handler = handler

\* The goal handler: the handler is loaded, the node manifest decoded and the
\* handler asked, in this order.
Asked(g) == SetBuildRequest(Chosen(g), MemoryAfterLoading(Chosen(g)), g.request, g.entry)

Load(h) ==
  /\ handler' = h
  /\ named' = IF h = handler THEN named ELSE h

\* A goal that is refused may have changed the handler and what it remembers.
RejectGoal(g) ==
  /\ IF Busy \/ ~GoalMayChoose(g)
     THEN UNCHANGED <<handler, named, memory>>
     ELSE /\ Load(Chosen(g))
          /\ IF g.manifest
             THEN LET asked == Asked(g) IN ~asked.ok /\ memory' = asked.memory
             ELSE memory' = MemoryAfterLoading(Chosen(g))
  /\ UNCHANGED <<allowOther, param, events, tree, goal, alive, index, manifests>>

Accepted(g) == ~Busy /\ GoalMayChoose(g) /\ g.manifest /\ Asked(g).ok

\* buildTree(): the document moves to the builder and its root is instantiated
\* on a blackboard with the values.  The trees of a mission are inserted below the
\* orchestrator, and its configuration stays.
Built(h, m) ==
  IF h \in MissionHandlers
  THEN [trees |-> {Orchestrator}, root |-> Orchestrator, values |-> {}, mission |-> TreesNamed(m.config)]
  ELSE [trees |-> m.trees, root |-> m.root, values |-> m.values, mission |-> NoConfig]

AfterBuilding(h, m) == IF h \in MissionHandlers THEN m ELSE [Fresh EXCEPT !.values = m.values]

\* A goal that is accepted is started in the same callback.  Without a handler
\* nothing tells the root tree, and the goal is aborted, as that of a mission with
\* a tree that is not installed or with several trees where one fits.
StartGoal(g) ==
  /\ Accepted(g)
  /\ Chosen(g) # NoHandler
  /\ Chosen(g) \in MissionHandlers => Buildable(Asked(g).memory.config)
  /\ Load(Chosen(g))
  /\ memory' = AfterBuilding(Chosen(g), Asked(g).memory)
  /\ tree' = Built(Chosen(g), Asked(g).memory)
  /\ goal' = [g EXCEPT !.handler = Chosen(g)]
  /\ UNCHANGED <<allowOther, param, events, alive, index, manifests>>

\* The tree cannot be built or started: buildTree() may have run or not.
AbortGoal(g) ==
  /\ Accepted(g)
  /\ Load(Chosen(g))
  /\ \/ memory' = Asked(g).memory
     \/ Chosen(g) # NoHandler /\ memory' = AfterBuilding(Chosen(g), Asked(g).memory)
  /\ UNCHANGED <<allowOther, param, events, tree, goal, alive, index, manifests>>

EndExecution ==
  /\ Busy
  /\ tree' = NoTree
  /\ goal' = NoTree
  /\ UNCHANGED <<handler, memory, allowOther, param, events, named, alive, index, manifests>>

------------------------------------------------------------------------
(* Parameters.                                                             *)

\* on_set_parameters_callback_() accepts a handler that exists, while idle.
SetHandlerParameter(h) ==
  /\ ~Busy
  /\ allowOther
  /\ Len(events) < MaxEvents
  /\ param' = h
  /\ events' = Append(events, h)
  /\ UNCHANGED <<handler, memory, allowOther, tree, goal, named, alive, index, manifests>>

SetAllowOther(b) ==
  /\ ~Busy
  /\ b # allowOther
  /\ allowOther' = b
  /\ UNCHANGED <<handler, memory, param, events, tree, goal, named, alive, index, manifests>>

\* Mutant: the event is ignored while a tree is executed.
HandleEventWhenIdle ==
  /\ events # <<>>
  /\ events' = Tail(events)
  /\ IF MayLoad /\ ~Busy
     THEN /\ handler' = Head(events)
          /\ memory' = MemoryAfterLoading(Head(events))
     ELSE UNCHANGED <<handler, memory>>
  /\ UNCHANGED <<allowOther, param, tree, goal, named, alive, index, manifests>>

\* parameter_event_callback_() loads the handler, at any time.
HandleEvent ==
  /\ events # <<>>
  /\ events' = Tail(events)
  /\ IF MayLoad
     THEN /\ handler' = Head(events)
          /\ memory' = MemoryAfterLoading(Head(events))
          /\ alive' = alive
     ELSE alive' = FALSE /\ UNCHANGED <<handler, memory>>
  /\ UNCHANGED <<allowOther, param, tree, goal, named, index, manifests>>

\* Bound of the model: packages are installed before the executor is used.
InstallResource(p) ==
  /\ handler = param /\ named = param /\ memory = Fresh /\ events = <<>> /\ ~Busy
  /\ \/ \E line \in Lines : Install(p, line)
     \/ \E line \in ManifestLines : InstallManifest(p, line)
  /\ UNCHANGED requestVars

ExecutorNext ==
  \/ \E g \in Goals : RejectGoal(g) \/ StartGoal(g) \/ AbortGoal(g)
  \/ EndExecution
  \/ \E h \in Handlers : SetHandlerParameter(h)
  \/ \E b \in BOOLEAN : SetAllowOther(b)
  \/ HandleEvent

Next ==
  /\ alive
  /\ \/ index \in Deployments /\ ManifestEntries(Packages) = {} /\ ExecutorNext
     \/ \E p \in Packages : InstallResource(p)

Spec == Init /\ [][Next]_vars

------------------------------------------------------------------------
(* Properties.                                                             *)

TreesAsked(request) ==
  IF request.kind = "document" THEN request.document.trees ELSE FindTree(request.text).line.trees

RootAsked(g) ==
  IF g.entry # NoEntry THEN g.entry.tree
  ELSE IF g.request.kind = "document" THEN DocumentRoot(g.request.document)
  ELSE FindTree(g.request.text).line.alias[2]

ConfigAsked(request) ==
  IF request.kind = "config" THEN DecodeConfig(request.config) ELSE ConfigOfResource(request.text)

\* The tree is the one the goal asks for.  The trees of a mission are those its
\* configuration names, each at its place and each installed.
OfRequest ==
  IF goal'.handler \in MissionHandlers
  THEN /\ tree'.mission = TreesNamed(ConfigAsked(goal'.request).config)
       /\ \A key \in Groups : \A i \in DOMAIN tree'.mission[key] :
            \A j \in DOMAIN tree'.mission[key][i] :
              tree'.mission[key][i][j].line \in index[tree'.mission[key][i][j].package]
       /\ tree'.mission["MISSION"] # <<>>
  ELSE /\ tree'.trees = TreesAsked(goal'.request)
       /\ tree'.root = RootAsked(goal')
       /\ tree'.root \in tree'.trees

\* A tree that is started is that of its own goal's request, whatever was asked,
\* refused or left unbuilt before: it consists of the trees and starts at the root
\* that goal asks for ("The document MUST have a root tree. We made sure of that
\* during setBuildRequest", tree_from_string.cpp:90), and a mission runs the
\* trees its own configuration names.
TreeOfRequest == [][tree' \notin {tree, NoTree} => OfRequest]_vars

\* Once the parameter events are handled, the build handler is the one the
\* parameter shows or the last one a goal named: no accepted change is lost.
HandlerIsExplained == alive /\ events = <<>> => handler \in {param, named}
============================================================================
