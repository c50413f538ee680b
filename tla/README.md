# A verification project for AutoAPMS

AutoAPMS builds behavior trees from documents and plugins, executes them as
ROS 2 nodes, lets their nodes talk to servers and topics, and offers skills and
missions on top.  This directory holds TLA+ models of the parts of it that keep
state and react to events or that combine what several files say, the TLC runs
that check them on small instances, and proofs of the most important invariants
for every instance.

## The system

| Part | State it keeps | Operations | Interacts with |
|---|---|---|---|
| Execution routine, `TreeExecutorBase` | timer, tree, control command, stopped flag, promise | `startExecution`, `setControlCommand`, timer callback | the hooks of its subclasses, the tree it ticks |
| Trigger action, `ActionBasedTreeExecutorNode`, `TreeExecutorNode` | goal context, pending tree constructors | goal, cancel and accept handlers, `onTermination` | starts the routine, is called back when it ends; its callers are the node `StartExecutor` and `scripting.py` |
| Command action, `GenericTreeExecutorNode` | command timer | goal, cancel and accept handlers, timer callback | sets the control command, polls the execution state |
| Parameter synchronization, `GenericTreeExecutorNode` | parameters, global blackboard, cache of translated entries, scripting enums | set and event callbacks, `afterTick`, clearing | the tree writes the blackboard; its parameter nodes and clients use the parameter services; events come back later |
| Build handlers | current handler and its name, pending build request | load, `setBuildRequest`, `buildTree` | the parameter `build_handler`, the goal's fields, the resources |
| `RosActionNode` | status, future and handle of the goal, flags set by callbacks | `tick`, `halt`, `cancelGoal`, callbacks | an action client, and through it a server |
| `RosServiceNode` | status, pending request, response | `tick`, `halt`, callback | a service client shared by name |
| `RosSubscriberNode`, `RosPublisherNode` | last message, shared subscription or publisher | `tick`, callback, creation | the registry of shared entities |
| `TreeDocument` | XML tree, node manifest, behavior tree factory | merge, include, insert, assign, create, remove, register nodes | files, tree resources, manifests |
| Node manifests, `create_node_manifest`, `create_node_model` | maps of registration options; local manifests of a build | decode, merge, inherit, write models | the build of packages; the factory; Python programs |
| `RosNodeContext`, registration | ports list, `NodeConfig` | modify ports, copy aliases, resolve topic names | the factory, the node templates |
| Resources and identities | the ament index | find, print, list, in C++ and Python | everything that names a behavior, tree or manifest |
| `ActionWrapper`, `ActionClientWrapper` | context and timer; handle and promise | goal handlers, timer; send and cancel | a skill server and its clients |
| Mission orchestrator | `event_id`, `is_emergency`, `contingency_inactive` | one tick of its tree | monitors and handlers |

All callbacks of an executor node run in one mutually exclusive callback group,
so a callback is atomic; the interleaving of callbacks is not restricted.  The
callbacks of tree nodes run in an executor of their own, spun before each tick
and inside `cancelGoal()`.

### What is hard, and what makes each part correct

- *Routine*: the execution state is inferred from the root status and one flag,
  so commands that arrive early, late or twice lead to states nobody named.  The
  future must be resolved exactly once, in the step that ends the execution.
- *Actions*: goals, cancellations, commands and the end of the tree race.  Each
  accepted goal must be answered, by its own execution, with its result, and
  all its callers must read that result alike.
- *Synchronization*: a parameter is checked now and applied later; the tree
  writes meanwhile, and types are converted by their texts.  The cache must tell
  what the parameters hold, and what a node has found must stay.
- *Build handlers*: a goal, a parameter and its event choose the handler; a
  request is checked by one call and built by another.
- *Action node*: three services whose answers overtake each other, timeouts that
  orphan goals, callbacks that run while a method waits.
- *Service and subscriber nodes*: late responses, entities shared by name.
- *Manifests and construction*: aliases, defaults, hidden ports and parents are
  applied in four places, by two programs and at two times.  What an editor or
  a Python program is shown must be what the implementation reads.
- *Documents*: every operation may throw half way, and includes share files.
- *Resources*: the same short name may mean several things, and C++ and Python
  resolve it on their own.
- *Skills*: goals, results and timeouts of several clients cross.
- *Mission*: events change while handlers are being halted.

`PROJECT.json` lists the hazards at their lines, with the properties that would
catch each, or the reason why none does.

## Modules

### Executor

`ExecutionLifecycle` is the abstract specification of an execution: the state
that is reported and the future's result, nothing else.

`ExecutionRoutine` is `executor_base.cpp`.  `tree` is `tree_ptr_` seen through
the status of its root, `stopped` is `execution_stopped_`, `command`,
`reason`, `promise` and `timer` are the members of that meaning, and
`initialTicks` is a history variable.  One action stands for one call:
`StartSucceeds`, `StartFailsToBuild`, `StartFailsToPublish` are the outcomes of
`startExecution`, `SetControlCommand` is the setter, and the timer callback is
split along the switch over the control command (`PauseTick`, `HaltTick`,
`TerminateTick`, `AbortTick` and `TreeTick`, the last two for RUN).  The hooks
return any value of the constants `OnInitialTick`, `OnTick`, `AfterTick` and
`OnTreeExit`.  It implements `ExecutionLifecycle` under the refinement
`state <- GetExecutionState, outcome <- promise`.

`TreeExecutorNode` extends the routine with the two action servers.
`AcceptTrigger` is the goal handler and the accept handler, which
`rclcpp_action` calls in one callback; `ExecutionTimer` composes the timer
callback with `onTermination`; `CommandTimer` is the callback of the command
timer.  Goals are identifiers; the contents of a goal are what the handlers
branch on (`attach`, the kind of command).  `StartExecutorReturns` and
`CallReturns` are what the tree node `StartExecutor` and the scripting client
make of the end of a goal.

`ParameterConversion` is `util/parameter.cpp`: a value is its type and its text,
and a conversion to another type goes by the text, since that is what the code
does; what is printed of some types (bytes) is not read again.  `ParameterSync`
is the synchronization: `param`, `blackboard` and `cache` are the three copies
of an entry, `events` the parameter events on their way; an execution is `busy`
and what its ticks write.  `enumParam` is the parameter of a scripting enum and
`enum` the int it is cast to, which wraps beyond `IntLimit`.  Every override is
declared when the node is created; the constructor applies them in the order of
their names and stops at the first that it cannot convert, so `ignored` are the
keys, and `enumIgnored` tells whether the enum is one, that are declared but
applied nowhere until somebody sets them.  A refusal that reads a missing
entry, and an inferred parameter that is refused, may end the process (`ended`).
`ParameterNodes` puts SetParameter, GetParameter and HasParameter into the tree:
they use the services of the executor's own node, so services, events and ticks
interleave; `found` is a history variable.

`Resources` holds the index of behaviors and node manifests and the operators
that look into it, once as the C++ classes do and once as `resources.py` does.
`MissionConfig` is how the YAML of a mission is decoded, group by group, and
which trees it names.  `BuildRequests` extends both with the build handler in use
(`handler`, `param`, `events`), what the handlers for strings, resources and
missions remember (`memory`) and the tree that is built of it; installing a package is an action of its own,
because an executor outlives installations.

### Tree nodes

`RosActionNode` is one action node, its client and its server.  `pc` is where
`cancelGoal()` waits, since callbacks run there.  The environment's liberty is
chosen in the initial state, among the constant `Environments`: whether answers
are timely and in order, and cancel requests honoured.  The server steps
(`Decide`, `End`, `AnswerCancel`) are external code, modelled from its use.
`halting` tells whether `halt()` or a tick called `cancelGoal()`: a tick returns
what `on_feedback_state_change_` is afterwards, so feedback that arrives while
it waits may make it RUNNING again, without a goal.  A
null handle given to `async_get_result()` is undefined behaviour: the step may
throw or crash.

`RosServiceNode` and `RosSubscriberNode` hold the state and the actions of
these nodes; `TreeNodes` composes them over the lives of trees: construction,
a start that fails once the tree is owned, replacement and termination, which is
also what an exception thrown by a node leads to.  A service node numbers its
requests; `pending` is what its client knows, `response` the request that
`response_` answers.  A subscriber node object is a name and a generation, since
a new tree is built before the former one is destroyed; `callbacks` and
`topicMsg` are the shared subscription of a topic, which the registry of weak
pointers keeps as long as some node holds it.  A derived constructor may
subscribe to another topic after the base class has (`Resubscribes`): its first
callback stays with the instance it no longer holds, as far as others hold that
(`Leaving`), and outlives the node (`dangling`).  A message to such a callback is
undefined behaviour: `corrupted` records it, and the model stops there.

### Manifests, documents, construction

`NodeManifest` is what a manifest holds, how YAML is decoded on top of a parent
and how manifests are merged (`Over(f, g)` has the entries of `f` and those of
`g` it does not replace); a loop over a `std::map` that throws has handled
the names before the one it failed for, so results carry what is left behind.
`NodePorts` is what registration does to a class's ports list, and the node
model that is shown.  `ManifestBuild` is the build of a package: the entry of a
node in its manifest, parents looked up among local and installed manifests, the
model file, and how C++ and Python read it.  `NodeConstruction` follows one node
through these steps to the `NodeConfig` its implementation reads and to its topic
name; `NodeClients` goes on to the client or publisher it works with, which the
base constructor, a derived one or a later tick may create.

`NodeRegistry` is what a document knows of its nodes, manifest and factory side
by side.  `TreeDocument` has documents, files and the operations on them as
operators from a document to a result; `WorkDocs[S][f]` is what comes of file
`f` while those of `S` are being read, so a circular include is one of `S`
again. `DocumentEditing` applies the operations in any order to one document,
and an exception is an ordinary step after which the caller goes on.  A
namespace that makes a name of one that is taken throws between the manifest and
the builders of the factory; `parted` records it.  A tree is the list of its
elements with their depth, the tree they refer to, their inline options and the
value of one port.

### Skills and missions

`ActionWrapper` is the server of a skill: `context` and `timer` are shared by all
goals, `writers` tells whose work has written the result.  `ActionClientWrapper`
extends it with clients whose calls block, give up and leave things behind.

`Mission` is the orchestrator: `Tick` first asks the monitors and then serves one
of the three branches of the reactive fallback.  The trees of the mission, the
monitors and the handlers are the user's and return what they like; the control
nodes are BehaviorTree.CPP's and only appear by what they do to the branches.

`MC*.tla` give constants their values; `*Proofs.tla` hold the theorems.

## Runs

| Run | Instance | Shows |
|---|---|---|
| `node` | two trigger and two command goals, all commands, all values of the hooks, direct starts | goals, context, timer and outcomes agree; the routine implements its lifecycle; cancellations and commands are answered |
| `node_pause` | PAUSE only | finding: an accepted PAUSE is never answered |
| `action` | three goals, the best and the worst environment | the node completes, no dead handle; in good order an activation ends with its goal and takes its own result |
| `sync` | one key, an integer, a string and bytes that share texts, an enum, two events in flight, the three parameter nodes, clearing | cache and parameters agree, whichever overrides the constructor applied, the tree uses the enum that was set, both sides settle, what was found stays |
| `sync_types` | entries of type uint8 | finding: a parameter inferred from a legal entry is refused, which the executor declares impossible |
| `tree_nodes` | three subscribers (the name read from the blackboard, given by a derived constructor, and given twice), two topics, two messages, two requests | callbacks are the holders and those a class that subscribes twice left behind, the last message is seen once, responses belong to requests unless one was halted, service nodes complete |
| `service_halt` | one service node, two requests | finding: the response of a halted request completes the next activation |
| `construction` | three classes, every alias map (also to a port of the class) and defaults for up to two ports, parents that are new, rebuilt, ambiguous or missing, topics with and without placeholder | models are true in both languages, a parent's ports stay hidden, a client is the one the ports name when it is created |
| `documents` | six files that include each other in whole, in part, twice and in a circle; any two operations | manifest and factory agree but for a namespace that clashes, nothing known changes, failures only add, no dangling reference, includes commute |
| `building` | two packages, seven kinds of lines, twelve identities, five mission configurations, goals and parameter events | the handler is explained by a parameter or a goal, a tree is that of its request, identities are stable and mean the same in both languages |
| `skill` | two clients, one with two goals | a goal ends with its own result, a client that waits holds its last goal, promises are kept |
| `mission` | four events: emergency only, both groups, two contingencies | branches never overlap, an emergency stands, emergencies are noticed and the mission resumes |

### Bounds

- *`node`.*  Two goals per action let one meet what another left behind:
  context, control command and timer hold one goal each, and each goal is used
  once, so a third adds no new pair.  `initialTicks` stops at 2 since only
  "once" and "more than once" matter.
- *`action`.*  `MaxGoals` = 3 lets the result of the first arrive during the
  third.
- *`sync`.*  One key is enough because keys only meet in the constructor, which
  leaves an override out for another one, and `SyncInit` has every such choice
  even without the other (`NameOrder` is for the proofs and larger instances); the
  text "1" is read as integer and string, so an entry may change its type and
  keep its text, and "5000000000" fits no `int`; `Texts` are the only texts there
  are, and of bytes none is read again.  `MCEnums` is a number that wraps beyond
  `IntLimit` = 4; left out as an override it stands for one that is no number too.  `MaxEvents` = 2 lets one event
  be overtaken.  One request of a parameter node is under way at a time, as in
  a sequence.
- *`tree_nodes`.*  The former and the next tree are the only two that exist
  together; two messages distinguish the last from an older one, and reach a node that
  left its callback behind; two requests
  let the response of one meet the other, and `ResponsesCorrect` covers longer
  chains.
- *`construction`.*  Alias maps, defaults and attributes for up to two of four
  names cover every pair of names that meet in one loop.  One placeholder per
  topic: with more, the loop of `getTopicName()` replaces inside the string its
  regex iterator points into; `TopicNames` leaves the result open.
- *`documents`.*  `MaxSteps` = 2: one operation to leave something behind and one
  that meets it.  Assigning an element copies the first element of a tree over a
  leaf.
- *`building`.*  `MaxInstalled` = 3 lines make an identity unique, ambiguous
  within a package and ambiguous between packages; while the executor works, the
  index is one of two `Deployments` without manifests, since a request only
  depends on whether its identity is found.  `ConfigTexts` has a mission that is
  complete, one whose trees are not all installed, one with several trees to run,
  none, and two that are refused.  `MaxEvents` = 2.
- *`skill`.*  `ToCancel` is one goal; the theorems have no such bound.
- *`mission`.*  Four events realise every order of groups that
  `buildEventMonitor` can produce next to each other.

Runs that may stop when goals, events, messages or operations run out do not
check for deadlock, nor does `tree_nodes`, which stops when a destroyed node was
called back; `node`, `service_halt` and `mission` do.

### Fairness

Weak fairness of `ExecutionTimer` and `CommandTimer`: a wall timer that is not
canceled keeps firing and the ROS 2 executor serves ready timers.  In
`RosActionNode`, weak fairness of ticks, of the steps of `cancelGoal()` and of the answers:
the server is a live program; no fairness is assumed for starting, halting,
feedback and timeouts.  In `ParameterNodes`, events are delivered and a running
tree is ticked.  In `TreeNodes`, a running tree is ticked and time passes, but
the server may never answer.  In `ActionClientWrapper`, goals are decided,
answers arrive and the work of the derived class ends, which is its contract;
calls need not time out.  In `Mission`, the tree is ticked, and ticks in which
the monitors are asked from the first one on come again; events come and go at
will.  Clients are never assumed to do anything.

### Properties restricted on purpose

`CancelCompletes` excepts a cancellation that a later command overrules (and says
that nothing else does), and `CommandCompletes` asks that the command stays in
force: the code promises no more.  `CacheIsParameter` excepts keys that were
cleared, overrides the constructor left out until somebody sets them, and entries
whose type refuses the parameter, which the code only logs; `Settles` and
`TreeUsesEnumParameter` have the same exceptions as far as they meet them.
`CallbacksAreHolders` and `LastMessageKnown` except what a class leaves behind that
subscribes again to another topic, and `ServiceCompletes` a program that called
back a destroyed node.  `FactoryMatchesManifest` excepts a document after the
exception of a namespace that clashes.  `ClientIsWanted` is about the moment a
client is created: that a name is not resolved again is a divergence.
`HandleIsKnown` and `NodeCompletes` end where `cancelGoal()` throws.
`HandlerIsExplained` ends where `loadBuildHandler()` throws out of the event
callback.
`OnlyHaltsLeaveResponses` asks that no activation was halted, not merely this
one: a response that completes the wrong activation leaves that one's request
behind for the next, and so on.  `BlocksInGoodOrder` and `ResultOfCurrentGoal`
ask for timely, ordered answers; otherwise `cancelGoal()` returns early and a
result may be taken for that of a later goal.  `LastGoalIsHeld` speaks of a
client whose goals did not cross: without waiting, an earlier goal's result
resets the handle of a later one.  `ModelIsTrue` asks that the XML uses no port
the model hides, and of a renamed port that its alias is no other port's name,
that no port is renamed to it, and that it is not read and written at once:
renaming onto a name that is itself renamed copies the wrong value, and of a
port for both directions only the input is copied (`construction` has both, and
without the exceptions TLC finds them).  `OnlyForeignTypesFail` excepts values that
are lost when they are printed, such as byte arrays.  `NoNewDangling`
is about trees that are merged or inserted; assigning an element takes its
references as they are.  It speaks of operations that are done: one that throws
for the inline options of a tree leaves the trees it has appended before, and
these may refer to the ones that did not arrive.  It excepts what a file leaves to
the document that includes it (`LeftOpen`).

## Proofs

Checked by TLAPS for every choice of the constants, from the assumptions named in
the modules (`HookAssumption`, `NodeAssumption`, `ServiceAssumption`,
`SubscriberAssumption`, `ActionAssumption`, `ConversionAssumption`,
`SyncAssumption`, `NodesAssumption`, `ResourceAssumption`, `ConfigAssumption`,
`BuildAssumption`, `ManifestAssumption`, `PortsAssumption`, `ContentAssumption`,
`NamesAssumption`, `EditingAssumption`, `InputAssumption`, `GoalAssumption`, `SenderAssumption`,
`MissionAssumption`); TLC evaluates each of them on its instance.  They say what
kind of thing a constant is (texts are sequences of tokens, contents are sequences
of trees and includes, what is given for ports is a finite map) or what the code
refuses at its border (a parent without a name).  Two narrow the
system.  `NamesAssumption`: no file has two trees of one name, which a merge does
not look for; `ReferencesCorrect` and `IncludesCorrect` rest on it.
`OnePlaceholder` is a hypothesis of `ClientCorrect` alone.  The bounds of the runs (`MaxEvents`, `MaxSteps`,
`MaxRequests`, `MaxInstalled`) are any number.

- `TreeExecutorNodeProofs`: `RoutineInv` is `TypeOK` and `FutureMatchesTimer`;
  together they are inductive, since a tick needs a tree and resolves a pending
  promise.  `TypeCorrect` and `FutureCorrect` follow, and
  `RoutineImplementsLifecycle` shows by cases over the callback that each step
  is a step of the lifecycle.  `NodeInv` adds `NodeTypeOK`, `ContextTracksGoal`
  and `TimerTracksCommand`.  The context needs the routine's part, because the
  goal ends in the step in which the timer stops.  `NodeTypeCorrect`,
  `ContextCorrect` and `CommandTimerCorrect` follow; `OutcomeCorrect` proves the
  action property `OutcomeReported` from the same invariant: only
  `ExecutionTimer` ends a goal, and `CallersOfTerminalStatus` goes through what
  the callers make of it.
- `TreeNodesProofs`: `ServiceInv` says what a client may still know while no
  activation was halted: the request the node is running for, until it is
  answered.  `ResponsesCorrect` follows.  `CallbackInv` adds to
  `CallbacksAreHolders` that only existing objects hold a subscription and that
  one generation is free, so the objects of a new tree are others than those it
  replaces, and that what is left with an instance belongs to a class that
  subscribes twice; `CallbacksCorrect` follows.  `MessageInv` adds to `LastMessageKnown`
  that nothing seen is newer than the last message published and that a node
  without subscription has evaluated none; `MessagesCorrect` follows.
- `RosActionNodeProofs`: `HandleInv` adds to `TypeOK` and `HandleIsKnown` that a
  goal that was not sent is not known, in every environment; `HandleCorrect`
  follows.  `GoodInv` is about environments with timely, ordered answers: all
  earlier goals have ended, so whatever arrives is for the current one
  (`OnlyCurrent`), and the flags, the handle and what `cancelGoal()` waits for
  agree with what the client knows of it.  `ResultCorrect` and the action
  property `BlockingCorrect` follow.
- `ParameterNodesProofs`: `EnumInv` says that, of the events that wait, the last
  that carries an enum carries that of the parameter, or none does and the enum
  is the parameter's; `EnumCorrect` follows.  `SyncInv` says the same of each key:
  the last waiting event that carries it carries its parameter, and if none does,
  the cache has the parameter, unless the key was cleared, its override was left
  out, or the entry refuses it; it needs what is checked when a parameter is set (`Convertible`) and that
  values are of the type of their entry (`WellTyped`, `CacheTyped`).
  `CacheCorrect` follows.  `FoundInv` says that a key that was found has a
  parameter as long as the tree runs and that a get is only refused for another
  key, since only an executor that is not busy clears; `FoundCorrect` follows.
  `NodesInv` is both, with the types of requests: what a tick infers is then
  accepted, but for the exceptions that `OnlyForeignTypesFail` names, which is
  `FailuresForeign`.
- `BuildRequestsProofs`: `IInv` says that, while parameter events wait, the last
  of them carries the parameter, and that otherwise the handler is explained;
  neither half is inductive alone, since the event handled last turns the first
  into the second.  `HandlerCorrect` follows.  `IndexInv` is that packages install
  lines, finitely many; it is all that `IdentitiesFindTheirResource` and
  `PythonCorrect` need, which hold of any such index: the lemmas compare what two
  searches match.  `InstallationsCorrect` shows that an installation only adds
  matches.  `TreeInv` adds the types of handler and memory: `RequestCorrect` follows
  a goal's request through its handler to the tree, whatever the requests that
  were refused or left unbuilt have put into the memory.
- `RegistrationProofs`: `DocumentInv` is about one document: its trees are a
  sequence, and manifest and factory agree.  `Adds` says what every operation
  leaves, thrown or not, and is transitive, which carries it over operations that
  are made of others and over the loops over trees and includes.  `WorkDocsDef`
  shows that reading a file that includes others ends, because there are fewer
  files left each time.  `FactoryCorrect`, `RegistrationsCorrect` and
  `FailureCorrect` follow.  `TreesInv` adds that trees are lists of typed elements,
  and `ReferencesCorrect` proves `NoNewDangling` from it, action by action.  What
  is merged is seen as a set of trees: the references a set leaves open are at
  most those its parts do, so what remains is that each part is whole.  A
  cherry-picked tree comes with everything it refers to because the rounds that
  follow references reach a fixed point (`Closure`), a tree that is dropped as
  shared is in the buffer, and what a file is read as does not depend on the files
  being read around it, as long as reading it ends well.  `IncludesCorrect`
  (`IncludeOrderIrrelevant`) holds of every document in `DocumentInv`: `Fits` says
  that a set of inline options can be registered, `With` what the registry is
  then, and both can be taken in two parts (`FitsBoth`, `WithBoth`), so neither
  depends on an order; two files can be included if all of their trees fit and no
  two different ones share a name.  `FactoryCorrect` has no hypothesis: the halves
  of the registry are equal as long as no namespace has clashed (`parted`), since
  every other exception leaves each node in both or in neither.  `BuildInv` says what the phases before the construction of a node
  have established, and `ParentCorrect` follows, since decoding on top of a parent
  keeps what the parent renames and hides.  `ClientInv` says that no client is
  there before its node and that the one that is served is the client it has;
  `ClientCorrect` is for `OnePlaceholder`, since the loop of `getTopicName()` is
  undefined for more.  `ModelCorrect` (`ModelIsTrue`) follows a port through the
  three loops over aliases and defaults: `LoopEnds` shows by induction over the
  subsets of its names that a loop has a result after each of them, and the
  lemmas after it give an invariant of each loop.  An original and its plain alias
  are registered with the same direction and always get the same default, and the
  copy reaches the original and nothing else.
- `SkillProofs`: `SkillInv` says that context and timer serve the active goal
  (`ServesActive`), that a cancellation is not taken back (`CancelIsFinal`), that
  a handle is of the client's own, known goal (`HandleIsOwn`), and that a client
  whose goals did not cross has one unfinished goal (`AloneUnlessCrossed`).
  Results and handles (`OutcomeCorrect`, `HandleCorrect`) follow.
- `MissionProofs`: `IInv` adds to `FlagIsTrue` that branches that are not served
  are untouched (`Untouched`) and that an emergency has an event of its group
  (`EmergencyKnown`).  `FlagCorrect` follows; `StartsAloneCorrect` and
  `EmergencyCorrect` prove action properties by cases over the branch a tick
  serves.

The library's induction theorems take an operator as parameter, which the provers
cannot instantiate.  `NatSetInduction` is induction for a set of numbers, proved
from the well-foundedness of `<`; it unfolds the recursive functions of the
models.

Only model-checked: everything about liveness (`CancelCompletes`,
`CommandCompletes`, `NodeCompletes`, `Settles`, `ServiceCompletes`,
`PromisesKept`, `Responds`), which the prover does not support under fairness.
Every other property of the passing runs is a theorem.  `DocumentEditing` takes
a tree into a document only when its references have no cycle (`Acyclic`),
because collecting what such a tree requires does not end in the code; the
theorems say nothing of that case either.

## Where code, comments and tests part

Findings with a run of their own are `node_pause`, `service_halt` and
`sync_types`.  Others, met while modelling and described where the models have
them or leave them out:

- A build request without entry point is built with the initial blackboard
  values of an earlier request, since `entry_point_` is only assigned when there
  is one (`tree_from_string.cpp:60`, `tree_from_resource.cpp:67`).
- Comments of the node templates say that a name read from the blackboard is
  evaluated in each iteration (`ros_action_node.hpp:268-271` and 476-477,
  `ros_publisher_node.hpp:230-231`, `ros_service_node.hpp:229-231` and 250-251); it is
  resolved until it succeeds once, and the node stays with that client
  (`ros_action_node.hpp:470-474`).
- A tick that cancels its goal because `onFeedback()` asked for it returns what the
  last feedback said by the time it was canceled (`ros_action_node.hpp:584-588`):
  that may be RUNNING, with no goal left.
- Parameter overrides are declared whether or not they can be converted, and
  `updateGlobalBlackboardWithParameterValues()` and the one for enums return at the
  first that cannot: the ones after it in the order of names are parameters
  without an entry or enum, and nothing tells (`generic_executor_node.cpp:95-117`,
  300-305, 337-342).
- A subscriber whose derived constructor calls `createSubscriber()` for another topic
  than the registration's leaves its callback with the first instance, which calls
  a destroyed node if others keep it alive (`ros_subscriber_node.hpp:239-272`).
- `applyNodeNamespace()` renames manifest and elements before it moves the builders
  (`tree_document.cpp:1380`, 1420-1426): if a name in the namespace is taken, it
  throws between the two, and the document's manifest and factory differ from
  then on.
- `StartExecutor` throws for an aborted goal, so its branch for the failure of an
  attached tree is never taken (`start_executor.cpp:107`).
- The comment in `create_node_manifest.cpp:84` says that the index does not have
  the manifests of the package; on a rebuild it has those of the build before,
  which are then used.
- `build_handler.hpp` documents the blackboard given to `buildTree` as the global
  one; it is the main tree's.
- A failed `newTreeFromDocument()` leaves an empty tree; `setName()` does not look
  for duplicates; the root's name is kept when its tree is removed or renamed;
  registering with override a node whose class is missing loses the node.
- `insertTreeFromString()` and `insertTreeFromFile()` without a tree name always
  throw (`tree_document.cpp:349-379`).
- `from_files()` lets the last file win where C++ throws; `node_model.py` takes
  unknown port tags for inputs where C++ throws; Python refuses identities of
  unknown packages earlier.
- The scripting client returns -1 after a goal response that timed out, though
  the goal may be accepted.
- A port for both directions that is renamed keeps what was written to the
  original's output: `copyAliasedPortValuesToOriginalPorts()` copies from "whichever
  map holds its value" and only the input map (`ros_node_context.cpp:251-258`).
- A mission with more than one tree for bringing up, running or shutting down has
  them put under one `<BehaviorTree>` element and fails verification
  (`mission_builder_base.cpp:112-200`); such a goal is aborted (`Buildable`).
  `MultiNodeMission`, which is not modelled, puts the trees to run into a sequence.

## Not modelled

- The observer and the feedback of all actions (logging and text), the command
  line verbs and the generators of headers and documentation, files and the
  reading of the ament index: sequential I/O.
- Loading of plugins, YAML and XML syntax, the texts of vectors and matrices
  (`convert.cpp`; byte and string arrays do not survive a round trip there), and
  scripts inside trees.
- The mission over several executors (`multi_node_mission.cpp`): its executors,
  parameters and clients are modelled one by one, their product is out of reach
  at the sizes where anything happens.  There, an event that goes and comes back
  between two readings may be seen to end by the handler only.
- The other standard nodes (lifecycle, publishers of poses and twists, logger,
  composition nodes): they fill requests from ports.
- A shutdown of the ROS 2 context, a crash of the process, and exceptions that
  leave a callback (a skipped root, `executor_base.cpp:239`, is one): there is
  no state after them, and nothing is persisted.
- Executors that serve callbacks of the node in several threads: the default
  callback group excludes it.
- References between trees that form a cycle: collecting them recurses without
  end (`tree_document.cpp:298`), the models take the closure.

## Plan

1. Executor, synchronization, tree nodes, skills, mission, manifests and
   construction, documents, resources and build requests: done.
2. Proofs of every safety property: done.
3. Models left: the handler for nodes and the loading of plugins, the mission
   over several executors with one shared event, `cancel_requested_` of the
   action node.
