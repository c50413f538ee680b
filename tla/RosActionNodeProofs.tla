------------------------- MODULE RosActionNodeProofs -------------------------
(***************************************************************************)
(* Theorems of RosActionNode, for any number of goals and any set of       *)
(* environments.  HandleInv holds in all of them; GoodInv is about those   *)
(* whose answers are timely and in order and that honour cancel requests.  *)
(***************************************************************************)
EXTENDS RosActionNode, TLAPS

-----------------------------------------------------------------------------
(***************************************************************************)
(* The handle: a goal that was not sent is not known yet, so sending it    *)
(* disturbs no handle.                                                     *)
(***************************************************************************)
HandleInv ==
  /\ TypeOK
  /\ \A g \in Goals : g > goal => client[g] = "unsent"
  /\ HandleIsKnown

LEMMA InitHandle == Init => HandleInv
<1> SUFFICES ASSUME Init PROVE HandleInv
  OBVIOUS
<1>1. TypeOK
  <2>1. {halting, responseReceived, rejected, stopRequested, resultReceived} \subseteq BOOLEAN
    BY Zenon DEF Init
  <2>2. QED
    BY <2>1, ActionAssumption DEF Init, TypeOK
<1>2. QED
  BY <1>1 DEF Init, HandleInv, HandleIsKnown

\* What cancelGoal() does once the goal response is there, with the handle it
\* has then.
LEMMA RequestKeepsTypes ==
  ASSUME TypeOK, NEW h \in 0..MaxGoals, NEW r \in BOOLEAN, RequestCancel(h, r)
  PROVE  /\ pc' \in {"none"} \cup Waits \cup Broken
         /\ status' \in {"IDLE", "RUNNING"}
         /\ target' \in 0..MaxGoals
         /\ cancel' \in [Goals -> {"none", "requested", "granted", "refused",
                                   "terminated", "answered"}]
BY ActionAssumption DEF TypeOK, RequestCancel, Return, Break, Waits, Broken, Goals

LEMMA CancelStepsKeepHandle ==
  ASSUME HandleInv, CancelSteps
  PROVE  HandleInv'
<1> USE ActionAssumption
<1>1. CASE GoalResponseAwaited
  <2>1. /\ rejected' \in BOOLEAN
        /\ handle' \in 0..MaxGoals
        /\ future' = 0
        /\ RequestCancel(handle', rejected')
        /\ UNCHANGED <<halting, responseReceived, stopRequested, resultReceived, result,
                       goal, client, server>>
    BY <1>1 DEF GoalResponseAwaited, HandleInv, TypeOK
  <2>2. /\ pc' \in {"none"} \cup Waits \cup Broken
        /\ status' \in {"IDLE", "RUNNING"}
        /\ target' \in 0..MaxGoals
        /\ cancel' \in [Goals -> {"none", "requested", "granted", "refused",
                                  "terminated", "answered"}]
    BY <2>1, RequestKeepsTypes DEF HandleInv
  <2>3. TypeOK'
    BY <2>1, <2>2 DEF HandleInv, TypeOK
  <2>4. HandleIsKnown'
    BY <1>1, <2>1 DEF GoalResponseAwaited, RequestCancel, Break, Return, HandleIsKnown
  <2>5. QED
    BY <2>1, <2>3, <2>4 DEF HandleInv
<1>2. CASE CancelAnswered
  <2>1. TypeOK'
    <3>1. /\ pc' \in {"none"} \cup Waits \cup Broken
          /\ status' \in {"IDLE", "RUNNING"}
          /\ target' \in 0..MaxGoals /\ handle' \in 0..MaxGoals
      BY <1>2 DEF CancelAnswered, Break, Return, HandleInv, TypeOK, Waits
    <3>2. cancel' \in [Goals -> {"none", "requested", "granted", "refused",
                                 "terminated", "answered"}]
      BY <1>2 DEF CancelAnswered, HandleInv, TypeOK
    <3>3. UNCHANGED <<halting, future, flagVars, goal, client, server>>
      BY <1>2 DEF CancelAnswered
    <3>4. QED
      BY <3>1, <3>2, <3>3 DEF HandleInv, TypeOK, flagVars
  <2>2. HandleIsKnown' /\ UNCHANGED <<goal, client>>
    BY <1>2 DEF CancelAnswered, Break, Return, HandleInv, HandleIsKnown
  <2>3. QED
    BY <2>1, <2>2 DEF HandleInv
<1>3. CASE ResultAwaited \/ CancelTimesOut
  <2>1. TypeOK'
    BY <1>3 DEF ResultAwaited, CancelTimesOut, Return, HandleInv, TypeOK, flagVars,
                environmentVars
  <2>2. HandleIsKnown' /\ UNCHANGED <<goal, client>>
    BY <1>3 DEF ResultAwaited, CancelTimesOut, Return, HandleInv, HandleIsKnown,
                environmentVars, Waits
  <2>3. QED
    BY <2>1, <2>2 DEF HandleInv
<1>4. QED
  BY <1>1, <1>2, <1>3 DEF CancelSteps

\* A new goal is unknown before it is sent, so it is not the handle's.
LEMMA StartKeepsHandle ==
  ASSUME HandleInv, Start
  PROVE  HandleInv'
<1>1. /\ goal' = goal + 1 /\ goal' \in Goals /\ future' = goal' /\ status' = "RUNNING"
      /\ client' = [client EXCEPT ![goal'] = "sent"]
      /\ server' = [server EXCEPT ![goal'] = "requested"]
      /\ result' = 0 /\ UNCHANGED <<pc, halting, target, handle, cancel>>
  BY ActionAssumption DEF Start, SendGoal, ResetFlags, waitVars, HandleInv, TypeOK, Goals
<1>2. {responseReceived', rejected', stopRequested', resultReceived'} \subseteq BOOLEAN
  BY Zenon DEF Start, ResetFlags
<1>3. TypeOK'
  BY <1>1, <1>2, ActionAssumption DEF HandleInv, TypeOK, Goals
<1>4. client[goal'] = "unsent"
  BY <1>1, ActionAssumption DEF HandleInv, TypeOK, Goals
<1>5. HandleIsKnown'
  BY <1>1, <1>4, ActionAssumption DEF HandleInv, TypeOK, Goals, HandleIsKnown
<1>6. QED
  BY <1>1, <1>3, <1>5, ActionAssumption DEF HandleInv, TypeOK, Goals

LEMMA NodeStepsKeepHandle ==
  ASSUME HandleInv, NodeSteps
  PROVE  HandleInv'
<1> USE ActionAssumption
<1>1. CASE StartFails
  <2>1. {responseReceived', rejected', stopRequested', resultReceived'} \subseteq BOOLEAN
    BY <1>1, Zenon DEF StartFails, ResetFlags
  <2>2. result' = 0
    BY <1>1 DEF StartFails, ResetFlags
  <2>3. QED
    BY <1>1, <2>1, <2>2 DEF StartFails, HandleInv, TypeOK, HandleIsKnown, waitVars,
                            environmentVars
<1>2. CASE SendGoalTimesOut
  BY <1>2 DEF SendGoalTimesOut, HandleInv, TypeOK, HandleIsKnown, waitVars, flagVars,
              environmentVars
<1>3. CASE TickAnswered \/ Halt
  <2>0. halting' \in BOOLEAN
    BY <1>3 DEF TickAnswered, Halt, HandleInv, TypeOK, waitVars
  <2>1. /\ future' \in 0..MaxGoals
        /\ UNCHANGED <<handle, goal, client, server, result, responseReceived, rejected,
                       stopRequested, resultReceived>>
    BY <1>3 DEF TickAnswered, Halt, HandleInv, TypeOK, flagVars
  <2>2. /\ pc' \in {"none"} \cup Waits \cup Broken
        /\ status' \in {"IDLE", "RUNNING"}
        /\ target' \in 0..MaxGoals
        /\ cancel' \in [Goals -> {"none", "requested", "granted", "refused",
                                  "terminated", "answered"}]
    <3>1. TypeOK /\ handle \in 0..MaxGoals /\ rejected \in BOOLEAN
      BY DEF HandleInv, TypeOK
    <3>2. CASE RequestCancel(handle, rejected)
      BY <3>1, <3>2, RequestKeepsTypes
    <3>3. CASE ~RequestCancel(handle, rejected)
      BY <1>3, <3>1, <3>3 DEF TickAnswered, Halt, CancelGoal, TypeOK, waitVars, Waits
    <3>4. QED
      BY <3>2, <3>3
  <2>3. TypeOK'
    BY <2>0, <2>1, <2>2 DEF HandleInv, TypeOK
  <2>4. pc # "threw"
    BY <1>3 DEF TickAnswered, Halt
  <2>5. QED
    BY <2>1, <2>3, <2>4 DEF HandleInv, HandleIsKnown
<1>4. QED
  BY <1>1, <1>2, <1>3, StartKeepsHandle DEF NodeSteps

LEMMA CallbacksKeepHandle ==
  ASSUME HandleInv, NEW g \in Goals, GoalResponse(g) \/ Feedback(g) \/ ResultArrives(g)
  PROVE  HandleInv'
<1> USE ActionAssumption
<1>1. pc # "threw"
  BY DEF GoalResponse, Feedback, ResultArrives, Spinning, Waits
<1>2. {responseReceived', rejected', stopRequested', resultReceived'} \subseteq BOOLEAN
  BY DEF GoalResponse, Feedback, ResultArrives, HandleInv, TypeOK
<1>3. TypeOK'
  BY <1>2 DEF GoalResponse, Feedback, ResultArrives, HandleInv, TypeOK, waitVars, Goals,
              environmentVars
<1>4. HandleIsKnown'
  BY <1>1 DEF GoalResponse, Feedback, ResultArrives, HandleInv, TypeOK, HandleIsKnown,
              waitVars, Goals, environmentVars
<1>5. \A h \in Goals : h > goal' => client'[h] = "unsent"
  BY DEF GoalResponse, Feedback, ResultArrives, HandleInv, TypeOK, environmentVars
<1>6. QED
  BY <1>3, <1>4, <1>5 DEF HandleInv

LEMMA ServerKeepsHandle ==
  ASSUME HandleInv, NEW g \in Goals, Decide(g) \/ End(g) \/ AnswerCancel(g)
  PROVE  HandleInv'
<1>1. UNCHANGED <<nodeVars, goal, client>>
  BY DEF Decide, End, AnswerCancel
<1>2. /\ server' \in [Goals -> {"unsent", "requested", "rejected", "executing",
                                "canceling", "terminal"}]
      /\ cancel' \in [Goals -> {"none", "requested", "granted", "refused",
                                "terminated", "answered"}]
  BY DEF Decide, End, AnswerCancel, HandleInv, TypeOK
<1>3. QED
  BY <1>1, <1>2 DEF HandleInv, TypeOK, HandleIsKnown, nodeVars, waitVars, flagVars

LEMMA NextHandle == HandleInv /\ [Next]_vars => HandleInv'
<1>1. HandleInv /\ UNCHANGED vars => HandleInv'
  BY DEF HandleInv, TypeOK, HandleIsKnown, vars, nodeVars, waitVars, flagVars,
         environmentVars
<1>2. QED
  BY <1>1, CancelStepsKeepHandle, NodeStepsKeepHandle, CallbacksKeepHandle,
     ServerKeepsHandle DEF Next

(***************************************************************************)
(* ros_action_node.hpp: the variables have their types.                    *)
(***************************************************************************)
THEOREM NodeTypeCorrect == Spec => []TypeOK
<1>1. HandleInv => TypeOK
  BY DEF HandleInv
<1>2. QED
  BY <1>1, InitHandle, NextHandle, PTL DEF Spec

(***************************************************************************)
(* ros_action_node.hpp: in every environment, the handle cancelGoal() is   *)
(* trusted with is that of a goal the client knows, although results of    *)
(* any goal arrive at any time.                                            *)
(***************************************************************************)
THEOREM HandleCorrect == Spec => []HandleIsKnown
<1>1. HandleInv => HandleIsKnown
  BY DEF HandleInv
<1>2. QED
  BY <1>1, InitHandle, NextHandle, PTL DEF Spec

-----------------------------------------------------------------------------
(***************************************************************************)
(* Good order: the goals before the current one are known to have ended,   *)
(* so whatever arrives belongs to the current one; and when nothing is     *)
(* awaited for it any more, it has ended, too.                             *)
(***************************************************************************)
Good == Timely /\ InOrder /\ CancelHonoured

Ended(g) == client[g] \in {"rejected", "done"}

Flags ==
  /\ future \in {0, goal}
  /\ responseReceived \/ future = 0 => client[goal] # "sent"
  /\ rejected => client[goal] = "rejected"
  /\ resultReceived => result = goal /\ client[goal] = "done"
  /\ client[goal] = "active" => handle = goal

Waiting ==
  /\ pc = "goalResponse" => future = goal
  /\ pc \in {"cancelResponse", "result"} => target = goal

GoodOrder ==
  /\ \A g \in Goals : g < goal => Ended(g)
  /\ status = "IDLE" => pc = "none" /\ (goal # 0 => Ended(goal))
  /\ status = "RUNNING" => goal # 0 /\ client[goal] # "unsent" /\ Flags /\ Waiting
  /\ \A g \in Goals : cancel[g] # "refused"

GoodInv == HandleInv /\ (Good => GoodOrder)

\* A goal the client waits for is the current one, and the node runs for it.
LEMMA OnlyCurrent ==
  ASSUME HandleInv, GoodOrder, NEW g \in Goals, client[g] \in {"sent", "active"}
  PROVE  g = goal /\ status = "RUNNING"
BY ActionAssumption DEF GoodOrder, HandleInv, TypeOK, Ended, Goals

LEMMA WhileRunning ==
  ASSUME HandleInv, GoodOrder, status = "RUNNING"
  PROVE  /\ goal \in Goals /\ goal # 0
         /\ client[goal] \in {"sent", "rejected", "active", "done"}
         /\ Flags /\ Waiting
BY ActionAssumption DEF GoodOrder, HandleInv, TypeOK, Goals

\* Nobody gives up on a goal: cancelGoal() returns when it has ended, asks the
\* server to cancel it, or breaks.
LEMMA RequestInOrder ==
  ASSUME HandleInv, GoodOrder, status = "RUNNING",
         NEW h \in 0..MaxGoals, NEW r \in BOOLEAN, RequestCancel(h, r),
         client[goal] # "sent", r => client[goal] = "rejected",
         client[goal] = "active" => h = goal
  PROVE  /\ pc' # "goalResponse"
         /\ pc' \in {"cancelResponse", "result"} => target' = goal
         /\ status' = "IDLE" => pc' = "none" /\ Ended(goal)
         /\ \A g \in Goals : cancel'[g] # "refused"
<1>1. client[goal] \in {"rejected", "active", "done"}
  BY WhileRunning
<1>2. h # 0 /\ client[h] = "active" => h = goal
  BY OnlyCurrent, ActionAssumption DEF Goals
<1>3. QED
  BY <1>1, <1>2 DEF RequestCancel, Return, Break, Broken, GoodOrder, HandleInv, TypeOK,
                    Ended, Goals

LEMMA AwaitedResponseInOrder ==
  ASSUME HandleInv, GoodOrder, GoalResponseAwaited
  PROVE  GoodOrder'
<1>1. status = "RUNNING"
  BY DEF GoalResponseAwaited, GoodOrder, HandleInv, TypeOK
<1>2. future = goal /\ client[goal] # "sent"
  BY <1>1 DEF GoalResponseAwaited, GoodOrder, Waiting
<1>3. /\ future' = 0 /\ UNCHANGED <<goal, client, responseReceived, resultReceived, result>>
      /\ rejected' \in BOOLEAN /\ rejected' = (client[goal] = "rejected")
      /\ handle' = IF rejected' THEN 0 ELSE goal
      /\ handle' \in 0..MaxGoals
      /\ RequestCancel(handle', rejected')
  <2>1. rejected' = (client[future] = "rejected")
    BY Zenon DEF GoalResponseAwaited
  <2>2. rejected' \in BOOLEAN /\ rejected' = (client[goal] = "rejected")
    BY <1>2, <2>1, Zenon
  <2>3. handle' = IF rejected' THEN 0 ELSE goal
    BY <1>2 DEF GoalResponseAwaited
  <2>4. handle' \in 0..MaxGoals
    BY <2>3, ActionAssumption DEF HandleInv, TypeOK
  <2>5. /\ future' = 0
        /\ UNCHANGED <<goal, client, responseReceived, resultReceived, result>>
        /\ RequestCancel(handle', rejected')
    BY DEF GoalResponseAwaited
  <2>6. QED
    BY <2>2, <2>3, <2>4, <2>5, Zenon
<1>4. /\ pc' # "goalResponse"
      /\ pc' \in {"cancelResponse", "result"} => target' = goal
      /\ status' = "IDLE" => pc' = "none" /\ Ended(goal)
      /\ \A g \in Goals : cancel'[g] # "refused"
  BY <1>1, <1>2, <1>3, RequestInOrder
<1>5. Flags' /\ Waiting'
  BY <1>1, <1>2, <1>3, <1>4 DEF GoodOrder, Flags, Waiting
<1>6. QED
  BY <1>1, <1>3, <1>4, <1>5 DEF GoodOrder, Ended

\* cancelGoal() returns once the goal has ended: the node is idle, or goes on
\* running for a result that is there.
LEMMA EndedInOrder ==
  ASSUME HandleInv, GoodOrder, status = "RUNNING", client[goal] = "done", pc' = "none",
         status' \in {"IDLE", "RUNNING"}, UNCHANGED <<future, goal, client, flagVars>>,
         \A g \in Goals : cancel'[g] # "refused"
  PROVE  GoodOrder'
BY WhileRunning DEF GoodOrder, Flags, Waiting, Ended, flagVars

LEMMA CancelStepsInOrder ==
  ASSUME HandleInv, Good, GoodOrder, CancelAnswered \/ ResultAwaited \/ CancelTimesOut
  PROVE  GoodOrder'
<1>1. pc \in {"cancelResponse", "result"}
  BY DEF Good, CancelAnswered, ResultAwaited, CancelTimesOut
<1>2. status = "RUNNING"
  BY <1>1 DEF GoodOrder, HandleInv, TypeOK
<1>3. target = goal /\ goal \in Goals
  BY <1>1, <1>2, WhileRunning DEF Waiting
<1>4. CASE ResultAwaited
  <2>1. /\ client[goal] = "done" /\ pc' = "none" /\ status' \in {"IDLE", "RUNNING"}
        /\ UNCHANGED <<future, goal, client, cancel, flagVars>>
    BY <1>3, <1>4 DEF ResultAwaited, Return, environmentVars
  <2>2. QED
    BY <1>2, <2>1, EndedInOrder DEF GoodOrder
<1>5. CASE CancelAnswered
  <2>1. \A g \in Goals : cancel'[g] # "refused"
    BY <1>5 DEF CancelAnswered, GoodOrder, HandleInv, TypeOK
  <2>2. UNCHANGED <<goal, client, future, flagVars>>
    BY <1>5 DEF CancelAnswered
  <2>3. CASE cancel[target] = "granted" /\ handle # 0 /\ client[handle] = "active"
    <3>1. handle = goal
      BY <2>3, OnlyCurrent, ActionAssumption DEF HandleInv, TypeOK, Goals
    <3>2. pc' = "result" /\ target' = goal /\ UNCHANGED <<status, handle>>
      BY <1>5, <2>3, <3>1 DEF CancelAnswered
    <3>3. QED
      BY <1>2, <2>1, <2>2, <3>2 DEF GoodOrder, Flags, Waiting, Ended, flagVars
  <2>4. CASE cancel[target] = "granted" /\ ~(handle # 0 /\ client[handle] = "active")
    <3>1. pc' \in Broken /\ UNCHANGED <<status, handle>>
      BY <1>5, <2>4 DEF CancelAnswered, Break
    <3>2. QED
      BY <1>2, <2>1, <2>2, <3>1 DEF GoodOrder, Flags, Waiting, Ended, flagVars, Broken
  <2>5. CASE cancel[target] # "granted"
    <3>1. client[goal] = "done"
      BY <1>3, <1>5, <2>5 DEF CancelAnswered, CancelResponseArrived, Good, GoodOrder
    <3>2. status' \in {"IDLE", "RUNNING"} /\ pc' = "none"
      BY <1>5, <2>5 DEF CancelAnswered, Return
    <3>3. QED
      BY <1>2, <2>1, <2>2, <3>1, <3>2, EndedInOrder
  <2>6. QED
    BY <2>3, <2>4, <2>5
<1>6. QED
  BY <1>4, <1>5 DEF Good, CancelTimesOut

LEMMA StartInOrder ==
  ASSUME HandleInv, GoodOrder, Start
  PROVE  GoodOrder'
<1>1. /\ goal' = goal + 1 /\ goal' \in Goals /\ goal \in 0..MaxGoals
      /\ future' = goal' /\ status' = "RUNNING"
      /\ client' = [client EXCEPT ![goal'] = "sent"]
      /\ pc = "none" /\ UNCHANGED <<pc, target, cancel>>
  BY ActionAssumption DEF Start, SendGoal, waitVars, HandleInv, TypeOK, Goals
<1>2. ~responseReceived' /\ ~rejected' /\ ~resultReceived'
  BY DEF Start, ResetFlags
<1>3. client'[goal'] = "sent"
  BY <1>1 DEF HandleInv, TypeOK
<1>4. Flags' /\ Waiting'
  BY <1>1, <1>2, <1>3 DEF Flags, Waiting, Goals
<1>5. \A g \in Goals : g < goal' => Ended(g)'
  <2>1. ASSUME NEW g \in Goals, g < goal' PROVE Ended(g)
    BY <1>1, <2>1 DEF GoodOrder, Goals, Start, SendGoal
  <2>2. QED
    BY <1>1, <2>1 DEF Ended, HandleInv, TypeOK, Goals
<1>6. QED
  BY <1>1, <1>3, <1>4, <1>5 DEF GoodOrder, Goals

LEMMA TickInOrder ==
  ASSUME HandleInv, GoodOrder, TickAnswered
  PROVE  GoodOrder'
<1>1. /\ status = "RUNNING" /\ responseReceived /\ pc = "none" /\ future' = 0
      /\ UNCHANGED <<goal, client, handle, flagVars>>
  BY DEF TickAnswered
<1>2. goal \in Goals /\ client[goal] # "sent" /\ Flags /\ Waiting
  BY <1>1, WhileRunning DEF Flags
<1>3. CASE RequestCancel(handle, rejected)
  <2>1. /\ pc' # "goalResponse"
        /\ pc' \in {"cancelResponse", "result"} => target' = goal
        /\ status' = "IDLE" => pc' = "none" /\ Ended(goal)
        /\ \A g \in Goals : cancel'[g] # "refused"
    BY <1>1, <1>2, <1>3, RequestInOrder DEF Flags, HandleInv, TypeOK
  <2>2. Flags' /\ Waiting'
    BY <1>1, <1>2, <2>1 DEF Flags, Waiting, flagVars
  <2>3. QED
    BY <1>1, <1>2, <2>1, <2>2 DEF GoodOrder, Ended
<1>4. CASE ~RequestCancel(handle, rejected)
  <2>1. UNCHANGED <<pc, target, cancel>> /\ (status' = "IDLE" => rejected \/ resultReceived)
    BY <1>1, <1>4 DEF TickAnswered, CancelGoal, waitVars
  <2>2. Flags' /\ Waiting'
    BY <1>1, <1>2, <2>1 DEF Flags, Waiting, flagVars
  <2>3. status' = "IDLE" => Ended(goal)
    BY <1>2, <2>1 DEF Flags, Ended
  <2>4. QED
    BY <1>1, <2>1, <2>2, <2>3 DEF GoodOrder, Ended
<1>5. QED
  BY <1>3, <1>4

LEMMA HaltInOrder ==
  ASSUME HandleInv, GoodOrder, Halt
  PROVE  GoodOrder'
<1>1. /\ status = "RUNNING" /\ pc = "none" /\ CancelGoal(future)
      /\ UNCHANGED <<future, goal, client, handle, flagVars>>
  BY DEF Halt
<1>2. goal \in Goals /\ goal # 0 /\ Flags /\ Waiting
  BY <1>1, WhileRunning
<1>3. CASE future # 0
  <2>1. pc' = "goalResponse" /\ UNCHANGED <<target, status, cancel>> /\ future = goal
    BY <1>1, <1>2, <1>3 DEF CancelGoal, Flags
  <2>2. QED
    BY <1>1, <1>2, <2>1 DEF GoodOrder, Flags, Waiting, Ended, flagVars
<1>4. CASE future = 0
  <2>1. RequestCancel(handle, rejected) /\ client[goal] # "sent"
    BY <1>1, <1>2, <1>4 DEF CancelGoal, Flags
  <2>2. /\ pc' # "goalResponse"
        /\ pc' \in {"cancelResponse", "result"} => target' = goal
        /\ status' = "IDLE" => pc' = "none" /\ Ended(goal)
        /\ \A g \in Goals : cancel'[g] # "refused"
    BY <1>1, <1>2, <2>1, RequestInOrder DEF Flags, HandleInv, TypeOK
  <2>3. Flags' /\ Waiting'
    BY <1>1, <1>2, <2>2 DEF Flags, Waiting, flagVars
  <2>4. QED
    BY <1>1, <1>2, <2>2, <2>3 DEF GoodOrder, Ended
<1>5. QED
  BY <1>3, <1>4

\* Answers and results are those of the current goal.
LEMMA CallbacksInOrder ==
  ASSUME HandleInv, GoodOrder, NEW g \in Goals,
         GoalResponse(g) \/ Feedback(g) \/ ResultArrives(g)
  PROVE  GoodOrder'
<1>1. client[g] \in {"sent", "active"} /\ g = goal /\ status = "RUNNING"
  BY OnlyCurrent DEF GoalResponse, Feedback, ResultArrives
<1>2. goal # 0 /\ Flags /\ Waiting
  BY <1>1, WhileRunning
<1>3. UNCHANGED <<status, pc, target, future, goal, cancel>>
  BY DEF GoalResponse, Feedback, ResultArrives, waitVars, environmentVars
<1>4. \A h \in Goals \ {g} : client'[h] = client[h]
  BY DEF GoalResponse, Feedback, ResultArrives, environmentVars, HandleInv, TypeOK
<1>5. Flags' /\ client'[goal] # "unsent"
  <2>1. CASE GoalResponse(g)
    BY <1>1, <1>2, <1>3, <2>1 DEF GoalResponse, Flags, HandleInv, TypeOK
  <2>2. CASE Feedback(g)
    BY <1>1, <1>2, <1>3, <2>2 DEF Feedback, Flags, environmentVars
  <2>3. CASE ResultArrives(g)
    BY <1>1, <1>2, <1>3, <2>3 DEF ResultArrives, Flags, HandleInv, TypeOK
  <2>4. QED
    BY <2>1, <2>2, <2>3
<1>6. \A h \in Goals : h < goal => h # g
  BY <1>1, ActionAssumption DEF Goals
<1>7. QED
  BY <1>1, <1>2, <1>3, <1>4, <1>5, <1>6 DEF GoodOrder, Waiting, Ended

LEMMA ServerInOrder ==
  ASSUME HandleInv, Good, GoodOrder, NEW g \in Goals,
         Decide(g) \/ End(g) \/ AnswerCancel(g)
  PROVE  GoodOrder'
<1>1. UNCHANGED <<nodeVars, goal, client>>
  BY DEF Decide, End, AnswerCancel
<1>2. \A h \in Goals : cancel'[h] # "refused"
  BY DEF Decide, End, AnswerCancel, Good, GoodOrder, HandleInv, TypeOK
<1>3. QED
  BY <1>1, <1>2 DEF GoodOrder, Flags, Waiting, Ended, nodeVars, waitVars, flagVars

LEMMA NextGoodOrder ==
  ASSUME HandleInv, Good, GoodOrder, [Next]_vars
  PROVE  GoodOrder'
<1>1. CASE UNCHANGED vars
  BY <1>1 DEF GoodOrder, Flags, Waiting, Ended, vars, nodeVars, waitVars, flagVars,
              environmentVars
<1>2. CASE StartFails
  BY <1>2 DEF StartFails, GoodOrder, Ended, waitVars, environmentVars
<1>3. CASE SendGoalTimesOut
  BY <1>3 DEF SendGoalTimesOut, Good
<1>4. QED
  BY <1>1, <1>2, <1>3, AwaitedResponseInOrder, CancelStepsInOrder, StartInOrder,
     TickInOrder, HaltInOrder, CallbacksInOrder, ServerInOrder
     DEF Next, CancelSteps, NodeSteps

LEMMA EnvironmentStays == [Next]_vars => environment' = environment
BY DEF Next, vars, environmentVars, CancelSteps, NodeSteps, GoalResponseAwaited,
       CancelAnswered, ResultAwaited, CancelTimesOut, StartFails, Start, SendGoal,
       SendGoalTimesOut, TickAnswered, Halt, GoalResponse, Feedback, ResultArrives,
       Decide, End, AnswerCancel

LEMMA InitGood == Init => GoodInv
<1>1. Init => GoodOrder
  BY DEF Init, GoodOrder, Goals
<1>2. QED
  BY <1>1, InitHandle DEF GoodInv

LEMMA NextGood == GoodInv /\ [Next]_vars => GoodInv'
BY NextHandle, NextGoodOrder, EnvironmentStays
   DEF GoodInv, Good, Timely, InOrder, CancelHonoured

(***************************************************************************)
(* ros_action_node.hpp: in a good environment, the result an activation    *)
(* completes with is its own, however many goals were sent, halted or      *)
(* stopped by their feedback before.                                       *)
(***************************************************************************)
THEOREM ResultCorrect == Spec => []ResultOfCurrentGoal
<1>1. GoodInv => ResultOfCurrentGoal
  BY DEF GoodInv, Good, GoodOrder, Flags, ResultOfCurrentGoal
<1>2. QED
  BY <1>1, InitGood, NextGood, PTL DEF Spec

\* A running node sends no goal.
LEMMA GoalStays == [Next]_vars /\ status = "RUNNING" => goal' = goal
BY DEF Next, vars, environmentVars, CancelSteps, NodeSteps, GoalResponseAwaited,
       CancelAnswered, ResultAwaited, CancelTimesOut, StartFails, Start, SendGoal,
       SendGoalTimesOut, TickAnswered, Halt, GoalResponse, Feedback, ResultArrives,
       Decide, End, AnswerCancel

(***************************************************************************)
(* ros_action_node.hpp:63-64: in a good environment, an activation only    *)
(* ends, completed or halted, once its goal has ended.                     *)
(***************************************************************************)
THEOREM BlockingCorrect == Spec => BlocksInGoodOrder
<1>1. GoodInv /\ GoodInv' /\ [Next]_vars =>
        [Good /\ status = "RUNNING" /\ status' = "IDLE" =>
           client'[goal] \in {"rejected", "done"}]_vars
  BY GoalStays, EnvironmentStays
     DEF GoodInv, Good, GoodOrder, Ended, Timely, InOrder, CancelHonoured
<1>2. QED
  BY <1>1, InitGood, NextGood, PTL DEF Spec, BlocksInGoodOrder, Good
=============================================================================
