---------------------------- MODULE SkillProofs ----------------------------
(***************************************************************************)
(* The wrapper's shared context and the handle of a client, for any number *)
(* of clients and goals.                                                   *)
(*                                                                         *)
(* The server half rests on one fact: a goal that is active is the one in  *)
(* the context and the one the timer has captured.  The client half needs  *)
(* to know that without an overlap no other goal is left whose result      *)
(* could reset the handle.                                                 *)
(***************************************************************************)
EXTENDS ActionClientWrapper, TLAPS

ServesActive ==
  /\ \A g \in Active : g = context /\ g = timer
  /\ writers \subseteq {context}
  /\ \A g \in Goals : status[g] \in Terminal => result[g] = {g}

GivenUp == {"canceling", "canceled", "aborted"}

CancelIsFinal ==
  \A g \in Goals : g \in told \/ cancel[g] = "granted" => status[g] \in GivenUp

HandleIsOwn ==
  \A c \in Clients :
    /\ handle[c] # NoGoal => phase[handle[c]] = "known" /\ Sender[handle[c]] = c
    /\ last[c] # NoGoal => Sender[last[c]] = c
    /\ call[c].kind = "send" => call[c].goal = last[c] /\ last[c] # NoGoal

AloneUnlessCrossed ==
  \A c \in Clients : ~crossed[c] =>
    /\ \A g \in Goals : Sender[g] = c /\ g # last[c] => phase[g] \notin {"sent", "known"}
    /\ last[c] # NoGoal /\ phase[last[c]] = "sent" => call[c] = Sending(last[c])
    /\ last[c] # NoGoal /\ phase[last[c]] = "known" => handle[c] = last[c]

SkillInv == TypeOK /\ ServesActive /\ CancelIsFinal /\ HandleIsOwn /\ AloneUnlessCrossed

LEMMA InitEstablishesInv == Init => SkillInv
BY GoalAssumption, SenderAssumption
DEF Init, ServerInit, SkillInv, TypeOK, ServerTypeOK, ServesActive, Active, Terminal,
    CancelIsFinal, GivenUp, HandleIsOwn, AloneUnlessCrossed, None

-----------------------------------------------------------------------------
(* The server.                                                             *)

\* What the server's steps change, a client only sees as the goals' status.
LEMMA ClientUnchanged ==
  ASSUME HandleIsOwn, AloneUnlessCrossed, UNCHANGED <<handle, call, phase, last, crossed>>
  PROVE  HandleIsOwn' /\ AloneUnlessCrossed'
BY DEF HandleIsOwn, AloneUnlessCrossed

LEMMA DecideGoalInv ==
  ASSUME SkillInv, NEW g \in Goals, DecideGoal(g) PROVE SkillInv'
<1>1. HandleIsOwn' /\ AloneUnlessCrossed'
  BY ClientUnchanged DEF SkillInv, DecideGoal, clientVars
<1>2. CASE RejectGoal(g)
  <2>1. TypeOK'
    BY <1>2 DEF SkillInv, TypeOK, ServerTypeOK, DecideGoal, RejectGoal, clientVars
  <2>2. ServesActive'
    BY <1>2 DEF SkillInv, TypeOK, ServerTypeOK, ServesActive, Active, Terminal, RejectGoal
  <2>3. CancelIsFinal'
    BY <1>2 DEF SkillInv, TypeOK, ServerTypeOK, CancelIsFinal, GivenUp, DecideGoal, RejectGoal, clientVars
  <2>4. QED
    BY <1>1, <2>1, <2>2, <2>3 DEF SkillInv
<1>3. CASE AcceptGoal(g)
  <2>1. TypeOK'
    BY <1>3 DEF SkillInv, TypeOK, ServerTypeOK, DecideGoal, AcceptGoal, SetUp, clientVars
  <2>2. Active = {}
    BY <1>3 DEF SkillInv, ServesActive, AcceptGoal
  <2>3. ServesActive'
    BY <1>3, <2>2 DEF SkillInv, TypeOK, ServerTypeOK, ServesActive, Active, Terminal, AcceptGoal, SetUp
  <2>4. CancelIsFinal'
    BY <1>3 DEF SkillInv, TypeOK, ServerTypeOK, CancelIsFinal, GivenUp, DecideGoal, AcceptGoal, clientVars
  <2>5. QED
    BY <1>1, <2>1, <2>3, <2>4 DEF SkillInv
<1>4. QED
  BY <1>2, <1>3 DEF DecideGoal

\* A routine returns for the goal in the context, which the timer has captured.
LEMMA ReturnsInv ==
  ASSUME SkillInv, UNCHANGED clientVars, NEW ret \in ActionStatus,
         NEW success \in {"succeeded", "canceled"},
         timer # NoGoal, context \in Active, Returns(ret, success),
         success = "succeeded" => status[context] = "executing"
  PROVE  SkillInv'
<1>1. HandleIsOwn' /\ AloneUnlessCrossed'
  BY ClientUnchanged DEF SkillInv, clientVars
<1>2. context \in Goals /\ timer = context /\ writers' = {context}
  BY DEF SkillInv, TypeOK, ServerTypeOK, ServesActive, Active, Returns
<1>3. TypeOK'
  BY <1>2 DEF SkillInv, TypeOK, ServerTypeOK, Returns, ActionStatus, Terminal, clientVars
<1>4. ServesActive'
  BY <1>2 DEF SkillInv, TypeOK, ServerTypeOK, ServesActive, Returns, Active, Terminal
<1>5. CancelIsFinal'
  BY <1>2 DEF SkillInv, TypeOK, ServerTypeOK, CancelIsFinal, GivenUp, Returns, ActionStatus, clientVars
<1>6. QED
  BY <1>1, <1>3, <1>4, <1>5 DEF SkillInv

LEMMA RunTimerInv == ASSUME SkillInv, RunTimer PROVE SkillInv'
<1>1. CASE CancelTimer
  <2>1. HandleIsOwn' /\ AloneUnlessCrossed'
    BY ClientUnchanged DEF SkillInv, RunTimer, clientVars
  <2>2. TypeOK' /\ ServesActive' /\ CancelIsFinal'
    BY <1>1 DEF SkillInv, TypeOK, ServerTypeOK, ServesActive, Active, Terminal, CancelIsFinal, GivenUp,
                RunTimer, CancelTimer, clientVars
  <2>3. QED
    BY <2>1, <2>2 DEF SkillInv
<1>2. ASSUME NEW ret \in ActionStatus, ExecuteGoal(ret) \/ CancelGoal(ret) PROVE SkillInv'
  <2>1. CASE ExecuteGoal(ret)
    BY <2>1, ReturnsInv DEF RunTimer, ExecuteGoal
  <2>2. CASE CancelGoal(ret)
    BY <2>2, ReturnsInv DEF RunTimer, CancelGoal
  <2>3. QED
    BY <1>2, <2>1, <2>2
<1>3. QED
  BY <1>1, <1>2 DEF RunTimer, TimerCallback

LEMMA AnswerCancelInv ==
  ASSUME SkillInv, NEW g \in Goals, AnswerCancel(g) PROVE SkillInv'
<1>1. HandleIsOwn' /\ AloneUnlessCrossed'
  BY ClientUnchanged DEF SkillInv, AnswerCancel
<1>2. ASSUME NEW granted \in BOOLEAN, HandleCancel(g, granted),
             cancel' = [cancel EXCEPT ![g] = IF granted THEN "granted" ELSE "denied"]
      PROVE  TypeOK' /\ ServesActive' /\ CancelIsFinal'
  <2>1. context = g
    BY <1>2 DEF SkillInv, ServesActive, Active, HandleCancel
  <2>2. TypeOK'
    BY <1>2, <2>1 DEF SkillInv, TypeOK, ServerTypeOK, HandleCancel, AnswerCancel
  <2>3. ServesActive'
    BY <1>2, <2>1 DEF SkillInv, TypeOK, ServerTypeOK, ServesActive, Active, Terminal, HandleCancel
  <2>4. CancelIsFinal'
    BY <1>2, <2>1 DEF SkillInv, TypeOK, ServerTypeOK, CancelIsFinal, GivenUp, HandleCancel, AnswerCancel
  <2>5. QED
    BY <2>2, <2>3, <2>4
<1>3. ASSUME cancel' = [cancel EXCEPT ![g] = "denied"], UNCHANGED serverVars
      PROVE  TypeOK' /\ ServesActive' /\ CancelIsFinal'
  BY <1>3 DEF SkillInv, TypeOK, ServerTypeOK, ServesActive, Active, Terminal, CancelIsFinal, GivenUp,
              AnswerCancel, serverVars
<1>4. QED
  BY <1>1, <1>2, <1>3 DEF SkillInv, AnswerCancel

-----------------------------------------------------------------------------
(* The clients.                                                            *)

\* What the clients' steps leave alone.
LEMMA ServerUnchanged ==
  ASSUME ServesActive, UNCHANGED serverVars PROVE ServesActive'
BY DEF ServesActive, Active, serverVars

LEMMA SendGoalInv ==
  ASSUME SkillInv, NEW g \in Goals, SendGoal(g) PROVE SkillInv'
<1>1. ServesActive'
  BY ServerUnchanged DEF SkillInv, SendGoal
<1>2. Sender[g] \in Clients /\ g # NoGoal
  BY SenderAssumption, GoalAssumption
<1>3. TypeOK'
  BY <1>2 DEF SkillInv, TypeOK, ServerTypeOK, SendGoal, serverVars
<1>4. CancelIsFinal'
  BY DEF SkillInv, CancelIsFinal, SendGoal, serverVars
<1>5. HandleIsOwn'
  BY <1>2 DEF SkillInv, TypeOK, HandleIsOwn, SendGoal, Sending
<1>6. AloneUnlessCrossed'
  <2>1. SUFFICES ASSUME NEW c \in Clients, ~crossed'[c]
                 PROVE  /\ \A h \in Goals : Sender[h] = c /\ h # last'[c] => phase'[h] \notin {"sent", "known"}
                        /\ last'[c] # NoGoal /\ phase'[last'[c]] = "sent" => call'[c] = Sending(last'[c])
                        /\ last'[c] # NoGoal /\ phase'[last'[c]] = "known" => handle'[c] = last'[c]
    BY DEF AloneUnlessCrossed, Sending
  <2>2. CASE c = Sender[g]
    <3>1. Unfinished(c) = {}
      BY <1>2, <2>1, <2>2 DEF SkillInv, TypeOK, SendGoal
    <3>2. last'[c] = g /\ call'[c] = Sending(g) /\ phase'[g] = "sent"
      BY <1>2, <2>2 DEF SkillInv, TypeOK, SendGoal
    <3>3. \A h \in Goals \ {g} : phase'[h] = phase[h]
      BY DEF SkillInv, TypeOK, SendGoal
    <3>4. QED
      BY <3>1, <3>2, <3>3 DEF Unfinished
  <2>3. CASE c # Sender[g]
    <3>1. /\ last'[c] = last[c] /\ call'[c] = call[c] /\ handle'[c] = handle[c] /\ ~crossed[c]
          /\ \A h \in Goals : Sender[h] = c => phase'[h] = phase[h]
      BY <2>1, <2>3 DEF SkillInv, TypeOK, SendGoal
    <3>2. last[c] # NoGoal => last[c] \in Goals /\ Sender[last[c]] = c
      BY DEF SkillInv, TypeOK, HandleIsOwn
    <3>3. QED
      BY <2>1, <3>1, <3>2 DEF SkillInv, AloneUnlessCrossed
  <2>4. QED
    BY <2>2, <2>3
<1>7. QED
  BY <1>1, <1>3, <1>4, <1>5, <1>6 DEF SkillInv

LEMMA GoalResponseInv ==
  ASSUME SkillInv, NEW g \in Goals, GoalResponse(g) PROVE SkillInv'
<1>1. ServesActive'
  BY ServerUnchanged DEF SkillInv, GoalResponse
<1>2. Sender[g] \in Clients /\ g # NoGoal
  BY SenderAssumption, GoalAssumption
<1>3. TypeOK'
  BY <1>2 DEF SkillInv, TypeOK, ServerTypeOK, GoalResponse, serverVars
<1>4. CancelIsFinal'
  BY DEF SkillInv, CancelIsFinal, GoalResponse, serverVars
<1>5. HandleIsOwn'
  BY <1>2 DEF SkillInv, TypeOK, HandleIsOwn, GoalResponse, Sending, None
<1>6. AloneUnlessCrossed'
  BY <1>2 DEF SkillInv, TypeOK, HandleIsOwn, AloneUnlessCrossed, GoalResponse, Sending, None
<1>7. QED
  BY <1>1, <1>3, <1>4, <1>5, <1>6 DEF SkillInv

LEMMA ResultArrivesInv ==
  ASSUME SkillInv, NEW g \in Goals, ResultArrives(g) PROVE SkillInv'
<1>1. ServesActive'
  BY ServerUnchanged DEF SkillInv, ResultArrives
<1>2. Sender[g] \in Clients /\ g # NoGoal
  BY SenderAssumption, GoalAssumption
<1>3. TypeOK'
  BY <1>2 DEF SkillInv, TypeOK, ServerTypeOK, ResultArrives, serverVars
<1>4. CancelIsFinal'
  BY DEF SkillInv, CancelIsFinal, ResultArrives, serverVars
<1>5. HandleIsOwn'
  BY <1>2 DEF SkillInv, TypeOK, HandleIsOwn, ResultArrives
<1>6. AloneUnlessCrossed'
  BY <1>2 DEF SkillInv, TypeOK, HandleIsOwn, AloneUnlessCrossed, ResultArrives
<1>7. QED
  BY <1>1, <1>3, <1>4, <1>5, <1>6 DEF SkillInv

LEMMA CallInv ==
  ASSUME SkillInv, NEW c \in Clients, CancelLastGoal(c) \/ TimeOut(c) PROVE SkillInv'
<1>1. ServesActive'
  BY ServerUnchanged DEF SkillInv, CancelLastGoal, TimeOut
<1>2. CASE CancelLastGoal(c)
  <2>1. handle[c] \in Goals /\ phase[handle[c]] = "known"
    BY <1>2, SenderAssumption, GoalAssumption DEF SkillInv, HandleIsOwn, CancelLastGoal
  <2>2. TypeOK' /\ CancelIsFinal'
    BY <1>2, <2>1 DEF SkillInv, TypeOK, ServerTypeOK, CancelIsFinal, CancelLastGoal, serverVars
  <2>3. HandleIsOwn'
    BY <1>2 DEF SkillInv, TypeOK, HandleIsOwn, CancelLastGoal, Canceling
  <2>4. AloneUnlessCrossed'
    BY <1>2 DEF SkillInv, TypeOK, AloneUnlessCrossed, CancelLastGoal, Canceling, Sending, None
  <2>5. QED
    BY <1>1, <2>2, <2>3, <2>4 DEF SkillInv
<1>3. CASE TimeOut(c)
  <2>1. TypeOK' /\ CancelIsFinal'
    BY <1>3 DEF SkillInv, TypeOK, ServerTypeOK, CancelIsFinal, TimeOut, serverVars
  <2>2. HandleIsOwn'
    BY <1>3 DEF SkillInv, TypeOK, HandleIsOwn, TimeOut, None
  <2>3. AloneUnlessCrossed'
    <3>1. \A d \in Clients : ~crossed'[d] => ~crossed[d] /\ (d = c => call[c].kind # "send")
      BY <1>3, Zenon DEF SkillInv, TypeOK, TimeOut
    <3>2. \A d \in Clients : call'[d] = IF d = c THEN None ELSE call[d]
      BY <1>3 DEF SkillInv, TypeOK, TimeOut
    <3>3. \A g \in Goals : Sending(g).kind = "send"
      BY DEF Sending
    <3>4. \A d \in Clients : last[d] # NoGoal => last[d] \in Goals
      BY DEF SkillInv, TypeOK
    <3>5. QED
      BY <1>3, <3>1, <3>2, <3>3, <3>4 DEF SkillInv, AloneUnlessCrossed, TimeOut
  <2>4. QED
    BY <1>1, <2>1, <2>2, <2>3 DEF SkillInv
<1>4. QED
  BY <1>2, <1>3

LEMMA CancelResponseInv ==
  ASSUME SkillInv, NEW g \in Goals, CancelResponse(g) PROVE SkillInv'
<1>1. ServesActive'
  BY ServerUnchanged DEF SkillInv, CancelResponse
<1>2. Sender[g] \in Clients
  BY SenderAssumption
<1>3. TypeOK' /\ CancelIsFinal'
  BY <1>2 DEF SkillInv, TypeOK, ServerTypeOK, CancelIsFinal, CancelResponse, serverVars
<1>4. HandleIsOwn'
  BY <1>2 DEF SkillInv, TypeOK, HandleIsOwn, CancelResponse, None
<1>5. AloneUnlessCrossed'
  BY <1>2 DEF SkillInv, TypeOK, AloneUnlessCrossed, CancelResponse, None, Sending, Canceling
<1>6. QED
  BY <1>1, <1>3, <1>4, <1>5 DEF SkillInv

-----------------------------------------------------------------------------
LEMMA StepInv == ASSUME SkillInv, [Next]_vars PROVE SkillInv'
<1>1. CASE Next
  BY <1>1, SendGoalInv, DecideGoalInv, GoalResponseInv, ResultArrivesInv, AnswerCancelInv,
     CancelResponseInv, CallInv, RunTimerInv DEF Next
<1>2. CASE UNCHANGED vars
  BY <1>2 DEF vars, serverVars, clientVars, SkillInv, TypeOK, ServerTypeOK, ServesActive, Active,
              CancelIsFinal, HandleIsOwn, AloneUnlessCrossed
<1>3. QED
  BY <1>1, <1>2

LEMMA InvImpliesProperties == SkillInv => OutcomeIsItsOwn /\ LastGoalIsHeld
BY DEF SkillInv, ServesActive, CancelIsFinal, GivenUp, HandleIsOwn, AloneUnlessCrossed,
       OutcomeIsItsOwn, LastGoalIsHeld

\* The context, the timer and the members of the clients stay in their types, for
\* any goals and clients.
THEOREM SkillTypeCorrect == Spec => []TypeOK
<1>1. SkillInv => TypeOK
  BY DEF SkillInv
<1>2. QED
  BY <1>1, InitEstablishesInv, StepInv, PTL DEF Spec

\* Every goal of every client ends with a result of its own, and succeeds only if no
\* client was told that it is canceled.
THEOREM OutcomeCorrect == Spec => []OutcomeIsItsOwn
BY InitEstablishesInv, StepInv, InvImpliesProperties, PTL DEF Spec

\* A client that awaits the end of its goals always holds the handle of the last one
\* while that runs.
THEOREM HandleCorrect == Spec => []LastGoalIsHeld
BY InitEstablishesInv, StepInv, InvImpliesProperties, PTL DEF Spec
=============================================================================
