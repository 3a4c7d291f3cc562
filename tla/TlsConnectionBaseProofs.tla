----------------------- MODULE TlsConnectionBaseProofs -----------------------
(***************************************************************************)
(* What TLAPS proves of TlsConnectionBase, for every set of threads.       *)
(***************************************************************************)
EXTENDS TlsSource, TLAPS

LEMMA ActorFacts ==
  /\ \A t \in Threads : /\ App(t) \in Actors /\ Hs(t) \in Actors
                        /\ App(t)[1] = t /\ App(t)[2] = "app"
                        /\ Hs(t)[1] = t /\ Hs(t)[2] = "hs"
                        /\ OpOf(App(t)) = call[t].op /\ OpOf(Hs(t)) = "HANDSHAKE"
  /\ \A t, u \in Threads : /\ App(t) # Hs(u)
                           /\ t # u => App(t) # App(u) /\ Hs(t) # Hs(u)
BY DEF App, Hs, Actors, OpOf

\* A step of one actor keeps the program counters typed.
LEMMA GotoTyped ==
  ASSUME ActorsTyped, NEW t \in Threads, NEW l,
         \/ l \in AppPCs /\ Goto(App(t), l)
         \/ l \in HsPCs /\ Goto(Hs(t), l)
  PROVE  /\ pc' \in [Actors -> AppPCs \cup HsPCs]
         /\ \A u \in Threads : pc'[App(u)] \in AppPCs /\ pc'[Hs(u)] \in HsPCs
<1>1. CASE l \in AppPCs /\ Goto(App(t), l)
  <2>1. pc' = [pc EXCEPT ![App(t)] = l] /\ pc \in [Actors -> AppPCs \cup HsPCs]
    BY <1>1 DEF Goto, ActorsTyped
  <2>2. pc' \in [Actors -> AppPCs \cup HsPCs]
    BY <1>1, <2>1
  <2>3. ASSUME NEW u \in Threads
        PROVE  pc'[App(u)] \in AppPCs /\ pc'[Hs(u)] \in HsPCs
    <3>1. pc[App(u)] \in AppPCs /\ pc[Hs(u)] \in HsPCs
      BY DEF ActorsTyped
    <3>2. App(u) \in Actors /\ Hs(u) \in Actors /\ App(t) # Hs(u)
      BY ActorFacts
    <3> QED BY <1>1, <2>1, <3>1, <3>2
  <2> QED BY <2>2, <2>3
<1>2. CASE l \in HsPCs /\ Goto(Hs(t), l)
  <2>1. pc' = [pc EXCEPT ![Hs(t)] = l] /\ pc \in [Actors -> AppPCs \cup HsPCs]
    BY <1>2 DEF Goto, ActorsTyped
  <2>2. pc' \in [Actors -> AppPCs \cup HsPCs]
    BY <1>2, <2>1
  <2>3. ASSUME NEW u \in Threads
        PROVE  pc'[App(u)] \in AppPCs /\ pc'[Hs(u)] \in HsPCs
    <3>1. pc[App(u)] \in AppPCs /\ pc[Hs(u)] \in HsPCs
      BY DEF ActorsTyped
    <3>2. App(u) \in Actors /\ Hs(u) \in Actors /\ App(u) # Hs(t)
      BY ActorFacts
    <3> QED BY <1>2, <2>1, <3>1, <3>2
  <2> QED BY <2>2, <2>3
<1> QED BY <1>1, <1>2

\* ... whoever fails.
LEMMA FailTyped ==
  ASSUME ActorsTyped, NEW t \in Threads, NEW a \in {App(t), Hs(t)}, NEW r \in Results,
         Fail(a, r)
  PROVE  /\ pc' \in [Actors -> AppPCs \cup HsPCs]
         /\ \A u \in Threads : pc'[App(u)] \in AppPCs /\ pc'[Hs(u)] \in HsPCs
         /\ result' \in [Actors -> Results]
<1>1. result' \in [Actors -> Results]
  BY DEF ActorsTyped, Fail
<1>2. CASE a = App(t)
  <2>1. Goto(App(t), "idle") /\ "idle" \in AppPCs
    BY <1>2, ActorFacts DEF Fail, AppPCs
  <2> QED BY <1>1, <2>1, GotoTyped
<1>3. CASE a = Hs(t)
  <2>1. Goto(Hs(t), AfterThread(t)) /\ AfterThread(t) \in HsPCs
    BY <1>3, ActorFacts DEF Fail, HsPCs, AfterThread
  <2> QED BY <1>1, <2>1, GotoTyped
<1> QED BY <1>2, <1>3

LEMMA InitTyped == Init => TypeOK
<1> SUFFICES ASSUME Init PROVE TypeOK
  OBVIOUS
<1>1. FlagsTyped /\ ContextsTyped /\ HistoryTyped
  BY DEF Init, FlagsTyped, ContextsTyped, HistoryTyped
<1>2. pc \in [Actors -> AppPCs \cup HsPCs]
  BY DEF Init, AppPCs
<1>3. \A t \in Threads : pc[App(t)] \in AppPCs /\ pc[Hs(t)] \in HsPCs
  BY ActorFacts DEF Init, AppPCs, HsPCs
<1>4. timeout \in [Actors -> Timeouts] /\ result \in [Actors -> Results]
  BY DEF Init, Timeouts, Results
<1>5. call \in [Threads -> [op : Ops, timeout : Timeouts]]
  BY DEF Init, Timeouts, Ops, DataOps
<1>6. task \in [Threads -> [async : BOOLEAN, implicit : BOOLEAN]]
  BY DEF Init, NoTask
<1>7. budget \in [Threads -> {-1} \cup Nat]
  BY BudgetAssumption DEF Init
<1> QED BY <1>1, <1>2, <1>3, <1>4, <1>5, <1>6, <1>7 DEF TypeOK, ActorsTyped

\* claim_op(), by a thread or by its worker.
LEMMA ClaimTyped ==
  ASSUME TypeOK, NEW t \in Threads, NEW a \in {App(t), Hs(t)}, Claim(a), UNCHANGED budget
  PROVE  TypeOK'
<1> USE DEF TypeOK
<1>0. a \in Actors /\ a[1] = t
  BY ActorFacts
<1>1. CASE ClaimRejected(a)
  <2>1. FlagsTyped' /\ ContextsTyped' /\ HistoryTyped'
    BY <1>1, <1>0 DEF ClaimRejected, FlagsTyped, ContextsTyped, HistoryTyped, hsVars, ctxVars,
      closeVars, dirVars, envVars, ghostVars
  <2>2. Fail(a, "error") /\ "error" \in Results
    BY <1>1 DEF ClaimRejected, Results
  <2>3. ActorsTyped'
    BY <1>1, <2>2, FailTyped DEF ClaimRejected, ActorsTyped, ctlVars
  <2> QED BY <2>1, <2>3
<1>2. CASE DivertToFinish(a)
  <2>1. FlagsTyped' /\ ContextsTyped' /\ HistoryTyped'
    <3>1. FlagsTyped'
      BY <1>2 DEF DivertToFinish, FlagsTyped, hsVars, closeVars, dirVars
    <3>2. ContextsTyped' /\ HistoryTyped'
      BY <1>2 DEF DivertToFinish, ContextsTyped, HistoryTyped, ctxVars, envVars, ghostVars
    <3> QED BY <3>1, <3>2
  <2>2. a = App(t)
    BY <1>2, ActorFacts DEF DivertToFinish, Diverted
  <2>3. Goto(App(t), "finish") /\ "finish" \in AppPCs
    BY <1>2, <2>2 DEF DivertToFinish, AppPCs
  <2>4. ActorsTyped'
    BY <1>2, <2>3, GotoTyped DEF DivertToFinish, ActorsTyped
  <2> QED BY <2>1, <2>4
<1>3. CASE ClaimRefused(a)
  <2>1. FlagsTyped' /\ ContextsTyped' /\ HistoryTyped'
    BY <1>3, <1>0 DEF ClaimRefused, FlagsTyped, ContextsTyped, HistoryTyped, hsVars, ctxVars,
      closeVars, dirVars, envVars, ghostVars
  <2>2. Fail(a, "refused") /\ "refused" \in Results
    BY <1>3 DEF ClaimRefused, Results
  <2>3. ActorsTyped'
    BY <1>3, <2>2, FailTyped DEF ClaimRefused, ActorsTyped, ctlVars
  <2> QED BY <2>1, <2>3
<1>4. CASE ClaimBusy(a)
  <2>1. FlagsTyped' /\ ContextsTyped' /\ HistoryTyped'
    <3>1. FlagsTyped'
      BY <1>4 DEF ClaimBusy, FlagsTyped, hsVars, closeVars, dirVars
    <3>2. ContextsTyped' /\ HistoryTyped'
      BY <1>4 DEF ClaimBusy, ContextsTyped, HistoryTyped, ctxVars, envVars, ghostVars
    <3> QED BY <3>1, <3>2
  <2>2. CASE timeout[a] = 0
    <3>1. Fail(a, "wouldblock") /\ "wouldblock" \in Results
      BY <1>4, <2>2 DEF ClaimBusy, Results
    <3>2. ActorsTyped'
      BY <1>4, <2>2, <3>1, FailTyped DEF ClaimBusy, ActorsTyped
    <3> QED BY <2>1, <3>2
  <2>3. CASE timeout[a] # 0
    <3>1. Goto(a, "wait") /\ "wait" \in AppPCs /\ "wait" \in HsPCs
      BY <1>4, <2>3 DEF ClaimBusy, AppPCs, HsPCs
    <3>2. InMilliseconds(timeout[a]) \in Timeouts
      BY <1>0 DEF ActorsTyped, Timeouts, InMilliseconds
    <3>3. timeout' \in [Actors -> Timeouts]
      BY <1>4, <2>3, <3>2 DEF ClaimBusy, ActorsTyped
    <3>4. ActorsTyped'
      BY <1>4, <2>3, <3>1, <3>3, GotoTyped DEF ClaimBusy, ActorsTyped
    <3> QED BY <2>1, <3>4
  <2> QED BY <2>2, <2>3
<1>5. CASE ClaimGranted(a)
  <2>1. FlagsTyped' /\ ContextsTyped' /\ HistoryTyped'
    BY <1>5, <1>0 DEF ClaimGranted, FlagsTyped, ContextsTyped, HistoryTyped, hsVars, ctxVars,
      closeVars, dirVars, envVars, ghostVars
  <2>2. CASE a = Hs(t)
    <3>1. Goto(Hs(t), "start") /\ "start" \in HsPCs
      BY <1>5, <2>2, ActorFacts DEF ClaimGranted, HsPCs
    <3>2. ActorsTyped'
      BY <1>5, <3>1, GotoTyped DEF ClaimGranted, ActorsTyped
    <3> QED BY <2>1, <3>2
  <2>3. CASE a = App(t)
    <3>1. Goto(App(t), "io") /\ "io" \in AppPCs
      BY <1>5, <2>3, ActorFacts DEF ClaimGranted, AppPCs
    <3>2. ActorsTyped'
      BY <1>5, <3>1, GotoTyped DEF ClaimGranted, ActorsTyped
    <3> QED BY <2>1, <3>2
  <2> QED BY <2>2, <2>3
<1>6. CASE WaitEnds(a)
  <2>1. FlagsTyped' /\ ContextsTyped' /\ HistoryTyped'
    BY <1>6, <1>0 DEF WaitEnds, FlagsTyped, ContextsTyped, HistoryTyped, hsVars, ctxVars,
      closeVars, dirVars, envVars, ghostVars
  <2>2. Goto(a, "claim") /\ "claim" \in AppPCs /\ "claim" \in HsPCs
    BY <1>6 DEF WaitEnds, AppPCs, HsPCs
  <2>3. ActorsTyped'
    BY <1>6, <2>2, GotoTyped DEF WaitEnds, ActorsTyped
  <2> QED BY <2>1, <2>3
<1>7. CASE WaitExpires(a)
  <2>1. FlagsTyped' /\ ContextsTyped' /\ HistoryTyped'
    BY <1>7, <1>0 DEF WaitExpires, FlagsTyped, ContextsTyped, HistoryTyped, hsVars, ctxVars,
      closeVars, dirVars, envVars, ghostVars
  <2>2. Fail(a, "error") /\ "error" \in Results
    BY <1>7 DEF WaitExpires, Results
  <2>3. ActorsTyped'
    BY <1>7, <2>2, FailTyped DEF WaitExpires, ActorsTyped, ctlVars
  <2> QED BY <2>1, <2>3
<1> QED BY <1>1, <1>2, <1>3, <1>4, <1>5, <1>6, <1>7 DEF Claim

LEMMA YieldTyped ==
  ASSUME TypeOK, NEW op, NEW r \in BOOLEAN, YieldOp(op, r)
  PROVE  FlagsTyped'
BY DEF YieldOp, TypeOK, FlagsTyped

LEMMA YieldHandshakeTyped ==
  ASSUME TypeOK, NEW t \in Threads, YieldHandshake(t), UNCHANGED envVars
  PROVE  FlagsTyped' /\ HistoryTyped'
<1>1. FlagsTyped'
  BY YieldTyped DEF YieldHandshake
<1>2. HistoryTyped'
  BY DEF YieldHandshake, TypeOK, HistoryTyped, envVars
<1> QED BY <1>1, <1>2

LEMMA StartTaskTyped ==
  ASSUME TypeOK, NEW t \in Threads, NEW async \in BOOLEAN, NEW implicit \in BOOLEAN,
         NEW tmo \in Timeouts, StartTask(t, async, implicit, tmo)
  PROVE  /\ ContextsTyped'
         /\ task' \in [Threads -> [async : BOOLEAN, implicit : BOOLEAN]]
         /\ timeout' \in [Actors -> Timeouts]
<1>1. ContextsTyped'
  BY ContextsAssumption DEF StartTask, TypeOK, ContextsTyped
<1>2. task' \in [Threads -> [async : BOOLEAN, implicit : BOOLEAN]]
  BY DEF StartTask, TypeOK, ActorsTyped
<1>3. timeout' \in [Actors -> Timeouts]
  BY ActorFacts DEF StartTask, TypeOK, ActorsTyped
<1> QED BY <1>1, <1>2, <1>3

\* Starting a worker moves two program counters.
LEMMA QueueTyped ==
  ASSUME ActorsTyped, NEW t \in Threads, NEW l \in AppPCs,
         pc' = [pc EXCEPT ![App(t)] = l, ![Hs(t)] = "queued"]
  PROVE  /\ pc' \in [Actors -> AppPCs \cup HsPCs]
         /\ \A u \in Threads : pc'[App(u)] \in AppPCs /\ pc'[Hs(u)] \in HsPCs
<1>1. "queued" \in HsPCs
  BY DEF HsPCs
<1>2. pc \in [Actors -> AppPCs \cup HsPCs]
  BY DEF ActorsTyped
<1>3. pc' \in [Actors -> AppPCs \cup HsPCs]
  BY <1>1, <1>2
<1>4. ASSUME NEW u \in Threads
      PROVE  pc'[App(u)] \in AppPCs /\ pc'[Hs(u)] \in HsPCs
  <2>1. pc[App(u)] \in AppPCs /\ pc[Hs(u)] \in HsPCs
    BY DEF ActorsTyped
  <2>2. App(u) \in Actors /\ Hs(u) \in Actors /\ App(u) # Hs(t) /\ App(t) # Hs(u)
    BY ActorFacts
  <2> QED BY <1>1, <1>2, <2>1, <2>2
<1> QED BY <1>3, <1>4

LEMMA IssueTyped ==
  ASSUME TypeOK, NEW t \in Threads, Issue(t)
  PROVE  budget' \in [Threads -> {-1} \cup Nat]
<1> DEFINE left == IF budget[t] = -1 THEN -1 ELSE budget[t] - 1
<1>1. budget \in [Threads -> {-1} \cup Nat] /\ budget[t] # 0
  BY DEF Issue, TypeOK, ActorsTyped
<1>2. left \in {-1} \cup Nat
  BY <1>1
<1>3. budget' = [budget EXCEPT ![t] = left]
  BY DEF Issue
<1> HIDE DEF left
<1> QED BY <1>1, <1>2, <1>3

\* What the application decides.
LEMMA CallTyped ==
  ASSUME TypeOK, NEW t \in Threads, AppCall(t)
  PROVE  TypeOK'
<1> USE DEF TypeOK
<1>1. CASE Begin(t)
  <2>1. FlagsTyped' /\ ContextsTyped' /\ HistoryTyped'
    BY <1>1 DEF Begin, FlagsTyped, ContextsTyped, HistoryTyped, hsVars, ctxVars, closeVars,
      dirVars, envVars, ghostVars
  <2>2. PICK c \in Calls[t] :
          /\ call' = [call EXCEPT ![t] = c]
          /\ timeout' = [timeout EXCEPT ![App(t)] = c.timeout]
    BY <1>1 DEF Begin
  <2>3. c \in [op : Ops, timeout : Timeouts]
    BY CallsAssumption
  <2>4. call' \in [Threads -> [op : Ops, timeout : Timeouts]]
    BY <2>2, <2>3 DEF ActorsTyped
  <2>5. timeout' \in [Actors -> Timeouts]
    BY <2>2, <2>3 DEF ActorsTyped
  <2>6. Goto(App(t), "claim") /\ "claim" \in AppPCs
    BY <1>1 DEF Begin, AppPCs
  <2>7. result' \in [Actors -> Results]
    BY <1>1 DEF Begin, ActorsTyped, Results
  <2>8. ActorsTyped'
    BY <1>1, <2>4, <2>5, <2>6, <2>7, GotoTyped, IssueTyped DEF Begin, ActorsTyped
  <2> QED BY <2>1, <2>8
<1>2. CASE Handshake(t)
  <2>1. FlagsTyped' /\ HistoryTyped'
    BY <1>2 DEF Handshake, FlagsTyped, HistoryTyped, hsVars, closeVars, dirVars, envVars,
      ghostVars
  <2>2. PICK c \in Calls[t] :
          /\ call' = [call EXCEPT ![t] = c]
          /\ StartTask(t, c.op = "HANDSHAKE_ASYNC", FALSE, -1)
          /\ pc' = [pc EXCEPT ![App(t)] = IF c.op = "HANDSHAKE" THEN "crank" ELSE "idle",
                              ![Hs(t)] = "queued"]
    BY <1>2 DEF Handshake
  <2>3. c \in [op : Ops, timeout : Timeouts]
    BY CallsAssumption
  <2>4. call' \in [Threads -> [op : Ops, timeout : Timeouts]]
    BY <2>2, <2>3 DEF ActorsTyped
  <2>5. /\ ContextsTyped'
        /\ task' \in [Threads -> [async : BOOLEAN, implicit : BOOLEAN]]
        /\ timeout' \in [Actors -> Timeouts]
    BY <2>2, StartTaskTyped DEF Timeouts
  <2> DEFINE l == IF c.op = "HANDSHAKE" THEN "crank" ELSE "idle"
  <2>6. l \in AppPCs
    BY DEF AppPCs
  <2>7. pc' = [pc EXCEPT ![App(t)] = l, ![Hs(t)] = "queued"]
    BY <2>2
  <2>8. result' \in [Actors -> Results]
    BY <1>2 DEF Handshake, ActorsTyped, Results
  <2> HIDE DEF l
  <2>9. ActorsTyped'
    BY <1>2, <2>4, <2>5, <2>6, <2>7, <2>8, QueueTyped, IssueTyped DEF Handshake, ActorsTyped
  <2> QED BY <2>1, <2>5, <2>9
<1>3. CASE Cancel(t)
  BY <1>3 DEF Cancel, FlagsTyped, ContextsTyped, ActorsTyped, HistoryTyped, hsVars, ctxVars,
    closeVars, dirVars, ctlVars, ghostVars
<1>4. CASE AssertionFails(t)
  BY <1>4 DEF AssertionFails, FlagsTyped, ContextsTyped, ActorsTyped, HistoryTyped, hsVars,
    ctxVars, closeVars, dirVars, ctlVars, ghostVars
<1> QED BY <1>1, <1>2, <1>3, <1>4 DEF AppCall

LEMMA FinishTyped ==
  ASSUME TypeOK, NEW t, FinishHandshake(t)
  PROVE  handshake_error' \in BOOLEAN
BY DEF FinishHandshake, TypeOK, FlagsTyped

\* A step of the thread itself.
LEMMA AppTyped ==
  ASSUME TypeOK, NEW t \in Threads, AppStep(t)
  PROVE  TypeOK'
<1> USE DEF TypeOK
<1>0. budget' = budget
  BY DEF AppStep
<1>1. CASE Claim(App(t))
  BY <1>0, <1>1, ClaimTyped
<1>2. CASE ImplicitHandshakeSync(t)
  <2>1. FlagsTyped' /\ HistoryTyped'
    BY <1>2 DEF ImplicitHandshakeSync, FlagsTyped, HistoryTyped, closeVars, dirVars, envVars, ghostVars
  <2>2. timeout[App(t)] \in Timeouts
    BY ActorFacts DEF ActorsTyped, Timeouts
  <2>3. StartTask(t, FALSE, TRUE, timeout[App(t)])
    BY <1>2 DEF ImplicitHandshakeSync
  <2>4. /\ ContextsTyped'
        /\ task' \in [Threads -> [async : BOOLEAN, implicit : BOOLEAN]]
        /\ timeout' \in [Actors -> Timeouts]
    BY <2>2, <2>3, StartTaskTyped
  <2>5. pc' = [pc EXCEPT ![App(t)] = "crank", ![Hs(t)] = "queued"] /\ "crank" \in AppPCs
    BY <1>2 DEF ImplicitHandshakeSync, AppPCs
  <2>6. result' \in [Actors -> Results]
    BY <1>2 DEF ImplicitHandshakeSync, ActorsTyped, Results
  <2>7. ActorsTyped'
    BY <1>0, <1>2, <2>4, <2>5, <2>6, QueueTyped DEF ImplicitHandshakeSync, ActorsTyped
  <2> QED BY <2>1, <2>4, <2>7
<1>3. CASE ImplicitHandshakeAsync(t)
  <2>1. FlagsTyped' /\ HistoryTyped'
    BY <1>3 DEF ImplicitHandshakeAsync, FlagsTyped, HistoryTyped, closeVars, dirVars, envVars, ghostVars
  <2>2. -1 \in Timeouts
    BY ActorFacts DEF ActorsTyped, Timeouts
  <2>3. StartTask(t, TRUE, TRUE, -1)
    BY <1>3 DEF ImplicitHandshakeAsync
  <2>4. /\ ContextsTyped'
        /\ task' \in [Threads -> [async : BOOLEAN, implicit : BOOLEAN]]
        /\ timeout' \in [Actors -> Timeouts]
    BY <2>2, <2>3, StartTaskTyped
  <2>5. pc' = [pc EXCEPT ![App(t)] = "idle", ![Hs(t)] = "queued"] /\ "idle" \in AppPCs
    BY <1>3 DEF ImplicitHandshakeAsync, AppPCs
  <2>6. result' \in [Actors -> Results]
    BY <1>3 DEF ImplicitHandshakeAsync, ActorsTyped, Results
  <2>7. ActorsTyped'
    BY <1>0, <1>3, <2>4, <2>5, <2>6, QueueTyped DEF ImplicitHandshakeAsync, ActorsTyped
  <2> QED BY <2>1, <2>4, <2>7
<1>4. CASE FinishImplicit(t)
  <2>1. FlagsTyped' /\ ContextsTyped' /\ HistoryTyped'
    BY <1>4, FinishTyped DEF FinishImplicit, FlagsTyped, ContextsTyped, HistoryTyped,
      closeVars, dirVars, envVars, ghostVars
  <2>2. \E l \in {"rejoin", "idle"} : Goto(App(t), l)
    BY <1>4 DEF FinishImplicit
  <2>3. result' \in [Actors -> Results]
    BY <1>4 DEF FinishImplicit, ActorsTyped, Results
  <2>4. "rejoin" \in AppPCs /\ "idle" \in AppPCs
    BY DEF AppPCs
  <2>5. ActorsTyped'
    BY <1>0, <1>4, <2>2, <2>3, <2>4, GotoTyped DEF FinishImplicit, ActorsTyped
  <2> QED BY <2>1, <2>5
<1>5. CASE RejoinCancelled(t)
  <2>1. FlagsTyped' /\ ContextsTyped' /\ HistoryTyped'
    BY <1>5 DEF RejoinCancelled, FlagsTyped, ContextsTyped, HistoryTyped, hsVars, ctxVars, closeVars,
      dirVars, envVars, ghostVars
  <2>2. Fail(App(t), "error") /\ "error" \in Results
    BY <1>5 DEF RejoinCancelled, Results
  <2>3. ActorsTyped'
    BY <1>0, <1>5, <2>2, FailTyped DEF RejoinCancelled, ActorsTyped
  <2> QED BY <2>1, <2>3
<1>6. CASE DataDone(t)
  <2>1. FlagsTyped'
    BY <1>6, YieldTyped DEF DataDone
  <2>2. ContextsTyped' /\ HistoryTyped'
    BY <1>6 DEF DataDone, ContextsTyped, HistoryTyped, ctxVars, envVars, ghostVars
  <2>3. \E l \in {"idle", "claim"} : Goto(App(t), l)
    BY <1>6 DEF DataDone
  <2>4. "idle" \in AppPCs /\ "claim" \in AppPCs
    BY DEF AppPCs
  <2>5. call[t].timeout \in Timeouts
    BY DEF ActorsTyped
  <2>6. timeout' \in [Actors -> Timeouts]
    BY <1>6, <2>5 DEF DataDone, ActorsTyped
  <2>7. ActorsTyped'
    BY <1>0, <1>6, <2>3, <2>4, <2>6, GotoTyped DEF DataDone, ActorsTyped
  <2> QED BY <2>1, <2>2, <2>7
<1>7. CASE CloseFlags(t)
  <2>1. FlagsTyped' /\ ContextsTyped' /\ HistoryTyped'
    BY <1>7 DEF CloseFlags, FlagsTyped, ContextsTyped, HistoryTyped, hsVars, ctxVars, closeVars,
      dirVars, envVars, ghostVars
  <2>2. Goto(App(t), "closed") /\ "closed" \in AppPCs
    BY <1>7 DEF CloseFlags, AppPCs
  <2>3. ActorsTyped'
    BY <1>0, <1>7, <2>2, GotoTyped DEF CloseFlags, ActorsTyped
  <2> QED BY <2>1, <2>3
<1>8. CASE CloseDone(t)
  <2>1. FlagsTyped'
    BY <1>8, YieldTyped DEF CloseDone
  <2>2. ContextsTyped' /\ HistoryTyped'
    BY <1>8 DEF CloseDone, ContextsTyped, HistoryTyped, ctxVars, envVars, ghostVars
  <2>3. Goto(App(t), "idle") /\ "idle" \in AppPCs
    BY <1>8 DEF CloseDone, AppPCs
  <2>4. ActorsTyped'
    BY <1>0, <1>8, <2>3, GotoTyped DEF CloseDone, ActorsTyped
  <2> QED BY <2>1, <2>2, <2>4
<1>9. CASE SyncFinish(t)
  <2>1. FlagsTyped' /\ ContextsTyped' /\ HistoryTyped'
    BY <1>9, FinishTyped DEF SyncFinish, FlagsTyped, ContextsTyped, HistoryTyped, closeVars,
      dirVars, envVars, ghostVars
  <2>2. pc' = [pc EXCEPT ![App(t)] = "hsyield", ![Hs(t)] = "idle"]
    BY <1>9 DEF SyncFinish
  <2>3. pc' \in [Actors -> AppPCs \cup HsPCs]
    BY <2>2 DEF ActorsTyped, AppPCs, HsPCs
  <2>4. ASSUME NEW u \in Threads
        PROVE  pc'[App(u)] \in AppPCs /\ pc'[Hs(u)] \in HsPCs
    <3>1. pc[App(u)] \in AppPCs /\ pc[Hs(u)] \in HsPCs
      BY DEF ActorsTyped
    <3>2. App(u) \in Actors /\ Hs(u) \in Actors /\ App(u) # Hs(t) /\ App(t) # Hs(u)
      BY ActorFacts
    <3> QED BY <2>2, <3>1, <3>2 DEF ActorsTyped, AppPCs, HsPCs
  <2>5. result' \in [Actors -> Results]
    BY <1>9 DEF SyncFinish, ActorsTyped, Results
  <2>6. ActorsTyped'
    BY <1>0, <1>9, <2>3, <2>4, <2>5 DEF SyncFinish, ActorsTyped
  <2> QED BY <2>1, <2>6
<1>10. CASE SyncYield(t)
  <2>1. FlagsTyped' /\ HistoryTyped'
    BY <1>10, YieldHandshakeTyped DEF SyncYield
  <2>2. ContextsTyped'
    BY <1>10 DEF SyncYield, ContextsTyped, ctxVars
  <2>3. \E l \in {"relock", "idle"} : Goto(App(t), l)
    BY <1>10 DEF SyncYield
  <2>4. "relock" \in AppPCs /\ "idle" \in AppPCs
    BY DEF AppPCs
  <2>5. result' \in [Actors -> Results]
    BY <1>10 DEF SyncYield, ActorsTyped, Results
  <2>6. task' \in [Threads -> [async : BOOLEAN, implicit : BOOLEAN]]
    BY <1>10 DEF SyncYield, ActorsTyped, NoTask
  <2>7. ActorsTyped'
    BY <1>0, <1>10, <2>3, <2>4, <2>5, <2>6, GotoTyped DEF SyncYield, ActorsTyped
  <2> QED BY <2>1, <2>2, <2>7
<1> QED
  BY <1>1, <1>2, <1>3, <1>4, <1>5, <1>6, <1>7, <1>8, <1>9, <1>10 DEF AppStep

\* A step of its worker.
LEMMA WorkerTyped ==
  ASSUME TypeOK, NEW t \in Threads, WorkerStep(t)
  PROVE  TypeOK'
<1> USE DEF TypeOK
<1>0. budget' = budget
  BY DEF WorkerStep
<1>1. CASE Claim(Hs(t))
  BY <1>0, <1>1, ClaimTyped
<1>2. CASE ThreadStarts(t)
  <2>1. FlagsTyped' /\ ContextsTyped' /\ HistoryTyped'
    <3>1. FlagsTyped'
      BY <1>2 DEF ThreadStarts, FlagsTyped, hsVars, closeVars, dirVars
    <3>2. ContextsTyped' /\ HistoryTyped'
      BY <1>2 DEF ThreadStarts, ContextsTyped, HistoryTyped, ctxVars, envVars, ghostVars
    <3> QED BY <3>1, <3>2
  <2>2. Goto(Hs(t), "claim") /\ "claim" \in HsPCs
    BY <1>2 DEF ThreadStarts, HsPCs
  <2>3. ActorsTyped'
    BY <1>0, <1>2, <2>2, GotoTyped DEF ThreadStarts, ActorsTyped
  <2> QED BY <2>1, <2>3
<1>3. CASE HandshakeBegins(t)
  <2>1. FlagsTyped' /\ ContextsTyped' /\ HistoryTyped'
    <3>1. FlagsTyped'
      BY <1>3 DEF HandshakeBegins, FlagsTyped, hsVars, closeVars, dirVars
    <3>2. ContextsTyped' /\ HistoryTyped'
      BY <1>3 DEF HandshakeBegins, ContextsTyped, HistoryTyped, ctxVars, envVars, ghostVars
    <3> QED BY <3>1, <3>2
  <2>2. \/ Goto(Hs(t), "io") /\ "io" \in HsPCs /\ result' = result
        \/ Fail(Hs(t), "error") /\ "error" \in Results
    BY <1>3 DEF HandshakeBegins, HsPCs, Results
  <2>3. ActorsTyped'
    BY <1>0, <1>3, <2>2, GotoTyped, FailTyped DEF HandshakeBegins, ActorsTyped
  <2> QED BY <2>1, <2>3
<1>4. CASE HandshakeEnds(t)
  <2>1. FlagsTyped' /\ ContextsTyped' /\ HistoryTyped'
    <3>1. FlagsTyped'
      BY <1>4 DEF HandshakeEnds, FlagsTyped, hsVars, closeVars, dirVars
    <3>2. ContextsTyped' /\ HistoryTyped'
      BY <1>4 DEF HandshakeEnds, ContextsTyped, HistoryTyped, ctxVars, envVars, ghostVars
    <3> QED BY <3>1, <3>2
  <2>2. Goto(Hs(t), AfterThread(t)) /\ AfterThread(t) \in HsPCs
    BY <1>4 DEF HandshakeEnds, AfterThread, HsPCs
  <2>3. result' \in [Actors -> Results]
    BY <1>4 DEF HandshakeEnds, ActorsTyped, Results
  <2>4. ActorsTyped'
    BY <1>0, <1>4, <2>2, <2>3, GotoTyped DEF HandshakeEnds, ActorsTyped
  <2> QED BY <2>1, <2>4
<1>5. CASE AsyncMark(t)
  <2>1. FlagsTyped' /\ ContextsTyped' /\ HistoryTyped'
    <3>1. FlagsTyped'
      BY <1>5 DEF AsyncMark, FlagsTyped, hsVars, closeVars, dirVars
    <3>2. ContextsTyped' /\ HistoryTyped'
      BY <1>5 DEF AsyncMark, ContextsTyped, HistoryTyped, ctxVars, envVars, ghostVars
    <3> QED BY <3>1, <3>2
  <2>2. Goto(Hs(t), "yield") /\ "yield" \in HsPCs
    BY <1>5 DEF AsyncMark, HsPCs
  <2>3. ActorsTyped'
    BY <1>0, <1>5, <2>2, GotoTyped DEF AsyncMark, ActorsTyped
  <2> QED BY <2>1, <2>3
<1>6. CASE AsyncYield(t)
  <2>1. FlagsTyped' /\ HistoryTyped'
    BY <1>6, YieldHandshakeTyped DEF AsyncYield
  <2>2. ContextsTyped'
    BY <1>6 DEF AsyncYield, ContextsTyped, ctxVars
  <2>3. \E l \in {"idle", "complete"} : Goto(Hs(t), l)
    BY <1>6 DEF AsyncYield
  <2>4. "idle" \in HsPCs /\ "complete" \in HsPCs
    BY DEF HsPCs
  <2>5. ActorsTyped'
    BY <1>0, <1>6, <2>3, <2>4, GotoTyped DEF AsyncYield, ActorsTyped
  <2> QED BY <2>1, <2>2, <2>5
<1>7. CASE AsyncCompleted(t)
  <2>1. FlagsTyped' /\ ContextsTyped' /\ HistoryTyped'
    <3>1. FlagsTyped'
      <4>1. handshake_error' \in BOOLEAN
        BY <1>7, FinishTyped DEF AsyncCompleted, FlagsTyped
      <4>2. /\ need_finish_handshake' = FALSE
            /\ UNCHANGED <<need_handshake, started_handshake, handshaking, ever_handshaked>>
            /\ UNCHANGED <<closeVars, dirVars>>
        BY <1>7 DEF AsyncCompleted
      <4> QED BY <4>1, <4>2 DEF FlagsTyped, closeVars, dirVars
    <3>2. ContextsTyped' /\ HistoryTyped'
      BY <1>7 DEF AsyncCompleted, ContextsTyped, HistoryTyped, ctxVars, envVars, ghostVars
    <3> QED BY <3>1, <3>2
  <2>2. Goto(Hs(t), "idle") /\ "idle" \in HsPCs
    BY <1>7 DEF AsyncCompleted, HsPCs
  <2>3. result' \in [Actors -> Results]
    BY <1>7 DEF AsyncCompleted, ActorsTyped, Results
  <2>4. ActorsTyped'
    BY <1>0, <1>7, <2>2, <2>3, GotoTyped DEF AsyncCompleted, ActorsTyped
  <2> QED BY <2>1, <2>4
<1> QED
  BY <1>1, <1>2, <1>3, <1>4, <1>5, <1>6, <1>7 DEF WorkerStep

\* Type correctness: every variable keeps the values the code's types allow, for
\* any number of threads, any calls and any timeouts.
THEOREM TypeCorrect == Spec => []TypeOK
<1>1. TypeOK /\ [Next]_vars => TypeOK'
  <2> SUFFICES ASSUME TypeOK, [Next]_vars PROVE TypeOK'
    OBVIOUS
  <2>1. CASE UNCHANGED vars
    BY <2>1 DEF TypeOK, FlagsTyped, ContextsTyped, ActorsTyped, HistoryTyped, vars, hsVars,
      ctxVars, closeVars, dirVars, ctlVars, envVars, ghostVars
  <2>2. CASE Next
    BY <2>2, CallTyped, AppTyped, WorkerTyped DEF Next
  <2> QED BY <2>1, <2>2
<1> QED BY <1>1, InitTyped, PTL DEF Spec

-----------------------------------------------------------------------------
(***************************************************************************)
(* Mutual exclusion in the backend.  The inductive invariant is the        *)
(* conjunction of both properties: the flags alone decide a claim, so      *)
(* exclusion needs them to be exact, and a yield clears a flag, so         *)
(* exactness needs its holder to have been alone.                          *)
(***************************************************************************)
ClaimInv == TypeOK /\ FlagsMatchClaims /\ ClaimsExcludeEachOther

LEMMA HolderFacts ==
  /\ \A t \in Threads : App(t) \in Readers <=> AppHolds(t) /\ UsesRead(call[t].op)
  /\ \A t \in Threads : App(t) \in Writers <=> AppHolds(t) /\ UsesWrite(call[t].op)
  /\ \A t \in Threads : t \in claimed => Hs(t) \in Readers /\ Hs(t) \in Writers
BY ActorFacts DEF Readers, Writers, App, Hs

\* Steps that let nobody into the backend or out of it.
LEMMA SameHolders ==
  ASSUME claimed' = claimed,
         \A u \in Threads : AppHolds(u)' <=> AppHolds(u),
         \A u \in Threads : AppHolds(u) => call'[u] = call[u]
  PROVE  Readers' = Readers /\ Writers' = Writers
<1>1. \A u \in Threads : AppHolds(u)' /\ UsesRead(call'[u].op)
                         <=> AppHolds(u) /\ UsesRead(call[u].op)
  OBVIOUS
<1>2. \A u \in Threads : AppHolds(u)' /\ UsesWrite(call'[u].op)
                         <=> AppHolds(u) /\ UsesWrite(call[u].op)
  OBVIOUS
<1>3. Readers' = Readers
  BY <1>1 DEF Readers
<1>4. Writers' = Writers
  BY <1>2 DEF Writers
<1> QED BY <1>3, <1>4

LEMMA QuietStep ==
  ASSUME ClaimInv,
         UNCHANGED <<reading, writing, claimed, stray_yield>>,
         \A u \in Threads : AppHolds(u)' <=> AppHolds(u),
         \A u \in Threads : AppHolds(u) => call'[u] = call[u]
  PROVE  (FlagsMatchClaims /\ ClaimsExcludeEachOther)'
<1>1. Readers' = Readers /\ Writers' = Writers
  BY SameHolders
<1> QED BY <1>1 DEF ClaimInv, FlagsMatchClaims, ClaimsExcludeEachOther, AtMostOne

\* A step of an actor that stays outside.
LEMMA GotoHolds ==
  ASSUME TypeOK, NEW t \in Threads, NEW l,
         \/ Goto(Hs(t), l)
         \/ Goto(App(t), l) /\ ~AppHolds(t) /\ l \notin {"io", "closed"}
         \/ Goto(App(t), l) /\ AppHolds(t) /\ l \in {"io", "closed"}
  PROVE  \A u \in Threads : AppHolds(u)' <=> AppHolds(u)
<1> SUFFICES ASSUME NEW u \in Threads PROVE AppHolds(u)' <=> AppHolds(u)
  OBVIOUS
<1>1. pc \in [Actors -> AppPCs \cup HsPCs]
  BY DEF TypeOK, ActorsTyped
<1>2. App(u) \in Actors /\ App(t) \in Actors /\ Hs(t) \in Actors
  BY ActorFacts
<1>3. App(u) # Hs(t)
  BY ActorFacts
<1>4. u # t => App(u) # App(t)
  BY ActorFacts
<1>5. CASE Goto(Hs(t), l)
  BY <1>1, <1>2, <1>3, <1>5 DEF Goto, AppHolds
<1>6. CASE Goto(App(t), l) /\ u # t
  BY <1>1, <1>2, <1>4, <1>6 DEF Goto, AppHolds
<1>7. CASE Goto(App(t), l) /\ u = t
  <2>1. pc'[App(u)] = l
    BY <1>1, <1>2, <1>7 DEF Goto
  <2> QED BY <1>3, <1>7, <2>1, <1>5 DEF AppHolds
<1> QED BY <1>5, <1>6, <1>7

\* A claim enters each direction it uses ...
LEMMA GrantHolders ==
  ASSUME ClaimInv, NEW t \in Threads, NEW a \in {App(t), Hs(t)}, ClaimGranted(a)
  PROVE  /\ Readers' = Readers \cup (IF UsesRead(OpOf(a)) THEN {a} ELSE {})
         /\ Writers' = Writers \cup (IF UsesWrite(OpOf(a)) THEN {a} ELSE {})
<1> DEFINE op == OpOf(a)
<1>1. call' = call
  BY DEF ClaimGranted
<1>2. pc \in [Actors -> AppPCs \cup HsPCs] /\ claimed \subseteq Threads
  BY DEF ClaimInv, TypeOK, ActorsTyped, HistoryTyped
<1> HIDE DEF op
<1>3. CASE a = App(t)
  <2>1. Goto(App(t), "io") /\ claimed' = claimed /\ op = call[t].op
    BY <1>3, ActorFacts DEF ClaimGranted, op
  <2>2. pc'[App(t)] = "io" /\ \A u \in Threads : u # t => pc'[App(u)] = pc[App(u)]
    BY <1>2, <2>1, ActorFacts DEF Goto
  <2>3. AppHolds(t)' /\ \A u \in Threads : u # t => (AppHolds(u)' <=> AppHolds(u))
    BY <2>2 DEF AppHolds
  <2>4. pc[App(t)] \in {"claim", "relock", "rejoin"}
    BY <1>3 DEF ClaimGranted, PastFinish, PastHandshake
  <2>5. ~AppHolds(t)
    BY <2>4 DEF AppHolds
  <2>6. Readers' = Readers \cup (IF UsesRead(op) THEN {a} ELSE {})
    BY <1>1, <1>3, <2>1, <2>3, <2>5 DEF Readers
  <2>7. Writers' = Writers \cup (IF UsesWrite(op) THEN {a} ELSE {})
    BY <1>1, <1>3, <2>1, <2>3, <2>5 DEF Writers
  <2> QED BY <2>6, <2>7 DEF op
<1>4. CASE a = Hs(t)
  <2>1. Goto(Hs(t), "start") /\ claimed' = claimed \cup {t} /\ op = "HANDSHAKE"
    BY <1>4, ActorFacts DEF ClaimGranted, op
  <2>2. \A u \in Threads : AppHolds(u)' <=> AppHolds(u)
    BY <2>1, GotoHolds DEF ClaimInv
  <2>3. UsesRead(op) /\ UsesWrite(op)
    BY <2>1 DEF UsesRead, UsesWrite
  <2>4. Readers' = Readers \cup {a} /\ Writers' = Writers \cup {a}
    BY <1>1, <1>4, <2>1, <2>2 DEF Readers, Writers
  <2> QED BY <2>3, <2>4 DEF op
<1> QED BY <1>3, <1>4

\* ... and finds it free.
LEMMA GrantStep ==
  ASSUME ClaimInv, NEW t \in Threads, NEW a \in {App(t), Hs(t)}, ClaimGranted(a)
  PROVE  (FlagsMatchClaims /\ ClaimsExcludeEachOther)'
<1> DEFINE op == OpOf(a)
<1>1. /\ UsesRead(op) => ~reading
      /\ UsesWrite(op) => ~writing
      /\ reading' = (reading \/ UsesRead(op))
      /\ writing' = (writing \/ UsesWrite(op))
      /\ stray_yield' = stray_yield
      /\ call' = call
  BY DEF ClaimGranted, Busy
<1>2. /\ Readers' = Readers \cup (IF UsesRead(op) THEN {a} ELSE {})
      /\ Writers' = Writers \cup (IF UsesWrite(op) THEN {a} ELSE {})
  BY GrantHolders
<1> HIDE DEF op
<1>3. CASE stray_yield
  BY <1>1, <1>3 DEF FlagsMatchClaims, ClaimsExcludeEachOther
<1>4. CASE ~stray_yield
  <2>1. /\ reading <=> Readers # {}
        /\ writing <=> Writers # {}
        /\ AtMostOne(Readers) /\ AtMostOne(Writers)
    BY <1>4 DEF ClaimInv, FlagsMatchClaims, ClaimsExcludeEachOther
  <2>2. AtMostOne(Readers') /\ (reading' <=> Readers' # {})
    BY <1>1, <1>2, <2>1 DEF AtMostOne
  <2>3. AtMostOne(Writers') /\ (writing' <=> Writers' # {})
    BY <1>1, <1>2, <2>1 DEF AtMostOne
  <2> QED BY <2>2, <2>3 DEF FlagsMatchClaims, ClaimsExcludeEachOther, AtMostOne
<1> QED BY <1>3, <1>4

\* An application operation that yields leaves the directions it used ...
LEMMA AppYieldHolders ==
  ASSUME ClaimInv, NEW t \in Threads, AppHolds(t), NEW l \in {"idle", "claim"},
         Goto(App(t), l), UNCHANGED <<call, claimed>>
  PROVE  Readers' = Readers \ {App(t)} /\ Writers' = Writers \ {App(t)}
<1>1. pc \in [Actors -> AppPCs \cup HsPCs] /\ claimed \subseteq Threads
  BY DEF ClaimInv, TypeOK, ActorsTyped, HistoryTyped
<1>2. pc'[App(t)] = l /\ \A u \in Threads : u # t => pc'[App(u)] = pc[App(u)]
  BY <1>1, ActorFacts DEF Goto
<1>3. ~AppHolds(t)' /\ \A u \in Threads : u # t => (AppHolds(u)' <=> AppHolds(u))
  BY <1>2 DEF AppHolds
<1>4. \A u \in Threads : u # t => App(u) # App(t)
  BY ActorFacts
<1>5. \A u \in Threads : Hs(u) # App(t)
  BY ActorFacts
<1> DEFINE R == {u \in Threads : AppHolds(u) /\ UsesRead(call[u].op)}
           W == {u \in Threads : AppHolds(u) /\ UsesWrite(call[u].op)}
<1>6. R' = R \ {t} /\ W' = W \ {t}
  BY <1>3
<1>7. R \subseteq Threads /\ W \subseteq Threads
  OBVIOUS
<1>8. /\ Readers = {App(u) : u \in R} \cup {Hs(u) : u \in claimed}
      /\ Writers = {App(u) : u \in W} \cup {Hs(u) : u \in claimed}
  BY DEF Readers, Writers
<1>9. /\ Readers' = {App(u) : u \in R'} \cup {Hs(u) : u \in claimed}
      /\ Writers' = {App(u) : u \in W'} \cup {Hs(u) : u \in claimed}
  BY DEF Readers, Writers
<1> HIDE DEF R, W
<1>10. Readers' = Readers \ {App(t)}
  BY <1>1, <1>4, <1>5, <1>6, <1>7, <1>8, <1>9
<1>11. Writers' = Writers \ {App(t)}
  BY <1>1, <1>4, <1>5, <1>6, <1>7, <1>8, <1>9
<1> QED BY <1>10, <1>11

\* ... empty.
LEMMA AppYieldStep ==
  ASSUME ClaimInv, NEW t \in Threads, AppHolds(t), NEW r, NEW l \in {"idle", "claim"},
         YieldOp(call[t].op, r), Goto(App(t), l), UNCHANGED <<call, claimed, stray_yield>>
  PROVE  (FlagsMatchClaims /\ ClaimsExcludeEachOther)'
<1> DEFINE op == call[t].op
<1>6. Readers' = Readers \ {App(t)} /\ Writers' = Writers \ {App(t)}
  BY AppYieldHolders
<1>7. /\ reading' = (reading /\ ~UsesRead(op))
      /\ writing' = (writing /\ ~UsesWrite(op))
  BY DEF YieldOp
<1>8. /\ App(t) \in Readers <=> UsesRead(op)
      /\ App(t) \in Writers <=> UsesWrite(op)
  BY HolderFacts
<1> HIDE DEF op
<1>9. CASE stray_yield
  BY <1>9 DEF FlagsMatchClaims, ClaimsExcludeEachOther
<1>10. CASE ~stray_yield
  <2>1. /\ reading <=> Readers # {}
        /\ writing <=> Writers # {}
        /\ AtMostOne(Readers) /\ AtMostOne(Writers)
    BY <1>10 DEF ClaimInv, FlagsMatchClaims, ClaimsExcludeEachOther
  <2>2. AtMostOne(Readers') /\ (reading' <=> Readers' # {})
    BY <1>6, <1>7, <1>8, <2>1 DEF AtMostOne
  <2>3. AtMostOne(Writers') /\ (writing' <=> Writers' # {})
    BY <1>6, <1>7, <1>8, <2>1 DEF AtMostOne
  <2> QED BY <2>2, <2>3 DEF FlagsMatchClaims, ClaimsExcludeEachOther, AtMostOne
<1> QED BY <1>9, <1>10

\* A handshake that had been claimed was alone in both directions.
LEMMA HandshakeAlone ==
  ASSUME ClaimInv, NEW t \in claimed, ~stray_yield
  PROVE  Readers = {Hs(t)} /\ Writers = {Hs(t)}
<1>1. AtMostOne(Readers) /\ AtMostOne(Writers)
  BY DEF ClaimInv, ClaimsExcludeEachOther
<1>2. t \in Threads
  BY DEF ClaimInv, TypeOK, HistoryTyped
<1>3. Hs(t) \in Readers /\ Hs(t) \in Writers
  BY <1>2, HolderFacts
<1> QED BY <1>1, <1>3 DEF AtMostOne

\* ... and leaves both empty.
LEMMA HandshakeYieldHolders ==
  ASSUME ClaimInv, NEW t \in Threads, YieldHandshake(t), UNCHANGED call,
         \A u \in Threads : AppHolds(u)' <=> AppHolds(u),
         ~stray_yield, t \in claimed
  PROVE  Readers' = {} /\ Writers' = {}
<1>1. claimed' = claimed \ {t}
  BY DEF YieldHandshake
<1>2. Readers \subseteq {Hs(t)} /\ Writers \subseteq {Hs(t)}
  BY HandshakeAlone
<1>3. claimed \subseteq Threads
  BY DEF ClaimInv, TypeOK, HistoryTyped
<1>4. \A u \in claimed : u = t
  <2> SUFFICES ASSUME NEW u \in claimed PROVE u = t
    OBVIOUS
  <2>1. u \in Threads /\ u \in claimed
    BY <1>3
  <2>2. Hs(u) \in Readers
    BY <2>1, HolderFacts
  <2>3. Hs(u) = Hs(t)
    BY <1>2, <2>2
  <2> QED BY <2>1, <2>3, ActorFacts
<1>5. claimed' = {}
  BY <1>1, <1>4
<1>6. \A u \in Threads : ~(AppHolds(u) /\ UsesRead(call[u].op))
  BY <1>2, HolderFacts, ActorFacts
<1>7. \A u \in Threads : ~(AppHolds(u) /\ UsesWrite(call[u].op))
  BY <1>2, HolderFacts, ActorFacts
<1>8. Readers' = {}
  BY <1>5, <1>6 DEF Readers
<1>9. Writers' = {}
  BY <1>5, <1>7 DEF Writers
<1> QED BY <1>8, <1>9

\* So its yield_op() keeps the flags exact; one that was never claimed voids all.
LEMMA HandshakeYieldStep ==
  ASSUME ClaimInv, NEW t \in Threads, YieldHandshake(t), UNCHANGED call,
         \A u \in Threads : AppHolds(u)' <=> AppHolds(u)
  PROVE  (FlagsMatchClaims /\ ClaimsExcludeEachOther)'
<1>1. ~reading' /\ ~writing'
  BY DEF YieldHandshake, YieldOp, UsesRead, UsesWrite
<1>2. /\ claimed' = claimed \ {t}
      /\ stray_yield' = (stray_yield \/ t \notin claimed)
  BY DEF YieldHandshake
<1>3. CASE stray_yield \/ t \notin claimed
  BY <1>2, <1>3 DEF FlagsMatchClaims, ClaimsExcludeEachOther
<1>4. CASE ~stray_yield /\ t \in claimed
  <2>1. Readers' = {} /\ Writers' = {}
    BY <1>4, HandshakeYieldHolders
  <2> QED BY <1>1, <2>1 DEF FlagsMatchClaims, ClaimsExcludeEachOther, AtMostOne
<1> QED BY <1>3, <1>4

\* claim_op() as a whole.
LEMMA ClaimStep ==
  ASSUME ClaimInv, NEW t \in Threads, NEW a \in {App(t), Hs(t)}, Claim(a)
  PROVE  (FlagsMatchClaims /\ ClaimsExcludeEachOther)'
<1>1. CASE ClaimGranted(a)
  BY <1>1, GrantStep
<1>2. CASE \/ ClaimRejected(a) \/ DivertToFinish(a) \/ ClaimRefused(a)
           \/ ClaimBusy(a) \/ WaitEnds(a) \/ WaitExpires(a)
  <2>1. UNCHANGED <<reading, writing, claimed, stray_yield, call>>
    BY <1>2 DEF ClaimRejected, DivertToFinish, ClaimRefused, ClaimBusy, WaitEnds,
      WaitExpires, dirVars, ghostVars
  <2>2. pc[a] \notin {"io", "closed"}
    BY <1>2 DEF ClaimRejected, DivertToFinish, ClaimRefused, ClaimBusy, WaitEnds,
      WaitExpires, PastFinish, PastHandshake
  <2>3. a = App(t) => ~AppHolds(t)
    BY <2>2 DEF AppHolds
  <2>4. \E l : /\ Goto(a, l)
               /\ a = App(t) => l \notin {"io", "closed"}
    BY <1>2, ActorFacts DEF ClaimRejected, DivertToFinish, ClaimRefused, ClaimBusy,
      WaitEnds, WaitExpires, Fail
  <2>5. \A u \in Threads : AppHolds(u)' <=> AppHolds(u)
    BY <2>3, <2>4, GotoHolds DEF ClaimInv
  <2> QED BY <2>1, <2>5, QuietStep
<1> QED BY <1>1, <1>2 DEF Claim

\* A step that moves two program counters.
LEMMA TwoGotosHold ==
  ASSUME TypeOK, NEW t \in Threads, NEW l, NEW k,
         pc[App(t)] \notin {"io", "closed"}, l \notin {"io", "closed"},
         pc' = [pc EXCEPT ![App(t)] = l, ![Hs(t)] = k]
  PROVE  \A u \in Threads : AppHolds(u)' <=> AppHolds(u)
<1> SUFFICES ASSUME NEW u \in Threads PROVE AppHolds(u)' <=> AppHolds(u)
  OBVIOUS
<1>1. pc \in [Actors -> AppPCs \cup HsPCs]
  BY DEF TypeOK, ActorsTyped
<1>2. /\ App(u) \in Actors /\ App(t) \in Actors /\ Hs(t) \in Actors
      /\ App(u) # Hs(t) /\ App(t) # Hs(t)
      /\ u # t => App(u) # App(t)
  BY ActorFacts
<1>3. u # t => pc'[App(u)] = pc[App(u)]
  BY <1>1, <1>2
<1>4. u = t => pc'[App(u)] = l
  BY <1>1, <1>2
<1> QED BY <1>3, <1>4 DEF AppHolds

LEMMA AppCallKeepsClaims ==
  ASSUME ClaimInv, NEW t \in Threads, AppCall(t)
  PROVE  (FlagsMatchClaims /\ ClaimsExcludeEachOther)'
<1>0. TypeOK /\ call \in [Threads -> [op : Ops, timeout : Timeouts]]
  BY DEF ClaimInv, TypeOK, ActorsTyped
<1>1. CASE Begin(t)
  <2>1. Goto(App(t), "claim") /\ ~AppHolds(t)
    BY <1>1 DEF Begin, Issue, AppHolds
  <2>2. \A u \in Threads : AppHolds(u)' <=> AppHolds(u)
    BY <1>0, <2>1, GotoHolds
  <2>3. \A u \in Threads : AppHolds(u) => call'[u] = call[u]
    BY <1>0, <1>1, <2>1 DEF Begin
  <2> QED BY <1>1, <2>2, <2>3, QuietStep DEF Begin, dirVars, ghostVars
<1>2. CASE Handshake(t)
  <2>1. pc[App(t)] = "idle" /\ ~AppHolds(t)
    BY <1>2 DEF Handshake, Issue, AppHolds
  <2>2. \E l \in {"crank", "idle"} :
          pc' = [pc EXCEPT ![App(t)] = l, ![Hs(t)] = "queued"]
    BY <1>2 DEF Handshake
  <2>3. \A u \in Threads : AppHolds(u)' <=> AppHolds(u)
    BY <1>0, <2>1, <2>2, TwoGotosHold
  <2>4. \A u \in Threads : AppHolds(u) => call'[u] = call[u]
    BY <1>0, <1>2, <2>1 DEF Handshake
  <2> QED BY <1>2, <2>3, <2>4, QuietStep DEF Handshake, dirVars, ghostVars
<1>3. CASE Cancel(t) \/ AssertionFails(t)
  <2>1. UNCHANGED <<reading, writing, claimed, stray_yield, call, pc>>
    BY <1>3 DEF Cancel, AssertionFails, dirVars, ctlVars, ghostVars
  <2>2. \A u \in Threads : AppHolds(u)' <=> AppHolds(u)
    BY <2>1 DEF AppHolds
  <2> QED BY <2>1, <2>2, QuietStep
<1> QED BY <1>1, <1>2, <1>3 DEF AppCall

LEMMA AppStepKeepsClaims ==
  ASSUME ClaimInv, NEW t \in Threads, AppStep(t)
  PROVE  (FlagsMatchClaims /\ ClaimsExcludeEachOther)'
<1>0. TypeOK
  BY DEF ClaimInv
<1>1. CASE Claim(App(t))
  BY <1>1, ClaimStep
<1>2. CASE ImplicitHandshakeSync(t) \/ ImplicitHandshakeAsync(t) \/ SyncFinish(t)
  <2>1. UNCHANGED <<reading, writing, claimed, stray_yield, call>>
    BY <1>2 DEF ImplicitHandshakeSync, ImplicitHandshakeAsync, SyncFinish, dirVars, ghostVars
  <2>2. pc[App(t)] \notin {"io", "closed"}
    BY <1>2 DEF ImplicitHandshakeSync, ImplicitHandshakeAsync, SyncFinish
  <2>3. \E l \in {"crank", "idle", "hsyield"} : \E k :
          pc' = [pc EXCEPT ![App(t)] = l, ![Hs(t)] = k]
    BY <1>2 DEF ImplicitHandshakeSync, ImplicitHandshakeAsync, SyncFinish
  <2>4. \A u \in Threads : AppHolds(u)' <=> AppHolds(u)
    BY <1>0, <2>2, <2>3, TwoGotosHold
  <2> QED BY <2>1, <2>4, QuietStep
<1>3. CASE FinishImplicit(t) \/ RejoinCancelled(t)
  <2>1. UNCHANGED <<reading, writing, claimed, stray_yield, call>>
    BY <1>3 DEF FinishImplicit, RejoinCancelled, dirVars, ghostVars
  <2>2. ~AppHolds(t) /\ \E l \in {"rejoin", "idle"} : Goto(App(t), l)
    BY <1>3, ActorFacts DEF FinishImplicit, RejoinCancelled, Fail, AppHolds
  <2>3. \A u \in Threads : AppHolds(u)' <=> AppHolds(u)
    BY <1>0, <2>2, GotoHolds
  <2> QED BY <2>1, <2>3, QuietStep
<1>4. CASE CloseFlags(t)
  <2>1. UNCHANGED <<reading, writing, claimed, stray_yield, call>>
    BY <1>4 DEF CloseFlags, dirVars, ghostVars
  <2>2. AppHolds(t) /\ Goto(App(t), "closed")
    BY <1>4 DEF CloseFlags, AppHolds
  <2>3. \A u \in Threads : AppHolds(u)' <=> AppHolds(u)
    BY <1>0, <2>2, GotoHolds
  <2> QED BY <2>1, <2>3, QuietStep
<1>5. CASE DataDone(t) \/ CloseDone(t)
  <2>1. AppHolds(t) /\ UNCHANGED <<call, claimed, stray_yield>>
    BY <1>5 DEF DataDone, CloseDone, AppHolds, ghostVars
  <2>2. \E r \in BOOLEAN, l \in {"idle", "claim"} : YieldOp(call[t].op, r) /\ Goto(App(t), l)
    BY <1>5 DEF DataDone, CloseDone
  <2> QED BY <2>1, <2>2, AppYieldStep
<1>6. CASE SyncYield(t)
  <2>1. YieldHandshake(t) /\ UNCHANGED call
    BY <1>6 DEF SyncYield
  <2>2. ~AppHolds(t) /\ \E l \in {"relock", "idle"} : Goto(App(t), l)
    BY <1>6 DEF SyncYield, AppHolds
  <2>3. \A u \in Threads : AppHolds(u)' <=> AppHolds(u)
    BY <1>0, <2>2, GotoHolds
  <2> QED BY <2>1, <2>3, HandshakeYieldStep
<1> QED BY <1>1, <1>2, <1>3, <1>4, <1>5, <1>6 DEF AppStep

LEMMA WorkerStepKeepsClaims ==
  ASSUME ClaimInv, NEW t \in Threads, WorkerStep(t)
  PROVE  (FlagsMatchClaims /\ ClaimsExcludeEachOther)'
<1>0. TypeOK
  BY DEF ClaimInv
<1>1. CASE Claim(Hs(t))
  BY <1>1, ClaimStep
<1>2. CASE \/ ThreadStarts(t) \/ HandshakeBegins(t) \/ HandshakeEnds(t)
           \/ AsyncMark(t) \/ AsyncCompleted(t)
  <2>1. UNCHANGED <<reading, writing, claimed, stray_yield, call>>
    BY <1>2 DEF ThreadStarts, HandshakeBegins, HandshakeEnds, AsyncMark, AsyncCompleted,
      dirVars, ghostVars
  <2>2. \E l : Goto(Hs(t), l)
    BY <1>2 DEF ThreadStarts, HandshakeBegins, HandshakeEnds, AsyncMark, AsyncCompleted, Fail
  <2>3. \A u \in Threads : AppHolds(u)' <=> AppHolds(u)
    BY <1>0, <2>2, GotoHolds
  <2> QED BY <2>1, <2>3, QuietStep
<1>3. CASE AsyncYield(t)
  <2>1. YieldHandshake(t) /\ UNCHANGED call /\ \E l : Goto(Hs(t), l)
    BY <1>3 DEF AsyncYield
  <2>2. \A u \in Threads : AppHolds(u)' <=> AppHolds(u)
    BY <1>0, <2>1, GotoHolds
  <2> QED BY <2>1, <2>2, HandshakeYieldStep
<1> QED BY <1>1, <1>2, <1>3 DEF WorkerStep

LEMMA ClaimInvariant == Spec => []ClaimInv
<1>1. Init => ClaimInv
  <2> SUFFICES ASSUME Init PROVE ClaimInv
    OBVIOUS
  <2>1. claimed = {} /\ ~reading /\ ~writing
    BY DEF Init
  <2>2. \A u \in Threads : ~AppHolds(u)
    BY ActorFacts DEF Init, AppHolds
  <2>3. Readers = {} /\ Writers = {}
    BY <2>1, <2>2 DEF Readers, Writers
  <2> QED
    BY <2>1, <2>3, InitTyped DEF ClaimInv, FlagsMatchClaims, ClaimsExcludeEachOther, AtMostOne
<1>2. TypeOK /\ TypeOK' /\ ClaimInv /\ [Next]_vars => ClaimInv'
  <2> SUFFICES ASSUME TypeOK', ClaimInv, [Next]_vars PROVE ClaimInv'
    OBVIOUS
  <2>1. CASE UNCHANGED vars
    <3>1. UNCHANGED <<reading, writing, claimed, stray_yield, call, pc>>
      BY <2>1 DEF vars, dirVars, ctlVars, ghostVars
    <3>2. \A u \in Threads : AppHolds(u)' <=> AppHolds(u)
      BY <3>1 DEF AppHolds
    <3>3. (FlagsMatchClaims /\ ClaimsExcludeEachOther)'
      BY <3>1, <3>2, QuietStep
    <3> QED BY <3>3 DEF ClaimInv
  <2>2. CASE Next
    <3>1. (FlagsMatchClaims /\ ClaimsExcludeEachOther)'
      BY <2>2, AppCallKeepsClaims, AppStepKeepsClaims, WorkerStepKeepsClaims DEF Next
    <3> QED BY <3>1 DEF ClaimInv
  <2> QED BY <2>1, <2>2
<1> QED BY <1>1, <1>2, TypeCorrect, PTL DEF Spec

\* Two threads are never inside the backend in the same direction, as long as no
\* handshake was yielded that had never been claimed: the exclusion that reading,
\* writing and handshaking are there for, for any number of threads.
THEOREM Exclusion == Spec => []ClaimsExcludeEachOther
<1>1. ClaimInv => ClaimsExcludeEachOther
  BY DEF ClaimInv
<1> QED BY <1>1, ClaimInvariant, PTL

\* ... and the flags are exact: none is left behind, none is dropped early.
THEOREM FlagsExact == Spec => []FlagsMatchClaims
<1>1. ClaimInv => FlagsMatchClaims
  BY DEF ClaimInv
<1> QED BY <1>1, ClaimInvariant, PTL

-----------------------------------------------------------------------------
(***************************************************************************)
(* One handshake at a time.  handshake_context is not taken under a lock:  *)
(* what keeps handshakes apart is that it is set by whoever starts one     *)
(* (after an assertion that it is NULL) and dropped by whoever finishes    *)
(* it.  ContextInv names the owner of the context at every moment.         *)
(***************************************************************************)
\* t has started a handshake that nobody has finished.
Owns(t) ==
  \/ Running(t)
  \/ pc[Hs(t)] \in {"done", "mark", "complete"}
  \/ pc[Hs(t)] = "yield" /\ ~task[t].implicit
  \/ implicit_handshake = t

OneOwner == \A t, u \in Threads : Owns(t) /\ Owns(u) => t = u

OwnContext ==
  \A t \in Threads :
    Owns(t) => handshake_context = IF task[t].async THEN MainContextOf[t] ELSE t

TaskKinds ==
  \A t \in Threads :
    /\ pc[Hs(t)] = "done" => ~task[t].async
    /\ pc[Hs(t)] \in {"mark", "yield", "complete"} => task[t].async
    /\ pc[Hs(t)] = "complete" => ~task[t].implicit
    /\ implicit_handshake = t => task[t].implicit
    /\ (Running(t) \/ pc[Hs(t)] \in {"done", "mark"}) /\ task[t].implicit
         => implicit_handshake = t
    /\ pc[App(t)] = "hsyield" => implicit_handshake # t /\ pc[Hs(t)] = "idle"

\* The handshake of t is over and waits for finish_handshake().
Over(t) ==
  \/ implicit_handshake = t /\ pc[Hs(t)] \in {"yield", "idle"}
  \/ ~task[t].implicit /\ pc[Hs(t)] \in {"yield", "complete"}

FinishOnce ==
  /\ need_finish_handshake => \E t \in Threads : Over(t)
  /\ \A t \in Threads :
       ~task[t].implicit /\ pc[Hs(t)] \in {"yield", "complete"} => need_finish_handshake
  /\ \A t \in Threads :
       pc[App(t)] = "finish" => /\ ~need_finish_handshake
                                /\ implicit_handshake # NoThread
                                /\ pc[Hs(implicit_handshake)] \in {"yield", "idle"}
  /\ \A t, u \in Threads : pc[App(t)] = "finish" /\ pc[App(u)] = "finish" => t = u

FreshStart ==
  \A t \in Threads :
    /\ pc[Hs(t)] = "start" => ~handshake_error
    /\ pc[Hs(t)] = "io" => started_handshake
    /\ Running(t) => result[Hs(t)] = "none"
    /\ Owns(t) /\ result[Hs(t)] = "failed" => started_handshake

ContextInv == TypeOK /\ OneOwner /\ OwnContext /\ TaskKinds /\ FinishOnce /\ FreshStart

\* What a step of one actor leaves alone.
LEMMA GotoHs ==
  ASSUME TypeOK, NEW t \in Threads, NEW l, Goto(Hs(t), l)
  PROVE  /\ pc'[Hs(t)] = l
         /\ \A u \in Threads : u # t => pc'[Hs(u)] = pc[Hs(u)]
         /\ \A u \in Threads : pc'[App(u)] = pc[App(u)]
BY ActorFacts DEF Goto, TypeOK, ActorsTyped

LEMMA GotoApp ==
  ASSUME TypeOK, NEW t \in Threads, NEW l, Goto(App(t), l)
  PROVE  /\ pc'[App(t)] = l
         /\ \A u \in Threads : u # t => pc'[App(u)] = pc[App(u)]
         /\ \A u \in Threads : pc'[Hs(u)] = pc[Hs(u)]
BY ActorFacts DEF Goto, TypeOK, ActorsTyped

LEMMA TwoGotos ==
  ASSUME TypeOK, NEW t \in Threads, NEW l, NEW k,
         pc' = [pc EXCEPT ![App(t)] = l, ![Hs(t)] = k]
  PROVE  /\ pc'[App(t)] = l /\ pc'[Hs(t)] = k
         /\ \A u \in Threads : u # t => pc'[App(u)] = pc[App(u)] /\ pc'[Hs(u)] = pc[Hs(u)]
<1>1. pc \in [Actors -> AppPCs \cup HsPCs]
  BY DEF TypeOK, ActorsTyped
<1>2. App(t) \in Actors /\ Hs(t) \in Actors /\ App(t) # Hs(t)
  BY ActorFacts
<1>3. \A u \in Threads : /\ App(u) \in Actors /\ Hs(u) \in Actors
                         /\ App(u) # Hs(t) /\ App(t) # Hs(u)
                         /\ u # t => App(u) # App(t) /\ Hs(u) # Hs(t)
  BY ActorFacts
<1>4. pc'[App(t)] = l /\ pc'[Hs(t)] = k
  BY <1>1, <1>2
<1>5. \A u \in Threads : u # t => pc'[App(u)] = pc[App(u)] /\ pc'[Hs(u)] = pc[Hs(u)]
  BY <1>1, <1>2, <1>3
<1> QED BY <1>4, <1>5

\* The conjuncts of ContextInv, about pc, task and result only at the actors.
LEMMA QuietContext ==
  ASSUME ContextInv,
         UNCHANGED <<need_finish_handshake, handshake_context, implicit_handshake,
                     started_handshake, handshake_error, task>>,
         \A u \in Threads : /\ pc'[Hs(u)] = pc[Hs(u)]
                            /\ result'[Hs(u)] = result[Hs(u)]
                            /\ pc'[App(u)] \in {"finish", "hsyield"} => pc'[App(u)] = pc[App(u)]
  PROVE  (OneOwner /\ OwnContext /\ TaskKinds /\ FinishOnce /\ FreshStart)'
<1>1. \A u \in Threads : /\ Running(u)' <=> Running(u)
                         /\ Owns(u)' <=> Owns(u)
                         /\ Over(u)' <=> Over(u)
  BY DEF Running, Owns, Over
<1>2. OneOwner' /\ OwnContext'
  BY <1>1 DEF ContextInv, OneOwner, OwnContext
<1>3. TaskKinds'
  BY <1>1 DEF ContextInv, TaskKinds
<1>4. FinishOnce'
  <2>1. FinishOnce
    BY DEF ContextInv
  <2>2. implicit_handshake # NoThread => implicit_handshake \in Threads
    BY DEF ContextInv, TypeOK, ContextsTyped
  <2>3. (need_finish_handshake => \E t \in Threads : Over(t))'
    BY <1>1, <2>1 DEF FinishOnce
  <2>4. (\A t \in Threads :
          ~task[t].implicit /\ pc[Hs(t)] \in {"yield", "complete"} => need_finish_handshake)'
    BY <2>1 DEF FinishOnce
  <2>5. \A t \in Threads : pc'[App(t)] = "finish" => pc[App(t)] = "finish"
    OBVIOUS
  <2>6. (\A t \in Threads :
          pc[App(t)] = "finish" => /\ ~need_finish_handshake
                                   /\ implicit_handshake # NoThread
                                   /\ pc[Hs(implicit_handshake)] \in {"yield", "idle"})'
    BY <2>1, <2>2, <2>5 DEF FinishOnce
  <2>7. (\A t, u \in Threads : pc[App(t)] = "finish" /\ pc[App(u)] = "finish" => t = u)'
    BY <2>1, <2>5 DEF FinishOnce
  <2> QED BY <2>3, <2>4, <2>6, <2>7 DEF FinishOnce
<1>5. FreshStart'
  BY <1>1 DEF ContextInv, FreshStart
<1> QED BY <1>2, <1>3, <1>4, <1>5

\* The owner is alone.
LEMMA OwnerAlone ==
  ASSUME ContextInv, NEW t \in Threads, Owns(t)
  PROVE  \A u \in Threads :
           u # t => /\ ~Owns(u) /\ ~Over(u) /\ ~Running(u)
                    /\ pc[Hs(u)] \notin {"done", "mark", "complete"}
                    /\ pc[Hs(u)] = "yield" => task[u].implicit
                    /\ implicit_handshake # u
<1>1. \A u \in Threads : u # t => ~Owns(u)
  BY DEF ContextInv, OneOwner
<1> QED BY <1>1 DEF Owns, Over

\* Without a context there is no handshake to finish, and nobody finishing one.
LEMMA NoOwner ==
  ASSUME ContextInv, handshake_context = NoThread
  PROVE  /\ implicit_handshake = NoThread
         /\ ~need_finish_handshake
         /\ \A u \in Threads : ~Owns(u) /\ pc[App(u)] # "finish"
<1>1. \A u \in Threads : ~Owns(u)
  BY ThreadsAssumption, ContextsAssumption DEF ContextInv, OwnContext
<1>2. implicit_handshake \notin Threads
  BY <1>1 DEF Owns
<1>3. implicit_handshake = NoThread
  BY <1>2 DEF ContextInv, TypeOK, ContextsTyped
<1>4. \A u \in Threads : ~Over(u)
  BY <1>1 DEF Owns, Over
<1>5. ~need_finish_handshake
  BY <1>4 DEF ContextInv, FinishOnce
<1>6. \A u \in Threads : pc[App(u)] # "finish"
  BY <1>3 DEF ContextInv, FinishOnce
<1> QED BY <1>1, <1>3, <1>5, <1>6

\* A worker moves on within handshake_thread(), or leaves it.
LEMMA RunningStep ==
  ASSUME ContextInv, NEW t \in Threads, Running(t), NEW l, Goto(Hs(t), l),
         l \in {"claim", "wait", "start", "io"} \/ l = AfterThread(t),
         UNCHANGED <<need_finish_handshake, handshake_context, implicit_handshake, task>>
  PROVE  (OneOwner /\ OwnContext /\ TaskKinds /\ FinishOnce)'
<1>0. /\ TypeOK /\ Owns(t)
      /\ OneOwner /\ OwnContext /\ TaskKinds /\ FinishOnce
  BY DEF ContextInv, Owns
<1>1. /\ pc'[Hs(t)] = l
      /\ \A u \in Threads : u # t => pc'[Hs(u)] = pc[Hs(u)]
      /\ \A u \in Threads : pc'[App(u)] = pc[App(u)]
  BY <1>0, GotoHs
<1>2. \A u \in Threads : u # t => (Owns(u)' <=> Owns(u))
  BY <1>1 DEF Owns, Running
<1>3. OneOwner' /\ OwnContext'
  BY <1>0, <1>2 DEF OneOwner, OwnContext
<1>4. TaskKinds'
  <2>1. ASSUME NEW u \in Threads, u # t
        PROVE  /\ Running(u)' <=> Running(u)
               /\ pc'[Hs(u)] = pc[Hs(u)] /\ pc'[App(u)] = pc[App(u)]
    BY <1>1, <2>1 DEF Running
  <2>2. /\ l = "done" => ~task[t].async
        /\ l \in {"mark", "yield", "complete"} => l = "mark" /\ task[t].async
        /\ task[t].implicit <=> implicit_handshake = t
    BY <1>0 DEF AfterThread, TaskKinds, ContextInv, TypeOK, ActorsTyped
  <2>3. pc[App(t)] # "hsyield"
    BY <1>0 DEF TaskKinds, Running
  <2> QED BY <1>0, <1>1, <2>1, <2>2, <2>3 DEF TaskKinds
<1>5. FinishOnce'
  <2>1. \A u \in Threads : ~Over(u)
    BY <1>0, OwnerAlone DEF Over, Running, TaskKinds
  <2>2. ~need_finish_handshake
    BY <1>0, <2>1 DEF FinishOnce
  <2>3. \A u \in Threads : ~(~task[u].implicit /\ pc'[Hs(u)] \in {"yield", "complete"})
    BY <1>0, <1>1, OwnerAlone DEF AfterThread
  <2>4. \A u \in Threads : pc[App(u)] # "finish"
    <3> SUFFICES ASSUME NEW u \in Threads, pc[App(u)] = "finish" PROVE FALSE
      OBVIOUS
    <3>1. implicit_handshake \in Threads /\ pc[Hs(implicit_handshake)] \in {"yield", "idle"}
      BY <1>0 DEF FinishOnce, TypeOK, ContextsTyped
    <3>2. implicit_handshake = t
      BY <1>0, <3>1, OwnerAlone
    <3> QED BY <3>1, <3>2 DEF Running
  <2> QED BY <1>1, <2>2, <2>3, <2>4 DEF FinishOnce
<1> QED BY <1>3, <1>4, <1>5

\* FreshStart is about the owner alone.
LEMMA FreshOwner ==
  ASSUME ContextInv, NEW t \in Threads, Owns(t),
         UNCHANGED <<implicit_handshake, task>>,
         \A u \in Threads : u # t => pc'[Hs(u)] = pc[Hs(u)],
         pc'[Hs(t)] = "start" => ~handshake_error',
         pc'[Hs(t)] = "io" => started_handshake',
         Running(t)' => result'[Hs(t)] = "none",
         Owns(t)' /\ result'[Hs(t)] = "failed" => started_handshake'
  PROVE  FreshStart'
<1>1. \A u \in Threads : u # t => ~Owns(u)' /\ ~Running(u)'
  BY OwnerAlone DEF Owns, Running
<1> QED BY <1>1 DEF FreshStart, Running

ContextParts == OneOwner /\ OwnContext /\ TaskKinds /\ FinishOnce /\ FreshStart

\* claim_op() in a worker.
LEMMA WorkerClaimContext ==
  ASSUME ContextInv, NEW t \in Threads, Claim(Hs(t))
  PROVE  ContextParts'
<1> DEFINE a == Hs(t)
<1>0. /\ TypeOK /\ FreshStart
      /\ pc[a] \in HsPCs
  BY DEF ContextInv, TypeOK, ActorsTyped
<1>1. pc[a] \in {"claim", "wait"}
  <2>1. pc[a] \in {"claim", "wait", "relock", "rejoin"}
    BY DEF Claim, ClaimRejected, DivertToFinish, ClaimRefused, ClaimBusy, ClaimGranted,
      WaitEnds, WaitExpires, PastFinish, PastHandshake
  <2> QED BY <1>0, <2>1 DEF HsPCs
<1>2. Running(t) /\ Owns(t) /\ result[a] = "none"
  BY <1>0, <1>1 DEF Running, Owns, FreshStart
<1>3. ~DivertToFinish(a)
  BY ActorFacts DEF DivertToFinish, Diverted
<1>4. UNCHANGED <<need_finish_handshake, handshake_context, implicit_handshake, task,
                  started_handshake, handshake_error>>
  BY <1>3 DEF Claim, ClaimRejected, ClaimRefused, ClaimBusy, ClaimGranted, WaitEnds,
    WaitExpires, hsVars, ctxVars
<1>5. CASE ClaimGranted(a)
  <2>1. Goto(a, "start") /\ result' = result
    BY <1>5, ActorFacts DEF ClaimGranted
  <2>2. ~handshake_error
    BY <1>0, <1>1, <1>5, ActorFacts DEF ClaimGranted, PastFinish, PastHandshake, Rejected,
      IsClose, CloseOps, HsPCs
  <2>3. (OneOwner /\ OwnContext /\ TaskKinds /\ FinishOnce)'
    BY <1>2, <1>4, <2>1, RunningStep
  <2>4. FreshStart'
    BY <1>0, <1>2, <1>4, <2>1, <2>2, FreshOwner, GotoHs
  <2> QED BY <2>3, <2>4 DEF ContextParts
<1>6. CASE (ClaimBusy(a) /\ Goto(a, "wait") /\ result' = result) \/ WaitEnds(a)
  <2>1. \E l \in {"wait", "claim"} : Goto(a, l) /\ result' = result
    BY <1>6 DEF WaitEnds
  <2>2. (OneOwner /\ OwnContext /\ TaskKinds /\ FinishOnce)'
    BY <1>2, <1>4, <2>1, RunningStep
  <2>3. FreshStart'
    BY <1>0, <1>2, <1>4, <2>1, FreshOwner, GotoHs
  <2> QED BY <2>2, <2>3 DEF ContextParts
<1>7. CASE \E r \in {"error", "refused", "wouldblock"} : Fail(a, r)
  <2>1. /\ Goto(a, AfterThread(t))
        /\ \E r \in {"error", "refused", "wouldblock"} : result' = [result EXCEPT ![a] = r]
    BY <1>7, ActorFacts DEF Fail
  <2>2. (OneOwner /\ OwnContext /\ TaskKinds /\ FinishOnce)'
    BY <1>2, <1>4, <2>1, RunningStep
  <2>3. pc'[a] = AfterThread(t) /\ \A u \in Threads : u # t => pc'[Hs(u)] = pc[Hs(u)]
    BY <1>0, <2>1, GotoHs
  <2>4. pc'[a] \in {"mark", "done"} /\ result'[a] # "failed"
    BY <1>0, <2>1, <2>3, ActorFacts DEF AfterThread, TypeOK, ActorsTyped
  <2>5. FreshStart'
    BY <1>2, <1>4, <2>3, <2>4, FreshOwner DEF Running
  <2> QED BY <2>2, <2>5 DEF ContextParts
<1>8. \/ ClaimGranted(a)
      \/ (ClaimBusy(a) /\ Goto(a, "wait") /\ result' = result) \/ WaitEnds(a)
      \/ \E r \in {"error", "refused", "wouldblock"} : Fail(a, r)
  BY <1>3 DEF Claim, ClaimRejected, ClaimRefused, ClaimBusy, WaitExpires
<1> QED BY <1>5, <1>6, <1>7, <1>8

\* The rest of handshake_thread().
LEMMA ThreadContext ==
  ASSUME ContextInv, NEW t \in Threads,
         ThreadStarts(t) \/ HandshakeBegins(t) \/ HandshakeEnds(t)
  PROVE  ContextParts'
<1>0. /\ TypeOK /\ FreshStart
      /\ result \in [Actors -> Results] /\ Hs(t) \in Actors
  BY ActorFacts DEF ContextInv, TypeOK, ActorsTyped
<1>1. Running(t) /\ Owns(t)
  BY DEF ThreadStarts, HandshakeBegins, HandshakeEnds, Running, Owns
<1>2. UNCHANGED <<need_finish_handshake, handshake_context, implicit_handshake, task>>
  BY DEF ThreadStarts, HandshakeBegins, HandshakeEnds, ctxVars
<1>3. result[Hs(t)] = "none"
  BY <1>0, <1>1 DEF FreshStart
<1>4. \E l : Goto(Hs(t), l) /\ (l \in {"claim", "io"} \/ l = AfterThread(t))
  BY ActorFacts DEF ThreadStarts, HandshakeBegins, HandshakeEnds, Fail
<1>5. (OneOwner /\ OwnContext /\ TaskKinds /\ FinishOnce)'
  BY <1>1, <1>2, <1>4, RunningStep
<1>6. \A u \in Threads : u # t => pc'[Hs(u)] = pc[Hs(u)]
  BY <1>0, <1>4, GotoHs
<1>7. CASE ThreadStarts(t)
  <2>1. pc'[Hs(t)] = "claim" /\ result' = result
    BY <1>0, <1>7, GotoHs DEF ThreadStarts
  <2>2. FreshStart'
    BY <1>1, <1>2, <1>3, <1>6, <2>1, FreshOwner
  <2> QED BY <1>5, <2>2 DEF ContextParts
<1>8. CASE HandshakeBegins(t)
  <2>1. ~handshake_error'
    BY <1>8 DEF HandshakeBegins
  <2>2. \/ pc'[Hs(t)] = "io" /\ started_handshake' /\ result' = result
        \/ pc'[Hs(t)] \in {"mark", "done"} /\ result'[Hs(t)] = "error"
    BY <1>0, <1>8, ActorFacts, GotoHs DEF HandshakeBegins, Fail, AfterThread
  <2>3. FreshStart'
    BY <1>1, <1>2, <1>3, <1>6, <2>1, <2>2, FreshOwner DEF Running
  <2> QED BY <1>5, <2>3 DEF ContextParts
<1>9. CASE HandshakeEnds(t)
  <2>1. pc'[Hs(t)] \in {"mark", "done"}
    BY <1>0, <1>9, GotoHs DEF HandshakeEnds, AfterThread
  <2>2. started_handshake'
    BY <1>0, <1>9 DEF HandshakeEnds, FreshStart
  <2>3. FreshStart'
    BY <1>1, <1>2, <1>6, <2>1, <2>2, FreshOwner DEF Running
  <2> QED BY <1>5, <2>3 DEF ContextParts
<1> QED BY <1>7, <1>8, <1>9

\* While t owns an unfinished context nobody else is finishing one.
LEMMA NobodyFinishes ==
  ASSUME ContextInv, NEW t \in Threads, Owns(t),
         pc[Hs(t)] \notin {"yield", "idle"} \/ implicit_handshake # t
  PROVE  \A u \in Threads : pc[App(u)] # "finish"
<1> SUFFICES ASSUME NEW u \in Threads, pc[App(u)] = "finish" PROVE FALSE
  OBVIOUS
<1>1. implicit_handshake \in Threads /\ pc[Hs(implicit_handshake)] \in {"yield", "idle"}
  BY DEF ContextInv, FinishOnce, TypeOK, ContextsTyped
<1>2. implicit_handshake = t
  BY <1>1, OwnerAlone
<1> QED BY <1>1, <1>2

\* A context is dropped by its only owner.
LEMMA DropContext ==
  ASSUME ContextInv, NEW t \in Threads, Owns(t),
         ~need_finish_handshake',
         handshake_context' = NoThread, implicit_handshake' = NoThread,
         UNCHANGED <<task, started_handshake>>,
         \A u \in Threads : u # t => /\ pc'[Hs(u)] = pc[Hs(u)]
                                     /\ result'[Hs(u)] = result[Hs(u)],
         \/ pc'[Hs(t)] = "idle"
         \/ pc'[Hs(t)] = "yield" /\ pc[Hs(t)] = "yield" /\ task[t].implicit,
         \A u \in Threads : pc'[App(u)] # "finish",
         \A u \in Threads : pc'[App(u)] = "hsyield" => pc'[Hs(u)] = "idle"
  PROVE  ContextParts'
<1>0. TaskKinds /\ NoThread \notin Threads
  BY ThreadsAssumption DEF ContextInv
<1>1. \A u \in Threads : ~Owns(u)' /\ ~Running(u)'
  <2>1. ~Owns(t)' /\ ~Running(t)'
    BY <1>0 DEF Owns, Running
  <2>2. \A u \in Threads : u # t => ~Owns(u)' /\ ~Running(u)'
    BY <1>0, OwnerAlone DEF Owns, Running
  <2> QED BY <2>1, <2>2
<1>2. OneOwner' /\ OwnContext'
  BY <1>1 DEF OneOwner, OwnContext
<1>3. TaskKinds'
  BY <1>0, <1>1 DEF TaskKinds, Owns
<1>4. FinishOnce'
  BY <1>1 DEF FinishOnce, Owns
<1>5. FreshStart'
  BY <1>1 DEF FreshStart, Running
<1> QED BY <1>2, <1>3, <1>4, <1>5 DEF ContextParts

LEMMA AsyncMarkContext ==
  ASSUME ContextInv, NEW t \in Threads, AsyncMark(t)
  PROVE  ContextParts'
<1>0. /\ TypeOK /\ TaskKinds /\ OneOwner /\ OwnContext /\ FreshStart
      /\ pc[Hs(t)] = "mark" /\ Owns(t)
  BY DEF ContextInv, AsyncMark, Owns
<1>1. /\ UNCHANGED <<handshake_context, implicit_handshake, task, result,
                     started_handshake, handshake_error>>
      /\ need_finish_handshake' = TRUE /\ Goto(Hs(t), "yield")
  BY DEF AsyncMark, ctxVars
<1>2. /\ pc'[Hs(t)] = "yield"
      /\ \A u \in Threads : u # t => pc'[Hs(u)] = pc[Hs(u)]
      /\ \A u \in Threads : pc'[App(u)] = pc[App(u)]
  BY <1>0, <1>1, GotoHs
<1>3. task[t].implicit <=> implicit_handshake = t
  BY <1>0 DEF TaskKinds, TypeOK, ActorsTyped
<1>4. \A u \in Threads : Owns(u)' <=> Owns(u)
  BY <1>0, <1>1, <1>2, <1>3 DEF Owns, Running
<1>5. OneOwner' /\ OwnContext'
  BY <1>0, <1>1, <1>4 DEF OneOwner, OwnContext
<1>6. TaskKinds'
  BY <1>0, <1>1, <1>2, <1>3 DEF TaskKinds, Running
<1>7. FinishOnce'
  <2>1. Over(t)'
    BY <1>1, <1>2, <1>3 DEF Over
  <2>2. \A u \in Threads : pc[App(u)] # "finish"
    BY <1>0, NobodyFinishes
  <2> QED BY <1>1, <1>2, <2>1, <2>2 DEF FinishOnce
<1>8. FreshStart'
  BY <1>0, <1>1, <1>2, FreshOwner DEF Running, FreshStart
<1> QED BY <1>5, <1>6, <1>7, <1>8 DEF ContextParts

LEMMA AsyncYieldContext ==
  ASSUME ContextInv, NEW t \in Threads, AsyncYield(t)
  PROVE  ContextParts'
<1>0. /\ TypeOK /\ TaskKinds /\ OneOwner /\ OwnContext /\ FreshStart /\ FinishOnce
      /\ pc[Hs(t)] = "yield"
  BY DEF ContextInv, AsyncYield
<1>1. /\ UNCHANGED <<handshake_context, implicit_handshake, task, result,
                     started_handshake, handshake_error, need_finish_handshake>>
      /\ Goto(Hs(t), IF task[t].implicit THEN "idle" ELSE "complete")
  BY DEF AsyncYield, YieldHandshake, YieldOp, ctxVars
<1>2. /\ pc'[Hs(t)] = IF task[t].implicit THEN "idle" ELSE "complete"
      /\ \A u \in Threads : u # t => pc'[Hs(u)] = pc[Hs(u)]
      /\ \A u \in Threads : pc'[App(u)] = pc[App(u)]
  BY <1>0, <1>1, GotoHs
<1>4. \A u \in Threads : /\ Owns(u)' <=> Owns(u)
                         /\ Over(u)' <=> Over(u)
                         /\ Running(u)' <=> Running(u)
  BY <1>0, <1>1, <1>2 DEF Owns, Running, Over
<1>5. OneOwner' /\ OwnContext'
  BY <1>0, <1>1, <1>4 DEF OneOwner, OwnContext
<1>6. TaskKinds'
  BY <1>0, <1>1, <1>2, <1>4 DEF TaskKinds
<1>7. FinishOnce'
  <2>1. implicit_handshake # NoThread => implicit_handshake \in Threads
    BY <1>0 DEF TypeOK, ContextsTyped
  <2>2. \A u \in Threads : ~task[u].implicit /\ pc'[Hs(u)] \in {"yield", "complete"}
                             => ~task[u].implicit /\ pc[Hs(u)] \in {"yield", "complete"}
    BY <1>0, <1>2
  <2>3. implicit_handshake \in Threads /\ pc[Hs(implicit_handshake)] \in {"yield", "idle"}
          => pc'[Hs(implicit_handshake)] \in {"yield", "idle"}
    BY <1>0, <1>2 DEF TaskKinds
  <2> QED BY <1>0, <1>1, <1>2, <1>4, <2>1, <2>2, <2>3 DEF FinishOnce
<1>8. FreshStart'
  BY <1>0, <1>1, <1>2, <1>4 DEF FreshStart
<1> QED BY <1>5, <1>6, <1>7, <1>8 DEF ContextParts

LEMMA AsyncCompletedContext ==
  ASSUME ContextInv, NEW t \in Threads, AsyncCompleted(t)
  PROVE  ContextParts'
<1>0. /\ TypeOK /\ TaskKinds
      /\ pc[Hs(t)] = "complete" /\ Owns(t)
  BY DEF ContextInv, AsyncCompleted, Owns
<1>1. /\ UNCHANGED <<implicit_handshake, task, started_handshake>>
      /\ ~need_finish_handshake' /\ handshake_context' = NoThread
      /\ Goto(Hs(t), "idle") /\ result' = [result EXCEPT ![Hs(t)] = "none"]
  BY DEF AsyncCompleted
<1>2. implicit_handshake = NoThread
  BY <1>0, OwnerAlone DEF TaskKinds, TypeOK, ContextsTyped
<1>3. /\ pc'[Hs(t)] = "idle"
      /\ \A u \in Threads : u # t => pc'[Hs(u)] = pc[Hs(u)]
      /\ \A u \in Threads : pc'[App(u)] = pc[App(u)]
  BY <1>0, <1>1, GotoHs
<1>4. \A u \in Threads : u # t => result'[Hs(u)] = result[Hs(u)]
  BY <1>0, <1>1, ActorFacts DEF TypeOK, ActorsTyped
<1>5. \A u \in Threads : pc[App(u)] # "finish"
  BY <1>0, NobodyFinishes
<1>6. \A u \in Threads : pc[App(u)] = "hsyield" => pc'[Hs(u)] = "idle"
  BY <1>0, <1>3 DEF TaskKinds
<1> QED BY <1>0, <1>1, <1>2, <1>3, <1>4, <1>5, <1>6, DropContext

LEMMA SyncFinishContext ==
  ASSUME ContextInv, NEW t \in Threads, SyncFinish(t)
  PROVE  ContextParts'
<1>0. /\ TypeOK /\ TaskKinds /\ FinishOnce
      /\ pc[Hs(t)] = "done" /\ Owns(t)
  BY DEF ContextInv, SyncFinish, Owns
<1>1. /\ UNCHANGED <<need_finish_handshake, task, started_handshake>>
      /\ handshake_context' = NoThread
      /\ implicit_handshake' = IF task[t].implicit THEN NoThread ELSE implicit_handshake
      /\ pc' = [pc EXCEPT ![App(t)] = "hsyield", ![Hs(t)] = "idle"]
  BY DEF SyncFinish
<1>2. implicit_handshake' = NoThread
  <2>1. task[t].implicit <=> implicit_handshake = t
    BY <1>0 DEF TaskKinds, TypeOK, ActorsTyped
  <2>2. implicit_handshake \in {t, NoThread}
    BY <1>0, OwnerAlone DEF TypeOK, ContextsTyped
  <2> QED BY <1>1, <2>1, <2>2
<1>3. /\ pc'[App(t)] = "hsyield" /\ pc'[Hs(t)] = "idle"
      /\ \A u \in Threads : u # t => pc'[App(u)] = pc[App(u)] /\ pc'[Hs(u)] = pc[Hs(u)]
  BY <1>0, <1>1, TwoGotos
<1>4. \A u \in Threads : u # t => result'[Hs(u)] = result[Hs(u)]
  <2> SUFFICES ASSUME NEW u \in Threads, u # t PROVE result'[Hs(u)] = result[Hs(u)]
    OBVIOUS
  <2>1. Hs(u) \in Actors /\ Hs(u) # App(t) /\ Hs(u) # Hs(t)
    BY ActorFacts
  <2> QED BY <1>0, <2>1 DEF SyncFinish, TypeOK, ActorsTyped
<1>5. ~Over(t)
  BY <1>0 DEF Over
<1>6. ~need_finish_handshake
  BY <1>0, <1>5, OwnerAlone DEF FinishOnce
<1>7. \A u \in Threads : pc'[App(u)] # "finish"
  BY <1>0, <1>3, NobodyFinishes
<1>8. \A u \in Threads : pc'[App(u)] = "hsyield" => pc'[Hs(u)] = "idle"
  BY <1>0, <1>3 DEF TaskKinds
<1> QED BY <1>0, <1>1, <1>2, <1>3, <1>4, <1>6, <1>7, <1>8, DropContext

LEMMA FinishImplicitContext ==
  ASSUME ContextInv, NEW t \in Threads, FinishImplicit(t)
  PROVE  ContextParts'
<1> DEFINE v == implicit_handshake
<1>0. /\ TypeOK /\ TaskKinds /\ FinishOnce
      /\ pc[App(t)] = "finish"
  BY DEF ContextInv, FinishImplicit
<1>1. /\ ~need_finish_handshake /\ v \in Threads /\ pc[Hs(v)] \in {"yield", "idle"}
      /\ Owns(v)
  BY <1>0 DEF FinishOnce, TypeOK, ContextsTyped, Owns
<1>2. /\ UNCHANGED <<need_finish_handshake, task, started_handshake>>
      /\ handshake_context' = NoThread /\ implicit_handshake' = NoThread
      /\ \E l \in {"rejoin", "idle"} : Goto(App(t), l)
  BY DEF FinishImplicit
<1>3. /\ pc'[App(t)] \in {"rejoin", "idle"}
      /\ \A u \in Threads : u # t => pc'[App(u)] = pc[App(u)]
      /\ \A u \in Threads : pc'[Hs(u)] = pc[Hs(u)]
  BY <1>0, <1>2, GotoApp
<1>4. \A u \in Threads : u # v => result'[Hs(u)] = result[Hs(u)]
  <2> SUFFICES ASSUME NEW u \in Threads, u # v PROVE result'[Hs(u)] = result[Hs(u)]
    OBVIOUS
  <2>1. Hs(u) \in Actors /\ Hs(u) # App(t) /\ Hs(u) # Hs(v)
    BY <1>1, ActorFacts
  <2> QED BY <1>0, <2>1 DEF FinishImplicit, TypeOK, ActorsTyped
<1>5. task[v].implicit
  BY <1>0, <1>1 DEF TaskKinds
<1>6. \A u \in Threads : pc'[App(u)] # "finish"
  BY <1>0, <1>3 DEF FinishOnce
<1>7. \A u \in Threads : pc'[App(u)] = "hsyield" => pc'[Hs(u)] = "idle"
  BY <1>0, <1>3 DEF TaskKinds
<1> HIDE DEF v
<1> QED BY <1>1, <1>2, <1>3, <1>4, <1>5, <1>6, <1>7, DropContext

LEMMA DivertContext ==
  ASSUME ContextInv, NEW t \in Threads, DivertToFinish(App(t))
  PROVE  ContextParts'
<1>0. /\ TypeOK /\ TaskKinds /\ FinishOnce /\ OneOwner /\ OwnContext /\ FreshStart
      /\ need_finish_handshake /\ implicit_handshake # NoThread
  BY DEF ContextInv, DivertToFinish, Diverted
<1>1. /\ UNCHANGED <<handshake_context, implicit_handshake, task, result,
                     started_handshake, handshake_error>>
      /\ ~need_finish_handshake' /\ Goto(App(t), "finish")
  BY DEF DivertToFinish, ctxVars
<1>2. /\ pc'[App(t)] = "finish"
      /\ \A u \in Threads : u # t => pc'[App(u)] = pc[App(u)]
      /\ \A u \in Threads : pc'[Hs(u)] = pc[Hs(u)]
  BY <1>0, <1>1, GotoApp
<1>3. PICK v \in Threads : implicit_handshake = v /\ Owns(v) /\ task[v].implicit
  BY <1>0 DEF TypeOK, ContextsTyped, Owns, TaskKinds
<1>4. pc[Hs(v)] \in {"yield", "idle"}
  <2>1. PICK w \in Threads : Over(w)
    BY <1>0 DEF FinishOnce
  <2>2. w = v
    BY <1>3, <2>1, OwnerAlone
  <2> QED BY <1>3, <2>1, <2>2 DEF Over
<1>5. \A u \in Threads : /\ Owns(u)' <=> Owns(u)
                         /\ Running(u)' <=> Running(u)
  BY <1>1, <1>2 DEF Owns, Running
<1>6. OneOwner' /\ OwnContext'
  BY <1>0, <1>1, <1>5 DEF OneOwner, OwnContext
<1>7. TaskKinds'
  BY <1>0, <1>1, <1>2, <1>5 DEF TaskKinds
<1>8. FinishOnce'
  <2>1. \A u \in Threads : ~(~task[u].implicit /\ pc[Hs(u)] \in {"yield", "complete"})
    BY <1>0, <1>3, OwnerAlone DEF TaskKinds
  <2>2. \A u \in Threads : u # t => pc'[App(u)] # "finish"
    BY <1>0, <1>2 DEF FinishOnce
  <2> QED BY <1>0, <1>1, <1>2, <1>3, <1>4, <2>1, <2>2 DEF FinishOnce
<1>9. FreshStart'
  BY <1>0, <1>1, <1>2, <1>5 DEF FreshStart
<1> QED BY <1>6, <1>7, <1>8, <1>9 DEF ContextParts

\* yield_op() in the caller forgets which kind of handshake it was.
LEMMA SyncYieldContext ==
  ASSUME ContextInv, NEW t \in Threads, SyncYield(t)
  PROVE  ContextParts'
<1>0. /\ TypeOK /\ TaskKinds /\ FinishOnce /\ OneOwner /\ OwnContext /\ FreshStart
      /\ implicit_handshake # t /\ pc[Hs(t)] = "idle" /\ ~Owns(t)
  BY DEF ContextInv, SyncYield, TaskKinds, Owns, Running
<1>1. /\ UNCHANGED <<handshake_context, implicit_handshake, need_finish_handshake,
                     started_handshake, handshake_error>>
      /\ task' = [task EXCEPT ![t] = NoTask]
      /\ \E l \in {"relock", "idle"} : Goto(App(t), l)
  BY DEF SyncYield, YieldHandshake, YieldOp, ctxVars
<1>2. /\ pc'[App(t)] \in {"relock", "idle"}
      /\ \A u \in Threads : u # t => pc'[App(u)] = pc[App(u)]
      /\ \A u \in Threads : pc'[Hs(u)] = pc[Hs(u)]
  BY <1>0, <1>1, GotoApp
<1>3. \A u \in Threads : result'[Hs(u)] = result[Hs(u)]
  BY <1>0, ActorFacts DEF SyncYield, TypeOK, ActorsTyped
<1>4. \A u \in Threads : u # t => task'[u] = task[u]
  BY <1>0, <1>1 DEF TypeOK, ActorsTyped
<1>5. \A u \in Threads : /\ Owns(u)' <=> Owns(u)
                         /\ Running(u)' <=> Running(u)
                         /\ Over(u)' <=> Over(u)
  BY <1>0, <1>1, <1>2, <1>4 DEF Owns, Running, Over
<1>6. OneOwner' /\ OwnContext'
  BY <1>0, <1>1, <1>4, <1>5 DEF OneOwner, OwnContext
<1>7. TaskKinds'
  <2>1. ASSUME NEW u \in Threads, u # t
        PROVE  /\ Running(u)' <=> Running(u)
               /\ pc'[Hs(u)] = pc[Hs(u)] /\ pc'[App(u)] = pc[App(u)]
               /\ task'[u] = task[u]
    BY <1>2, <1>4, <1>5, <2>1
  <2>2. ~Running(t)'
    BY <1>0, <1>2 DEF Running
  <2> QED BY <1>0, <1>1, <1>2, <2>1, <2>2 DEF TaskKinds
<1>8. FinishOnce'
  <2>1. implicit_handshake # NoThread => implicit_handshake \in Threads
    BY <1>0 DEF TypeOK, ContextsTyped
  <2>2. \A u \in Threads : ~task'[u].implicit /\ pc'[Hs(u)] \in {"yield", "complete"}
                             => ~task[u].implicit /\ pc[Hs(u)] \in {"yield", "complete"}
    BY <1>0, <1>2, <1>4
  <2>3. \A u \in Threads : pc'[App(u)] = "finish" => pc[App(u)] = "finish"
    BY <1>2
  <2> QED BY <1>0, <1>1, <1>2, <1>5, <2>1, <2>2, <2>3 DEF FinishOnce
<1>9. FreshStart'
  BY <1>0, <1>1, <1>2, <1>3, <1>5 DEF FreshStart
<1> QED BY <1>6, <1>7, <1>8, <1>9 DEF ContextParts

\* A handshake starts: nobody owned the context, now t does.
LEMMA StartContext ==
  ASSUME ContextInv, NEW t \in Threads, NEW async \in BOOLEAN, NEW implicit \in BOOLEAN,
         NEW tmo, StartTask(t, async, implicit, tmo),
         handshake_context = NoThread,
         pc[App(t)] \notin {"hsyield", "finish"},
         UNCHANGED <<need_finish_handshake, started_handshake, handshake_error>>,
         NEW l \in {"crank", "idle"},
         pc' = [pc EXCEPT ![App(t)] = l, ![Hs(t)] = "queued"],
         result'[Hs(t)] = "none"
  PROVE  ContextParts'
<1>0. /\ TypeOK /\ TaskKinds /\ FinishOnce
      /\ implicit_handshake = NoThread
      /\ ~need_finish_handshake
      /\ \A u \in Threads : ~Owns(u) /\ pc[App(u)] # "finish"
  BY NoOwner DEF ContextInv
<1>1. /\ pc'[App(t)] = l /\ pc'[Hs(t)] = "queued"
      /\ \A u \in Threads : u # t => pc'[App(u)] = pc[App(u)] /\ pc'[Hs(u)] = pc[Hs(u)]
  BY <1>0, TwoGotos
<1>2. /\ task'[t] = [async |-> async, implicit |-> implicit]
      /\ \A u \in Threads : u # t => task'[u] = task[u]
      /\ handshake_context' = IF async THEN MainContextOf[t] ELSE t
      /\ implicit_handshake' = IF implicit THEN t ELSE NoThread
  BY <1>0 DEF StartTask, TypeOK, ActorsTyped
<1>3. \A u \in Threads : u # t => implicit_handshake' # u
  BY <1>2, ThreadsAssumption
<1>4. \A u \in Threads : u # t => ~Owns(u)' /\ ~Running(u)' /\ ~Over(u)'
  BY <1>0, <1>1, <1>2, <1>3 DEF Owns, Running, Over
<1>5. OneOwner' /\ OwnContext'
  BY <1>2, <1>4 DEF OneOwner, OwnContext
<1>6. TaskKinds'
  <2>1. pc'[App(t)] # "hsyield"
    BY <1>1
  <2>2. implicit_handshake' = t => task'[t].implicit
    BY <1>2, ThreadsAssumption
  <2>3. task'[t].implicit => implicit_handshake' = t
    BY <1>2
  <2>4. ASSUME NEW u \in Threads, u # t
        PROVE  /\ pc'[Hs(u)] = pc[Hs(u)] /\ pc'[App(u)] = pc[App(u)]
               /\ task'[u] = task[u] /\ implicit_handshake' # u /\ ~Running(u)'
               /\ pc[Hs(u)] \notin {"done", "mark", "complete"}
    BY <1>0, <1>1, <1>2, <1>3, <1>4, <2>4 DEF Owns
  <2>5. pc'[Hs(t)] = "queued"
    BY <1>1
  <2> DEFINE Kinds(u) ==
        /\ pc[Hs(u)] = "done" => ~task[u].async
        /\ pc[Hs(u)] \in {"mark", "yield", "complete"} => task[u].async
        /\ pc[Hs(u)] = "complete" => ~task[u].implicit
        /\ implicit_handshake = u => task[u].implicit
        /\ (Running(u) \/ pc[Hs(u)] \in {"done", "mark"}) /\ task[u].implicit
             => implicit_handshake = u
        /\ pc[App(u)] = "hsyield" => implicit_handshake # u /\ pc[Hs(u)] = "idle"
  <2>6. Kinds(t)'
    BY <2>1, <2>2, <2>3, <2>5
  <2>7. ASSUME NEW u \in Threads, u # t PROVE Kinds(u)'
    <3>1. Kinds(u)
      BY <1>0 DEF TaskKinds
    <3>2. implicit_handshake # u
      BY <1>0, ThreadsAssumption
    <3> QED BY <2>4, <2>7, <3>1, <3>2
  <2>8. \A u \in Threads : Kinds(u)'
    BY <2>6, <2>7
  <2> QED BY <2>8 DEF TaskKinds
<1>7. FinishOnce'
  <2>1. \A u \in Threads : pc'[App(u)] # "finish"
    BY <1>0, <1>1
  <2>2. \A u \in Threads : ~(~task'[u].implicit /\ pc'[Hs(u)] \in {"yield", "complete"})
    BY <1>1, <1>4 DEF Over
  <2> QED BY <1>0, <2>1, <2>2 DEF FinishOnce
<1>8. FreshStart'
  BY <1>1, <1>4 DEF FreshStart, Running
<1> QED BY <1>5, <1>6, <1>7, <1>8 DEF ContextParts

\* The steps of the application threads that touch no handshake.
LEMMA QuietApp ==
  ASSUME ContextInv, NEW t \in Threads, NEW l, Goto(App(t), l),
         l \notin {"finish", "hsyield"},
         UNCHANGED <<need_finish_handshake, handshake_context, implicit_handshake,
                     started_handshake, handshake_error, task>>,
         \/ result' = result
         \/ \E r \in Results : result' = [result EXCEPT ![App(t)] = r]
  PROVE  ContextParts'
<1>0. TypeOK
  BY DEF ContextInv
<1>1. \A u \in Threads : result'[Hs(u)] = result[Hs(u)]
  BY <1>0, ActorFacts DEF TypeOK, ActorsTyped
<1>2. \A u \in Threads :
        /\ pc'[Hs(u)] = pc[Hs(u)]
        /\ pc'[App(u)] \in {"finish", "hsyield"} => pc'[App(u)] = pc[App(u)]
  BY <1>0, GotoApp
<1> QED BY <1>1, <1>2, QuietContext DEF ContextParts

LEMMA AppClaimContext ==
  ASSUME ContextInv, NEW t \in Threads, Claim(App(t))
  PROVE  ContextParts'
<1> DEFINE a == App(t)
<1>1. CASE DivertToFinish(a)
  BY <1>1, DivertContext
<1>2. CASE \/ ClaimRejected(a) \/ ClaimRefused(a) \/ ClaimBusy(a)
           \/ ClaimGranted(a) \/ WaitEnds(a) \/ WaitExpires(a)
  <2>1. UNCHANGED <<need_finish_handshake, handshake_context, implicit_handshake,
                    started_handshake, handshake_error, task>>
    BY <1>2 DEF ClaimRejected, ClaimRefused, ClaimBusy, ClaimGranted, WaitEnds,
      WaitExpires, hsVars, ctxVars
  <2>2. \E l \in {"idle", "wait", "io", "claim"} : Goto(a, l)
    BY <1>2, ActorFacts DEF ClaimRejected, ClaimRefused, ClaimBusy, ClaimGranted,
      WaitEnds, WaitExpires, Fail
  <2>3. \/ result' = result
        \/ \E r \in Results : result' = [result EXCEPT ![a] = r]
    BY <1>2 DEF ClaimRejected, ClaimRefused, ClaimBusy, ClaimGranted, WaitEnds,
      WaitExpires, Fail, Results
  <2> QED BY <2>1, <2>2, <2>3, QuietApp
<1> QED BY <1>1, <1>2 DEF Claim

LEMMA CallContext ==
  ASSUME ContextInv, NEW t \in Threads, AppCall(t)
  PROVE  ContextParts'
<1>0. TypeOK
  BY DEF ContextInv
<1>1. CASE Begin(t)
  <2>1. /\ Goto(App(t), "claim")
        /\ \E r \in Results : result' = [result EXCEPT ![App(t)] = r]
        /\ UNCHANGED <<need_finish_handshake, handshake_context, implicit_handshake,
                       started_handshake, handshake_error, task>>
    BY <1>1 DEF Begin, Results, hsVars, ctxVars
  <2> QED BY <2>1, QuietApp
<1>2. CASE Handshake(t)
  <2>1. \E async \in BOOLEAN : StartTask(t, async, FALSE, -1)
    BY <1>2 DEF Handshake
  <2>2. \E l \in {"crank", "idle"} : pc' = [pc EXCEPT ![App(t)] = l, ![Hs(t)] = "queued"]
    BY <1>2 DEF Handshake
  <2>3. /\ handshake_context = NoThread
        /\ pc[App(t)] = "idle"
        /\ UNCHANGED <<need_finish_handshake, started_handshake, handshake_error>>
    BY <1>2 DEF Handshake, Issue, hsVars
  <2>4. result'[Hs(t)] = "none"
    BY <1>0, <1>2, ActorFacts DEF Handshake, TypeOK, ActorsTyped
  <2> QED BY <2>1, <2>2, <2>3, <2>4, StartContext
<1>3. CASE Cancel(t) \/ AssertionFails(t)
  BY <1>3, QuietContext DEF Cancel, AssertionFails, hsVars, ctxVars, ctlVars, ContextParts
<1> QED BY <1>1, <1>2, <1>3 DEF AppCall

LEMMA AppStepContext ==
  ASSUME ContextInv, NEW t \in Threads, AppStep(t)
  PROVE  ContextParts'
<1>0. TypeOK
  BY DEF ContextInv
<1>1. CASE Claim(App(t))
  BY <1>1, AppClaimContext
<1>2. CASE ImplicitHandshakeSync(t) \/ ImplicitHandshakeAsync(t)
  <2>1. \E async \in BOOLEAN : \E tmo : StartTask(t, async, TRUE, tmo)
    BY <1>2 DEF ImplicitHandshakeSync, ImplicitHandshakeAsync
  <2>2. \E l \in {"crank", "idle"} : pc' = [pc EXCEPT ![App(t)] = l, ![Hs(t)] = "queued"]
    BY <1>2 DEF ImplicitHandshakeSync, ImplicitHandshakeAsync
  <2>3. /\ handshake_context = NoThread
        /\ pc[App(t)] = "claim"
        /\ UNCHANGED <<need_finish_handshake, started_handshake, handshake_error>>
    BY <1>2 DEF ImplicitHandshakeSync, ImplicitHandshakeAsync
  <2>4. result'[Hs(t)] = "none"
    BY <1>0, <1>2, ActorFacts DEF ImplicitHandshakeSync, ImplicitHandshakeAsync, TypeOK,
      ActorsTyped
  <2> QED BY <2>1, <2>2, <2>3, <2>4, StartContext
<1>3. CASE FinishImplicit(t)
  BY <1>3, FinishImplicitContext
<1>4. CASE RejoinCancelled(t) \/ DataDone(t) \/ CloseFlags(t) \/ CloseDone(t)
  <2>1. UNCHANGED <<need_finish_handshake, handshake_context, implicit_handshake,
                    started_handshake, handshake_error, task>>
    BY <1>4 DEF RejoinCancelled, DataDone, CloseFlags, CloseDone, YieldOp, hsVars, ctxVars
  <2>2. \E l \in {"idle", "claim", "closed"} : Goto(App(t), l)
    BY <1>4, ActorFacts DEF RejoinCancelled, DataDone, CloseFlags, CloseDone, Fail
  <2>3. \/ result' = result
        \/ \E r \in Results : result' = [result EXCEPT ![App(t)] = r]
    BY <1>4 DEF RejoinCancelled, DataDone, CloseFlags, CloseDone, Fail, Results
  <2> QED BY <2>1, <2>2, <2>3, QuietApp
<1>5. CASE SyncFinish(t)
  BY <1>5, SyncFinishContext
<1>6. CASE SyncYield(t)
  BY <1>6, SyncYieldContext
<1> QED BY <1>1, <1>2, <1>3, <1>4, <1>5, <1>6 DEF AppStep

LEMMA WorkerStepContext ==
  ASSUME ContextInv, NEW t \in Threads, WorkerStep(t)
  PROVE  ContextParts'
BY WorkerClaimContext, ThreadContext, AsyncMarkContext, AsyncYieldContext,
  AsyncCompletedContext DEF WorkerStep

LEMMA ContextInvariant == Spec => []ContextInv
<1>1. Init => ContextInv
  <2> SUFFICES ASSUME Init PROVE ContextInv
    OBVIOUS
  <2>1. \A u \in Threads : /\ pc[App(u)] = "idle" /\ pc[Hs(u)] = "idle"
                           /\ implicit_handshake # u
                           /\ ~need_finish_handshake
    BY ActorFacts, ThreadsAssumption DEF Init
  <2>2. \A u \in Threads : ~Owns(u) /\ ~Running(u)
    BY <2>1 DEF Owns, Running
  <2>3. ~need_finish_handshake
    BY DEF Init
  <2> QED
    BY <2>1, <2>2, <2>3, InitTyped DEF ContextInv, OneOwner, OwnContext, TaskKinds,
      FinishOnce, FreshStart
<1>2. TypeOK' /\ ContextInv /\ [Next]_vars => ContextInv'
  <2> SUFFICES ASSUME TypeOK', ContextInv, [Next]_vars PROVE ContextInv'
    OBVIOUS
  <2>1. CASE UNCHANGED vars
    <3>1. ContextParts'
      BY <2>1, QuietContext DEF vars, hsVars, ctxVars, ctlVars, ContextParts
    <3> QED BY <3>1 DEF ContextInv, ContextParts
  <2>2. CASE Next
    <3>1. ContextParts'
      BY <2>2, CallContext, AppStepContext, WorkerStepContext DEF Next
    <3> QED BY <3>1 DEF ContextInv, ContextParts
  <2> QED BY <2>1, <2>2
<1> QED BY <1>1, <1>2, TypeCorrect, PTL DEF Spec

\* The handshake_context a handshake thread relies on is there and is the one its
\* caller set up, until the thread has returned.
THEOREM ContextHeld == Spec => []RunningHandshakeHasContext
<1>1. ContextInv => RunningHandshakeHasContext
  BY DEF ContextInv, OwnContext, Owns, RunningHandshakeHasContext
<1> QED BY <1>1, ContextInvariant, PTL

\* Two handshake threads never run at the same time.
THEOREM SingleHandshake == Spec => []OneHandshakeAtATime
<1>1. ContextInv => OneHandshakeAtATime
  BY DEF ContextInv, OneOwner, Owns, OneHandshakeAtATime
<1> QED BY <1>1, ContextInvariant, PTL

\* A handshake error, once copied to handshake_error, is never lost: the only
\* statement that clears it runs in a worker whose claim has just found it clear.
THEOREM ErrorSticks == Spec => HandshakeErrorSticks
<1>1. ContextInv /\ [Next]_vars => (handshake_error => handshake_error')
  <2> SUFFICES ASSUME ContextInv, [Next]_vars, handshake_error PROVE handshake_error'
    OBVIOUS
  <2>1. ASSUME NEW t \in Threads, AppCall(t) PROVE handshake_error'
    BY <2>1 DEF AppCall, Begin, Handshake, Cancel, AssertionFails, hsVars
  <2>2. ASSUME NEW a, Claim(a) PROVE handshake_error'
    BY <2>2 DEF Claim, ClaimRejected, DivertToFinish, ClaimRefused, ClaimBusy,
      ClaimGranted, WaitEnds, WaitExpires, hsVars
  <2>3. ASSUME NEW t \in Threads, AppStep(t) PROVE handshake_error'
    BY <2>2, <2>3 DEF AppStep, ImplicitHandshakeSync, ImplicitHandshakeAsync,
      FinishImplicit, RejoinCancelled, DataDone, CloseFlags, CloseDone, SyncFinish,
      SyncYield, FinishHandshake, YieldHandshake, YieldOp, hsVars
  <2>4. ASSUME NEW t \in Threads, WorkerStep(t) PROVE handshake_error'
    <3>1. ~HandshakeBegins(t)
      BY DEF ContextInv, FreshStart, HandshakeBegins
    <3> QED BY <2>2, <2>4, <3>1 DEF WorkerStep, ThreadStarts, HandshakeEnds, AsyncMark,
      AsyncYield, AsyncCompleted, FinishHandshake, YieldHandshake, YieldOp, hsVars
  <2>5. CASE UNCHANGED vars
    BY <2>5 DEF vars, hsVars
  <2> QED BY <2>1, <2>3, <2>4, <2>5 DEF Next
<1> QED BY <1>1, ContextInvariant, PTL DEF Spec, HandshakeErrorSticks

\* Starting a worker finishes nothing.
LEMMA StartMoves ==
  ASSUME TypeOK, NEW u \in Threads, NEW l \in {"crank", "idle"}, NEW t \in Threads,
         pc' = [pc EXCEPT ![App(u)] = l, ![Hs(u)] = "queued"]
  PROVE  /\ pc'[App(t)] = "hsyield" => pc[App(t)] = "hsyield"
         /\ pc'[Hs(t)] = "idle" => pc[Hs(t)] = "idle"
<1>1. /\ pc'[App(u)] = l /\ pc'[Hs(u)] = "queued"
      /\ \A v \in Threads : v # u => pc'[App(v)] = pc[App(v)] /\ pc'[Hs(v)] = pc[Hs(v)]
  BY TwoGotos
<1>2. CASE t = u
  BY <1>1, <1>2
<1>3. CASE t # u
  BY <1>1, <1>3
<1> QED BY <1>2, <1>3

\* Only three actions finish a handshake.
LEMMA WhoFinishes ==
  ASSUME ContextInv, Next, NEW t \in Threads, Finishes(t)
  PROVE  \/ SyncFinish(t)
         \/ AsyncCompleted(t)
         \/ implicit_handshake = t /\ \E u \in Threads : FinishImplicit(u)
<1>0. TypeOK
  BY DEF ContextInv
<1>1. ASSUME NEW u \in Threads, NEW a \in {App(u), Hs(u)}, Claim(a) PROVE FALSE
  <2>1. implicit_handshake' = implicit_handshake
    BY <1>1 DEF Claim, ClaimRejected, DivertToFinish, ClaimRefused, ClaimBusy,
      ClaimGranted, WaitEnds, WaitExpires, ctxVars
  <2>2. \/ a = App(u) /\ \E l : Goto(App(u), l) /\ l # "hsyield"
        \/ a = Hs(u) /\ \E l : Goto(Hs(u), l) /\ l # "idle"
    BY <1>1, ActorFacts DEF Claim, ClaimRejected, DivertToFinish, ClaimRefused, ClaimBusy,
      ClaimGranted, WaitEnds, WaitExpires, Fail, AfterThread
  <2>3. /\ pc'[App(t)] = "hsyield" => pc[App(t)] = "hsyield"
        /\ pc'[Hs(t)] = "idle" => pc[Hs(t)] = "idle"
    BY <1>0, <2>2, GotoApp, GotoHs
  <2> QED BY <2>1, <2>3, ThreadsAssumption DEF Finishes
<1>2. ASSUME NEW u \in Threads, AppCall(u) PROVE FALSE
  <2>1. CASE Begin(u)
    BY <1>0, <2>1, GotoApp, ThreadsAssumption DEF Begin, ctxVars, Finishes
  <2>2. CASE Handshake(u)
    <3>1. /\ implicit_handshake' = implicit_handshake
          /\ \E l \in {"crank", "idle"} : pc' = [pc EXCEPT ![App(u)] = l, ![Hs(u)] = "queued"]
      BY <2>2 DEF Handshake, StartTask
    <3>2. /\ pc'[App(t)] = "hsyield" => pc[App(t)] = "hsyield"
          /\ pc'[Hs(t)] = "idle" => pc[Hs(t)] = "idle"
      BY <1>0, <3>1, StartMoves
    <3> QED BY <3>1, <3>2, ThreadsAssumption DEF Finishes
  <2>3. CASE Cancel(u) \/ AssertionFails(u)
    BY <2>3, ThreadsAssumption DEF Cancel, AssertionFails, ctxVars, ctlVars, Finishes
  <2> QED BY <1>2, <2>1, <2>2, <2>3 DEF AppCall
<1>3. ASSUME NEW u \in Threads, ImplicitHandshakeSync(u) \/ ImplicitHandshakeAsync(u)
      PROVE  FALSE
  <2>1. /\ implicit_handshake = NoThread
        /\ \E l \in {"crank", "idle"} : pc' = [pc EXCEPT ![App(u)] = l, ![Hs(u)] = "queued"]
    BY <1>3 DEF ImplicitHandshakeSync, ImplicitHandshakeAsync
  <2>2. /\ pc'[App(t)] = "hsyield" => pc[App(t)] = "hsyield"
        /\ pc'[Hs(t)] = "idle" => pc[Hs(t)] = "idle"
    BY <1>0, <2>1, StartMoves
  <2> QED BY <2>1, <2>2, ThreadsAssumption DEF Finishes
<1>4. ASSUME NEW u \in Threads,
             \/ RejoinCancelled(u) \/ DataDone(u) \/ CloseFlags(u) \/ CloseDone(u)
             \/ SyncYield(u)
      PROVE  FALSE
  <2>1. /\ implicit_handshake' = implicit_handshake
        /\ \E l \in {"idle", "claim", "closed", "relock"} : Goto(App(u), l)
    <3>1. CASE RejoinCancelled(u)
      BY <3>1, ActorFacts DEF RejoinCancelled, Fail, ctxVars
    <3>2. CASE DataDone(u)
      BY <3>2 DEF DataDone, ctxVars
    <3>3. CASE CloseFlags(u) \/ CloseDone(u)
      BY <3>3 DEF CloseFlags, CloseDone, ctxVars
    <3>4. CASE SyncYield(u)
      BY <3>4 DEF SyncYield, ctxVars
    <3> QED BY <1>4, <3>1, <3>2, <3>3, <3>4
  <2>2. /\ pc'[App(t)] = "hsyield" => pc[App(t)] = "hsyield"
        /\ pc'[Hs(t)] = pc[Hs(t)]
    BY <1>0, <2>1, GotoApp
  <2> QED BY <2>1, <2>2, ThreadsAssumption DEF Finishes
<1>5. ASSUME NEW u \in Threads, FinishImplicit(u)
      PROVE  implicit_handshake = t
  <2>1. \E l \in {"rejoin", "idle"} : Goto(App(u), l)
    BY <1>5 DEF FinishImplicit
  <2>2. /\ pc'[App(t)] = "hsyield" => pc[App(t)] = "hsyield"
        /\ pc'[Hs(t)] = pc[Hs(t)]
    BY <1>0, <2>1, GotoApp
  <2> QED BY <2>2 DEF Finishes
<1>6. ASSUME NEW u \in Threads, SyncFinish(u)
      PROVE  u = t
  <2>1. SUFFICES ASSUME u # t PROVE FALSE
    OBVIOUS
  <2>2. pc[Hs(u)] = "done" /\ Owns(u)
    BY <1>6 DEF SyncFinish, Owns
  <2>3. implicit_handshake # t
    BY <2>1, <2>2, OwnerAlone
  <2>4. pc'[App(t)] = pc[App(t)] /\ pc'[Hs(t)] = pc[Hs(t)]
    BY <1>0, <1>6, <2>1, TwoGotos DEF SyncFinish
  <2> QED BY <2>3, <2>4 DEF Finishes
<1>7. ASSUME NEW u \in Threads,
             \/ ThreadStarts(u) \/ HandshakeBegins(u) \/ HandshakeEnds(u)
             \/ AsyncMark(u) \/ AsyncYield(u)
      PROVE  FALSE
  <2>1. /\ implicit_handshake' = implicit_handshake
        /\ pc[Hs(u)] # "complete"
        /\ \E l : Goto(Hs(u), l)
    BY <1>7 DEF ThreadStarts, HandshakeBegins, HandshakeEnds, AsyncMark, AsyncYield, Fail,
      ctxVars
  <2>2. /\ pc'[App(t)] = pc[App(t)]
        /\ pc[Hs(t)] = "complete" => pc'[Hs(t)] = "complete"
    BY <1>0, <2>1, GotoHs
  <2> QED BY <2>1, <2>2, ThreadsAssumption DEF Finishes
<1>8. ASSUME NEW u \in Threads, AsyncCompleted(u)
      PROVE  u = t
  <2>1. SUFFICES ASSUME u # t PROVE FALSE
    OBVIOUS
  <2>2. implicit_handshake' = implicit_handshake /\ Goto(Hs(u), "idle")
    BY <1>8 DEF AsyncCompleted
  <2>3. pc'[App(t)] = pc[App(t)] /\ pc'[Hs(t)] = pc[Hs(t)]
    BY <1>0, <2>1, <2>2, GotoHs
  <2> QED BY <2>2, <2>3, ThreadsAssumption DEF Finishes
<1> QED
  BY <1>1, <1>2, <1>3, <1>4, <1>5, <1>6, <1>7, <1>8 DEF Next, AppStep, WorkerStep

\* A handshake that had started and failed is remembered by whoever finishes it.
THEOREM FailuresRecorded == Spec => FailureIsRecorded
<1> DEFINE Recorded(t) == Finishes(t) /\ result[Hs(t)] = "failed" => handshake_error'
<1>1. ContextInv /\ [Next]_vars => (vars' = vars \/ \A t \in Threads : Recorded(t))
  <2> SUFFICES ASSUME ContextInv, Next, NEW t \in Threads, Finishes(t),
                      result[Hs(t)] = "failed"
               PROVE  handshake_error'
    OBVIOUS
  <2>1. CASE SyncFinish(t)
    <3>1. Owns(t) /\ FinishHandshake(t)
      BY <2>1 DEF SyncFinish, Owns
    <3>2. started_handshake
      BY <3>1 DEF ContextInv, FreshStart
    <3> QED BY <3>1, <3>2 DEF FinishHandshake, TaskSucceeded
  <2>2. CASE AsyncCompleted(t)
    <3>1. Owns(t) /\ pc[Hs(t)] = "complete"
      BY <2>2 DEF AsyncCompleted, Owns
    <3>2. started_handshake /\ need_finish_handshake
      BY <3>1 DEF ContextInv, FreshStart, FinishOnce, TaskKinds
    <3>3. FinishHandshake(t)
      BY <2>2, <3>2 DEF AsyncCompleted
    <3> QED BY <3>2, <3>3 DEF FinishHandshake, TaskSucceeded
  <2>3. CASE implicit_handshake = t /\ \E u \in Threads : FinishImplicit(u)
    <3>1. Owns(t) /\ FinishHandshake(t)
      BY <2>3 DEF FinishImplicit, Owns
    <3>2. started_handshake
      BY <3>1 DEF ContextInv, FreshStart
    <3> QED BY <3>1, <3>2 DEF FinishHandshake, TaskSucceeded
  <2> QED BY <2>1, <2>2, <2>3, WhoFinishes
<1>2. ContextInv /\ [Next]_vars => [\A t \in Threads : Recorded(t)]_vars
  BY <1>1
<1> QED BY <1>2, ContextInvariant, PTL DEF Spec, FailureIsRecorded

-----------------------------------------------------------------------------
(***************************************************************************)
(* Two more facts the mapping rests on.  A worker past its claim is among  *)
(* the claimed ones, so that a handshake ends in the hands of whoever      *)
(* holds both directions; and started_handshake, which makes an error      *)
(* stick, is set only while a handshake runs or once it has ended, so that *)
(* nothing else can break the connection.                                  *)
(***************************************************************************)
ClaimedRuns == \A t \in Threads : pc[Hs(t)] \in {"start", "io"} => t \in claimed

Ended(t) == result[Hs(t)] \in {"ok", "failed"}

StartedRuns ==
  \A t \in Threads :
    Owns(t) /\ started_handshake => pc[Hs(t)] \in {"queued", "io"} \/ Ended(t)

RefineInv == ClaimInv /\ ContextInv /\ ClaimedRuns /\ StartedRuns

\* An application thread's own step moves no worker.
LEMMA AppMoves ==
  ASSUME TypeOK, NEW t \in Threads,
         \/ Claim(App(t)) \/ FinishImplicit(t) \/ RejoinCancelled(t)
         \/ DataDone(t) \/ CloseFlags(t) \/ CloseDone(t) \/ SyncYield(t) \/ Begin(t)
  PROVE  \A u \in Threads : pc'[Hs(u)] = pc[Hs(u)]
<1>1. CASE Claim(App(t))
  <2>1. \E l : Goto(App(t), l)
    BY <1>1, ActorFacts DEF Claim, ClaimRejected, DivertToFinish, ClaimRefused, ClaimBusy,
      ClaimGranted, WaitEnds, WaitExpires, Fail
  <2> QED BY <2>1, GotoApp
<1>2. CASE RejoinCancelled(t)
  <2>1. \E l : Goto(App(t), l)
    BY <1>2 DEF RejoinCancelled, Fail
  <2> QED BY <2>1, GotoApp
<1>3. CASE \/ FinishImplicit(t) \/ DataDone(t) \/ CloseFlags(t) \/ CloseDone(t)
           \/ SyncYield(t) \/ Begin(t)
  <2>1. \E l : Goto(App(t), l)
    BY <1>3 DEF FinishImplicit, DataDone, CloseFlags, CloseDone, SyncYield, Begin
  <2> QED BY <2>1, GotoApp
<1> QED BY <1>1, <1>2, <1>3

\* A thread that starts a worker, and the end of a synchronous one.
LEMMA Starts ==
  ASSUME TypeOK, NEW t \in Threads,
         Handshake(t) \/ ImplicitHandshakeSync(t) \/ ImplicitHandshakeAsync(t)
  PROVE  /\ pc'[Hs(t)] = "queued"
         /\ \A u \in Threads : u # t => pc'[Hs(u)] = pc[Hs(u)]
<1>1. PICK l : pc' = [pc EXCEPT ![App(t)] = l, ![Hs(t)] = "queued"]
  BY DEF Handshake, ImplicitHandshakeSync, ImplicitHandshakeAsync
<1>2. /\ pc'[App(t)] = l /\ pc'[Hs(t)] = "queued"
      /\ \A u \in Threads : u # t => pc'[App(u)] = pc[App(u)] /\ pc'[Hs(u)] = pc[Hs(u)]
  BY <1>1, TwoGotos
<1> QED BY <1>2

-----------------------------------------------------------------------------
LEMMA ClaimedRunsStep ==
  ASSUME TypeOK, ContextInv, ClaimedRuns, [Next]_vars
  PROVE  ClaimedRuns'
<1> SUFFICES ASSUME NEW u \in Threads, pc'[Hs(u)] \in {"start", "io"} PROVE u \in claimed'
  BY DEF ClaimedRuns
<1>0. pc[Hs(u)] \in {"start", "io"} => u \in claimed
  BY DEF ClaimedRuns
<1>1. CASE UNCHANGED vars
  BY <1>0, <1>1 DEF vars, ctlVars, ghostVars
<1>2. ASSUME NEW t \in Threads, AppCall(t) PROVE u \in claimed'
  <2>1. claimed' = claimed
    BY <1>2 DEF AppCall, Begin, Handshake, Cancel, AssertionFails, ghostVars
  <2>2. CASE Begin(t)
    BY <1>0, <2>1, <2>2, AppMoves
  <2>3. CASE Handshake(t)
    <3>1. u # t
      BY <2>3, Starts
    <3> QED BY <1>0, <2>1, <2>3, <3>1, Starts
  <2>4. CASE Cancel(t) \/ AssertionFails(t)
    BY <1>0, <2>1, <2>4 DEF Cancel, AssertionFails, ctlVars
  <2> QED BY <1>2, <2>2, <2>3, <2>4 DEF AppCall
<1>3. ASSUME NEW t \in Threads, AppStep(t) PROVE u \in claimed'
  <2>1. CASE ImplicitHandshakeSync(t) \/ ImplicitHandshakeAsync(t)
    <3>1. claimed' = claimed /\ u # t
      BY <2>1, Starts DEF ImplicitHandshakeSync, ImplicitHandshakeAsync, ghostVars
    <3> QED BY <1>0, <2>1, <3>1, Starts
  <2>2. CASE SyncFinish(t)
    <3>1. claimed' = claimed /\ pc' = [pc EXCEPT ![App(t)] = "hsyield", ![Hs(t)] = "idle"]
      BY <2>2 DEF SyncFinish, ghostVars
    <3>2. /\ pc'[App(t)] = "hsyield" /\ pc'[Hs(t)] = "idle"
          /\ \A v \in Threads : v # t => pc'[App(v)] = pc[App(v)] /\ pc'[Hs(v)] = pc[Hs(v)]
      BY <3>1, TwoGotos
    <3> QED BY <1>0, <3>1, <3>2
  <2>3. CASE SyncYield(t)
    <3>1. pc'[Hs(u)] = pc[Hs(u)] /\ pc[Hs(t)] = "idle"
      BY <2>3, AppMoves DEF ContextInv, TaskKinds, SyncYield
    <3>2. u # t /\ claimed' = claimed \ {t}
      BY <2>3, <3>1 DEF SyncYield, YieldHandshake
    <3> QED BY <1>0, <3>1, <3>2
  <2>4. CASE \/ Claim(App(t)) \/ FinishImplicit(t) \/ RejoinCancelled(t)
             \/ DataDone(t) \/ CloseFlags(t) \/ CloseDone(t)
    <3>1. pc'[Hs(u)] = pc[Hs(u)]
      BY <2>4, AppMoves
    <3>2. claimed' = claimed
      BY <2>4, ActorFacts DEF Claim, ClaimRejected, DivertToFinish, ClaimRefused, ClaimBusy,
        ClaimGranted, WaitEnds, WaitExpires, FinishImplicit, RejoinCancelled, DataDone,
        CloseFlags, CloseDone, ghostVars
    <3> QED BY <1>0, <3>1, <3>2
  <2> QED BY <1>3, <2>1, <2>2, <2>3, <2>4 DEF AppStep
<1>4. ASSUME NEW t \in Threads, WorkerStep(t) PROVE u \in claimed'
  <2>1. CASE AsyncYield(t)
    <3>1. claimed' = claimed \ {t} /\ \E l \in {"idle", "complete"} : Goto(Hs(t), l)
      BY <2>1 DEF AsyncYield, YieldHandshake
    <3>2. u # t /\ pc'[Hs(u)] = pc[Hs(u)]
      BY <3>1, GotoHs
    <3> QED BY <1>0, <3>1, <3>2
  <2>2. CASE ClaimGranted(Hs(t))
    <3>1. claimed' = claimed \cup {t} /\ Goto(Hs(t), "start")
      BY <2>2, ActorFacts DEF ClaimGranted
    <3> QED BY <1>0, <3>1, GotoHs
  <2>3. CASE HandshakeBegins(t)
    <3>1. /\ claimed' = claimed /\ pc[Hs(t)] = "start"
          /\ \E l : Goto(Hs(t), l)
      BY <2>3 DEF HandshakeBegins, Fail, ghostVars
    <3> QED BY <1>0, <3>1, GotoHs
  <2>4. CASE \/ ClaimRejected(Hs(t)) \/ DivertToFinish(Hs(t)) \/ ClaimRefused(Hs(t))
             \/ ClaimBusy(Hs(t)) \/ WaitEnds(Hs(t)) \/ WaitExpires(Hs(t))
             \/ ThreadStarts(t) \/ HandshakeEnds(t) \/ AsyncMark(t) \/ AsyncCompleted(t)
    <3>1. claimed' = claimed
      BY <2>4 DEF ClaimRejected, DivertToFinish, ClaimRefused, ClaimBusy, WaitEnds,
        WaitExpires, ThreadStarts, HandshakeEnds, AsyncMark, AsyncCompleted, ghostVars
    <3>2. \E l : Goto(Hs(t), l) /\ l \notin {"start", "io"}
      BY <2>4, ActorFacts DEF ClaimRejected, DivertToFinish, ClaimRefused, ClaimBusy,
        WaitEnds, WaitExpires, ThreadStarts, HandshakeEnds, AsyncMark, AsyncCompleted, Fail,
        AfterThread
    <3>3. u # t /\ pc'[Hs(u)] = pc[Hs(u)]
      BY <3>2, GotoHs
    <3> QED BY <1>0, <3>1, <3>3
  <2> QED BY <1>4, <2>1, <2>2, <2>3, <2>4 DEF WorkerStep, Claim
<1> QED BY <1>1, <1>2, <1>3, <1>4 DEF Next
-----------------------------------------------------------------------------
\* Steps after which no new handshake is owned and every worker is as it was.
LEMMA QuietStarted ==
  ASSUME StartedRuns, started_handshake' => started_handshake,
         \A u \in Threads : /\ pc'[Hs(u)] = pc[Hs(u)]
                            /\ result'[Hs(u)] = result[Hs(u)],
         implicit_handshake' = implicit_handshake \/ implicit_handshake' = NoThread,
         \A u \in Threads : task'[u] = task[u] \/ pc[Hs(u)] = "idle"
  PROVE  StartedRuns'
<1>1. \A u \in Threads : Owns(u)' => Owns(u)
  BY ThreadsAssumption DEF Owns, Running
<1> QED BY <1>1 DEF StartedRuns, Ended

\* Only the owner matters.
LEMMA OwnerStarted ==
  ASSUME OneOwner', NEW t \in Threads, Owns(t)',
         started_handshake' => pc'[Hs(t)] \in {"queued", "io"} \/ Ended(t)'
  PROVE  StartedRuns'
BY DEF StartedRuns, OneOwner

LEMMA WorkerStarted ==
  ASSUME ContextInv, ContextInv', StartedRuns, NEW t \in Threads, WorkerStep(t)
  PROVE  StartedRuns'
<1>0. /\ TypeOK /\ FreshStart /\ TaskKinds /\ OneOwner'
      /\ result \in [Actors -> Results] /\ Hs(t) \in Actors
  BY ActorFacts DEF ContextInv, TypeOK, ActorsTyped
<1>1. CASE Claim(Hs(t)) \/ ThreadStarts(t)
  <2>1. Running(t) /\ Owns(t)
    <3>1. pc[Hs(t)] \in {"queued", "claim", "wait", "relock", "rejoin"} /\ pc[Hs(t)] \in HsPCs
      BY <1>0, <1>1 DEF Claim, ClaimRejected, DivertToFinish, ClaimRefused, ClaimBusy,
        ClaimGranted, WaitEnds, WaitExpires, PastFinish, PastHandshake, ThreadStarts,
        TypeOK, ActorsTyped
    <3> QED BY <3>1 DEF Running, Owns, HsPCs
  <2>2. pc[Hs(t)] = "queued" => ThreadStarts(t)
    BY <1>1 DEF Claim, ClaimRejected, DivertToFinish, ClaimRefused, ClaimBusy,
      ClaimGranted, WaitEnds, WaitExpires, PastFinish, PastHandshake
  <2>3. ~ThreadStarts(t) => pc[Hs(t)] # "io" /\ started_handshake' = started_handshake
    BY <1>1 DEF Claim, ClaimRejected, DivertToFinish, ClaimRefused, ClaimBusy,
      ClaimGranted, WaitEnds, WaitExpires, PastFinish, PastHandshake, hsVars
  <2>4. ~started_handshake'
    BY <1>0, <2>1, <2>2, <2>3 DEF StartedRuns, Ended, FreshStart, ThreadStarts
  <2> QED BY <2>4 DEF StartedRuns
<1>2. CASE HandshakeBegins(t)
  <2>1. Running(t) /\ Owns(t) /\ result[Hs(t)] = "none" /\ pc[Hs(t)] = "start"
    BY <1>0, <1>2 DEF HandshakeBegins, Running, Owns, FreshStart
  <2>2. ~started_handshake
    BY <2>1 DEF StartedRuns, Ended
  <2>3. CASE Goto(Hs(t), "io")
    <3>1. pc'[Hs(t)] = "io"
      BY <1>0, <2>3, GotoHs
    <3>2. Owns(t)'
      BY <3>1 DEF Owns, Running
    <3> QED BY <1>0, <3>1, <3>2, OwnerStarted
  <2>4. CASE started_handshake' = started_handshake
    BY <2>2, <2>4 DEF StartedRuns
  <2> QED BY <1>2, <2>3, <2>4 DEF HandshakeBegins
<1>3. CASE HandshakeEnds(t)
  <2>1. pc'[Hs(t)] \in {"mark", "done"}
    BY <1>0, <1>3, GotoHs DEF HandshakeEnds, AfterThread
  <2>2. Ended(t)' /\ Owns(t)'
    BY <1>0, <1>3, <2>1 DEF HandshakeEnds, Ended, Owns
  <2> QED BY <1>0, <2>2, OwnerStarted
<1>4. CASE AsyncMark(t) \/ AsyncYield(t)
  <2>1. /\ UNCHANGED <<implicit_handshake, task, result, started_handshake>>
        /\ pc[Hs(t)] \in {"mark", "yield"}
        /\ \E l \in {"yield", "idle", "complete"} : Goto(Hs(t), l)
        /\ pc[Hs(t)] = "mark" => Goto(Hs(t), "yield")
        /\ pc[Hs(t)] = "yield" => Goto(Hs(t), IF task[t].implicit THEN "idle" ELSE "complete")
    BY <1>4 DEF AsyncMark, AsyncYield, YieldHandshake, YieldOp, ctxVars
  <2>2. /\ pc'[Hs(t)] \in {"yield", "idle", "complete"}
        /\ \A u \in Threads : u # t => pc'[Hs(u)] = pc[Hs(u)]
    BY <1>0, <2>1, GotoHs
  <2>3. Owns(t)' => Owns(t)
    BY <1>0, <2>1, GotoHs DEF Owns, Running
  <2>4. \A u \in Threads : u # t => (Owns(u)' => Owns(u))
    BY <2>1, <2>2 DEF Owns, Running
  <2> QED BY <2>1, <2>2, <2>3, <2>4 DEF StartedRuns, Ended
<1>5. CASE AsyncCompleted(t)
  <2>1. \A u \in Threads : ~Owns(u)'
    BY <1>5, ThreadsAssumption, ContextsAssumption DEF AsyncCompleted, ContextInv, OwnContext
  <2> QED BY <2>1 DEF StartedRuns
<1> QED BY <1>1, <1>2, <1>3, <1>4, <1>5 DEF WorkerStep

LEMMA StartedStep ==
  ASSUME ContextInv, ContextInv', StartedRuns, [Next]_vars
  PROVE  StartedRuns'
<1>0. TypeOK /\ OneOwner'
  BY DEF ContextInv
<1>1. CASE UNCHANGED vars
  BY <1>1 DEF vars, hsVars, ctxVars, ctlVars, StartedRuns, Owns, Running, Ended
<1>2. ASSUME NEW t \in Threads,
             Handshake(t) \/ ImplicitHandshakeSync(t) \/ ImplicitHandshakeAsync(t)
      PROVE  StartedRuns'
  <2>1. pc'[Hs(t)] = "queued"
    BY <1>0, <1>2, Starts
  <2>2. Owns(t)'
    BY <2>1 DEF Owns, Running
  <2> QED BY <1>0, <2>1, <2>2, OwnerStarted
<1>3. ASSUME NEW t \in Threads, FinishImplicit(t) \/ SyncFinish(t)
      PROVE  StartedRuns'
  <2>1. \A u \in Threads : ~Owns(u)'
    BY <1>3, ThreadsAssumption, ContextsAssumption DEF FinishImplicit, SyncFinish, ContextInv,
      OwnContext
  <2> QED BY <2>1 DEF StartedRuns
<1>4. ASSUME NEW t \in Threads,
             \/ Claim(App(t)) \/ RejoinCancelled(t) \/ DataDone(t) \/ CloseFlags(t)
             \/ CloseDone(t) \/ SyncYield(t) \/ Begin(t)
      PROVE  StartedRuns'
  <2>1. \A u \in Threads : pc'[Hs(u)] = pc[Hs(u)]
    BY <1>0, <1>4, AppMoves
  <2>2. UNCHANGED <<started_handshake, implicit_handshake>>
    BY <1>4 DEF Claim, ClaimRejected, DivertToFinish, ClaimRefused, ClaimBusy, ClaimGranted,
      WaitEnds, WaitExpires, RejoinCancelled, DataDone, CloseFlags, CloseDone, SyncYield,
      Begin, YieldHandshake, YieldOp, hsVars, ctxVars
  <2>3. result' = result \/ \E r : result' = [result EXCEPT ![App(t)] = r]
    BY <1>4 DEF Claim, ClaimRejected, DivertToFinish, ClaimRefused, ClaimBusy, ClaimGranted,
      WaitEnds, WaitExpires, RejoinCancelled, DataDone, CloseFlags, CloseDone, SyncYield,
      Begin, Fail
  <2>4. \A u \in Threads : result'[Hs(u)] = result[Hs(u)]
    BY <1>0, <2>3, ActorFacts DEF TypeOK, ActorsTyped
  <2>5. task' = task \/ SyncYield(t)
    BY <1>4 DEF Claim, ClaimRejected, DivertToFinish, ClaimRefused, ClaimBusy, ClaimGranted,
      WaitEnds, WaitExpires, RejoinCancelled, DataDone, CloseFlags, CloseDone, Begin
  <2>6. \A u \in Threads : task'[u] = task[u] \/ pc[Hs(u)] = "idle"
    <3>1. SyncYield(t) => task' = [task EXCEPT ![t] = NoTask] /\ pc[Hs(t)] = "idle"
      BY DEF SyncYield, ContextInv, TaskKinds
    <3> QED BY <1>0, <2>5, <3>1 DEF TypeOK, ActorsTyped
  <2> QED BY <2>1, <2>2, <2>4, <2>6, QuietStarted
<1>5. ASSUME NEW t \in Threads, Cancel(t) \/ AssertionFails(t)
      PROVE  StartedRuns'
  BY <1>5, QuietStarted DEF Cancel, AssertionFails, hsVars, ctxVars, ctlVars
<1> QED BY <1>1, <1>2, <1>3, <1>4, <1>5, WorkerStarted DEF Next, AppCall, AppStep

LEMMA RefineInvariant == Spec => []RefineInv
<1>1. Init => ClaimedRuns /\ StartedRuns
  <2> SUFFICES ASSUME Init PROVE ClaimedRuns /\ StartedRuns
    OBVIOUS
  <2>1. ~started_handshake /\ \A u \in Threads : pc[Hs(u)] = "idle"
    BY ActorFacts DEF Init
  <2> QED BY <2>1 DEF ClaimedRuns, StartedRuns
<1>2. ContextInv /\ ContextInv' /\ ClaimedRuns /\ StartedRuns /\ [Next]_vars
        => ClaimedRuns' /\ StartedRuns'
  BY ClaimedRunsStep, StartedStep DEF ContextInv
<1> QED BY <1>1, <1>2, ClaimInvariant, ContextInvariant, PTL DEF Spec, RefineInv
-----------------------------------------------------------------------------
(***************************************************************************)
(* The mapping.                                                            *)
(***************************************************************************)
OverSet == {Hs(t) : t \in {u \in Threads : Ended(u)}}

LEMMA OverMembers ==
  /\ \A t \in Threads : Hs(t) \in OverSet <=> Ended(t)
  /\ \A a \in OverSet : \E t \in Threads : a = Hs(t) /\ Ended(t)
BY ActorFacts DEF OverSet

SameHeld ==
  /\ stray_yield' = stray_yield
  /\ ~stray_yield => Readers' = Readers /\ Writers' = Writers
SameClosed == read_closed' = read_closed /\ write_closed' = write_closed
SameSession ==
  /\ OverSet' = OverSet
  /\ ever_handshaked' = ever_handshaked /\ handshake_error' = handshake_error

\* The steps of the promise, in the state of the connection.
LEMMA MapStutter ==
  ASSUME SameHeld, SameClosed, SameSession
  PROVE  UNCHANGED Claims!vars
BY DEF SameHeld, SameClosed, SameSession, OverSet, Ended, Claims!vars, Claims!heldVars,
  Claims!sessionVars, Claims!closedVars

LEMMA MapFinish ==
  ASSUME SameHeld, SameClosed, ever_handshaked' = ever_handshaked,
         NEW t \in Threads, Ended(t), OverSet' = OverSet \ {Hs(t)},
         handshake_error' \in {handshake_error, TRUE}
  PROVE  Claims!Next
<1>1. Hs(t) \in Actors /\ Hs(t) \in OverSet
  BY ActorFacts, OverMembers
<1>2. Claims!Finish(Hs(t))
  BY <1>1 DEF Claims!Finish, Claims!heldVars, Claims!closedVars, SameHeld, SameClosed,
    OverSet, Ended
<1> QED BY <1>1, <1>2 DEF Claims!Next

LEMMA MapEnd ==
  ASSUME SameHeld, SameClosed, handshake_error' = handshake_error,
         NEW t \in Threads, ~Ended(t), OverSet' = OverSet \cup {Hs(t)},
         ever_handshaked' \in {ever_handshaked, TRUE},
         ~stray_yield => Readers = {Hs(t)} /\ Writers = {Hs(t)}
  PROVE  Claims!Next
<1>1. Hs(t) \in Actors /\ Hs(t) \notin OverSet
  BY ActorFacts, OverMembers
<1>2. Claims!EndHandshake(Hs(t))
  BY <1>1 DEF Claims!EndHandshake, Claims!Holds, Claims!heldVars, Claims!closedVars,
    SameHeld, SameClosed, OverSet, Ended
<1> QED BY <1>1, <1>2 DEF Claims!Next

LEMMA MapTake ==
  ASSUME SameClosed, SameSession, ~stray_yield, stray_yield' = stray_yield, NEW a \in Actors,
         NEW read \in BOOLEAN, NEW write \in BOOLEAN,
         read => Readers = {}, write => Writers = {},
         Readers' = IF read THEN {a} ELSE Readers,
         Writers' = IF write THEN {a} ELSE Writers
  PROVE  Claims!Next
<1>1. Claims!Take(a, read, write)
  BY DEF Claims!Take, Claims!sessionVars, Claims!closedVars, SameClosed, SameSession, OverSet,
    Ended
<1> QED BY <1>1 DEF Claims!Next

LEMMA MapGive ==
  ASSUME SameClosed, SameSession, ~stray_yield, stray_yield' = stray_yield, NEW a \in Actors,
         a \in Readers \cup Writers,
         Readers' = Readers \ {a}, Writers' = Writers \ {a}
  PROVE  Claims!Next
<1>1. Claims!Give(a)
  BY DEF Claims!Give, Claims!sessionVars, Claims!closedVars, SameClosed, SameSession, OverSet,
    Ended
<1> QED BY <1>1 DEF Claims!Next

LEMMA MapVoid ==
  ASSUME SameClosed, SameSession, ~stray_yield, stray_yield' = TRUE
  PROVE  Claims!Next
<1>1. Claims!GiveNothing
  BY DEF Claims!GiveNothing, Claims!sessionVars, Claims!closedVars, SameClosed, SameSession,
    OverSet, Ended
<1> QED BY <1>1 DEF Claims!Next

LEMMA MapClose ==
  ASSUME SameHeld, SameSession, NEW a \in Actors, NEW read \in BOOLEAN, NEW write \in BOOLEAN,
         TypeOK,
         read_closed' = (read_closed \/ read),
         write_closed' = (write_closed \/ (ever_handshaked /\ write)),
         ~stray_yield => /\ read => Readers = {a}
                         /\ write => Writers = {a}
  PROVE  Claims!Next
<1>1. /\ read_closed \in BOOLEAN /\ write_closed \in BOOLEAN /\ ever_handshaked \in BOOLEAN
      /\ stray_yield \in BOOLEAN
  BY DEF TypeOK, FlagsTyped, HistoryTyped
<1>2. Claims!Close(a)
  BY <1>1 DEF Claims!Close, Claims!Holds, Claims!sessionVars, Claims!heldVars, SameHeld,
    SameSession, OverSet, Ended
<1> QED BY <1>2 DEF Claims!Next
-----------------------------------------------------------------------------
(***************************************************************************)
(* Every step of the connection.                                           *)
(***************************************************************************)
AbstractStep == [Claims!Next]_(Claims!vars)

LEMMA SameOver ==
  ASSUME \A u \in Threads : Ended(u)' <=> Ended(u)
  PROVE  OverSet' = OverSet
BY DEF OverSet

\* A handshake is started, or finished: it is no longer over.
LEMMA ResetStep ==
  ASSUME SameHeld, SameClosed, ever_handshaked' = ever_handshaked,
         NEW t \in Threads, ~Ended(t)',
         \A u \in Threads : u # t => (Ended(u)' <=> Ended(u)),
         handshake_error' \in {handshake_error, TRUE},
         handshake_error' # handshake_error => Ended(t)
  PROVE  AbstractStep
<1>1. CASE Ended(t)
  <2>1. \A u \in Threads : u # t => Hs(u) # Hs(t)
    BY ActorFacts
  <2>2. OverSet' = OverSet \ {Hs(t)}
    <3> DEFINE E == {u \in Threads : Ended(u)}
    <3>1. E' = E \ {t} /\ E \subseteq Threads
      OBVIOUS
    <3>2. OverSet = {Hs(u) : u \in E} /\ OverSet' = {Hs(u) : u \in E'}
      BY DEF OverSet
    <3> HIDE DEF E
    <3> QED BY <2>1, <3>1, <3>2
  <2> QED BY <1>1, <2>2, MapFinish DEF AbstractStep
<1>2. CASE ~Ended(t)
  <2>1. OverSet' = OverSet
    BY <1>2, SameOver
  <2> QED BY <1>2, <2>1, MapStutter DEF AbstractStep, SameSession
<1> QED BY <1>1, <1>2

\* A step that changes nothing the promise speaks of.
LEMMA QuietMap ==
  ASSUME UNCHANGED <<claimed, stray_yield, read_closed, write_closed, ever_handshaked,
                     handshake_error>>,
         \A u \in Threads : AppHolds(u)' <=> AppHolds(u),
         \A u \in Threads : AppHolds(u) => call'[u] = call[u],
         \A u \in Threads : Ended(u)' <=> Ended(u)
  PROVE  AbstractStep
<1>1. SameHeld /\ SameClosed
  BY SameHolders DEF SameHeld, SameClosed
<1>2. SameSession
  BY SameOver DEF SameSession
<1> QED BY <1>1, <1>2, MapStutter DEF AbstractStep

\* A result of the application's own is no handshake's.
LEMMA AppResult ==
  ASSUME TypeOK, NEW t \in Threads,
         result' = result \/ \E r : result' = [result EXCEPT ![App(t)] = r]
  PROVE  \A u \in Threads : result'[Hs(u)] = result[Hs(u)] /\ (Ended(u)' <=> Ended(u))
BY ActorFacts DEF TypeOK, ActorsTyped, Ended

LEMMA CallMap ==
  ASSUME RefineInv, NEW t \in Threads, AppCall(t)
  PROVE  AbstractStep
<1>0. TypeOK /\ call \in [Threads -> [op : Ops, timeout : Timeouts]]
  BY DEF RefineInv, ClaimInv, TypeOK, ActorsTyped
<1>1. CASE Begin(t)
  <2>1. Goto(App(t), "claim") /\ ~AppHolds(t)
    BY <1>1 DEF Begin, Issue, AppHolds
  <2>2. \A u \in Threads : AppHolds(u)' <=> AppHolds(u)
    BY <1>0, <2>1, GotoHolds
  <2>3. \A u \in Threads : AppHolds(u) => call'[u] = call[u]
    BY <1>0, <1>1, <2>1 DEF Begin
  <2>4. \A u \in Threads : Ended(u)' <=> Ended(u)
    BY <1>0, <1>1, AppResult DEF Begin
  <2> QED BY <1>1, <2>2, <2>3, <2>4, QuietMap DEF Begin, hsVars, closeVars, ghostVars
<1>2. CASE Handshake(t)
  <2>1. pc[App(t)] = "idle" /\ ~AppHolds(t)
    BY <1>2 DEF Handshake, Issue, AppHolds
  <2>2. \E l \in {"crank", "idle"} :
          pc' = [pc EXCEPT ![App(t)] = l, ![Hs(t)] = "queued"]
    BY <1>2 DEF Handshake
  <2>3. \A u \in Threads : AppHolds(u)' <=> AppHolds(u)
    BY <1>0, <2>1, <2>2, TwoGotosHold
  <2>4. \A u \in Threads : AppHolds(u) => call'[u] = call[u]
    BY <1>0, <1>2, <2>1 DEF Handshake
  <2>5. SameHeld /\ SameClosed
    BY <1>2, <2>3, <2>4, SameHolders DEF Handshake, SameHeld, SameClosed, ghostVars, closeVars
  <2>6. result' = [result EXCEPT ![App(t)] = "none", ![Hs(t)] = "none"]
    BY <1>2 DEF Handshake
  <2>7. ~Ended(t)' /\ \A u \in Threads : u # t => (Ended(u)' <=> Ended(u))
    BY <1>0, <2>6, ActorFacts DEF TypeOK, ActorsTyped, Ended
  <2> QED BY <1>2, <2>5, <2>7, ResetStep DEF Handshake, hsVars
<1>3. CASE Cancel(t) \/ AssertionFails(t)
  BY <1>3, QuietMap DEF Cancel, AssertionFails, hsVars, closeVars, ctlVars, ghostVars,
    AppHolds, Ended
<1> QED BY <1>1, <1>2, <1>3 DEF AppCall

\* claim_op(): a grant takes the directions, all else is the caller's own affair.
LEMMA ClaimMap ==
  ASSUME RefineInv, NEW t \in Threads, NEW a \in {App(t), Hs(t)}, Claim(a)
  PROVE  AbstractStep
<1>0. /\ ClaimInv /\ ContextInv /\ TypeOK /\ a \in Actors
      /\ result \in [Actors -> Results]
  BY ActorFacts DEF RefineInv, ClaimInv, TypeOK, ActorsTyped
<1>1. CASE ClaimGranted(a)
  <2> DEFINE op == OpOf(a)
  <2>1. UNCHANGED <<stray_yield, read_closed, write_closed, ever_handshaked,
                    handshake_error, result>>
    BY <1>1 DEF ClaimGranted
  <2>2. OverSet' = OverSet
    BY <2>1 DEF OverSet, Ended
  <2>3. SameClosed /\ SameSession
    BY <2>1, <2>2 DEF SameClosed, SameSession
  <2>4. CASE stray_yield
    BY <2>1, <2>3, <2>4, MapStutter DEF SameHeld, AbstractStep
  <2>5. CASE ~stray_yield
    <3>1. /\ UsesRead(op) => Readers = {}
          /\ UsesWrite(op) => Writers = {}
      BY <1>0, <1>1, <2>5 DEF ClaimGranted, Busy, ClaimInv, FlagsMatchClaims
    <3>2. /\ Readers' = Readers \cup (IF UsesRead(op) THEN {a} ELSE {})
          /\ Writers' = Writers \cup (IF UsesWrite(op) THEN {a} ELSE {})
      BY <1>0, <1>1, GrantHolders
    <3>3. UsesRead(op) \in BOOLEAN /\ UsesWrite(op) \in BOOLEAN
      BY DEF UsesRead, UsesWrite
    <3> HIDE DEF op
    <3>4. /\ Readers' = IF UsesRead(op) THEN {a} ELSE Readers
          /\ Writers' = IF UsesWrite(op) THEN {a} ELSE Writers
      BY <3>1, <3>2
    <3> QED BY <1>0, <2>1, <2>3, <2>5, <3>1, <3>3, <3>4, MapTake DEF AbstractStep
  <2> QED BY <2>4, <2>5
<1>2. CASE \/ ClaimRejected(a) \/ DivertToFinish(a) \/ ClaimRefused(a)
           \/ ClaimBusy(a) \/ WaitEnds(a) \/ WaitExpires(a)
  <2>1. UNCHANGED <<claimed, stray_yield, call, read_closed, write_closed, ever_handshaked,
                    handshake_error>>
    BY <1>2 DEF ClaimRejected, DivertToFinish, ClaimRefused, ClaimBusy, WaitEnds,
      WaitExpires, hsVars, closeVars, ghostVars
  <2>2. pc[a] \in {"claim", "wait", "relock", "rejoin"}
    BY <1>2 DEF ClaimRejected, DivertToFinish, ClaimRefused, ClaimBusy, WaitEnds,
      WaitExpires, PastFinish, PastHandshake
  <2>3. \E l : /\ Goto(a, l)
               /\ a = App(t) => l \notin {"io", "closed"}
    BY <1>2, ActorFacts DEF ClaimRejected, DivertToFinish, ClaimRefused, ClaimBusy,
      WaitEnds, WaitExpires, Fail
  <2>4. \A u \in Threads : AppHolds(u)' <=> AppHolds(u)
    BY <1>0, <2>2, <2>3, GotoHolds DEF AppHolds
  <2>5. \/ result' = result
        \/ \E r \in {"error", "refused", "wouldblock"} : result' = [result EXCEPT ![a] = r]
    BY <1>2 DEF ClaimRejected, DivertToFinish, ClaimRefused, ClaimBusy, WaitEnds,
      WaitExpires, Fail
  <2>6. a = Hs(t) => ~Ended(t)
    <3> SUFFICES ASSUME a = Hs(t) PROVE ~Ended(t)
      OBVIOUS
    <3>1. Running(t)
      BY <1>0, <2>2 DEF TypeOK, ActorsTyped, HsPCs, Running
    <3> QED BY <1>0, <3>1 DEF ContextInv, FreshStart, Ended
  <2>7. \A u \in Threads : Ended(u)' <=> Ended(u)
    BY <1>0, <2>5, <2>6, ActorFacts DEF Ended
  <2> QED BY <2>1, <2>4, <2>7, QuietMap
<1> QED BY <1>1, <1>2 DEF Claim

\* yield_op (tls, OP_HANDSHAKE).
LEMMA YieldMap ==
  ASSUME RefineInv, NEW t \in Threads, YieldHandshake(t), UNCHANGED call,
         \A u \in Threads : AppHolds(u)' <=> AppHolds(u),
         \A u \in Threads : Ended(u)' <=> Ended(u)
  PROVE  AbstractStep
<1>0. ClaimInv /\ stray_yield \in BOOLEAN
  BY DEF RefineInv, ClaimInv, TypeOK, HistoryTyped
<1>1. SameClosed /\ SameSession
  BY SameOver DEF SameClosed, SameSession, YieldHandshake, YieldOp
<1>2. stray_yield' = (stray_yield \/ t \notin claimed)
  BY DEF YieldHandshake
<1>3. CASE stray_yield
  BY <1>0, <1>1, <1>2, <1>3, MapStutter DEF SameHeld, AbstractStep
<1>4. CASE ~stray_yield /\ t \notin claimed
  BY <1>1, <1>2, <1>4, MapVoid DEF AbstractStep
<1>5. CASE ~stray_yield /\ t \in claimed
  <2>1. /\ Readers = {Hs(t)} /\ Writers = {Hs(t)}
        /\ Readers' = {} /\ Writers' = {}
    BY <1>0, <1>5, HandshakeAlone, HandshakeYieldHolders
  <2>2. Hs(t) \in Actors /\ stray_yield' = stray_yield
    BY <1>0, <1>2, <1>5, ActorFacts
  <2> QED BY <1>1, <1>5, <2>1, <2>2, MapGive DEF AbstractStep
<1> QED BY <1>3, <1>4, <1>5
\* A read, a write or a close in the backend.
LEMMA OperationMap ==
  ASSUME RefineInv, NEW t \in Threads, DataDone(t) \/ CloseFlags(t) \/ CloseDone(t)
  PROVE  AbstractStep
<1>0. ClaimInv /\ TypeOK /\ stray_yield \in BOOLEAN /\ App(t) \in Actors
  BY ActorFacts DEF RefineInv, ClaimInv, TypeOK, HistoryTyped
<1>1. /\ AppHolds(t)
      /\ UNCHANGED <<call, claimed, stray_yield, result, ever_handshaked, handshake_error>>
  BY DEF DataDone, CloseFlags, CloseDone, AppHolds, YieldOp, ghostVars, hsVars
<1>2. SameSession
  BY <1>1, SameOver DEF SameSession, Ended
<1>3. /\ App(t) \in Readers <=> UsesRead(call[t].op)
      /\ App(t) \in Writers <=> UsesWrite(call[t].op)
  BY <1>1, HolderFacts
<1>4. CASE DataDone(t) \/ CloseDone(t)
  <2>1. SameClosed
    BY <1>4 DEF DataDone, CloseDone, YieldOp, SameClosed
  <2>2. CASE stray_yield
    BY <1>1, <1>2, <2>1, <2>2, MapStutter DEF SameHeld, AbstractStep
  <2>3. CASE ~stray_yield
    <3>1. \E l \in {"idle", "claim"} : Goto(App(t), l)
      BY <1>4 DEF DataDone, CloseDone
    <3>2. Readers' = Readers \ {App(t)} /\ Writers' = Writers \ {App(t)}
      BY <1>0, <1>1, <3>1, AppYieldHolders
    <3>3. App(t) \in Readers \cup Writers
      BY <1>3 DEF UsesRead, UsesWrite
    <3> QED BY <1>0, <1>1, <1>2, <2>1, <2>3, <3>2, <3>3, MapGive DEF AbstractStep
  <2> QED BY <1>0, <2>2, <2>3
<1>5. CASE CloseFlags(t)
  <2> DEFINE op == call[t].op
  <2>1. Goto(App(t), "closed")
    BY <1>5 DEF CloseFlags
  <2>2. \A u \in Threads : AppHolds(u)' <=> AppHolds(u)
    BY <1>0, <1>1, <2>1, GotoHolds
  <2>3. SameHeld
    BY <1>1, <2>2, SameHolders DEF SameHeld
  <2>4. /\ read_closed' = (read_closed \/ ClosesRead(op))
        /\ write_closed' = (write_closed \/ (ever_handshaked /\ ClosesWrite(op)))
    BY <1>5 DEF CloseFlags
  <2>5. ClosesRead(op) \in BOOLEAN /\ ClosesWrite(op) \in BOOLEAN
    BY DEF ClosesRead, ClosesWrite
  <2>6. ~stray_yield => /\ ClosesRead(op) => App(t) \in Readers
                        /\ ClosesWrite(op) => App(t) \in Writers
    BY <1>3 DEF ClosesRead, ClosesWrite, UsesRead, UsesWrite
  <2>7. ~stray_yield => AtMostOne(Readers) /\ AtMostOne(Writers)
    BY <1>0 DEF ClaimInv, ClaimsExcludeEachOther
  <2>8. ~stray_yield => /\ ClosesRead(op) => Readers = {App(t)}
                        /\ ClosesWrite(op) => Writers = {App(t)}
    BY <2>6, <2>7 DEF AtMostOne
  <2> HIDE DEF op
  <2> QED BY <1>0, <1>2, <2>3, <2>4, <2>5, <2>8, MapClose DEF AbstractStep
<1> QED BY <1>4, <1>5

\* Whoever finishes the handshake of v, which is over, may break the connection.
LEMMA FinishMap ==
  ASSUME RefineInv, NEW v \in Threads, Owns(v), pc[Hs(v)] \notin {"queued", "io"},
         FinishHandshake(v) \/ handshake_error' = handshake_error,
         SameHeld, SameClosed, ever_handshaked' = ever_handshaked,
         ~Ended(v)', \A u \in Threads : u # v => (Ended(u)' <=> Ended(u))
  PROVE  AbstractStep
<1>1. handshake_error \in BOOLEAN /\ started_handshake \in BOOLEAN
  BY DEF RefineInv, ClaimInv, TypeOK, FlagsTyped
<1>2. started_handshake => Ended(v)
  BY DEF RefineInv, StartedRuns
<1>3. handshake_error' \in {handshake_error, TRUE}
  BY <1>1 DEF FinishHandshake
<1>4. handshake_error' # handshake_error => Ended(v)
  BY <1>1, <1>2 DEF FinishHandshake
<1> QED BY <1>3, <1>4, ResetStep

LEMMA AppStepMap ==
  ASSUME RefineInv, NEW t \in Threads, AppStep(t)
  PROVE  AbstractStep
<1>0. /\ ClaimInv /\ ContextInv /\ TypeOK
      /\ result \in [Actors -> Results]
  BY DEF RefineInv, ClaimInv, TypeOK, ActorsTyped
<1>1. CASE Claim(App(t))
  BY <1>1, ClaimMap
<1>2. CASE ImplicitHandshakeSync(t) \/ ImplicitHandshakeAsync(t)
  <2>1. /\ pc[App(t)] \notin {"io", "closed"}
        /\ \E l \in {"crank", "idle"} :
             pc' = [pc EXCEPT ![App(t)] = l, ![Hs(t)] = "queued"]
    BY <1>2 DEF ImplicitHandshakeSync, ImplicitHandshakeAsync
  <2>2. \A u \in Threads : AppHolds(u)' <=> AppHolds(u)
    BY <1>0, <2>1, TwoGotosHold
  <2>3. SameHeld /\ SameClosed
    BY <1>2, <2>2, SameHolders DEF ImplicitHandshakeSync, ImplicitHandshakeAsync, SameHeld,
      SameClosed, ghostVars, closeVars
  <2>4. \/ result' = [result EXCEPT ![Hs(t)] = "none"]
        \/ result' = [result EXCEPT ![Hs(t)] = "none", ![App(t)] = "wouldblock"]
    BY <1>2 DEF ImplicitHandshakeSync, ImplicitHandshakeAsync
  <2>5. ~Ended(t)' /\ \A u \in Threads : u # t => (Ended(u)' <=> Ended(u))
    BY <1>0, <2>4, ActorFacts DEF Ended
  <2>6. UNCHANGED <<ever_handshaked, handshake_error>>
    BY <1>2 DEF ImplicitHandshakeSync, ImplicitHandshakeAsync
  <2> QED BY <2>3, <2>5, <2>6, ResetStep
<1>3. CASE FinishImplicit(t)
  <2>1. PICK v \in Threads : /\ v = implicit_handshake /\ Owns(v)
                            /\ pc[Hs(v)] \in {"yield", "idle"}
    BY <1>0, <1>3 DEF FinishImplicit, ContextInv, FinishOnce, TypeOK, ContextsTyped, Owns
  <2>2. /\ FinishHandshake(v)
        /\ UNCHANGED <<ever_handshaked, closeVars, call, ghostVars>>
        /\ \/ result' = [result EXCEPT ![Hs(v)] = "none"]
           \/ result' = [result EXCEPT ![Hs(v)] = "none", ![App(t)] = "error"]
    BY <1>3, <2>1 DEF FinishImplicit
  <2>3. ~AppHolds(t) /\ \E l \in {"rejoin", "idle"} : Goto(App(t), l)
    BY <1>3 DEF FinishImplicit, AppHolds
  <2>4. \A u \in Threads : AppHolds(u)' <=> AppHolds(u)
    BY <1>0, <2>3, GotoHolds
  <2>5. SameHeld /\ SameClosed
    BY <2>2, <2>4, SameHolders DEF SameHeld, SameClosed, ghostVars, closeVars
  <2>6. ~Ended(v)' /\ \A u \in Threads : u # v => (Ended(u)' <=> Ended(u))
    BY <1>0, <2>1, <2>2, ActorFacts DEF Ended
  <2> QED BY <2>1, <2>2, <2>5, <2>6, FinishMap
<1>4. CASE RejoinCancelled(t)
  <2>1. ~AppHolds(t) /\ Goto(App(t), "idle")
    BY <1>4, ActorFacts DEF RejoinCancelled, Fail, AppHolds
  <2>2. \A u \in Threads : AppHolds(u)' <=> AppHolds(u)
    BY <1>0, <2>1, GotoHolds
  <2>3. \A u \in Threads : Ended(u)' <=> Ended(u)
    BY <1>0, <1>4, AppResult DEF RejoinCancelled, Fail
  <2> QED BY <1>4, <2>2, <2>3, QuietMap DEF RejoinCancelled, hsVars, closeVars, ghostVars
<1>5. CASE DataDone(t) \/ CloseFlags(t) \/ CloseDone(t)
  BY <1>5, OperationMap
<1>6. CASE SyncFinish(t)
  <2>1. /\ pc[Hs(t)] = "done" /\ Owns(t) /\ FinishHandshake(t)
        /\ UNCHANGED <<ever_handshaked, closeVars, call, ghostVars>>
        /\ pc[App(t)] \notin {"io", "closed"}
        /\ \E l \in {"hsyield"} : \E k : pc' = [pc EXCEPT ![App(t)] = l, ![Hs(t)] = k]
        /\ \E r : result' = [result EXCEPT ![App(t)] = r, ![Hs(t)] = "none"]
    BY <1>6 DEF SyncFinish, Owns
  <2>2. \A u \in Threads : AppHolds(u)' <=> AppHolds(u)
    BY <1>0, <2>1, TwoGotosHold
  <2>3. SameHeld /\ SameClosed
    BY <2>1, <2>2, SameHolders DEF SameHeld, SameClosed, ghostVars, closeVars
  <2>4. ~Ended(t)' /\ \A u \in Threads : u # t => (Ended(u)' <=> Ended(u))
    BY <1>0, <2>1, ActorFacts DEF Ended
  <2> QED BY <2>1, <2>3, <2>4, FinishMap
<1>7. CASE SyncYield(t)
  <2>1. YieldHandshake(t) /\ UNCHANGED call
    BY <1>7 DEF SyncYield
  <2>2. ~AppHolds(t) /\ \E l \in {"relock", "idle"} : Goto(App(t), l)
    BY <1>7 DEF SyncYield, AppHolds
  <2>3. \A u \in Threads : AppHolds(u)' <=> AppHolds(u)
    BY <1>0, <2>2, GotoHolds
  <2>4. \A u \in Threads : Ended(u)' <=> Ended(u)
    BY <1>0, <1>7, AppResult DEF SyncYield
  <2> QED BY <2>1, <2>3, <2>4, YieldMap
<1> QED BY <1>1, <1>2, <1>3, <1>4, <1>5, <1>6, <1>7 DEF AppStep

LEMMA WorkerStepMap ==
  ASSUME RefineInv, NEW t \in Threads, WorkerStep(t)
  PROVE  AbstractStep
<1>0. /\ ClaimInv /\ ContextInv /\ TypeOK
      /\ result \in [Actors -> Results] /\ Hs(t) \in Actors
  BY ActorFacts DEF RefineInv, ClaimInv, TypeOK, ActorsTyped
<1>1. CASE Claim(Hs(t))
  BY <1>1, ClaimMap
<1>2. CASE ThreadStarts(t) \/ AsyncMark(t)
  <2>1. /\ UNCHANGED <<claimed, stray_yield, call, read_closed, write_closed,
                       ever_handshaked, handshake_error, result>>
        /\ \E l : Goto(Hs(t), l)
    BY <1>2 DEF ThreadStarts, AsyncMark, closeVars, ghostVars
  <2>2. \A u \in Threads : AppHolds(u)' <=> AppHolds(u)
    BY <1>0, <2>1, GotoHolds
  <2> QED BY <2>1, <2>2, QuietMap DEF Ended
<1>3. CASE HandshakeBegins(t)
  <2>1. Running(t) /\ result[Hs(t)] = "none" /\ ~handshake_error
    BY <1>0, <1>3 DEF HandshakeBegins, ContextInv, FreshStart, Running
  <2>2. handshake_error' = handshake_error
    BY <1>0, <1>3, <2>1 DEF HandshakeBegins, TypeOK, FlagsTyped
  <2>3. /\ UNCHANGED <<claimed, stray_yield, call, read_closed, write_closed,
                       ever_handshaked>>
        /\ \E l : Goto(Hs(t), l)
        /\ result' = result \/ result' = [result EXCEPT ![Hs(t)] = "error"]
    BY <1>3 DEF HandshakeBegins, Fail, closeVars, ghostVars
  <2>4. \A u \in Threads : AppHolds(u)' <=> AppHolds(u)
    BY <1>0, <2>3, GotoHolds
  <2>5. \A u \in Threads : Ended(u)' <=> Ended(u)
    BY <1>0, <2>1, <2>3, ActorFacts DEF Ended
  <2> QED BY <2>2, <2>3, <2>4, <2>5, QuietMap
<1>4. CASE HandshakeEnds(t)
  <2>1. Running(t) /\ result[Hs(t)] = "none" /\ t \in claimed
    BY <1>0, <1>4 DEF HandshakeEnds, RefineInv, ClaimedRuns, ContextInv, FreshStart, Running
  <2>2. /\ UNCHANGED <<claimed, stray_yield, call, read_closed, write_closed,
                       handshake_error>>
        /\ \E l : Goto(Hs(t), l)
        /\ \E r \in {"ok", "failed"} : result' = [result EXCEPT ![Hs(t)] = r]
        /\ \E ok \in BOOLEAN : ever_handshaked' = (ever_handshaked \/ ok)
    BY <1>4 DEF HandshakeEnds, closeVars, ghostVars
  <2>3. \A u \in Threads : AppHolds(u)' <=> AppHolds(u)
    BY <1>0, <2>2, GotoHolds
  <2>4. SameHeld /\ SameClosed
    BY <2>2, <2>3, SameHolders DEF SameHeld, SameClosed
  <2>5. ~Ended(t) /\ Ended(t)' /\ \A u \in Threads : u # t => (Ended(u)' <=> Ended(u))
    BY <1>0, <2>1, <2>2, ActorFacts DEF Ended
  <2>6. OverSet' = OverSet \cup {Hs(t)}
    BY <2>5 DEF OverSet
  <2>7. ~stray_yield => Readers = {Hs(t)} /\ Writers = {Hs(t)}
    BY <1>0, <2>1, HandshakeAlone
  <2>8. ever_handshaked' \in {ever_handshaked, TRUE}
    BY <1>0, <2>2 DEF TypeOK, FlagsTyped
  <2> QED BY <2>2, <2>4, <2>5, <2>6, <2>7, <2>8, MapEnd DEF AbstractStep
<1>5. CASE AsyncYield(t)
  <2>1. YieldHandshake(t) /\ UNCHANGED <<call, result>> /\ \E l : Goto(Hs(t), l)
    BY <1>5 DEF AsyncYield
  <2>2. \A u \in Threads : AppHolds(u)' <=> AppHolds(u)
    BY <1>0, <2>1, GotoHolds
  <2> QED BY <2>1, <2>2, YieldMap DEF Ended
<1>6. CASE AsyncCompleted(t)
  <2>1. /\ pc[Hs(t)] = "complete" /\ Owns(t)
        /\ FinishHandshake(t) \/ handshake_error' = handshake_error
        /\ UNCHANGED <<ever_handshaked, closeVars, call, ghostVars>>
        /\ \E l : Goto(Hs(t), l)
        /\ result' = [result EXCEPT ![Hs(t)] = "none"]
    BY <1>6 DEF AsyncCompleted, Owns
  <2>2. \A u \in Threads : AppHolds(u)' <=> AppHolds(u)
    BY <1>0, <2>1, GotoHolds
  <2>3. SameHeld /\ SameClosed
    BY <2>1, <2>2, SameHolders DEF SameHeld, SameClosed, ghostVars, closeVars
  <2>4. ~Ended(t)' /\ \A u \in Threads : u # t => (Ended(u)' <=> Ended(u))
    BY <1>0, <2>1, ActorFacts DEF Ended
  <2> QED BY <2>1, <2>3, <2>4, FinishMap
<1> QED BY <1>1, <1>2, <1>3, <1>4, <1>5, <1>6 DEF WorkerStep

-----------------------------------------------------------------------------
\* The connection implements the promise of TlsClaims, for every set of threads and
\* every way of calling it: directions are taken together when they are free and
\* closed and left only by their holder, and only a handshake that has run in the
\* hands of the holder of both can, once, break the connection.
THEOREM Refinement == Spec => ImplementsClaims
<1>1. Init => Claims!Init
  <2> SUFFICES ASSUME Init PROVE Claims!Init
    OBVIOUS
  <2>1. /\ stray_yield = FALSE /\ ever_handshaked = FALSE /\ handshake_error = FALSE
        /\ read_closed = FALSE /\ write_closed = FALSE /\ claimed = {}
    BY DEF Init
  <2>2. \A u \in Threads : ~AppHolds(u) /\ ~Ended(u)
    BY ActorFacts DEF Init, AppHolds, Ended
  <2>3. Readers = {} /\ Writers = {}
    BY <2>1, <2>2 DEF Readers, Writers
  <2>4. OverSet = {}
    BY <2>2 DEF OverSet
  <2> QED BY <2>1, <2>3, <2>4 DEF Claims!Init, OverSet, Ended
<1>2. RefineInv /\ [Next]_vars => [Claims!Next]_(Claims!vars)
  <2> SUFFICES ASSUME RefineInv, [Next]_vars PROVE AbstractStep
    BY DEF AbstractStep
  <2>1. CASE UNCHANGED vars
    BY <2>1, QuietMap DEF vars, hsVars, closeVars, ctlVars, ghostVars, AppHolds, Ended
  <2>2. CASE Next
    BY <2>2, CallMap, AppStepMap, WorkerStepMap DEF Next
  <2> QED BY <2>1, <2>2
<1> QED BY <1>1, <1>2, RefineInvariant, PTL DEF Spec, ImplementsClaims, Claims!Spec

-----------------------------------------------------------------------------
(***************************************************************************)
(* Sleepers.  Whoever waits in claim_op() is never forgotten:              *)
(* waiting_for_op is cancelled already, or an operation is in progress     *)
(* that will cancel it.                                                    *)
(***************************************************************************)
\* waiting_for_op is cancelled, or will be.
Signalled == waiting_for_op \/ YieldPending

\* Who starts or stops to wait in claim_op(), and who is about to yield.
Still ==
  /\ \A u \in Threads : pc[Hs(u)] = "yield" => pc'[Hs(u)] = "yield"
  /\ \A a \in Actors : pc'[a] = "wait" => pc[a] = "wait"

\* A step that neither ends an operation nor makes anybody wait.
Bystands ==
  /\ Still
  /\ waiting_for_op' = waiting_for_op
  /\ reading => reading'
  /\ writing => writing'
  /\ handshaking => handshaking'
  /\ ever_handshaked' = ever_handshaked /\ stray_yield' = stray_yield

LEMMA GotoStill ==
  ASSUME TypeOK, NEW b \in Actors, NEW l, Goto(b, l), l # "wait", pc[b] # "yield"
  PROVE  Still
<1>1. pc \in [Actors -> AppPCs \cup HsPCs] /\ \A u \in Threads : Hs(u) \in Actors
  BY ActorFacts DEF TypeOK, ActorsTyped
<1>2. \A a \in Actors : pc'[a] = IF a = b THEN l ELSE pc[a]
  BY <1>1 DEF Goto
<1> QED BY <1>1, <1>2 DEF Still

LEMMA TwoGotosStill ==
  ASSUME TypeOK, NEW t \in Threads, NEW l, NEW k,
         pc' = [pc EXCEPT ![App(t)] = l, ![Hs(t)] = k],
         l # "wait", k # "wait", pc[Hs(t)] # "yield"
  PROVE  Still
<1>1. pc \in [Actors -> AppPCs \cup HsPCs] /\ App(t) # Hs(t)
  BY ActorFacts DEF TypeOK, ActorsTyped
<1>2. \A u \in Threads : Hs(u) \in Actors /\ App(t) # Hs(u)
  BY ActorFacts
<1>3. \A a \in Actors : pc'[a] = IF a = Hs(t) THEN k ELSE IF a = App(t) THEN l ELSE pc[a]
  BY <1>1
<1> QED BY <1>1, <1>2, <1>3 DEF Still

\* An application thread never stands at a worker's last step.
LEMMA AppNotYielding ==
  ASSUME TypeOK, NEW t \in Threads
  PROVE  pc[App(t)] # "yield" /\ App(t) \in Actors /\ Hs(t) \in Actors
<1>1. pc[App(t)] \in AppPCs
  BY DEF TypeOK, ActorsTyped
<1> QED BY <1>1, ActorFacts DEF AppPCs

\* Whoever must wait waits for somebody.
LEMMA BusySignals ==
  ASSUME NEW a \in Actors, ClaimBusy(a)
  PROVE  Signalled'
<1>1. reading \/ writing \/ handshaking
  BY DEF ClaimBusy, Busy
<1>2. reading' = reading /\ writing' = writing /\ handshaking' = handshaking
  BY DEF ClaimBusy, hsVars
<1> QED BY <1>1, <1>2 DEF Signalled, YieldPending

LEMMA YieldSignals ==
  ASSUME NEW op, NEW r, YieldOp(op, r)
  PROVE  Signalled'
BY DEF YieldOp, Signalled

\* claim_op(), by a thread or by its worker.
LEMMA ClaimSignals ==
  ASSUME TypeOK, NEW t \in Threads, NEW a \in {App(t), Hs(t)}, Claim(a)
  PROVE  Signalled' \/ Bystands
<1>0. a \in Actors /\ AfterThread(t) \in {"mark", "done"} /\ a[1] = t
  BY ActorFacts DEF AfterThread
<1>1. CASE ClaimBusy(a)
  BY <1>0, <1>1, BusySignals
<1>2. CASE ~ClaimBusy(a)
  <2>1. pc[a] \in {"claim", "wait", "relock", "rejoin"}
    BY <1>2 DEF Claim, ClaimRejected, DivertToFinish, ClaimRefused, ClaimGranted, WaitEnds,
      WaitExpires, PastFinish, PastHandshake
  <2>2. \E l \in {"idle", "mark", "done", "finish", "start", "io", "claim"} : Goto(a, l)
    BY <1>0, <1>2 DEF Claim, ClaimRejected, DivertToFinish, ClaimRefused, ClaimGranted, WaitEnds,
      WaitExpires, Fail
  <2>3. Still
    BY <1>0, <2>1, <2>2, GotoStill
  <2>4. /\ waiting_for_op' = waiting_for_op
        /\ reading => reading'
        /\ writing => writing'
        /\ handshaking => handshaking'
        /\ ever_handshaked' = ever_handshaked /\ stray_yield' = stray_yield
    <3>1. CASE ClaimGranted(a)
      BY <3>1 DEF ClaimGranted
    <3>2. CASE ClaimRejected(a) \/ ClaimRefused(a)
      BY <3>2 DEF ClaimRejected, ClaimRefused, dirVars, hsVars, ghostVars
    <3>3. CASE DivertToFinish(a)
      BY <3>3 DEF DivertToFinish, dirVars, ghostVars
    <3>4. CASE WaitEnds(a) \/ WaitExpires(a)
      BY <3>4 DEF WaitEnds, WaitExpires, dirVars, hsVars, ghostVars
    <3> QED BY <1>2, <3>1, <3>2, <3>3, <3>4 DEF Claim
  <2> QED BY <2>3, <2>4 DEF Bystands
<1> QED BY <1>1, <1>2

\* A handshake ends while its worker, or a handshake that nobody had claimed, has
\* left a sign.
LEMMA EndSignals ==
  ASSUME RefineInv, stray_yield => Signalled, NEW t \in Threads, HandshakeEnds(t)
  PROVE  Signalled'
<1>1. Signalled
  <2>1. CASE ~stray_yield
    <3>1. t \in claimed /\ ClaimInv
      BY DEF RefineInv, ClaimedRuns, HandshakeEnds
    <3>2. Readers # {} /\ FlagsMatchClaims
      BY <3>1, HolderFacts DEF ClaimInv
    <3> QED BY <2>1, <3>2 DEF FlagsMatchClaims, Signalled, YieldPending
  <2> QED BY <2>1
<1>2. TypeOK /\ pc[Hs(t)] = "io" /\ Goto(Hs(t), AfterThread(t)) /\ AfterThread(t) # "wait"
  BY DEF RefineInv, ClaimInv, HandshakeEnds, AfterThread
<1>3. Still
  BY <1>2, ActorFacts, GotoStill
<1>4. UNCHANGED <<waiting_for_op, reading, writing, handshaking>>
  BY DEF HandshakeEnds, dirVars
<1> QED BY <1>1, <1>3, <1>4 DEF Signalled, YieldPending, Still

LEMMA AppCallSignals ==
  ASSUME TypeOK, NEW t \in Threads, AppCall(t)
  PROVE  Bystands
<1>1. UNCHANGED <<hsVars, dirVars, ghostVars>>
  BY DEF AppCall, Begin, Handshake, Cancel, AssertionFails
<1>2. CASE Begin(t)
  BY <1>2, AppNotYielding, GotoStill, <1>1 DEF Begin, Bystands, hsVars, dirVars, ghostVars
<1>3. CASE Handshake(t)
  <2>1. /\ \E l \in {"crank", "idle"} : pc' = [pc EXCEPT ![App(t)] = l, ![Hs(t)] = "queued"]
        /\ pc[Hs(t)] = "idle"
    BY <1>3 DEF Handshake, StartTask
  <2>2. Still
    BY <2>1, TwoGotosStill
  <2> QED BY <2>2, <1>1 DEF Bystands, hsVars, dirVars, ghostVars
<1>4. CASE Cancel(t) \/ AssertionFails(t)
  BY <1>4, <1>1 DEF Cancel, AssertionFails, ctlVars, Still, Bystands, hsVars, dirVars, ghostVars
<1> QED BY <1>2, <1>3, <1>4 DEF AppCall

LEMMA AppStepSignals ==
  ASSUME TypeOK, NEW t \in Threads, AppStep(t)
  PROVE  Signalled' \/ Bystands
<1>0. pc[App(t)] # "yield" /\ App(t) \in Actors /\ Hs(t) \in Actors
  BY AppNotYielding
<1>1. CASE Claim(App(t))
  BY <1>1, ClaimSignals
<1>2. CASE ImplicitHandshakeSync(t) \/ ImplicitHandshakeAsync(t) \/ SyncFinish(t)
  <2>1. /\ \E l \in {"crank", "idle", "hsyield"}, k \in {"queued", "idle"} :
             pc' = [pc EXCEPT ![App(t)] = l, ![Hs(t)] = k]
        /\ pc[Hs(t)] # "yield"
    BY <1>2 DEF ImplicitHandshakeSync, ImplicitHandshakeAsync, SyncFinish, StartTask
  <2>2. Still
    BY <2>1, TwoGotosStill
  <2> QED BY <1>2, <2>2 DEF ImplicitHandshakeSync, ImplicitHandshakeAsync, SyncFinish, Bystands,
        dirVars, ghostVars
<1>3. CASE FinishImplicit(t) \/ RejoinCancelled(t) \/ CloseFlags(t)
  <2>1. \E l \in {"rejoin", "idle", "closed"} : Goto(App(t), l)
    BY <1>3, ActorFacts DEF FinishImplicit, RejoinCancelled, CloseFlags, Fail
  <2>2. Still
    BY <1>0, <2>1, GotoStill
  <2> QED BY <1>3, <2>2 DEF FinishImplicit, RejoinCancelled, CloseFlags, Bystands, hsVars,
        dirVars, ghostVars
<1>4. CASE DataDone(t) \/ CloseDone(t) \/ SyncYield(t)
  <2>1. \E op, r : YieldOp(op, r)
    BY <1>4 DEF DataDone, CloseDone, SyncYield, YieldHandshake
  <2> QED BY <2>1, YieldSignals
<1> QED BY <1>1, <1>2, <1>3, <1>4 DEF AppStep

LEMMA WorkerStepSignals ==
  ASSUME RefineInv, stray_yield => Signalled, NEW t \in Threads, WorkerStep(t)
  PROVE  Signalled' \/ Bystands
<1>0. TypeOK /\ Hs(t) \in Actors
  BY AppNotYielding DEF RefineInv, ClaimInv
<1>1. CASE Claim(Hs(t))
  BY <1>0, <1>1, ClaimSignals
<1>2. CASE ThreadStarts(t) \/ HandshakeBegins(t) \/ AsyncCompleted(t)
  <2>1. \E l \in {"claim", "io", "idle", "mark", "done"} : Goto(Hs(t), l)
    BY <1>2, ActorFacts DEF ThreadStarts, HandshakeBegins, AsyncCompleted, Fail, AfterThread
  <2>2. pc[Hs(t)] # "yield"
    BY <1>2 DEF ThreadStarts, HandshakeBegins, AsyncCompleted
  <2>3. Still
    BY <1>0, <2>1, <2>2, GotoStill
  <2> QED BY <1>2, <2>3 DEF ThreadStarts, HandshakeBegins, AsyncCompleted, Bystands, dirVars,
        ghostVars
<1>3. CASE HandshakeEnds(t)
  BY <1>3, EndSignals
<1>4. CASE AsyncMark(t)
  <2>1. pc'[Hs(t)] = "yield"
    BY <1>0, <1>4, GotoHs DEF AsyncMark
  <2> QED BY <2>1 DEF Signalled, YieldPending
<1>5. CASE AsyncYield(t)
  BY <1>5, YieldSignals DEF AsyncYield, YieldHandshake
<1> QED BY <1>1, <1>2, <1>3, <1>4, <1>5 DEF WorkerStep

\* Who may sleep: a thread that has to wait; condition_wait, once there was a
\* handshake; and whoever shares a direction that was yielded under its holder.
Sleeps ==
  \/ \E a \in Actors : pc[a] = "wait"
  \/ ever_handshaked
  \/ stray_yield

SleepsSignalled == Sleeps => Signalled

\* Steps of the arbiter keep what a sleeper waits for, or wake him.
LEMMA ArbiterSignals ==
  ASSUME RefineInv, SleepsSignalled, NEW t \in Threads,
         AppCall(t) \/ AppStep(t) \/ WorkerStep(t)
  PROVE  Signalled' \/ Bystands
<1>1. TypeOK /\ (stray_yield => Signalled)
  BY DEF RefineInv, ClaimInv, SleepsSignalled, Sleeps
<1> QED BY <1>1, AppCallSignals, AppStepSignals, WorkerStepSignals

LEMMA BystandsKeeps ==
  ASSUME Bystands
  PROVE  /\ YieldPending => YieldPending'
         /\ Signalled => Signalled'
<1>1. YieldPending => YieldPending'
  BY DEF Bystands, Still, YieldPending
<1> QED BY <1>1 DEF Bystands, Signalled

LEMMA SleepsInvariant == Spec => []SleepsSignalled
<1>1. Init => SleepsSignalled
  BY DEF Init, SleepsSignalled, Sleeps
<1>2. RefineInv /\ SleepsSignalled /\ [Next]_vars => SleepsSignalled'
  <2> SUFFICES ASSUME RefineInv, SleepsSignalled, [Next]_vars, Sleeps'
               PROVE  Signalled'
    BY DEF SleepsSignalled
  <2>1. CASE UNCHANGED vars
    BY <2>1 DEF SleepsSignalled, Sleeps, Signalled, YieldPending, vars, dirVars, hsVars, ctlVars,
      ghostVars
  <2>2. ASSUME NEW t \in Threads, AppCall(t) \/ AppStep(t) \/ WorkerStep(t), Bystands
        PROVE  Signalled'
    <3>1. Sleeps
      BY <2>2 DEF Sleeps, Bystands, Still
    <3> QED BY <2>2, <3>1, BystandsKeeps DEF SleepsSignalled
  <2> QED BY <2>1, <2>2, ArbiterSignals DEF Next
<1> QED BY <1>1, <1>2, RefineInvariant, PTL DEF Spec

-----------------------------------------------------------------------------
(***************************************************************************)
(* Connections that are only read, written and closed by calls that block: *)
(* every handshake is an implicit one whose caller cranks it, so that      *)
(* handshaking covers its whole life.  Such a connection keeps the         *)
(* promises that other uses of it break.                                   *)
(***************************************************************************)
BlocksAlways ==
  \A t \in Threads : \A c \in Calls[t] : c.op \notin StartOps /\ c.timeout = -1

\* Where these calls never get.
PlainPlaces ==
  \A t \in Threads :
    /\ pc[Hs(t)] \notin {"mark", "yield", "complete"}
    /\ pc[App(t)] \notin {"finish", "rejoin"}

Plain ==
  /\ PlainPlaces
  /\ \A a \in Actors : timeout[a] = -1
  /\ \A t \in Threads :
       call[t].timeout = -1 /\ call[t].op \notin StartOps /\ ~task[t].async
  /\ ~need_finish_handshake

\* What is left of Next.
ClaimsPlainly(a) ==
  ClaimRejected(a) \/ ClaimRefused(a) \/ ClaimBusy(a) \/ ClaimGranted(a) \/ WaitEnds(a)

PlainStep(t) ==
  \/ Begin(t) \/ Cancel(t)
  \/ ClaimsPlainly(App(t)) \/ ClaimsPlainly(Hs(t))
  \/ ImplicitHandshakeSync(t) \/ SyncFinish(t) \/ SyncYield(t)
  \/ DataDone(t) \/ CloseFlags(t) \/ CloseDone(t)
  \/ ThreadStarts(t) \/ HandshakeBegins(t) \/ HandshakeEnds(t)

LEMMA PlainClaims ==
  ASSUME Plain, NEW a \in Actors, Claim(a)
  PROVE  ClaimsPlainly(a)
<1>1. timeout[a] = -1 /\ ~need_finish_handshake
  BY DEF Plain
<1>2. ~DivertToFinish(a)
  BY <1>1 DEF DivertToFinish, Diverted
<1>3. ~WaitExpires(a)
  BY <1>1 DEF WaitExpires
<1> QED BY <1>2, <1>3 DEF Claim, ClaimsPlainly

LEMMA PlainSteps ==
  ASSUME BlocksAlways, TypeOK, Plain, NEW t \in Threads,
         AppCall(t) \/ AppStep(t) \/ WorkerStep(t)
  PROVE  PlainStep(t) \/ AssertionFails(t)
<1>1. App(t) \in Actors /\ Hs(t) \in Actors
  BY ActorFacts
<1>2. ~Handshake(t)
  BY DEF Handshake, BlocksAlways
<1>3. ~ImplicitHandshakeAsync(t)
  <2>1. timeout[App(t)] = -1
    BY <1>1 DEF Plain
  <2>2. ImplicitHandshakeAsync(t) => timeout[App(t)] = 0
    BY DEF ImplicitHandshakeAsync
  <2> QED BY <2>1, <2>2
<1>4. ~FinishImplicit(t) /\ ~RejoinCancelled(t)
  BY DEF FinishImplicit, RejoinCancelled, Plain, PlainPlaces
<1>5. ~AsyncMark(t) /\ ~AsyncYield(t) /\ ~AsyncCompleted(t)
  BY DEF AsyncMark, AsyncYield, AsyncCompleted, Plain, PlainPlaces
<1>6. /\ Claim(App(t)) => ClaimsPlainly(App(t))
      /\ Claim(Hs(t)) => ClaimsPlainly(Hs(t))
  BY <1>1, PlainClaims
<1> QED BY <1>2, <1>3, <1>4, <1>5, <1>6 DEF AppCall, AppStep, WorkerStep, PlainStep

\* Where a claim leads.
LEMMA PlainClaimMoves ==
  ASSUME Plain, NEW t \in Threads, NEW a \in {App(t), Hs(t)}, ClaimsPlainly(a)
  PROVE  /\ pc[a] \in {"claim", "wait", "relock", "rejoin"}
         /\ \/ a = App(t) /\ \E l \in {"idle", "wait", "io", "claim"} : Goto(a, l)
            \/ a = Hs(t) /\ \E l \in {"done", "wait", "start", "claim"} : Goto(a, l)
         /\ UNCHANGED <<call, task, need_finish_handshake>>
         /\ timeout' = timeout \/ timeout' = [timeout EXCEPT ![a] = InMilliseconds(@)]
<1>1. AfterThread(t) = "done" /\ a[1] = t
  BY ActorFacts DEF AfterThread, Plain
<1>2. pc[a] \in {"claim", "wait", "relock", "rejoin"}
  BY DEF ClaimsPlainly, ClaimRejected, ClaimRefused, ClaimBusy, ClaimGranted, WaitEnds, PastFinish,
    PastHandshake
<1>3. CASE a = App(t)
  <2>1. a[2] = "app" /\ a # Hs(t)
    BY <1>3, ActorFacts
  <2>2. \E l \in {"idle", "wait", "io", "claim"} : Goto(a, l)
    BY <2>1 DEF ClaimsPlainly, ClaimRejected, ClaimRefused, ClaimBusy, ClaimGranted,
      WaitEnds, Fail
  <2> QED BY <1>2, <1>3, <2>2 DEF ClaimsPlainly, ClaimRejected, ClaimRefused, ClaimBusy,
        ClaimGranted, WaitEnds, hsVars
<1>4. CASE a = Hs(t)
  <2>1. a[2] = "hs"
    BY <1>4, ActorFacts
  <2>2. \E l \in {"done", "wait", "start", "claim"} : Goto(a, l)
    BY <1>1, <2>1 DEF ClaimsPlainly, ClaimRejected, ClaimRefused, ClaimBusy, ClaimGranted,
      WaitEnds, Fail
  <2> QED BY <1>2, <1>4, <2>2 DEF ClaimsPlainly, ClaimRejected, ClaimRefused, ClaimBusy,
        ClaimGranted, WaitEnds, hsVars
<1> QED BY <1>3, <1>4

LEMMA PlacesStay ==
  ASSUME TypeOK, PlainPlaces, NEW t \in Threads, NEW l,
         \/ Goto(App(t), l) /\ l \notin {"finish", "rejoin"}
         \/ Goto(Hs(t), l) /\ l \notin {"mark", "yield", "complete"}
  PROVE  PlainPlaces'
<1>1. CASE Goto(App(t), l) /\ l \notin {"finish", "rejoin"}
  <2>1. /\ pc'[App(t)] = l
        /\ \A u \in Threads : pc'[Hs(u)] = pc[Hs(u)]
        /\ \A u \in Threads : u # t => pc'[App(u)] = pc[App(u)]
    BY <1>1, GotoApp
  <2> QED BY <1>1, <2>1 DEF PlainPlaces
<1>2. CASE Goto(Hs(t), l) /\ l \notin {"mark", "yield", "complete"}
  <2>1. /\ pc'[Hs(t)] = l
        /\ \A u \in Threads : u # t => pc'[Hs(u)] = pc[Hs(u)]
        /\ \A u \in Threads : pc'[App(u)] = pc[App(u)]
    BY <1>2, GotoHs
  <2> QED BY <1>2, <2>1 DEF PlainPlaces
<1> QED BY <1>1, <1>2

LEMMA PlainStays ==
  ASSUME BlocksAlways, TypeOK, Plain, NEW t \in Threads, PlainStep(t) \/ AssertionFails(t)
  PROVE  Plain'
<1>0. /\ App(t) \in Actors /\ Hs(t) \in Actors /\ App(t) # Hs(t)
      /\ timeout \in [Actors -> Timeouts]
      /\ call \in [Threads -> [op : Ops, timeout : Timeouts]]
      /\ task \in [Threads -> [async : BOOLEAN, implicit : BOOLEAN]]
      /\ \A a \in Actors : timeout[a] = -1
      /\ PlainPlaces
  BY ActorFacts DEF TypeOK, ActorsTyped, Plain
<1>1. CASE Begin(t)
  <2>1. PICK c \in Calls[t] : /\ call' = [call EXCEPT ![t] = c]
                              /\ timeout' = [timeout EXCEPT ![App(t)] = c.timeout]
    BY <1>1 DEF Begin
  <2>2. c.timeout = -1 /\ c.op \notin StartOps
    BY <2>1 DEF BlocksAlways
  <2>3. PlainPlaces'
    BY <1>0, <1>1, PlacesStay DEF Begin
  <2>4. \A a \in Actors : timeout'[a] = -1
    BY <1>0, <2>1, <2>2
  <2>5. \A u \in Threads : call'[u].timeout = -1 /\ call'[u].op \notin StartOps /\ ~task'[u].async
    BY <1>0, <1>1, <2>1, <2>2 DEF Begin, Plain
  <2> QED BY <1>1, <2>3, <2>4, <2>5 DEF Plain, Begin, hsVars
<1>2. CASE Cancel(t) \/ AssertionFails(t)
  BY <1>2 DEF Cancel, AssertionFails, Plain, PlainPlaces, ctlVars, hsVars
<1>3. ASSUME NEW a \in {App(t), Hs(t)}, ClaimsPlainly(a)
      PROVE  Plain'
  <2>1. PlainPlaces'
    BY <1>0, <1>3, PlainClaimMoves, PlacesStay
  <2>2. \A b \in Actors : timeout'[b] = -1
    <3>1. a \in Actors /\ InMilliseconds(timeout[a]) = -1
      BY <1>0, <1>3 DEF InMilliseconds
    <3>2. timeout' = timeout \/ timeout' = [timeout EXCEPT ![a] = -1]
      BY <1>3, <3>1, PlainClaimMoves
    <3> QED BY <1>0, <3>1, <3>2
  <2> QED BY <1>3, <2>1, <2>2, PlainClaimMoves DEF Plain
<1>4. CASE ImplicitHandshakeSync(t)
  <2>1. /\ pc' = [pc EXCEPT ![App(t)] = "crank", ![Hs(t)] = "queued"]
        /\ task' = [task EXCEPT ![t] = [async |-> FALSE, implicit |-> TRUE]]
        /\ timeout' = [timeout EXCEPT ![Hs(t)] = timeout[App(t)]]
        /\ UNCHANGED <<call, need_finish_handshake>>
    BY <1>4 DEF ImplicitHandshakeSync, StartTask
  <2>2. PlainPlaces'
    <3>1. pc' = [pc EXCEPT ![App(t)] = "crank", ![Hs(t)] = "queued"]
      BY <2>1
    <3>2. /\ pc'[App(t)] = "crank" /\ pc'[Hs(t)] = "queued"
          /\ \A u \in Threads : u # t => pc'[App(u)] = pc[App(u)] /\ pc'[Hs(u)] = pc[Hs(u)]
      BY <3>1, TwoGotos
    <3> QED BY <1>0, <3>2 DEF PlainPlaces
  <2>3. \A b \in Actors : timeout'[b] = -1
    BY <1>0, <2>1
  <2>4. \A u \in Threads : ~task'[u].async
    BY <1>0, <2>1 DEF Plain
  <2> QED BY <2>1, <2>2, <2>3, <2>4 DEF Plain
<1>5. CASE SyncFinish(t)
  <2>1. /\ pc' = [pc EXCEPT ![App(t)] = "hsyield", ![Hs(t)] = "idle"]
        /\ UNCHANGED <<timeout, call, task, need_finish_handshake>>
    BY <1>5 DEF SyncFinish
  <2>2. PlainPlaces'
    <3>1. pc' = [pc EXCEPT ![App(t)] = "hsyield", ![Hs(t)] = "idle"]
      BY <2>1
    <3>2. /\ pc'[App(t)] = "hsyield" /\ pc'[Hs(t)] = "idle"
          /\ \A u \in Threads : u # t => pc'[App(u)] = pc[App(u)] /\ pc'[Hs(u)] = pc[Hs(u)]
      BY <3>1, TwoGotos
    <3> QED BY <1>0, <3>2 DEF PlainPlaces
  <2> QED BY <2>1, <2>2 DEF Plain
<1>6. CASE SyncYield(t)
  <2>1. /\ \E l \in {"relock", "idle"} : Goto(App(t), l)
        /\ task' = [task EXCEPT ![t] = NoTask]
        /\ UNCHANGED <<timeout, call, need_finish_handshake>>
    BY <1>6 DEF SyncYield, YieldHandshake, YieldOp
  <2>2. PlainPlaces'
    BY <1>0, <2>1, PlacesStay
  <2>3. \A u \in Threads : ~task'[u].async
    BY <1>0, <2>1 DEF Plain, NoTask
  <2> QED BY <2>1, <2>2, <2>3 DEF Plain
<1>7. CASE DataDone(t)
  <2>1. /\ \E l \in {"idle", "claim"} : Goto(App(t), l)
        /\ timeout' = timeout \/ timeout' = [timeout EXCEPT ![App(t)] = call[t].timeout]
        /\ UNCHANGED <<call, task, need_finish_handshake>>
    BY <1>7 DEF DataDone, YieldOp
  <2>2. PlainPlaces'
    BY <1>0, <2>1, PlacesStay
  <2>3. call[t].timeout = -1
    BY DEF Plain
  <2>4. \A b \in Actors : timeout'[b] = -1
    BY <1>0, <2>1, <2>3
  <2> QED BY <2>1, <2>2, <2>4 DEF Plain
<1>8. CASE CloseFlags(t) \/ CloseDone(t)
  <2>1. /\ \E l \in {"idle", "closed"} : Goto(App(t), l)
        /\ UNCHANGED <<timeout, call, task, need_finish_handshake>>
    BY <1>8 DEF CloseFlags, CloseDone, YieldOp, hsVars
  <2>2. PlainPlaces'
    BY <1>0, <2>1, PlacesStay
  <2> QED BY <2>1, <2>2 DEF Plain
<1>9. CASE ThreadStarts(t) \/ HandshakeBegins(t) \/ HandshakeEnds(t)
  <2>1. AfterThread(t) = "done" /\ Hs(t)[1] = t /\ Hs(t)[2] = "hs"
    BY ActorFacts DEF AfterThread, Plain
  <2>2. /\ \E l \in {"claim", "io", "done"} : Goto(Hs(t), l)
        /\ UNCHANGED <<timeout, call, task, need_finish_handshake>>
    BY <1>9, <2>1 DEF ThreadStarts, HandshakeBegins, HandshakeEnds, Fail
  <2>3. PlainPlaces'
    BY <1>0, <2>2, PlacesStay
  <2> QED BY <2>2, <2>3 DEF Plain
<1> QED BY <1>1, <1>2, <1>3, <1>4, <1>5, <1>6, <1>7, <1>8, <1>9 DEF PlainStep

\* Thread t is in an implicit handshake, from its start to its yield_op().
Engaged(t) ==
  \/ pc[Hs(t)] # "idle"
  \/ pc[App(t)] \in {"crank", "hsyield"}
  \/ implicit_handshake = t
  \/ handshake_context = t

\* ... and handshaking is set for as long, which keeps everybody else out.
OneEngaged ==
  /\ \A t \in Threads : Engaged(t) => handshaking
  /\ \A t, u \in Threads : Engaged(t) /\ Engaged(u) => t = u
  /\ \A t \in Threads : pc[App(t)] = "hsyield" => handshake_context = NoThread

\* A step that starts, finishes and yields no handshake.
Calm(t) ==
  /\ UNCHANGED ctxVars
  /\ handshaking => handshaking'
  /\ \/ pc' = pc
     \/ \E l : Goto(Hs(t), l) /\ pc[Hs(t)] # "idle"
     \/ \E l : Goto(App(t), l) /\ l \notin {"crank", "hsyield"}

LEMMA CalmSteps ==
  ASSUME TypeOK, Plain, NEW t \in Threads, PlainStep(t) \/ AssertionFails(t)
  PROVE  Calm(t) \/ ImplicitHandshakeSync(t) \/ SyncFinish(t) \/ SyncYield(t)
<1>1. CASE Begin(t) \/ Cancel(t) \/ AssertionFails(t)
  BY <1>1 DEF Begin, Cancel, AssertionFails, Calm, hsVars, ctlVars, ctxVars
<1>2. ASSUME NEW a \in {App(t), Hs(t)}, ClaimsPlainly(a)
      PROVE  Calm(t)
  <2>1. UNCHANGED ctxVars /\ (handshaking => handshaking')
    <3>1. CASE ClaimGranted(a)
      BY <3>1 DEF ClaimGranted
    <3>2. CASE ~ClaimGranted(a)
      BY <1>2, <3>2 DEF ClaimsPlainly, ClaimRejected, ClaimRefused, ClaimBusy, WaitEnds, hsVars
    <3> QED BY <3>1, <3>2
  <2>2. /\ pc[a] # "idle"
        /\ \/ \E l : Goto(Hs(t), l) /\ a = Hs(t)
           \/ \E l : Goto(App(t), l) /\ l \notin {"crank", "hsyield"}
    BY <1>2, PlainClaimMoves
  <2> QED BY <2>1, <2>2 DEF Calm
<1>3. CASE DataDone(t) \/ CloseFlags(t) \/ CloseDone(t)
  <2>1. call[t].op # "HANDSHAKE"
    BY DEF Plain, StartOps
  <2>2. handshaking => handshaking'
    BY <1>3, <2>1 DEF DataDone, CloseFlags, CloseDone, YieldOp, hsVars
  <2>3. UNCHANGED ctxVars /\ \E l \in {"idle", "claim", "closed"} : Goto(App(t), l)
    BY <1>3 DEF DataDone, CloseFlags, CloseDone
  <2> QED BY <2>2, <2>3 DEF Calm
<1>4. CASE ThreadStarts(t) \/ HandshakeBegins(t) \/ HandshakeEnds(t)
  <2>1. \E l : Goto(Hs(t), l)
    BY <1>4 DEF ThreadStarts, HandshakeBegins, HandshakeEnds, Fail
  <2>2. pc[Hs(t)] # "idle"
    BY <1>4 DEF ThreadStarts, HandshakeBegins, HandshakeEnds
  <2>3. UNCHANGED ctxVars /\ handshaking' = handshaking
    BY <1>4 DEF ThreadStarts, HandshakeBegins, HandshakeEnds
  <2> QED BY <2>1, <2>2, <2>3 DEF Calm
<1> QED BY <1>1, <1>2, <1>3, <1>4 DEF PlainStep

LEMMA CalmEngages ==
  ASSUME TypeOK, NEW t \in Threads, Calm(t), NEW u \in Threads
  PROVE  /\ Engaged(u)' => Engaged(u)
         /\ pc'[App(u)] = "hsyield" => pc[App(u)] = "hsyield"
<1>1. UNCHANGED <<implicit_handshake, handshake_context>>
  BY DEF Calm, ctxVars
<1>2. CASE pc' = pc
  BY <1>1, <1>2 DEF Engaged
<1>3. CASE \E l : Goto(Hs(t), l) /\ pc[Hs(t)] # "idle"
  <2>1. /\ pc[Hs(t)] # "idle"
        /\ u # t => pc'[Hs(u)] = pc[Hs(u)]
        /\ pc'[App(u)] = pc[App(u)]
    BY <1>3, GotoHs
  <2> QED BY <1>1, <2>1 DEF Engaged
<1>4. CASE \E l : Goto(App(t), l) /\ l \notin {"crank", "hsyield"}
  <2>1. /\ pc'[App(u)] \notin {"crank", "hsyield"} \/ pc'[App(u)] = pc[App(u)]
        /\ pc'[Hs(u)] = pc[Hs(u)]
    BY <1>4, GotoApp
  <2> QED BY <1>1, <2>1 DEF Engaged
<1> QED BY <1>2, <1>3, <1>4 DEF Calm

LEMMA OneEngagedStep ==
  ASSUME TypeOK, ContextInv, Plain, OneEngaged, NEW t \in Threads,
         PlainStep(t) \/ AssertionFails(t)
  PROVE  OneEngaged'
<1>1. CASE Calm(t)
  <2>1. /\ \A u \in Threads : Engaged(u)' => Engaged(u)
        /\ \A u \in Threads : pc'[App(u)] = "hsyield" => pc[App(u)] = "hsyield"
    BY <1>1, CalmEngages
  <2>2. (handshaking => handshaking') /\ handshake_context' = handshake_context
    BY <1>1 DEF Calm, ctxVars
  <2> QED BY <2>1, <2>2 DEF OneEngaged
<1>2. CASE ImplicitHandshakeSync(t)
  <2>1. pc' = [pc EXCEPT ![App(t)] = "crank", ![Hs(t)] = "queued"]
    BY <1>2 DEF ImplicitHandshakeSync
  <2>2. /\ pc'[App(t)] = "crank" /\ pc'[Hs(t)] = "queued"
        /\ \A u \in Threads : u # t => pc'[App(u)] = pc[App(u)] /\ pc'[Hs(u)] = pc[Hs(u)]
    BY <2>1, TwoGotos
  <2>3. /\ ~handshaking /\ handshaking'
        /\ implicit_handshake' = t /\ handshake_context' = t
    BY <1>2 DEF ImplicitHandshakeSync, WantsHandshake, StartTask
  <2>4. \A u \in Threads : ~Engaged(u)
    BY <2>3 DEF OneEngaged
  <2>5. \A u \in Threads : u # t => ~Engaged(u)'
    BY <2>2, <2>3, <2>4 DEF Engaged
  <2>6. \A u \in Threads : pc'[App(u)] # "hsyield"
    BY <2>2, <2>4 DEF Engaged
  <2> QED BY <2>3, <2>5, <2>6 DEF OneEngaged
<1>3. CASE SyncFinish(t)
  <2>1. pc' = [pc EXCEPT ![App(t)] = "hsyield", ![Hs(t)] = "idle"]
    BY <1>3 DEF SyncFinish
  <2>2. /\ pc'[App(t)] = "hsyield" /\ pc'[Hs(t)] = "idle"
        /\ \A u \in Threads : u # t => pc'[App(u)] = pc[App(u)] /\ pc'[Hs(u)] = pc[Hs(u)]
    BY <2>1, TwoGotos
  <2>3. /\ handshaking' = handshaking /\ handshake_context' = NoThread
        /\ implicit_handshake' \in {NoThread, implicit_handshake}
        /\ pc[App(t)] = "crank"
    BY <1>3 DEF SyncFinish
  <2>4. \A u \in Threads : Engaged(u)' => Engaged(u)
    BY <2>2, <2>3, ThreadsAssumption DEF Engaged
  <2> QED BY <2>3, <2>4 DEF OneEngaged
<1>4. CASE SyncYield(t)
  <2>1. PICK l \in {"relock", "idle"} : Goto(App(t), l)
    BY <1>4 DEF SyncYield
  <2>2. /\ pc'[App(t)] = l
        /\ \A u \in Threads : u # t => pc'[App(u)] = pc[App(u)]
        /\ \A u \in Threads : pc'[Hs(u)] = pc[Hs(u)]
    BY <2>1, GotoApp
  <2>3. /\ UNCHANGED <<implicit_handshake, handshake_context>>
        /\ pc[App(t)] = "hsyield"
    BY <1>4 DEF SyncYield, ctxVars
  <2>4. implicit_handshake # t /\ pc[Hs(t)] = "idle" /\ handshake_context = NoThread
    BY <2>3 DEF ContextInv, TaskKinds, OneEngaged
  <2>5. ~Engaged(t)'
    BY <2>1, <2>2, <2>3, <2>4, ThreadsAssumption DEF Engaged
  <2>6. \A u \in Threads : u # t => ~Engaged(u)
    BY <2>3 DEF OneEngaged, Engaged
  <2>7. \A u \in Threads : ~Engaged(u)'
    BY <2>2, <2>3, <2>5, <2>6 DEF Engaged
  <2>8. \A u \in Threads : pc'[App(u)] # "hsyield"
    BY <2>7 DEF Engaged
  <2> QED BY <2>7, <2>8 DEF OneEngaged
<1> QED BY <1>1, <1>2, <1>3, <1>4, CalmSteps

\* What the place of a worker, and that of its caller, say of the session: it is
\* still to be established, or it is, or the failure is or will be remembered.
WorkerTells(t) ==
  /\ Running(t) => need_handshake
  /\ pc[Hs(t)] = "done" => need_handshake \/ ever_handshaked \/ result[Hs(t)] = "failed"
  /\ pc[Hs(t)] = "done" /\ result[Hs(t)] = "ok" => ever_handshaked

CallerTells(t) ==
  /\ pc[App(t)] = "hsyield" => need_handshake \/ ever_handshaked \/ handshake_error
  /\ pc[App(t)] = "hsyield" /\ result[App(t)] = "ok" => ever_handshaked
  /\ pc[App(t)] = "relock" => ever_handshaked
  /\ pc[App(t)] = "io" /\ call[t].op \in DataOps => ever_handshaked

Established ==
  /\ need_handshake \/ handshaking \/ ever_handshaked \/ handshake_error
  /\ \A t \in Threads : WorkerTells(t) /\ CallerTells(t)

\* Nothing of what they say is taken back.
Grows ==
  /\ need_handshake => need_handshake'
  /\ ever_handshaked => ever_handshaked'
  /\ handshake_error => handshake_error'

LEMMA CallerMoves ==
  ASSUME TypeOK, Established, NEW t \in Threads, NEW l, Goto(App(t), l), Grows,
         \A u \in Threads : result'[Hs(u)] = result[Hs(u)],
         \A u \in Threads : u # t => result'[App(u)] = result[App(u)] /\ call'[u] = call[u],
         CallerTells(t)'
  PROVE  \A u \in Threads : WorkerTells(u)' /\ CallerTells(u)'
<1>1. /\ pc'[App(t)] = l
      /\ \A u \in Threads : u # t => pc'[App(u)] = pc[App(u)]
      /\ \A u \in Threads : pc'[Hs(u)] = pc[Hs(u)]
  BY GotoApp
<1>2. ASSUME NEW u \in Threads
      PROVE  WorkerTells(u)'
  BY <1>1 DEF Established, WorkerTells, Running, Grows
<1>3. ASSUME NEW u \in Threads, u # t
      PROVE  CallerTells(u)'
  BY <1>1, <1>3 DEF Established, CallerTells, Grows
<1> QED BY <1>2, <1>3

LEMMA WorkerMoves ==
  ASSUME TypeOK, Established, NEW t \in Threads, NEW l, Goto(Hs(t), l), Grows, call' = call,
         \A u \in Threads : result'[App(u)] = result[App(u)],
         \A u \in Threads : u # t => result'[Hs(u)] = result[Hs(u)],
         WorkerTells(t)'
  PROVE  \A u \in Threads : WorkerTells(u)' /\ CallerTells(u)'
<1>1. /\ pc'[Hs(t)] = l
      /\ \A u \in Threads : u # t => pc'[Hs(u)] = pc[Hs(u)]
      /\ \A u \in Threads : pc'[App(u)] = pc[App(u)]
  BY GotoHs
<1>2. ASSUME NEW u \in Threads, u # t
      PROVE  WorkerTells(u)'
  BY <1>1, <1>2 DEF Established, WorkerTells, Running, Grows
<1>3. ASSUME NEW u \in Threads
      PROVE  CallerTells(u)'
  BY <1>1 DEF Established, CallerTells, Grows
<1> QED BY <1>2, <1>3

\* Whoever fails leaves the results of the others.
LEMMA FailResults ==
  ASSUME TypeOK, NEW t \in Threads, NEW a \in {App(t), Hs(t)}, NEW r,
         result' = result \/ result' = [result EXCEPT ![a] = r]
  PROVE  /\ \A u \in Threads : App(u) # a => result'[App(u)] = result[App(u)]
         /\ \A u \in Threads : Hs(u) # a => result'[Hs(u)] = result[Hs(u)]
         /\ result'[a] \in {result[a], r}
<1>1. result \in [Actors -> Results] /\ a \in Actors
  BY ActorFacts DEF TypeOK, ActorsTyped
<1>2. \A u \in Threads : App(u) \in Actors /\ Hs(u) \in Actors
  BY ActorFacts
<1> QED BY <1>1, <1>2

\* claim_op() by a thread: data passes only where the session is established.
LEMMA DataGranted ==
  ASSUME TypeOK, Plain, Established, NEW t \in Threads, ClaimGranted(App(t)),
         call[t].op \in DataOps
  PROVE  ever_handshaked
<1> DEFINE a == App(t)
<1>1. OpOf(a) = call[t].op /\ call[t].op # "HANDSHAKE" /\ ~IsClose(call[t].op)
  BY ActorFacts DEF DataOps, IsClose, CloseOps
<1>2. pc[a] # "rejoin"
  BY DEF Plain, PlainPlaces
<1>3. PastHandshake(a)
  BY <1>2 DEF ClaimGranted, PastFinish
<1>4. ~handshaking
  BY <1>1 DEF ClaimGranted, Busy
<1>5. CASE pc[a] = "relock"
  BY <1>5 DEF Established, CallerTells
<1>6. CASE ~Rejected(a) /\ ~WantsHandshake(OpOf(a))
  <2>1. ~handshake_error /\ ~need_handshake
    BY <1>1, <1>4, <1>6 DEF Rejected, WantsHandshake
  <2> QED BY <1>4, <2>1 DEF Established
<1> QED BY <1>3, <1>5, <1>6 DEF PastHandshake

LEMMA ClaimTells ==
  ASSUME TypeOK, Plain, Established, NEW t \in Threads, NEW a \in {App(t), Hs(t)},
         ClaimsPlainly(a)
  PROVE  \A u \in Threads : WorkerTells(u)' /\ CallerTells(u)'
<1>1. UNCHANGED <<need_handshake, ever_handshaked, handshake_error, call>>
  BY DEF ClaimsPlainly, ClaimRejected, ClaimRefused, ClaimBusy, ClaimGranted, WaitEnds, hsVars
<1>2. Grows
  BY <1>1 DEF Grows
<1>3. PICK r \in {"error", "refused", "wouldblock"} :
        result' = result \/ result' = [result EXCEPT ![a] = r]
  BY DEF ClaimsPlainly, ClaimRejected, ClaimRefused, ClaimBusy, ClaimGranted, WaitEnds, Fail
<1>4. /\ \A u \in Threads : App(u) # a => result'[App(u)] = result[App(u)]
      /\ \A u \in Threads : Hs(u) # a => result'[Hs(u)] = result[Hs(u)]
      /\ result'[a] \in {result[a], r}
  BY <1>3, FailResults
<1>5. CASE a = App(t)
  <2>1. PICK l \in {"idle", "wait", "io", "claim"} : Goto(App(t), l)
    BY <1>5, PlainClaimMoves, ActorFacts
  <2>2. pc'[App(t)] = l
    BY <2>1, GotoApp
  <2>3. pc'[App(t)] = "io" => ClaimGranted(App(t))
    <3>1. "io" \notin {"idle", "wait", "claim"} /\ a[2] = "app"
      BY <1>5, ActorFacts
    <3>2. ClaimGranted(a) \/ \E k \in {"idle", "wait", "claim"} : Goto(a, k)
      BY <3>1 DEF ClaimsPlainly, ClaimRejected, ClaimRefused, ClaimBusy, WaitEnds, Fail
    <3>3. (\E k \in {"idle", "wait", "claim"} : Goto(a, k)) => pc'[App(t)] # "io"
      BY <1>5, GotoApp
    <3> QED BY <1>5, <3>2, <3>3
  <2>4. CallerTells(t)'
    BY <1>1, <2>1, <2>2, <2>3, DataGranted DEF CallerTells
  <2>5. \A u \in Threads : Hs(u) # a /\ (u # t => App(u) # a)
    BY <1>5, ActorFacts
  <2> QED BY <1>1, <1>2, <1>4, <2>1, <2>4, <2>5, CallerMoves
<1>6. CASE a = Hs(t)
  <2>1. PICK l \in {"done", "wait", "start", "claim"} : Goto(Hs(t), l)
    BY <1>6, PlainClaimMoves, ActorFacts
  <2>2. pc'[Hs(t)] = l
    BY <2>1, GotoHs
  <2>3. pc[Hs(t)] \in {"claim", "wait"}
    <3>1. pc[Hs(t)] \in HsPCs
      BY DEF TypeOK, ActorsTyped
    <3> QED BY <1>6, <3>1, PlainClaimMoves DEF HsPCs
  <2>4. need_handshake
    BY <2>3 DEF Established, WorkerTells, Running
  <2>5. pc'[Hs(t)] = "done" => result'[Hs(t)] # "ok"
    <3>1. a[2] = "hs" /\ a[1] = t /\ a \in Actors /\ result \in [Actors -> Results]
      BY <1>6, ActorFacts DEF TypeOK, ActorsTyped
    <3>2. \/ \E k \in {"start", "wait", "claim"} : Goto(a, k)
          \/ \E e \in {"error", "refused", "wouldblock"} : result' = [result EXCEPT ![a] = e]
      BY <3>1 DEF ClaimsPlainly, ClaimRejected, ClaimRefused, ClaimBusy, ClaimGranted, WaitEnds,
        Fail
    <3>3. (\E k \in {"start", "wait", "claim"} : Goto(a, k)) => pc'[Hs(t)] # "done"
      BY <1>6, GotoHs
    <3> QED BY <1>6, <3>1, <3>2, <3>3
  <2>6. WorkerTells(t)'
    BY <1>1, <2>4, <2>5 DEF WorkerTells
  <2>7. \A u \in Threads : App(u) # a /\ (u # t => Hs(u) # a)
    BY <1>6, ActorFacts
  <2> QED BY <1>1, <1>2, <1>4, <2>1, <2>6, <2>7, WorkerMoves
<1> QED BY <1>5, <1>6

LEMMA FinishTells ==
  ASSUME TypeOK, ContextInv, OneEngaged, Established, NEW t \in Threads, SyncFinish(t)
  PROVE  Established'
<1>1. /\ pc' = [pc EXCEPT ![App(t)] = "hsyield", ![Hs(t)] = "idle"]
      /\ result' = [result EXCEPT ![App(t)] = IF TaskSucceeded(t) THEN "ok" ELSE "error",
                                  ![Hs(t)] = "none"]
      /\ UNCHANGED <<need_handshake, handshaking, ever_handshaked, call>>
      /\ FinishHandshake(t) /\ pc[Hs(t)] = "done"
  BY DEF SyncFinish
<1>2. pc' = [pc EXCEPT ![App(t)] = "hsyield", ![Hs(t)] = "idle"]
  BY <1>1
<1>3. /\ pc'[App(t)] = "hsyield" /\ pc'[Hs(t)] = "idle"
      /\ \A u \in Threads : u # t => pc'[App(u)] = pc[App(u)] /\ pc'[Hs(u)] = pc[Hs(u)]
  BY <1>2, TwoGotos
<1>4. \A u \in Threads : u # t =>
        result'[App(u)] = result[App(u)] /\ result'[Hs(u)] = result[Hs(u)]
  <2>1. result \in [Actors -> Results]
    BY DEF TypeOK, ActorsTyped
  <2> QED BY <1>1, <2>1, ActorFacts
<1>5. result'[App(t)] = IF TaskSucceeded(t) THEN "ok" ELSE "error"
  <2>1. result \in [Actors -> Results] /\ App(t) # Hs(t) /\ App(t) \in Actors
    BY ActorFacts DEF TypeOK, ActorsTyped
  <2> QED BY <1>1, <2>1
<1>6. handshake_error => handshake_error'
  BY <1>1 DEF FinishHandshake
<1>7. TaskSucceeded(t) => ever_handshaked
  BY <1>1 DEF TaskSucceeded, Established, WorkerTells
<1>8. need_handshake \/ ever_handshaked \/ handshake_error'
  <2>1. CASE result[Hs(t)] = "failed"
    <3>1. started_handshake /\ ~TaskSucceeded(t)
      BY <1>1, <2>1 DEF ContextInv, FreshStart, Owns, TaskSucceeded
    <3> QED BY <1>1, <3>1 DEF FinishHandshake
  <2>2. CASE result[Hs(t)] # "failed"
    BY <1>1, <2>2 DEF Established, WorkerTells
  <2> QED BY <2>1, <2>2
<1>9. WorkerTells(t)' /\ CallerTells(t)'
  BY <1>1, <1>3, <1>5, <1>7, <1>8 DEF WorkerTells, CallerTells, Running
<1>10. ASSUME NEW u \in Threads, u # t
       PROVE  WorkerTells(u)' /\ CallerTells(u)'
  BY <1>1, <1>3, <1>4, <1>6, <1>10 DEF Established, WorkerTells, CallerTells, Running
<1>11. handshaking
  BY <1>1 DEF OneEngaged, Engaged
<1> QED BY <1>1, <1>9, <1>10, <1>11 DEF Established

LEMMA YieldTells ==
  ASSUME TypeOK, Established, NEW t \in Threads, SyncYield(t)
  PROVE  Established'
<1>1. /\ UNCHANGED <<ever_handshaked, handshake_error, call>>
      /\ need_handshake => need_handshake'
      /\ pc[App(t)] = "hsyield"
  BY DEF SyncYield, YieldHandshake, YieldOp
<1>2. PICK l \in {"relock", "idle"} :
        Goto(App(t), l) /\ (l = "relock" => result[App(t)] = "ok")
  BY DEF SyncYield
<1>3. pc'[App(t)] = l
  BY <1>2, GotoApp
<1>4. CallerTells(t)'
  BY <1>1, <1>2, <1>3 DEF Established, CallerTells
<1>5. /\ \A u \in Threads : u # t => result'[App(u)] = result[App(u)]
      /\ \A u \in Threads : result'[Hs(u)] = result[Hs(u)]
  <2>1. result' = result \/ result' = [result EXCEPT ![App(t)] = "none"]
    BY DEF SyncYield
  <2>2. /\ \A u \in Threads : App(u) # App(t) => result'[App(u)] = result[App(u)]
        /\ \A u \in Threads : Hs(u) # App(t) => result'[Hs(u)] = result[Hs(u)]
    BY <2>1, FailResults
  <2> QED BY <2>2, ActorFacts
<1>6. Grows
  BY <1>1 DEF Grows
<1>7. \A u \in Threads : WorkerTells(u)' /\ CallerTells(u)'
  BY <1>1, <1>2, <1>4, <1>5, <1>6, CallerMoves
<1>8. need_handshake \/ ever_handshaked \/ handshake_error
  BY <1>1 DEF Established, CallerTells
<1> QED BY <1>1, <1>7, <1>8 DEF Established

LEMMA StartTells ==
  ASSUME TypeOK, Established, NEW t \in Threads, ImplicitHandshakeSync(t)
  PROVE  Established'
<1>1. /\ result' = [result EXCEPT ![Hs(t)] = "none"]
      /\ UNCHANGED <<need_handshake, ever_handshaked, handshake_error, call>>
      /\ handshaking' /\ need_handshake
  BY DEF ImplicitHandshakeSync, WantsHandshake
<1>2. pc' = [pc EXCEPT ![App(t)] = "crank", ![Hs(t)] = "queued"]
  BY DEF ImplicitHandshakeSync
<1>3. /\ pc'[App(t)] = "crank" /\ pc'[Hs(t)] = "queued"
      /\ \A u \in Threads : u # t => pc'[App(u)] = pc[App(u)] /\ pc'[Hs(u)] = pc[Hs(u)]
  BY <1>2, TwoGotos
<1>4. /\ \A u \in Threads : result'[App(u)] = result[App(u)]
      /\ \A u \in Threads : u # t => result'[Hs(u)] = result[Hs(u)]
  <2>1. /\ \A u \in Threads : App(u) # Hs(t) => result'[App(u)] = result[App(u)]
        /\ \A u \in Threads : Hs(u) # Hs(t) => result'[Hs(u)] = result[Hs(u)]
    BY <1>1, FailResults
  <2> QED BY <2>1, ActorFacts
<1>5. WorkerTells(t)' /\ CallerTells(t)'
  BY <1>1, <1>3 DEF WorkerTells, CallerTells
<1>6. ASSUME NEW u \in Threads, u # t
      PROVE  WorkerTells(u)' /\ CallerTells(u)'
  BY <1>1, <1>3, <1>4, <1>6 DEF Established, WorkerTells, CallerTells, Running
<1> QED BY <1>1, <1>5, <1>6 DEF Established

\* The steps of a worker, while nobody else is engaged.
LEMMA ThreadTells ==
  ASSUME TypeOK, ContextInv, Plain, OneEngaged, Established, NEW t \in Threads,
         ThreadStarts(t) \/ HandshakeBegins(t) \/ HandshakeEnds(t)
  PROVE  Established'
<1>1. Engaged(t) /\ handshaking /\ handshaking' = handshaking /\ call' = call
  BY DEF ThreadStarts, HandshakeBegins, HandshakeEnds, Engaged, OneEngaged
<1>2. AfterThread(t) = "done" /\ Hs(t)[1] = t /\ Hs(t)[2] = "hs"
  BY ActorFacts DEF AfterThread, Plain
<1>3. PICK l \in {"claim", "io", "done"} : Goto(Hs(t), l)
  BY <1>2 DEF ThreadStarts, HandshakeBegins, HandshakeEnds, Fail
<1>4. /\ pc'[Hs(t)] = l
      /\ \A u \in Threads : u # t => pc'[Hs(u)] = pc[Hs(u)]
      /\ \A u \in Threads : pc'[App(u)] = pc[App(u)]
  BY <1>3, GotoHs
<1>5. PICK r \in Results : result' = result \/ result' = [result EXCEPT ![Hs(t)] = r]
  BY DEF ThreadStarts, HandshakeBegins, HandshakeEnds, Fail, Results
<1>6. /\ \A u \in Threads : result'[App(u)] = result[App(u)]
      /\ \A u \in Threads : u # t => result'[Hs(u)] = result[Hs(u)]
  <2>1. /\ \A u \in Threads : App(u) # Hs(t) => result'[App(u)] = result[App(u)]
        /\ \A u \in Threads : Hs(u) # Hs(t) => result'[Hs(u)] = result[Hs(u)]
    BY <1>5, FailResults
  <2> QED BY <2>1, ActorFacts
<1>7. result \in [Actors -> Results] /\ Hs(t) \in Actors
  BY ActorFacts DEF TypeOK, ActorsTyped
<1>8. CASE ThreadStarts(t) \/ HandshakeBegins(t)
  <2>1. ~handshake_error \/ UNCHANGED handshake_error
    BY <1>8 DEF ThreadStarts, HandshakeBegins, ContextInv, FreshStart
  <2>2. UNCHANGED <<need_handshake, ever_handshaked>>
    BY <1>8 DEF ThreadStarts, HandshakeBegins
  <2>3. Running(t)
    BY <1>8 DEF ThreadStarts, HandshakeBegins, Running
  <2>4. need_handshake
    BY <2>3 DEF Established, WorkerTells
  <2>5. result'[Hs(t)] = "error" \/ pc'[Hs(t)] # "done"
    <3>1. Goto(Hs(t), "claim") \/ Goto(Hs(t), "io") \/ result' = [result EXCEPT ![Hs(t)] = "error"]
      BY <1>8 DEF ThreadStarts, HandshakeBegins, Fail
    <3>2. Goto(Hs(t), "claim") \/ Goto(Hs(t), "io") => pc'[Hs(t)] # "done"
      BY GotoHs
    <3> QED BY <1>7, <3>1, <3>2
  <2>6. WorkerTells(t)'
    BY <2>2, <2>4, <2>5 DEF WorkerTells
  <2>7. Grows
    BY <2>1, <2>2 DEF Grows
  <2> QED BY <1>1, <1>3, <1>6, <2>6, <2>7, WorkerMoves DEF Established
<1>9. CASE HandshakeEnds(t)
  <2>1. PICK ok \in BOOLEAN : /\ ever_handshaked' = (ever_handshaked \/ ok)
                              /\ result' = [result EXCEPT ![Hs(t)] = IF ok THEN "ok" ELSE "failed"]
    BY <1>9 DEF HandshakeEnds
  <2>2. Goto(Hs(t), "done") /\ handshake_error' = handshake_error
    BY <1>2, <1>9 DEF HandshakeEnds
  <2>3. pc'[Hs(t)] = "done" /\ result'[Hs(t)] = IF ok THEN "ok" ELSE "failed"
    BY <1>7, <2>1, <2>2, GotoHs
  <2>4. WorkerTells(t)'
    BY <2>1, <2>3 DEF WorkerTells, Running
  <2>5. pc[Hs(t)] = "io"
    BY <1>9 DEF HandshakeEnds
  <2>6. pc[App(t)] # "hsyield"
    BY <2>5 DEF ContextInv, TaskKinds
  <2>7. CallerTells(t)'
    BY <1>1, <1>4, <1>6, <2>1, <2>6 DEF Established, CallerTells
  <2>8. ASSUME NEW u \in Threads, u # t
        PROVE  WorkerTells(u)' /\ CallerTells(u)'
    <3>1. ~Engaged(u)
      BY <1>1, <2>8 DEF OneEngaged
    <3>2. pc'[Hs(u)] = "idle" /\ pc'[App(u)] = pc[App(u)] /\ pc[App(u)] # "hsyield"
      BY <1>4, <2>8, <3>1 DEF Engaged
    <3> QED BY <1>1, <2>1, <3>2 DEF Established, WorkerTells, CallerTells, Running
  <2> QED BY <1>1, <2>4, <2>7, <2>8 DEF Established
<1> QED BY <1>8, <1>9

LEMMA DataYields ==
  ASSUME NEW op, op # "HANDSHAKE", NEW r \in BOOLEAN, YieldOp(op, r)
  PROVE  /\ UNCHANGED <<ever_handshaked, handshake_error>>
         /\ handshaking => handshaking'
         /\ need_handshake => need_handshake'
BY DEF YieldOp

LEMMA EstablishedStep ==
  ASSUME TypeOK, ContextInv, Plain, OneEngaged, Established, NEW t \in Threads,
         PlainStep(t) \/ AssertionFails(t)
  PROVE  Established'
<1>1. CASE Begin(t)
  <2>1. /\ Goto(App(t), "claim") /\ UNCHANGED hsVars
        /\ result' = [result EXCEPT ![App(t)] = "none"]
        /\ \A u \in Threads : u # t => call'[u] = call[u]
    BY <1>1 DEF Begin, TypeOK, ActorsTyped
  <2>2. /\ \A u \in Threads : u # t => result'[App(u)] = result[App(u)]
        /\ \A u \in Threads : result'[Hs(u)] = result[Hs(u)]
    <3>1. /\ \A u \in Threads : App(u) # App(t) => result'[App(u)] = result[App(u)]
          /\ \A u \in Threads : Hs(u) # App(t) => result'[Hs(u)] = result[Hs(u)]
      BY <2>1, FailResults
    <3> QED BY <3>1, ActorFacts
  <2>3. CallerTells(t)' /\ Grows
    <3>1. pc'[App(t)] = "claim"
      BY <2>1, GotoApp
    <3> QED BY <2>1, <3>1 DEF CallerTells, Grows, hsVars
  <2>4. \A u \in Threads : WorkerTells(u)' /\ CallerTells(u)'
    BY <2>1, <2>2, <2>3, CallerMoves
  <2> QED BY <2>1, <2>4 DEF Established, hsVars
<1>2. CASE Cancel(t) \/ AssertionFails(t)
  <2>1. UNCHANGED <<hsVars, pc, result, call>>
    BY <1>2 DEF Cancel, AssertionFails, ctlVars
  <2> QED BY <2>1 DEF Established, WorkerTells, CallerTells, Running, hsVars
<1>3. ASSUME NEW a \in {App(t), Hs(t)}, ClaimsPlainly(a)
      PROVE  Established'
  <2>1. \A u \in Threads : WorkerTells(u)' /\ CallerTells(u)'
    BY <1>3, ClaimTells
  <2>2. /\ UNCHANGED <<need_handshake, ever_handshaked, handshake_error>>
        /\ handshaking => handshaking'
    <3>1. CASE ClaimGranted(a)
      BY <3>1 DEF ClaimGranted
    <3>2. CASE ~ClaimGranted(a)
      BY <1>3, <3>2 DEF ClaimsPlainly, ClaimRejected, ClaimRefused, ClaimBusy, WaitEnds, hsVars
    <3> QED BY <3>1, <3>2
  <2> QED BY <2>1, <2>2 DEF Established
<1>4. CASE DataDone(t) \/ CloseFlags(t) \/ CloseDone(t)
  <2>1. PICK l \in {"idle", "claim", "closed"} : Goto(App(t), l)
    BY <1>4 DEF DataDone, CloseFlags, CloseDone
  <2>2. call[t].op # "HANDSHAKE"
    BY DEF Plain, StartOps
  <2>3. /\ UNCHANGED <<ever_handshaked, handshake_error, result, call>>
        /\ handshaking => handshaking'
        /\ need_handshake => need_handshake'
    <3>1. CASE CloseFlags(t)
      BY <3>1 DEF CloseFlags, hsVars
    <3>2. CASE DataDone(t) \/ CloseDone(t)
      <4>1. UNCHANGED <<result, call>>
        BY <3>2 DEF DataDone, CloseDone
      <4>2. CASE YieldOp(call[t].op, FALSE)
        BY <2>2, <4>1, <4>2, DataYields
      <4>3. CASE YieldOp(call[t].op, TRUE)
        BY <2>2, <4>1, <4>3, DataYields
      <4>4. YieldOp(call[t].op, FALSE) \/ YieldOp(call[t].op, TRUE)
        BY <3>2 DEF DataDone, CloseDone
      <4> QED BY <4>2, <4>3, <4>4
    <3> QED BY <1>4, <3>1, <3>2
  <2>4. pc'[App(t)] = l
    BY <2>1, GotoApp
  <2>5. CallerTells(t)' /\ Grows
    BY <2>1, <2>3, <2>4 DEF CallerTells, Grows
  <2>6. \A u \in Threads : WorkerTells(u)' /\ CallerTells(u)'
    BY <2>1, <2>3, <2>5, CallerMoves
  <2> QED BY <2>3, <2>6 DEF Established
<1>5. CASE ImplicitHandshakeSync(t)
  BY <1>5, StartTells
<1>6. CASE SyncFinish(t)
  BY <1>6, FinishTells
<1>7. CASE SyncYield(t)
  BY <1>7, YieldTells
<1>8. CASE ThreadStarts(t) \/ HandshakeBegins(t) \/ HandshakeEnds(t)
  BY <1>8, ThreadTells
<1> QED BY <1>1, <1>2, <1>3, <1>4, <1>5, <1>6, <1>7, <1>8 DEF PlainStep

BlockInv == Plain /\ OneEngaged /\ Established

LEMMA BlockInit == Init => BlockInv
<1> SUFFICES ASSUME Init PROVE BlockInv
  OBVIOUS
<1>1. \A t \in Threads : pc[App(t)] = "idle" /\ pc[Hs(t)] = "idle"
  <2>1. \A a \in Actors : pc[a] = "idle"
    BY DEF Init
  <2> QED BY <2>1, ActorFacts, Zenon
<1>2. Plain
  BY <1>1 DEF Init, Plain, PlainPlaces, StartOps, NoTask
<1>3. OneEngaged
  BY <1>1, ThreadsAssumption DEF Init, OneEngaged, Engaged
<1>4. Established
  BY <1>1 DEF Init, Established, WorkerTells, CallerTells, Running
<1> QED BY <1>2, <1>3, <1>4 DEF BlockInv

LEMMA BlockStep ==
  ASSUME BlocksAlways, TypeOK, ContextInv, BlockInv, [Next]_vars
  PROVE  BlockInv'
<1>1. CASE UNCHANGED vars
  <2>1. UNCHANGED <<hsVars, ctxVars, pc, timeout, result, call, task>>
    BY <1>1 DEF vars, ctlVars
  <2>2. Plain'
    BY <2>1 DEF BlockInv, Plain, PlainPlaces, hsVars
  <2>3. OneEngaged'
    BY <2>1 DEF BlockInv, OneEngaged, Engaged, hsVars, ctxVars
  <2>4. Established'
    BY <2>1 DEF BlockInv, Established, WorkerTells, CallerTells, Running, hsVars
  <2> QED BY <2>2, <2>3, <2>4 DEF BlockInv
<1>2. CASE Next
  <2>1. PICK t \in Threads : AppCall(t) \/ AppStep(t) \/ WorkerStep(t)
    BY <1>2 DEF Next
  <2>2. PlainStep(t) \/ AssertionFails(t)
    BY <2>1, PlainSteps DEF BlockInv
  <2> QED BY <2>2, PlainStays, OneEngagedStep, EstablishedStep DEF BlockInv
<1> QED BY <1>1, <1>2

LEMMA BlockInvariant ==
  ASSUME BlocksAlways
  PROVE  Spec => []BlockInv
<1>1. TypeOK /\ ContextInv /\ BlockInv /\ [Next]_vars => BlockInv'
  BY BlockStep
<1> QED BY <1>1, BlockInit, TypeCorrect, ContextInvariant, PTL DEF Spec

\* Application data passes only on a session whose handshake has succeeded, whoever
\* else reads, writes and closes, as long as all calls block.  (A polled handshake
\* and one the application starts leave a moment in which data can pass.)
THEOREM DataIsEstablished ==
  ASSUME BlocksAlways
  PROVE  Spec => []DataNeedsHandshake
<1>1. BlockInv => DataNeedsHandshake
  BY DEF BlockInv, Established, CallerTells, DataNeedsHandshake
<1> QED BY <1>1, BlockInvariant, PTL

-----------------------------------------------------------------------------
(***************************************************************************)
(* Connections that are only read and written, blocking, polled or with a  *)
(* timeout, and never cancelled: nothing can refuse the first handshake    *)
(* its claim, so that it runs to its end, after which none is needed.      *)
(***************************************************************************)
TransfersOnly ==
  /\ \A t \in Threads : \A c \in Calls[t] : c.op \in DataOps
  /\ Cancellable = {} /\ ~Rehandshakes

NothingCloses ==
  /\ \A t \in Threads : call[t].op \in DataOps
  /\ ~read_closing /\ ~read_closed /\ ~write_closing /\ ~write_closed

\* Until the first handshake has ended, ...
FirstPlaces ==
  \A t \in Threads : /\ pc[App(t)] \in {"idle", "claim", "wait", "crank"}
                     /\ pc[Hs(t)] \in {"idle", "queued", "claim", "start", "io"}

FirstHandshake ==
  /\ FirstPlaces
  /\ ~handshake_error /\ ~need_finish_handshake
  /\ reading \/ writing => \E t \in Threads : pc[Hs(t)] \in {"start", "io"}
  /\ \/ handshaking
     \/ /\ handshake_context = NoThread /\ implicit_handshake = NoThread
        /\ \A t \in Threads : pc[Hs(t)] = "idle"

TransferInv == NothingCloses /\ (need_handshake => FirstHandshake)

LEMMA NothingClosesStep ==
  ASSUME TransfersOnly, TypeOK, NothingCloses, NEW t \in Threads,
         AppCall(t) \/ AppStep(t) \/ WorkerStep(t)
  PROVE  NothingCloses' /\ (need_handshake' => need_handshake)
<1>0. /\ call[t].op \in DataOps /\ ~IsClose(call[t].op)
      /\ ~ClosesRead(call[t].op) /\ ~ClosesWrite(call[t].op)
      /\ ~ClosesRead("HANDSHAKE") /\ ~ClosesWrite("HANDSHAKE")
      /\ call \in [Threads -> [op : Ops, timeout : Timeouts]]
  BY DEF NothingCloses, DataOps, IsClose, CloseOps, ClosesRead, ClosesWrite, TypeOK, ActorsTyped
<1>1. CASE Begin(t) \/ Handshake(t)
  <2>1. PICK c \in Calls[t] : call' = [call EXCEPT ![t] = c]
    BY <1>1 DEF Begin, Handshake
  <2>2. \A u \in Threads : call'[u].op \in DataOps
    BY <1>0, <2>1 DEF TransfersOnly, NothingCloses
  <2>3. UNCHANGED <<closeVars, hsVars>>
    BY <1>1 DEF Begin, Handshake
  <2> QED BY <2>2, <2>3 DEF NothingCloses, closeVars, hsVars
<1>2. CASE Cancel(t) \/ AssertionFails(t)
  BY <1>2 DEF Cancel, AssertionFails, ctlVars, NothingCloses, closeVars, hsVars
<1>3. ASSUME NEW a \in {App(t), Hs(t)}, Claim(a)
      PROVE  NothingCloses' /\ (need_handshake' => need_handshake)
  <2>1. ~ClosesRead(OpOf(a)) /\ ~ClosesWrite(OpOf(a))
    BY <1>0, <1>3, ActorFacts
  <2>2. CASE ClaimGranted(a)
    BY <2>1, <2>2 DEF ClaimGranted, NothingCloses
  <2>3. CASE ~ClaimGranted(a)
    BY <1>3, <2>3 DEF Claim, ClaimRejected, DivertToFinish, ClaimRefused, ClaimBusy, WaitEnds,
      WaitExpires, NothingCloses, closeVars, hsVars
  <2> QED BY <2>2, <2>3
<1>4. CASE \/ ImplicitHandshakeSync(t) \/ ImplicitHandshakeAsync(t) \/ FinishImplicit(t)
           \/ RejoinCancelled(t) \/ SyncFinish(t) \/ ThreadStarts(t) \/ HandshakeBegins(t)
           \/ HandshakeEnds(t) \/ AsyncMark(t) \/ AsyncCompleted(t)
  <2>1. UNCHANGED <<closeVars, call>>
    BY <1>4 DEF ImplicitHandshakeSync, ImplicitHandshakeAsync, FinishImplicit, RejoinCancelled,
      SyncFinish, ThreadStarts, HandshakeBegins, HandshakeEnds, AsyncMark, AsyncCompleted
  <2>2. need_handshake' => need_handshake
    <3>1. CASE HandshakeEnds(t)
      BY <3>1 DEF HandshakeEnds
    <3>2. CASE ~HandshakeEnds(t)
      BY <1>4, <3>2 DEF ImplicitHandshakeSync, ImplicitHandshakeAsync, FinishImplicit,
        RejoinCancelled, SyncFinish, ThreadStarts, HandshakeBegins, AsyncMark, AsyncCompleted,
        hsVars
    <3> QED BY <3>1, <3>2
  <2> QED BY <2>1, <2>2 DEF NothingCloses, closeVars
<1>5. ASSUME NEW op, YieldOp(op, FALSE), call' = call
      PROVE  NothingCloses' /\ (need_handshake' => need_handshake)
  BY <1>5 DEF YieldOp, NothingCloses
<1>6. CASE DataDone(t) \/ CloseDone(t) \/ SyncYield(t) \/ AsyncYield(t)
  <2>1. call' = call
    BY <1>6 DEF DataDone, CloseDone, SyncYield, AsyncYield
  <2>2. YieldOp(call[t].op, FALSE) \/ YieldOp("HANDSHAKE", FALSE)
    BY <1>6 DEF DataDone, CloseDone, SyncYield, AsyncYield, YieldHandshake, TransfersOnly
  <2> QED BY <2>1, <2>2, <1>5
<1>7. ~CloseFlags(t)
  BY <1>0 DEF CloseFlags
<1> QED BY <1>1, <1>2, <1>3, <1>4, <1>6, <1>7 DEF AppCall, AppStep, WorkerStep

LEMMA FirstCaller ==
  ASSUME TypeOK, FirstHandshake, NEW t \in Threads,
         NEW l \in {"idle", "claim", "wait"}, Goto(App(t), l),
         UNCHANGED <<reading, writing, handshaking, handshake_error, need_finish_handshake>>,
         UNCHANGED ctxVars
  PROVE  FirstHandshake'
<1>1. /\ pc'[App(t)] = l
      /\ \A u \in Threads : u # t => pc'[App(u)] = pc[App(u)]
      /\ \A u \in Threads : pc'[Hs(u)] = pc[Hs(u)]
  BY GotoApp
<1> QED BY <1>1 DEF FirstHandshake, FirstPlaces, ctxVars

LEMMA FirstWorker ==
  ASSUME TypeOK, FirstHandshake, NEW t \in Threads,
         NEW l \in {"claim", "start", "io"}, Goto(Hs(t), l), pc[Hs(t)] # "idle",
         \/ l = "start"
         \/ UNCHANGED <<reading, writing>> /\ (l = "io" \/ pc[Hs(t)] = "queued"),
         ~handshake_error', ~need_finish_handshake', handshaking => handshaking'
  PROVE  FirstHandshake'
<1>1. /\ pc'[Hs(t)] = l
      /\ \A u \in Threads : u # t => pc'[Hs(u)] = pc[Hs(u)]
      /\ \A u \in Threads : pc'[App(u)] = pc[App(u)]
  BY GotoHs
<1>2. FirstPlaces' /\ handshaking'
  BY <1>1 DEF FirstHandshake, FirstPlaces
<1>3. reading' \/ writing' => \E u \in Threads : pc'[Hs(u)] \in {"start", "io"}
  <2>1. CASE l \in {"start", "io"}
    BY <1>1, <2>1
  <2>2. CASE l = "claim"
    <3>1. UNCHANGED <<reading, writing>> /\ pc[Hs(t)] = "queued"
      BY <2>2
    <3>2. \A u \in Threads : pc[Hs(u)] \in {"start", "io"} => pc'[Hs(u)] \in {"start", "io"}
      BY <1>1, <3>1
    <3> QED BY <3>1, <3>2 DEF FirstHandshake
  <2> QED BY <2>1, <2>2
<1> QED BY <1>2, <1>3 DEF FirstHandshake

\* A thread cannot be granted data, nor a worker be refused, before that.
LEMMA FirstClaims ==
  ASSUME TransfersOnly, TypeOK, ContextInv, NothingCloses, need_handshake, FirstHandshake,
         NEW t \in Threads, NEW a \in {App(t), Hs(t)}, Claim(a)
  PROVE  FirstHandshake'
<1>0. cancelled = {} /\ a[1] = t /\ a \in Actors
  BY ActorFacts DEF TransfersOnly, TypeOK, HistoryTyped
<1>1. pc[App(t)] \in {"idle", "claim", "wait", "crank"}
  BY DEF FirstHandshake, FirstPlaces
<1>2. ~DivertToFinish(a)
  BY DEF DivertToFinish, Diverted, FirstHandshake
<1>3. CASE a = App(t)
  <2>1. OpOf(a) \in DataOps /\ OpOf(a) # "HANDSHAKE"
    BY <1>3, ActorFacts DEF NothingCloses, DataOps
  <2>2. ~ClaimGranted(a)
    <3>1. SUFFICES ASSUME PastFinish(a), ~Busy(OpOf(a)) PROVE FALSE
      BY DEF ClaimGranted
    <3>2. ~handshaking
      BY <2>1, <3>1 DEF Busy
    <3>3. PastHandshake(a) /\ pc[a] # "relock"
      BY <1>1, <1>3, <3>1 DEF PastFinish
    <3>4. ~WantsHandshake(OpOf(a))
      BY <3>3 DEF PastHandshake
    <3> QED BY <2>1, <3>2, <3>4 DEF WantsHandshake
  <2>3. \E l \in {"idle", "claim", "wait"} : Goto(App(t), l)
    <3>1. a[2] = "app"
      BY <1>3, ActorFacts
    <3> QED BY <1>2, <1>3, <2>2, <3>1 DEF Claim, ClaimRejected, ClaimRefused, ClaimBusy, WaitEnds,
          WaitExpires, Fail
  <2>4. /\ UNCHANGED <<reading, writing, handshaking, handshake_error, need_finish_handshake>>
        /\ UNCHANGED ctxVars
    BY <1>2, <2>2 DEF Claim, ClaimRejected, ClaimRefused, ClaimBusy, WaitEnds, WaitExpires,
      hsVars, dirVars
  <2> QED BY <2>3, <2>4, FirstCaller
<1>4. CASE a = Hs(t)
  <2>1. OpOf(a) = "HANDSHAKE" /\ a[2] = "hs" /\ ~IsClose("HANDSHAKE")
    BY <1>4, ActorFacts DEF IsClose, CloseOps
  <2>2. pc[Hs(t)] \in {"idle", "queued", "claim", "start", "io"}
    BY DEF FirstHandshake, FirstPlaces
  <2>3. pc[Hs(t)] = "claim"
    BY <1>2, <1>4, <2>2 DEF Claim, ClaimRejected, ClaimRefused, ClaimBusy, ClaimGranted, WaitEnds,
      WaitExpires, PastFinish, PastHandshake
  <2>4. ~Rejected(a)
    BY <1>0, <2>1 DEF Rejected, IsClosed, NothingCloses, FirstHandshake
  <2>5. ~Refused(a)
    BY <2>1 DEF Refused, IsOwner
  <2>6. ~reading /\ ~writing
    <3>1. ASSUME NEW u \in Threads, pc[Hs(u)] \in {"start", "io"}
          PROVE  FALSE
      <4>1. Owns(u) /\ Owns(t)
        BY <2>3, <3>1 DEF Owns, Running
      <4>2. u = t
        BY <4>1 DEF ContextInv, OneOwner
      <4> QED BY <2>3, <3>1, <4>2
    <3> QED BY <3>1 DEF FirstHandshake
  <2>7. ~Busy(OpOf(a))
    BY <2>1, <2>6 DEF Busy
  <2>8. ClaimGranted(a)
    BY <1>2, <1>4, <2>3, <2>4, <2>5, <2>7 DEF Claim, ClaimRejected, ClaimRefused, ClaimBusy,
      WaitEnds, WaitExpires
  <2>9. Goto(Hs(t), "start") /\ (handshaking => handshaking')
    BY <1>4, <2>1, <2>8 DEF ClaimGranted
  <2>10. ~handshake_error' /\ ~need_finish_handshake'
    BY <2>8 DEF ClaimGranted, FirstHandshake
  <2> QED BY <2>3, <2>9, <2>10, FirstWorker
<1> QED BY <1>3, <1>4

LEMMA FirstStarts ==
  ASSUME TypeOK, FirstHandshake, NEW t \in Threads,
         ImplicitHandshakeSync(t) \/ ImplicitHandshakeAsync(t)
  PROVE  FirstHandshake'
<1>1. PICK l \in {"crank", "idle"} : pc' = [pc EXCEPT ![App(t)] = l, ![Hs(t)] = "queued"]
  BY DEF ImplicitHandshakeSync, ImplicitHandshakeAsync
<1>2. /\ pc'[App(t)] = l /\ pc'[Hs(t)] = "queued"
      /\ \A u \in Threads : u # t => pc'[App(u)] = pc[App(u)] /\ pc'[Hs(u)] = pc[Hs(u)]
  BY <1>1, TwoGotos
<1>3. /\ UNCHANGED <<reading, writing, handshake_error, need_finish_handshake>>
      /\ handshaking' /\ pc[Hs(t)] = "idle"
  BY DEF ImplicitHandshakeSync, ImplicitHandshakeAsync, StartTask, dirVars
<1>4. FirstPlaces'
  BY <1>2 DEF FirstHandshake, FirstPlaces
<1>5. \A u \in Threads : pc[Hs(u)] \in {"start", "io"} => pc'[Hs(u)] \in {"start", "io"}
  BY <1>2, <1>3
<1> QED BY <1>3, <1>4, <1>5 DEF FirstHandshake

LEMMA FirstStep ==
  ASSUME TransfersOnly, TypeOK, ContextInv, NothingCloses, need_handshake, FirstHandshake,
         need_handshake', NEW t \in Threads, AppCall(t) \/ AppStep(t) \/ WorkerStep(t)
  PROVE  FirstHandshake'
<1>0. /\ pc[App(t)] \in {"idle", "claim", "wait", "crank"}
      /\ pc[Hs(t)] \in {"idle", "queued", "claim", "start", "io"}
      /\ ~handshake_error /\ ~need_finish_handshake
  BY DEF FirstHandshake, FirstPlaces
<1>1. CASE Begin(t)
  <2>1. Goto(App(t), "claim") /\ UNCHANGED <<hsVars, dirVars, ctxVars>>
    BY <1>1 DEF Begin
  <2> QED BY <2>1, FirstCaller DEF hsVars, dirVars
<1>2. ~Handshake(t) /\ ~Cancel(t)
  BY DEF Handshake, Cancel, TransfersOnly, StartOps, DataOps
<1>3. CASE AssertionFails(t)
  BY <1>3 DEF AssertionFails, FirstHandshake, FirstPlaces, ctlVars, hsVars, dirVars, ctxVars
<1>4. CASE Claim(App(t)) \/ Claim(Hs(t))
  BY <1>4, FirstClaims
<1>5. CASE ImplicitHandshakeSync(t) \/ ImplicitHandshakeAsync(t)
  BY <1>5, FirstStarts
<1>6. /\ ~FinishImplicit(t) /\ ~RejoinCancelled(t) /\ ~DataDone(t) /\ ~CloseFlags(t)
      /\ ~CloseDone(t) /\ ~SyncFinish(t) /\ ~SyncYield(t)
      /\ ~AsyncMark(t) /\ ~AsyncYield(t) /\ ~AsyncCompleted(t)
  BY <1>0 DEF FinishImplicit, RejoinCancelled, DataDone, CloseFlags, CloseDone, SyncFinish,
    SyncYield, AsyncMark, AsyncYield, AsyncCompleted
<1>7. CASE ThreadStarts(t)
  BY <1>0, <1>7, FirstWorker DEF ThreadStarts, dirVars
<1>8. CASE HandshakeBegins(t)
  <2>1. Goto(Hs(t), "io")
    BY <1>8 DEF HandshakeBegins
  <2> QED BY <1>0, <1>8, <2>1, FirstWorker DEF HandshakeBegins, dirVars
<1>9. ~HandshakeEnds(t)
  BY DEF HandshakeEnds
<1> QED BY <1>1, <1>2, <1>3, <1>4, <1>5, <1>6, <1>7, <1>8, <1>9 DEF AppCall, AppStep, WorkerStep

LEMMA TransferInvariant ==
  ASSUME TransfersOnly
  PROVE  Spec => []TransferInv
<1>1. Init => TransferInv
  <2> SUFFICES ASSUME Init PROVE TransferInv
    OBVIOUS
  <2>1. NothingCloses
    BY DEF Init, NothingCloses, DataOps
  <2>2. \A a \in Actors : pc[a] = "idle"
    BY DEF Init
  <2>3. \A t \in Threads : pc[App(t)] = "idle" /\ pc[Hs(t)] = "idle"
    BY <2>2, ActorFacts, Zenon
  <2>4. FirstHandshake
    BY <2>3 DEF Init, FirstHandshake, FirstPlaces
  <2> QED BY <2>1, <2>4 DEF TransferInv
<1>2. TypeOK /\ ContextInv /\ TransferInv /\ [Next]_vars => TransferInv'
  <2> SUFFICES ASSUME TypeOK, ContextInv, TransferInv, [Next]_vars PROVE TransferInv'
    OBVIOUS
  <2>1. CASE UNCHANGED vars
    BY <2>1 DEF TransferInv, NothingCloses, FirstHandshake, FirstPlaces, vars, hsVars, ctxVars,
      closeVars, dirVars, ctlVars
  <2>2. CASE Next
    <3>1. PICK t \in Threads : AppCall(t) \/ AppStep(t) \/ WorkerStep(t)
      BY <2>2 DEF Next
    <3>2. NothingCloses' /\ (need_handshake' => need_handshake)
      BY <3>1, NothingClosesStep DEF TransferInv
    <3>3. need_handshake' => FirstHandshake'
      BY <3>1, <3>2, FirstStep DEF TransferInv
    <3> QED BY <3>2, <3>3 DEF TransferInv
  <2> QED BY <2>1, <2>2
<1> QED BY <1>1, <1>2, TypeCorrect, ContextInvariant, PTL DEF Spec

LEMMA BlockAsserts ==
  ASSUME BlocksAlways, TypeOK, BlockInv, NEW t \in Threads
  PROVE  ~AssertionFails(t)
<1> SUFFICES ASSUME ~handshaking, handshake_context # NoThread \/ implicit_handshake # NoThread
             PROVE  FALSE
  BY DEF AssertionFails, BlocksAlways, WantsHandshake
<1>1. handshake_context \in Threads \/ implicit_handshake \in Threads
  BY DEF TypeOK, ContextsTyped
<1> QED BY <1>1 DEF BlockInv, OneEngaged, Engaged

LEMMA TransferAsserts ==
  ASSUME TransfersOnly, TransferInv, NEW t \in Threads
  PROVE  ~AssertionFails(t)
<1>1. \A c \in Calls[t] : c.op \notin StartOps
  BY DEF TransfersOnly, DataOps, StartOps
<1>2. WantsHandshake(OpOf(App(t))) =>
        handshake_context = NoThread /\ implicit_handshake = NoThread
  BY DEF WantsHandshake, TransferInv, FirstHandshake
<1> QED BY <1>1, <1>2 DEF AssertionFails

\* Nothing but a failed assertion ends the process.
LEMMA AbortsOnly ==
  ASSUME NEW t \in Threads, ~AssertionFails(t), AppCall(t) \/ AppStep(t) \/ WorkerStep(t)
  PROVE  aborted' = aborted
<1>1. ASSUME NEW a, Claim(a)
      PROVE  aborted' = aborted
  BY <1>1 DEF Claim, ClaimRejected, DivertToFinish, ClaimRefused, ClaimBusy, ClaimGranted,
    WaitEnds, WaitExpires, envVars
<1>2. CASE AppCall(t)
  BY <1>2 DEF AppCall, Begin, Handshake, Cancel, envVars
<1>3. CASE AppStep(t)
  BY <1>1, <1>3 DEF AppStep, ImplicitHandshakeSync, ImplicitHandshakeAsync, FinishImplicit,
    RejoinCancelled, DataDone, CloseFlags, CloseDone, SyncFinish, SyncYield, envVars
<1>4. CASE WorkerStep(t)
  BY <1>1, <1>4 DEF WorkerStep, ThreadStarts, HandshakeBegins, HandshakeEnds, AsyncMark,
    AsyncYield, AsyncCompleted, envVars
<1> QED BY <1>2, <1>3, <1>4

\* A step of a connection on which no assertion can fail now.
LEMMA HoldsOn ==
  ASSUME AssertionsHold, [Next]_vars, \A t \in Threads : ~AssertionFails(t)
  PROVE  AssertionsHold'
<1>1. CASE UNCHANGED vars
  BY <1>1 DEF vars, envVars, AssertionsHold
<1>2. ASSUME NEW t \in Threads, AppCall(t) \/ AppStep(t) \/ WorkerStep(t)
      PROVE  AssertionsHold'
  <2>1. ~AssertionFails(t)
    BY Zenon
  <2>2. aborted' = aborted
    BY <1>2, <2>1, AbortsOnly
  <2> QED BY <2>2 DEF AssertionsHold
<1> QED BY <1>1, <1>2 DEF Next

LEMMA BlockingIsSafe == ASSUME BlocksAlways PROVE Spec => []AssertionsHold
<1>1. Init => AssertionsHold
  BY DEF Init, AssertionsHold
<1>2. TypeOK /\ BlockInv /\ AssertionsHold /\ [Next]_vars => AssertionsHold'
  <2> SUFFICES ASSUME TypeOK, BlockInv, AssertionsHold, [Next]_vars PROVE AssertionsHold'
    OBVIOUS
  <2>1. \A t \in Threads : ~AssertionFails(t)
    BY BlockAsserts, Zenon
  <2> QED BY <2>1, HoldsOn
<1> QED BY <1>1, <1>2, TypeCorrect, BlockInvariant, PTL DEF Spec

LEMMA TransfersAreSafe == ASSUME TransfersOnly PROVE Spec => []AssertionsHold
<1>1. Init => AssertionsHold
  BY DEF Init, AssertionsHold
<1>2. TransferInv /\ AssertionsHold /\ [Next]_vars => AssertionsHold'
  <2> SUFFICES ASSUME TransferInv, AssertionsHold, [Next]_vars PROVE AssertionsHold'
    OBVIOUS
  <2>1. \A t \in Threads : ~AssertionFails(t)
    BY TransferAsserts, Zenon
  <2> QED BY <2>1, HoldsOn
<1> QED BY <1>1, <1>2, TransferInvariant, PTL DEF Spec

\* No assertion of the functions that start a handshake fails on a connection whose
\* calls all block, or that is only read and written: there, one handshake has left
\* its context and its task before the next can start.
THEOREM NoAssertionFails ==
  ASSUME BlocksAlways \/ TransfersOnly
  PROVE  Spec => []AssertionsHold
BY BlockingIsSafe, TransfersAreSafe

-----------------------------------------------------------------------------
(***************************************************************************)
(* Progress of such connections, as long as no peer asks for another       *)
(* handshake: a flag that makes somebody wait is held by an actor that     *)
(* does not wait itself.  The worker of the only handshake never does: a   *)
(* direction somebody else holds before the session is established is one  *)
(* that is being closed, and then the worker's claim fails.                *)
(***************************************************************************)
\* The handshake of t has the directions, or has had them and will yield them.
Handshakes(t) == pc[Hs(t)] \in {"start", "io", "done"} \/ pc[App(t)] = "hsyield"
Underway(t) == pc[Hs(t)] # "idle" \/ pc[App(t)] = "hsyield"
ReadsOn(t) == Handshakes(t) \/ (AppHolds(t) /\ UsesRead(call[t].op))
WritesOn(t) == Handshakes(t) \/ (AppHolds(t) /\ UsesWrite(call[t].op))
Closing == read_closing \/ write_closing

Held ==
  /\ reading => \E t \in Threads : ReadsOn(t)
  /\ writing => \E t \in Threads : WritesOn(t)
  /\ handshaking => \E t \in Threads : Underway(t)
  /\ ever_handshaked => ~need_handshake
  /\ need_handshake /\ (reading \/ writing) => Closing \/ \E t \in Threads : Handshakes(t)
  /\ \A t \in Threads : pc[Hs(t)] # "wait"

OthersStay(t) ==
  \A u \in Threads :
    u # t => pc'[App(u)] = pc[App(u)] /\ pc'[Hs(u)] = pc[Hs(u)] /\ call'[u] = call[u]

\* What a step of t must not do.
StaysHeld(t) ==
  /\ reading' /\ ~ReadsOn(t)' => reading /\ ~ReadsOn(t)
  /\ writing' /\ ~WritesOn(t)' => writing /\ ~WritesOn(t)
  /\ handshaking' /\ ~Underway(t)' => handshaking /\ ~Underway(t)
  /\ ever_handshaked' => ~need_handshake'
  /\ need_handshake' /\ (reading' \/ writing') /\ ~Closing' /\ ~Handshakes(t)'
       => need_handshake /\ (reading \/ writing) /\ ~Closing /\ ~Handshakes(t)
  /\ pc'[Hs(t)] # "wait"

LEMMA HeldStays ==
  ASSUME Held, NEW t \in Threads, OthersStay(t), StaysHeld(t)
  PROVE  Held'
<1>1. ASSUME NEW u \in Threads, u # t
      PROVE  /\ Handshakes(u)' <=> Handshakes(u)
             /\ Underway(u)' <=> Underway(u)
             /\ ReadsOn(u)' <=> ReadsOn(u)
             /\ WritesOn(u)' <=> WritesOn(u)
             /\ pc'[Hs(u)] # "wait"
  <2>1. pc'[App(u)] = pc[App(u)] /\ pc'[Hs(u)] = pc[Hs(u)] /\ call'[u] = call[u]
    BY <1>1 DEF OthersStay
  <2> QED BY <2>1 DEF Handshakes, Underway, ReadsOn, WritesOn, AppHolds, Held
<1>2. reading' => \E u \in Threads : ReadsOn(u)'
  BY <1>1 DEF Held, StaysHeld
<1>3. writing' => \E u \in Threads : WritesOn(u)'
  BY <1>1 DEF Held, StaysHeld
<1>4. handshaking' => \E u \in Threads : Underway(u)'
  BY <1>1 DEF Held, StaysHeld
<1>5. need_handshake' /\ (reading' \/ writing') => Closing' \/ \E u \in Threads : Handshakes(u)'
  BY <1>1 DEF Held, StaysHeld
<1>6. \A u \in Threads : pc'[Hs(u)] # "wait"
  BY <1>1 DEF StaysHeld
<1> QED BY <1>2, <1>3, <1>4, <1>5, <1>6 DEF Held, StaysHeld

\* The worker finds every direction free, or is turned away.
LEMMA WorkerNeverWaits ==
  ASSUME TypeOK, ContextInv, BlockInv, Held, NEW t \in Threads
  PROVE  ~ClaimBusy(Hs(t)) /\ ~WaitEnds(Hs(t))
<1>1. SUFFICES ASSUME ClaimBusy(Hs(t)) PROVE FALSE
  BY DEF Held, WaitEnds
<1>2. pc[Hs(t)] \in HsPCs /\ OpOf(Hs(t)) = "HANDSHAKE"
  BY ActorFacts DEF TypeOK, ActorsTyped
<1>3. pc[Hs(t)] = "claim" /\ ~Rejected(Hs(t)) /\ (reading \/ writing)
  BY <1>1, <1>2 DEF ClaimBusy, PastFinish, PastHandshake, HsPCs, Busy, UsesRead, UsesWrite
<1>4. need_handshake
  BY <1>3 DEF BlockInv, Established, WorkerTells, Running
<1>5. ~Closing
  BY <1>2, <1>3 DEF Rejected, IsClosed, Closing
<1>6. PICK u \in Threads : Handshakes(u)
  BY <1>3, <1>4, <1>5 DEF Held
<1>7. u = t
  BY <1>3, <1>6 DEF Handshakes, BlockInv, OneEngaged, Engaged
<1>8. pc[App(t)] = "hsyield"
  BY <1>3, <1>6, <1>7 DEF Handshakes
<1> QED BY <1>3, <1>8 DEF ContextInv, TaskKinds

\* A step of a caller that takes no handshake further.
CallerStep(t) ==
  /\ OthersStay(t)
  /\ pc[App(t)] # "hsyield" /\ pc'[App(t)] # "hsyield"
  /\ pc'[Hs(t)] = pc[Hs(t)]
  /\ handshaking' => handshaking
  /\ ever_handshaked' => ever_handshaked
  /\ need_handshake' => need_handshake

LEMMA CallerStays ==
  ASSUME Held, NEW t \in Threads, CallerStep(t),
         reading' /\ ~ReadsOn(t)' => reading /\ ~ReadsOn(t),
         writing' /\ ~WritesOn(t)' => writing /\ ~WritesOn(t),
         need_handshake /\ (reading' \/ writing') /\ ~Closing'
           => (reading \/ writing) /\ ~Closing
  PROVE  Held'
<1>1. /\ Handshakes(t)' <=> Handshakes(t)
      /\ Underway(t)' <=> Underway(t)
  BY DEF CallerStep, Handshakes, Underway
<1>2. StaysHeld(t)
  BY <1>1 DEF CallerStep, StaysHeld, Held
<1> QED BY <1>2, HeldStays DEF CallerStep

LEMMA HeldCallerClaims ==
  ASSUME TypeOK, Plain, Established, Held, NEW t \in Threads, ClaimsPlainly(App(t))
  PROVE  Held'
<1> DEFINE a == App(t)
           op == call[t].op
<1>1. OpOf(a) = op /\ a[2] = "app" /\ op \in DataOps \cup CloseOps
  BY ActorFacts DEF Plain, StartOps, Ops, DataOps, CloseOps, TypeOK, ActorsTyped
<1>2. PICK l \in {"idle", "wait", "io", "claim"} : Goto(a, l)
  BY PlainClaimMoves, ActorFacts
<1>3. /\ pc[a] \in {"claim", "wait", "relock", "rejoin"}
      /\ call' = call
  BY PlainClaimMoves
<1>4. /\ pc'[a] = l
      /\ \A u \in Threads : u # t => pc'[App(u)] = pc[App(u)]
      /\ \A u \in Threads : pc'[Hs(u)] = pc[Hs(u)]
  BY <1>2, GotoApp
<1>5. /\ ever_handshaked' => ever_handshaked
      /\ need_handshake' => need_handshake
      /\ handshaking' => handshaking
  <2>1. op # "HANDSHAKE"
    BY <1>1 DEF DataOps, CloseOps
  <2>2. CASE ClaimGranted(a)
    BY <1>1, <2>1, <2>2 DEF ClaimGranted
  <2>3. CASE ~ClaimGranted(a)
    BY <2>3 DEF ClaimsPlainly, ClaimRejected, ClaimRefused, ClaimBusy, WaitEnds, hsVars
  <2> QED BY <2>2, <2>3
<1>6. CallerStep(t)
  BY <1>3, <1>4, <1>5 DEF CallerStep, OthersStay
<1>7. ~AppHolds(t) /\ (Handshakes(t)' <=> Handshakes(t))
  BY <1>3, <1>4 DEF AppHolds, Handshakes
<1>8. CASE ClaimGranted(a)
  <2>1. /\ reading' => reading \/ UsesRead(op)
        /\ writing' => writing \/ UsesWrite(op)
        /\ read_closing \/ ClosesRead(op) => read_closing'
        /\ write_closing \/ ClosesWrite(op) => write_closing'
    BY <1>1, <1>8 DEF ClaimGranted
  <2>2. pc'[a] = "io"
    <3>1. Goto(a, "io")
      BY <1>1, <1>8 DEF ClaimGranted
    <3> QED BY <3>1, GotoApp
  <2>3. /\ UsesRead(op) => ReadsOn(t)'
        /\ UsesWrite(op) => WritesOn(t)'
    BY <1>3, <2>2 DEF ReadsOn, WritesOn, AppHolds
  <2>4. need_handshake => Closing'
    <3>1. CASE op \in DataOps
      BY <1>8, <3>1, DataGranted DEF Held
    <3>2. CASE op \in CloseOps
      BY <2>1, <3>2 DEF CloseOps, ClosesRead, ClosesWrite, Closing
    <3> QED BY <1>1, <3>1, <3>2
  <2>5. /\ reading' /\ ~ReadsOn(t)' => reading /\ ~ReadsOn(t)
        /\ writing' /\ ~WritesOn(t)' => writing /\ ~WritesOn(t)
    BY <1>7, <2>1, <2>3 DEF ReadsOn, WritesOn
  <2> QED BY <1>6, <2>4, <2>5, CallerStays
<1>9. CASE ~ClaimGranted(a)
  <2>1. UNCHANGED <<closeVars, reading, writing>>
    BY <1>9 DEF ClaimsPlainly, ClaimRejected, ClaimRefused, ClaimBusy, WaitEnds, dirVars
  <2>2. /\ reading' => reading
        /\ writing' => writing
        /\ Closing => Closing'
    BY <2>1 DEF closeVars, Closing
  <2>3. /\ reading' /\ ~ReadsOn(t)' => reading /\ ~ReadsOn(t)
        /\ writing' /\ ~WritesOn(t)' => writing /\ ~WritesOn(t)
    BY <1>7, <2>2 DEF ReadsOn, WritesOn
  <2> QED BY <1>6, <2>2, <2>3, CallerStays
<1> QED BY <1>8, <1>9

LEMMA HeldOperationEnds ==
  ASSUME TypeOK, Plain, Held, ~Rehandshakes, NEW t \in Threads,
         DataDone(t) \/ CloseFlags(t) \/ CloseDone(t)
  PROVE  Held'
<1> DEFINE op == call[t].op
<1>1. op \in DataOps \cup CloseOps /\ op # "HANDSHAKE"
  BY DEF Plain, StartOps, Ops, DataOps, CloseOps, TypeOK, ActorsTyped
<1>2. PICK l \in {"idle", "closed"} : Goto(App(t), l)
  BY DEF DataDone, CloseFlags, CloseDone
<1>3. call' = call /\ pc[App(t)] \in {"io", "closed"}
  BY DEF DataDone, CloseFlags, CloseDone
<1>4. /\ pc'[App(t)] = l
      /\ \A u \in Threads : u # t => pc'[App(u)] = pc[App(u)]
      /\ \A u \in Threads : pc'[Hs(u)] = pc[Hs(u)]
  BY <1>2, GotoApp
<1>5. Handshakes(t)' <=> Handshakes(t)
  BY <1>3, <1>4 DEF Handshakes
<1>6. CASE CloseFlags(t)
  <2>1. UNCHANGED <<hsVars, reading, writing, read_closing, write_closing>>
    BY <1>6 DEF CloseFlags, dirVars
  <2>2. CallerStep(t)
    BY <1>3, <1>4, <2>1 DEF CallerStep, OthersStay, hsVars
  <2>3. pc'[App(t)] = "closed" /\ pc[App(t)] = "io"
    BY <1>6, GotoApp DEF CloseFlags
  <2>4. (ReadsOn(t)' <=> ReadsOn(t)) /\ (WritesOn(t)' <=> WritesOn(t))
    BY <1>3, <1>5, <2>3 DEF ReadsOn, WritesOn, AppHolds
  <2>5. /\ reading' => reading
        /\ writing' => writing
        /\ Closing => Closing'
    BY <2>1 DEF Closing
  <2> QED BY <2>2, <2>4, <2>5, CallerStays
<1>7. CASE YieldOp(op, FALSE)
  <2>1. /\ handshaking' => handshaking
        /\ need_handshake' => need_handshake
        /\ ever_handshaked' => ever_handshaked
        /\ reading' => reading /\ ~UsesRead(op)
        /\ writing' => writing /\ ~UsesWrite(op)
        /\ read_closing /\ ~ClosesRead(op) => read_closing'
        /\ write_closing /\ ~ClosesWrite(op) => write_closing'
    BY <1>7 DEF YieldOp
  <2>2. CallerStep(t)
    BY <1>3, <1>4, <2>1 DEF CallerStep, OthersStay
  <2>3. /\ reading' /\ ~ReadsOn(t)' => reading /\ ~ReadsOn(t)
        /\ writing' /\ ~WritesOn(t)' => writing /\ ~WritesOn(t)
    BY <1>5, <2>1 DEF ReadsOn, WritesOn
  <2>4. (reading' \/ writing') /\ ~Closing' => (reading \/ writing) /\ ~Closing
    <3>1. op \in CloseOps => UsesRead(op) /\ UsesWrite(op)
      BY DEF CloseOps, UsesRead, UsesWrite
    <3>2. op \in DataOps => ~ClosesRead(op) /\ ~ClosesWrite(op)
      BY DEF DataOps, ClosesRead, ClosesWrite
    <3> QED BY <1>1, <2>1, <3>1, <3>2 DEF Closing
  <2> QED BY <2>2, <2>3, <2>4, CallerStays
<1>8. CloseFlags(t) \/ YieldOp(op, FALSE)
  BY DEF DataDone, CloseDone
<1> QED BY <1>6, <1>7, <1>8

LEMMA HeldWorkerClaims ==
  ASSUME TypeOK, ContextInv, BlockInv, Held, NEW t \in Threads, ClaimsPlainly(Hs(t))
  PROVE  Held'
<1> DEFINE a == Hs(t)
<1>1. /\ OpOf(a) = "HANDSHAKE" /\ a[2] = "hs" /\ a[1] = t
      /\ AfterThread(t) = "done" /\ pc[a] \in HsPCs
  BY ActorFacts DEF AfterThread, BlockInv, Plain, TypeOK, ActorsTyped
<1>2. ~ClaimRefused(a)
  BY <1>1 DEF ClaimRefused, Refused, IsOwner
<1>3. ClaimRejected(a) \/ ClaimGranted(a)
  BY <1>2, WorkerNeverWaits DEF ClaimsPlainly
<1>4. PICK l \in {"start", "done"} : Goto(a, l)
  BY <1>1, <1>3 DEF ClaimRejected, ClaimGranted, Fail
<1>5. /\ pc'[a] = l
      /\ \A u \in Threads : u # t => pc'[Hs(u)] = pc[Hs(u)]
      /\ \A u \in Threads : pc'[App(u)] = pc[App(u)]
  BY <1>4, GotoHs
<1>6. call' = call
  BY <1>3 DEF ClaimRejected, ClaimGranted
<1>7. OthersStay(t) /\ Handshakes(t)'
  BY <1>5, <1>6 DEF OthersStay, Handshakes
<1>8. Underway(t)' /\ ReadsOn(t)' /\ WritesOn(t)' /\ pc'[a] # "wait"
  BY <1>5, <1>7 DEF Underway, ReadsOn, WritesOn
<1>9. ever_handshaked' => ~need_handshake'
  <2>1. UNCHANGED <<ever_handshaked, need_handshake>>
    BY <1>3 DEF ClaimRejected, ClaimGranted, hsVars
  <2> QED BY <2>1 DEF Held
<1>10. StaysHeld(t)
  BY <1>7, <1>8, <1>9 DEF StaysHeld
<1> QED BY <1>7, <1>10, HeldStays

\* The steps of the handshake itself.
LEMMA HeldWorker ==
  ASSUME TypeOK, Plain, Held, NEW t \in Threads,
         ThreadStarts(t) \/ HandshakeBegins(t) \/ HandshakeEnds(t)
  PROVE  Held'
<1>1. AfterThread(t) = "done" /\ Hs(t)[1] = t /\ Hs(t)[2] = "hs"
  BY ActorFacts DEF AfterThread, Plain
<1>2. PICK l \in {"claim", "io", "done"} : Goto(Hs(t), l)
  BY <1>1 DEF ThreadStarts, HandshakeBegins, HandshakeEnds, Fail
<1>3. /\ pc'[Hs(t)] = l
      /\ \A u \in Threads : u # t => pc'[Hs(u)] = pc[Hs(u)]
      /\ \A u \in Threads : pc'[App(u)] = pc[App(u)]
  BY <1>2, GotoHs
<1>4. UNCHANGED <<call, handshaking, reading, writing, read_closing, write_closing>>
  BY DEF ThreadStarts, HandshakeBegins, HandshakeEnds, closeVars, dirVars
<1>5. OthersStay(t) /\ pc'[Hs(t)] # "wait" /\ Underway(t)'
  BY <1>3, <1>4 DEF OthersStay, Underway
<1>6. Handshakes(t) => Handshakes(t)'
  <2>1. pc[Hs(t)] = "queued" \/ l # "claim"
    <3>1. ThreadStarts(t) => pc[Hs(t)] = "queued"
      BY DEF ThreadStarts
    <3>2. HandshakeBegins(t) \/ HandshakeEnds(t) => Goto(Hs(t), "io") \/ Goto(Hs(t), "done")
      BY <1>1 DEF HandshakeBegins, HandshakeEnds, Fail
    <3>3. Goto(Hs(t), "io") \/ Goto(Hs(t), "done") => pc'[Hs(t)] # "claim"
      BY GotoHs
    <3> QED BY <1>3, <3>1, <3>2, <3>3
  <2> QED BY <1>3, <2>1 DEF Handshakes
<1>7. /\ ReadsOn(t) => ReadsOn(t)'
      /\ WritesOn(t) => WritesOn(t)'
  BY <1>3, <1>4, <1>6 DEF ReadsOn, WritesOn, AppHolds
<1>8. /\ reading' => reading
      /\ writing' => writing
      /\ Closing => Closing'
  BY <1>4 DEF Closing
<1>9. /\ ever_handshaked' => ~need_handshake'
      /\ need_handshake' => need_handshake
  BY DEF ThreadStarts, HandshakeBegins, HandshakeEnds, Held
<1>10. StaysHeld(t)
  BY <1>5, <1>6, <1>7, <1>8, <1>9 DEF StaysHeld
<1> QED BY <1>5, <1>10, HeldStays

LEMMA HeldHandshake ==
  ASSUME TypeOK, Held, NEW t \in Threads,
         ImplicitHandshakeSync(t) \/ SyncFinish(t) \/ SyncYield(t)
  PROVE  Held'
<1>1. /\ call' = call
      /\ need_handshake' => need_handshake
      /\ ever_handshaked' => ever_handshaked
  <2>1. CASE ImplicitHandshakeSync(t)
    BY <2>1 DEF ImplicitHandshakeSync
  <2>2. CASE SyncFinish(t)
    BY <2>2 DEF SyncFinish
  <2>3. CASE SyncYield(t)
    BY <2>3 DEF SyncYield, YieldHandshake, YieldOp
  <2> QED BY <2>1, <2>2, <2>3
<1>2. CASE ImplicitHandshakeSync(t)
  <2>1. /\ pc' = [pc EXCEPT ![App(t)] = "crank", ![Hs(t)] = "queued"]
        /\ pc[App(t)] = "claim" /\ pc[Hs(t)] = "idle"
    BY <1>2 DEF ImplicitHandshakeSync, StartTask
  <2>2. pc' = [pc EXCEPT ![App(t)] = "crank", ![Hs(t)] = "queued"]
    BY <2>1
  <2>3. /\ pc'[App(t)] = "crank" /\ pc'[Hs(t)] = "queued"
        /\ \A u \in Threads : u # t => pc'[App(u)] = pc[App(u)] /\ pc'[Hs(u)] = pc[Hs(u)]
    BY <2>2, TwoGotos
  <2>4. /\ OthersStay(t) /\ Underway(t)'
        /\ ~Handshakes(t) /\ ~ReadsOn(t) /\ ~WritesOn(t)
    BY <1>1, <2>1, <2>3 DEF OthersStay, Underway, Handshakes, ReadsOn, WritesOn, AppHolds
  <2>5. /\ reading' => reading
        /\ writing' => writing
        /\ Closing => Closing'
    BY <1>2 DEF ImplicitHandshakeSync, closeVars, dirVars, Closing
  <2>6. StaysHeld(t)
    BY <1>1, <2>3, <2>4, <2>5 DEF StaysHeld, Held
  <2> QED BY <2>4, <2>6, HeldStays
<1>3. CASE SyncFinish(t)
  <2>1. pc' = [pc EXCEPT ![App(t)] = "hsyield", ![Hs(t)] = "idle"]
    BY <1>3 DEF SyncFinish
  <2>2. /\ pc'[App(t)] = "hsyield" /\ pc'[Hs(t)] = "idle"
        /\ \A u \in Threads : u # t => pc'[App(u)] = pc[App(u)] /\ pc'[Hs(u)] = pc[Hs(u)]
    BY <2>1, TwoGotos
  <2>3. OthersStay(t) /\ Underway(t)' /\ Handshakes(t)' /\ ReadsOn(t)' /\ WritesOn(t)'
    BY <1>1, <2>2 DEF OthersStay, Underway, Handshakes, ReadsOn, WritesOn
  <2>4. StaysHeld(t)
    BY <1>1, <2>2, <2>3 DEF StaysHeld, Held
  <2> QED BY <2>3, <2>4, HeldStays
<1>4. CASE SyncYield(t)
  <2>1. PICK l \in {"relock", "idle"} : Goto(App(t), l)
    BY <1>4 DEF SyncYield
  <2>2. /\ pc'[App(t)] = l
        /\ \A u \in Threads : u # t => pc'[App(u)] = pc[App(u)]
        /\ \A u \in Threads : pc'[Hs(u)] = pc[Hs(u)]
    BY <2>1, GotoApp
  <2>3. ~reading' /\ ~writing' /\ ~handshaking'
    BY <1>4 DEF SyncYield, YieldHandshake, YieldOp, UsesRead, UsesWrite
  <2>4. OthersStay(t) /\ StaysHeld(t)
    BY <1>1, <2>2, <2>3 DEF OthersStay, StaysHeld, Held
  <2> QED BY <2>4, HeldStays
<1> QED BY <1>2, <1>3, <1>4

LEMMA HeldStep ==
  ASSUME TypeOK, ContextInv, BlockInv, Held, ~Rehandshakes, NEW t \in Threads,
         PlainStep(t) \/ AssertionFails(t)
  PROVE  Held'
<1>0. Plain /\ Established
  BY DEF BlockInv
<1>1. CASE Begin(t)
  <2>1. /\ Goto(App(t), "claim") /\ UNCHANGED <<hsVars, closeVars, dirVars>>
        /\ \A u \in Threads : u # t => call'[u] = call[u]
        /\ pc[App(t)] = "idle"
    BY <1>1 DEF Begin, Issue, TypeOK, ActorsTyped
  <2>2. /\ pc'[App(t)] = "claim"
        /\ \A u \in Threads : u # t => pc'[App(u)] = pc[App(u)]
        /\ \A u \in Threads : pc'[Hs(u)] = pc[Hs(u)]
    BY <2>1, GotoApp
  <2>3. CallerStep(t)
    BY <2>1, <2>2 DEF CallerStep, OthersStay, hsVars
  <2>4. /\ ReadsOn(t) => ReadsOn(t)'
        /\ WritesOn(t) => WritesOn(t)'
    BY <2>1, <2>2 DEF ReadsOn, WritesOn, AppHolds, Handshakes
  <2>5. /\ reading' => reading
        /\ writing' => writing
        /\ Closing => Closing'
    BY <2>1 DEF closeVars, dirVars, Closing
  <2> QED BY <2>3, <2>4, <2>5, CallerStays
<1>2. CASE Cancel(t) \/ AssertionFails(t)
  <2>1. UNCHANGED <<hsVars, closeVars, dirVars, pc, call>>
    BY <1>2 DEF Cancel, AssertionFails, ctlVars
  <2> QED BY <2>1 DEF Held, Handshakes, Underway, ReadsOn, WritesOn, AppHolds, Closing, hsVars,
        closeVars, dirVars
<1> QED BY <1>0, <1>1, <1>2, HeldCallerClaims, HeldWorkerClaims, HeldHandshake, HeldOperationEnds,
      HeldWorker DEF PlainStep

LEMMA HeldInvariant ==
  ASSUME BlocksAlways, ~Rehandshakes
  PROVE  Spec => []Held
<1>1. Init => Held
  <2> SUFFICES ASSUME Init PROVE Held
    OBVIOUS
  <2>1. \A a \in Actors : pc[a] = "idle"
    BY DEF Init
  <2>2. \A t \in Threads : pc[Hs(t)] = "idle"
    BY <2>1, ActorFacts, Zenon
  <2> QED BY <2>2 DEF Init, Held
<1>2. TypeOK /\ ContextInv /\ BlockInv /\ Held /\ [Next]_vars => Held'
  <2> SUFFICES ASSUME TypeOK, ContextInv, BlockInv, Held, [Next]_vars
               PROVE  Held'
    OBVIOUS
  <2>1. CASE UNCHANGED vars
    BY <2>1 DEF Held, Handshakes, Underway, ReadsOn, WritesOn, AppHolds, Closing, vars, hsVars,
      closeVars, dirVars, ctlVars
  <2>2. CASE Next
    <3>1. PICK t \in Threads : AppCall(t) \/ AppStep(t) \/ WorkerStep(t)
      BY <2>2 DEF Next
    <3>2. PlainStep(t) \/ AssertionFails(t)
      BY <3>1, PlainSteps DEF BlockInv
    <3> QED BY <3>2, HeldStep
  <2> QED BY <2>1, <2>2
<1> QED BY <1>1, <1>2, TypeCorrect, ContextInvariant, BlockInvariant, PTL DEF Spec

\* Nobody waits for everybody: on a connection whose calls all block and whose peer
\* asks for no other handshake, whenever somebody sleeps in claim_op(), some thread
\* or worker can move.  (A peer that asks for one can make the worker of the second
\* handshake sleep through the yield_op() it waits for.)
THEOREM SomebodyAlwaysMoves ==
  ASSUME BlocksAlways, ~Rehandshakes
  PROVE  Spec => []SomebodyMoves
<1>1. TypeOK /\ BlockInv /\ Held /\ SleepsSignalled => SomebodyMoves
  <2> SUFFICES ASSUME TypeOK, BlockInv, Held, SleepsSignalled, NEW a \in Actors, Asleep(a)
               PROVE  \E b \in Actors : pc[b] \notin {"idle", "crank"} /\ ~Asleep(b)
    BY DEF SomebodyMoves
  <2>1. YieldPending
    BY DEF Asleep, SleepsSignalled, Sleeps, Signalled
  <2>2. PICK t \in Threads : ReadsOn(t) \/ WritesOn(t) \/ Underway(t)
    BY <2>1 DEF YieldPending, Held, BlockInv, Plain, PlainPlaces
  <2>3. \/ pc[App(t)] \in {"hsyield", "io", "closed"}
        \/ pc[Hs(t)] \notin {"idle", "wait"}
    BY <2>2 DEF ReadsOn, WritesOn, Underway, Handshakes, AppHolds, Held
  <2>4. pc[Hs(t)] # "crank"
    BY DEF TypeOK, ActorsTyped, HsPCs
  <2> QED BY <2>3, <2>4, ActorFacts DEF Asleep
<1> QED BY <1>1, TypeCorrect, BlockInvariant, HeldInvariant, SleepsInvariant, PTL

-----------------------------------------------------------------------------
(***************************************************************************)
(* The pollable side, TlsSource.  It takes no step of its own on the       *)
(* arbiter, so everything proved above holds of a connection that is       *)
(* polled, and a source made anew for each call that would block is woken  *)
(* like a thread.                                                          *)
(***************************************************************************)
LEMMA SourceSteps == SourceInit /\ [][SourceNext]_allVars => Spec
<1>1. SourceInit => Init
  BY DEF SourceInit
<1>2. [SourceNext]_allVars => [Next]_vars
  <2> SUFFICES ASSUME SourceNext PROVE Next \/ UNCHANGED vars
    BY DEF allVars
  <2>1. CASE Poll
    <3>1. AppCall(Poller) /\ Poller \in Threads /\ ~aborted
      BY <2>1, PollerAssumption DEF Poll, AppCall, SourceNext
    <3> QED BY <3>1 DEF Next
  <2>2. CASE LoopStep \/ WaitStep \/ BaseReady
    BY <2>2 DEF LoopStep, PollReturns, SyncDecides, SyncAttaches, Dispatch, WaitStep,
      ConditionWait, ConditionMet, ConditionTimesOut, BaseReady
  <2>3. ASSUME NEW t \in Threads,
               CallStep(t) \/ HandshakeStep(t) \/ OtherCall(t) \/ AssertionAborts(t)
        PROVE  Next
    <3>1. AppStep(t) \/ WorkerStep(t) \/ AppCall(t)
      BY <2>3 DEF CallStep, HandshakeStep, OtherCall, AssertionAborts, AppCall
    <3> QED BY <3>1 DEF Next, SourceNext
  <2> QED BY <2>1, <2>2, <2>3 DEF SourceNext
<1> QED BY <1>1, <1>2, PTL DEF Spec

LEMMA SourceInitTyped == SourceInit => SourceTypeOK
<1> SUFFICES ASSUME SourceInit PROVE SourceTypeOK
  OBVIOUS
<1>1. TypeOK
  BY InitTyped DEF SourceInit
<1>2. NoSource \in [child : Children, woken : BOOLEAN]
  BY DEF NoSource, Children
<1> QED BY <1>1, <1>2 DEF SourceInit, SourceTypeOK, Children

LEMMA SourceStepTyped ==
  ASSUME SourceTypeOK, TypeOK', [SourceNext]_allVars
  PROVE  SourceTypeOK'
<1>1. CASE UNCHANGED sourceVars
  BY <1>1 DEF sourceVars, SourceTypeOK
<1>2. CASE LoopStep \/ Poll
  <2> USE DEF SourceTypeOK
  <2>1. NoSource \in [child : Children, woken : BOOLEAN]
    BY DEF NoSource, Children
  <2>2. CASE PollReturns
    BY <2>1, <2>2 DEF PollReturns
  <2>3. CASE SyncDecides
    <3>1. Awaited \in Children
      BY DEF Awaited, Children
    <3> QED BY <2>3, <3>1 DEF SyncDecides
  <2>4. CASE SyncAttaches
    <3>1. ChildSource \in [child : Children, woken : BOOLEAN]
      BY DEF ChildSource
    <3> QED BY <2>4, <3>1 DEF SyncAttaches
  <2>5. CASE Dispatch
    BY <2>5 DEF Dispatch
  <2>6. CASE Poll
    BY <2>6 DEF Poll
  <2> QED BY <1>2, <2>2, <2>3, <2>4, <2>5, <2>6 DEF LoopStep
<1>3. CASE WaitStep \/ BaseReady
  BY <1>3 DEF WaitStep, ConditionWait, ConditionMet, ConditionTimesOut, BaseReady, SourceTypeOK
<1>4. ASSUME NEW t \in Threads, CallStep(t)
      PROVE  SourceTypeOK'
  <2>1. base' \in BOOLEAN /\ blocked' \in BOOLEAN
    BY <1>4 DEF CallStep, BaseAfter, SourceTypeOK
  <2>2. source' \in [child : Children, woken : BOOLEAN]
    BY <1>4 DEF CallStep, Notice, SourceTypeOK
  <2> QED BY <1>4, <2>1, <2>2 DEF CallStep, SourceTypeOK
<1>5. ASSUME NEW t \in Threads, HandshakeStep(t)
      PROVE  SourceTypeOK'
  BY <1>5 DEF HandshakeStep, Notice, SourceTypeOK
<1> QED BY <1>1, <1>2, <1>3, <1>4, <1>5 DEF SourceNext, OtherCall, AssertionAborts, allVars

\* The types of the pollable side: SourceTypeOK, for every set of threads.
THEOREM SourceTypesCorrect == SourceSpec => []SourceTypeOK
<1>1. SourceTypeOK /\ TypeOK' /\ [SourceNext]_allVars => SourceTypeOK'
  BY SourceStepTyped
<1> QED BY <1>1, SourceInitTyped, SourceSteps, TypeCorrect, PTL DEF SourceSpec

\* What tls_source_sync has decided to wait for still is there to wait for.
SyncSignalled == loop = "sync" /\ wanted = "op" => Signalled

\* An application whose callback returns FALSE makes a new source each time.
NewSources == loop \in {"blocked", "sync"} => source.child = "none"

SourceSignalled == SourceAsleep => YieldPending /\ ~waiting_for_op

LEMMA SyncDecidesSignals ==
  ASSUME SyncDecides, wanted' = "op"
  PROVE  Signalled'
<1>1. OpWaiting
  BY DEF SyncDecides, Awaited
<1>2. reading \/ writing \/ handshaking
  BY <1>1 DEF OpWaiting
<1> QED BY <1>2 DEF SyncDecides, vars, dirVars, hsVars, Signalled, YieldPending

\* What a step of the arbiter leaves of the pollable side.
SourceLooksOn == UNCHANGED <<loop, wanted, waiter>> /\ (Notice \/ UNCHANGED <<source, waiting_for_op>>)

LEMMA SourceCases ==
  ASSUME SourceNext
  PROVE  \/ UNCHANGED vars /\ (LoopStep \/ WaitStep \/ BaseReady)
         \/ Poll /\ AppCall(Poller)
         \/ /\ SourceLooksOn
            /\ \E t \in Threads : AppCall(t) \/ AppStep(t) \/ WorkerStep(t)
<1>1. CASE Poll
  BY <1>1 DEF Poll, AppCall
<1>2. CASE LoopStep \/ WaitStep \/ BaseReady
  BY <1>2 DEF LoopStep, PollReturns, SyncDecides, SyncAttaches, Dispatch, WaitStep,
    ConditionWait, ConditionMet, ConditionTimesOut, BaseReady
<1>3. ASSUME NEW t \in Threads, CallStep(t) \/ HandshakeStep(t)
      PROVE  SourceLooksOn /\ (AppStep(t) \/ WorkerStep(t))
  BY <1>3 DEF CallStep, HandshakeStep, SourceLooksOn
<1>4. ASSUME NEW t \in Threads, OtherCall(t) \/ AssertionAborts(t)
      PROVE  SourceLooksOn /\ AppCall(t)
  BY <1>4 DEF OtherCall, AssertionAborts, AppCall, Begin, Handshake, Cancel, AssertionFails,
    sourceVars, dirVars, SourceLooksOn
<1> QED BY <1>1, <1>2, <1>3, <1>4 DEF SourceNext

LEMMA SyncStep ==
  ASSUME RefineInv, SleepsSignalled, SyncSignalled, [SourceNext]_allVars
  PROVE  SyncSignalled'
<1> SUFFICES ASSUME loop' = "sync", wanted' = "op" PROVE Signalled'
  BY DEF SyncSignalled
<1>1. ASSUME UNCHANGED vars, UNCHANGED <<loop, wanted>>
      PROVE  Signalled'
  BY <1>1 DEF SyncSignalled, Signalled, YieldPending, vars, dirVars, hsVars, ctlVars
<1>2. CASE SyncDecides
  BY <1>2, SyncDecidesSignals
<1>3. CASE PollReturns \/ SyncAttaches \/ Dispatch \/ Poll
  BY <1>3 DEF PollReturns, SyncAttaches, Dispatch, Poll
<1>4. CASE WaitStep \/ BaseReady
  BY <1>1, <1>4 DEF WaitStep, ConditionWait, ConditionMet, ConditionTimesOut, BaseReady
<1>5. ASSUME SourceLooksOn,
             NEW t \in Threads, AppCall(t) \/ AppStep(t) \/ WorkerStep(t)
      PROVE  Signalled'
  <2>1. Signalled
    BY <1>5 DEF SourceLooksOn, SyncSignalled
  <2> QED BY <1>5, <2>1, ArbiterSignals, BystandsKeeps
<1>6. UNCHANGED allVars => UNCHANGED vars /\ UNCHANGED <<loop, wanted>>
  BY DEF allVars, sourceVars
<1> QED BY <1>1, <1>2, <1>3, <1>4, <1>5, <1>6, SourceCases DEF LoopStep

\* A source that looks on misses no cancellation.
LEMMA LooksOn ==
  ASSUME SourceTypeOK, SourceLooksOn
  PROVE  /\ loop' = loop
         /\ source'.child = source.child
         /\ ~source'.woken => ~source.woken
         /\ source.child = "op" /\ ~source'.woken /\ ~waiting_for_op => ~waiting_for_op'
<1>0. source \in [child : Children, woken : BOOLEAN]
  BY DEF SourceTypeOK
<1>1. CASE Notice
  <2> DEFINE w == source.woken \/ (source.child = "op" /\ ~waiting_for_op /\ waiting_for_op')
  <2>1. source' = [source EXCEPT !.woken = w]
    BY <1>1 DEF Notice
  <2> HIDE DEF w
  <2>2. source'.child = source.child /\ source'.woken = w
    BY <1>0, <2>1
  <2> QED BY <2>2 DEF w, SourceLooksOn
<1>2. CASE UNCHANGED <<source, waiting_for_op>>
  BY <1>2 DEF SourceLooksOn
<1> QED BY <1>1, <1>2 DEF SourceLooksOn

LEMMA NewSourcesStep ==
  ASSUME ~Keeps, SourceTypeOK, NewSources, [SourceNext]_allVars
  PROVE  NewSources'
<1>1. CASE PollReturns
  BY <1>1 DEF PollReturns, NewSources, NoSource
<1>2. CASE SyncDecides \/ SyncAttaches \/ Dispatch \/ Poll
  BY <1>2 DEF SyncDecides, SyncAttaches, Dispatch, Poll, NewSources
<1>3. CASE WaitStep \/ BaseReady \/ UNCHANGED allVars
  BY <1>3 DEF WaitStep, ConditionWait, ConditionMet, ConditionTimesOut, BaseReady, allVars,
    sourceVars, NewSources
<1>4. CASE SourceLooksOn
  BY <1>4, LooksOn DEF NewSources
<1> QED BY <1>1, <1>2, <1>3, <1>4, SourceCases DEF LoopStep

LEMMA SourceSignalledStep ==
  ASSUME RefineInv, SleepsSignalled, SyncSignalled, SourceTypeOK, NewSources, SourceSignalled,
         [SourceNext]_allVars
  PROVE  SourceSignalled'
<1> SUFFICES ASSUME SourceAsleep' PROVE (YieldPending /\ ~waiting_for_op)'
  BY DEF SourceSignalled
<1>1. loop' = "polling" /\ source'.child = "op" /\ ~source'.woken
  BY DEF SourceAsleep
<1>2. ASSUME UNCHANGED vars, UNCHANGED <<loop, source>>
      PROVE  (YieldPending /\ ~waiting_for_op)'
  <2>1. YieldPending /\ ~waiting_for_op
    BY <1>1, <1>2 DEF SourceSignalled, SourceAsleep
  <2> QED BY <1>2, <2>1 DEF YieldPending, vars, dirVars, hsVars, ctlVars
<1>3. CASE UNCHANGED vars /\ SyncAttaches
  <2>1. loop = "sync" /\ wanted = "op" /\ ~waiting_for_op
    BY <1>1, <1>3 DEF SyncAttaches, NewSources, ChildSource
  <2>2. YieldPending
    BY <2>1 DEF SyncSignalled, Signalled
  <2> QED BY <1>3, <2>1, <2>2 DEF YieldPending, vars, dirVars, hsVars, ctlVars
<1>4. CASE UNCHANGED vars /\ (PollReturns \/ SyncDecides \/ Dispatch)
  BY <1>1, <1>4 DEF PollReturns, SyncDecides, Dispatch
<1>5. CASE Poll
  BY <1>1, <1>5 DEF Poll
<1>6. CASE UNCHANGED vars /\ (WaitStep \/ BaseReady)
  BY <1>2, <1>6 DEF WaitStep, ConditionWait, ConditionMet, ConditionTimesOut, BaseReady
<1>7. ASSUME SourceLooksOn,
             NEW t \in Threads, AppCall(t) \/ AppStep(t) \/ WorkerStep(t)
      PROVE  (YieldPending /\ ~waiting_for_op)'
  <2>1. /\ loop = "polling" /\ source.child = "op" /\ ~source.woken
        /\ (~waiting_for_op => ~waiting_for_op')
    <3>1. loop = "polling" /\ source.child = "op" /\ ~source.woken
      BY <1>1, <1>7, LooksOn
    <3> QED BY <1>1, <1>7, <3>1, LooksOn
  <2>2. YieldPending /\ ~waiting_for_op
    BY <2>1 DEF SourceSignalled, SourceAsleep
  <2>3. Signalled' \/ Bystands
    BY <1>7, ArbiterSignals
  <2>4. Signalled'
    BY <2>2, <2>3, BystandsKeeps DEF Signalled
  <2> QED BY <2>1, <2>2, <2>4 DEF Signalled
<1>8. UNCHANGED allVars => UNCHANGED vars /\ UNCHANGED <<loop, source>>
  BY DEF allVars, sourceVars
<1> QED BY <1>2, <1>3, <1>4, <1>5, <1>6, <1>7, <1>8, SourceCases DEF LoopStep

LEMMA SourceRefineInvariant == SourceSpec => [](RefineInv /\ SleepsSignalled)
BY SourceSteps, RefineInvariant, SleepsInvariant, PTL DEF SourceSpec

LEMMA SleepersSignalled ==
  ASSUME SleepsSignalled,
         (\E a \in Actors : Asleep(a)) \/ WaiterAsleep
  PROVE  YieldPending /\ ~waiting_for_op
<1>1. Sleeps /\ ~waiting_for_op
  BY DEF Asleep, WaiterAsleep, Sleeps
<1> QED BY <1>1 DEF SleepsSignalled, Signalled

\* Whoever waits in claim_op() or in condition_wait sleeps only while an operation
\* is in progress whose yield_op() will wake it, for every set of threads and for an
\* application that keeps its sources as well.
THEOREM ThreadsAreWoken ==
  SourceSpec => []((\E a \in Actors : Asleep(a)) \/ WaiterAsleep
                     => YieldPending /\ ~waiting_for_op)
<1>1. SleepsSignalled => ((\E a \in Actors : Asleep(a)) \/ WaiterAsleep
                            => YieldPending /\ ~waiting_for_op)
  BY SleepersSignalled
<1> QED BY <1>1, SourceRefineInvariant, PTL

\* Nobody is forgotten, neither a thread nor a source, by an application whose
\* callback makes a new source whenever it has to wait again.  (One that keeps its
\* source may sleep for ever: the child it keeps is not looked at again.)
THEOREM NobodyIsForgotten ==
  ASSUME ~Keeps
  PROVE  SourceSpec => []SleepersAreWoken
<1>1. SourceInit => SyncSignalled /\ NewSources /\ SourceSignalled
  BY DEF SourceInit, SyncSignalled, NewSources, SourceSignalled, SourceAsleep
<1>2. SourceTypeOK /\ NewSources /\ [SourceNext]_allVars => NewSources'
  BY NewSourcesStep
<1>3. RefineInv /\ SleepsSignalled /\ SyncSignalled /\ [SourceNext]_allVars => SyncSignalled'
  BY SyncStep
<1>4. /\ RefineInv /\ SleepsSignalled /\ SyncSignalled /\ SourceTypeOK /\ NewSources
      /\ SourceSignalled /\ [SourceNext]_allVars
      => SourceSignalled'
  BY SourceSignalledStep
<1>5. SleepsSignalled /\ SourceSignalled => SleepersAreWoken
  BY SleepersSignalled DEF SourceSignalled, SleepersAreWoken
<1> QED BY <1>1, <1>2, <1>3, <1>4, <1>5, SourceRefineInvariant, SourceTypesCorrect,
      PTL DEF SourceSpec
=============================================================================
