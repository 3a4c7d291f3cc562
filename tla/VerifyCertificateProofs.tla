----------------------- MODULE VerifyCertificateProofs -----------------------
(***************************************************************************)
(* Proofs about VerifyCertificate, for all certificates and both kinds of  *)
(* application.                                                            *)
(***************************************************************************)
EXTENDS VerifyCertificate, SequenceTheorems, TLAPS

Judging(t) == pc[t] \in {"accept", "emit", "store"}

\* Which thread is where: the thread of a handshake lives as long as the handshake;
\* app cranks for all of a blocking one; the certificate is judged by one thread
\* while the other one waits for it.
Phases ==
  /\ mode = "none" => /\ pc["worker"] = "idle" /\ sources = {}
                      /\ ~handshaking /\ ~need_finish_handshake
                      /\ pc["app"] \in {"loop", "out", "blocked"}
  /\ mode = "sync" => /\ pc["app"] \in {"prepare", "crank", "accept", "emit", "store"}
                      /\ pc["worker"] = "idle" => sources = {"completed"}
                      /\ ~need_finish_handshake /\ handshaking
  /\ mode = "async" => /\ pc["app"] \notin {"prepare", "crank"}
                       /\ need_finish_handshake <=> pc["worker"] = "idle"
                       /\ handshaking <=> pc["worker"] # "idle"
  /\ "completed" \in sources => mode = "sync" /\ pc["worker"] = "idle"
  /\ Judging("app") => pc["worker"] = "wait" /\ "verify" \notin sources
  /\ Judging("worker") => mode = "async" /\ owner = "worker" /\ "verify" \notin sources
  /\ owner = "worker" => Judging("worker")
  /\ "verify" \in sources => pc["worker"] = "wait"
  /\ pc["worker"] \in {"run", "invoke"} => sources = {}

\* The stack of contexts and the flag that says which one is on top of it.
Contexts ==
  /\ sync_handshake_in_progress <=> mode = "sync" /\ pc["app"] # "prepare"
  /\ stack = IF mode = "sync" /\ pc["app"] # "emit" THEN <<"main", "private">> ELSE <<"main">>
  /\ pc["app"] = "prepare" => mode = "sync"

\* app owns the context of its loop when it is in the loop or in a callback of it,
\* and always does if it does not leave.
Loops ==
  /\ application = "loops" => owner = "app" /\ pc["app"] # "out"
  /\ pc["app"] = "loop" \/ (Judging("app") /\ mode = "async") => owner = "app"
  /\ pc["app"] = "out" => owner # "app"

\* The fields of the certificate while a verdict is on its way.
Unexamined ==
  \/ pc["worker"] = "invoke" \/ Judging("worker") \/ Judging("app") \/ "verify" \in sources
Verdicts ==
  /\ peer_certificate_accepted => peer_certificate \in trusted \cup {NoCert}
  /\ Unexamined => ~peer_certificate_examined /\ ~peer_certificate_accepted
  /\ pc["worker"] = "wait" => Unexamined \/ peer_certificate_examined
  /\ (pc["app"] = "store" \/ pc["worker"] = "store") /\ answer =>
       verdict = "accepted" /\ presented \in trusted \cup {NoCert}
  /\ pc["worker"] = "wait" /\ peer_certificate_examined =>
       /\ peer_certificate = presented
       /\ peer_certificate_accepted =>
            verdict = "accepted" /\ presented \in trusted \cup {NoCert}

\* A finished handshake that succeeded and was not cut short.
Finished ==
  (pc["worker"] = "done" \/ (pc["worker"] = "idle" /\ mode # "none"))
  /\ ok /\ ~resumed /\ ~cut =>
    \/ presented = NoCert
    \/ peer_certificate = presented /\ presented \in trusted /\ verdict = "accepted"
Idle ==
  mode # "none" => ~established

VerifyInv ==
  /\ TypeOK /\ Phases /\ Contexts /\ Loops /\ Verdicts /\ Finished /\ Idle
  /\ EstablishedIsTrusted

-----------------------------------------------------------------------------
\* What pushing and popping the private context make of the two stacks there are.
LEMMA Stacks ==
  /\ Append(<<"main">>, "private") = <<"main", "private">>
  /\ Pop(<<"main", "private">>) = <<"main">>
  /\ <<"main", "private">> # <<"main">>
<1> DEFINE S == {"main", "private"}
           m == <<"main">>
           p == <<"main", "private">>
<1>1. /\ m \in Seq(S) /\ Len(m) = 1 /\ m[1] = "main"
      /\ p \in Seq(S) /\ Len(p) = 2 /\ p[1] = "main" /\ p[2] = "private"
  <2>1. m \in Seq(S)
    OBVIOUS
  <2>2. p \in Seq(S)
    OBVIOUS
  <2>3. Len(m) = 1 /\ m[1] = "main"
    OBVIOUS
  <2>4. Len(p) = 2
    OBVIOUS
  <2>5. p[1] = "main" /\ p[2] = "private"
    OBVIOUS
  <2> QED BY <2>1, <2>2, <2>3, <2>4, <2>5
<1>a. "main" \in S /\ "private" \in S
  OBVIOUS
<1> HIDE DEF S, m, p
<1>2. Append(m, "private") = p
  <2> DEFINE a == Append(m, "private")
  <2>1. /\ a \in Seq(S) /\ Len(a) = 2
        /\ \A i \in 1..Len(a) : a[i] = p[i]
    <3>1. a \in Seq(S) /\ Len(a) = Len(m) + 1 /\ a[Len(m) + 1] = "private"
          /\ \A i \in 1..Len(m) : a[i] = m[i]
      BY <1>1, <1>a, AppendProperties
    <3>2. Len(a) = 2 /\ a[2] = "private" /\ a[1] = m[1]
      BY <1>1, <3>1
    <3> QED BY <1>1, <3>1, <3>2
  <2> HIDE DEF a
  <2>2. a = p
    BY <1>1, <2>1, SeqEqual
  <2> QED BY <2>2 DEF a
<1>3. Pop(p) = m
  <2> DEFINE a == SubSeq(p, 1, 1)
  <2>1. /\ a \in Seq(S) /\ Len(a) = 1
        /\ \A i \in 1..Len(a) : a[i] = m[i]
    BY <1>1, SubSeqProperties
  <2>2. Len(p) - 1 = 1
    BY <1>1
  <2>3. Pop(p) = a
    BY <2>2 DEF Pop
  <2> HIDE DEF a
  <2> QED BY <1>1, <2>1, <2>3, SeqEqual
<1>4. p # m
  BY <1>1
<1> QED BY <1>2, <1>3, <1>4 DEF m, p

(***************************************************************************)
(* One lemma per action: it keeps every part of VerifyInv.  The parts are  *)
(* steps of their own because few actions disturb more than two of them.   *)
(***************************************************************************)
LEMMA LeaveLoopKeeps ==
  ASSUME VerifyInv, LeaveLoop
  PROVE  VerifyInv'
<1> USE DEF VerifyInv, LeaveLoop, Go, certVars, loopVars, flagVars, taskVars, pastVars
<1>1. TypeOK'
  BY DEF TypeOK, AppPCs, WorkerPCs
<1>2. Phases'
  BY DEF TypeOK, Phases, Loops, Judging
<1>3. Contexts'
  BY DEF Contexts
<1>4. Loops'
  BY DEF TypeOK, Loops, Judging
<1>5. Verdicts'
  BY DEF Verdicts, Unexamined, Judging
<1>6. Finished'
  BY DEF Finished
<1>7. Idle'
  BY DEF Idle
<1>8. EstablishedIsTrusted'
  BY DEF EstablishedIsTrusted
<1> QED BY <1>1, <1>2, <1>3, <1>4, <1>5, <1>6, <1>7, <1>8

LEMMA EnterLoopKeeps ==
  ASSUME VerifyInv, EnterLoop
  PROVE  VerifyInv'
<1> USE DEF VerifyInv, EnterLoop, Go, certVars, loopVars, flagVars, taskVars, pastVars
<1>1. TypeOK'
  BY DEF TypeOK, AppPCs, WorkerPCs
<1>2. Phases'
  BY DEF Phases, Judging
<1>3. Contexts'
  BY DEF Contexts
<1>4. Loops'
  BY DEF TypeOK, Loops, Judging
<1>5. Verdicts'
  BY DEF Verdicts, Unexamined, Judging
<1>6. Finished'
  BY DEF Finished
<1>7. Idle'
  BY DEF Idle
<1>8. EstablishedIsTrusted'
  BY DEF EstablishedIsTrusted
<1> QED BY <1>1, <1>2, <1>3, <1>4, <1>5, <1>6, <1>7, <1>8

\* A handshake starts from the fields the one before left: they only count once reset.
LEMMA StartKeeps ==
  ASSUME VerifyInv, NEW m \in {"sync", "async"}, Start(m)
  PROVE  VerifyInv'
<1> USE Stacks
<1> USE DEF VerifyInv, Start, Go, certVars, loopVars, flagVars, taskVars, pastVars
<1>1. TypeOK'
  BY DEF TypeOK, Contexts, AppPCs, WorkerPCs
<1>2. Phases'
  BY DEF TypeOK, Phases, Judging
<1>3. Contexts'
  BY DEF TypeOK, Contexts
<1>4. Loops'
  BY DEF TypeOK, Loops, Judging
<1>5. Verdicts'
  BY DEF TypeOK, Verdicts, Unexamined, Judging
<1>6. Finished'
  BY DEF TypeOK, Finished
<1>7. Idle'
  BY DEF Idle
<1>8. EstablishedIsTrusted'
  BY DEF EstablishedIsTrusted
<1> QED BY <1>1, <1>2, <1>3, <1>4, <1>5, <1>6, <1>7, <1>8

LEMMA CrankBeginsKeeps ==
  ASSUME VerifyInv, CrankBegins
  PROVE  VerifyInv'
<1> USE DEF VerifyInv, CrankBegins, Go, certVars, loopVars, flagVars, taskVars, pastVars
<1>1. TypeOK'
  BY DEF TypeOK, AppPCs, WorkerPCs
<1>2. Phases'
  BY DEF Phases, Judging
<1>3. Contexts'
  BY DEF TypeOK, Contexts
<1>4. Loops'
  BY DEF Loops, Judging
<1>5. Verdicts'
  BY DEF Verdicts, Unexamined, Judging
<1>6. Finished'
  BY DEF Finished
<1>7. Idle'
  BY DEF Idle
<1>8. EstablishedIsTrusted'
  BY DEF EstablishedIsTrusted
<1> QED BY <1>1, <1>2, <1>3, <1>4, <1>5, <1>6, <1>7, <1>8

LEMMA BlockingCallKeeps ==
  ASSUME VerifyInv, BlockingCall
  PROVE  VerifyInv'
<1> USE DEF VerifyInv, BlockingCall, Refused, Go, certVars, loopVars, flagVars, taskVars,
            pastVars
<1>1. TypeOK'
  BY DEF TypeOK, AppPCs, WorkerPCs
<1>2. Phases'
  BY DEF TypeOK, Phases, Judging
<1>3. Contexts'
  BY DEF TypeOK, Contexts
<1>4. Loops'
  BY DEF TypeOK, Loops, Judging
<1>5. Verdicts'
  BY DEF TypeOK, Phases, Loops, Verdicts, Unexamined, Judging
<1>6. Finished'
  BY DEF TypeOK, Finished
<1>7. Idle'
  BY DEF Idle
<1>8. EstablishedIsTrusted'
  BY DEF EstablishedIsTrusted
<1> QED BY <1>1, <1>2, <1>3, <1>4, <1>5, <1>6, <1>7, <1>8

LEMMA CallGoesOnKeeps ==
  ASSUME VerifyInv, CallGoesOn
  PROVE  VerifyInv'
<1> USE DEF VerifyInv, CallGoesOn, AtHome, Go, certVars, loopVars, flagVars, taskVars, pastVars
<1>1. TypeOK'
  BY DEF TypeOK, AppPCs, WorkerPCs
<1>2. Phases'
  BY DEF Phases, Judging
<1>3. Contexts'
  BY DEF Contexts
<1>4. Loops'
  BY DEF Loops, Judging
<1>5. Verdicts'
  BY DEF Verdicts, Unexamined, Judging
<1>6. Finished'
  BY DEF Finished
<1>7. Idle'
  BY DEF Idle
<1>8. EstablishedIsTrusted'
  BY DEF EstablishedIsTrusted
<1> QED BY <1>1, <1>2, <1>3, <1>4, <1>5, <1>6, <1>7, <1>8

LEMMA VerifyDispatchedKeeps ==
  ASSUME VerifyInv, VerifyDispatched
  PROVE  VerifyInv'
<1> USE DEF VerifyInv, VerifyDispatched, Dispatch, Go, certVars, loopVars, flagVars, taskVars,
            pastVars
<1>1. TypeOK'
  BY DEF TypeOK, AppPCs, WorkerPCs
<1>2. Phases'
  BY DEF Phases, Judging
<1>3. Contexts'
  BY DEF Contexts
<1>4. Loops'
  BY DEF Loops, Judging
<1>5. Verdicts'
  BY DEF TypeOK, Verdicts, Unexamined, Judging
<1>6. Finished'
  BY DEF Finished
<1>7. Idle'
  BY DEF Idle
<1>8. EstablishedIsTrusted'
  BY DEF EstablishedIsTrusted
<1> QED BY <1>1, <1>2, <1>3, <1>4, <1>5, <1>6, <1>7, <1>8

LEMMA JudgedByRulesKeeps ==
  ASSUME VerifyInv, NEW t \in {"app", "worker"}, JudgedByRules(t)
  PROVE  VerifyInv'
<1> USE CertsAssumption
<1> USE DEF VerifyInv, JudgedByRules, Judge, Go, certVars, loopVars, flagVars, taskVars,
            pastVars
<1>1. TypeOK'
  BY DEF TypeOK, AppPCs, WorkerPCs
<1>2. Phases'
  BY DEF Phases, Judging
<1>3. Contexts'
  BY DEF Contexts
<1>4. Loops'
  BY DEF Loops, Judging
<1>5. Verdicts'
  BY DEF Verdicts, Unexamined, Judging
<1>6. Finished'
  BY DEF Finished
<1>7. Idle'
  BY DEF Idle
<1>8. EstablishedIsTrusted'
  BY DEF EstablishedIsTrusted
<1> QED BY <1>1, <1>2, <1>3, <1>4, <1>5, <1>6, <1>7, <1>8

LEMMA AskApplicationKeeps ==
  ASSUME VerifyInv, NEW t \in {"app", "worker"}, AskApplication(t)
  PROVE  VerifyInv'
<1> USE Stacks
<1> USE DEF VerifyInv, AskApplication, Go, certVars, loopVars, flagVars, taskVars, pastVars
<1>1. TypeOK'
  BY DEF TypeOK, Phases, Contexts, AppPCs, WorkerPCs, Judging
<1>2. Phases'
  BY DEF Phases, Judging
<1>3. Contexts'
  BY DEF TypeOK, Phases, Contexts, Judging
<1>4. Loops'
  BY DEF Loops, Judging
<1>5. Verdicts'
  BY DEF Verdicts, Unexamined, Judging
<1>6. Finished'
  BY DEF Finished
<1>7. Idle'
  BY DEF Idle
<1>8. EstablishedIsTrusted'
  BY DEF EstablishedIsTrusted
<1> QED BY <1>1, <1>2, <1>3, <1>4, <1>5, <1>6, <1>7, <1>8

LEMMA ApplicationAnswersKeeps ==
  ASSUME VerifyInv, NEW t \in {"app", "worker"}, ApplicationAnswers(t)
  PROVE  VerifyInv'
<1> USE Stacks, CertsAssumption
<1> USE DEF VerifyInv, ApplicationAnswers, Judge, Go, certVars, loopVars, flagVars, taskVars,
            pastVars
<1>1. TypeOK'
  BY DEF TypeOK, Phases, Contexts, AppPCs, WorkerPCs, Judging
<1>2. Phases'
  BY DEF Phases, Judging
<1>3. Contexts'
  BY DEF TypeOK, Phases, Contexts, Judging
<1>4. Loops'
  BY DEF Loops, Judging
<1>5. Verdicts'
  BY DEF Verdicts, Unexamined, Judging
<1>6. Finished'
  BY DEF TypeOK, Phases, Finished, Judging
<1>7. Idle'
  BY DEF Idle
<1>8. EstablishedIsTrusted'
  BY DEF EstablishedIsTrusted
<1> QED BY <1>1, <1>2, <1>3, <1>4, <1>5, <1>6, <1>7, <1>8

\* The fields now belong to this handshake's certificate.
LEMMA StoreAnswerKeeps ==
  ASSUME VerifyInv, NEW t \in {"app", "worker"}, StoreAnswer(t)
  PROVE  VerifyInv'
<1> USE CertsAssumption
<1> USE DEF VerifyInv, StoreAnswer, Go, certVars, loopVars, flagVars, taskVars, pastVars
<1>1. TypeOK'
  BY DEF TypeOK, AppPCs, WorkerPCs
<1>2. Phases'
  BY DEF TypeOK, Phases, Judging
<1>3. Contexts'
  BY DEF Contexts
<1>4. Loops'
  BY DEF TypeOK, Phases, Loops, Judging
<1>5. Verdicts'
  BY DEF TypeOK, Phases, Verdicts, Unexamined, Judging
<1>6. Finished'
  BY DEF Finished
<1>7. Idle'
  BY DEF Idle
<1>8. EstablishedIsTrusted'
  BY DEF TypeOK, Phases, Idle, EstablishedIsTrusted, Judging
<1> QED BY <1>1, <1>2, <1>3, <1>4, <1>5, <1>6, <1>7, <1>8

\* The reset: from here to the answer nothing is accepted and nothing examined.
LEMMA VerifyBeginsKeeps ==
  ASSUME VerifyInv, VerifyBegins
  PROVE  VerifyInv'
<1> USE DEF VerifyInv, VerifyBegins, Go, certVars, loopVars, flagVars, taskVars, pastVars
<1>1. TypeOK'
  <2>1. /\ pc' \in [{"app", "worker"} -> AppPCs \cup WorkerPCs]
        /\ pc'["app"] \in AppPCs /\ pc'["worker"] \in WorkerPCs
    BY DEF TypeOK, AppPCs, WorkerPCs
  <2>2. sources' \subseteq {"verify", "completed"} /\ owner' \in {"nobody", "app", "worker"}
    BY DEF TypeOK
  <2>3. /\ peer_certificate_accepted' \in BOOLEAN /\ peer_certificate_examined' \in BOOLEAN
        /\ handshaking' \in BOOLEAN /\ need_finish_handshake' \in BOOLEAN
        /\ handshake_error' \in BOOLEAN
    BY DEF TypeOK
  <2> QED BY <2>1, <2>2, <2>3 DEF TypeOK
<1>2. Phases'
  BY DEF Phases, Judging
<1>3. Contexts'
  BY DEF Contexts
<1>4. Loops'
  BY DEF Loops, Judging
<1>5. Verdicts'
  BY DEF Verdicts, Unexamined, Judging
<1>6. Finished'
  BY DEF Finished
<1>7. Idle'
  BY DEF Idle
<1>8. EstablishedIsTrusted'
  BY DEF EstablishedIsTrusted
<1> QED BY <1>1, <1>2, <1>3, <1>4, <1>5, <1>6, <1>7, <1>8

LEMMA HandshakeEndsKeeps ==
  ASSUME VerifyInv, HandshakeEnds
  PROVE  VerifyInv'
<1> USE DEF VerifyInv, HandshakeEnds, Go, certVars, loopVars, flagVars, taskVars, pastVars
<1>1. TypeOK'
  BY DEF TypeOK, AppPCs, WorkerPCs
<1>2. Phases'
  BY DEF Phases, Judging
<1>3. Contexts'
  BY DEF Contexts
<1>4. Loops'
  BY DEF Loops, Judging
<1>5. Verdicts'
  BY DEF Verdicts, Unexamined, Judging
<1>6. Finished'
  BY DEF Finished
<1>7. Idle'
  BY DEF Idle
<1>8. EstablishedIsTrusted'
  BY DEF TypeOK, Phases, Idle, EstablishedIsTrusted, Judging
<1> QED BY <1>1, <1>2, <1>3, <1>4, <1>5, <1>6, <1>7, <1>8

\* Either the source is queued, or the worker owns the default context and judges itself.
LEMMA InvokeKeeps ==
  ASSUME VerifyInv, Invoke
  PROVE  VerifyInv'
<1> USE DEF VerifyInv, Invoke, Go, certVars, loopVars, flagVars, taskVars, pastVars
<1>1. TypeOK'
  <2>1. /\ pc' \in [{"app", "worker"} -> AppPCs \cup WorkerPCs]
        /\ pc'["app"] \in AppPCs /\ pc'["worker"] \in WorkerPCs
    BY DEF TypeOK, AppPCs, WorkerPCs
  <2>2. sources' \subseteq {"verify", "completed"} /\ owner' \in {"nobody", "app", "worker"}
    BY DEF TypeOK
  <2>3. /\ peer_certificate_accepted' \in BOOLEAN /\ peer_certificate_examined' \in BOOLEAN
        /\ handshaking' \in BOOLEAN /\ need_finish_handshake' \in BOOLEAN
        /\ handshake_error' \in BOOLEAN
    BY DEF TypeOK
  <2> QED BY <2>1, <2>2, <2>3 DEF TypeOK
<1>2. Phases'
  BY DEF TypeOK, Phases, Judging
<1>3. Contexts'
  BY DEF TypeOK, Contexts
<1>4. Loops'
  BY DEF TypeOK, Loops, Judging
<1>5. Verdicts'
  BY DEF TypeOK, Verdicts, Unexamined, Judging
<1>6. Finished'
  BY DEF TypeOK, Finished
<1>7. Idle'
  BY DEF Idle
<1>8. EstablishedIsTrusted'
  BY DEF EstablishedIsTrusted
<1> QED BY <1>1, <1>2, <1>3, <1>4, <1>5, <1>6, <1>7, <1>8

\* The worker takes from the fields what StoreAnswer has left there.
LEMMA VerifyEndsKeeps ==
  ASSUME VerifyInv, VerifyEnds
  PROVE  VerifyInv'
<1> USE DEF VerifyInv, VerifyEnds, Go, certVars, loopVars, flagVars, taskVars, pastVars
<1>1. TypeOK'
  BY DEF TypeOK, AppPCs, WorkerPCs
<1>2. Phases'
  BY DEF TypeOK, Phases, Verdicts, Judging, Unexamined
<1>3. Contexts'
  BY DEF Contexts
<1>4. Loops'
  BY DEF Loops, Judging
<1>5. Verdicts'
  BY DEF Verdicts, Unexamined, Judging
<1>6. Finished'
  BY DEF TypeOK, Phases, Verdicts, Finished, Judging, Unexamined
<1>7. Idle'
  BY DEF Idle
<1>8. EstablishedIsTrusted'
  BY DEF EstablishedIsTrusted
<1> QED BY <1>1, <1>2, <1>3, <1>4, <1>5, <1>6, <1>7, <1>8

\* The handshake thread goes; its result stays behind for app.
LEMMA ThreadReturnsKeeps ==
  ASSUME VerifyInv, ThreadReturns
  PROVE  VerifyInv'
<1> USE DEF VerifyInv, ThreadReturns, Go, certVars, loopVars, flagVars, taskVars, pastVars
<1>1. TypeOK'
  <2>1. /\ pc' \in [{"app", "worker"} -> AppPCs \cup WorkerPCs]
        /\ pc'["app"] \in AppPCs /\ pc'["worker"] \in WorkerPCs
    BY DEF TypeOK, AppPCs, WorkerPCs
  <2>2. sources' \subseteq {"verify", "completed"} /\ owner' \in {"nobody", "app", "worker"}
    BY DEF TypeOK
  <2>3. /\ peer_certificate_accepted' \in BOOLEAN /\ peer_certificate_examined' \in BOOLEAN
        /\ handshaking' \in BOOLEAN /\ need_finish_handshake' \in BOOLEAN
        /\ handshake_error' \in BOOLEAN
    BY DEF TypeOK
  <2> QED BY <2>1, <2>2, <2>3 DEF TypeOK
<1>2. Phases'
  <2>1. sources = {} /\ pc'["worker"] = "idle" /\ pc'["app"] = pc["app"] /\ mode' = mode
        /\ ~Judging("app") /\ ~Judging("worker") /\ owner' = owner
    BY DEF TypeOK, Phases, Judging
  <2>2. ~Judging("app")' /\ ~Judging("worker")' /\ owner # "worker"
    BY <2>1 DEF Judging, Phases
  <2>3. CASE mode = "sync"
    BY <2>1, <2>2, <2>3 DEF Phases, TypeOK
  <2>4. CASE mode = "async"
    BY <2>1, <2>2, <2>4 DEF Phases, TypeOK
  <2> QED BY <2>3, <2>4 DEF TypeOK, Phases
<1>3. Contexts'
  BY DEF Contexts
<1>4. Loops'
  BY DEF Loops, Judging
<1>5. Verdicts'
  BY DEF Verdicts, Unexamined, Judging
<1>6. Finished'
  BY DEF Finished
<1>7. Idle'
  BY DEF Idle
<1>8. EstablishedIsTrusted'
  BY DEF EstablishedIsTrusted
<1> QED BY <1>1, <1>2, <1>3, <1>4, <1>5, <1>6, <1>7, <1>8

\* A handshake that is finished was verified, resumed or without certificate.
LEMMA SyncFinishKeeps ==
  ASSUME VerifyInv, SyncFinish
  PROVE  VerifyInv'
<1> USE Stacks, CertsAssumption
<1> USE DEF VerifyInv, SyncFinish, FinishHandshake, Dispatch, AtHome, Go, certVars, loopVars,
            flagVars, taskVars, pastVars
<1>1. TypeOK'
  BY DEF TypeOK, Contexts, AppPCs, WorkerPCs
<1>2. Phases'
  BY DEF TypeOK, Phases, Judging
<1>3. Contexts'
  BY DEF Contexts
<1>4. Loops'
  BY DEF Loops, Judging
<1>5. Verdicts'
  BY DEF TypeOK, Phases, Verdicts, Unexamined, Judging
<1>6. Finished'
  BY DEF Finished
<1>7. Idle'
  BY DEF Idle
<1>8. EstablishedIsTrusted'
  BY DEF Phases, Verdicts, Finished, Idle, EstablishedIsTrusted, Judging, Unexamined
<1> QED BY <1>1, <1>2, <1>3, <1>4, <1>5, <1>6, <1>7, <1>8

\* The same for a polled one.
LEMMA AsyncFinishKeeps ==
  ASSUME VerifyInv, AsyncFinish
  PROVE  VerifyInv'
<1> USE CertsAssumption
<1> USE DEF VerifyInv, AsyncFinish, FinishHandshake, Go, certVars, loopVars, flagVars,
            taskVars, pastVars
<1>1. TypeOK'
  <2>1. /\ peer_certificate' \in Certs \cup {NoCert}
        /\ peer_certificate_accepted' \in BOOLEAN /\ peer_certificate_examined' \in BOOLEAN
        /\ trusted' \subseteq Certs
        /\ established' \in BOOLEAN /\ handshake_error' \in BOOLEAN
    BY DEF TypeOK
  <2>2. /\ mode' \in {"none", "sync", "async"} /\ need_finish_handshake' \in BOOLEAN
        /\ pc' \in [{"app", "worker"} -> AppPCs \cup WorkerPCs]
        /\ pc'["app"] \in AppPCs /\ pc'["worker"] \in WorkerPCs
    BY DEF TypeOK
  <2> QED BY <2>1, <2>2 DEF TypeOK
<1>2. Phases'
  BY DEF TypeOK, Phases, Judging
<1>3. Contexts'
  BY DEF TypeOK, Phases, Contexts, Judging
<1>4. Loops'
  BY DEF Loops, Judging
<1>5. Verdicts'
  BY DEF TypeOK, Phases, Verdicts, Unexamined, Judging
<1>6. Finished'
  BY DEF Finished
<1>7. Idle'
  BY DEF Idle
<1>8. EstablishedIsTrusted'
  BY DEF TypeOK, Phases, Contexts, Loops, Verdicts, Finished, Idle, EstablishedIsTrusted,
         Judging, Unexamined, AppPCs, WorkerPCs
<1> QED BY <1>1, <1>2, <1>3, <1>4, <1>5, <1>6, <1>7, <1>8

LEMMA InitInv == Init => VerifyInv
<1> SUFFICES ASSUME Init PROVE VerifyInv
  OBVIOUS
<1> USE DEF Init
<1>1. TypeOK
  BY DEF TypeOK, AppPCs, WorkerPCs
<1>2. Phases /\ Contexts /\ Loops
  BY Stacks DEF Phases, Contexts, Loops, Judging
<1>3. Verdicts /\ Finished /\ Idle /\ EstablishedIsTrusted
  BY DEF Verdicts, Finished, Idle, EstablishedIsTrusted, Unexamined, Judging
<1> QED BY <1>1, <1>2, <1>3 DEF VerifyInv

LEMMA NextKeeps == VerifyInv /\ [Next]_vars => VerifyInv'
<1> SUFFICES ASSUME VerifyInv, [Next]_vars PROVE VerifyInv'
  OBVIOUS
<1>1. CASE LeaveLoop \/ EnterLoop \/ BlockingCall \/ AsyncFinish
  BY <1>1, LeaveLoopKeeps, EnterLoopKeeps, BlockingCallKeeps, AsyncFinishKeeps
<1>2. CASE \E m \in {"sync", "async"} : Start(m)
  BY <1>2, StartKeeps
<1>3. ASSUME NEW t \in {"app", "worker"}, Accept(t)
      PROVE  VerifyInv'
  BY <1>3, JudgedByRulesKeeps, AskApplicationKeeps, ApplicationAnswersKeeps, StoreAnswerKeeps
     DEF Accept
<1>4. CASE AppRuns
  BY <1>3, <1>4, CrankBeginsKeeps, VerifyDispatchedKeeps, SyncFinishKeeps, CallGoesOnKeeps
     DEF AppRuns
<1>5. CASE WorkerRuns
  BY <1>3, <1>5, VerifyBeginsKeeps, HandshakeEndsKeeps, InvokeKeeps, VerifyEndsKeeps,
     ThreadReturnsKeeps DEF WorkerRuns
<1>6. CASE UNCHANGED vars
  BY <1>6 DEF vars, certVars, loopVars, flagVars, taskVars, pastVars, VerifyInv, TypeOK, Phases,
     Contexts, Loops, Verdicts, Finished, Idle, EstablishedIsTrusted, Judging, Unexamined
<1> QED BY <1>1, <1>2, <1>4, <1>5, <1>6 DEF Next

\* The invariant of the hand-over.
THEOREM VerifyInvariant == Spec => []VerifyInv
<1>1. Init => VerifyInv
  BY InitInv
<1>2. VerifyInv /\ [Next]_vars => VerifyInv'
  BY NextKeeps
<1> QED BY <1>1, <1>2, PTL DEF Spec

\* The fields keep their types, the stack of thread-default contexts among them: it
\* never holds the private context twice and is never popped when it is not there.
THEOREM VerifyTypeCorrect == Spec => []TypeOK
<1>1. VerifyInv => TypeOK
  BY DEF VerifyInv
<1> QED BY <1>1, VerifyInvariant, PTL

\* A handshake thread succeeds only on the verdict about its own handshake's
\* certificate.
THEOREM VerdictsAreCurrent == Spec => []VerdictIsCurrent
<1>1. VerifyInv => VerdictIsCurrent
  BY DEF VerifyInv, Finished, VerdictIsCurrent
<1> QED BY <1>1, VerifyInvariant, PTL

\* A handshake that succeeded leaves an accepted certificate, the peer's own.
THEOREM EstablishedTrusted == Spec => []EstablishedIsTrusted
<1>1. VerifyInv => EstablishedIsTrusted
  BY DEF VerifyInv
<1> QED BY <1>1, VerifyInvariant, PTL

\* accept-certificate is emitted on the thread of the application, if that does not
\* leave its loop, and never with the private context on top of its stack.
THEOREM EmittedOnOriginalThread == Spec => []EmittedToApplication
<1>1. VerifyInv => EmittedToApplication
  BY DEF VerifyInv, TypeOK, Phases, Contexts, Loops, Judging, EmittedToApplication
<1> QED BY <1>1, VerifyInvariant, PTL

\* A handshake leaves the application's stack of contexts as it was.
THEOREM StacksRestored == Spec => []StackRestored
<1>1. VerifyInv => StackRestored
  BY DEF VerifyInv, Contexts, StackRestored
<1> QED BY <1>1, VerifyInvariant, PTL
=============================================================================
