------------------------- MODULE VerifyCertificate -------------------------
(***************************************************************************)
(* How the handshake thread has the peer's certificate judged by the       *)
(* application: tls/base/gtlsconnection-base.c, from                       *)
(* g_tls_connection_base_handshake_thread_verify_certificate() and         *)
(* accept_or_reject_peer_certificate() to finish_handshake().              *)
(*                                                                         *)
(* Two threads: "app", which starts the handshake, blocking or polled, and *)
(* "worker", the handshake thread.  The certificate is judged in the       *)
(* handshake context: a private one that app cranks if the handshake is    *)
(* blocking, the context of app's main loop if it is polled.  An action is *)
(* a critical section of verify_certificate_mutex or op_mutex, or the      *)
(* statements between two of them.                                         *)
(***************************************************************************)
EXTENDS Integers, Sequences

CONSTANTS
  Certs,         \* certificates a peer may present
  NoCert,        \* none
  Applications   \* which of the two below are of interest

\* An application either runs its main loop for good and makes its calls from
\* there, or enters and leaves the loop and calls from outside as well.
ASSUME CertsAssumption == NoCert \notin Certs
ASSUME ApplicationsAssumption == Applications \subseteq {"loops", "leaves"}

VARIABLES
  application,
  pc,                          \* where app and worker are
  mode,                        \* "sync" or "async" while a handshake has a context
  owner,                       \* the thread that owns the context of the main loop
  stack,                       \* app's stack of thread-default contexts
  sources,                     \* what is attached to the handshake context
  sync_handshake_in_progress,
  peer_certificate, peer_certificate_accepted, peer_certificate_examined,
  handshaking, need_finish_handshake, handshake_error,
  answer,                      \* accepted, in accept_or_reject_peer_certificate()
  ok,                          \* what the handshake thread returned
  cut,                         \* the library stopped before its handshake was complete
  presented,                   \* the peer's certificate in this handshake
  resumed,                     \* is_session_resumed()
  established,                 \* the last handshake succeeded
  trusted,                     \* certificates somebody accepted (history)
  verdict                      \* the answer given in this handshake (history)

certVars == <<peer_certificate, peer_certificate_accepted, peer_certificate_examined>>
loopVars == <<application, owner>>
flagVars == <<handshaking, need_finish_handshake, handshake_error>>
taskVars == <<ok, cut, presented, resumed>>
pastVars == <<established, trusted, verdict>>
vars == <<pc, mode, stack, sources, sync_handshake_in_progress, answer,
          certVars, loopVars, flagVars, taskVars, pastVars>>

AppPCs    == {"loop", "out", "prepare", "crank", "accept", "emit", "store", "blocked"}
WorkerPCs == {"idle", "run", "invoke", "accept", "emit", "store", "wait", "done"}

TypeOK ==
  /\ application \in Applications
  /\ pc \in [{"app", "worker"} -> AppPCs \cup WorkerPCs]
  /\ pc["app"] \in AppPCs /\ pc["worker"] \in WorkerPCs
  /\ mode \in {"none", "sync", "async"}
  /\ owner \in {"nobody", "app", "worker"}
  /\ stack \in {<<"main">>, <<"main", "private">>}
  /\ sources \subseteq {"verify", "completed"}
  /\ sync_handshake_in_progress \in BOOLEAN
  /\ peer_certificate \in Certs \cup {NoCert}
  /\ peer_certificate_accepted \in BOOLEAN /\ peer_certificate_examined \in BOOLEAN
  /\ handshaking \in BOOLEAN /\ need_finish_handshake \in BOOLEAN
  /\ handshake_error \in BOOLEAN
  /\ answer \in BOOLEAN /\ ok \in BOOLEAN /\ cut \in BOOLEAN /\ resumed \in BOOLEAN
  /\ presented \in Certs \cup {NoCert}
  /\ established \in BOOLEAN
  /\ trusted \subseteq Certs
  /\ verdict \in {"none", "accepted", "rejected"}

Init ==
  /\ application \in Applications
  /\ pc = [t \in {"app", "worker"} |-> IF t = "app" THEN "loop" ELSE "idle"]
  /\ mode = "none"
  /\ owner = "app"
  /\ stack = <<"main">>
  /\ sources = {}
  /\ sync_handshake_in_progress = FALSE
  /\ peer_certificate = NoCert
  /\ peer_certificate_accepted = FALSE /\ peer_certificate_examined = FALSE
  /\ handshaking = FALSE /\ need_finish_handshake = FALSE /\ handshake_error = FALSE
  /\ answer = FALSE /\ ok = FALSE /\ cut = FALSE /\ resumed = FALSE
  /\ presented = NoCert
  /\ established = FALSE
  /\ trusted = {}
  /\ verdict = "none"

Pop(s) == SubSeq(s, 1, Len(s) - 1)
Go(t, where) == pc' = [pc EXCEPT ![t] = where]

\* Where app goes on: outside if it does not own its main loop's context.
AtHome == IF owner = "app" THEN "loop" ELSE "out"

-----------------------------------------------------------------------------
(***************************************************************************)
(* The application: its main loop, and the start of a handshake.           *)
(***************************************************************************)
LeaveLoop ==
  /\ application = "leaves"
  /\ pc["app"] = "loop"
  /\ owner' = "nobody"
  /\ Go("app", "out")
  /\ UNCHANGED <<application, mode, stack, sources, sync_handshake_in_progress, answer,
                 certVars, flagVars, taskVars, pastVars>>

EnterLoop ==
  /\ pc["app"] = "out"
  /\ owner = "nobody"
  /\ owner' = "app"
  /\ Go("app", "loop")
  /\ UNCHANGED <<application, mode, stack, sources, sync_handshake_in_progress, answer,
                 certVars, flagVars, taskVars, pastVars>>

\* do_implicit_handshake, up to g_task_run_in_thread.  What the peer will present
\* and whether the session is a resumed one is settled here.
Start(m) ==
  /\ pc["app"] \in {"loop", "out"}
  /\ mode = "none" /\ ~handshake_error
  /\ mode' = m
  /\ handshaking' = TRUE
  /\ stack' = IF m = "sync" THEN Append(stack, "private") ELSE stack
  /\ pc' = [pc EXCEPT !["app"] = IF m = "sync" THEN "prepare" ELSE @, !["worker"] = "run"]
  /\ presented' \in Certs \cup {NoCert}
  /\ resumed' \in BOOLEAN
  /\ cut' = FALSE
  /\ established' = FALSE
  /\ verdict' = "none"
  /\ UNCHANGED <<sources, sync_handshake_in_progress, answer, certVars, loopVars,
                 need_finish_handshake, handshake_error, ok, trusted>>

\* crank_sync_handshake_context, after the handshake thread was started.
CrankBegins ==
  /\ pc["app"] = "prepare"
  /\ sync_handshake_in_progress' = TRUE
  /\ Go("app", "crank")
  /\ UNCHANGED <<mode, stack, sources, answer, certVars, loopVars, flagVars, taskVars, pastVars>>

\* Mutant: only callers without a loop of their own are refused.
RefusedInCrank == handshaking /\ mode = "sync"

\* g_main_context_is_owner (priv->handshake_context), asked by app.
Refused == handshaking /\ (mode = "sync" \/ owner = "app")

\* A blocking operation of app, in a callback of its loop, in its handler of
\* accept-certificate or outside: refused, which changes nothing, or it waits for
\* the handshake.
BlockingCall ==
  /\ pc["app"] \in {"loop", "out", "emit"}
  /\ handshaking
  /\ IF Refused THEN UNCHANGED pc ELSE Go("app", "blocked")
  /\ UNCHANGED <<mode, stack, sources, sync_handshake_in_progress, answer,
                 certVars, loopVars, flagVars, taskVars, pastVars>>

CallGoesOn ==
  /\ pc["app"] = "blocked"
  /\ ~handshaking
  /\ Go("app", AtHome)
  /\ UNCHANGED <<mode, stack, sources, sync_handshake_in_progress, answer,
                 certVars, loopVars, flagVars, taskVars, pastVars>>

-----------------------------------------------------------------------------
(***************************************************************************)
(* accept_or_reject_peer_certificate(), run by thread t.                   *)
(***************************************************************************)
\* A source of the handshake context is dispatched.
Dispatch(source) ==
  /\ \/ pc["app"] = "crank" /\ mode = "sync"
     \/ pc["app"] = "loop" /\ mode = "async"
  /\ source \in sources
  /\ sources' = sources \ {source}

VerifyDispatched ==
  /\ Dispatch("verify")
  /\ Go("app", "accept")
  /\ UNCHANGED <<mode, stack, sync_handshake_in_progress, answer, certVars, loopVars,
                 flagVars, taskVars, pastVars>>

\* Somebody has judged the certificate.
Judge(accepted) ==
  /\ answer' = accepted
  /\ verdict' = IF accepted THEN "accepted" ELSE "rejected"
  /\ trusted' = IF accepted /\ presented # NoCert THEN trusted \cup {presented} ELSE trusted
  /\ UNCHANGED established

\* The certificate is good enough for the validation flags of a client, or there is
\* none, which a pre-shared key or a server's authentication mode may allow.
JudgedByRules(t) ==
  /\ pc[t] = "accept"
  /\ \E accepted \in BOOLEAN :
       /\ presented # NoCert => accepted
       /\ Judge(accepted)
  /\ Go(t, "store")
  /\ UNCHANGED <<mode, stack, sources, sync_handshake_in_progress, certVars, loopVars,
                 flagVars, taskVars>>

\* Mutant: the private context stays in place.
AskInContext(t) ==
  /\ pc[t] = "accept"
  /\ presented # NoCert
  /\ Go(t, "emit")
  /\ UNCHANGED <<mode, stack, sources, sync_handshake_in_progress, answer, certVars,
                 loopVars, flagVars, taskVars, pastVars>>

\* It is not, and the application is asked.
AskApplication(t) ==
  /\ pc[t] = "accept"
  /\ presented # NoCert
  /\ stack' = IF sync_handshake_in_progress THEN Pop(stack) ELSE stack
  /\ Go(t, "emit")
  /\ UNCHANGED <<mode, sources, sync_handshake_in_progress, answer, certVars, loopVars,
                 flagVars, taskVars, pastVars>>

\* The handlers of accept-certificate have returned.
ApplicationAnswers(t) ==
  /\ pc[t] = "emit"
  /\ \E accepted \in BOOLEAN : Judge(accepted)
  /\ stack' = IF sync_handshake_in_progress THEN Append(stack, "private") ELSE stack
  /\ Go(t, "store")
  /\ UNCHANGED <<mode, sources, sync_handshake_in_progress, certVars, loopVars, flagVars,
                 taskVars>>

\* The answer is stored under the mutex and the condition is signalled.  A worker
\* that ran all this itself gives the context back.
StoreAnswer(t) ==
  /\ pc[t] = "store"
  /\ peer_certificate_accepted' = answer
  /\ peer_certificate' = presented
  /\ peer_certificate_examined' = TRUE
  /\ Go(t, IF t = "worker" THEN "wait" ELSE IF mode = "sync" THEN "crank" ELSE "loop")
  /\ owner' = IF t = "worker" THEN "nobody" ELSE owner
  /\ UNCHANGED <<application, mode, stack, sources, sync_handshake_in_progress, answer,
                 flagVars, taskVars, pastVars>>

-----------------------------------------------------------------------------
(***************************************************************************)
(* The handshake thread.                                                   *)
(***************************************************************************)
\* Mutant: nothing is reset.
VerifyBeginsUnreset ==
  /\ pc["worker"] = "run"
  /\ Go("worker", "invoke")
  /\ UNCHANGED <<mode, stack, sources, sync_handshake_in_progress, answer, certVars,
                 loopVars, flagVars, taskVars, pastVars>>

\* The backend wants the certificate verified.
VerifyBegins ==
  /\ pc["worker"] = "run"
  /\ peer_certificate_accepted' = FALSE
  /\ peer_certificate_examined' = FALSE
  /\ Go("worker", "invoke")
  /\ UNCHANGED <<mode, stack, sources, sync_handshake_in_progress, answer, peer_certificate,
                 loopVars, flagVars, taskVars, pastVars>>

\* The handshake ends without that: it fails, the session is a resumed one, or no
\* certificate is involved.  Or it is cut short, by an end of the stream that is no
\* error without require-close-notify, or by a datagram that did not come while the
\* caller had no limit: handshake_thread() asks for an error alone, and there is none.
HandshakeEnds ==
  /\ pc["worker"] = "run"
  /\ ok' \in BOOLEAN /\ cut' \in BOOLEAN
  /\ ok' => resumed \/ presented = NoCert \/ cut'
  /\ Go("worker", "done")
  /\ UNCHANGED <<mode, stack, sources, sync_handshake_in_progress, answer, certVars,
                 loopVars, flagVars, presented, resumed, pastVars>>

\* g_main_context_invoke() calls the function directly if nobody owns the context
\* and it is the default context, which is the thread-default one of a worker, and
\* attaches a source otherwise.
Invoke ==
  /\ pc["worker"] = "invoke"
  /\ IF mode = "async" /\ owner = "nobody"
       THEN owner' = "worker" /\ Go("worker", "accept") /\ UNCHANGED sources
       ELSE sources' = sources \cup {"verify"} /\ Go("worker", "wait") /\ UNCHANGED owner
  /\ UNCHANGED <<application, mode, stack, sync_handshake_in_progress, answer, certVars,
                 flagVars, taskVars, pastVars>>

\* Mutant: the answer in the sense of the other library.
VerifyEndsNegated ==
  /\ pc["worker"] = "wait"
  /\ peer_certificate_examined
  /\ ok' \in BOOLEAN
  /\ ok' => ~peer_certificate_accepted
  /\ Go("worker", "done")
  /\ UNCHANGED <<mode, stack, sources, sync_handshake_in_progress, answer, certVars,
                 loopVars, flagVars, cut, presented, resumed, pastVars>>

\* The wait for the condition is over.  A certificate that was not accepted fails
\* the handshake, one that was may still see it fail.
VerifyEnds ==
  /\ pc["worker"] = "wait"
  /\ peer_certificate_examined
  /\ ok' \in BOOLEAN
  /\ ok' => peer_certificate_accepted
  /\ Go("worker", "done")
  /\ UNCHANGED <<mode, stack, sources, sync_handshake_in_progress, answer, certVars,
                 loopVars, flagVars, cut, presented, resumed, pastVars>>

\* The thread of a blocking handshake attaches the completion of its task; that of
\* a polled one leaves need_finish_handshake behind.
ThreadReturns ==
  /\ pc["worker"] = "done"
  /\ Go("worker", "idle")
  /\ IF mode = "sync"
       THEN sources' = sources \cup {"completed"} /\ UNCHANGED flagVars
       ELSE /\ need_finish_handshake' = TRUE
            /\ handshaking' = FALSE
            /\ UNCHANGED <<sources, handshake_error>>
  /\ UNCHANGED <<mode, stack, sync_handshake_in_progress, answer, certVars, loopVars,
                 taskVars, pastVars>>

-----------------------------------------------------------------------------
(***************************************************************************)
(* The end of the handshake, on app.                                       *)
(***************************************************************************)
\* finish_handshake.  The certificate of a resumed session was accepted when the
\* session was made.
FinishHandshake ==
  LET certificate == IF ok /\ resumed THEN presented ELSE peer_certificate
      accepted    == (ok /\ resumed) \/ peer_certificate_accepted
      success     == ok /\ (certificate # NoCert => accepted)
  IN  /\ peer_certificate' = certificate
      /\ peer_certificate_accepted' = accepted
      /\ peer_certificate_examined' = ((ok /\ resumed) \/ peer_certificate_examined)
      /\ trusted' = IF ok /\ resumed THEN trusted \cup ({presented} \ {NoCert}) ELSE trusted
      /\ established' = success
      /\ handshake_error' = ~success

\* sync_handshake_thread_completed, the end of the crank, and the rest of
\* do_implicit_handshake, which needs no other thread.
SyncFinish ==
  /\ Dispatch("completed")
  /\ mode = "sync"
  /\ sync_handshake_in_progress' = FALSE
  /\ FinishHandshake
  /\ mode' = "none"
  /\ stack' = Pop(stack)
  /\ handshaking' = FALSE
  /\ Go("app", AtHome)
  /\ UNCHANGED <<answer, loopVars, need_finish_handshake, taskVars, verdict>>

\* Some operation of app is diverted into finishing a polled handshake.
AsyncFinish ==
  /\ pc["app"] \in {"loop", "out"}
  /\ need_finish_handshake
  /\ need_finish_handshake' = FALSE
  /\ FinishHandshake
  /\ mode' = "none"
  /\ UNCHANGED <<pc, stack, sources, sync_handshake_in_progress, answer, loopVars,
                 handshaking, taskVars, verdict>>

Accept(t) == JudgedByRules(t) \/ AskApplication(t) \/ ApplicationAnswers(t) \/ StoreAnswer(t)

AppRuns    == CrankBegins \/ VerifyDispatched \/ Accept("app") \/ SyncFinish \/ CallGoesOn
WorkerRuns == VerifyBegins \/ HandshakeEnds \/ Invoke \/ Accept("worker") \/ VerifyEnds \/ ThreadReturns

Next ==
  \/ LeaveLoop
  \/ EnterLoop
  \/ \E m \in {"sync", "async"} : Start(m)
  \/ BlockingCall
  \/ AsyncFinish
  \/ AppRuns
  \/ WorkerRuns

Spec == Init /\ [][Next]_vars

\* Both threads are scheduled, and an application in its main loop goes on
\* iterating it; its handlers return.
FairSpec == Spec /\ WF_vars(AppRuns) /\ WF_vars(WorkerRuns)

-----------------------------------------------------------------------------
\* What the handshake thread takes for the verdict is the one on this handshake's
\* certificate, not what a former handshake left in the fields: it only succeeds
\* with a certificate that was accepted since it began, unless the library called a
\* handshake that was cut short a success (OpensslIo and GnutlsIo say when it does).
VerdictIsCurrent ==
  pc["worker"] = "done" /\ ok /\ ~resumed /\ ~cut =>
    verdict = "accepted" \/ presented = NoCert

\* However verification, resumption and failures follow each other, a handshake that
\* succeeded leaves the connection with a certificate that somebody accepted or with
\* none, and with the one the peer presented, if it did.  The latter does not hold of
\* one that was cut short: it leaves what the handshake before had left.
EstablishedIsTrusted ==
  established =>
    /\ peer_certificate \in trusted \cup {NoCert}
    /\ presented # NoCert /\ ~cut => peer_certificate = presented

\* "We need to ensure the accept-certificate signal is emitted on the original
\* thread": it is, if the application does not leave its loop; and the handler does
\* not see the private context of a blocking handshake as its default.
EmittedToApplication ==
  /\ application = "loops" => pc["worker"] # "emit"
  /\ pc["app"] = "emit" => stack = <<"main">>

\* The stack of thread-default contexts is as the application left it once a
\* handshake is over.
StackRestored == mode = "none" => stack = <<"main">>

\* The handshake thread never waits for ever for a verdict, if the application does
\* not leave its loop, and a blocking handshake comes to its end: an answer wakes the
\* one thread, whatever it is, and the end of the handshake the other.
VerificationEnds ==
  /\ (application = "loops" /\ pc["worker"] = "wait") ~> pc["worker"] = "done"
  /\ pc["app"] = "crank" ~> mode = "none"
=============================================================================
