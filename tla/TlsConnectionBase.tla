------------------------- MODULE TlsConnectionBase -------------------------
(***************************************************************************)
(* The operation arbiter of tls/base/gtlsconnection-base.c: how reads,     *)
(* writes, closes and handshakes, issued by several application threads    *)
(* and by the handshake threads they start, share one TLS connection.      *)
(*                                                                         *)
(* Each application thread t owns two actors: <<t, "app">>, the code that  *)
(* runs on t itself, and <<t, "hs">>, the GTask worker that runs the       *)
(* handshake t started.  claim_op() is one piece of code both run.         *)
(*                                                                         *)
(* An action is a critical section of op_mutex, or a run of unlocked       *)
(* statements of which at most one touches state another thread reads      *)
(* without a flag that excludes it.  The cancellation test at the head of  *)
(* claim_op() is folded into the critical section that follows it:         *)
(* nothing but Cancel writes the cancellable.                              *)
(***************************************************************************)
EXTENDS Integers

CONSTANTS
  Threads,        \* application threads
  NoThread,       \* the NULL handshake context / NULL implicit handshake
  Calls,          \* Calls[t]: the calls thread t may issue
  Budget,         \* Budget[t]: how many calls t issues, -1 for no bound
  MainContextOf,  \* MainContextOf[t]: the thread iterating t's thread-default context
  DefaultOwner,   \* the thread iterating the global default context, if any
  Cancellable,    \* the threads that pass a GCancellable to their calls
  Rehandshakes    \* whether the peer may ask for a rehandshake

CloseOps  == {"CLOSE_READ", "CLOSE_WRITE", "CLOSE_BOTH"}
DataOps   == {"READ", "WRITE"}
StartOps  == {"HANDSHAKE", "HANDSHAKE_ASYNC"}  \* g_tls_connection_handshake[_async]
Ops       == DataOps \cup CloseOps \cup StartOps
Timeouts  == {-1} \cup Nat                     \* -1 blocks, 0 polls, else microseconds

ASSUME ThreadsAssumption == NoThread \notin Threads
ASSUME ContextsAssumption ==
  /\ MainContextOf \in [Threads -> Threads]
  /\ DefaultOwner \in Threads \cup {NoThread}
\* Only reads and writes come with a timeout of the caller's: the other entry
\* points all pass -1.
ASSUME CallsAssumption ==
  /\ Calls \in [Threads -> SUBSET [op : Ops, timeout : Timeouts]]
  /\ \A t \in Threads : \A c \in Calls[t] : c.op \notin DataOps => c.timeout = -1
ASSUME BudgetAssumption == Budget \in [Threads -> {-1} \cup Nat]
ASSUME FlagsAssumption == Cancellable \subseteq Threads /\ Rehandshakes \in BOOLEAN

App(t) == <<t, "app">>
Hs(t)  == <<t, "hs">>
Actors == Threads \X {"app", "hs"}

VARIABLES
  \* GTlsConnectionBasePrivate
  need_handshake, need_finish_handshake, started_handshake, handshaking,
  ever_handshaked, handshake_error,
  handshake_context,      \* the thread that owns the context, or NoThread
  implicit_handshake,     \* the thread whose handshake task it is, or NoThread
  read_closing, read_closed, write_closing, write_closed,
  reading, writing,
  waiting_for_op,         \* TRUE while the GCancellable is cancelled
  \* control state of the actors
  pc, timeout, result,    \* per actor
  call,                   \* per thread: the call in progress, or the last one
  task,                   \* per thread: which kind of handshake its worker runs
  budget,                 \* per thread: the calls it may still issue
  cancelled,              \* threads whose GCancellable is cancelled
  aborted,                \* a g_assert() failed: the process is gone
  \* history
  claimed,                \* workers between a successful claim_op and yield_op
  stray_yield             \* a handshake that was never claimed has been yielded

hsVars    == <<need_handshake, need_finish_handshake, started_handshake, handshaking,
               ever_handshaked, handshake_error>>
ctxVars   == <<handshake_context, implicit_handshake>>
closeVars == <<read_closing, read_closed, write_closing, write_closed>>
dirVars   == <<reading, writing, waiting_for_op>>
ctlVars   == <<pc, timeout, result, call, task>>
envVars   == <<cancelled, aborted>>
ghostVars == <<claimed, stray_yield>>
vars == <<hsVars, ctxVars, closeVars, dirVars, ctlVars, envVars, budget, ghostVars>>

AppPCs == {"idle", "claim", "wait", "crank", "hsyield", "relock", "finish", "rejoin",
           "io", "closed"}
HsPCs  == {"idle", "queued", "claim", "wait", "start", "io", "done", "mark", "yield",
           "complete"}
\* "error" comes from claim_op() or before the handshake, "failed" from the
\* handshake itself.
Results == {"none", "ok", "error", "failed", "refused", "wouldblock"}

NoTask == [async |-> FALSE, implicit |-> FALSE]

FlagsTyped ==
  /\ need_handshake \in BOOLEAN /\ need_finish_handshake \in BOOLEAN
  /\ started_handshake \in BOOLEAN /\ handshaking \in BOOLEAN
  /\ ever_handshaked \in BOOLEAN /\ handshake_error \in BOOLEAN
  /\ read_closing \in BOOLEAN /\ read_closed \in BOOLEAN
  /\ write_closing \in BOOLEAN /\ write_closed \in BOOLEAN
  /\ reading \in BOOLEAN /\ writing \in BOOLEAN /\ waiting_for_op \in BOOLEAN
ContextsTyped ==
  /\ handshake_context \in Threads \cup {NoThread}
  /\ implicit_handshake \in Threads \cup {NoThread}
ActorsTyped ==
  /\ pc \in [Actors -> AppPCs \cup HsPCs]
  /\ \A t \in Threads : pc[App(t)] \in AppPCs /\ pc[Hs(t)] \in HsPCs
  /\ timeout \in [Actors -> Timeouts]
  /\ result \in [Actors -> Results]
  /\ call \in [Threads -> [op : Ops, timeout : Timeouts]]
  /\ task \in [Threads -> [async : BOOLEAN, implicit : BOOLEAN]]
  /\ budget \in [Threads -> {-1} \cup Nat]
HistoryTyped ==
  /\ cancelled \subseteq Cancellable
  /\ aborted \in BOOLEAN
  /\ claimed \subseteq Threads
  /\ stray_yield \in BOOLEAN

TypeOK == FlagsTyped /\ ContextsTyped /\ ActorsTyped /\ HistoryTyped

\* g_tls_connection_base_init: zeroed memory but for need_handshake, and a new
\* waiting_for_op that nobody has cancelled.
Init ==
  /\ need_handshake = TRUE
  /\ need_finish_handshake = FALSE
  /\ started_handshake = FALSE
  /\ handshaking = FALSE
  /\ ever_handshaked = FALSE
  /\ handshake_error = FALSE
  /\ handshake_context = NoThread
  /\ implicit_handshake = NoThread
  /\ read_closing = FALSE /\ read_closed = FALSE
  /\ write_closing = FALSE /\ write_closed = FALSE
  /\ reading = FALSE /\ writing = FALSE
  /\ waiting_for_op = FALSE
  /\ pc = [a \in Actors |-> "idle"]
  /\ timeout = [a \in Actors |-> -1]
  /\ result = [a \in Actors |-> "none"]
  /\ call = [t \in Threads |-> [op |-> "READ", timeout |-> -1]]
  /\ task = [t \in Threads |-> NoTask]
  /\ budget = Budget
  /\ cancelled = {}
  /\ aborted = FALSE
  /\ claimed = {}
  /\ stray_yield = FALSE

-----------------------------------------------------------------------------
(***************************************************************************)
(* Helpers.                                                                *)
(***************************************************************************)
\* The operation an actor claims: a worker always claims OP_HANDSHAKE.
OpOf(a) == IF a[2] = "hs" THEN "HANDSHAKE" ELSE call[a[1]].op

UsesRead(op)  == op # "WRITE"
UsesWrite(op) == op # "READ"
IsClose(op)   == op \in CloseOps
ClosesRead(op)  == op \in {"CLOSE_READ", "CLOSE_BOTH"}
ClosesWrite(op) == op \in {"CLOSE_WRITE", "CLOSE_BOTH"}

Goto(a, l) == pc' = [pc EXCEPT ![a] = l]

\* Where a worker goes when handshake_thread() returns: a synchronous one wakes
\* the thread that cranks its context, an asynchronous one goes on in
\* async_handshake_thread().
AfterThread(t) == IF task[t].async THEN "mark" ELSE "done"

\* claim_op() returns FALSE.
Fail(a, r) ==
  /\ Goto(a, IF a[2] = "hs" THEN AfterThread(a[1]) ELSE "idle")
  /\ result' = [result EXCEPT ![a] = r]

\* g_main_context_is_owner (priv->handshake_context): NULL means the global
\* default context.  A worker owns no context.
IsOwner(a) ==
  /\ a[2] = "app"
  /\ a[1] = IF handshake_context = NoThread THEN DefaultOwner ELSE handshake_context

\* Mutant: a handshake does not wait for a writer.
BusyForgetsWriter(op) ==
  \/ UsesRead(op) /\ reading
  \/ op = "WRITE" /\ writing
  \/ op # "HANDSHAKE" /\ handshaking

\* Does the flag test of claim_op() make the operation wait?
Busy(op) ==
  \/ UsesRead(op) /\ reading
  \/ UsesWrite(op) /\ writing
  \/ op # "HANDSHAKE" /\ handshaking

\* The head of claim_op(): a closed direction, a sticky handshake error.
IsClosed(op) ==
  \/ op \in {"HANDSHAKE", "READ"} /\ (read_closing \/ read_closed)
  \/ op \in {"HANDSHAKE", "WRITE"} /\ (write_closing \/ write_closed)

Rejected(a) ==
  \/ a[1] \in cancelled
  \/ IsClosed(OpOf(a))
  \/ handshake_error /\ ~IsClose(OpOf(a))

WantsHandshake(op) ==
  op \in DataOps /\ need_handshake /\ ~handshaking

\* The second half of claim_op() is reached from its head, or with op_mutex
\* taken again after a blocking implicit handshake that succeeded.
PastHandshake(a) ==
  \/ pc[a] = "claim" /\ ~Rejected(a) /\ ~WantsHandshake(OpOf(a))
  \/ pc[a] = "relock"

\* Mutant: an implicit handshake is finished as soon as there is one.
DivertedTooSoon(a) == OpOf(a) # "HANDSHAKE" /\ implicit_handshake # NoThread

Diverted(a) ==
  OpOf(a) # "HANDSHAKE" /\ need_finish_handshake /\ implicit_handshake # NoThread

\* ... and its flag tests from there or after finish_handshake().
PastFinish(a) ==
  \/ PastHandshake(a) /\ ~Diverted(a)
  \/ pc[a] = "rejoin" /\ (a[1] \in cancelled => IsClose(OpOf(a)))

Refused(a) == handshaking /\ timeout[a] # 0 /\ IsOwner(a)

\* Mutant: what the thread returned is lost.
TaskNotCancelled(t) == t \notin cancelled

\* g_task_propagate_boolean: a cancelled task reports G_IO_ERROR_CANCELLED
\* whatever its thread returned.  A backend turns a rejected certificate into an
\* error of the handshake itself, and no complete_handshake() sets an error.
TaskSucceeded(t) == result[Hs(t)] = "ok" /\ t \notin cancelled

\* Mutant: an error of the claim sticks as well.
FinishHandshakeAlways(t) ==
  handshake_error' = (handshake_error \/ ~TaskSucceeded(t))

\* finish_handshake(): the error sticks when the handshake had started.
FinishHandshake(t) ==
  handshake_error' = (handshake_error \/ (~TaskSucceeded(t) /\ started_handshake))

\* Mutant: an operation during a handshake wakes nobody.
YieldOpSilently(op, rehandshake) ==
  /\ handshaking' = (handshaking /\ op # "HANDSHAKE")
  /\ need_handshake' = (need_handshake \/ (op # "HANDSHAKE" /\ rehandshake /\ ~handshaking))
  /\ read_closing' = (read_closing /\ ~ClosesRead(op))
  /\ write_closing' = (write_closing /\ ~ClosesWrite(op))
  /\ reading' = (reading /\ ~UsesRead(op))
  /\ writing' = (writing /\ ~UsesWrite(op))
  /\ waiting_for_op' = (waiting_for_op \/ ~handshaking)
  /\ UNCHANGED <<need_finish_handshake, started_handshake, ever_handshaked,
                 handshake_error, read_closed, write_closed>>

\* yield_op(), with the status the operation ended with.
YieldOp(op, rehandshake) ==
  /\ handshaking' = (handshaking /\ op # "HANDSHAKE")
  /\ need_handshake' = (need_handshake \/ (op # "HANDSHAKE" /\ rehandshake /\ ~handshaking))
  /\ read_closing' = (read_closing /\ ~ClosesRead(op))
  /\ write_closing' = (write_closing /\ ~ClosesWrite(op))
  /\ reading' = (reading /\ ~UsesRead(op))
  /\ writing' = (writing /\ ~UsesWrite(op))
  /\ waiting_for_op' = TRUE
  /\ UNCHANGED <<need_finish_handshake, started_handshake, ever_handshaked,
                 handshake_error, read_closed, write_closed>>

\* Mutant: the wrong operation is yielded.
YieldHandshakeAsRead(t) ==
  /\ YieldOp("READ", FALSE)
  /\ claimed' = claimed \ {t}
  /\ stray_yield' = (stray_yield \/ t \notin claimed)

\* yield_op (tls, OP_HANDSHAKE), whether or not the worker's claim succeeded.
YieldHandshake(t) ==
  /\ YieldOp("HANDSHAKE", FALSE)
  /\ claimed' = claimed \ {t}
  /\ stray_yield' = (stray_yield \/ t \notin claimed)

\* A handshake starts: its context, its task, its worker.  For an explicit
\* asynchronous one and for a nonblocking implicit one the context is the
\* caller's thread-default context, otherwise a new one that t itself owns.
StartTask(t, async, implicit, tmo) ==
  /\ pc[Hs(t)] = "idle"
  /\ handshake_context' = IF async THEN MainContextOf[t] ELSE t
  /\ implicit_handshake' = IF implicit THEN t ELSE implicit_handshake
  /\ task' = [task EXCEPT ![t] = [async |-> async, implicit |-> implicit]]
  /\ timeout' = [timeout EXCEPT ![Hs(t)] = tmo]

-----------------------------------------------------------------------------
(***************************************************************************)
(* Calls from the application.                                             *)
(***************************************************************************)
Issue(t) ==
  /\ pc[App(t)] = "idle"
  /\ budget[t] # 0
  /\ budget' = [budget EXCEPT ![t] = IF @ = -1 THEN -1 ELSE @ - 1]

\* g_tls_connection_base_read/_write/_close_internal reach claim_op().
Begin(t) ==
  /\ Issue(t)
  /\ \E c \in Calls[t] :
       /\ c.op \notin StartOps
       /\ call' = [call EXCEPT ![t] = c]
       /\ timeout' = [timeout EXCEPT ![App(t)] = c.timeout]
  /\ Goto(App(t), "claim")
  /\ result' = [result EXCEPT ![App(t)] = "none"]
  /\ UNCHANGED <<hsVars, ctxVars, closeVars, dirVars, task, envVars, ghostVars>>

\* Mutant: built without assertions.
HandshakeUnasserted(t) ==
  /\ Issue(t)
  /\ \E c \in Calls[t] :
       /\ c.op \in StartOps
       /\ call' = [call EXCEPT ![t] = c]
       /\ StartTask(t, c.op = "HANDSHAKE_ASYNC", FALSE, -1)
       /\ pc' = [pc EXCEPT ![App(t)] = IF c.op = "HANDSHAKE" THEN "crank" ELSE "idle",
                           ![Hs(t)] = "queued"]
  /\ result' = [result EXCEPT ![App(t)] = "none", ![Hs(t)] = "none"]
  /\ UNCHANGED <<hsVars, closeVars, dirVars, envVars, ghostVars>>

\* g_tls_connection_base_handshake and _handshake_async take no lock and set no
\* flag: they assert, set the context and queue the thread.
Handshake(t) ==
  /\ Issue(t)
  /\ handshake_context = NoThread
  /\ \E c \in Calls[t] :
       /\ c.op \in StartOps
       /\ call' = [call EXCEPT ![t] = c]
       /\ StartTask(t, c.op = "HANDSHAKE_ASYNC", FALSE, -1)
       /\ pc' = [pc EXCEPT ![App(t)] = IF c.op = "HANDSHAKE" THEN "crank" ELSE "idle",
                           ![Hs(t)] = "queued"]
  /\ result' = [result EXCEPT ![App(t)] = "none", ![Hs(t)] = "none"]
  /\ UNCHANGED <<hsVars, closeVars, dirVars, envVars, ghostVars>>

\* g_cancellable_cancel() on the caller's cancellable.
Cancel(t) ==
  /\ t \in Cancellable \ cancelled
  /\ pc[App(t)] # "idle" \/ pc[Hs(t)] # "idle" \/ implicit_handshake = t
  /\ cancelled' = cancelled \cup {t}
  /\ UNCHANGED <<hsVars, ctxVars, closeVars, dirVars, ctlVars, aborted, budget, ghostVars>>

\* g_assert (!priv->handshake_context) of the three functions that start a
\* handshake, and g_assert (!priv->implicit_handshake) of the implicit one.
AssertionFails(t) ==
  /\ pc[Hs(t)] = "idle"
  /\ \/ /\ pc[App(t)] = "idle" /\ budget[t] # 0
        /\ \E c \in Calls[t] : c.op \in StartOps
        /\ handshake_context # NoThread
     \/ /\ pc[App(t)] = "claim"
        /\ ~Rejected(App(t))
        /\ WantsHandshake(OpOf(App(t)))
        /\ handshake_context # NoThread \/ implicit_handshake # NoThread
  /\ aborted' = TRUE
  /\ UNCHANGED <<hsVars, ctxVars, closeVars, dirVars, ctlVars, cancelled, budget, ghostVars>>

-----------------------------------------------------------------------------
(***************************************************************************)
(* claim_op(), by either kind of actor.                                    *)
(***************************************************************************)
\* Cancelled, closed, or failed for good: nothing is touched.
ClaimRejected(a) ==
  /\ pc[a] = "claim"
  /\ Rejected(a)
  /\ Fail(a, "error")
  /\ UNCHANGED <<hsVars, ctxVars, closeVars, dirVars, timeout, call, task, envVars,
                 ghostVars>>

\* do_implicit_handshake() with a timeout: the caller cranks its own context.
ImplicitHandshakeSync(t) ==
  LET a == App(t) IN
  /\ pc[a] = "claim" /\ ~Rejected(a) /\ WantsHandshake(OpOf(a))
  /\ timeout[a] # 0
  /\ handshake_context = NoThread /\ implicit_handshake = NoThread
  /\ handshaking' = TRUE
  /\ StartTask(t, FALSE, TRUE, timeout[a])
  /\ pc' = [pc EXCEPT ![a] = "crank", ![Hs(t)] = "queued"]
  /\ result' = [result EXCEPT ![Hs(t)] = "none"]
  /\ UNCHANGED <<need_handshake, need_finish_handshake, started_handshake,
                 ever_handshaked, handshake_error, closeVars, dirVars, call, envVars,
                 ghostVars>>

\* ... without one: the handshake goes on in its thread, the caller polls.
ImplicitHandshakeAsync(t) ==
  LET a == App(t) IN
  /\ pc[a] = "claim" /\ ~Rejected(a) /\ WantsHandshake(OpOf(a))
  /\ timeout[a] = 0
  /\ handshake_context = NoThread /\ implicit_handshake = NoThread
  /\ handshaking' = TRUE
  /\ StartTask(t, TRUE, TRUE, -1)
  /\ pc' = [pc EXCEPT ![a] = "idle", ![Hs(t)] = "queued"]
  /\ result' = [result EXCEPT ![Hs(t)] = "none", ![a] = "wouldblock"]
  /\ UNCHANGED <<need_handshake, need_finish_handshake, started_handshake,
                 ever_handshaked, handshake_error, closeVars, dirVars, call, envVars,
                 ghostVars>>

\* An implicit handshake waits to be finished: this call does it, unlocked.
DivertToFinish(a) ==
  /\ PastHandshake(a)
  /\ Diverted(a)
  /\ need_finish_handshake' = FALSE
  /\ Goto(a, "finish")
  /\ UNCHANGED <<need_handshake, started_handshake, handshaking, ever_handshaked,
                 handshake_error, ctxVars, closeVars, dirVars, timeout, result, call,
                 task, envVars, ghostVars>>

\* finish_handshake() and the clearing of the task and of the context.
FinishImplicit(t) ==
  LET a == App(t) IN
  /\ pc[a] = "finish"
  /\ FinishHandshake(implicit_handshake)
  /\ implicit_handshake' = NoThread
  /\ handshake_context' = NoThread
  /\ IF TaskSucceeded(implicit_handshake) \/ IsClose(OpOf(a))
       THEN /\ Goto(a, "rejoin")
            /\ result' = [result EXCEPT ![Hs(implicit_handshake)] = "none"]
       ELSE /\ Goto(a, "idle")
            /\ result' = [result EXCEPT ![Hs(implicit_handshake)] = "none", ![a] = "error"]
  /\ UNCHANGED <<need_handshake, need_finish_handshake, started_handshake, handshaking,
                 ever_handshaked, closeVars, dirVars, timeout, call, task, envVars,
                 ghostVars>>

\* Cancelled while finish_handshake() ran.
RejoinCancelled(t) ==
  LET a == App(t) IN
  /\ pc[a] = "rejoin" /\ t \in cancelled /\ ~IsClose(OpOf(a))
  /\ Fail(a, "error")
  /\ UNCHANGED <<hsVars, ctxVars, closeVars, dirVars, timeout, call, task, envVars,
                 ghostVars>>

\* "Cannot perform blocking operation during TLS handshake".
ClaimRefused(a) ==
  /\ PastFinish(a)
  /\ Refused(a)
  /\ Fail(a, "refused")
  /\ UNCHANGED <<hsVars, ctxVars, closeVars, dirVars, timeout, call, task, envVars,
                 ghostVars>>

\* The conversion for poll(): -1 still means no timeout.
InMilliseconds(tmo) == IF tmo = -1 THEN -1 ELSE tmo \div 1000

\* The operation must wait: waiting_for_op is reset, even for a caller that
\* will not wait.  A timeout is divided by 1000 on every pass.
ClaimBusy(a) ==
  /\ PastFinish(a)
  /\ ~Refused(a)
  /\ Busy(OpOf(a))
  /\ waiting_for_op' = FALSE
  /\ IF timeout[a] = 0
       THEN Fail(a, "wouldblock") /\ UNCHANGED timeout
       ELSE /\ Goto(a, "wait")
            /\ timeout' = [timeout EXCEPT ![a] = InMilliseconds(@)]
            /\ UNCHANGED result
  /\ UNCHANGED <<hsVars, ctxVars, closeVars, reading, writing, call, task, envVars,
                 ghostVars>>

\* The claim succeeds.
ClaimGranted(a) ==
  LET op == OpOf(a) IN
  /\ PastFinish(a)
  /\ ~Refused(a)
  /\ ~Busy(op)
  /\ handshaking' = (handshaking \/ op = "HANDSHAKE")
  /\ read_closing' = (read_closing \/ ClosesRead(op))
  /\ write_closing' = (write_closing \/ ClosesWrite(op))
  /\ reading' = (reading \/ UsesRead(op))
  /\ writing' = (writing \/ UsesWrite(op))
  /\ IF a[2] = "hs"
       THEN Goto(a, "start") /\ claimed' = claimed \cup {a[1]}
       ELSE Goto(a, "io") /\ UNCHANGED claimed
  /\ UNCHANGED <<need_handshake, need_finish_handshake, started_handshake,
                 ever_handshaked, handshake_error, ctxVars, read_closed, write_closed,
                 waiting_for_op, timeout, result, call, task, envVars, stray_yield>>

\* Mutant: the sleeper that wakes first resets waiting_for_op for the others.
WaitEndsAndResets(a) ==
  /\ pc[a] = "wait"
  /\ waiting_for_op \/ a[1] \in cancelled
  /\ waiting_for_op' = FALSE
  /\ Goto(a, "claim")
  /\ UNCHANGED <<hsVars, ctxVars, closeVars, reading, writing, timeout, result, call,
                 task, envVars, ghostVars>>

\* The poll loop ends because waiting_for_op or the caller's cancellable is
\* cancelled: try_again.
WaitEnds(a) ==
  /\ pc[a] = "wait"
  /\ waiting_for_op \/ a[1] \in cancelled
  /\ Goto(a, "claim")
  /\ UNCHANGED <<hsVars, ctxVars, closeVars, dirVars, timeout, result, call, task,
                 envVars, ghostVars>>

\* ... or because poll() timed out.
WaitExpires(a) ==
  /\ pc[a] = "wait"
  /\ timeout[a] # -1
  /\ Fail(a, "error")
  /\ UNCHANGED <<hsVars, ctxVars, closeVars, dirVars, timeout, call, task, envVars,
                 ghostVars>>

-----------------------------------------------------------------------------
(***************************************************************************)
(* A claimed operation, and its yield_op().                                *)
(***************************************************************************)
\* A read or a write: the backend's read_fn/write_fn, then yield_op(); after a
\* REHANDSHAKE status the loop claims again with the caller's own timeout.
DataDone(t) ==
  LET a == App(t) IN
  /\ pc[a] = "io" /\ call[t].op \in DataOps
  /\ \/ /\ YieldOp(call[t].op, FALSE)
        /\ Goto(a, "idle")
        /\ UNCHANGED timeout
     \/ /\ Rehandshakes
        /\ YieldOp(call[t].op, TRUE)
        /\ Goto(a, "claim")
        /\ timeout' = [timeout EXCEPT ![a] = call[t].timeout]
  /\ UNCHANGED <<ctxVars, result, call, task, envVars, ghostVars>>

\* close_fn() and the closed flags: write_closed is set only once a handshake
\* has succeeded.
CloseFlags(t) ==
  LET op == call[t].op IN
  /\ pc[App(t)] = "io" /\ IsClose(op)
  /\ write_closed' = (write_closed \/ (ever_handshaked /\ ClosesWrite(op)))
  /\ read_closed' = (read_closed \/ ClosesRead(op))
  /\ Goto(App(t), "closed")
  /\ UNCHANGED <<hsVars, ctxVars, read_closing, write_closing, dirVars, timeout, result,
                 call, task, envVars, ghostVars>>

\* The base stream is closed, the operation yielded.
CloseDone(t) ==
  /\ pc[App(t)] = "closed"
  /\ YieldOp(call[t].op, FALSE)
  /\ Goto(App(t), "idle")
  /\ UNCHANGED <<ctxVars, timeout, result, call, task, envVars, ghostVars>>

-----------------------------------------------------------------------------
(***************************************************************************)
(* handshake_thread() and what follows it.                                 *)
(***************************************************************************)
\* The unlocked reset that precedes the claim.
ThreadStarts(t) ==
  /\ pc[Hs(t)] = "queued"
  /\ started_handshake' = FALSE
  /\ Goto(Hs(t), "claim")
  /\ UNCHANGED <<need_handshake, need_finish_handshake, handshaking, ever_handshaked,
                 handshake_error, ctxVars, closeVars, dirVars, timeout, result, call,
                 task, envVars, ghostVars>>

\* The claim succeeded: an older error is forgotten.  A handshake nobody asked
\* for first asks the peer for renegotiation, which may fail.
HandshakeBegins(t) ==
  LET a == Hs(t) IN
  /\ pc[a] = "start"
  /\ handshake_error' = FALSE
  /\ \/ /\ started_handshake' = TRUE
        /\ Goto(a, "io")
        /\ UNCHANGED result
     \/ /\ ever_handshaked /\ ~need_handshake
        /\ Fail(a, "error")
        /\ UNCHANGED started_handshake
  /\ UNCHANGED <<need_handshake, need_finish_handshake, handshaking, ever_handshaked,
                 ctxVars, closeVars, dirVars, timeout, call, task, envVars, ghostVars>>

\* Mutant: a handshake that failed is still needed.
HandshakeStillNeeded(t) ==
  LET a == Hs(t) IN
  /\ pc[a] = "io"
  /\ \E ok \in BOOLEAN :
       /\ need_handshake' = ~ok
       /\ ever_handshaked' = (ever_handshaked \/ ok)
       /\ result' = [result EXCEPT ![a] = IF ok THEN "ok" ELSE "failed"]
  /\ Goto(a, AfterThread(t))
  /\ UNCHANGED <<need_finish_handshake, started_handshake, handshaking, handshake_error,
                 ctxVars, closeVars, dirVars, timeout, call, task, envVars, ghostVars>>

\* handshake_thread_handshake() returns: need_handshake is cleared either way.
HandshakeEnds(t) ==
  LET a == Hs(t) IN
  /\ pc[a] = "io"
  /\ need_handshake' = FALSE
  /\ \E ok \in BOOLEAN :
       /\ ever_handshaked' = (ever_handshaked \/ ok)
       /\ result' = [result EXCEPT ![a] = IF ok THEN "ok" ELSE "failed"]
  /\ Goto(a, AfterThread(t))
  /\ UNCHANGED <<need_finish_handshake, started_handshake, handshaking, handshake_error,
                 ctxVars, closeVars, dirVars, timeout, call, task, envVars, ghostVars>>

\* async_handshake_thread(): somebody will have to finish the handshake.
AsyncMark(t) ==
  /\ pc[Hs(t)] = "mark"
  /\ need_finish_handshake' = TRUE
  /\ handshaking' = FALSE
  /\ Goto(Hs(t), "yield")
  /\ UNCHANGED <<need_handshake, started_handshake, ever_handshaked, handshake_error,
                 ctxVars, closeVars, dirVars, timeout, result, call, task, envVars,
                 ghostVars>>

\* ... and its yield_op().  An implicit handshake's task has no callback.
AsyncYield(t) ==
  /\ pc[Hs(t)] = "yield"
  /\ YieldHandshake(t)
  /\ Goto(Hs(t), IF task[t].implicit THEN "idle" ELSE "complete")
  /\ UNCHANGED <<ctxVars, timeout, result, call, task, envVars>>

\* async_handshake_thread_completed(), in the thread that iterates the caller's
\* context.
AsyncCompleted(t) ==
  /\ pc[Hs(t)] = "complete"
  /\ pc[App(MainContextOf[t])] = "idle"
  /\ IF need_finish_handshake
       THEN FinishHandshake(t)
       ELSE UNCHANGED handshake_error
  /\ need_finish_handshake' = FALSE
  /\ handshake_context' = NoThread
  /\ Goto(Hs(t), "idle")
  /\ result' = [result EXCEPT ![Hs(t)] = "none"]
  /\ UNCHANGED <<need_handshake, started_handshake, handshaking, ever_handshaked,
                 implicit_handshake, closeVars, dirVars, timeout, call, task, envVars,
                 ghostVars>>

\* The blocked caller of a synchronous handshake leaves the crank, finishes the
\* handshake and drops the context ...
SyncFinish(t) ==
  LET a == App(t) IN
  /\ pc[a] = "crank" /\ pc[Hs(t)] = "done"
  /\ FinishHandshake(t)
  /\ handshake_context' = NoThread
  /\ implicit_handshake' = IF task[t].implicit THEN NoThread ELSE implicit_handshake
  /\ result' = [result EXCEPT ![a] = IF TaskSucceeded(t) THEN "ok" ELSE "error",
                              ![Hs(t)] = "none"]
  /\ pc' = [pc EXCEPT ![a] = "hsyield", ![Hs(t)] = "idle"]
  /\ UNCHANGED <<need_handshake, need_finish_handshake, started_handshake, handshaking,
                 ever_handshaked, closeVars, dirVars, timeout, call, task, envVars,
                 ghostVars>>

\* ... yields, and, if the handshake was implicit, goes back into claim_op().
SyncYield(t) ==
  LET a == App(t) IN
  /\ pc[a] = "hsyield"
  /\ YieldHandshake(t)
  /\ IF task[t].implicit /\ result[a] = "ok"
       THEN Goto(a, "relock") /\ result' = [result EXCEPT ![a] = "none"]
       ELSE Goto(a, "idle") /\ UNCHANGED result
  /\ task' = [task EXCEPT ![t] = NoTask]
  /\ UNCHANGED <<ctxVars, timeout, call, envVars>>

-----------------------------------------------------------------------------
\* claim_op() by one actor.
Claim(a) ==
  \/ ClaimRejected(a)
  \/ DivertToFinish(a)
  \/ ClaimRefused(a)
  \/ ClaimBusy(a)
  \/ ClaimGranted(a)
  \/ WaitEnds(a)
  \/ WaitExpires(a)

\* What thread t and its worker do on their own.
AppStep(t) ==
  /\ \/ Claim(App(t))
     \/ ImplicitHandshakeSync(t)
     \/ ImplicitHandshakeAsync(t)
     \/ FinishImplicit(t)
     \/ RejoinCancelled(t)
     \/ DataDone(t)
     \/ CloseFlags(t)
     \/ CloseDone(t)
     \/ SyncFinish(t)
     \/ SyncYield(t)
  /\ UNCHANGED budget

WorkerStep(t) ==
  /\ \/ Claim(Hs(t))
     \/ ThreadStarts(t)
     \/ HandshakeBegins(t)
     \/ HandshakeEnds(t)
     \/ AsyncMark(t)
     \/ AsyncYield(t)
     \/ AsyncCompleted(t)
  /\ UNCHANGED budget

\* What the application decides.
AppCall(t) ==
  \/ Begin(t)
  \/ Handshake(t)
  \/ Cancel(t)
  \/ AssertionFails(t)

Next ==
  /\ ~aborted
  /\ \E t \in Threads : AppCall(t) \/ AppStep(t) \/ WorkerStep(t)

Spec == Init /\ [][Next]_vars

-----------------------------------------------------------------------------
(***************************************************************************)
(* Safety.                                                                 *)
(***************************************************************************)
\* Worker t is inside handshake_thread().
Running(t) == pc[Hs(t)] \in {"queued", "claim", "wait", "start", "io"}

AppHolds(t) == pc[App(t)] \in {"io", "closed"}

\* The actors inside the backend in each direction.
Readers == {App(t) : t \in {u \in Threads : AppHolds(u) /\ UsesRead(call[u].op)}}
             \cup {Hs(t) : t \in claimed}
Writers == {App(t) : t \in {u \in Threads : AppHolds(u) /\ UsesWrite(call[u].op)}}
             \cup {Hs(t) : t \in claimed}

AtMostOne(S) == \A a, b \in S : a = b

\* Two threads are never inside the backend in the same direction, and a
\* handshake or a full close is alone there, until a handshake whose worker failed
\* to claim the connection is yielded all the same (handshake() and
\* do_implicit_handshake() call yield_op() whatever claim_op() returned).
ClaimsExcludeEachOther ==
  ~stray_yield => AtMostOne(Readers) /\ AtMostOne(Writers)

\* priv->reading and priv->writing say exactly whether somebody is inside: no flag
\* is left behind by an operation that has gone (which would make every later one
\* wait forever), none is dropped under an operation still running.
FlagsMatchClaims ==
  ~stray_yield => /\ reading <=> Readers # {}
                  /\ writing <=> Writers # {}

\* The conditions under which a handshake thread, or the main context on its
\* behalf, asserts priv->handshake_context: from the moment it is queued until it
\* has returned, its context is there and is its own.
RunningHandshakeHasContext ==
  \A t \in Threads :
    Running(t)
      => handshake_context = IF task[t].async THEN MainContextOf[t] ELSE t

\* A second handshake thread never runs beside the first, although nothing but
\* the life of handshake_context keeps them apart.
OneHandshakeAtATime ==
  \A t, u \in Threads :
    /\ Running(t)
    /\ Running(u)
    => t = u

\* "any error should be copied to handshake_error and returned on all future
\* operations": once set it is never lost, although every handshake thread
\* clears the field after its claim.
HandshakeErrorSticks == [][handshake_error => handshake_error']_vars

Finishes(t) ==
  \/ pc[App(t)] = "crank" /\ pc'[App(t)] = "hsyield"
  \/ pc[Hs(t)] = "complete" /\ pc'[Hs(t)] = "idle"
  \/ implicit_handshake = t /\ implicit_handshake' = NoThread

\* A handshake that got as far as its first packet and failed is remembered when
\* it is finished: no later handshake thread has reset started_handshake by then.
FailureIsRecorded ==
  [][\A t \in Threads :
       Finishes(t) /\ result[Hs(t)] = "failed" => handshake_error']_vars

-----------------------------------------------------------------------------
(***************************************************************************)
(* Statements of the source that this model confronts with the code.       *)
(***************************************************************************)
\* g_assert (!priv->handshake_context), g_assert (!priv->implicit_handshake).
AssertionsHold == ~aborted

\* Application data passes only on a session whose handshake has succeeded.
DataNeedsHandshake ==
  \A t \in Threads :
    pc[App(t)] = "io" /\ call[t].op \in DataOps => ever_handshaked

-----------------------------------------------------------------------------
(***************************************************************************)
(* Liveness.                                                               *)
(***************************************************************************)
\* Threads are scheduled, and the peer answers: every claimed operation ends.
Fairness ==
  \A t \in Threads : /\ WF_vars(~aborted /\ AppStep(t))
                      /\ WF_vars(~aborted /\ WorkerStep(t))
FairSpec == Spec /\ Fairness

\* Every call returns to the application.
CallsReturn == \A t \in Threads : pc[App(t)] # "idle" ~> pc[App(t)] = "idle"

\* test_simultaneous_sync_rehandshake joins a reader and a writer thread: while
\* somebody sleeps in claim_op(), some thread can still move.
Asleep(a) == pc[a] = "wait" /\ ~waiting_for_op /\ timeout[a] = -1 /\ a[1] \notin cancelled
SomebodyMoves ==
  (\E a \in Actors : Asleep(a)) =>
    \E b \in Actors : pc[b] \notin {"idle", "crank"} /\ ~Asleep(b)

-----------------------------------------------------------------------------
(***************************************************************************)
(* Refinement.                                                             *)
(***************************************************************************)
Claims == INSTANCE TlsClaims WITH
  readers     <- IF stray_yield THEN {} ELSE Readers,
  writers     <- IF stray_yield THEN {} ELSE Writers,
  void        <- stray_yield,
  over        <- {Hs(t) : t \in {u \in Threads : result[Hs(u)] \in {"ok", "failed"}}},
  established <- ever_handshaked,
  broken      <- handshake_error

(* claim_op(), yield_op(), finish_handshake() and all that runs between    *)
(* them in any number of threads implement the promise of TlsClaims: the   *)
(* handshake that breaks a connection is one that really ran, finished     *)
(* once, and directions are held, closed and left by their holders only.   *)
ImplementsClaims == Claims!Spec
=============================================================================
