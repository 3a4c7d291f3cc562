------------------------------ MODULE TlsSource ------------------------------
(***************************************************************************)
(* The pollable side of tls/base: the streams of a TLS connection, the     *)
(* GSource that tells a polling application when to try again, and         *)
(* condition_wait of a datagram connection, beside the arbiter of          *)
(* TlsConnectionBase.                                                      *)
(*                                                                         *)
(* The application thread Poller makes nonblocking calls on one stream.  A *)
(* call that would block makes it wait for its source, from whose callback *)
(* it calls again.  The source waits for one child source: a GCancellable  *)
(* source on waiting_for_op, a source of the base stream, or a timeout of  *)
(* 0.  The GCancellable source is as edge-triggered as GLib's: it becomes  *)
(* ready when the cancellable is cancelled, not while it is, but a new one *)
(* looks once.                                                             *)
(***************************************************************************)
EXTENDS TlsConnectionBase

CONSTANTS
  Poller,     \* the thread that polls
  Condition,  \* "IN" or "OUT": which stream it polls
  Keeps       \* whether its callback returns TRUE, keeping the source, to call again

ASSUME PollerAssumption ==
  Poller \in Threads /\ Condition \in {"IN", "OUT"} /\ Keeps \in BOOLEAN
    /\ Poller \notin Cancellable

VARIABLES
  loop,     \* what Poller does: "idle", "call", "blocked", "sync", "polling", "ready"
  source,   \* GTlsConnectionBaseSource: what it waits for, and its child's readiness
  wanted,   \* what tls_source_sync has decided under op_mutex
  base,     \* whether the base stream meets Condition
  blocked,  \* whether the library had nothing for the call
  waiter    \* a thread in condition_wait: "none", "forever" or "timed"

sourceVars == <<loop, source, wanted, base, blocked, waiter>>
allVars == <<vars, sourceVars>>

Children == {"none", "op", "io", "timeout"}
NoSource == [child |-> "none", woken |-> FALSE]

SourceTypeOK ==
  /\ TypeOK
  /\ loop \in {"idle", "call", "blocked", "sync", "polling", "ready"}
  /\ source \in [child : Children, woken : BOOLEAN]
  /\ wanted \in Children
  /\ base \in BOOLEAN /\ blocked \in BOOLEAN
  /\ waiter \in {"none", "forever", "timed"}

SourceInit ==
  /\ Init
  /\ loop = "idle" /\ source = NoSource /\ wanted = "none"
  /\ base = FALSE /\ blocked = FALSE /\ waiter = "none"

-----------------------------------------------------------------------------
(***************************************************************************)
(* The streams: each forwards to the connection, blocking or not.          *)
(***************************************************************************)
InputStreamRead == [op |-> "READ", timeout |-> -1]
InputStreamReadNonblocking == [op |-> "READ", timeout |-> 0]
InputStreamClose == [op |-> "CLOSE_READ", timeout |-> -1]
OutputStreamWrite == [op |-> "WRITE", timeout |-> -1]
OutputStreamWriteNonblocking == [op |-> "WRITE", timeout |-> 0]
OutputStreamClose == [op |-> "CLOSE_WRITE", timeout |-> -1]

PolledCall ==
  IF Condition = "IN" THEN InputStreamReadNonblocking ELSE OutputStreamWriteNonblocking

-----------------------------------------------------------------------------
\* g_tls_connection_base_base_check.
BaseCheck == base

\* g_tls_connection_base_check: the base stream counts only between operations.
Check ==
  \/ need_finish_handshake
  \/ /\ ~handshaking
     /\ ~(Condition = "IN" /\ read_closing) /\ ~(Condition = "OUT" /\ write_closing)
     /\ BaseCheck

\* What tls_source_sync reads while it holds op_mutex.
OpWaiting ==
  \/ Condition = "IN" /\ reading
  \/ Condition = "OUT" /\ writing
  \/ handshaking /\ ~need_finish_handshake

\* What the source waits for.
Awaited ==
  IF OpWaiting THEN "op"
  ELSE IF ~need_handshake /\ ~need_finish_handshake THEN "io"
  ELSE "timeout"

\* Mutant: the child source does not look at the cancellable it is made for.
ChildSourceUnlooked == [child |-> wanted, woken |-> FALSE]

\* A new child source; one on a cancellable that is cancelled is ready at once.
ChildSource == [child |-> wanted, woken |-> wanted = "op" /\ waiting_for_op]

\* Is the child source ready?
Fires ==
  \/ source.child = "op" /\ source.woken
  \/ source.child = "io" /\ BaseCheck
  \/ source.child = "timeout"

\* The "cancelled" signal of waiting_for_op, which g_cancellable_cancel emits only
\* when it was not cancelled yet.
Notice ==
  source' = [source EXCEPT !.woken =
               @ \/ (source.child = "op" /\ ~waiting_for_op /\ waiting_for_op')]

-----------------------------------------------------------------------------
(***************************************************************************)
(* The polling application.                                                *)
(***************************************************************************)
\* A nonblocking call, the first or from the callback.
Poll ==
  /\ loop \in {"idle", "ready"}
  /\ Begin(Poller) /\ call'[Poller] = PolledCall
  /\ loop' = "call" /\ blocked' = FALSE
  /\ UNCHANGED <<source, wanted, base, waiter>>

\* It returns: served, failed, or G_IO_ERROR_WOULD_BLOCK.  The callback of a call
\* that is over returns FALSE, and the source is gone.
PollReturns ==
  /\ loop = "call" /\ pc[App(Poller)] = "idle"
  /\ IF blocked \/ result[App(Poller)] = "wouldblock"
       THEN /\ loop' = "blocked"
            /\ source' = IF Keeps THEN source ELSE NoSource
       ELSE loop' = "idle" /\ source' = NoSource
  /\ UNCHANGED <<vars, wanted, base, blocked, waiter>>

\* tls_source_sync, for a new source or after the callback: the flags ...
SyncDecides ==
  /\ loop = "blocked"
  /\ wanted' = Awaited
  /\ loop' = "sync"
  /\ UNCHANGED <<vars, source, base, blocked, waiter>>

\* ... and, once op_mutex is released, the child source that goes with them, if
\* it is not the one the source already has.
SyncAttaches ==
  /\ loop = "sync"
  /\ source' = IF wanted = source.child THEN source ELSE ChildSource
  /\ loop' = "polling"
  /\ UNCHANGED <<vars, wanted, base, blocked, waiter>>

\* The main context dispatches the child source, which is not ready any more, and
\* then the source.
Dispatch ==
  /\ loop = "polling" /\ Fires
  /\ source' = [source EXCEPT !.woken = FALSE]
  /\ loop' = "ready"
  /\ UNCHANGED <<vars, wanted, base, blocked, waiter>>

-----------------------------------------------------------------------------
(***************************************************************************)
(* condition_wait of a datagram connection, in some thread.                *)
(***************************************************************************)
\* It returns at once if the condition is met.
ConditionWait ==
  /\ waiter = "none" /\ ~Check
  /\ waiter' \in {"forever", "timed"}
  /\ UNCHANGED <<vars, loop, source, wanted, base, blocked>>

\* It polls waiting_for_op alone: when that is cancelled the condition is looked
\* at, again and again until it is met.
ConditionMet ==
  /\ waiter # "none" /\ waiting_for_op /\ Check
  /\ waiter' = "none"
  /\ UNCHANGED <<vars, loop, source, wanted, base, blocked>>

\* poll() reports a timeout, which it can only while it sleeps.
ConditionTimesOut ==
  /\ waiter = "timed" /\ ~waiting_for_op
  /\ waiter' = "none"
  /\ UNCHANGED <<vars, loop, source, wanted, base, blocked>>

-----------------------------------------------------------------------------
\* What an operation that ends leaves of the base stream: a polled one may have
\* drained it without a result, another thread's may have drained it.
BaseAfter(t) ==
  IF pc[App(t)] # "io" \/ pc'[App(t)] = "io" THEN UNCHANGED <<base, blocked>>
  ELSE IF t = Poller THEN
    \/ base /\ base' \in BOOLEAN /\ UNCHANGED blocked
    \/ base' = FALSE /\ blocked' = TRUE
  ELSE base' \in {FALSE, base} /\ UNCHANGED blocked

\* Steps of the arbiter, with the source looking on.
CallStep(t) ==
  /\ AppStep(t) /\ Notice /\ BaseAfter(t)
  /\ UNCHANGED <<loop, wanted, waiter>>
HandshakeStep(t) ==
  /\ WorkerStep(t) /\ Notice
  /\ UNCHANGED <<loop, wanted, base, blocked, waiter>>
OtherCall(t) ==
  /\ t # Poller /\ (Begin(t) \/ Handshake(t) \/ Cancel(t))
  /\ UNCHANGED sourceVars
AssertionAborts(t) == AssertionFails(t) /\ UNCHANGED sourceVars

\* The base stream becomes readable or writable.  External.
BaseReady ==
  /\ ~base /\ base' = TRUE
  /\ UNCHANGED <<vars, loop, source, wanted, blocked, waiter>>

LoopStep == PollReturns \/ SyncDecides \/ SyncAttaches \/ Dispatch
WaitStep == ConditionWait \/ ConditionMet \/ ConditionTimesOut

SourceNext ==
  /\ ~aborted
  /\ \/ \E t \in Threads : CallStep(t) \/ HandshakeStep(t) \/ OtherCall(t) \/ AssertionAborts(t)
     \/ Poll \/ LoopStep \/ WaitStep \/ BaseReady

SourceSpec == SourceInit /\ [][SourceNext]_allVars

\* Threads are scheduled, operations end, and an application that has been called
\* back calls again.
SourceFairness ==
  /\ \A t \in Threads :
       /\ WF_allVars(~aborted /\ CallStep(t)) /\ WF_allVars(~aborted /\ HandshakeStep(t))
       /\ WF_allVars(~aborted /\ AssertionAborts(t))
  /\ WF_allVars(~aborted /\ LoopStep) /\ WF_allVars(~aborted /\ loop = "ready" /\ Poll)
SourceFairSpec == SourceSpec /\ SourceFairness

-----------------------------------------------------------------------------
\* An operation is in progress whose yield_op cancels waiting_for_op.
YieldPending ==
  \/ reading \/ writing \/ handshaking
  \/ \E t \in Threads : pc[Hs(t)] = "yield"

SourceAsleep == loop = "polling" /\ source.child = "op" /\ ~source.woken

\* Before the first handshake condition_wait may sleep on a connection nobody uses.
WaiterAsleep == waiter = "forever" /\ ~waiting_for_op /\ ever_handshaked

\* Whoever waits for other operations to end, in claim_op(), in condition_wait or
\* with a source on waiting_for_op, has an operation to wait for: the yield that
\* wakes them is still to come, and it will be a cancellation that they notice.
SleepersAreWoken ==
  (\E a \in Actors : Asleep(a)) \/ SourceAsleep \/ WaiterAsleep
    => YieldPending /\ ~waiting_for_op

\* test_async_implicit_handshake: a callback that calls again whenever it is
\* called back is served in the end, or fails, if the base stream stays ready.
PolledCallsEnd == <>[]base => (loop # "idle" ~> loop = "idle" \/ aborted)
=============================================================================
