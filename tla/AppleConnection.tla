-------------------------- MODULE AppleConnection --------------------------
(***************************************************************************)
(* The backend over Apple's Network.framework: the calls of tls/base made  *)
(* on the application's and the handshake's threads, the blocks that the   *)
(* framework runs one at a time on the connection's dispatch queue, and    *)
(* the GSource of a polling application.  They share the state under       *)
(* state_mutex and wait for each other on state_cond.                      *)
(*                                                                         *)
(* Every action is one section under state_mutex.  Bytes are numbered in   *)
(* the order the peer sent them; a chunk is what one receive brings.       *)
(***************************************************************************)
EXTENDS Integers, Sequences, FiniteSets, SequencesExt

CONSTANTS
  Modes,        \* the connections: whether they verify their peer, are datagrams, what is
                \* polled, and the bounds: the bytes the peer sends, the writes made
  NwErrors,     \* the errors of the framework, each a domain and a code
  Timeouts,     \* of each call: -1 waits for ever, 0 does not wait, 1 may expire
  Cancellable   \* the calls that may be cancelled

Calls == {"handshake", "read", "write", "close"}

ASSUME AppleAssumption ==
  /\ Modes \subseteq [verifies : BOOLEAN, dtls : BOOLEAN, polls : {"IN", "OUT"},
                      bytes : Nat, writes : Nat]
  /\ Timeouts \in [Calls -> SUBSET {-1, 0, 1}] /\ Cancellable \subseteq Calls

VARIABLES
  state,            \* priv->state
  fatal_error,      \* priv->fatal_error
  connection,       \* whether priv->connection is set
  verify_pending, verify_accepted,
  rx_queue, rx_outstanding, rx_eof_pending,
  tx_in_flight,
  asleep,           \* the threads that wait on state_cond
  op,               \* each call of the application: where it is, its timeout
  cancelled,        \* the calls whose cancellable is cancelled
  block,            \* what keeps the dispatch queue: "idle", "waiting" to verify, "challenge"
  nw,               \* the framework's connection
  mode,             \* is_dtls, and whether the options have a verify block
  base,             \* what tls/base knows: the handshake's outcome, what is closed
  poll,             \* the source of a polling application, in its main loop
  held,             \* who keeps the object: "app", "dropped" or "disposed"
  past              \* what happened: verdict, bytes read, end told, writes, flushed; whether
                    \* a certificate came late, and the last receive brought nothing

connVars == <<state, fatal_error, connection>>
verifyVars == <<verify_pending, verify_accepted>>
rxVars == <<rx_queue, rx_outstanding, rx_eof_pending>>
callVars == <<op, cancelled>>
vars == <<connVars, verifyVars, rxVars, tx_in_flight, asleep, callVars, block, nw,
          mode, base, poll, held, past>>

-----------------------------------------------------------------------------
Idle == [pc |-> "idle", timeout |-> 0, half |-> FALSE]
NoSource == [pc |-> "off", cond |-> "IN", context |-> FALSE, woken |-> FALSE]

Init ==
  /\ state = "INIT" /\ fatal_error = "none" /\ connection = FALSE
  /\ verify_pending = FALSE /\ verify_accepted = FALSE
  /\ rx_queue = <<>> /\ rx_outstanding = FALSE /\ rx_eof_pending = FALSE
  /\ tx_in_flight = FALSE
  /\ asleep = {}
  /\ op = [c \in Calls |-> Idle] /\ cancelled = {}
  /\ block = "idle"
  /\ nw = [state |-> "none", trust |-> "none", cancel |-> FALSE, asked |-> FALSE, sent |-> 0,
           flush |-> "none"]
  /\ mode \in Modes
  /\ base = [shaken |-> "no", closed |-> {}]
  /\ poll = NoSource
  /\ held = "app"
  /\ past = [verdict |-> "none", got |-> <<>>, end |-> "none", writes |-> 0,
             flushed |-> 0, clean |-> TRUE, late |-> FALSE, empty |-> FALSE]

\* error_from_nw_error.
ErrorFromNwError(error) ==
  IF error.domain # "tls" THEN "MISC"
  ELSE CASE error.code \in {"BadCert", "PeerBadCert", "NoRootCert", "UnknownRootCert", "CertExpired",
                            "CertNotYetValid", "HostNameMismatch", "XCertChainInvalid",
                            "PeerCertExpired", "PeerCertRevoked", "PeerUnknownCA"} -> "BAD_CERTIFICATE"
         [] error.code \in {"PeerCertUnknown", "CertificateRequired"} -> "CERTIFICATE_REQUIRED"
         [] error.code \in {"PeerHandshakeFail", "PeerProtocolVersion", "Negotiation", "FatalAlert"} ->
              "HANDSHAKE"
         [] error.code \in {"ClosedNoNotify", "ClosedAbort"} -> "EOF"
         [] error.code = "InappropriateFallback" -> "INAPPROPRIATE_FALLBACK"
         [] OTHER -> "MISC"

\* fail_locked: the last error stands.
FailLocked(error) == state' = "FAILED" /\ fatal_error' = error

\* g_cond_broadcast, except for a thread that falls asleep in the same step.
Broadcast(but) == asleep' = but

\* wake_up_base_sources: the loop of a source whose context is known.
WakeUpBaseSources == poll' = [poll EXCEPT !.woken = @ \/ poll.context]

\* kick_receive_locked: one receive at a time, and none while there is data to read.
MayReceive(queue, now) ==
  ~rx_outstanding /\ ~rx_eof_pending /\ now = "READY" /\ queue = <<>>
KickReceiveLocked(queue, now) == rx_outstanding' = (rx_outstanding \/ MayReceive(queue, now))

\* wait_for_progress_locked looks at the cancellable and the deadline before it waits.
NoWait(c) == c \in cancelled \/ op[c].timeout = 0
Sleeps(c) == ~NoWait(c) /\ asleep' = asleep \cup {c}
Awake(c, pc) == op[c].pc = pc /\ c \notin asleep
Active(c) == op[c].pc # "idle"

Goes(c, pc) == op' = [op EXCEPT ![c].pc = pc]
Ends(c) == op' = [op EXCEPT ![c] = Idle] /\ cancelled' = cancelled \ {c}

\* The deadline: the thread no longer waits on state_cond, but others may still have
\* state_mutex, and change what it then finds.
WaitExpires(c) ==
  /\ c \in asleep /\ Active(c) /\ op[c].timeout = 1
  /\ asleep' = asleep \ {c} /\ Goes(c, "expired")
  /\ UNCHANGED <<connVars, verifyVars, rxVars, tx_in_flight, cancelled, block, nw, base, poll,
                 held, past>>

QueueFree == block = "idle"

-----------------------------------------------------------------------------
(***************************************************************************)
(* The handshake.                                                          *)
(***************************************************************************)
\* g_tls_connection_apple_attach, and what start_handshake does before it: the
\* bridge to the base stream may fail when the framework's connection has started.
Attach(bridged) ==
  /\ connection' = TRUE
  /\ IF bridged THEN state' = "HANDSHAKING" /\ UNCHANGED fatal_error
                ELSE FailLocked("IO")
  /\ nw' = [nw EXCEPT !.state = IF bridged THEN "preparing" ELSE "stranded"]

HandshakeEnds(outcome) ==
  /\ Ends("handshake")
  /\ base' = [base EXCEPT !.shaken = outcome]

HandshakeStarts ==
  /\ Awake("handshake", "start")
  /\ \/ /\ ~connection
        /\ \/ \E bridged \in BOOLEAN : Attach(bridged) /\ Goes("handshake", "loop")
              /\ UNCHANGED <<cancelled, base>>
           \/ HandshakeEnds("failed") /\ UNCHANGED <<connVars, nw>>
     \/ connection /\ Goes("handshake", "loop") /\ UNCHANGED <<connVars, nw, cancelled, base>>
  /\ UNCHANGED <<verifyVars, rxVars, tx_in_flight, asleep, block, poll, held, past>>

HandshakeWorking == state \in {"INIT", "HANDSHAKING"}

\* The loop of handshake_thread_handshake finds a certificate to verify, goes to
\* sleep, or has its answer.
HandshakeLooks ==
  /\ Awake("handshake", "loop")
  /\ ~(HandshakeWorking /\ ~verify_pending /\ NoWait("handshake"))
  /\ \/ HandshakeWorking /\ verify_pending /\ Goes("handshake", "verify")
        /\ UNCHANGED <<asleep, cancelled, base>>
     \/ HandshakeWorking /\ ~verify_pending /\ Sleeps("handshake")
        /\ UNCHANGED <<callVars, base>>
     \/ ~HandshakeWorking /\ HandshakeEnds(IF state = "READY" THEN "ok" ELSE "failed")
        /\ UNCHANGED asleep
  /\ UNCHANGED <<connVars, verifyVars, rxVars, tx_in_flight, block, nw, poll, held, past>>

\* What g_tls_connection_base_handshake_thread_verify_certificate said is given to
\* the verify block, whatever has become of it meanwhile, and the loop goes on.
HandshakeVerified(accepted) ==
  /\ Awake("handshake", "verify")
  /\ verify_accepted' = accepted /\ verify_pending' = FALSE
  /\ past' = [past EXCEPT !.verdict = IF accepted THEN "accepted" ELSE "rejected"]
  /\ \/ /\ ~accepted /\ FailLocked("BAD_CERTIFICATE")
        /\ HandshakeEnds("failed") /\ Broadcast({})
     \/ /\ accepted /\ HandshakeWorking /\ ~NoWait("handshake")
        /\ Goes("handshake", "loop") /\ Broadcast({"handshake"})
        /\ UNCHANGED <<state, fatal_error, cancelled, base>>
     \/ /\ accepted /\ ~(HandshakeWorking /\ ~NoWait("handshake"))
        /\ HandshakeEnds(IF state = "READY" THEN "ok" ELSE "failed") /\ Broadcast({})
        /\ UNCHANGED <<state, fatal_error>>
  /\ UNCHANGED <<connection, rxVars, tx_in_flight, block, nw, poll, held>>

\* As it would be if a handshake left a certificate that came meanwhile to itself.
HandshakeForgets ==
  /\ \/ Awake("handshake", "loop") /\ HandshakeWorking /\ ~verify_pending /\ NoWait("handshake")
     \/ op["handshake"].pc = "expired"
  /\ HandshakeEnds("failed")
  /\ UNCHANGED <<connVars, verifyVars, rxVars, tx_in_flight, asleep, block, nw, poll, held, past>>

\* The wait failed: a certificate that came meanwhile is refused.
HandshakeGivesUp ==
  /\ \/ Awake("handshake", "loop") /\ HandshakeWorking /\ ~verify_pending /\ NoWait("handshake")
     \/ op["handshake"].pc = "expired"
  /\ verify_pending' = FALSE
  /\ verify_accepted' = (verify_accepted /\ ~verify_pending)
  /\ IF verify_pending THEN Broadcast({}) ELSE UNCHANGED asleep
  /\ HandshakeEnds("failed")
  /\ UNCHANGED <<connVars, rxVars, tx_in_flight, block, nw, poll, held, past>>

\* The verify block, on the queue: it holds the connection and the queue until the
\* handshake's thread, if there still is one, has an answer.  After a failure, in a
\* further attempt of the framework, it does not wait.
VerifyBlockAsks ==
  /\ state \notin {"FAILED", "CLOSED"}
  /\ verify_pending' = TRUE /\ block' = "waiting" /\ Broadcast({"verify"})
  /\ UNCHANGED <<verify_accepted, nw>>

\* As it would be if it did not take back what an earlier one was told.
VerifyBlockKeepsAnswer ==
  /\ QueueFree /\ mode.verifies /\ nw.state = "preparing" /\ nw.trust = "none"
  /\ held # "disposed"
  /\ past' = [past EXCEPT !.verdict = "none", !.late = ~Active("handshake")]
  /\ \/ VerifyBlockAsks
     \/ /\ state \in {"FAILED", "CLOSED"} /\ Broadcast({})
        /\ nw' = [nw EXCEPT !.trust = IF verify_accepted THEN "accepted" ELSE "rejected"]
        /\ UNCHANGED <<verifyVars, block>>
  /\ UNCHANGED <<connVars, rxVars, tx_in_flight, callVars, base, poll, held>>

VerifyBlockBegins ==
  /\ QueueFree /\ mode.verifies /\ nw.state = "preparing" /\ nw.trust = "none"
  /\ held # "disposed"
  /\ past' = [past EXCEPT !.verdict = "none", !.late = ~Active("handshake")]
  /\ \/ VerifyBlockAsks
     \/ /\ state \in {"FAILED", "CLOSED"} /\ Broadcast({})
        /\ verify_pending' = FALSE /\ verify_accepted' = FALSE
        /\ nw' = [nw EXCEPT !.trust = "rejected"]
        /\ UNCHANGED block
  /\ UNCHANGED <<connVars, rxVars, tx_in_flight, callVars, base, poll, held>>

\* Its connection has gone.
VerifyBlockRefuses ==
  /\ QueueFree /\ mode.verifies /\ nw.state = "preparing" /\ nw.trust = "none"
  /\ held = "disposed"
  /\ nw' = [nw EXCEPT !.trust = "rejected"]
  /\ UNCHANGED <<connVars, verifyVars, rxVars, tx_in_flight, asleep, callVars, block, base, poll,
                 held, past>>

VerifyBlockWaits ==
  /\ block = "waiting" /\ "verify" \notin asleep
  /\ verify_pending /\ state \notin {"FAILED", "CLOSED"}
  /\ asleep' = asleep \cup {"verify"}
  /\ UNCHANGED <<connVars, verifyVars, rxVars, tx_in_flight, callVars, block, nw, base,
                 poll, held, past>>

\* Woken without an answer, it gives up, and takes back what an earlier one was told.
VerifyBlockEnds ==
  /\ block = "waiting" /\ "verify" \notin asleep
  /\ ~verify_pending \/ state \in {"FAILED", "CLOSED"}
  /\ verify_pending' = FALSE
  /\ verify_accepted' = (verify_accepted /\ ~verify_pending)
  /\ nw' = [nw EXCEPT !.trust = IF verify_accepted' THEN "accepted" ELSE "rejected"]
  /\ block' = "idle"
  /\ UNCHANGED <<connVars, rxVars, tx_in_flight, asleep, callVars, base, poll, held, past>>

\* The challenge block asks the application for a certificate, on the queue, which
\* it keeps meanwhile; the authorities the server accepts are known from then on.
ChallengeBlockBegins ==
  /\ QueueFree /\ nw.state = "preparing" /\ nw.trust = "none" /\ ~nw.cancel
  /\ mode.verifies /\ ~nw.asked
  /\ block' = "challenge"
  /\ UNCHANGED <<connVars, verifyVars, rxVars, tx_in_flight, asleep, callVars, nw, base, poll,
                 held, past>>

ChallengeBlockEnds ==
  /\ block = "challenge"
  /\ block' = "idle" /\ nw' = [nw EXCEPT !.asked = TRUE]
  /\ UNCHANGED <<connVars, verifyVars, rxVars, tx_in_flight, asleep, callVars, base, poll,
                 held, past>>

-----------------------------------------------------------------------------
(***************************************************************************)
(* Reading and writing.                                                    *)
(***************************************************************************)
Bytes == FlattenSeq(rx_queue)

\* drain_rx_queue_locked takes what there is, up to count.
DrainRxQueueLocked(count) ==
  LET taken == SubSeq(Bytes, 1, IF count < Len(Bytes) THEN count ELSE Len(Bytes))
      rest == SubSeq(Bytes, Len(taken) + 1, Len(Bytes))
  IN  [taken |-> taken, queue |-> IF rest = <<>> THEN <<>> ELSE <<rest>>]

\* drain_rx_datagram_locked takes one datagram and drops what does not fit.
DrainRxDatagramLocked(count) ==
  LET datagram == Head(rx_queue)
  IN  [taken |-> SubSeq(datagram, 1, IF count < Len(datagram) THEN count ELSE Len(datagram)),
       queue |-> Tail(rx_queue)]

ReadDrains(count) ==
  /\ Awake("read", "loop") /\ rx_queue # <<>>
  /\ LET d == IF mode.dtls THEN DrainRxDatagramLocked(count) ELSE DrainRxQueueLocked(count)
     IN  /\ rx_queue' = d.queue
         /\ KickReceiveLocked(d.queue, state)
         /\ past' = [past EXCEPT !.got = @ \o d.taken]
  /\ Ends("read")
  /\ UNCHANGED <<connVars, verifyVars, rx_eof_pending, tx_in_flight, asleep, block, nw, base,
                 poll, held>>

\* Nothing to read: the error, or the end, of the connection.
ReadIsOver == rx_eof_pending \/ state \in {"CLOSED", "FAILED"}
\* As it would be if the end were looked at before the queue.
ReadTellsEndFirst ==
  /\ Awake("read", "loop")
  /\ fatal_error # "none" \/ ReadIsOver
  /\ past' = [past EXCEPT !.end = IF fatal_error # "none" THEN "error" ELSE "eof"]
  /\ Ends("read")
  /\ UNCHANGED <<connVars, verifyVars, rxVars, tx_in_flight, asleep, block, nw, base, poll, held>>

ReadTellsEnd ==
  /\ Awake("read", "loop") /\ rx_queue = <<>>
  /\ fatal_error # "none" \/ ReadIsOver
  /\ past' = [past EXCEPT !.end = IF fatal_error # "none" THEN "error" ELSE "eof"]
  /\ Ends("read")
  /\ UNCHANGED <<connVars, verifyVars, rxVars, tx_in_flight, asleep, block, nw, base, poll, held>>

\* Or the next receive, for which it waits unless it must not.
ReadWaits ==
  /\ Awake("read", "loop") /\ rx_queue = <<>> /\ fatal_error = "none" /\ ~ReadIsOver
  /\ KickReceiveLocked(rx_queue, state)
  /\ \/ Sleeps("read") /\ UNCHANGED callVars
     \/ NoWait("read") /\ Ends("read") /\ UNCHANGED asleep
  /\ UNCHANGED <<connVars, verifyVars, rx_queue, rx_eof_pending, tx_in_flight, block, nw, base,
                 poll, held, past>>

WriteWaits ==
  /\ Awake("write", "loop") /\ tx_in_flight /\ ~(state = "FAILED" /\ fatal_error # "none")
  /\ \/ Sleeps("write") /\ UNCHANGED callVars
     \/ NoWait("write") /\ Ends("write") /\ UNCHANGED asleep
  /\ UNCHANGED <<connVars, verifyVars, rxVars, tx_in_flight, block, nw, base, poll, held, past>>

WriteFails ==
  /\ Awake("write", "loop")
  /\ IF tx_in_flight THEN state = "FAILED" /\ fatal_error # "none" ELSE state # "READY"
  /\ Ends("write")
  /\ UNCHANGED <<connVars, verifyVars, rxVars, tx_in_flight, asleep, block, nw, base, poll, held,
                 past>>

\* nw_connection_send takes the data; the call does not wait until it has gone.
WriteSends ==
  /\ Awake("write", "loop") /\ ~tx_in_flight /\ state = "READY"
  /\ tx_in_flight' = TRUE
  /\ past' = [past EXCEPT !.writes = @ + 1]
  /\ Ends("write")
  /\ UNCHANGED <<connVars, verifyVars, rxVars, asleep, block, nw, base, poll, held>>

\* A read or a write whose wait has reached its deadline.
CallExpires(c) ==
  /\ op[c].pc = "expired" /\ Ends(c)
  /\ UNCHANGED <<connVars, verifyVars, rxVars, tx_in_flight, asleep, block, nw, base, poll, held,
                 past>>

-----------------------------------------------------------------------------
(***************************************************************************)
(* Closing.                                                                *)
(***************************************************************************)
\* close_fn first waits for the send in flight, unless the wait fails.
CloseWaits ==
  /\ Awake("close", "drain") /\ tx_in_flight /\ state = "READY"
  /\ Sleeps("close")
  /\ UNCHANGED <<connVars, verifyVars, rxVars, tx_in_flight, callVars, block, nw, base, poll, held,
                 past>>

\* As it would be without the flush.
CloseFlushesNot ==
  /\ \/ Awake("close", "drain") /\ (~tx_in_flight \/ state # "READY" \/ NoWait("close"))
     \/ op["close"].pc = "expired"
  /\ Goes("close", "cancel")
  /\ UNCHANGED <<connVars, verifyVars, rxVars, tx_in_flight, asleep, cancelled, block, nw, base,
                 poll, held, past>>

\* It then has everything flushed: an empty final message, whose completion it awaits.
CloseFlushes ==
  /\ \/ Awake("close", "drain") /\ (~tx_in_flight \/ state # "READY" \/ NoWait("close"))
     \/ op["close"].pc = "expired"
  /\ IF state = "READY" THEN nw' = [nw EXCEPT !.flush = "queued"] /\ Goes("close", "flush")
                        ELSE UNCHANGED nw /\ Goes("close", "cancel")
  /\ UNCHANGED <<connVars, verifyVars, rxVars, tx_in_flight, asleep, cancelled, block, base, poll,
                 held, past>>

\* As it would be if the connection were not cancelled then.
CloseFlushOutlasts ==
  /\ op["close"].pc = "flush" /\ nw.flush = "queued" /\ ~nw.cancel
  /\ past' = [past EXCEPT !.clean = FALSE]
  /\ UNCHANGED <<connVars, verifyVars, rxVars, tx_in_flight, asleep, callVars, block, nw, base, poll,
                 held>>

\* After a second it has the connection cancelled, and waits as long as it takes.
CloseFlushExpires ==
  /\ op["close"].pc = "flush" /\ nw.flush = "queued" /\ ~nw.cancel
  /\ nw' = [nw EXCEPT !.cancel = TRUE]
  /\ past' = [past EXCEPT !.clean = FALSE]
  /\ UNCHANGED <<connVars, verifyVars, rxVars, tx_in_flight, asleep, callVars, block, base, poll,
                 held>>

CloseCancels ==
  /\ Awake("close", "cancel") \/ (Awake("close", "flush") /\ nw.flush = "done")
  /\ nw' = [nw EXCEPT !.cancel = @ \/ (connection /\ state # "CLOSED")]
  /\ Goes("close", "cancelled")
  /\ UNCHANGED <<connVars, verifyVars, rxVars, tx_in_flight, asleep, cancelled, block, base, poll, held,
                 past>>

\* Closed, or half a second later: nobody waits for this connection any more.
CloseEnds ==
  /\ op["close"].pc = "cancelled"
  /\ state' = "CLOSED" /\ connection' = FALSE
  /\ Broadcast({}) /\ WakeUpBaseSources
  /\ base' = [base EXCEPT !.closed = IF op["close"].half THEN {"write"} ELSE {"read", "write"}]
  /\ Ends("close")
  /\ UNCHANGED <<fatal_error, verifyVars, rxVars, tx_in_flight, block, nw, held, past>>

-----------------------------------------------------------------------------
(***************************************************************************)
(* What the framework runs on the queue.                                   *)
(***************************************************************************)
Finished == nw.state \in {"failed", "cancelled"}

\* publish_nw_state, unless the connection has gone: its weak reference says so.
Published == Broadcast({}) /\ WakeUpBaseSources
NwUnchanged ==
  UNCHANGED <<verifyVars, rx_queue, rx_eof_pending, tx_in_flight, callVars, block, base, held, past>>

NwReady ==
  /\ QueueFree /\ nw.state = "preparing" /\ ~nw.cancel
  /\ mode.verifies => nw.trust = "accepted"
  /\ nw' = [nw EXCEPT !.state = "ready"]
  /\ IF held = "disposed" THEN UNCHANGED <<connVars, rx_outstanding, asleep, poll>>
     ELSE /\ state' = "READY" /\ UNCHANGED <<fatal_error, connection>>
          /\ KickReceiveLocked(rx_queue, "READY") /\ Published
  /\ NwUnchanged

\* A handshake that fails, or a connection that breaks: it is cancelled at once.
NwFailed(error) ==
  /\ QueueFree /\ nw.state \in {"preparing", "ready", "stranded"}
  /\ nw' = [nw EXCEPT !.state = "failed", !.cancel = @ \/ held # "disposed"]
  /\ IF held = "disposed" THEN UNCHANGED <<connVars, asleep, poll>>
     ELSE FailLocked(ErrorFromNwError(error)) /\ UNCHANGED connection /\ Published
  /\ NwUnchanged /\ UNCHANGED rx_outstanding

\* The framework would try again later: the handshake does not wait for that.
NwWaiting(error) ==
  /\ QueueFree /\ nw.state = "preparing" /\ ~nw.cancel
  /\ nw' = [nw EXCEPT !.state = "waiting", !.trust = "none"]
  /\ IF held = "disposed" THEN UNCHANGED <<connVars, asleep, poll>>
     ELSE FailLocked(ErrorFromNwError(error)) /\ UNCHANGED connection /\ Published
  /\ NwUnchanged /\ UNCHANGED rx_outstanding

NwTriesAgain ==
  /\ QueueFree /\ nw.state = "waiting" /\ ~nw.cancel
  /\ nw' = [nw EXCEPT !.state = "preparing"]
  /\ IF held = "disposed" THEN UNCHANGED <<asleep, poll>> ELSE Published
  /\ NwUnchanged /\ UNCHANGED <<connVars, rx_outstanding>>

\* Cancelled: the last thing that happens, after what was outstanding has ended.
NwCancelled ==
  /\ QueueFree /\ nw.cancel /\ nw.state # "cancelled"
  /\ ~rx_outstanding /\ ~tx_in_flight /\ nw.flush # "queued"
  /\ nw' = [nw EXCEPT !.state = "cancelled"]
  /\ IF held = "disposed" THEN UNCHANGED <<connVars, asleep, poll>>
     ELSE state' = "CLOSED" /\ UNCHANGED <<fatal_error, connection>> /\ Published
  /\ NwUnchanged /\ UNCHANGED rx_outstanding

\* handle_receive_completion: what came, perhaps nothing, whether it was the last, or
\* an error.
ReceiveCompletes(chunk, final, failed) ==
  /\ QueueFree /\ rx_outstanding
  /\ failed \/ (nw.state = "ready" /\ ~nw.cancel)
  /\ nw' = [nw EXCEPT !.sent = @ + Len(chunk)]
  /\ rx_outstanding' = FALSE
  /\ rx_queue' = IF chunk = <<>> THEN rx_queue ELSE Append(rx_queue, chunk)
  /\ rx_eof_pending' = (rx_eof_pending \/ final)
  /\ IF failed THEN \E error \in NwErrors : FailLocked(ErrorFromNwError(error))
     ELSE UNCHANGED <<state, fatal_error>>
  /\ past' = [past EXCEPT !.empty = (chunk = <<>> /\ ~final /\ ~failed)]
  /\ Published
  /\ UNCHANGED <<connection, verifyVars, tx_in_flight, callVars, block, base, held>>

Received(length) == [i \in 1..length |-> nw.sent + i]
ReceiveCompletion ==
  \/ \E length \in 1..2, final \in BOOLEAN :
       /\ nw.sent + length <= mode.bytes
       /\ ReceiveCompletes(Received(length), final, FALSE)
  \/ \E final \in BOOLEAN : ReceiveCompletes(<<>>, final, FALSE)
  \/ ReceiveCompletes(<<>>, FALSE, TRUE)

\* handle_send_completion.
SendCompletes(failed) ==
  /\ QueueFree /\ tx_in_flight
  /\ failed \/ (nw.state = "ready" /\ ~nw.cancel)
  /\ tx_in_flight' = FALSE
  /\ IF failed
     THEN UNCHANGED past /\ \E error \in NwErrors : FailLocked(ErrorFromNwError(error))
     ELSE past' = [past EXCEPT !.flushed = @ + 1] /\ UNCHANGED <<state, fatal_error>>
  /\ Published
  /\ UNCHANGED <<connection, verifyVars, rxVars, callVars, block, nw, base, held>>

\* The completion of the flush: its error is not looked at.
FlushCompletes ==
  /\ QueueFree /\ nw.flush = "queued"
  /\ ~tx_in_flight \/ nw.cancel \/ Finished
  /\ nw' = [nw EXCEPT !.flush = "done"]
  /\ UNCHANGED <<connVars, verifyVars, rxVars, tx_in_flight, asleep, callVars, block, base, poll,
                 held, past>>

NwStep ==
  \/ NwReady \/ NwTriesAgain \/ NwCancelled
  \/ \E error \in NwErrors : NwFailed(error) \/ NwWaiting(error)
  \/ ReceiveCompletion \/ (\E failed \in BOOLEAN : SendCompletes(failed)) \/ FlushCompletes

-----------------------------------------------------------------------------
(***************************************************************************)
(* The source of a polling application.                                    *)
(***************************************************************************)
\* g_tls_connection_apple_base_check.
BaseCheck(cond) ==
  \/ state \in {"FAILED", "CLOSED"}
  \/ cond = "IN" /\ (rx_queue # <<>> \/ rx_eof_pending)
  \/ cond = "OUT" /\ state = "READY" /\ ~tx_in_flight

PollUnchanged ==
  UNCHANGED <<connVars, verifyVars, rxVars, tx_in_flight, asleep, callVars, block, nw, base, held,
              past>>

CreateBaseSource(cond) ==
  /\ poll.pc = "off"
  /\ poll' = [NoSource EXCEPT !.pc = "attached", !.cond = cond]
  /\ PollUnchanged

\* As it would be if the loop were noted only after the look.
CacheContextLate ==
  /\ poll.pc = "attached"
  /\ poll' = [poll EXCEPT !.pc = "check"]
  /\ PollUnchanged

\* prepare and check first tell the connection which loop to wake.
CacheContext ==
  /\ poll.pc = "attached"
  /\ poll' = [poll EXCEPT !.pc = "check", !.context = TRUE]
  /\ PollUnchanged

SourceChecks ==
  /\ poll.pc = "check"
  /\ poll' = IF BaseCheck(poll.cond) THEN NoSource ELSE [poll EXCEPT !.pc = "asleep"]
  /\ PollUnchanged

LoopWakes ==
  /\ poll.pc = "asleep" /\ poll.woken
  /\ poll' = [poll EXCEPT !.pc = "attached", !.woken = FALSE]
  /\ PollUnchanged

PollStep == CacheContext \/ SourceChecks \/ LoopWakes

-----------------------------------------------------------------------------
(***************************************************************************)
(* The application, as far as tls/base lets it: a handshake runs alone and *)
(* none follows a failed one, a close runs beside no write, and beside a   *)
(* read only if it closes one half.                                        *)
(***************************************************************************)
Granted(c, half) ==
  /\ ~Active(c) /\ ~Active("handshake")
  /\ IF c = "handshake" THEN base.shaken # "failed" /\ base.closed = {} /\ \A d \in Calls : ~Active(d)
                        ELSE base.shaken = "ok"
  /\ c = "read" => "read" \notin base.closed /\ (Active("close") => op["close"].half)
  /\ c = "write" => "write" \notin base.closed /\ ~Active("close") /\ past.writes < mode.writes
  /\ c = "close" => "write" \notin base.closed /\ ~Active("write") /\ (half \/ ~Active("read"))

Starts(c, timeout, half) ==
  /\ held = "app" /\ Granted(c, half)
  /\ op' = [op EXCEPT ![c] =
        [pc |-> CASE c = "handshake" -> "start" [] c = "close" -> "drain" [] OTHER -> "loop",
         timeout |-> timeout, half |-> half]]
  /\ UNCHANGED <<connVars, verifyVars, rxVars, tx_in_flight, asleep, cancelled, block, nw, base,
                 poll, held, past>>

Cancels(c) ==
  /\ c \in Cancellable \ cancelled /\ Active(c)
  /\ cancelled' = cancelled \cup {c}
  /\ UNCHANGED <<connVars, verifyVars, rxVars, tx_in_flight, asleep, op, block, nw, base, poll,
                 held, past>>

Drops ==
  /\ held = "app" /\ \A c \in Calls : ~Active(c)
  /\ poll.pc = "off"
  /\ held' = "dropped"
  /\ UNCHANGED <<connVars, verifyVars, rxVars, tx_in_flight, asleep, callVars, block, nw, base,
                 poll, past>>

\* Every block that is under way holds a reference to the connection.
References == {r \in {"receive", "send", "verify"} :
  CASE r = "receive" -> rx_outstanding [] r = "send" -> tx_in_flight [] r = "verify" -> block # "idle"}

\* The last reference goes, perhaps on the queue: dispose() cancels the connection,
\* after GIOStream's dispose() has closed it.
Dispose ==
  /\ held = "dropped" /\ References = {}
  /\ held' = "disposed"
  /\ connection' = FALSE
  /\ state' = IF base.shaken = "ok" /\ "write" \notin base.closed THEN "CLOSED" ELSE state
  /\ nw' = [nw EXCEPT !.cancel = @ \/ connection]
  /\ UNCHANGED <<fatal_error, verifyVars, rxVars, tx_in_flight, asleep, callVars, block, base, poll,
                 past>>

-----------------------------------------------------------------------------
Handshake ==
  \/ HandshakeStarts \/ HandshakeLooks \/ HandshakeGivesUp \/ WaitExpires("handshake")
  \/ \E accepted \in BOOLEAN : HandshakeVerified(accepted)
VerifyBlock == VerifyBlockBegins \/ VerifyBlockRefuses \/ VerifyBlockWaits \/ VerifyBlockEnds
ChallengeBlock == ChallengeBlockBegins \/ ChallengeBlockEnds
Read ==
  \/ (\E count \in 1..2 : ReadDrains(count)) \/ ReadTellsEnd \/ ReadWaits
  \/ WaitExpires("read") \/ CallExpires("read")
Write ==
  WriteWaits \/ WriteFails \/ WriteSends \/ WaitExpires("write") \/ CallExpires("write")
Close ==
  \/ CloseWaits \/ WaitExpires("close") \/ CloseFlushes \/ CloseFlushExpires \/ CloseCancels \/ CloseEnds

Application ==
  \/ \E c \in Calls, half \in BOOLEAN : \E timeout \in Timeouts[c] :
       (half => c = "close") /\ Starts(c, timeout, half)
  \/ \E c \in Calls : Cancels(c)
  \/ held = "app" /\ CreateBaseSource(mode.polls)
  \/ Drops

Next ==
  /\ \/ Handshake \/ VerifyBlock \/ ChallengeBlock \/ Read \/ Write \/ Close \/ NwStep
     \/ PollStep \/ Application \/ Dispose
  /\ UNCHANGED mode

Spec == Init /\ [][Next]_vars
\* The closing thread runs, and a flush ends once the connection is cancelled.
Fairness == WF_vars(Close /\ UNCHANGED mode) /\ WF_vars(FlushCompletes /\ UNCHANGED mode)

FairSpec == Spec /\ Fairness

-----------------------------------------------------------------------------
\* A connection that verifies its peer is ready only when tls/base has accepted the
\* certificate of this very attempt, however the answer, a time-out, a failure and a
\* further attempt of the framework fall (verify block, gtlsconnection-apple.c:2286).
ReadyIsVerified == mode.verifies /\ state = "READY" => past.verdict = "accepted"

\* Reads return the peer's bytes in order and miss none of a stream, and they tell
\* of an orderly end only when the peer ended and all is read, or this side closed:
\* never of a broken connection (read_fn, gtlsconnection-apple.c:690).
ReadsAreWhole ==
  /\ \A i \in 1..Len(past.got) :
       IF mode.dtls THEN \A j \in 1..(i - 1) : past.got[j] < past.got[i] ELSE past.got[i] = i
  /\ past.end = "eof" =>
       \/ rx_eof_pending /\ (mode.dtls \/ Len(past.got) = nw.sent)
       \/ Active("close") \/ base.closed # {}

\* A close that was not pressed for time, on a connection that had not failed, has
\* had everything sent that the application wrote, also what was still in flight
\* when it did not wait for that (close_fn, gtlsconnection-apple.c:1203).
CloseLosesNothing ==
  op["close"].pc = "cancelled" /\ past.clean /\ fatal_error = "none" =>
    past.flushed = past.writes

\* Whoever sleeps has a reason to, and somebody who will wake it: state_cond and
\* the wake-ups of the base sources are told of every change they wait for, a
\* certificate waits for a handshake that will answer, and a ready connection with a
\* reader has a receive under way.  Some are left without: the block of a certificate
\* that comes when the handshake has been given up, and a poller that is woken by an
\* empty datagram, for handle_receive_completion (gtlsconnection-apple.c:809) starts
\* no further receive and only a read does.  A poller is not told at once that the
\* certificate was refused, but when the framework has failed for it; nor, ever, that
\* the bridge could not be built (gtlsconnection-apple.c:2415).
SleepersAreServed ==
  /\ "handshake" \in asleep => HandshakeWorking /\ ~verify_pending
  /\ "verify" \in asleep =>
       verify_pending /\ state \notin {"FAILED", "CLOSED"} /\ (Active("handshake") \/ past.late)
  /\ "read" \in asleep =>
       rx_queue = <<>> /\ ~ReadIsOver /\ (state = "READY" => rx_outstanding)
  /\ "write" \in asleep => tx_in_flight /\ state # "FAILED"
  /\ "close" \in asleep => tx_in_flight /\ state = "READY"
  /\ poll.pc = "asleep" /\ ~poll.woken =>
       \/ /\ ~BaseCheck(poll.cond)
          /\ state = "READY" /\ poll.cond = "IN" => rx_outstanding \/ past.empty
       \/ block = "waiting" \/ nw.trust = "rejected" \/ nw.state = "stranded"

\* A close that has stopped waiting for the send in flight comes to its end, though
\* it waits for the flush without a limit (close_fn, gtlsconnection-apple.c:1222).
CloseReturns == op["close"].pc \in {"flush", "cancelled"} ~> ~Active("close")
=============================================================================
