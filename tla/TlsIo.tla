------------------------------- MODULE TlsIo -------------------------------
(***************************************************************************)
(* One I/O call on a TLS connection, from tls/base/gtlsconnection-base.c:  *)
(* the parameters of each direction that a call pushes for the callbacks   *)
(* of the TLS library and the errors they leave there, the choice of the   *)
(* error that is reported, and the loops of the public calls around it.    *)
(* What the two libraries do in between is in GnutlsIo and OpensslIo.      *)
(*                                                                         *)
(* Claims are those of TlsConnectionBase, in short: one reader, one writer *)
(* and a handshake or close that has the connection to itself.             *)
(***************************************************************************)
EXTENDS Integers, Sequences, FiniteSets

CONSTANTS
  MaxUnits,     \* records of application data the peer sends
  MaxMessages,  \* num_messages of a call on a datagram connection
  Faults        \* how the stream under the connection may break

ASSUME BoundsAssumption ==
  MaxUnits \in Nat /\ MaxMessages \in Nat \ {0} /\ Faults \subseteq {"broken_pipe", "failed"}

Sides == {"in", "out"}
Actors == {"reader", "writer", "both"}
Dirs == [reader |-> {"in"}, writer |-> {"out"}, both |-> Sides]

BaseErrors == {"would_block", "timed_out", "cancelled", "broken_pipe", "failed", "too_large"}
TlsErrors ==
  {"not_tls", "eof", "certificate_required", "interaction", "bad_certificate",
   "fallback", "misc", "handshake", "closed"}
Errors == BaseErrors \cup TlsErrors \cup {"none"}

\* GTlsConnectionBaseStatus
Statuses == {"OK", "WOULD_BLOCK", "TIMED_OUT", "REHANDSHAKE", "TRY_AGAIN", "ERROR"}

VARIABLES
  conf,         \* the connection: backend, dtls, and whether a close_notify is required
  side,         \* side[d]: timeout, cancellable and error of the direction
  op,           \* op[a]: the call of each actor
  cancelled,    \* the actors whose GCancellable is cancelled
  peer,         \* "up", "notified" (sent its close_notify), "gone" (did not)
  taken,        \* records of application data the library has given out
  appBuf,       \* app_data_buf
  delivered,    \* what calls to read have returned, in order (history)
  ever,         \* ever_handshaked
  need,         \* need_handshake
  failed,       \* handshake_error is set
  missing,      \* missing_requested_client_certificate
  interaction,  \* interaction_error is set
  readOk,       \* successful_read_op
  shutting,     \* close_fn has been called: write_closed, and shutting_down of OpenSSL
  mutex         \* who holds ssl_mutex of the OpenSSL connection

vars == <<conf, side, op, cancelled, peer, taken, appBuf, delivered, ever, need,
          failed, missing, interaction, readOk, shutting, mutex>>
\* What an I/O function leaves alone.
callVars == <<conf, cancelled, peer, ever, need, failed, readOk, delivered>>

IdleOp == [pc |-> "idle", kind |-> "none", timeout |-> 0, got |-> 0, data |-> <<>>,
           status |-> "OK", error |-> "none", errno |-> "none"]

Kinds ==
  [reader |-> IF conf.dtls THEN {"receive"} ELSE {"read"},
   writer |-> IF conf.dtls THEN {"send"} ELSE {"write"},
   both   |-> IF ever /\ ~shutting THEN {"handshake", "close"} ELSE {"handshake"}]

TypeOK ==
  /\ conf \in [backend : {"gnutls", "openssl"}, dtls : BOOLEAN, notify : BOOLEAN]
  /\ side \in [Sides -> [timeout : {-1, 0, 1}, owner : Actors \cup {"none"},
                         error : BaseErrors \cup {"none"}]]
  /\ op \in [Actors ->
       [pc : {"idle", "claim", "push", "library", "again", "wait", "yield"},
        kind : {"none", "read", "receive", "write", "send", "handshake", "close"},
        timeout : {-1, 0, 1}, got : 0..MaxMessages, data : Seq(1..MaxUnits),
        status : Statuses, error : Errors,
        errno : {"none", "EINTR", "EAGAIN", "EMSGSIZE", "EIO", "zero"}]]
  /\ cancelled \subseteq Actors
  /\ peer \in {"up", "notified", "gone"}
  /\ taken \in 0..MaxUnits
  /\ appBuf \in Seq(1..MaxUnits) /\ delivered \in Seq(1..MaxUnits)
  /\ {ever, need, failed, missing, interaction, readOk, shutting} \subseteq BOOLEAN
  /\ mutex \in Actors \cup {"none"}

Init ==
  /\ conf \in [backend : {"gnutls", "openssl"}, dtls : BOOLEAN, notify : BOOLEAN]
  /\ conf.dtls => conf.notify
  /\ side = [d \in Sides |-> [timeout |-> 0, owner |-> "none", error |-> "none"]]
  /\ op = [a \in Actors |-> IdleOp]
  /\ cancelled = {} /\ peer = "up"
  /\ taken = 0 /\ appBuf = <<>> /\ delivered = <<>>
  /\ ever = FALSE /\ need = TRUE /\ failed = FALSE
  /\ missing = FALSE /\ interaction = FALSE /\ readOk = FALSE
  /\ shutting = FALSE /\ mutex = "none"

-----------------------------------------------------------------------------
(* Pushing and popping.                                                    *)

\* Mutant: every call polls.
PushIoPolling(a, timeout) ==
  [d \in Sides |->
     IF d \in Dirs[a] THEN [timeout |-> 0, owner |-> a, error |-> "none"]
     ELSE side[d]]

\* g_tls_connection_base_real_push_io
PushIo(a, timeout) ==
  [d \in Sides |->
     IF d \in Dirs[a] THEN [timeout |-> timeout, owner |-> a, error |-> "none"]
     ELSE side[d]]

\* What g_tls_connection_base_real_pop_io leaves of the directions.
PopIo(a) ==
  [d \in Sides |->
     IF d \in Dirs[a] THEN [side[d] EXCEPT !.owner = "none", !.error = "none"]
     ELSE side[d]]

\* The error of the first direction that has one.
PoppedError(a) ==
  IF "in" \in Dirs[a] /\ side["in"].error # "none" THEN side["in"].error
  ELSE IF "out" \in Dirs[a] THEN side["out"].error
  ELSE "none"

\* No certificate for a server that asked for one, and nothing ever read: the
\* reason of the failure is guessed.
Guess == missing /\ ~readOk

\* What g_tls_connection_base_real_pop_io returns and sets.
PopStatus(a, success) ==
  IF success THEN [status |-> "OK", error |-> "none"]
  ELSE CASE PoppedError(a) = "would_block" -> [status |-> "WOULD_BLOCK", error |-> "would_block"]
         [] PoppedError(a) = "timed_out" -> [status |-> "TIMED_OUT", error |-> "timed_out"]
         [] OTHER ->
              [status |-> "ERROR",
               error |-> IF Guess /\ interaction THEN "interaction"
                         ELSE IF Guess THEN "certificate_required"
                         ELSE PoppedError(a)]

\* The interaction's error is given away with the status of a failed call.
PopInteraction(a, success) ==
  interaction' = (interaction /\ PopStatus(a, success).error # "interaction")

-----------------------------------------------------------------------------
(* Callbacks of the library.                                               *)

\* What a read or write of the base stream or socket may come back with.  A
\* cancelled call does not touch the stream.  External: GPollableInputStream,
\* GPollableOutputStream and GDatagramBased.
Outcomes(d, timeout) ==
  IF side[d].owner \in cancelled THEN {"cancelled"}
  ELSE Faults \cup {"done", IF timeout = 0 THEN "would_block" ELSE "timed_out"}
         \cup (IF d = "in" /\ peer # "up" /\ ~conf.dtls THEN {"zero"} ELSE {})
         \cup (IF d = "out" /\ conf.dtls THEN {"too_large"} ELSE {})

Handshaking ==
  op["both"].kind = "handshake" /\ op["both"].pc \notin {"idle", "claim"}

-----------------------------------------------------------------------------
(* The calls.                                                              *)

\* A call of the application, which gives up once a handshake has failed; a
\* handshake forgets what the last one found missing.
Start(a, kind, timeout) ==
  /\ op[a].pc = "idle" /\ ~failed
  /\ kind \in Kinds[a]
  /\ op' = [op EXCEPT ![a] = [IdleOp EXCEPT !.pc = "claim", !.kind = kind, !.timeout = timeout]]
  /\ missing' = (missing /\ kind # "handshake")
  /\ UNCHANGED <<conf, side, cancelled, peer, taken, appBuf, delivered, ever, need,
                 failed, interaction, readOk, shutting, mutex>>

\* g_cancellable_cancel(), from any thread.
Cancel(a) ==
  /\ op[a].pc \notin {"idle", "claim"}
  /\ cancelled' = cancelled \cup {a}
  /\ UNCHANGED <<conf, side, op, peer, taken, appBuf, delivered, ever, need, failed,
                 missing, interaction, readOk, shutting, mutex>>

\* Mutant: a handshake does not wait for the writer.
MayClaimWithWriter(a) ==
  IF a = "both" THEN op["reader"].pc \in {"idle", "claim"}
  ELSE ~need /\ op["both"].pc \in {"idle", "claim"}

\* Claims of other calls that keep this one waiting in claim_op.
MayClaim(a) ==
  IF a = "both" THEN \A other \in Actors \ {a} : op[other].pc \in {"idle", "claim"}
  ELSE ~need /\ op["both"].pc \in {"idle", "claim"}

\* Mutant: the buffer is looked at only when the library has no more to give.
HasBufferedAtLast(a) == a = "reader" /\ appBuf # <<>> /\ taken = MaxUnits

\* Bytes that came during a handshake are returned before the library is asked.
HasBuffered(a) == a = "reader" /\ appBuf # <<>>

\* g_tls_connection_base_read and g_tls_connection_base_read_message with such
\* bytes.  For a message the status is the one of the last turn of the loop.
TakeBuffered(a) ==
  /\ op' = [op EXCEPT ![a].pc = "yield", ![a].data = <<Head(appBuf)>>,
              ![a].status = IF op[a].kind = "read" THEN "OK" ELSE @]
  /\ appBuf' = Tail(appBuf)

\* Why claim_op refuses.
Refusal(a) ==
  IF shutting /\ a # "reader" THEN "closed"
  ELSE IF failed /\ op[a].kind # "close" THEN "handshake"
  ELSE "none"

\* claim_op, and where the call goes on to.  An error that is set stays, but a copy
\* of handshake_error is put over it.
Claim(a) ==
  /\ op[a].pc = "claim" /\ MayClaim(a)
  /\ IF Refusal(a) # "none" THEN
          /\ op' = [op EXCEPT ![a].pc = "yield", ![a].status = "ERROR",
                      ![a].error = IF @ = "none" \/ Refusal(a) = "handshake" THEN Refusal(a) ELSE @]
          /\ UNCHANGED <<appBuf, shutting>>
     ELSE IF HasBuffered(a) THEN TakeBuffered(a) /\ UNCHANGED shutting
     ELSE /\ op' = [op EXCEPT ![a].pc = "push"]
          /\ shutting' = (shutting \/ op[a].kind = "close")
          /\ UNCHANGED appBuf
  /\ UNCHANGED <<conf, side, cancelled, peer, taken, delivered, ever, need, failed,
                 missing, interaction, readOk, mutex>>

Reads(a) == op[a].kind \in {"read", "receive"}

\* receive_messages and send_messages: another message?
MoreMessages(a) ==
  /\ op[a].kind \in {"receive", "send"}
  /\ op[a].status = "OK"
  /\ op[a].kind = "receive" => op[a].data # <<>>
  /\ op[a].got + 1 < MaxMessages

\* The call that ends after some messages went well, and then it blocked.
Swallowed(a) ==
  /\ op[a].kind \in {"receive", "send"} /\ op[a].got > 0
  /\ op[a].error \in {"would_block", "timed_out"}

\* What the call reports.
Result(a) ==
  IF Swallowed(a) THEN [status |-> "OK", error |-> "none"]
  ELSE [status |-> op[a].status, error |-> op[a].error]

\* Is another turn of the loop needed?
Again(a) == op[a].status = "REHANDSHAKE" /\ a # "both"

\* handshake_thread took the connection and shook hands.
HasShaken(a) == op[a].kind = "handshake" /\ op[a].error \notin {"closed", "handshake"}

\* yield_op after a turn of the loop, and the end of the call.  Whether a handshake
\* has succeeded is told by its error alone; the task of a cancelled one reports
\* that it was cancelled even so.
Yield(a) ==
  /\ op[a].pc = "yield"
  /\ IF Again(a) THEN
          /\ need' = TRUE
          /\ op' = [op EXCEPT ![a].pc = "claim"]
          /\ UNCHANGED <<cancelled, delivered, readOk, ever, failed>>
     ELSE
          /\ delivered' = IF op[a].status = "OK" THEN delivered \o op[a].data ELSE delivered
          /\ readOk' = (readOk \/ (Reads(a) /\ Result(a).status = "OK"))
          /\ IF MoreMessages(a)
               THEN op' = [op EXCEPT ![a].pc = "claim", ![a].got = @ + 1, ![a].data = <<>>]
                    /\ UNCHANGED cancelled
               ELSE op' = [op EXCEPT ![a] = IdleOp] /\ cancelled' = cancelled \ {a}
          /\ IF HasShaken(a) THEN
                  /\ need' = FALSE
                  /\ ever' = (ever \/ op[a].error = "none")
                  /\ failed' = (op[a].error # "none" \/ a \in cancelled)
             ELSE UNCHANGED <<need, ever, failed>>
  /\ UNCHANGED <<conf, side, peer, taken, appBuf, missing, interaction, shutting, mutex>>

\* handshake_thread_request_certificate: the server asks for a certificate and the
\* client has none; the interaction may have failed with an error of its own.
RequestCertificate(withError) ==
  /\ Handshaking /\ op["both"].pc = "library" /\ ~ever /\ ~missing
  /\ missing' = TRUE /\ interaction' = withError
  /\ UNCHANGED <<conf, side, op, cancelled, peer, taken, appBuf, delivered, ever, need,
                 failed, readOk, shutting, mutex>>

\* The peer closes its end, with or without a close_notify.  External.
PeerCloses(how) ==
  /\ peer = "up"
  /\ peer' = how
  /\ UNCHANGED <<conf, side, op, cancelled, taken, appBuf, delivered, ever, need, failed,
                 missing, interaction, readOk, shutting, mutex>>
=============================================================================
