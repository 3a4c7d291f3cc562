--------------------------- MODULE ConnectionIo ---------------------------
(***************************************************************************)
(* The calls of TlsIo over GnuTLS or OpenSSL, chosen when the connection   *)
(* is made: what an application may rely on whichever it is.               *)
(***************************************************************************)
EXTENDS GnutlsIo, OpensslIo

CONSTANTS
  Timeouts,     \* timeouts the calls of each actor are made with: -1 blocks, 0 does not
  Cancellable   \* the actors whose calls may be cancelled

ASSUME CallsAssumption ==
  Timeouts \in [Actors -> SUBSET {-1, 0, 1}] /\ Cancellable \subseteq Actors

\* A step of the thread that makes the call.
CallStep(a) == Claim(a) \/ GnutlsStep(a) \/ OpensslStep(a) \/ Yield(a)

Application ==
  \E a \in Actors :
    \/ \E kind \in Kinds[a], timeout \in Timeouts[a] : Start(a, kind, timeout)
    \/ a \in Cancellable /\ Cancel(a)

Environment ==
  \/ \E withError \in BOOLEAN : RequestCertificate(withError)
  \/ \E how \in {"notified", "gone"} : PeerCloses(how)

Next == (\E a \in Actors : CallStep(a)) \/ Application \/ Environment

Spec == Init /\ [][Next]_vars

\* A thread goes on with its call; an attempt of OpenSSL, whose BIO never blocks,
\* comes to an end; and ssl_mutex is given to whoever waits for it.
Fairness ==
  \A a \in Actors :
    /\ WF_vars(CallStep(a)) /\ WF_vars(OpensslReturns(a)) /\ SF_vars(OpensslPush(a))

FairSpec == Spec /\ Fairness

-----------------------------------------------------------------------------
\* Errors a call may have set and still succeed.  Only OpenSSL does it: a refused
\* renegotiation sets one before the loop goes round again, and a read that takes
\* the end of the stream for the end of the data has set the guess of pop_io
\* (gtlsconnection-openssl.c:254) before it returns success.
BesideSuccess(a) ==
  {"none"} \cup (IF Openssl THEN {"misc"} ELSE {})
           \cup (IF Openssl /\ ~conf.notify /\ a # "both"
                   THEN {"certificate_required", "interaction"} ELSE {})

\* A call tells the application what happened: no error with success, but for
\* those, the error that goes with a status, and some error with a failure.
\* pop_io (gtlsconnection-base.c:862) leaves it to the two end functions to find
\* one when it has none.  One return of OpenSSL stands apart: a blocking DTLS call
\* whose retransmission timer has just expired returns TRY_AGAIN with no error, and
\* a handshake, which is told by its error alone, thereby succeeds.
ErrorTellsStatus ==
  \A a \in Actors : op[a].pc = "yield" /\ ~Again(a) =>
    LET r == Result(a)
    IN  /\ r.status = "OK" => r.error \in BesideSuccess(a)
        /\ r.status = "WOULD_BLOCK" => r.error = "would_block"
        /\ r.status = "TIMED_OUT" => r.error = "timed_out"
        /\ r.status = "ERROR" => r.error \notin {"none", "would_block"}
        /\ r.status = "TRY_AGAIN" => Openssl /\ conf.dtls /\ op[a].timeout = -1

\* A call blocks as long as it was asked to.  Only GnuTLS, which does not wait for
\* the datagrams of a handshake, may leave a stale WOULD_BLOCK to a call that waits.
BlocksAsAsked ==
  \A a \in Actors : op[a].pc = "yield" =>
    /\ op[a].status = "WOULD_BLOCK" =>
         op[a].timeout = 0 \/ (Gnutls /\ conf.dtls /\ op[a].kind = "handshake")
    /\ op[a].status = "TIMED_OUT" => op[a].timeout # 0

\* With require-close-notify a reader is told of the end of the data only after the
\* peer's close_notify, not when the stream just ends.  (OpenSSL forgets the
\* requirement once the connection has been closed for writing.)
NoTruncation ==
  /\ op["reader"].pc = "yield" /\ op["reader"].status = "OK" /\ op["reader"].data = <<>>
  /\ conf.notify /\ ~(Openssl /\ shutting)
  => peer = "notified"

\* The records a reader has in hand.
InHand ==
  IF op["reader"].pc = "yield" /\ op["reader"].status \in {"OK", "REHANDSHAKE"}
    THEN op["reader"].data ELSE <<>>

InOrder == delivered \o InHand \o appBuf = [i \in 1..taken |-> i]

\* Every byte the library gives out of a stream, in a read or in the middle of a
\* handshake, is returned to a reader once and in order.
NothingLost == ~conf.dtls => InOrder

\* While the library runs, the callbacks of a direction find the timeout and the
\* cancellable of the call that is running, whatever other threads do.
OwnParameters ==
  \A a \in Actors : op[a].pc = "library" => \A d \in Dirs[a] :
    /\ side[d].owner = a
    /\ side[d].timeout = IF Gnutls THEN op[a].timeout ELSE 0

\* A cancelled call ends, whatever the peer does.
CancelEnds ==
  \A a \in Actors :
    (a \in cancelled /\ op[a].pc \in {"push", "library", "again", "wait"})
      ~> op[a].pc \in {"yield", "idle", "claim"}
=============================================================================
