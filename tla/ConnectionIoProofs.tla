------------------------ MODULE ConnectionIoProofs ------------------------
(***************************************************************************)
(* Proofs about ConnectionIo, for every number of records and of messages, *)
(* every set of timeouts and of faults: what a call on a connection does   *)
(* and reports, over GnuTLS or OpenSSL.                                    *)
(***************************************************************************)
EXTENDS ConnectionIo, SequenceTheorems, TLAPS

-----------------------------------------------------------------------------
(***************************************************************************)
(* The inductive invariant.                                                *)
(***************************************************************************)
Pcs == {"idle", "claim", "push", "library", "again", "wait", "yield"}
CallKinds == {"none", "read", "receive", "write", "send", "handshake", "close"}
Errnos == {"none", "EINTR", "EAGAIN", "EMSGSIZE", "EIO", "zero"}

Call ==
  [pc : Pcs, kind : CallKinds, timeout : {-1, 0, 1}, got : 0..MaxMessages,
   data : Seq(1..MaxUnits), status : Statuses, error : Errors, errno : Errnos]

\* The types of calls, directions and data.
IoTypes ==
  /\ op \in [Actors -> Call]
  /\ side \in [Sides -> [timeout : {-1, 0, 1}, owner : Actors \cup {"none"},
                         error : BaseErrors \cup {"none"}]]
  /\ taken \in 0..MaxUnits
  /\ appBuf \in Seq(1..MaxUnits) /\ delivered \in Seq(1..MaxUnits)
  /\ conf.dtls => conf.notify

\* A call that claim_op has let in.
Holding(a) == op[a].pc \notin {"idle", "claim"}

\* A handshake or a close is alone.
Alone == Holding("both") => ~Holding("reader") /\ ~Holding("writer")

\* What each actor calls.
KindFits(a) ==
  op[a].pc # "idle" =>
    op[a].kind \in CASE a = "reader" -> IF conf.dtls THEN {"receive"} ELSE {"read"}
                     [] a = "writer" -> IF conf.dtls THEN {"send"} ELSE {"write"}
                     [] a = "both" -> {"handshake", "close"}

\* The directions are those of the call that runs, and what a callback has left
\* there is a failure, unless the call does not block, GnuTLS did not wait for a
\* datagram, or OpenSSL is about to say so: its callbacks leave nothing but what
\* the last of them has failed with.
SidesFit(a) ==
  op[a].pc = "library" => \A d \in Dirs[a] :
    /\ side[d].owner = a
    /\ side[d].timeout = IF Gnutls THEN op[a].timeout ELSE 0
    /\ side[d].error = "would_block" =>
         IF Gnutls THEN op[a].timeout = 0 \/ (conf.dtls /\ op[a].kind = "handshake")
         ELSE op[a].errno = "EAGAIN"
    /\ side[d].error = "timed_out" => Gnutls /\ op[a].timeout # 0
    /\ Openssl /\ side[d].error # "none" => op[a].errno \in {"EAGAIN", "EIO"}

\* No failure, though OpenSSL may have left the error of a refused renegotiation.
Harmless(a) == op[a].error = "none" \/ (Openssl /\ op[a].error = "misc")

\* What a call has in its hands before it ends.
Pending(a) ==
  /\ op[a].pc = "claim" => op[a].status \in {"OK", "REHANDSHAKE"}
  /\ op[a].pc \in {"push", "library"} => op[a].status \in {"OK", "REHANDSHAKE", "TRY_AGAIN"}
  /\ op[a].pc \in {"again", "wait"} => op[a].status = "TRY_AGAIN"
  /\ op[a].pc \notin {"idle", "yield"} => Harmless(a)
  /\ op[a].pc # "idle" /\ op[a].status = "TRY_AGAIN" => Openssl

\* What it has when it ends.
Ended(a) ==
  op[a].pc = "yield" =>
    /\ op[a].status = "OK" => op[a].error \in BesideSuccess(a)
    /\ op[a].status = "REHANDSHAKE" => Harmless(a)
    /\ op[a].status = "WOULD_BLOCK" =>
         /\ op[a].error = "would_block"
         /\ op[a].timeout = 0 \/ (Gnutls /\ conf.dtls /\ op[a].kind = "handshake")
    /\ op[a].status = "TIMED_OUT" => op[a].error = "timed_out" /\ op[a].timeout # 0
    /\ op[a].status = "ERROR" => op[a].error \notin {"none", "would_block"}
    /\ op[a].status = "TRY_AGAIN" => Openssl /\ conf.dtls /\ op[a].timeout = -1

\* Only a reader has anything to give.
DataFits(a) == a # "reader" => op[a].data = <<>>

CallInv(a) == KindFits(a) /\ SidesFit(a) /\ Pending(a) /\ Ended(a) /\ DataFits(a)

\* A reader asks the library only when nothing is buffered, and has nothing to
\* give when it must handshake first.
ReaderFits ==
  /\ op["reader"].pc \in {"push", "library", "again", "wait"} => appBuf = <<>>
  /\ ~conf.dtls /\ op["reader"].pc = "yield" /\ op["reader"].status = "REHANDSHAKE"
       => op["reader"].data = <<>>

\* Nothing is missing of what the library has given out of a stream.
ReaderInv == ReaderFits /\ NoTruncation /\ NothingLost

IoInv == IoTypes /\ Alone /\ (\A a \in Actors : CallInv(a)) /\ ReaderInv

-----------------------------------------------------------------------------
(***************************************************************************)
(* What a step leaves alone.                                               *)
(***************************************************************************)
LEMMA OneCall ==
  ASSUME op \in [Actors -> Call], NEW a \in Actors, NEW r \in Call,
         op' = [op EXCEPT ![a] = r]
  PROVE  /\ op' \in [Actors -> Call]
         /\ op'[a] = r
         /\ \A b \in Actors \ {a} : op'[b] = op[b]
OBVIOUS

LEMMA BackendsDiffer == ~(Gnutls /\ Openssl)
BY DEF Gnutls, Openssl

\* Two calls that hold the connection are in different directions.
LEMMA Disjoint ==
  ASSUME Alone, NEW a \in Actors, NEW b \in Actors, a # b, Holding(a), Holding(b)
  PROVE  Dirs[a] \cap Dirs[b] = {}
BY DEF Alone, Actors, Dirs, Sides

LEMMA CallStays ==
  ASSUME NEW b \in Actors, CallInv(b), conf' = conf, op'[b] = op[b],
         op[b].pc = "library" => \A d \in Dirs[b] : side'[d] = side[d]
  PROVE  CallInv(b)'
<1>1. KindFits(b)'
  BY DEF CallInv, KindFits
<1>2. SidesFit(b)'
  BY DEF CallInv, SidesFit, Gnutls, Openssl
<1>3. Pending(b)' /\ Ended(b)' /\ DataFits(b)'
  BY DEF CallInv, Pending, Ended, DataFits, Harmless, BesideSuccess, Gnutls, Openssl
<1> QED BY <1>1, <1>2, <1>3 DEF CallInv

\* A call that goes on, in its own directions, when it has the connection.
LEMMA OneMoves ==
  ASSUME IoInv, NEW a \in Actors, conf' = conf,
         \A b \in Actors \ {a} : op'[b] = op[b],
         side' = side \/ (Holding(a) /\ \A d \in Sides \ Dirs[a] : side'[d] = side[d]),
         Holding(a)' => Holding(a),
         CallInv(a)'
  PROVE  Alone' /\ \A b \in Actors : CallInv(b)'
<1>1. Alone'
  BY DEF IoInv, Alone, Holding, Actors
<1>2. ASSUME NEW b \in Actors, b # a PROVE CallInv(b)'
  <2>1. op[b].pc = "library" => \A d \in Dirs[b] : side'[d] = side[d]
    <3>1. op[b].pc = "library" => Holding(b)
      BY DEF Holding
    <3>2. \A d \in Dirs[b] : d \in Sides
      BY DEF Dirs, Sides, Actors
    <3> QED BY <3>1, <3>2, <1>2, Disjoint DEF IoInv
  <2> QED BY <2>1, <1>2, CallStays DEF IoInv
<1> QED BY <1>1, <1>2

\* The reader looks on, or goes on without an end.
LEMMA ReaderWaits ==
  ASSUME ReaderInv, conf' = conf, appBuf' = appBuf, delivered' = delivered, taken' = taken,
         shutting => shutting', peer = "notified" => peer' = "notified",
         \/ op'["reader"] = op["reader"]
         \/ /\ op["reader"].pc # "yield" /\ op'["reader"].pc # "yield"
            /\ op'["reader"].pc \in {"push", "library", "again", "wait"} =>
                 appBuf = <<>> \/ op["reader"].pc \in {"push", "library", "again", "wait"}
  PROVE  ReaderInv'
<1>1. ReaderFits'
  BY DEF ReaderInv, ReaderFits
<1>2. NoTruncation'
  BY DEF ReaderInv, NoTruncation, Openssl
<1>3. InHand' = InHand
  BY DEF InHand
<1>4. NothingLost'
  BY <1>3 DEF ReaderInv, NothingLost, InOrder
<1> QED BY <1>1, <1>2, <1>4 DEF ReaderInv

-----------------------------------------------------------------------------
(***************************************************************************)
(* The application and the environment.                                    *)
(***************************************************************************)
LEMMA IdleCall == IdleOp \in Call
BY BoundsAssumption DEF IdleOp, Call, Pcs, CallKinds, Errnos, Statuses, Errors

LEMMA IoInit == Init => IoInv
<1> SUFFICES ASSUME Init PROVE IoInv
  OBVIOUS
<1>1. IoTypes
  <2>1. IdleOp \in Call
    BY IdleCall
  <2>2. [timeout |-> 0, owner |-> "none", error |-> "none"]
          \in [timeout : {-1, 0, 1}, owner : Actors \cup {"none"}, error : BaseErrors \cup {"none"}]
    OBVIOUS
  <2> QED BY <2>1, <2>2, BoundsAssumption DEF Init, IoTypes
<1>2. \A a \in Actors : op[a] = IdleOp
  BY DEF Init
<1>3. Alone
  BY <1>2 DEF Alone, Holding, IdleOp, Actors
<1>4. ASSUME NEW a \in Actors PROVE CallInv(a)
  BY <1>2 DEF CallInv, KindFits, SidesFit, Pending, Ended, DataFits, IdleOp
<1>5. op["reader"].pc = "idle" /\ InHand = <<>>
  BY <1>2 DEF IdleOp, Actors, InHand
<1>6. ReaderInv
  <2>1. InOrder
    BY <1>5 DEF Init, InOrder
  <2> QED BY <1>5, <2>1 DEF ReaderInv, ReaderFits, NoTruncation, NothingLost
<1> QED BY <1>1, <1>3, <1>4, <1>6 DEF IoInv

LEMMA StartKeeps ==
  ASSUME IoInv, NEW a \in Actors, NEW kind \in Kinds[a], NEW timeout \in Timeouts[a],
         Start(a, kind, timeout)
  PROVE  IoInv'
<1> DEFINE r == [IdleOp EXCEPT !.pc = "claim", !.kind = kind, !.timeout = timeout]
<1>1. kind \in CASE a = "reader" -> IF conf.dtls THEN {"receive"} ELSE {"read"}
                 [] a = "writer" -> IF conf.dtls THEN {"send"} ELSE {"write"}
                 [] a = "both" -> {"handshake", "close"}
  BY DEF Kinds, Actors
<1>2. kind \in CallKinds /\ timeout \in {-1, 0, 1}
  BY <1>1, CallsAssumption DEF Actors, CallKinds
<1>3. /\ r \in Call /\ r.pc = "claim" /\ r.kind = kind /\ r.status = "OK" /\ r.error = "none"
      /\ r.data = <<>>
  <2>1. r \in Call
    BY <1>2, IdleCall DEF Call, Pcs
  <2> QED BY <2>1 DEF IdleOp
<1> HIDE DEF r
<1>4. op' = [op EXCEPT ![a] = r] /\ op[a].pc = "idle"
  BY DEF Start, r
<1>5. /\ op' \in [Actors -> Call] /\ op'[a] = r /\ \A b \in Actors \ {a} : op'[b] = op[b]
  BY <1>3, <1>4, OneCall DEF IoInv, IoTypes
<1>6. CallInv(a)'
  BY <1>1, <1>3, <1>5 DEF CallInv, KindFits, SidesFit, Pending, Ended, DataFits, Harmless, Start
<1>7. Alone' /\ \A b \in Actors : CallInv(b)'
  BY <1>3, <1>5, <1>6, OneMoves DEF Start, Holding
<1>8. ReaderInv'
  BY <1>3, <1>4, <1>5, ReaderWaits DEF IoInv, Start, Actors
<1>9. IoTypes'
  BY <1>5 DEF IoInv, IoTypes, Start
<1> QED BY <1>7, <1>8, <1>9 DEF IoInv

\* A step that touches neither the calls nor the data.
LEMMA Elsewhere ==
  ASSUME IoInv, conf' = conf, op' = op, side' = side, appBuf' = appBuf,
         delivered' = delivered, taken' = taken,
         shutting => shutting', peer = "notified" => peer' = "notified"
  PROVE  IoInv'
<1>1. \A a \in Actors : CallInv(a)'
  BY CallStays DEF IoInv
<1>2. ReaderInv'
  BY ReaderWaits DEF IoInv
<1> QED BY <1>1, <1>2 DEF IoInv, IoTypes, Alone, Holding

LEMMA EnvironmentKeeps ==
  ASSUME IoInv, UNCHANGED vars \/ Environment \/ \E a \in Actors : Cancel(a)
  PROVE  IoInv'
<1>1. CASE UNCHANGED vars
  BY <1>1, Elsewhere DEF vars
<1>2. CASE Environment
  BY <1>2, Elsewhere DEF Environment, RequestCertificate, PeerCloses
<1>3. CASE \E a \in Actors : Cancel(a)
  BY <1>3, Elsewhere DEF Cancel
<1> QED BY <1>1, <1>2, <1>3

-----------------------------------------------------------------------------
(***************************************************************************)
(* The ways a call is updated, as facts about the fields it has then.      *)
(***************************************************************************)
\* The fields that no step changes while the call lasts.
SameCall(a) ==
  /\ op'[a].kind = op[a].kind /\ op'[a].timeout = op[a].timeout /\ op'[a].got = op[a].got

LEMMA Fields ==
  ASSUME op \in [Actors -> Call], NEW a \in Actors
  PROVE  /\ op[a] \in Call /\ op[a].status \in Statuses /\ op[a].error \in Errors
         /\ op[a].errno \in Errnos /\ op[a].data \in Seq(1..MaxUnits) /\ op[a].pc \in Pcs
BY DEF Call

MovesAs(a, p, n) ==
  \/ op' = [op EXCEPT ![a].pc = p] /\ n = op[a].errno
  \/ op' = [op EXCEPT ![a].errno = n] /\ p = op[a].pc
  \/ op' = [op EXCEPT ![a].pc = p, ![a].errno = n]

LEMMA MovesTo ==
  ASSUME op \in [Actors -> Call], NEW a \in Actors, NEW p \in Pcs, NEW n \in Errnos,
         MovesAs(a, p, n)
  PROVE  /\ op' \in [Actors -> Call] /\ \A b \in Actors \ {a} : op'[b] = op[b]
         /\ op'[a].pc = p /\ op'[a].errno = n
         /\ op'[a].status = op[a].status /\ op'[a].error = op[a].error
         /\ op'[a].data = op[a].data /\ SameCall(a)
<1> DEFINE r == [op[a] EXCEPT !.pc = p, !.errno = n]
<1>1. r \in Call /\ op[a] \in Call
  BY DEF Call
<1>2. /\ r.pc = p /\ r.errno = n /\ r.status = op[a].status /\ r.error = op[a].error
      /\ r.data = op[a].data /\ r.kind = op[a].kind /\ r.timeout = op[a].timeout
      /\ r.got = op[a].got
  BY <1>1 DEF Call
<1>3. op' = [op EXCEPT ![a] = r]
  <2>1. CASE op' = [op EXCEPT ![a].pc = p] /\ n = op[a].errno
    <3>1. r = [op[a] EXCEPT !.pc = p]
      BY <1>1, <2>1 DEF Call
    <3> QED BY <2>1, <3>1
  <2>2. CASE op' = [op EXCEPT ![a].errno = n] /\ p = op[a].pc
    <3>1. r = [op[a] EXCEPT !.errno = n]
      BY <1>1, <2>2 DEF Call
    <3> QED BY <2>2, <3>1
  <2>3. CASE op' = [op EXCEPT ![a].pc = p, ![a].errno = n]
    BY <2>3
  <2> QED BY <2>1, <2>2, <2>3 DEF MovesAs
<1> HIDE DEF r
<1> QED BY <1>1, <1>2, <1>3, OneCall DEF SameCall

FailsAs(a, e) ==
  op' = [op EXCEPT ![a].pc = "yield", ![a].status = "ERROR", ![a].error = e]

LEMMA FailsWith ==
  ASSUME op \in [Actors -> Call], NEW a \in Actors, NEW e \in Errors,
         FailsAs(a, e)
  PROVE  /\ op' \in [Actors -> Call] /\ \A b \in Actors \ {a} : op'[b] = op[b]
         /\ op'[a].pc = "yield" /\ op'[a].status = "ERROR" /\ op'[a].error = e
         /\ op'[a].data = op[a].data /\ SameCall(a)
<1> DEFINE r == [op[a] EXCEPT !.pc = "yield", !.status = "ERROR", !.error = e]
<1>1. "ERROR" \in Statuses /\ "yield" \in Pcs
  BY DEF Statuses, Pcs
<1>2. r \in Call /\ op[a] \in Call
  BY <1>1 DEF Call
<1>3. /\ r.pc = "yield" /\ r.status = "ERROR" /\ r.error = e
      /\ r.data = op[a].data /\ r.kind = op[a].kind /\ r.timeout = op[a].timeout
      /\ r.got = op[a].got
  BY <1>2 DEF Call
<1>4. op' = [op EXCEPT ![a] = r]
  BY DEF FailsAs
<1> HIDE DEF r
<1> QED BY <1>2, <1>3, <1>4, OneCall DEF SameCall

\* The end of an attempt of either library.
EndsAs(a, p, end, data) ==
  op' = [op EXCEPT ![a].pc = p, ![a].status = end.status, ![a].data = data,
                   ![a].errno = "none",
                   ![a].error = IF @ = "none" THEN end.error ELSE @]

LEMMA EndsWith ==
  ASSUME op \in [Actors -> Call], NEW a \in Actors, NEW p \in Pcs, NEW end,
         end.status \in Statuses, end.error \in Errors, NEW data \in Seq(1..MaxUnits),
         EndsAs(a, p, end, data)
  PROVE  /\ op' \in [Actors -> Call] /\ \A b \in Actors \ {a} : op'[b] = op[b]
         /\ op'[a].pc = p /\ op'[a].status = end.status /\ op'[a].data = data
         /\ op'[a].error = IF op[a].error = "none" THEN end.error ELSE op[a].error
         /\ SameCall(a)
<1> DEFINE error == IF op[a].error = "none" THEN end.error ELSE op[a].error
           r == [op[a] EXCEPT !.pc = p, !.status = end.status, !.data = data,
                              !.errno = "none", !.error = error]
<1>1. "none" \in Errnos /\ op[a] \in Call /\ error \in Errors
  BY DEF Errnos, Call
<1>2. op' = [op EXCEPT ![a] = r]
  BY <1>1 DEF Call, EndsAs
<1> HIDE DEF error
<1>3. r \in Call
  BY <1>1 DEF Call
<1>4. /\ r.pc = p /\ r.status = end.status /\ r.data = data /\ r.error = error
      /\ r.kind = op[a].kind /\ r.timeout = op[a].timeout /\ r.got = op[a].got
  BY <1>1 DEF Call
<1> HIDE DEF r
<1> QED BY <1>2, <1>3, <1>4, OneCall DEF SameCall, error

-----------------------------------------------------------------------------
(***************************************************************************)
(* The data: what a reader gets is the next record, or nothing.            *)
(***************************************************************************)
Numbers(n) == [i \in 1..n |-> i]

LEMMA NextNumber ==
  ASSUME NEW n \in Nat
  PROVE  /\ Numbers(n) \in Seq(Nat) /\ Len(Numbers(n)) = n
         /\ Numbers(n) \o <<n + 1>> = Numbers(n + 1)
<1>1. Numbers(n) \in Seq(Nat) /\ Len(Numbers(n)) = n
  BY DEF Numbers
<1>2. /\ Numbers(n) \o <<n + 1>> \in Seq(Nat) /\ Len(Numbers(n) \o <<n + 1>>) = n + 1
      /\ \A i \in 1..(n + 1) : (Numbers(n) \o <<n + 1>>)[i] = i
  BY <1>1 DEF Numbers
<1>3. Numbers(n + 1) \in Seq(Nat) /\ Len(Numbers(n + 1)) = n + 1
  BY DEF Numbers
<1> QED BY <1>1, <1>2, <1>3 DEF Numbers

LEMMA FirstOf ==
  ASSUME NEW S, NEW s \in Seq(S), s # <<>>
  PROVE  Len(s) > 0 /\ Head(s) = s[1] /\ s[1] \in S
<1>1. Len(s) \in Nat \ {0}
  BY EmptySeq
<1>2. 1 \in 1..Len(s)
  BY <1>1
<1> QED BY <1>1, <1>2

LEMMA Joined ==
  ASSUME NEW S, NEW s \in Seq(S), NEW t \in Seq(S)
  PROVE  s \o <<>> = s /\ <<>> \o s = s /\ s \o t \in Seq(S)
OBVIOUS

\* What the end of an attempt gives a reader.
Gives(a, status, data) ==
  /\ \/ data = <<>>
     \/ a = "reader" /\ status = "OK" /\ taken < MaxUnits /\ data = <<taken + 1>>
  /\ a = "reader" /\ status = "OK" /\ data = <<>> =>
       peer = "notified" \/ ~conf.notify \/ (Openssl /\ shutting)

LEMMA GivenIsTyped ==
  ASSUME IoTypes, NEW a, NEW status, NEW data, Gives(a, status, data)
  PROVE  /\ data \in Seq(1..MaxUnits)
         /\ taken + Len(data) \in 0..MaxUnits
         /\ data = <<>> => taken + Len(data) = taken
<1>1. CASE data = <<>>
  BY <1>1 DEF IoTypes
<1>2. CASE taken < MaxUnits /\ data = <<taken + 1>>
  BY <1>2, BoundsAssumption DEF IoTypes
<1> QED BY <1>1, <1>2 DEF Gives

-----------------------------------------------------------------------------
(***************************************************************************)
(* The end of an attempt, whichever library makes it.                      *)
(***************************************************************************)
\* What is reported agrees with what the callbacks have left.
Reports(a, end) ==
  /\ end.status \in Statuses /\ end.error \in Errors
  /\ end.status = "OK" => end.error \in BesideSuccess(a)
  /\ end.status = "REHANDSHAKE" => end.error = "none" \/ (Openssl /\ end.error = "misc")
  /\ end.status = "WOULD_BLOCK" =>
       /\ Gnutls /\ end.error = "would_block"
       /\ op[a].timeout = 0 \/ (Gnutls /\ conf.dtls /\ op[a].kind = "handshake")
  /\ end.status = "TIMED_OUT" => Gnutls /\ end.error = "timed_out" /\ op[a].timeout # 0
  /\ end.status = "ERROR" => end.error \notin {"none", "would_block"}
  /\ end.status = "TRY_AGAIN" => Openssl /\ end.error = "none"

LEMMA EndKeeps ==
  ASSUME IoInv, NEW a \in Actors, op[a].pc = "library", NEW end, NEW data,
         Reports(a, end), Gives(a, end.status, data),
         NEW p, p = IF end.status = "TRY_AGAIN" THEN "again" ELSE "yield",
         EndsAs(a, p, end, data),
         side' = PopIo(a), taken' = taken + Len(data),
         UNCHANGED <<conf, peer, appBuf, delivered, shutting>>
  PROVE  IoInv'
<1>1. p \in Pcs /\ p \in {"again", "yield"}
  BY DEF Pcs
<1>2. /\ data \in Seq(1..MaxUnits) /\ taken' \in 0..MaxUnits
      /\ data = <<>> => taken' = taken
  BY GivenIsTyped DEF IoInv
<1>3. /\ op' \in [Actors -> Call] /\ \A b \in Actors \ {a} : op'[b] = op[b]
      /\ op'[a].pc = p /\ op'[a].status = end.status /\ op'[a].data = data
      /\ op'[a].error = IF op[a].error = "none" THEN end.error ELSE op[a].error
      /\ SameCall(a)
  BY <1>1, <1>2, EndsWith DEF IoInv, IoTypes, Reports
<1>4. /\ side' \in [Sides -> [timeout : {-1, 0, 1}, owner : Actors \cup {"none"},
                             error : BaseErrors \cup {"none"}]]
      /\ \A d \in Sides \ Dirs[a] : side'[d] = side[d]
  BY DEF IoInv, IoTypes, PopIo
<1>5. IoTypes'
  BY <1>2, <1>3, <1>4 DEF IoInv, IoTypes
<1>6. CallInv(a)'
  <2>1. CallInv(a)
    BY DEF IoInv
  <2>2. KindFits(a)'
    BY <1>3, <2>1 DEF CallInv, KindFits, SameCall
  <2>3. SidesFit(a)'
    BY <1>1, <1>3 DEF SidesFit
  <2>4. Harmless(a)
    BY <2>1 DEF CallInv, Pending
  <2>5. Pending(a)'
    BY <1>1, <1>3, <2>4 DEF Reports, Pending, Harmless, Openssl
  <2>6. Ended(a)'
    BY <1>1, <1>3, <2>4, BackendsDiffer
       DEF Reports, Ended, Harmless, BesideSuccess, SameCall, Openssl, Gnutls
  <2>7. DataFits(a)'
    BY <1>3 DEF DataFits, Gives
  <2> QED BY <2>2, <2>3, <2>5, <2>6, <2>7 DEF CallInv
<1>7. Alone' /\ \A b \in Actors : CallInv(b)'
  BY <1>3, <1>4, <1>6, OneMoves DEF Holding
<1>8. ReaderInv'
  <2>1. CASE a # "reader"
    <3>1. op'["reader"] = op["reader"] /\ data = <<>>
      BY <1>3, <2>1 DEF Actors, Gives
    <3> QED BY <1>2, <3>1, ReaderWaits DEF IoInv
  <2>2. CASE a = "reader"
    <3>1. appBuf = <<>> /\ InHand = <<>>
      BY <2>2 DEF IoInv, ReaderInv, ReaderFits, InHand
    <3>2. ReaderFits'
      BY <1>1, <1>3, <2>2, <3>1 DEF ReaderFits, Gives
    <3>3. NoTruncation'
      BY <1>1, <1>3, <2>2 DEF NoTruncation, Gives, Openssl
    <3>4. ASSUME ~conf.dtls PROVE InOrder'
      <4>1. delivered = Numbers(taken)
        BY <3>1, <3>4, Joined DEF IoInv, IoTypes, ReaderInv, NothingLost, InOrder, Numbers
      <4>2. InHand' = data
        BY <1>1, <1>3, <2>2 DEF InHand, Gives
      <4>3. delivered \o data = Numbers(taken')
        <5>1. CASE data = <<>>
          BY <1>2, <4>1, <5>1, Joined DEF IoInv, IoTypes
        <5>2. CASE data = <<taken + 1>>
          <6>1. taken' = taken + 1 /\ taken \in Nat
            BY <5>2, BoundsAssumption DEF IoInv, IoTypes
          <6> QED BY <4>1, <5>2, <6>1, NextNumber
        <5> QED BY <5>1, <5>2 DEF Gives
      <4>4. delivered' \o InHand' \o appBuf' = delivered \o data
        <5>1. delivered \o data \in Seq(1..MaxUnits)
          BY <1>2, Joined DEF IoInv, IoTypes
        <5> QED BY <3>1, <4>2, <5>1, Joined
      <4> QED BY <4>3, <4>4 DEF InOrder, Numbers
    <3> QED BY <3>2, <3>3, <3>4 DEF ReaderInv, NothingLost
  <2> QED BY <2>1, <2>2
<1> QED BY <1>5, <1>7, <1>8 DEF IoInv

-----------------------------------------------------------------------------
(***************************************************************************)
(* What pop_io and the two end functions report.                           *)
(***************************************************************************)
LEMMA PoppedFrom ==
  ASSUME IoTypes, NEW a \in Actors
  PROVE  /\ PoppedError(a) \in Errors
         /\ PoppedError(a) # "none" => \E d \in Dirs[a] : PoppedError(a) = side[d].error
<1>1. \A d \in Sides : side[d].error \in BaseErrors \cup {"none"}
  BY DEF IoTypes
<1> QED BY <1>1 DEF PoppedError, Errors, Sides

LEMMA PopReports ==
  ASSUME IoTypes, NEW a \in Actors
  PROVE  LET popped == PopStatus(a, FALSE)
         IN  /\ popped.status \in {"WOULD_BLOCK", "TIMED_OUT", "ERROR"}
             /\ popped.error \in Errors
             /\ popped.status = "WOULD_BLOCK" =>
                  popped.error = "would_block" /\ PoppedError(a) = "would_block"
             /\ popped.status = "TIMED_OUT" =>
                  popped.error = "timed_out" /\ PoppedError(a) = "timed_out"
             /\ popped.status = "ERROR" => popped.error \notin {"would_block", "timed_out"}
<1>1. PoppedError(a) \in Errors
  BY PoppedFrom
<1>2. CASE PoppedError(a) = "would_block"
  BY <1>2 DEF PopStatus, Errors, BaseErrors
<1>3. CASE PoppedError(a) = "timed_out"
  BY <1>3 DEF PopStatus, Errors, BaseErrors
<1>4. CASE PoppedError(a) \notin {"would_block", "timed_out"}
  BY <1>1, <1>4 DEF PopStatus, Errors, TlsErrors
<1> QED BY <1>2, <1>3, <1>4

\* end_gnutls_io: an end without success is one of the few that a reader may take
\* for the end of the data.
LEMMA GnutlsReports ==
  ASSUME IoInv, Gnutls, NEW a \in Actors, op[a].pc = "library", NEW ret
  PROVE  /\ Reports(a, EndGnutlsIo(a, ret))
         /\ EndGnutlsIo(a, ret).status # "TRY_AGAIN"
         /\ ret = "OK" => EndGnutlsIo(a, ret).status = "OK"
         /\ EndGnutlsIo(a, ret).status = "OK" =>
              ret = "OK" \/ (ret = "PREMATURE_TERMINATION" /\ ~conf.notify)
<1> DEFINE popped == PopStatus(a, FALSE)
           end == EndGnutlsIo(a, ret)
<1>1. CASE ret = "OK"
  <2>1. end = [status |-> "OK", error |-> "none"]
    BY <1>1 DEF EndGnutlsIo, PopStatus
  <2> HIDE DEF end
  <2> QED BY <1>1, <2>1 DEF end, Reports, BesideSuccess, Statuses, Errors
<1>2. CASE ret # "OK" /\ popped.status # "ERROR"
  <2>1. end = popped
    BY <1>2 DEF EndGnutlsIo
  <2>2. /\ popped.status \in {"WOULD_BLOCK", "TIMED_OUT", "ERROR"}
        /\ popped.error \in Errors
        /\ popped.status = "WOULD_BLOCK" =>
                  popped.error = "would_block" /\ PoppedError(a) = "would_block"
        /\ popped.status = "TIMED_OUT" =>
                  popped.error = "timed_out" /\ PoppedError(a) = "timed_out"
    BY PopReports DEF IoInv
  <2>3. PoppedError(a) = "would_block" =>
          op[a].timeout = 0 \/ (Gnutls /\ conf.dtls /\ op[a].kind = "handshake")
    BY PoppedFrom DEF IoInv, CallInv, SidesFit
  <2>4. PoppedError(a) = "timed_out" => op[a].timeout # 0
    BY PoppedFrom DEF IoInv, CallInv, SidesFit
  <2> HIDE DEF end, popped
  <2>5. Reports(a, end) /\ end.status \notin {"OK", "TRY_AGAIN"}
    BY <1>2, <2>1, <2>2, <2>3, <2>4 DEF Reports, Statuses
  <2> QED BY <1>2, <2>5 DEF end
<1>3. CASE ret # "OK" /\ popped.status = "ERROR"
  <2>1. end = EndStatus(a, ret)
    BY <1>3 DEF EndGnutlsIo
  <2>2. popped.error \in Errors /\ popped.error # "would_block"
    BY <1>3, PopReports DEF IoInv
  <2>3. \/ \E e \in Errors \ {"none", "would_block"} : end = [status |-> "ERROR", error |-> e]
        \/ ret = "REHANDSHAKE" /\ end = [status |-> "REHANDSHAKE", error |-> "none"]
        \/ /\ ret = "PREMATURE_TERMINATION" /\ ~conf.notify
           /\ end = [status |-> "OK", error |-> "none"]
    <3> HIDE DEF popped
    <3> QED BY <2>1, <2>2 DEF EndStatus, popped, Errors, TlsErrors, BaseErrors
  <2> HIDE DEF end
  <2>4. /\ Reports(a, end) /\ end.status # "TRY_AGAIN"
        /\ end.status = "OK" => ret = "PREMATURE_TERMINATION" /\ ~conf.notify
    <3>1. CASE \E e \in Errors \ {"none", "would_block"} : end = [status |-> "ERROR", error |-> e]
      BY <3>1 DEF Reports, Statuses
    <3>2. CASE ret = "REHANDSHAKE" /\ end = [status |-> "REHANDSHAKE", error |-> "none"]
      BY <3>2 DEF Reports, Statuses, Errors
    <3>3. CASE /\ ret = "PREMATURE_TERMINATION" /\ ~conf.notify
               /\ end = [status |-> "OK", error |-> "none"]
      BY <3>3 DEF Reports, BesideSuccess, Statuses, Errors
    <3> QED BY <2>3, <3>1, <3>2, <3>3
  <2> QED BY <1>3, <2>4 DEF end
<1> QED BY <1>1, <1>2, <1>3

\* end_openssl_io: a read takes for the end of the data a close_notify, a stream
\* that ends when no close_notify is required, and the late errors of a connection
\* that is shutting down.
LEMMA OpensslReports ==
  ASSUME IoInv, Openssl, NEW a \in Actors, op[a].pc = "library", NEW code,
         op[a].errno = "EAGAIN" => code = "WANT",
         code = "SYSCALL_0" /\ a # "both" => op[a].errno = "zero"
  PROVE  /\ Reports(a, EndOpensslIo(a, code))
         /\ code = "NONE" => EndOpensslIo(a, code).status = "OK"
         /\ EndOpensslIo(a, code).status = "OK" /\ a = "reader" =>
              code \in {"NONE", "ZERO_RETURN"} \/ shutting \/ ~conf.notify
                \/ code = "SHUTDOWN_WHILE_IN_INIT"
<1> DEFINE popped == PopStatus(a, FALSE)
           end == EndOpensslIo(a, code)
           Good == /\ Reports(a, end)
                   /\ code = "NONE" => end.status = "OK"
                   /\ end.status = "OK" /\ a = "reader" =>
                        code \in {"NONE", "ZERO_RETURN"} \/ shutting \/ ~conf.notify
                          \/ code = "SHUTDOWN_WHILE_IN_INIT"
<1>1. CASE code = "WANT"
  <2>1. end = [status |-> "TRY_AGAIN", error |-> "none"]
    BY <1>1 DEF EndOpensslIo
  <2> HIDE DEF end
  <2>2. Good
    BY <1>1, <2>1 DEF Reports, Statuses, Errors
  <2> QED BY <2>2 DEF end
<1>2. CASE code = "NONE"
  <2>1. end = [status |-> "OK", error |-> "none"]
    BY <1>2 DEF EndOpensslIo, PopStatus, Succeeded
  <2> HIDE DEF end
  <2>2. Good
    BY <1>2, <2>1 DEF Reports, BesideSuccess, Statuses, Errors
  <2> QED BY <2>2 DEF end
<1>3. CASE code = "REFUSED"
  <2>1. end = [status |-> "ERROR", error |-> "bad_certificate"]
    BY <1>3 DEF EndOpensslIo
  <2> HIDE DEF end
  <2>2. Good
    BY <1>3, <2>1 DEF Reports, Statuses, Errors, TlsErrors
  <2> QED BY <2>2 DEF end
<1>4. CASE code \notin {"WANT", "NONE", "REFUSED"}
  <2>1. /\ popped.status = "ERROR" /\ popped.error \in Errors /\ popped.error # "would_block"
        /\ PoppedError(a) = "none" =>
             popped.error \in {"none", "certificate_required", "interaction"}
    <3>1. PoppedError(a) \notin {"would_block", "timed_out"}
      BY <1>4, PoppedFrom, BackendsDiffer DEF IoInv, CallInv, SidesFit
    <3>2. PoppedError(a) = "none" =>
            popped.error \in {"none", "certificate_required", "interaction"}
      BY DEF PopStatus
    <3> QED BY <3>1, <3>2, PopReports DEF IoInv
  <2>2. code = "SYSCALL_0" /\ a # "both" => PoppedError(a) = "none"
    BY PoppedFrom DEF IoInv, CallInv, SidesFit
  <2>3. \/ \E e \in Errors \ {"none", "would_block"} : end = [status |-> "ERROR", error |-> e]
        \/ end = [status |-> "REHANDSHAKE", error |-> "misc"]
        \/ /\ \/ code \in {"ZERO_RETURN", "SHUTDOWN_WHILE_IN_INIT"}
              \/ shutting \/ ~conf.notify
           /\ end = [status |-> "OK", error |-> "none"]
        \/ /\ code = "SYSCALL_0" /\ a # "both" /\ ~conf.notify
           /\ end = [status |-> "OK", error |-> popped.error]
    <3>1. PopStatus(a, Succeeded(code)) = popped
      <4>1. Succeeded(code) = FALSE
        BY <1>4 DEF Succeeded
      <4> QED BY <4>1 DEF PopStatus
    <3> HIDE DEF popped
    <3> QED BY <1>4, <2>1, <3>1 DEF EndOpensslIo, Errors, TlsErrors, BaseErrors
  <2> HIDE DEF end
  <2>4. Good
    <3>1. CASE \E e \in Errors \ {"none", "would_block"} : end = [status |-> "ERROR", error |-> e]
      BY <1>4, <3>1 DEF Reports, Statuses
    <3>2. CASE end = [status |-> "REHANDSHAKE", error |-> "misc"]
      BY <1>4, <3>2 DEF Reports, Statuses, Errors, TlsErrors
    <3>3. CASE /\ \/ code \in {"ZERO_RETURN", "SHUTDOWN_WHILE_IN_INIT"}
                  \/ shutting \/ ~conf.notify
               /\ end = [status |-> "OK", error |-> "none"]
      BY <1>4, <3>3 DEF Reports, BesideSuccess, Statuses, Errors
    <3>4. CASE /\ code = "SYSCALL_0" /\ a # "both" /\ ~conf.notify
               /\ end = [status |-> "OK", error |-> popped.error]
      <4>1. popped.error \in {"none", "certificate_required", "interaction"}
        BY <2>1, <2>2, <3>4
      <4>2. popped.error \in BesideSuccess(a)
        BY <3>4, <4>1 DEF BesideSuccess
      <4> HIDE DEF popped
      <4> QED BY <1>4, <2>1, <3>4, <4>2 DEF Reports, Statuses
    <3> QED BY <2>3, <3>1, <3>2, <3>3, <3>4
  <2> QED BY <2>4 DEF end
<1> QED BY <1>1, <1>2, <1>3, <1>4

-----------------------------------------------------------------------------
(***************************************************************************)
(* The steps of GnuTLS.                                                    *)
(***************************************************************************)
\* A step that only moves a call on, within the turn of the loop it is in.
LEMMA MoveKeeps ==
  ASSUME IoInv, NEW a \in Actors, Holding(a), NEW p \in Pcs, NEW n \in Errnos,
         MovesAs(a, p, n),
         op[a].pc # "yield",
         p \in {"push", "wait"} \/ (p = "library" /\ op[a].pc \in {"push", "library"}),
         p = "wait" => op[a].status = "TRY_AGAIN",
         side' \in [Sides -> [timeout : {-1, 0, 1}, owner : Actors \cup {"none"},
                              error : BaseErrors \cup {"none"}]],
         \A d \in Sides \ Dirs[a] : side'[d] = side[d],
         SidesFit(a)',
         UNCHANGED <<conf, peer, appBuf, delivered, taken, shutting>>
  PROVE  IoInv'
<1>1. /\ op' \in [Actors -> Call] /\ \A b \in Actors \ {a} : op'[b] = op[b]
      /\ op'[a].pc = p /\ op'[a].errno = n
      /\ op'[a].status = op[a].status /\ op'[a].error = op[a].error
      /\ op'[a].data = op[a].data /\ SameCall(a)
  BY MovesTo DEF IoInv, IoTypes
<1>2. CallInv(a)'
  <2>1. CallInv(a)
    BY DEF IoInv
  <2>2. KindFits(a)' /\ DataFits(a)'
    BY <1>1, <2>1 DEF Holding, CallInv, KindFits, DataFits, SameCall
  <2>3. Pending(a)' /\ Ended(a)'
    <3>1. op[a].pc \in {"push", "library", "again", "wait"}
      BY DEF Holding, IoInv, IoTypes, Call, Pcs
    <3> QED BY <1>1, <2>1, <3>1 DEF CallInv, Pending, Ended, Harmless, Openssl
  <2> QED BY <2>2, <2>3 DEF CallInv
<1>3. Alone' /\ \A b \in Actors : CallInv(b)'
  BY <1>1, <1>2, OneMoves
<1>4. ReaderInv'
  <2>1. CASE a = "reader"
    <3>1. op["reader"].pc \in {"push", "library", "again", "wait"}
      BY <2>1 DEF Holding, IoInv, IoTypes, Call, Pcs
    <3>2. op'["reader"].pc # "yield" /\ op["reader"].pc # "yield"
      BY <1>1, <2>1
    <3> QED BY <3>1, <3>2, ReaderWaits DEF IoInv
  <2>2. CASE a # "reader"
    BY <1>1, <2>2, ReaderWaits DEF IoInv, Actors
  <2> QED BY <2>1, <2>2
<1> QED BY <1>1, <1>3, <1>4 DEF IoInv, IoTypes

\* push_io: the call finds its own parameters and no error in its directions.
LEMMA PushKeeps ==
  ASSUME IoInv, NEW a \in Actors, op[a].pc = "push",
         NEW timeout, timeout = IF Gnutls THEN op[a].timeout ELSE 0,
         MovesAs(a, "library", "none"),
         side' = PushIo(a, timeout),
         UNCHANGED <<conf, peer, appBuf, delivered, taken, shutting>>
  PROVE  IoInv'
<1>1. "library" \in Pcs /\ "none" \in Errnos /\ Holding(a) /\ timeout \in {-1, 0, 1}
  BY DEF Pcs, Errnos, Holding, IoInv, IoTypes, Call
<1>2. /\ side' \in [Sides -> [timeout : {-1, 0, 1}, owner : Actors \cup {"none"},
                             error : BaseErrors \cup {"none"}]]
      /\ \A d \in Sides \ Dirs[a] : side'[d] = side[d]
      /\ \A d \in Sides : d \in Dirs[a] =>
           side'[d].owner = a /\ side'[d].timeout = timeout /\ side'[d].error = "none"
  BY <1>1 DEF IoInv, IoTypes, PushIo
<1>3. Dirs[a] \subseteq Sides
  BY DEF Dirs, Sides, Actors
<1>4. op'[a].timeout = op[a].timeout /\ op'[a].kind = op[a].kind
  BY <1>1, MovesTo DEF IoInv, IoTypes, SameCall
<1>5. SidesFit(a)'
  BY <1>2, <1>3, <1>4 DEF SidesFit, Gnutls, Openssl
<1> QED BY <1>1, <1>2, <1>5, MoveKeeps

\* A callback that has run leaves its outcome in one direction.
LEMMA CallbackKeeps ==
  ASSUME IoInv, NEW a \in Actors, op[a].pc = "library", NEW d \in Dirs[a],
         NEW e \in BaseErrors \cup {"none"}, NEW n \in Errnos,
         side' = [side EXCEPT ![d].error = e],
         MovesAs(a, "library", n),
         Openssl => op[a].errno = "none",
         e = "would_block" =>
           IF Gnutls THEN op[a].timeout = 0 \/ (conf.dtls /\ op[a].kind = "handshake")
           ELSE n = "EAGAIN",
         e = "timed_out" => Gnutls /\ op[a].timeout # 0,
         Openssl /\ e # "none" => n \in {"EAGAIN", "EIO"},
         Gnutls \/ Openssl,
         UNCHANGED <<conf, peer, appBuf, delivered, taken, shutting>>
  PROVE  IoInv'
<1>1. "library" \in Pcs /\ Holding(a)
  BY DEF Pcs, Holding
<1>2. Dirs[a] \subseteq Sides
  BY DEF Dirs, Sides, Actors
<1>3. /\ side' \in [Sides -> [timeout : {-1, 0, 1}, owner : Actors \cup {"none"},
                             error : BaseErrors \cup {"none"}]]
      /\ \A c \in Sides \ {d} : side'[c] = side[c]
      /\ side'[d].owner = side[d].owner /\ side'[d].timeout = side[d].timeout
      /\ side'[d].error = e
  BY <1>2 DEF IoInv, IoTypes
<1>4. /\ op'[a].timeout = op[a].timeout /\ op'[a].kind = op[a].kind
      /\ op'[a].errno = n /\ op'[a].pc = "library"
  BY <1>1, MovesTo DEF IoInv, IoTypes, SameCall
<1>5. SidesFit(a)'
  <2>1. SidesFit(a)
    BY DEF IoInv, CallInv
  <2>2. \A c \in Dirs[a] \ {d} : Openssl => side[c].error = "none"
    BY <2>1 DEF SidesFit
  <2> QED BY <1>2, <1>3, <1>4, <2>1, <2>2, BackendsDiffer DEF SidesFit, Gnutls, Openssl
<1> QED BY <1>1, <1>3, <1>5, MoveKeeps

\* What a callback may come back with, and why.
LEMMA OutcomesFit ==
  ASSUME NEW d \in Sides, NEW timeout, NEW outcome \in Outcomes(d, timeout)
  PROVE  /\ outcome \in BaseErrors \cup {"done", "zero"}
         /\ outcome = "would_block" => timeout = 0
         /\ outcome = "timed_out" => timeout # 0
BY BoundsAssumption DEF Outcomes, BaseErrors

\* While another call is in the library nobody shakes hands.
LEMMA HandshakesAlone ==
  ASSUME IoInv, NEW a \in Actors, op[a].pc = "library", Handshaking
  PROVE  a = "both" /\ op[a].kind = "handshake"
BY DEF IoInv, Alone, Holding, Handshaking, Actors

LEMMA GnutlsCallbacksKeep ==
  ASSUME IoInv, NEW a \in Actors, GnutlsPull(a) \/ GnutlsPush(a)
  PROVE  IoInv'
<1>1. PICK d, outcome, timeout :
        /\ d \in Dirs[a] /\ outcome \in Outcomes(d, timeout)
        /\ timeout = side[d].timeout \/ (timeout = 0 /\ conf.dtls /\ Handshaking)
        /\ CallbackEnds(a, d, outcome)
  <2>1. CASE GnutlsPull(a)
    BY <2>1 DEF GnutlsPull
  <2>2. CASE GnutlsPush(a)
    BY <2>2 DEF GnutlsPush
  <2> QED BY <2>1, <2>2
<1>2. Gnutls /\ op[a].pc = "library"
  BY DEF GnutlsPull, GnutlsPush
<1>3. d \in Sides
  BY <1>1 DEF Dirs, Sides, Actors
<1> DEFINE e == IF outcome \in {"done", "zero"} THEN "none" ELSE outcome
           n == CASE outcome = "done" -> "none"
                  [] outcome = "zero" -> "zero"
                  [] OTHER -> SetGnutlsError(outcome)
<1>4. e \in BaseErrors \cup {"none"}
  BY <1>1, <1>3, OutcomesFit
<1>5. n \in Errnos
  BY DEF Errnos, SetGnutlsError
<1>6. side[d].timeout = op[a].timeout
  BY <1>1, <1>2 DEF IoInv, CallInv, SidesFit
<1>7. /\ e = "would_block" => op[a].timeout = 0 \/ (conf.dtls /\ op[a].kind = "handshake")
      /\ e = "timed_out" => op[a].timeout # 0
  BY <1>1, <1>2, <1>3, <1>6, OutcomesFit, HandshakesAlone
<1>8. /\ side' = [side EXCEPT ![d].error = e] /\ MovesAs(a, "library", n)
      /\ UNCHANGED <<conf, peer, appBuf, delivered, taken, shutting>>
  BY <1>1, <1>2 DEF CallbackEnds, callVars, MovesAs
<1> HIDE DEF e, n
<1> QED BY <1>1, <1>2, <1>4, <1>5, <1>7, <1>8, BackendsDiffer, CallbackKeeps

LEMMA GnutlsBeginKeeps ==
  ASSUME IoInv, NEW a \in Actors, GnutlsBegin(a)
  PROVE  IoInv'
<1>1. /\ Gnutls /\ op[a].pc = "push" /\ side' = PushIo(a, op[a].timeout)
      /\ MovesAs(a, "library", "none")
      /\ UNCHANGED <<conf, peer, appBuf, delivered, taken, shutting>>
  BY DEF GnutlsBegin, callVars, MovesAs
<1> QED BY <1>1, PushKeeps

LEMMA GnutlsPullTimeoutKeeps ==
  ASSUME IoInv, NEW a \in Actors, GnutlsPullTimeout(a)
  PROVE  IoInv'
<1>1. /\ Gnutls /\ op[a].pc = "library" /\ side' = side /\ MovesAs(a, "library", "none")
      /\ UNCHANGED <<conf, peer, appBuf, delivered, taken, shutting>>
  BY DEF GnutlsPullTimeout, InLibrary, callVars, MovesAs
<1>2. "library" \in Pcs /\ "none" \in Errnos /\ Holding(a)
  BY <1>1 DEF Pcs, Errnos, Holding
<1>3. op'[a].timeout = op[a].timeout /\ op'[a].kind = op[a].kind /\ op'[a].pc = "library"
  BY <1>1, <1>2, MovesTo DEF IoInv, IoTypes, SameCall
<1>4. SidesFit(a)'
  BY <1>1, <1>3, BackendsDiffer DEF IoInv, CallInv, SidesFit, Gnutls, Openssl
<1>5. side' \in [Sides -> [timeout : {-1, 0, 1}, owner : Actors \cup {"none"},
                           error : BaseErrors \cup {"none"}]]
  BY <1>1 DEF IoInv, IoTypes
<1> QED BY <1>1, <1>2, <1>4, <1>5, MoveKeeps

\* Which calls are a reader's.
LEMMA KindsTell ==
  ASSUME IoInv, NEW a \in Actors, op[a].pc # "idle"
  PROVE  /\ op[a].kind \in {"read", "receive"} <=> a = "reader"
         /\ op[a].kind \in {"write", "send"} <=> a = "writer"
         /\ op[a].kind \in {"handshake", "close"} <=> a = "both"
<1>1. KindFits(a)
  BY DEF IoInv, CallInv
<1> QED BY <1>1 DEF KindFits, Actors

LEMMA GnutlsEndKeeps ==
  ASSUME IoInv, Gnutls, NEW a \in Actors, op[a].pc = "library", NEW ret, NEW data,
         GnutlsEnd(a, ret, data),
         \/ data = <<>> /\ (a # "reader" \/ ret # "OK")
         \/ a = "reader" /\ ret = "OK" /\ data \in Received(a)
  PROVE  IoInv'
<1> DEFINE end == EndGnutlsIo(a, ret)
<1>1. /\ Reports(a, end) /\ end.status # "TRY_AGAIN"
      /\ ret = "OK" => end.status = "OK"
      /\ end.status = "OK" => ret = "OK" \/ ~conf.notify
  BY GnutlsReports
<1>2. Gives(a, end.status, data)
  <2>1. CASE data = <<>> /\ (a # "reader" \/ ret # "OK")
    BY <1>1, <2>1 DEF Gives
  <2>2. CASE a = "reader" /\ ret = "OK" /\ data \in Received(a)
    <3>1. Reads(a)
      BY <2>2, KindsTell DEF Reads
    <3>2. \/ data = <<taken + 1>> /\ taken < MaxUnits
          \/ data = <<>> /\ peer = "notified"
      BY <2>2, <3>1 DEF Received
    <3>3. <<taken + 1>> # <<>>
      OBVIOUS
    <3> QED BY <1>1, <2>2, <3>2, <3>3 DEF Gives
  <2> QED BY <2>1, <2>2
<1>3. /\ EndsAs(a, "yield", end, data) /\ side' = PopIo(a) /\ taken' = taken + Len(data)
      /\ UNCHANGED <<conf, peer, appBuf, delivered, shutting>>
  BY DEF GnutlsEnd, EndsAs, callVars
<1> HIDE DEF end
<1> QED BY <1>1, <1>2, <1>3, EndKeeps

LEMMA GnutlsReturnsKeep ==
  ASSUME IoInv, NEW a \in Actors,
         GnutlsHandshake(a) \/ GnutlsRead(a) \/ GnutlsWrite(a) \/ GnutlsClose(a)
  PROVE  IoInv'
<1>1. CASE GnutlsHandshake(a) \/ GnutlsWrite(a) \/ GnutlsClose(a)
  <2>1. /\ Gnutls /\ op[a].pc = "library"
        /\ op[a].kind \in {"handshake", "write", "send", "close"}
    BY <1>1 DEF GnutlsHandshake, GnutlsWrite, GnutlsClose, InLibrary
  <2>2. PICK ret : GnutlsEnd(a, ret, <<>>)
    BY <1>1 DEF GnutlsHandshake, GnutlsWrite, GnutlsClose
  <2>3. a # "reader"
    BY <2>1, KindsTell
  <2> QED BY <2>1, <2>2, <2>3, GnutlsEndKeeps
<1>2. CASE GnutlsRead(a)
  <2>1. Gnutls /\ op[a].pc = "library" /\ op[a].kind \in {"read", "receive"}
    BY <1>2 DEF GnutlsRead, InLibrary
  <2>2. a = "reader"
    BY <2>1, KindsTell
  <2>3. PICK ret : IF ret = "OK" THEN \E data \in Received(a) : GnutlsEnd(a, ret, data)
                   ELSE GnutlsEnd(a, ret, <<>>)
    BY <1>2 DEF GnutlsRead
  <2>4. CASE ret = "OK"
    BY <2>1, <2>2, <2>3, <2>4, GnutlsEndKeeps
  <2>5. CASE ret # "OK"
    BY <2>1, <2>3, <2>5, GnutlsEndKeeps
  <2> QED BY <2>4, <2>5
<1> QED BY <1>1, <1>2

\* A call that fails at once.
LEMMA FailKeeps ==
  ASSUME IoInv, NEW a \in Actors, NEW e \in Errors, e \notin {"none", "would_block"},
         FailsAs(a, e), op[a].pc # "idle",
         op[a].pc # "yield",
         op[a].pc = "claim" => \A b \in Actors \ {a} : Dirs[b] \cap Dirs[a] # {} => ~Holding(b),
         UNCHANGED <<conf, side, peer, appBuf, delivered, taken, shutting>>
  PROVE  IoInv'
<1>1. /\ op' \in [Actors -> Call] /\ \A b \in Actors \ {a} : op'[b] = op[b]
      /\ op'[a].pc = "yield" /\ op'[a].status = "ERROR" /\ op'[a].error = e
      /\ op'[a].data = op[a].data /\ SameCall(a)
  BY FailsWith DEF IoInv, IoTypes
<1>2. CallInv(a)'
  <2>1. CallInv(a)
    BY DEF IoInv
  <2> QED BY <1>1, <2>1 DEF CallInv, KindFits, SidesFit, Pending, Ended, DataFits, SameCall
<1>3. Alone' /\ \A b \in Actors : CallInv(b)'
  <2>1. Alone'
    BY <1>1 DEF IoInv, Alone, Holding, Actors, Dirs, Sides
  <2>2. ASSUME NEW b \in Actors, b # a PROVE CallInv(b)'
    BY <1>1, <2>2, CallStays DEF IoInv
  <2> QED BY <1>2, <2>1, <2>2
<1>4. ReaderInv'
  <2>1. CASE a # "reader"
    BY <1>1, <2>1, ReaderWaits DEF IoInv, Actors
  <2>2. CASE a = "reader"
    <3>1. InHand = <<>> /\ InHand' = <<>>
      BY <1>1, <2>2 DEF InHand
    <3> QED BY <1>1, <2>2, <3>1 DEF IoInv, ReaderInv, ReaderFits, NoTruncation, NothingLost, InOrder
  <2> QED BY <2>1, <2>2
<1> QED BY <1>1, <1>3, <1>4 DEF IoInv, IoTypes

LEMMA GnutlsTooLargeKeeps ==
  ASSUME IoInv, NEW a \in Actors, GnutlsTooLarge(a)
  PROVE  IoInv'
<1>1. /\ op[a].pc = "push" /\ FailsAs(a, "too_large")
      /\ UNCHANGED <<conf, side, peer, appBuf, delivered, taken, shutting>>
  BY DEF GnutlsTooLarge, FailsAs, callVars
<1>2. "too_large" \in Errors
  BY DEF Errors, BaseErrors
<1> QED BY <1>1, <1>2, FailKeeps

\* Application data in the middle of a handshake is kept for the reader.
LEMMA GnutlsAppDataKeeps ==
  ASSUME IoInv, NEW a \in Actors, GnutlsAppData(a)
  PROVE  IoInv'
<1>1. /\ op[a].pc = "library" /\ op[a].kind = "handshake" /\ taken < MaxUnits
      /\ taken' = taken + 1 /\ appBuf' = Append(appBuf, taken + 1)
      /\ UNCHANGED <<op, side, conf, peer, delivered, shutting>>
  BY DEF GnutlsAppData, InLibrary, callVars
<1>2. op["reader"].pc \in {"idle", "claim"}
  BY <1>1, KindsTell DEF IoInv, Alone, Holding
<1>3. /\ appBuf \in Seq(1..MaxUnits) /\ delivered \in Seq(1..MaxUnits) /\ taken \in Nat
      /\ taken + 1 \in 1..MaxUnits
  BY <1>1, BoundsAssumption DEF IoInv, IoTypes
<1>4. IoTypes'
  BY <1>1, <1>3, BoundsAssumption DEF IoInv, IoTypes
<1>5. \A b \in Actors : CallInv(b)'
  BY <1>1, CallStays DEF IoInv
<1>6. ReaderInv'
  <2>1. InHand = <<>> /\ InHand' = <<>>
    BY <1>1, <1>2 DEF InHand
  <2>2. delivered \o Append(appBuf, taken + 1) = (delivered \o appBuf) \o <<taken + 1>>
    BY <1>3
  <2>3. ASSUME ~conf.dtls PROVE InOrder'
    <3>1. delivered \o appBuf = Numbers(taken)
      BY <1>3, <2>1, <2>3, Joined DEF IoInv, ReaderInv, NothingLost, InOrder, Numbers
    <3>2. delivered' \o InHand' \o appBuf' = delivered \o appBuf'
      BY <1>1, <1>3, <2>1, Joined
    <3> QED BY <1>1, <1>3, <2>2, <3>1, <3>2, NextNumber DEF InOrder, Numbers
  <2> QED BY <1>1, <1>2, <2>3 DEF ReaderInv, ReaderFits, NoTruncation, NothingLost
<1> QED BY <1>1, <1>4, <1>5, <1>6 DEF IoInv, Alone, Holding

LEMMA GnutlsKeeps ==
  ASSUME IoInv, NEW a \in Actors, GnutlsStep(a)
  PROVE  IoInv'
BY GnutlsBeginKeeps, GnutlsCallbacksKeep, GnutlsAppDataKeeps, GnutlsReturnsKeep,
   GnutlsTooLargeKeeps, GnutlsPullTimeoutKeeps DEF GnutlsStep

-----------------------------------------------------------------------------
(***************************************************************************)
(* The steps of OpenSSL.                                                   *)
(***************************************************************************)
LEMMA OpensslPushKeeps ==
  ASSUME IoInv, NEW a \in Actors, OpensslPush(a)
  PROVE  IoInv'
<1>1. /\ Openssl /\ op[a].pc = "push" /\ side' = PushIo(a, 0)
      /\ MovesAs(a, "library", "none")
      /\ UNCHANGED <<conf, peer, appBuf, delivered, taken, shutting>>
  BY DEF OpensslPush, callVars, MovesAs
<1> QED BY <1>1, BackendsDiffer, PushKeeps

LEMMA BioKeeps ==
  ASSUME IoInv, NEW a \in Actors, BioRead(a) \/ BioWrite(a)
  PROVE  IoInv'
<1>1. PICK d, outcome :
        d \in Dirs[a] /\ outcome \in Outcomes(d, 0) /\ BioEnds(a, d, outcome)
  <2>1. CASE BioRead(a)
    BY <2>1 DEF BioRead
  <2>2. CASE BioWrite(a)
    BY <2>2 DEF BioWrite
  <2> QED BY <2>1, <2>2
<1>2. Openssl /\ op[a].pc = "library" /\ op[a].errno = "none"
  BY DEF BioRead, BioWrite
<1>3. d \in Sides
  BY <1>1 DEF Dirs, Sides, Actors
<1> DEFINE e == IF outcome \in {"done", "zero"} THEN side[d].error ELSE outcome
           n == CASE outcome = "done" -> "none"
                  [] outcome = "zero" -> "zero"
                  [] outcome = "would_block" -> "EAGAIN"
                  [] OTHER -> "EIO"
<1>4. side[d] \in [timeout : {-1, 0, 1}, owner : Actors \cup {"none"},
                   error : BaseErrors \cup {"none"}]
  BY <1>3 DEF IoInv, IoTypes
<1>5. e \in BaseErrors \cup {"none"} /\ n \in Errnos
  BY <1>1, <1>3, <1>4, OutcomesFit DEF Errnos
<1>6. side[d].error = "none"
  BY <1>1, <1>2 DEF IoInv, CallInv, SidesFit
<1>7. /\ e = "would_block" => n = "EAGAIN"
      /\ e # "none" => n \in {"EAGAIN", "EIO"}
  BY <1>6
<1>8. e # "timed_out"
  BY <1>1, <1>3, <1>6, OutcomesFit
<1>9. /\ side' = [side EXCEPT ![d].error = e] /\ MovesAs(a, "library", n)
      /\ UNCHANGED <<conf, peer, appBuf, delivered, taken, shutting>>
  BY <1>1, <1>2 DEF BioEnds, callVars, MovesAs
<1> HIDE DEF e, n
<1> QED BY <1>1, <1>2, <1>5, <1>7, <1>8, <1>9, BackendsDiffer, CallbackKeeps

LEMMA OpensslEndKeeps ==
  ASSUME IoInv, Openssl, NEW a \in Actors, op[a].pc = "library", NEW code, NEW data,
         OpensslEnd(a, code, data),
         op[a].errno = "EAGAIN" => code = "WANT",
         code = "SYSCALL_0" /\ a # "both" => op[a].errno = "zero",
         a = "reader" => code # "SHUTDOWN_WHILE_IN_INIT",
         \/ /\ data = <<>> /\ (a # "reader" \/ code # "NONE")
            /\ code = "ZERO_RETURN" => peer = "notified"
         \/ a = "reader" /\ code = "NONE" /\ data \in SslData(a)
  PROVE  IoInv'
<1> DEFINE end == EndOpensslIo(a, code)
           p == IF end.status = "TRY_AGAIN" THEN "again" ELSE "yield"
<1>1. /\ Reports(a, end)
      /\ code = "NONE" => end.status = "OK"
      /\ end.status = "OK" /\ a = "reader" =>
           code \in {"NONE", "ZERO_RETURN"} \/ shutting \/ ~conf.notify
  BY OpensslReports
<1>2. Gives(a, end.status, data)
  <2>1. CASE /\ data = <<>> /\ (a # "reader" \/ code # "NONE")
             /\ code = "ZERO_RETURN" => peer = "notified"
    BY <1>1, <2>1 DEF Gives
  <2>2. CASE a = "reader" /\ code = "NONE" /\ data \in SslData(a)
    <3>1. Reads(a)
      BY <2>2, KindsTell DEF Reads
    <3>2. data = <<taken + 1>> /\ taken < MaxUnits
      BY <2>2, <3>1 DEF SslData
    <3>3. <<taken + 1>> # <<>>
      OBVIOUS
    <3> QED BY <1>1, <2>2, <3>2, <3>3 DEF Gives
  <2> QED BY <2>1, <2>2
<1>3. /\ EndsAs(a, p, end, data) /\ side' = PopIo(a) /\ taken' = taken + Len(data)
      /\ UNCHANGED <<conf, peer, appBuf, delivered, shutting>>
  BY DEF OpensslEnd, EndsAs, callVars
<1>4. p = IF end.status = "TRY_AGAIN" THEN "again" ELSE "yield"
  OBVIOUS
<1> HIDE DEF end, p
<1> QED BY <1>1, <1>2, <1>3, <1>4, EndKeeps

LEMMA OpensslReturnsKeep ==
  ASSUME IoInv, NEW a \in Actors, OpensslReturns(a)
  PROVE  IoInv'
<1>1. CASE OpensslWrite(a) \/ OpensslClose(a) \/ OpensslHandshake(a)
  <2>1. /\ Openssl /\ op[a].pc = "library"
        /\ op[a].kind \in {"handshake", "write", "send", "close"}
    BY <1>1 DEF OpensslWrite, OpensslClose, OpensslHandshake, InSsl
  <2>2. PICK code : /\ OpensslEnd(a, code, <<>>) /\ code # "ZERO_RETURN"
                    /\ op[a].errno = "EAGAIN" => code = "WANT"
                    /\ code = "SYSCALL_0" /\ op[a].kind # "close" => op[a].errno = "zero"
    <3>1. CASE OpensslWrite(a)
      BY <3>1 DEF OpensslWrite, BioResults, Quiet
    <3>2. CASE OpensslClose(a)
      BY <3>2 DEF OpensslClose, InSsl, BioResults, Quiet
    <3>3. CASE OpensslHandshake(a)
      BY <3>3 DEF OpensslHandshake, BioResults, Quiet
    <3> QED BY <1>1, <3>1, <3>2, <3>3
  <2>3. a # "reader" /\ (a # "both" => op[a].kind # "close")
    BY <2>1, KindsTell
  <2> QED BY <2>1, <2>2, <2>3, OpensslEndKeeps
<1>2. CASE OpensslRead(a)
  <2>1. Openssl /\ op[a].pc = "library" /\ op[a].kind \in {"read", "receive"}
    BY <1>2 DEF OpensslRead, InSsl
  <2>2. a = "reader"
    BY <2>1, KindsTell
  <2>3. PICK code :
          /\ IF code = "NONE" THEN \E data \in SslData(a) : OpensslEnd(a, code, data)
             ELSE OpensslEnd(a, code, <<>>)
          /\ code = "ZERO_RETURN" => peer = "notified"
          /\ op[a].errno = "EAGAIN" => code = "WANT"
          /\ code = "SYSCALL_0" => op[a].errno = "zero"
          /\ code # "SHUTDOWN_WHILE_IN_INIT"
    BY <1>2 DEF OpensslRead, BioResults, Quiet
  <2>4. CASE code = "NONE"
    BY <2>1, <2>2, <2>3, <2>4, OpensslEndKeeps
  <2>5. CASE code # "NONE"
    BY <2>1, <2>3, <2>5, OpensslEndKeeps
  <2> QED BY <2>4, <2>5
<1> QED BY <1>1, <1>2 DEF OpensslReturns

LEMMA OpensslWaitsKeep ==
  ASSUME IoInv, NEW a \in Actors, OpensslWaits(a) \/ OpensslWakes(a)
  PROVE  IoInv'
<1>1. PICK p \in {"push", "wait"} : MovesAs(a, p, op[a].errno)
  BY DEF OpensslWaits, OpensslWakes, MovesAs
<1>2. /\ op[a].pc \in {"again", "wait"} /\ side' = side
      /\ UNCHANGED <<conf, peer, appBuf, delivered, taken, shutting>>
  BY DEF OpensslWaits, OpensslWakes, callVars
<1>3. p \in Pcs /\ op[a].errno \in Errnos /\ Holding(a) /\ op[a].status = "TRY_AGAIN"
  BY <1>2, Fields DEF Pcs, Holding, IoInv, IoTypes, CallInv, Pending
<1>4. op'[a].pc = p
  BY <1>1, <1>3, MovesTo DEF IoInv, IoTypes
<1>5. SidesFit(a)'
  BY <1>4 DEF SidesFit
<1>6. side' \in [Sides -> [timeout : {-1, 0, 1}, owner : Actors \cup {"none"},
                           error : BaseErrors \cup {"none"}]]
  BY <1>2 DEF IoInv, IoTypes
<1> QED BY <1>1, <1>2, <1>3, <1>5, <1>6, MoveKeeps

\* The deadline of perform_openssl_io: the status is that of the timeout, or that
\* of the attempt when the timer of DTLS has expired.
LEMMA OpensslGivesUpKeeps ==
  ASSUME IoInv, NEW a \in Actors, OpensslGivesUp(a)
  PROVE  IoInv'
<1> DEFINE r == GiveUp(a)
<1>1. /\ Openssl /\ op[a].pc = "again"
      /\ op' = [op EXCEPT ![a] = r]
      /\ UNCHANGED <<conf, side, peer, appBuf, delivered, taken, shutting>>
  BY DEF OpensslGivesUp, callVars
<1>2. op[a] \in Call /\ op[a].timeout \in {-1, 0, 1}
  BY DEF IoInv, IoTypes, Call
<1>12. op[a].timeout = -1 => conf.dtls
  <2>1. op[a].timeout >= 0 \/ conf.dtls
    BY DEF OpensslGivesUp
  <2> QED BY <2>1
<1>3. /\ r \in Call /\ r.pc = "yield" /\ r.kind = op[a].kind /\ r.timeout = op[a].timeout
      /\ r.data = op[a].data
      /\ \/ op[a].timeout = 0 /\ r.status = "WOULD_BLOCK" /\ r.error = "would_block"
         \/ op[a].timeout = 1 /\ r.status = "TIMED_OUT" /\ r.error = "timed_out"
         \/ op[a].timeout = -1 /\ r.status = op[a].status /\ r.error = op[a].error
  <2>1. CASE op[a].timeout = 0
    <3>1. r = [op[a] EXCEPT !.pc = "yield", !.status = "WOULD_BLOCK", !.error = "would_block"]
      BY <2>1 DEF GiveUp
    <3> HIDE DEF r
    <3> QED BY <1>2, <2>1, <3>1 DEF Call, Pcs, Statuses, Errors, BaseErrors
  <2>2. CASE op[a].timeout = 1
    <3>1. r = [op[a] EXCEPT !.pc = "yield", !.status = "TIMED_OUT", !.error = "timed_out"]
      BY <2>2 DEF GiveUp
    <3> HIDE DEF r
    <3> QED BY <1>2, <2>2, <3>1 DEF Call, Pcs, Statuses, Errors, BaseErrors
  <2>3. CASE op[a].timeout = -1
    <3>1. r = [op[a] EXCEPT !.pc = "yield"]
      BY <2>3 DEF GiveUp
    <3> HIDE DEF r
    <3> QED BY <1>2, <2>3, <3>1 DEF Call, Pcs
  <2> QED BY <1>2, <2>1, <2>2, <2>3
<1> HIDE DEF r
<1>4. /\ op' \in [Actors -> Call] /\ op'[a] = r /\ \A b \in Actors \ {a} : op'[b] = op[b]
  BY <1>1, <1>3, OneCall DEF IoInv, IoTypes
<1>5. op[a].status = "TRY_AGAIN"
  BY <1>1 DEF IoInv, CallInv, Pending
<1>6. CallInv(a)'
  <2>1. CallInv(a)
    BY DEF IoInv
  <2>2. KindFits(a)' /\ SidesFit(a)' /\ DataFits(a)'
    BY <1>1, <1>3, <1>4, <2>1 DEF CallInv, KindFits, SidesFit, DataFits
  <2>3. Pending(a)'
    BY <1>1, <1>3, <1>4 DEF Pending, Openssl
  <2>4. Ended(a)'
    BY <1>1, <1>12, <1>3, <1>4, <1>5 DEF Ended, Openssl
  <2> QED BY <2>2, <2>3, <2>4 DEF CallInv
<1>7. Alone' /\ \A b \in Actors : CallInv(b)'
  BY <1>1, <1>4, <1>6, OneMoves DEF Holding
<1>8. ReaderInv'
  <2>1. CASE a # "reader"
    BY <1>1, <1>4, <2>1, ReaderWaits DEF IoInv, Actors
  <2>2. CASE a = "reader"
    <3>1. op'["reader"].status \in {"WOULD_BLOCK", "TIMED_OUT", "TRY_AGAIN"}
      BY <1>3, <1>4, <1>5, <2>2
    <3>2. InHand = <<>> /\ InHand' = <<>>
      BY <1>1, <2>2, <3>1 DEF InHand
    <3> QED BY <1>1, <1>3, <1>4, <2>2, <3>1, <3>2
            DEF IoInv, ReaderInv, ReaderFits, NoTruncation, NothingLost, InOrder
  <2> QED BY <2>1, <2>2
<1> QED BY <1>1, <1>4, <1>7, <1>8 DEF IoInv, IoTypes

LEMMA OpensslKeeps ==
  ASSUME IoInv, NEW a \in Actors, OpensslStep(a)
  PROVE  IoInv'
BY OpensslPushKeeps, BioKeeps, OpensslReturnsKeep,
   OpensslGivesUpKeeps, OpensslWaitsKeep DEF OpensslStep

-----------------------------------------------------------------------------
(***************************************************************************)
(* Claims and the ends of calls.                                           *)
(***************************************************************************)
\* Who claims keeps away whoever would be in its way.
LEMMA ClaimsApart ==
  ASSUME NEW a \in Actors, MayClaim(a)
  PROVE  /\ \A b \in Actors \ {a} : Dirs[b] \cap Dirs[a] # {} => ~Holding(b)
         /\ a = "both" => ~Holding("reader") /\ ~Holding("writer")
         /\ a # "both" => ~Holding("both")
BY DEF MayClaim, Holding, Actors, Dirs, Sides

LEMMA TakeBufferedKeeps ==
  ASSUME IoInv, op["reader"].pc = "claim", MayClaim("reader"), appBuf # <<>>,
         TakeBuffered("reader"),
         UNCHANGED <<conf, side, peer, delivered, taken, shutting>>
  PROVE  IoInv'
<1> DEFINE status == IF op["reader"].kind = "read" THEN "OK" ELSE op["reader"].status
           r == [op["reader"] EXCEPT !.pc = "yield", !.data = <<Head(appBuf)>>,
                                     !.status = status]
<1>1. "reader" \in Actors
  BY DEF Actors
<1>2. /\ op["reader"] \in Call /\ "yield" \in Pcs /\ status \in Statuses
      /\ appBuf \in Seq(1..MaxUnits) /\ delivered \in Seq(1..MaxUnits)
  BY <1>1 DEF IoInv, IoTypes, Call, Pcs, Statuses
<1>3. /\ <<Head(appBuf)>> \in Seq(1..MaxUnits) /\ Tail(appBuf) \in Seq(1..MaxUnits)
      /\ <<Head(appBuf)>> \o Tail(appBuf) = appBuf /\ appBuf' = Tail(appBuf)
  <2>1. Len(appBuf) > 0 /\ Head(appBuf) = appBuf[1] /\ appBuf[1] \in 1..MaxUnits
    BY <1>2, FirstOf
  <2>2. /\ Tail(appBuf) \in Seq(1..MaxUnits) /\ Len(Tail(appBuf)) = Len(appBuf) - 1
        /\ \A i \in 1..(Len(appBuf) - 1) : Tail(appBuf)[i] = appBuf[i + 1]
    BY <1>2, <2>1
  <2>3. <<Head(appBuf)>> \in Seq(1..MaxUnits)
    BY <2>1
  <2>4. <<Head(appBuf)>> \o Tail(appBuf) = appBuf
    BY <1>2, <2>1, <2>2, <2>3
  <2> QED BY <2>2, <2>3, <2>4 DEF TakeBuffered
<1>4. op' = [op EXCEPT !["reader"] = r]
  BY <1>1, <1>2 DEF TakeBuffered, Call
<1> HIDE DEF status
<1>5. /\ r \in Call /\ r.pc = "yield" /\ r.data = <<Head(appBuf)>> /\ r.status = status
      /\ r.kind = op["reader"].kind /\ r.timeout = op["reader"].timeout
      /\ r.error = op["reader"].error
  BY <1>2, <1>3 DEF Call
<1> HIDE DEF r
<1>6. /\ op' \in [Actors -> Call] /\ op'["reader"] = r
      /\ \A b \in Actors \ {"reader"} : op'[b] = op[b]
  BY <1>1, <1>4, <1>5, OneCall DEF IoInv, IoTypes
<1>7. CallInv("reader")
  BY <1>1 DEF IoInv
<1>8. status \in {"OK", "REHANDSHAKE"} /\ (op["reader"].kind = "read" => status = "OK")
  BY <1>7 DEF CallInv, Pending, status
<1>9. CallInv("reader")'
  <2>1. KindFits("reader")' /\ SidesFit("reader")' /\ DataFits("reader")'
    BY <1>5, <1>6, <1>7 DEF CallInv, KindFits, SidesFit, DataFits
  <2>2. Pending("reader")' /\ Ended("reader")'
    BY <1>5, <1>6, <1>7, <1>8 DEF CallInv, Pending, Ended, Harmless, BesideSuccess, Openssl
  <2> QED BY <2>1, <2>2 DEF CallInv
<1>10. Alone' /\ \A b \in Actors : CallInv(b)'
  <2>1. Alone'
    BY <1>1, <1>6, ClaimsApart DEF Alone, Holding, Actors
  <2>2. ASSUME NEW b \in Actors, b # "reader" PROVE CallInv(b)'
    BY <1>6, <2>2, CallStays DEF IoInv
  <2> QED BY <1>9, <2>1, <2>2
<1>11. ReaderInv'
  <2>1. ReaderFits'
    BY <1>1, <1>5, <1>6, <1>7, <1>8 DEF ReaderFits, CallInv, KindFits
  <2>2. NoTruncation'
    <3>1. <<Head(appBuf)>> # <<>>
      OBVIOUS
    <3> QED BY <1>5, <1>6, <3>1 DEF NoTruncation
  <2>3. InHand = <<>> /\ InHand' = <<Head(appBuf)>>
    BY <1>5, <1>6, <1>8 DEF InHand
  <2>4. delivered' \o InHand' \o appBuf' = delivered \o InHand \o appBuf
    <3>1. (delivered \o <<Head(appBuf)>>) \o Tail(appBuf)
            = delivered \o (<<Head(appBuf)>> \o Tail(appBuf))
      BY <1>2, <1>3
    <3>2. delivered \o <<>> = delivered
      BY <1>2
    <3> QED BY <1>3, <2>3, <3>1, <3>2
  <2> QED BY <2>1, <2>2, <2>4 DEF IoInv, ReaderInv, NothingLost, InOrder
<1>12. IoTypes'
  BY <1>3, <1>6 DEF IoInv, IoTypes
<1> QED BY <1>10, <1>11, <1>12 DEF IoInv

LEMMA ClaimKeeps ==
  ASSUME IoInv, NEW a \in Actors, Claim(a)
  PROVE  IoInv'
<1>1. /\ op[a].pc = "claim" /\ MayClaim(a)
      /\ UNCHANGED <<conf, side, peer, delivered, taken>>
  BY DEF Claim
<1>2. CASE Refusal(a) # "none"
  <2> DEFINE e == IF op[a].error = "none" \/ Refusal(a) = "handshake" THEN Refusal(a)
                  ELSE op[a].error
  <2>1. /\ FailsAs(a, e) /\ UNCHANGED <<appBuf, shutting>>
    BY <1>2 DEF Claim, FailsAs
  <2>2. Refusal(a) \in Errors /\ Refusal(a) # "would_block"
    BY DEF Refusal, Errors, TlsErrors
  <2>3. op[a].error \in {"none", "misc"} /\ op[a].error \in Errors
    BY <1>1, Fields DEF IoInv, IoTypes, CallInv, Pending, Harmless
  <2>4. e \in Errors /\ e \notin {"none", "would_block"}
    BY <1>2, <2>2, <2>3
  <2> HIDE DEF e
  <2> QED BY <1>1, <2>1, <2>4, ClaimsApart, FailKeeps
<1>3. CASE Refusal(a) = "none" /\ HasBuffered(a)
  BY <1>1, <1>3, TakeBufferedKeeps DEF Claim, HasBuffered
<1>4. CASE Refusal(a) = "none" /\ ~HasBuffered(a)
  <2>1. /\ MovesAs(a, "push", op[a].errno) /\ appBuf' = appBuf
        /\ shutting => shutting'
    BY <1>4 DEF Claim, MovesAs
  <2>2. "push" \in Pcs /\ op[a].errno \in Errnos
    BY Fields DEF Pcs, IoInv, IoTypes
  <2>3. /\ op' \in [Actors -> Call] /\ \A b \in Actors \ {a} : op'[b] = op[b]
        /\ op'[a].pc = "push" /\ op'[a].status = op[a].status /\ op'[a].error = op[a].error
        /\ op'[a].data = op[a].data /\ SameCall(a)
    BY <2>1, <2>2, MovesTo DEF IoInv, IoTypes
  <2>4. CallInv(a)'
    <3>1. CallInv(a)
      BY DEF IoInv
    <3>2. KindFits(a)' /\ SidesFit(a)' /\ Ended(a)' /\ DataFits(a)'
      BY <1>1, <2>3, <3>1 DEF CallInv, KindFits, SidesFit, Ended, DataFits, SameCall
    <3>3. Pending(a)'
      BY <1>1, <2>3, <3>1 DEF CallInv, Pending, Harmless, Openssl
    <3> QED BY <3>2, <3>3 DEF CallInv
  <2>5. ASSUME NEW b \in Actors, b # a PROVE CallInv(b)'
    BY <1>1, <2>3, <2>5, CallStays DEF IoInv
  <2>6. Alone'
    BY <1>1, <2>3, ClaimsApart DEF Alone, Holding, Actors
  <2>7. ReaderInv'
    <3>1. CASE a = "reader"
      BY <1>1, <1>4, <2>1, <2>3, <3>1, ReaderWaits DEF IoInv, HasBuffered
    <3>2. CASE a # "reader"
      BY <1>1, <2>1, <2>3, <3>2, ReaderWaits DEF IoInv, Actors
    <3> QED BY <3>1, <3>2
  <2> QED BY <1>1, <2>1, <2>3, <2>4, <2>5, <2>6, <2>7 DEF IoInv, IoTypes
<1> QED BY <1>2, <1>3, <1>4

\* The end of a turn of the loop, of a message or of the call.
LEMMA YieldKeeps ==
  ASSUME IoInv, NEW a \in Actors, Yield(a)
  PROVE  IoInv'
<1>1. op[a].pc = "yield" /\ UNCHANGED <<conf, side, peer, taken, appBuf, shutting>>
  BY DEF Yield
<1>2. /\ op[a] \in Call /\ op[a].data \in Seq(1..MaxUnits) /\ delivered \in Seq(1..MaxUnits)
      /\ op[a].got \in 0..MaxMessages /\ appBuf \in Seq(1..MaxUnits)
  BY DEF IoInv, IoTypes, Call
<1>3. CallInv(a)
  BY DEF IoInv
<1>4. /\ delivered' \in {delivered, delivered \o op[a].data}
      /\ delivered' = IF ~Again(a) /\ op[a].status = "OK" THEN delivered \o op[a].data
                      ELSE delivered
  BY DEF Yield
<1>5. delivered' \in Seq(1..MaxUnits)
  BY <1>2, <1>4, Joined
<1>6. \E r \in Call :
        /\ op' = [op EXCEPT ![a] = r]
        /\ \/ r = IdleOp
           \/ /\ r.pc = "claim" /\ r.kind = op[a].kind /\ r.error = op[a].error
              /\ r.status = op[a].status
              /\ \/ Again(a) /\ r.data = op[a].data
                 \/ ~Again(a) /\ MoreMessages(a) /\ r.data = <<>>
  <2>1. CASE Again(a)
    <3> DEFINE r == [op[a] EXCEPT !.pc = "claim"]
    <3>1. op' = [op EXCEPT ![a] = r]
      BY <2>1 DEF Yield
    <3>2. /\ r \in Call /\ r.pc = "claim" /\ r.kind = op[a].kind /\ r.error = op[a].error
          /\ r.status = op[a].status /\ r.data = op[a].data
      BY <1>2 DEF Call, Pcs
    <3> HIDE DEF r
    <3> QED BY <2>1, <3>1, <3>2
  <2>2. CASE ~Again(a) /\ MoreMessages(a)
    <3> DEFINE r == [op[a] EXCEPT !.pc = "claim", !.got = @ + 1, !.data = <<>>]
    <3>1. op' = [op EXCEPT ![a] = r]
      BY <2>2 DEF Yield
    <3>2. op[a].got + 1 \in 0..MaxMessages
      BY <1>2, <2>2, BoundsAssumption DEF MoreMessages
    <3>3. r \in Call
      <4>1. <<>> \in Seq(1..MaxUnits) /\ "claim" \in Pcs
        BY DEF Pcs
      <4> QED BY <1>2, <3>2, <4>1 DEF Call
    <3>4. /\ r.pc = "claim" /\ r.kind = op[a].kind /\ r.error = op[a].error
          /\ r.status = op[a].status /\ r.data = <<>>
      BY <1>2 DEF Call
    <3> HIDE DEF r
    <3> QED BY <2>2, <3>1, <3>3, <3>4
  <2>3. CASE ~Again(a) /\ ~MoreMessages(a)
    BY <2>3, IdleCall DEF Yield
  <2> QED BY <2>1, <2>2, <2>3
<1>7. PICK r \in Call :
        /\ op' = [op EXCEPT ![a] = r]
        /\ \/ r = IdleOp
           \/ /\ r.pc = "claim" /\ r.kind = op[a].kind /\ r.error = op[a].error
              /\ r.status = op[a].status
              /\ \/ Again(a) /\ r.data = op[a].data
                 \/ ~Again(a) /\ MoreMessages(a) /\ r.data = <<>>
  BY <1>6
<1>8. op' \in [Actors -> Call] /\ op'[a] = r /\ \A b \in Actors \ {a} : op'[b] = op[b]
  BY <1>7, OneCall DEF IoInv, IoTypes
<1>9. r.pc \in {"idle", "claim"}
  BY <1>7 DEF IdleOp
<1>10. CallInv(a)'
  <2>1. CASE r = IdleOp
    BY <1>8, <2>1 DEF IdleOp, CallInv, KindFits, SidesFit, Pending, Ended, DataFits
  <2>2. CASE r # IdleOp
    <3>1. op[a].status \in {"OK", "REHANDSHAKE"}
      BY <1>7, <2>2 DEF Again, MoreMessages
    <3>2. KindFits(a)' /\ SidesFit(a)' /\ Ended(a)' /\ DataFits(a)'
      BY <1>1, <1>3, <1>7, <1>8, <2>2 DEF CallInv, KindFits, SidesFit, Ended, DataFits
    <3>3. Harmless(a)
      <4>1. MoreMessages(a) => conf.notify
        BY <1>1, <1>3 DEF CallInv, KindFits, MoreMessages, IoInv, IoTypes, Actors
      <4>2. Again(a) \/ MoreMessages(a)
        BY <1>7, <2>2
      <4> QED BY <1>1, <1>3, <4>1, <4>2
              DEF CallInv, Ended, Harmless, BesideSuccess, Again, MoreMessages
    <3>4. Pending(a)'
      BY <1>1, <1>3, <1>7, <1>8, <2>2, <3>1, <3>3 DEF CallInv, Pending, Harmless, Openssl
    <3> QED BY <3>2, <3>4 DEF CallInv
  <2> QED BY <2>1, <2>2
<1>11. Alone' /\ \A b \in Actors : CallInv(b)'
  BY <1>1, <1>8, <1>9, <1>10, OneMoves DEF Holding
<1>12. ReaderInv'
  <2>1. CASE a # "reader"
    <3>1. op[a].data = <<>>
      BY <1>3, <2>1 DEF CallInv, DataFits
    <3>2. delivered' = delivered
      BY <1>2, <1>4, <3>1, Joined
    <3> QED BY <1>1, <1>8, <2>1, <3>2, ReaderWaits DEF IoInv, Actors
  <2>2. CASE a = "reader"
    <3>1. InHand' = <<>> /\ ReaderFits' /\ NoTruncation'
      BY <1>8, <1>9, <2>2 DEF InHand, ReaderFits, NoTruncation
    <3>2. ASSUME ~conf.dtls PROVE delivered' = delivered \o InHand
      <4>1. CASE op[a].status = "OK"
        BY <1>1, <1>4, <2>2, <4>1 DEF InHand, Again
      <4>2. CASE op[a].status = "REHANDSHAKE"
        <5>1. InHand = <<>>
          BY <1>1, <2>2, <3>2, <4>2 DEF InHand, IoInv, ReaderInv, ReaderFits
        <5> QED BY <1>2, <1>4, <4>2, <5>1, Joined
      <4>3. CASE op[a].status \notin {"OK", "REHANDSHAKE"}
        BY <1>1, <1>2, <1>4, <2>2, <4>3, Joined DEF InHand
      <4> QED BY <4>1, <4>2, <4>3
    <3>3. delivered' \o <<>> = delivered'
      BY <1>5, Joined
    <3> QED BY <1>1, <3>1, <3>2, <3>3 DEF IoInv, ReaderInv, NothingLost, InOrder
  <2> QED BY <2>1, <2>2
<1> QED BY <1>1, <1>5, <1>8, <1>11, <1>12 DEF IoInv, IoTypes

-----------------------------------------------------------------------------
(***************************************************************************)
(* The theorems.                                                           *)
(***************************************************************************)
LEMMA IoKeeps == IoInv /\ [Next]_vars => IoInv'
<1> SUFFICES ASSUME IoInv, [Next]_vars PROVE IoInv'
  OBVIOUS
<1>1. ASSUME NEW a \in Actors, CallStep(a) PROVE IoInv'
  BY <1>1, ClaimKeeps, GnutlsKeeps, OpensslKeeps, YieldKeeps DEF CallStep
<1>2. ASSUME Application PROVE IoInv'
  BY <1>2, StartKeeps, EnvironmentKeeps DEF Application
<1>3. ASSUME Environment \/ UNCHANGED vars PROVE IoInv'
  BY <1>3, EnvironmentKeeps
<1> QED BY <1>1, <1>2, <1>3 DEF Next

\* The invariant, with the types of calls, directions and data.
THEOREM IoInvariant == Spec => []IoInv
<1>1. Init => IoInv
  BY IoInit
<1>2. IoInv /\ [Next]_vars => IoInv'
  BY IoKeeps
<1> QED BY <1>1, <1>2, PTL DEF Spec

\* The callbacks find the parameters of the call that runs.
THEOREM ParametersAreOwn == Spec => []OwnParameters
<1>1. IoInv => OwnParameters
  BY DEF IoInv, CallInv, SidesFit, OwnParameters
<1> QED BY <1>1, IoInvariant, PTL

\* Success comes without an error, but for those OpenSSL may leave beside it, and a
\* failure with the one that goes with it.
THEOREM ErrorsTellStatus == Spec => []ErrorTellsStatus
<1>1. ASSUME IoInv, NEW a \in Actors, op[a].pc = "yield", ~Again(a)
      PROVE  LET r == Result(a)
             IN  /\ r.status = "OK" => r.error \in BesideSuccess(a)
                 /\ r.status = "WOULD_BLOCK" => r.error = "would_block"
                 /\ r.status = "TIMED_OUT" => r.error = "timed_out"
                 /\ r.status = "ERROR" => r.error \notin {"none", "would_block"}
                 /\ r.status = "TRY_AGAIN" => Openssl /\ conf.dtls /\ op[a].timeout = -1
  <2>1. Ended(a)
    BY <1>1 DEF IoInv, CallInv
  <2> QED BY <1>1, <2>1 DEF Ended, BesideSuccess, Result
<1>2. IoInv => ErrorTellsStatus
  BY <1>1 DEF ErrorTellsStatus
<1> QED BY <1>2, IoInvariant, PTL

\* A call blocks as long as it was asked to, and no longer.
THEOREM CallsBlockAsAsked == Spec => []BlocksAsAsked
<1>1. IoInv => BlocksAsAsked
  BY DEF IoInv, CallInv, Ended, BlocksAsAsked
<1> QED BY <1>1, IoInvariant, PTL

\* The end of the data is not reported before the peer's close_notify, when one is
\* required.
THEOREM NothingTruncated == Spec => []NoTruncation
<1>1. IoInv => NoTruncation
  BY DEF IoInv, ReaderInv
<1> QED BY <1>1, IoInvariant, PTL

\* Every record the library gives out of a stream reaches a reader, once and in
\* order.
THEOREM RecordsReachReaders == Spec => []NothingLost
<1>1. IoInv => NothingLost
  BY DEF IoInv, ReaderInv
<1> QED BY <1>1, IoInvariant, PTL

-----------------------------------------------------------------------------
\* The fields of the connection itself, beside those of its calls.
RestTyped ==
  /\ conf \in [backend : {"gnutls", "openssl"}, dtls : BOOLEAN, notify : BOOLEAN]
  /\ cancelled \subseteq Actors
  /\ peer \in {"up", "notified", "gone"}
  /\ {ever, need, failed, missing, interaction, readOk, shutting} \subseteq BOOLEAN
  /\ mutex \in Actors \cup {"none"}

LEMMA LibraryTyped ==
  ASSUME RestTyped, NEW a \in Actors, GnutlsStep(a) \/ OpensslStep(a)
  PROVE  RestTyped'
<1> DEFINE Keeps == /\ UNCHANGED <<callVars, missing, shutting>>
                    /\ interaction' \in BOOLEAN /\ mutex' \in Actors \cup {"none"}
<1>1. ASSUME NEW b, PopInteraction(a, b)
      PROVE  interaction' \in BOOLEAN
  BY <1>1 DEF PopInteraction
<1>2. ASSUME NEW d, NEW outcome, CallbackEnds(a, d, outcome) \/ BioEnds(a, d, outcome)
      PROVE  Keeps
  BY <1>2 DEF CallbackEnds, BioEnds, RestTyped
<1>3. ASSUME NEW ret, NEW data, GnutlsEnd(a, ret, data) \/ OpensslEnd(a, ret, data)
      PROVE  Keeps
  BY <1>1, <1>3 DEF GnutlsEnd, OpensslEnd, RestTyped
<1>4. Keeps => RestTyped'
  BY DEF RestTyped, callVars
<1>5. CASE GnutlsStep(a)
  <2>1. CASE GnutlsBegin(a) \/ GnutlsAppData(a) \/ GnutlsTooLarge(a) \/ GnutlsPullTimeout(a)
    BY <2>1, <1>4 DEF GnutlsBegin, GnutlsAppData, GnutlsTooLarge, GnutlsPullTimeout, RestTyped
  <2>2. CASE GnutlsPull(a) \/ GnutlsPush(a)
    BY <2>2, <1>2, <1>4 DEF GnutlsPull, GnutlsPush
  <2> HIDE DEF Keeps
  <2>3. CASE GnutlsHandshake(a) \/ GnutlsRead(a) \/ GnutlsWrite(a) \/ GnutlsClose(a)
    BY <2>3, <1>3, <1>4 DEF GnutlsHandshake, GnutlsRead, GnutlsWrite, GnutlsClose
  <2> QED BY <1>5, <2>1, <2>2, <2>3 DEF GnutlsStep
<1>6. CASE OpensslStep(a)
  <2>1. CASE OpensslPush(a) \/ OpensslGivesUp(a) \/ OpensslWaits(a) \/ OpensslWakes(a)
    BY <2>1, <1>4 DEF OpensslPush, OpensslGivesUp, OpensslWaits, OpensslWakes, RestTyped
  <2>2. CASE BioRead(a) \/ BioWrite(a)
    BY <2>2, <1>2, <1>4 DEF BioRead, BioWrite
  <2> HIDE DEF Keeps
  <2>3. CASE OpensslReturns(a)
    BY <2>3, <1>3, <1>4 DEF OpensslReturns, OpensslRead, OpensslWrite, OpensslClose, OpensslHandshake
  <2> QED BY <1>6, <2>1, <2>2, <2>3 DEF OpensslStep
<1> QED BY <1>5, <1>6

LEMMA RestStays ==
  ASSUME RestTyped, [Next]_vars
  PROVE  RestTyped'
<1>1. ASSUME NEW a \in Actors, GnutlsStep(a) \/ OpensslStep(a)
      PROVE  RestTyped'
  BY <1>1, LibraryTyped
<1>2. ASSUME NEW a \in Actors, Claim(a)
      PROVE  RestTyped'
  BY <1>2 DEF Claim, TakeBuffered, RestTyped
<1>3. ASSUME NEW a \in Actors, Yield(a)
      PROVE  RestTyped'
  BY <1>3 DEF Yield, HasShaken, RestTyped
<1>4. ASSUME NEW a \in Actors, NEW kind, NEW timeout, Start(a, kind, timeout)
      PROVE  RestTyped'
  BY <1>4 DEF Start, RestTyped
<1>5. ASSUME NEW a \in Actors, Cancel(a)
      PROVE  RestTyped'
  BY <1>5 DEF Cancel, RestTyped
<1>6. CASE Environment
  BY <1>6 DEF Environment, RequestCertificate, PeerCloses, RestTyped
<1>7. CASE UNCHANGED vars
  BY <1>7 DEF vars, callVars, RestTyped
<1> QED BY <1>1, <1>2, <1>3, <1>4, <1>5, <1>6, <1>7 DEF Next, CallStep, Application

\* Every field of the connection and of its calls keeps its type, whichever library
\* it uses, and however its callbacks fail.
THEOREM IoTypesCorrect == Spec => []TypeOK
<1>1. Init => RestTyped
  BY DEF Init, RestTyped
<1>2. RestTyped /\ [Next]_vars => RestTyped'
  BY RestStays
<1>3. IoInv /\ RestTyped => TypeOK
  BY DEF IoInv, IoTypes, RestTyped, TypeOK, Call, Pcs, CallKinds, Errnos
<1> QED BY <1>1, <1>2, <1>3, IoInvariant, PTL DEF Spec
=============================================================================
