----------------------------- MODULE OpensslIo -----------------------------
(***************************************************************************)
(* I/O through OpenSSL, from tls/openssl/gtlsconnection-openssl.c and the  *)
(* BIO of tls/openssl/gtlsbio.c: every attempt pushes its parameters and   *)
(* holds ssl_mutex, the BIO never blocks, and perform_openssl_io waits     *)
(* between attempts, without the mutex, until its own deadline.            *)
(***************************************************************************)
EXTENDS TlsIo

Openssl == conf.backend = "openssl"

\* g_tls_connection_openssl_push_io: whatever the timeout of the call, that of the
\* attempt is 0; then the mutex.
OpensslPush(a) ==
  /\ Openssl /\ op[a].pc = "push" /\ mutex = "none"
  /\ mutex' = a
  /\ side' = PushIo(a, 0)
  /\ op' = [op EXCEPT ![a].pc = "library", ![a].errno = "none"]
  /\ UNCHANGED <<callVars, taken, appBuf, missing, interaction, shutting>>

\* What the BIO leaves of an outcome: a retry flag, an end of file or an error.
BioEnds(a, d, outcome) ==
  /\ side' = [side EXCEPT ![d].error = IF outcome \in {"done", "zero"} THEN @ ELSE outcome]
  /\ op' = [op EXCEPT ![a].errno = CASE outcome = "done" -> "none"
                                     [] outcome = "zero" -> "zero"
                                     [] outcome = "would_block" -> "EAGAIN"
                                     [] OTHER -> "EIO"]
  /\ UNCHANGED <<callVars, taken, appBuf, missing, interaction, shutting, mutex>>

\* gtls_bio_read
BioRead(a) ==
  /\ Openssl /\ op[a].pc = "library" /\ "in" \in Dirs[a] /\ op[a].errno = "none"
  /\ \E outcome \in Outcomes("in", 0) : BioEnds(a, "in", outcome)

\* gtls_bio_write
BioWrite(a) ==
  /\ Openssl /\ op[a].pc = "library" /\ "out" \in Dirs[a] /\ op[a].errno = "none"
  /\ \E outcome \in Outcomes("out", 0) : BioEnds(a, "out", outcome)

\* SSL_get_error, or the reason of SSL_ERROR_SSL, after the last callback.
\* External: OpenSSL.  SYSCALL_0 is SSL_ERROR_SYSCALL with a return value of 0.
BioResults(a) ==
  CASE op[a].errno = "EAGAIN" -> {"WANT"}
    [] op[a].errno = "EIO" -> {"SYSCALL"}
    [] op[a].errno = "zero" -> {"SYSCALL_0", "UNEXPECTED_EOF"}
    [] OTHER -> {"NONE", "OTHER"}

\* The codes of an attempt that returned more than 0.  After REFUSED, of a handshake,
\* the peer's certificate is not accepted.
Succeeded(code) == code \in {"NONE", "REFUSED"}

\* end_openssl_io, and for a handshake the verdict on the certificate.  Where a read
\* takes the end of the stream for the end of the data, it has already set the error
\* that pop_io returned.
EndOpensslIo(a, code) ==
  LET popped == PopStatus(a, Succeeded(code))
      first == Handshaking /\ ~ever
      Ok == [status |-> "OK", error |-> "none"]
      Failed(e) == [status |-> "ERROR", error |-> e]
      Or(e) == Failed(IF popped.error = "none" THEN e ELSE popped.error)
      Late == /\ code \in {"SYSCALL", "SYSCALL_0"} /\ shutting
              /\ popped.error \in {"none", "broken_pipe"}
  IN  IF code = "WANT" THEN [status |-> "TRY_AGAIN", error |-> "none"]
      ELSE IF code = "REFUSED" THEN Failed("bad_certificate")
      ELSE IF code = "ZERO_RETURN" /\ a = "reader" THEN Ok
      ELSE IF popped.status # "ERROR" THEN popped
      ELSE IF Late THEN Ok
      ELSE CASE first /\ code = "ALERT_HANDSHAKE_FAILURE" -> Or("not_tls")
             [] first /\ code = "BAD_PROTOCOL" -> Failed("not_tls")
             [] code = "SHUTDOWN_WHILE_IN_INIT" -> Ok
             [] code = "NO_CERTIFICATE" -> Failed("certificate_required")
             [] code = "VERIFY_FAILED" -> Failed("bad_certificate")
             [] code = "NO_RENEGOTIATION" -> [status |-> "REHANDSHAKE", error |-> "misc"]
             [] code = "UNEXPECTED_EOF" -> IF conf.notify THEN Failed("eof") ELSE Ok
             [] code = "SYSCALL_0" /\ a # "both" ->
                  IF conf.notify THEN Or("eof") ELSE [status |-> "OK", error |-> popped.error]
             [] OTHER -> Or("misc")

\* A record of application data: SSL_read returns at least a byte.
SslData(a) ==
  IF ~Reads(a) THEN {<<>>}
  ELSE IF taken < MaxUnits /\ peer # "gone" THEN {<<taken + 1>>} ELSE {}

\* The attempt is over: the mutex is given back and the parameters popped.  An error
\* that is already set, by an earlier turn of the loop, stays.
OpensslEnd(a, code, data) ==
  LET end == EndOpensslIo(a, code)
  IN  /\ mutex' = "none"
      /\ side' = PopIo(a)
      /\ PopInteraction(a, Succeeded(code))
      /\ taken' = taken + Len(data)
      /\ op' = [op EXCEPT ![a].pc = IF end.status = "TRY_AGAIN" THEN "again" ELSE "yield",
                  ![a].status = end.status, ![a].data = data,
                  ![a].errno = "none",
                  ![a].error = IF @ = "none" THEN end.error ELSE @]
      /\ UNCHANGED <<callVars, appBuf, missing, shutting>>

InSsl(a, kinds) == Openssl /\ op[a].pc = "library" /\ op[a].kind \in kinds
Quiet(a, codes) == IF op[a].errno = "none" THEN codes ELSE {}

\* g_tls_connection_openssl_read and g_tls_connection_openssl_read_message
OpensslRead(a) ==
  /\ InSsl(a, {"read", "receive"})
  /\ \E code \in BioResults(a)
                \cup Quiet(a, IF peer = "notified" THEN {"ZERO_RETURN"} ELSE {})
                \cup Quiet(a, IF conf.dtls THEN {} ELSE {"NO_RENEGOTIATION"}) :
       IF code = "NONE" THEN \E data \in SslData(a) : OpensslEnd(a, code, data)
       ELSE OpensslEnd(a, code, <<>>)

\* g_tls_connection_openssl_write and g_tls_connection_openssl_write_message
OpensslWrite(a) ==
  /\ InSsl(a, {"write", "send"})
  /\ \E code \in BioResults(a) \cup Quiet(a, IF conf.dtls THEN {} ELSE {"NO_RENEGOTIATION"}) :
       OpensslEnd(a, code, <<>>)

\* g_tls_connection_openssl_close: SSL_shutdown sends the close_notify and returns 0,
\* or it finds a handshake that is not complete.
OpensslClose(a) ==
  /\ InSsl(a, {"close"})
  /\ \E code \in BioResults(a) \cup Quiet(a, {"SYSCALL_0", "SHUTDOWN_WHILE_IN_INIT"}) :
       OpensslEnd(a, code, <<>>)

\* g_tls_connection_openssl_handshake_thread_handshake: the certificate is looked at
\* after SSL_do_handshake has returned more than 0, and may be refused.
OpensslHandshake(a) ==
  /\ InSsl(a, {"handshake"})
  /\ \E code \in BioResults(a) \cup Quiet(a, {"ALERT_HANDSHAKE_FAILURE", "BAD_PROTOCOL",
                                               "NO_CERTIFICATE", "VERIFY_FAILED", "REFUSED",
                                               "NO_RENEGOTIATION"}) :
       OpensslEnd(a, code, <<>>)

OpensslReturns(a) ==
  OpensslRead(a) \/ OpensslWrite(a) \/ OpensslClose(a) \/ OpensslHandshake(a)

\* Mutant: the end of an attempt that would block is left as it is.
GiveUpAsIs(a) == [op[a] EXCEPT !.pc = "yield"]

\* The end of perform_openssl_io when no time is left.
GiveUp(a) ==
  CASE op[a].timeout = 0 -> [op[a] EXCEPT !.pc = "yield", !.status = "WOULD_BLOCK",
                                          !.error = "would_block"]
    [] op[a].timeout > 0 -> [op[a] EXCEPT !.pc = "yield", !.status = "TIMED_OUT",
                                          !.error = "timed_out"]
    [] OTHER -> [op[a] EXCEPT !.pc = "yield"]

\* The time left to perform_openssl_io: none for a call that must not block, maybe
\* none for one with a deadline, and none when the timer of DTLS has expired.
OpensslGivesUp(a) ==
  /\ Openssl /\ op[a].pc = "again"
  /\ op[a].timeout >= 0 \/ conf.dtls
  /\ op' = [op EXCEPT ![a] = GiveUp(a)]
  /\ UNCHANGED <<callVars, side, taken, appBuf, missing, interaction, shutting, mutex>>

OpensslWaits(a) ==
  /\ Openssl /\ op[a].pc = "again" /\ op[a].timeout # 0
  /\ op' = [op EXCEPT ![a].pc = "wait"]
  /\ UNCHANGED <<callVars, side, taken, appBuf, missing, interaction, shutting, mutex>>

\* g_tls_bio_wait_available: the stream is ready, the time is over or the call is
\* cancelled; whichever it is, the attempt is made again.
OpensslWakes(a) ==
  /\ Openssl /\ op[a].pc = "wait"
  /\ op' = [op EXCEPT ![a].pc = "push"]
  /\ UNCHANGED <<callVars, side, taken, appBuf, missing, interaction, shutting, mutex>>

OpensslStep(a) ==
  \/ OpensslPush(a) \/ BioRead(a) \/ BioWrite(a) \/ OpensslReturns(a)
  \/ OpensslGivesUp(a) \/ OpensslWaits(a) \/ OpensslWakes(a)
=============================================================================
