------------------------------ MODULE GnutlsIo ------------------------------
(***************************************************************************)
(* I/O through GnuTLS, from tls/gnutls/gtlsconnection-gnutls.c: a call     *)
(* pushes its parameters once, GnuTLS calls back to pull and push, and     *)
(* what it returns is turned into a status; while it only says to try      *)
(* again the same call goes on.                                            *)
(***************************************************************************)
EXTENDS TlsIo

Gnutls == conf.backend = "gnutls"

\* BEGIN_GNUTLS_IO
GnutlsBegin(a) ==
  /\ Gnutls /\ op[a].pc = "push"
  /\ side' = PushIo(a, op[a].timeout)
  /\ op' = [op EXCEPT ![a].pc = "library", ![a].errno = "none"]
  /\ UNCHANGED <<callVars, taken, appBuf, missing, interaction, shutting, mutex>>

\* Mutant: a cancelled callback may be made again.
SetGnutlsErrorRetries(error) ==
  CASE error \in {"cancelled", "would_block"} -> "EAGAIN"
    [] error = "timed_out" -> "EINTR"
    [] error = "too_large" -> "EMSGSIZE"
    [] OTHER -> "EIO"

\* set_gnutls_error
SetGnutlsError(error) ==
  CASE error \in {"cancelled", "timed_out"} -> "EINTR"
    [] error = "would_block" -> IF conf.dtls /\ Handshaking THEN "EAGAIN" ELSE "EINTR"
    [] error = "too_large" -> "EMSGSIZE"
    [] OTHER -> "EIO"

\* The callback's end: the outcome is left for the library and for pop_io.
CallbackEnds(a, d, outcome) ==
  /\ side' = [side EXCEPT ![d].error = IF outcome \in {"done", "zero"} THEN "none" ELSE outcome]
  /\ op' = [op EXCEPT ![a].errno = CASE outcome = "done" -> "none"
                                     [] outcome = "zero" -> "zero"
                                     [] OTHER -> SetGnutlsError(outcome)]
  /\ UNCHANGED <<callVars, taken, appBuf, missing, interaction, shutting, mutex>>

\* GnuTLS may overlook that a callback would have blocked, but no other failure.
\* External: GnuTLS.
CallsBack(a) == op[a].errno \in {"none", "EAGAIN"}

\* g_tls_connection_gnutls_pull_func: datagrams of a handshake are not waited for.
GnutlsPull(a) ==
  /\ Gnutls /\ op[a].pc = "library" /\ "in" \in Dirs[a] /\ CallsBack(a)
  /\ LET timeout == IF conf.dtls /\ Handshaking THEN 0 ELSE side["in"].timeout
     IN  \E outcome \in Outcomes("in", timeout) : CallbackEnds(a, "in", outcome)

\* g_tls_connection_gnutls_push_func and its vectored form for datagrams.
GnutlsPush(a) ==
  /\ Gnutls /\ op[a].pc = "library" /\ "out" \in Dirs[a] /\ CallsBack(a)
  /\ \E outcome \in Outcomes("out", side["out"].timeout) : CallbackEnds(a, "out", outcome)

\* What the library may return when a callback was the last thing it did.
\* External: GnuTLS.
CallbackResults(a) ==
  CASE op[a].errno = "EINTR" -> {"INTERRUPTED"}
    [] op[a].errno = "EAGAIN" -> {"TIMEDOUT"}
    [] op[a].errno = "EMSGSIZE" -> {"LARGE_PACKET"}
    [] op[a].errno = "EIO" -> {"PULL_ERROR"}
    [] op[a].errno = "zero" -> {"PREMATURE_TERMINATION", "UNEXPECTED_PACKET_LENGTH"}
    [] OTHER -> {"OK", "FATAL_ALERT_RECEIVED", "DECRYPTION_FAILED"}

FirstHandshake == Handshaking /\ ~ever

\* Mutant: an early end of the stream is an end like any other.
EndStatusTruncated(a, ret) ==
  IF ret = "PREMATURE_TERMINATION" /\ ~FirstHandshake THEN [status |-> "OK", error |-> "none"]
  ELSE [status |-> "ERROR", error |-> "misc"]

\* The rest of end_gnutls_io, for a call that pop_io says has failed.
EndStatus(a, ret) ==
  LET error == PopStatus(a, FALSE).error
      Failed(e) == [status |-> "ERROR", error |-> e]
      NotTls == \/ error \in {"failed", "broken_pipe"}
                \/ ret \in {"UNEXPECTED_PACKET_LENGTH", "DECRYPTION_FAILED",
                            "PREMATURE_TERMINATION"}
  IN  IF FirstHandshake /\ NotTls THEN Failed("not_tls")
      ELSE CASE ret = "REHANDSHAKE" -> [status |-> "REHANDSHAKE", error |-> "none"]
             [] ret = "PREMATURE_TERMINATION" ->
                  IF conf.notify THEN Failed("eof") ELSE [status |-> "OK", error |-> "none"]
             [] ret = "NO_CERTIFICATE_FOUND" -> Failed("certificate_required")
             [] ret = "CERTIFICATE_ERROR" -> Failed("bad_certificate")
             [] ret = "FATAL_ALERT_RECEIVED" -> Failed("misc")
             [] ret = "INAPPROPRIATE_FALLBACK" -> Failed("fallback")
             [] ret = "LARGE_PACKET" -> Failed("too_large")
             [] ret = "TIMEDOUT" -> Failed("timed_out")
             [] OTHER -> Failed(IF error = "none" THEN "misc" ELSE error)

\* end_gnutls_io
EndGnutlsIo(a, ret) ==
  LET popped == PopStatus(a, ret = "OK")
  IN  IF popped.status = "ERROR" THEN EndStatus(a, ret) ELSE popped

\* A record of application data, or the end of the data.
Received(a) ==
  IF ~Reads(a) THEN {<<>>}
  ELSE (IF taken < MaxUnits /\ peer # "gone" THEN {<<taken + 1>>} ELSE {})
         \cup (IF peer = "notified" THEN {<<>>} ELSE {})

\* END_GNUTLS_IO, when the call is over.
GnutlsEnd(a, ret, data) ==
  LET end == EndGnutlsIo(a, ret)
  IN  /\ op' = [op EXCEPT ![a].pc = "yield", ![a].status = end.status, ![a].data = data,
                  ![a].errno = "none",
                  ![a].error = IF @ = "none" THEN end.error ELSE @]
      /\ side' = PopIo(a)
      /\ PopInteraction(a, ret = "OK")
      /\ taken' = taken + Len(data)
      /\ UNCHANGED <<callVars, appBuf, missing, shutting, mutex>>

InLibrary(a, kinds) == Gnutls /\ op[a].pc = "library" /\ op[a].kind \in kinds

\* g_tls_connection_gnutls_handshake_thread_handshake: application data instead of
\* the handshake is buffered and the handshake tried again.
GnutlsAppData(a) ==
  /\ InLibrary(a, {"handshake"}) /\ op[a].errno = "none"
  /\ ever /\ taken < MaxUnits /\ peer # "gone"
  /\ taken' = taken + 1
  /\ appBuf' = Append(appBuf, taken + 1)
  /\ UNCHANGED <<callVars, op, side, missing, interaction, shutting, mutex>>

\* The handshake comes to an end, good or bad.
GnutlsHandshake(a) ==
  /\ InLibrary(a, {"handshake"})
  /\ \E ret \in CallbackResults(a) \cup
         (IF op[a].errno = "none"
            THEN {"CERTIFICATE_ERROR", "NO_CERTIFICATE_FOUND", "INAPPROPRIATE_FALLBACK"} ELSE {}) :
       GnutlsEnd(a, ret, <<>>)

\* g_tls_connection_gnutls_read and g_tls_connection_gnutls_read_message: the peer
\* may ask for a new handshake instead.
GnutlsRead(a) ==
  /\ InLibrary(a, {"read", "receive"})
  /\ \E ret \in CallbackResults(a) \cup (IF op[a].errno = "none" THEN {"REHANDSHAKE"} ELSE {}) :
       IF ret = "OK" THEN \E data \in Received(a) : GnutlsEnd(a, ret, data)
       ELSE GnutlsEnd(a, ret, <<>>)

\* g_tls_connection_gnutls_write, and the uncorking of a message.
GnutlsWrite(a) ==
  /\ InLibrary(a, {"write", "send"})
  /\ \E ret \in CallbackResults(a) : GnutlsEnd(a, ret, <<>>)

\* g_tls_connection_gnutls_write_message: a message larger than the MTU is refused
\* before anything is pushed.
GnutlsTooLarge(a) ==
  /\ Gnutls /\ op[a].pc = "push" /\ op[a].kind = "send"
  /\ op' = [op EXCEPT ![a].pc = "yield", ![a].status = "ERROR", ![a].error = "too_large"]
  /\ UNCHANGED <<callVars, side, taken, appBuf, missing, interaction, shutting, mutex>>

\* g_tls_connection_gnutls_close
GnutlsClose(a) ==
  /\ InLibrary(a, {"close"})
  /\ \E ret \in CallbackResults(a) : GnutlsEnd(a, ret, <<>>)

\* GNUTLS_E_AGAIN: with no datagram there, GnuTLS waits in
\* g_tls_connection_gnutls_pull_timeout_func until one comes, its own time is over
\* or the call is cancelled, and tries again.
GnutlsPullTimeout(a) ==
  /\ InLibrary(a, {"handshake"}) /\ op[a].errno = "EAGAIN"
  /\ op' = [op EXCEPT ![a].errno = "none"]
  /\ UNCHANGED <<callVars, side, taken, appBuf, missing, interaction, shutting, mutex>>

GnutlsStep(a) ==
  \/ GnutlsBegin(a) \/ GnutlsPull(a) \/ GnutlsPush(a) \/ GnutlsAppData(a)
  \/ GnutlsHandshake(a) \/ GnutlsRead(a) \/ GnutlsWrite(a) \/ GnutlsTooLarge(a)
  \/ GnutlsClose(a) \/ GnutlsPullTimeout(a)
=============================================================================
