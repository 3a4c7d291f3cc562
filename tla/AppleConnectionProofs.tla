----------------------- MODULE AppleConnectionProofs ------------------------
(***************************************************************************)
(* A connection of Network.framework that verifies its peer is ready only  *)
(* by a verdict on the certificate of the attempt that made it ready; who  *)
(* sleeps will be woken; a close loses nothing that was written; and reads *)
(* return what the peer sent: for all modes, errors and timeouts.          *)
(***************************************************************************)
EXTENDS AppleConnection, SequenceTheorems, TLAPS

-----------------------------------------------------------------------------
(***************************************************************************)
(* The inductive invariant.                                                *)
(***************************************************************************)
Shapes ==
  /\ DOMAIN op = Calls /\ \A c \in Calls : DOMAIN op[c] = {"pc", "timeout", "half"}
  /\ DOMAIN nw = {"state", "trust", "cancel", "asked", "sent", "flush"}
  /\ DOMAIN past = {"verdict", "got", "end", "writes", "flushed", "clean", "late", "empty"}

\* A handshake is alone with the connection, and a call with somebody to make it.
Alone ==
  /\ \A c \in Calls : Active(c) => held = "app"
  /\ Active("handshake") => \A c \in Calls \ {"handshake"} : ~Active(c)

\* What the handshake's thread verifies, a block on the queue still waits for, and the
\* framework has no answer about.
Deciding ==
  /\ op["handshake"].pc = "verify" => verify_pending /\ HandshakeWorking
  /\ verify_pending => block = "waiting"
  /\ block = "waiting" => nw.trust = "none"

\* An answer that can still be used, or has been, is that of the last verdict.
AnswersHold ==
  /\ verify_accepted /\ ~verify_pending => past.verdict = "accepted"
  /\ nw.trust = "accepted" => past.verdict = "accepted"
  /\ state = "READY" => nw.state \in {"ready", "failed", "cancelled"}

TrustInv == Shapes /\ Alone /\ Deciding /\ AnswersHold /\ ReadyIsVerified

-----------------------------------------------------------------------------
(***************************************************************************)
(* Each step keeps it.                                                     *)
(***************************************************************************)
\* What the step of a call leaves of the calls, if it does not start one.
LEMMA CallMoves ==
  ASSUME TrustInv, NEW c \in Calls, op[c].pc # "idle", NEW pc,
         \/ op' = op
         \/ op' = [op EXCEPT ![c].pc = pc]
         \/ op' = [op EXCEPT ![c] = Idle]
  PROVE  /\ DOMAIN op' = Calls /\ \A d \in Calls : DOMAIN (op'[d]) = {"pc", "timeout", "half"}
         /\ \A d \in Calls : op'[d].pc # "idle" => op[d].pc # "idle"
         /\ \A d \in Calls \ {c} : op'[d] = op[d]
  BY DEF TrustInv, Shapes, Idle

\* A step that answers nothing and does not move the framework's connection.
LEMMA Aside ==
  ASSUME TrustInv, Shapes', UNCHANGED <<verifyVars, block, held, mode>>,
         nw'.trust = nw.trust, nw'.state = nw.state, past'.verdict = past.verdict,
         \A c \in Calls : op'[c].pc # "idle" => op[c].pc # "idle",
         op'["handshake"].pc = "verify" => op["handshake"].pc = "verify",
         state' = state \/ (state' # "READY" /\ op["handshake"].pc # "verify")
  PROVE  TrustInv'
<1>1. Alone'
  BY DEF TrustInv, Alone, Active, Calls
<1>2. Deciding'
  BY DEF TrustInv, Deciding, HandshakeWorking, verifyVars
<1>3. AnswersHold'
  BY DEF TrustInv, AnswersHold, verifyVars
<1>4. ReadyIsVerified'
  BY DEF TrustInv, ReadyIsVerified
<1> QED BY <1>1, <1>2, <1>3, <1>4 DEF TrustInv

\* Nothing is decided on a handshake's thread while the queue is free.
LEMMA FreeQueue ==
  ASSUME TrustInv, block # "waiting"
  PROVE  ~verify_pending /\ op["handshake"].pc # "verify"
  BY DEF TrustInv, Deciding

\* A step of the framework on a free queue.
LEMMA OnQueue ==
  ASSUME TrustInv, Shapes', QueueFree, UNCHANGED <<verifyVars, block, op, held, mode>>,
         past'.verdict = past.verdict,
         nw'.trust \in {nw.trust, "none"},
         state' = "READY" => nw'.state \in {"ready", "failed", "cancelled"},
         state' = "READY" /\ state # "READY" /\ mode.verifies => nw.trust = "accepted"
  PROVE  TrustInv'
<1>1. ~verify_pending /\ op["handshake"].pc # "verify"
  BY FreeQueue DEF QueueFree
<1>2. Alone'
  BY DEF TrustInv, Alone, Active, Calls
<1>3. Deciding'
  BY <1>1 DEF Deciding, QueueFree, verifyVars
<1>4. AnswersHold'
  BY DEF TrustInv, AnswersHold, verifyVars
<1>5. ReadyIsVerified'
  BY DEF TrustInv, ReadyIsVerified, AnswersHold
<1> QED BY <1>2, <1>3, <1>4, <1>5 DEF TrustInv

\* A wait that reaches its deadline.
LEMMA DeadlinePasses ==
  ASSUME TrustInv, NEW c \in Calls, UNCHANGED <<verifyVars, block, held, mode, nw, past, state>>,
         op[c].pc # "idle", op' = [op EXCEPT ![c].pc = "expired"]
  PROVE  TrustInv'
<1>1. /\ DOMAIN op' = Calls /\ \A d \in Calls : DOMAIN (op'[d]) = {"pc", "timeout", "half"}
      /\ \A d \in Calls : op'[d].pc # "idle" => op[d].pc # "idle"
  BY CallMoves
<1>2. op'["handshake"].pc = "verify" => op["handshake"].pc = "verify"
  BY DEF TrustInv, Shapes, Calls
<1>3. Shapes'
  BY <1>1 DEF TrustInv, Shapes
<1> QED BY <1>1, <1>2, <1>3, Aside

-----------------------------------------------------------------------------
\* The handshake's thread.
LEMMA HandshakeStays ==
  ASSUME TrustInv, Handshake, UNCHANGED mode
  PROVE  TrustInv'
<1> USE DEF Awake
<1>1. CASE HandshakeStarts
  <2>1. op["handshake"].pc = "start" /\ UNCHANGED <<verifyVars, block, held, past>>
    BY <1>1 DEF HandshakeStarts
  <2>2. \/ op' = [op EXCEPT !["handshake"].pc = "loop"]
        \/ op' = [op EXCEPT !["handshake"] = Idle]
    BY <1>1 DEF HandshakeStarts, Goes, HandshakeEnds, Ends
  <2>3. \/ UNCHANGED <<state, nw>>
        \/ \E s : nw' = [nw EXCEPT !.state = s] /\ state' \in {"HANDSHAKING", "FAILED"}
    BY <1>1 DEF HandshakeStarts, Attach, FailLocked, connVars
  <2>4. /\ DOMAIN op' = Calls /\ \A d \in Calls : DOMAIN (op'[d]) = {"pc", "timeout", "half"}
        /\ \A d \in Calls : op'[d].pc # "idle" => op[d].pc # "idle"
        /\ op'["handshake"].pc # "verify"
    BY <2>1, <2>2 DEF TrustInv, Shapes, Idle, Calls
  <2>5. DOMAIN nw' = DOMAIN nw /\ nw'.trust = nw.trust
    BY <2>3 DEF TrustInv, Shapes
  <2>6. Shapes'
    BY <2>1, <2>4, <2>5 DEF TrustInv, Shapes
  <2>7. Alone'
    BY <2>1, <2>4 DEF TrustInv, Alone, Active, Calls
  <2>8. Deciding'
    BY <2>1, <2>4, <2>5 DEF TrustInv, Deciding, verifyVars
  <2>9. state' = "READY" => state = "READY" /\ nw' = nw
    BY <2>3
  <2>10. AnswersHold' /\ ReadyIsVerified'
    BY <2>1, <2>5, <2>9 DEF TrustInv, AnswersHold, ReadyIsVerified, verifyVars
  <2> QED BY <2>6, <2>7, <2>8, <2>10 DEF TrustInv
<1>2. CASE HandshakeLooks
  <2>1. /\ op["handshake"].pc = "loop"
        /\ UNCHANGED <<state, verify_pending, verify_accepted, block, nw, held, past>>
    BY <1>2 DEF HandshakeLooks, connVars, verifyVars
  <2>2. \/ HandshakeWorking /\ verify_pending /\ op' = [op EXCEPT !["handshake"].pc = "verify"]
        \/ op' = op
        \/ op' = [op EXCEPT !["handshake"] = Idle]
    BY <1>2 DEF HandshakeLooks, Goes, HandshakeEnds, Ends, callVars
  <2>3. /\ DOMAIN op' = Calls /\ \A d \in Calls : DOMAIN (op'[d]) = {"pc", "timeout", "half"}
        /\ \A d \in Calls : op'[d].pc # "idle" => op[d].pc # "idle"
    BY <2>1, <2>2, CallMoves DEF Calls
  <2>4. op'["handshake"].pc = "verify" => verify_pending /\ HandshakeWorking
    BY <2>1, <2>2 DEF TrustInv, Shapes, Idle, Calls
  <2>5. Shapes' /\ Alone'
    BY <2>1, <2>3 DEF TrustInv, Shapes, Alone, Active, Calls
  <2>6. Deciding'
    BY <2>1, <2>4 DEF TrustInv, Deciding, HandshakeWorking
  <2>7. AnswersHold' /\ ReadyIsVerified'
    BY <2>1 DEF TrustInv, AnswersHold, ReadyIsVerified
  <2> QED BY <2>5, <2>6, <2>7 DEF TrustInv
<1>3. ASSUME NEW accepted \in BOOLEAN, HandshakeVerified(accepted)
      PROVE  TrustInv'
  <2>1. /\ op["handshake"].pc = "verify" /\ UNCHANGED <<block, nw, held>>
        /\ verify_accepted' = accepted /\ verify_pending' = FALSE
        /\ past' = [past EXCEPT !.verdict = IF accepted THEN "accepted" ELSE "rejected"]
    BY <1>3 DEF HandshakeVerified
  <2>2. \/ op' = [op EXCEPT !["handshake"].pc = "loop"]
        \/ op' = [op EXCEPT !["handshake"] = Idle]
    BY <1>3 DEF HandshakeVerified, Goes, HandshakeEnds, Ends
  <2>3. verify_pending /\ HandshakeWorking /\ block = "waiting" /\ nw.trust = "none"
    BY <2>1 DEF TrustInv, Deciding
  <2>4. state' \in {state, "FAILED"}
    BY <1>3 DEF HandshakeVerified, FailLocked
  <2>5. state' # "READY"
    BY <2>3, <2>4 DEF HandshakeWorking
  <2>6. past'.verdict = (IF accepted THEN "accepted" ELSE "rejected") /\ DOMAIN past' = DOMAIN past
    BY <2>1 DEF TrustInv, Shapes
  <2>7. /\ DOMAIN op' = Calls /\ \A d \in Calls : DOMAIN (op'[d]) = {"pc", "timeout", "half"}
        /\ \A d \in Calls : op'[d].pc # "idle" => op[d].pc # "idle"
        /\ op'["handshake"].pc # "verify"
    BY <2>1, <2>2 DEF TrustInv, Shapes, Idle, Calls
  <2>8. Shapes' /\ Alone'
    BY <2>1, <2>6, <2>7 DEF TrustInv, Shapes, Alone, Active, Calls
  <2>9. Deciding'
    BY <2>1, <2>3, <2>7 DEF Deciding
  <2>10. AnswersHold' /\ ReadyIsVerified'
    BY <2>1, <2>3, <2>5, <2>6 DEF AnswersHold, ReadyIsVerified
  <2> QED BY <2>8, <2>9, <2>10 DEF TrustInv
<1>4. CASE HandshakeGivesUp
  <2>1. /\ op["handshake"].pc \in {"loop", "expired"} /\ UNCHANGED <<state, block, nw, held, past>>
        /\ verify_pending' = FALSE
        /\ verify_accepted' = (verify_accepted /\ ~verify_pending)
        /\ op' = [op EXCEPT !["handshake"] = Idle]
    BY <1>4 DEF HandshakeGivesUp, HandshakeEnds, Ends, connVars
  <2>2. /\ DOMAIN op' = Calls /\ \A d \in Calls : DOMAIN (op'[d]) = {"pc", "timeout", "half"}
        /\ \A d \in Calls : op'[d].pc # "idle" => op[d].pc # "idle"
        /\ op'["handshake"].pc # "verify"
    BY <2>1 DEF TrustInv, Shapes, Idle, Calls
  <2>3. Shapes' /\ Alone'
    BY <2>1, <2>2 DEF TrustInv, Shapes, Alone, Active, Calls
  <2>4. Deciding'
    BY <2>1, <2>2 DEF TrustInv, Deciding
  <2>5. AnswersHold' /\ ReadyIsVerified'
    BY <2>1 DEF TrustInv, AnswersHold, ReadyIsVerified
  <2> QED BY <2>3, <2>4, <2>5 DEF TrustInv
<1>5. CASE WaitExpires("handshake")
  <2>1. /\ op["handshake"].pc # "idle" /\ op' = [op EXCEPT !["handshake"].pc = "expired"]
        /\ UNCHANGED <<verifyVars, block, held, nw, past, state>>
    BY <1>5 DEF WaitExpires, Active, Goes, connVars
  <2> QED BY <2>1, DeadlinePasses DEF Calls
<1> QED BY <1>1, <1>2, <1>3, <1>4, <1>5 DEF Handshake

\* The blocks that keep the queue.
LEMMA BlocksStay ==
  ASSUME TrustInv, VerifyBlock \/ ChallengeBlock, UNCHANGED mode
  PROVE  TrustInv'
<1>1. CASE VerifyBlockBegins
  <2>1. /\ block = "idle" /\ nw.state = "preparing" /\ nw.trust = "none"
        /\ UNCHANGED <<state, op, held>>
        /\ \E late : past' = [past EXCEPT !.verdict = "none", !.late = late]
    BY <1>1 DEF VerifyBlockBegins, QueueFree, connVars, callVars
  <2>2. state # "READY" /\ op["handshake"].pc # "verify"
    BY <2>1 DEF TrustInv, AnswersHold, Deciding
  <2>3. DOMAIN past' = DOMAIN past
    BY <2>1
  <2>4. CASE VerifyBlockAsks
    <3>1. verify_pending' = TRUE /\ block' = "waiting" /\ nw' = nw
      BY <2>4 DEF VerifyBlockAsks
    <3>2. Shapes' /\ Alone'
      BY <2>1, <2>3, <3>1 DEF TrustInv, Shapes, Alone, Active, Calls
    <3>3. Deciding'
      BY <2>1, <2>2, <3>1 DEF Deciding
    <3>4. AnswersHold' /\ ReadyIsVerified'
      BY <2>1, <2>2, <3>1 DEF AnswersHold, ReadyIsVerified
    <3> QED BY <3>2, <3>3, <3>4 DEF TrustInv
  <2>5. CASE ~VerifyBlockAsks
    <3>1. /\ verify_pending' = FALSE /\ verify_accepted' = FALSE /\ block' = block
          /\ nw' = [nw EXCEPT !.trust = "rejected"]
      BY <1>1, <2>5 DEF VerifyBlockBegins
    <3>2. DOMAIN nw' = DOMAIN nw /\ nw'.trust = "rejected" /\ nw'.state = nw.state
      BY <3>1 DEF TrustInv, Shapes
    <3>3. Shapes' /\ Alone'
      BY <2>1, <2>3, <3>2 DEF TrustInv, Shapes, Alone, Active, Calls
    <3>4. Deciding'
      BY <2>1, <2>2, <3>1 DEF Deciding
    <3>5. AnswersHold' /\ ReadyIsVerified'
      BY <2>1, <2>2, <3>1, <3>2 DEF AnswersHold, ReadyIsVerified
    <3> QED BY <3>3, <3>4, <3>5 DEF TrustInv
  <2> QED BY <2>4, <2>5
<1>2. CASE VerifyBlockWaits
  BY <1>2, Aside DEF VerifyBlockWaits, TrustInv, Shapes, connVars, callVars
<1>3. CASE VerifyBlockEnds
  <2>1. /\ block = "waiting" /\ (~verify_pending \/ state \in {"FAILED", "CLOSED"})
        /\ verify_pending' = FALSE
        /\ verify_accepted' = (verify_accepted /\ ~verify_pending)
        /\ nw' = [nw EXCEPT !.trust = IF verify_accepted' THEN "accepted" ELSE "rejected"]
        /\ block' = "idle" /\ UNCHANGED <<state, op, held, past>>
    BY <1>3 DEF VerifyBlockEnds, connVars, callVars
  <2>2. op["handshake"].pc # "verify"
    BY <2>1 DEF TrustInv, Deciding, HandshakeWorking
  <2>3. /\ DOMAIN nw' = DOMAIN nw /\ nw'.state = nw.state
        /\ nw'.trust = IF verify_accepted' THEN "accepted" ELSE "rejected"
    BY <2>1 DEF TrustInv, Shapes
  <2>4. verify_accepted' => past.verdict = "accepted"
    BY <2>1 DEF TrustInv, AnswersHold
  <2>5. Shapes' /\ Alone'
    BY <2>1, <2>3 DEF TrustInv, Shapes, Alone, Active, Calls
  <2>6. Deciding'
    BY <2>1, <2>2 DEF Deciding
  <2>7. AnswersHold' /\ ReadyIsVerified'
    BY <2>1, <2>3, <2>4 DEF TrustInv, AnswersHold, ReadyIsVerified
  <2> QED BY <2>5, <2>6, <2>7 DEF TrustInv
<1>4. CASE ChallengeBlock
  <2>1. /\ block \in {"idle", "challenge"} /\ block' \in {"idle", "challenge"}
        /\ UNCHANGED <<state, verify_pending, verify_accepted, op, held, past>>
        /\ nw' = nw \/ nw' = [nw EXCEPT !.asked = TRUE]
    BY <1>4 DEF ChallengeBlock, ChallengeBlockBegins, ChallengeBlockEnds, QueueFree, connVars,
                verifyVars, callVars
  <2>2. DOMAIN nw' = DOMAIN nw /\ nw'.state = nw.state /\ nw'.trust = nw.trust
    BY <2>1 DEF TrustInv, Shapes
  <2>3. ~verify_pending /\ op["handshake"].pc # "verify"
    BY <2>1, FreeQueue
  <2>4. Shapes' /\ Alone'
    BY <2>1, <2>2 DEF TrustInv, Shapes, Alone, Active, Calls
  <2>5. Deciding'
    BY <2>1, <2>3 DEF Deciding
  <2>6. AnswersHold' /\ ReadyIsVerified'
    BY <2>1, <2>2 DEF TrustInv, AnswersHold, ReadyIsVerified
  <2> QED BY <2>4, <2>5, <2>6 DEF TrustInv
<1>5. CASE VerifyBlockRefuses
  <2>1. /\ block = "idle" /\ nw.state = "preparing" /\ nw' = [nw EXCEPT !.trust = "rejected"]
        /\ UNCHANGED <<state, op, held, verifyVars, block, past>>
    BY <1>5 DEF VerifyBlockRefuses, QueueFree, connVars, callVars
  <2>2. DOMAIN nw' = DOMAIN nw /\ nw'.trust = "rejected" /\ nw'.state = nw.state
    BY <2>1 DEF TrustInv, Shapes
  <2>3. Shapes' /\ Alone'
    BY <2>1, <2>2 DEF TrustInv, Shapes, Alone, Active, Calls
  <2>4. Deciding'
    BY <2>1 DEF TrustInv, Deciding, HandshakeWorking, verifyVars
  <2>5. AnswersHold' /\ ReadyIsVerified'
    BY <2>1, <2>2 DEF TrustInv, AnswersHold, ReadyIsVerified, verifyVars
  <2> QED BY <2>3, <2>4, <2>5 DEF TrustInv
<1> QED BY <1>1, <1>2, <1>3, <1>4, <1>5 DEF VerifyBlock

\* Reading and writing.
LEMMA ReadWriteStays ==
  ASSUME TrustInv, Read \/ Write, UNCHANGED mode
  PROVE  TrustInv'
<1>0. ASSUME NEW c \in {"read", "write"}, WaitExpires(c)
      PROVE  TrustInv'
  <2>1. /\ op[c].pc # "idle" /\ op' = [op EXCEPT ![c].pc = "expired"]
        /\ UNCHANGED <<verifyVars, block, held, nw, past, state>>
    BY <1>0 DEF WaitExpires, Active, Goes, connVars
  <2> QED BY <2>1, DeadlinePasses DEF Calls
<1> SUFFICES ASSUME ~WaitExpires("read"), ~WaitExpires("write")
             PROVE  TrustInv'
  BY <1>0
<1>1. UNCHANGED <<state, verifyVars, block, nw, held>>
  BY DEF Read, Write, ReadDrains, ReadTellsEnd, ReadWaits, WriteWaits, WriteFails, WriteSends,
         CallExpires, connVars
<1>2. \/ op' = op \/ op' = [op EXCEPT !["read"] = Idle] \/ op' = [op EXCEPT !["write"] = Idle]
  BY DEF Read, Write, ReadDrains, ReadTellsEnd, ReadWaits, WriteWaits, WriteFails, WriteSends,
         CallExpires, callVars, Ends
<1>3. \/ past' = past \/ (\E v : past' = [past EXCEPT !.got = v])
      \/ (\E v : past' = [past EXCEPT !.end = v]) \/ (\E v : past' = [past EXCEPT !.writes = v])
  BY DEF Read, Write, ReadDrains, ReadTellsEnd, ReadWaits, WriteWaits, WriteFails, WriteSends,
         CallExpires
<1>4. DOMAIN past' = DOMAIN past /\ past'.verdict = past.verdict
  BY <1>3 DEF TrustInv, Shapes
<1>5. /\ DOMAIN op' = Calls /\ \A d \in Calls : DOMAIN (op'[d]) = {"pc", "timeout", "half"}
      /\ \A d \in Calls : op'[d].pc # "idle" => op[d].pc # "idle"
      /\ op'["handshake"] = op["handshake"]
  BY <1>2 DEF TrustInv, Shapes, Idle, Calls
<1>6. Shapes'
  BY <1>1, <1>4, <1>5 DEF TrustInv, Shapes
<1> QED BY <1>1, <1>4, <1>5, <1>6, Aside

\* Closing: beside no handshake.
LEMMA CloseStays ==
  ASSUME TrustInv, Close, UNCHANGED mode
  PROVE  TrustInv'
<1>1. op["close"].pc # "idle" /\ UNCHANGED <<verifyVars, block, held>>
  BY DEF Close, WaitExpires, Active, CloseWaits, CloseFlushes, CloseFlushExpires, CloseCancels, CloseEnds, Awake
<1>2. op["handshake"].pc = "idle"
  BY <1>1 DEF TrustInv, Alone, Active, Calls
<1>3. state' = state \/ state' = "CLOSED"
  BY DEF Close, WaitExpires, CloseWaits, CloseFlushes, CloseFlushExpires, CloseCancels, CloseEnds, connVars
<1>4. \/ op' = op \/ (\E pc : op' = [op EXCEPT !["close"].pc = pc])
      \/ op' = [op EXCEPT !["close"] = Idle]
  BY DEF Close, WaitExpires, CloseWaits, CloseFlushes, CloseFlushExpires, CloseCancels, CloseEnds, callVars,
         Goes, Ends
<1>5. \/ nw' = nw \/ (\E v : nw' = [nw EXCEPT !.flush = v]) \/ (\E v : nw' = [nw EXCEPT !.cancel = v])
  BY DEF Close, WaitExpires, CloseWaits, CloseFlushes, CloseFlushExpires, CloseCancels, CloseEnds
<1>6. past' = past \/ past' = [past EXCEPT !.clean = FALSE]
  BY DEF Close, WaitExpires, CloseWaits, CloseFlushes, CloseFlushExpires, CloseCancels, CloseEnds
<1>7. /\ DOMAIN op' = Calls /\ \A d \in Calls : DOMAIN (op'[d]) = {"pc", "timeout", "half"}
      /\ \A d \in Calls : op'[d].pc # "idle" => op[d].pc # "idle"
      /\ op'["handshake"] = op["handshake"]
  BY <1>1, <1>4, CallMoves DEF Calls
<1>8. DOMAIN nw' = DOMAIN nw /\ nw'.trust = nw.trust /\ nw'.state = nw.state
  BY <1>5 DEF TrustInv, Shapes
<1>9. DOMAIN past' = DOMAIN past /\ past'.verdict = past.verdict
  BY <1>6 DEF TrustInv, Shapes
<1>10. Shapes'
  BY <1>7, <1>8, <1>9 DEF TrustInv, Shapes
<1> QED BY <1>1, <1>2, <1>3, <1>7, <1>8, <1>9, <1>10, Aside

\* What the framework runs on the queue.
LEMMA NwStays ==
  ASSUME TrustInv, NwStep, UNCHANGED mode
  PROVE  TrustInv'
<1>1. QueueFree /\ UNCHANGED <<verifyVars, block, op, held>>
  BY DEF NwStep, NwReady, NwTriesAgain, NwCancelled, NwFailed, NwWaiting, ReceiveCompletion,
         ReceiveCompletes, SendCompletes, FlushCompletes, NwUnchanged, callVars
<1>2. CASE NwReady
  <2>1. /\ nw' = [nw EXCEPT !.state = "ready"] /\ past' = past
        /\ mode.verifies => nw.trust = "accepted"
    BY <1>2 DEF NwReady, NwUnchanged
  <2>2. DOMAIN nw' = DOMAIN nw /\ nw'.state = "ready" /\ nw'.trust = nw.trust
    BY <2>1 DEF TrustInv, Shapes
  <2>3. Shapes'
    BY <1>1, <2>1, <2>2 DEF TrustInv, Shapes
  <2> QED BY <1>1, <2>1, <2>2, <2>3, OnQueue
<1>3. CASE NwTriesAgain
  <2>1. nw.state = "waiting" /\ nw' = [nw EXCEPT !.state = "preparing"] /\ past' = past /\ state' = state
    BY <1>3 DEF NwTriesAgain, NwUnchanged, connVars
  <2>2. DOMAIN nw' = DOMAIN nw /\ nw'.trust = nw.trust
    BY <2>1 DEF TrustInv, Shapes
  <2>3. state # "READY"
    BY <2>1 DEF TrustInv, AnswersHold
  <2>4. Shapes'
    BY <1>1, <2>1, <2>2 DEF TrustInv, Shapes
  <2> QED BY <1>1, <2>1, <2>2, <2>3, <2>4, OnQueue
<1>4. CASE NwCancelled
  <2>1. nw' = [nw EXCEPT !.state = "cancelled"] /\ past' = past /\ state' \in {state, "CLOSED"}
    BY <1>4 DEF NwCancelled, NwUnchanged, connVars
  <2>2. DOMAIN nw' = DOMAIN nw /\ nw'.state = "cancelled" /\ nw'.trust = nw.trust
    BY <2>1 DEF TrustInv, Shapes
  <2>3. Shapes'
    BY <1>1, <2>1, <2>2 DEF TrustInv, Shapes
  <2> QED BY <1>1, <2>1, <2>2, <2>3, OnQueue
<1>5. ASSUME NEW error \in NwErrors, NwFailed(error)
      PROVE  TrustInv'
  <2>1. /\ \E v : nw' = [nw EXCEPT !.state = "failed", !.cancel = v]
        /\ past' = past /\ state' \in {state, "FAILED"}
    BY <1>5 DEF NwFailed, NwUnchanged, connVars, FailLocked
  <2>2. DOMAIN nw' = DOMAIN nw /\ nw'.state = "failed" /\ nw'.trust = nw.trust
    BY <2>1 DEF TrustInv, Shapes
  <2>3. Shapes'
    BY <1>1, <2>1, <2>2 DEF TrustInv, Shapes
  <2> QED BY <1>1, <2>1, <2>2, <2>3, OnQueue
<1>6. ASSUME NEW error \in NwErrors, NwWaiting(error)
      PROVE  TrustInv'
  <2>1. /\ nw.state = "preparing" /\ nw' = [nw EXCEPT !.state = "waiting", !.trust = "none"]
        /\ past' = past /\ state' \in {state, "FAILED"}
    BY <1>6 DEF NwWaiting, NwUnchanged, connVars, FailLocked
  <2>2. DOMAIN nw' = DOMAIN nw /\ nw'.trust = "none"
    BY <2>1 DEF TrustInv, Shapes
  <2>3. state # "READY"
    BY <2>1 DEF TrustInv, AnswersHold
  <2>4. Shapes'
    BY <1>1, <2>1, <2>2 DEF TrustInv, Shapes
  <2> QED BY <1>1, <2>1, <2>2, <2>3, <2>4, OnQueue
<1>7. CASE ReceiveCompletion \/ (\E failed \in BOOLEAN : SendCompletes(failed)) \/ FlushCompletes
  <2>1. /\ nw' = nw \/ (\E v : nw' = [nw EXCEPT !.sent = v]) \/ nw' = [nw EXCEPT !.flush = "done"]
        /\ \/ past' = past \/ (\E v : past' = [past EXCEPT !.flushed = v])
           \/ \E v : past' = [past EXCEPT !.empty = v]
        /\ state' \in {state, "FAILED"}
    BY <1>7 DEF ReceiveCompletion, ReceiveCompletes, SendCompletes, FlushCompletes, FailLocked, connVars
  <2>2. DOMAIN nw' = DOMAIN nw /\ nw'.state = nw.state /\ nw'.trust = nw.trust
    BY <2>1 DEF TrustInv, Shapes
  <2>3. DOMAIN past' = DOMAIN past /\ past'.verdict = past.verdict
    BY <2>1 DEF TrustInv, Shapes
  <2>4. Shapes'
    BY <1>1, <2>2, <2>3 DEF TrustInv, Shapes
  <2>5. state' = "READY" => state = "READY" /\ nw'.state \in {"ready", "failed", "cancelled"}
    BY <2>1, <2>2 DEF TrustInv, AnswersHold
  <2> QED BY <1>1, <2>2, <2>3, <2>4, <2>5, OnQueue
<1> QED BY <1>2, <1>3, <1>4, <1>5, <1>6, <1>7 DEF NwStep

\* The application, its main loop, and the end.
LEMMA ApplicationStays ==
  ASSUME TrustInv, PollStep \/ Application \/ Dispose, UNCHANGED mode
  PROVE  TrustInv'
<1>1. ASSUME PollStep \/ (\E c \in Calls : Cancels(c)) \/ (\E cond : CreateBaseSource(cond))
      PROVE  TrustInv'
  <2>1. UNCHANGED <<state, verifyVars, block, held, nw, past, op>>
    BY <1>1 DEF PollStep, CacheContext, SourceChecks, LoopWakes, Cancels, CreateBaseSource,
                PollUnchanged, connVars, callVars
  <2>2. Shapes'
    BY <2>1 DEF TrustInv, Shapes
  <2> QED BY <2>1, <2>2, Aside
<1>2. ASSUME NEW c \in Calls, NEW half \in BOOLEAN, NEW timeout, Starts(c, timeout, half)
      PROVE  TrustInv'
  <2>1. /\ held = "app" /\ UNCHANGED <<state, verifyVars, block, held, nw, past>>
        /\ ~Active("handshake")
        /\ c = "handshake" => \A d \in Calls : ~Active(d)
    BY <1>2 DEF Starts, Granted, connVars
  <2>2. PICK new : op' = [op EXCEPT ![c] = [pc |-> new, timeout |-> timeout, half |-> half]]
                   /\ new \in {"start", "drain", "loop"}
    BY <1>2 DEF Starts
  <2>3. /\ DOMAIN op' = Calls /\ \A d \in Calls : DOMAIN (op'[d]) = {"pc", "timeout", "half"}
        /\ \A d \in Calls \ {c} : op'[d] = op[d]
        /\ op'[c].pc = new
    BY <2>2 DEF TrustInv, Shapes
  <2>4. op'["handshake"].pc # "verify"
    BY <2>1, <2>2, <2>3 DEF Active, Calls
  <2>5. Shapes'
    BY <2>1, <2>3 DEF TrustInv, Shapes
  <2>6. Alone'
    BY <2>1, <2>3 DEF TrustInv, Alone, Active, Calls
  <2>7. Deciding'
    BY <2>1, <2>4 DEF TrustInv, Deciding, verifyVars
  <2>8. AnswersHold' /\ ReadyIsVerified'
    BY <2>1 DEF TrustInv, AnswersHold, ReadyIsVerified, verifyVars
  <2> QED BY <2>5, <2>6, <2>7, <2>8 DEF TrustInv
<1>3. CASE Drops
  <2>1. /\ \A c \in Calls : ~Active(c)
        /\ UNCHANGED <<state, verifyVars, block, nw, past, op>>
    BY <1>3 DEF Drops, connVars, callVars
  <2> QED BY <2>1 DEF TrustInv, Shapes, Alone, Active, Calls, Deciding, AnswersHold, ReadyIsVerified,
                      HandshakeWorking, verifyVars
<1>4. CASE Dispose
  <2>1. /\ held = "dropped" /\ UNCHANGED <<verifyVars, block, past, op>>
        /\ state' \in {state, "CLOSED"} /\ \E v : nw' = [nw EXCEPT !.cancel = v]
    BY <1>4 DEF Dispose, callVars
  <2>2. \A c \in Calls : op[c].pc = "idle"
    BY <2>1 DEF TrustInv, Alone, Active, Calls
  <2>3. DOMAIN nw' = DOMAIN nw /\ nw'.state = nw.state /\ nw'.trust = nw.trust
    BY <2>1 DEF TrustInv, Shapes
  <2>4. Shapes' /\ Alone'
    BY <2>1, <2>2, <2>3 DEF TrustInv, Shapes, Alone, Active, Calls
  <2>5. Deciding'
    BY <2>1, <2>2, <2>3 DEF TrustInv, Deciding, verifyVars, Calls
  <2>6. AnswersHold' /\ ReadyIsVerified'
    BY <2>1, <2>3 DEF TrustInv, AnswersHold, ReadyIsVerified, verifyVars
  <2> QED BY <2>4, <2>5, <2>6 DEF TrustInv
<1> QED BY <1>1, <1>2, <1>3, <1>4 DEF Application

\* The invariant holds of every reachable state.
LEMMA TrustInvariant == Spec => []TrustInv
<1>1. ASSUME Init
      PROVE  TrustInv
  <2>1. /\ op = [c \in Calls |-> Idle] /\ state = "INIT" /\ block = "idle"
        /\ verify_pending = FALSE /\ verify_accepted = FALSE
        /\ nw = [state |-> "none", trust |-> "none", cancel |-> FALSE, asked |-> FALSE, sent |-> 0,
                 flush |-> "none"]
        /\ past = [verdict |-> "none", got |-> <<>>, end |-> "none", writes |-> 0,
                   flushed |-> 0, clean |-> TRUE, late |-> FALSE, empty |-> FALSE]
    BY <1>1 DEF Init
  <2>2. Shapes
    BY <2>1 DEF Shapes, Idle
  <2>3. Alone /\ Deciding
    BY <2>1 DEF Alone, Active, Calls, Deciding, Idle, Calls
  <2>4. AnswersHold /\ ReadyIsVerified
    BY <2>1 DEF AnswersHold, ReadyIsVerified
  <2> QED BY <2>2, <2>3, <2>4 DEF TrustInv
<1>2. ASSUME TrustInv, [Next]_vars
      PROVE  TrustInv'
  <2>1. CASE Next
    BY <1>2, <2>1, HandshakeStays, BlocksStay, ReadWriteStays, CloseStays, NwStays, ApplicationStays
       DEF Next
  <2>2. CASE UNCHANGED vars
    <3>1. /\ UNCHANGED <<state, verify_pending, verify_accepted, block, op, nw, mode, held, past>>
      BY <2>2 DEF vars, connVars, verifyVars, callVars
    <3> QED BY <1>2, <3>1 DEF TrustInv, Shapes, Alone, Active, Calls, Deciding, HandshakeWorking, AnswersHold,
                              ReadyIsVerified
  <2> QED BY <1>2, <2>1, <2>2
<1> QED BY <1>1, <1>2, PTL DEF Spec

-----------------------------------------------------------------------------
(***************************************************************************)
(* A connection that verifies its peer is ready only when tls/base has     *)
(* accepted the certificate of this very attempt, however the answer, a    *)
(* time-out that passes as the certificate comes, a failure and a further  *)
(* attempt of the framework fall (verify block,                            *)
(* gtlsconnection-apple.c:2286).                                           *)
(***************************************************************************)
THEOREM ReadyVerified == Spec => []ReadyIsVerified
<1>1. TrustInv => ReadyIsVerified
  BY DEF TrustInv
<1> QED BY <1>1, TrustInvariant, PTL
-----------------------------------------------------------------------------
(***************************************************************************)
(* Who sleeps, and who wakes him.                                          *)
(***************************************************************************)
\* A connection of the framework is ours until a close or dispose() gives it up, a
\* handshake is made of one that nobody has closed, and a certificate waits for one
\* that is under way, or came late.
Owned ==
  /\ nw.state # "none" => connection \/ base.closed # {} \/ held = "disposed"
  /\ block # "idle" \/ connection \/ nw.cancel \/ nw.flush = "queued" => nw.state # "none"
  /\ block = "waiting" => nw.state = "preparing"
  /\ verify_pending /\ state \notin {"FAILED", "CLOSED"} => Active("handshake") \/ past.late
  /\ Active("handshake") => base.closed = {}
  /\ state = "FAILED" => fatal_error # "none"
  /\ base \in [shaken : {"no", "ok", "failed"}, closed : SUBSET {"read", "write"}]
  /\ mode \in Modes
  /\ state \in {"INIT", "HANDSHAKING", "READY", "FAILED", "CLOSED"}
  /\ poll \in [pc : {"off", "attached", "check", "asleep"}, cond : {"IN", "OUT"},
               context : BOOLEAN, woken : BOOLEAN]

\* Where a call sleeps, and that a source that may sleep is known to the connection.
Abed ==
  /\ "handshake" \in asleep => op["handshake"].pc = "loop"
  /\ "read" \in asleep => op["read"].pc = "loop"
  /\ "write" \in asleep => op["write"].pc = "loop"
  /\ "close" \in asleep => op["close"].pc = "drain"
  /\ poll.pc \in {"check", "asleep"} => poll.context
  /\ held # "app" => poll.pc = "off"

\* A ready connection with nothing to read receives, unless the last receive brought
\* nothing, and no other does.
Receiving ==
  /\ state = "READY" /\ rx_queue = <<>> /\ ~rx_eof_pending => rx_outstanding \/ past.empty
  /\ rx_outstanding => rx_queue = <<>> /\ ~rx_eof_pending

\* What a source that sleeps and was not woken need not be told now: the refusal of a
\* certificate is told by the framework, when the block has ended.
Untold ==
  poll.pc = "asleep" /\ ~poll.woken =>
    \/ ~BaseCheck(poll.cond)
    \/ block = "waiting" /\ ~verify_accepted /\ ~verify_pending
    \/ nw.trust = "rejected" \/ nw.state = "stranded"

ThreadsAreServed ==
  /\ "handshake" \in asleep => HandshakeWorking /\ ~verify_pending
  /\ "verify" \in asleep =>
       verify_pending /\ state \notin {"FAILED", "CLOSED"} /\ (Active("handshake") \/ past.late)
  /\ "read" \in asleep =>
       rx_queue = <<>> /\ ~ReadIsOver /\ (state = "READY" => rx_outstanding)
  /\ "write" \in asleep => tx_in_flight /\ state # "FAILED"
  /\ "close" \in asleep => tx_in_flight /\ state = "READY"

ServedInv == Owned /\ Abed /\ Receiving /\ Untold /\ ThreadsAreServed

-----------------------------------------------------------------------------
\* The error that error_from_nw_error makes, and that a wake-up reaches a source.
LEMMA ErrorsAreSome ==
  ASSUME NEW error
  PROVE  ErrorFromNwError(error) # "none"
BY DEF ErrorFromNwError

LEMMA WokenSource ==
  ASSUME Owned, WakeUpBaseSources
  PROVE  /\ poll'.pc = poll.pc /\ poll'.context = poll.context /\ poll'.cond = poll.cond
         /\ (poll.context => poll'.woken)
         /\ poll' \in [pc : {"off", "attached", "check", "asleep"}, cond : {"IN", "OUT"},
                       context : BOOLEAN, woken : BOOLEAN]
<1> DEFINE w == poll.woken \/ poll.context
<1>1. w \in BOOLEAN /\ (poll.context => w)
  BY DEF Owned
<1>2. poll' = [poll EXCEPT !.woken = w]
  BY DEF WakeUpBaseSources
<1> HIDE DEF w
<1> QED BY <1>1, <1>2 DEF Owned

\* The handshake's thread.
LEMMA HandshakeServe ==
  ASSUME TrustInv, ServedInv, Handshake, UNCHANGED mode
  PROVE  ServedInv'
<1> USE DEF TrustInv, Shapes, Alone, Deciding, ServedInv,
    Awake, Goes, Ends, HandshakeEnds, Attach, FailLocked, Broadcast, NwUnchanged, PollUnchanged,
    QueueFree, NoWait, Sleeps, Active, Idle, NoSource, HandshakeWorking, ReadIsOver,
    KickReceiveLocked, MayReceive, BaseCheck, Granted, Finished, References, connVars,
    verifyVars, rxVars, callVars, Calls
<1>1. CASE HandshakeStarts
  <2>1. Owned'
    BY <1>1 DEF HandshakeStarts, Owned
  <2>2. Abed'
    BY <1>1 DEF HandshakeStarts, Abed, Owned
  <2>3. Receiving'
    BY <1>1 DEF HandshakeStarts, Receiving, Owned
  <2>4. Untold'
    BY <1>1 DEF HandshakeStarts, Untold, Abed, Owned, Receiving
  <2>5. ThreadsAreServed'
    BY <1>1 DEF HandshakeStarts, ThreadsAreServed, Abed, Owned, Receiving
  <2> QED BY <2>1, <2>2, <2>3, <2>4, <2>5 DEF ServedInv
<1>2. CASE HandshakeLooks
  <2>1. Owned'
    <3>1. verify_pending => state # "READY"
      BY DEF Owned, AnswersHold
    <3>2. CASE HandshakeWorking
      BY <1>2, <3>2 DEF HandshakeLooks, Owned
    <3>3. CASE ~HandshakeWorking
      <4>1. /\ op' = [op EXCEPT !["handshake"] = Idle]
            /\ base' = [base EXCEPT !.shaken = IF state = "READY" THEN "ok" ELSE "failed"]
            /\ UNCHANGED <<connVars, nw, past, verifyVars, block, mode, poll, held>>
        BY <1>2, <3>3 DEF HandshakeLooks
      <4>2. base'.closed = base.closed
            /\ base' \in [shaken : {"no", "ok", "failed"}, closed : SUBSET {"read", "write"}]
        BY <4>1 DEF Owned
      <4>3. op'["handshake"].pc = "idle"
        BY <4>1
      <4>4. verify_pending => state \in {"FAILED", "CLOSED"}
        BY <3>1, <3>3 DEF Owned
      <4>5. UNCHANGED <<state, fatal_error, connection, nw, verify_pending, block, mode, poll, held>>
        BY <4>1
      <4> QED BY <4>2, <4>3, <4>4, <4>5 DEF Owned
    <3> QED BY <3>2, <3>3
  <2>2. Abed'
    BY <1>2 DEF HandshakeLooks, Abed, Owned
  <2>3. Receiving' /\ Untold'
    BY <1>2 DEF HandshakeLooks, Receiving, Untold
  <2>4. ThreadsAreServed'
    BY <1>2, <2>1 DEF HandshakeLooks, ThreadsAreServed, Abed, Owned
  <2> QED BY <2>1, <2>2, <2>3, <2>4 DEF ServedInv
<1>3. ASSUME NEW accepted \in BOOLEAN, HandshakeVerified(accepted)
      PROVE  ServedInv'
  BY <1>3 DEF HandshakeVerified, Owned, Abed, Receiving, Untold, ThreadsAreServed
<1>4. CASE HandshakeGivesUp
  BY <1>4 DEF HandshakeGivesUp, Owned, Abed, Receiving, Untold, ThreadsAreServed
<1>5. CASE WaitExpires("handshake")
  BY <1>5 DEF WaitExpires, Owned, Abed, Receiving, Untold, ThreadsAreServed
<1> HIDE DEF TrustInv, Shapes, Alone, Deciding, ServedInv,
    Awake, Goes, Ends, HandshakeEnds, Attach, FailLocked, Broadcast, NwUnchanged, PollUnchanged,
    QueueFree, NoWait, Sleeps, Active, Idle, NoSource, HandshakeWorking, ReadIsOver,
    KickReceiveLocked, MayReceive, BaseCheck, Granted, Finished, References, connVars,
    verifyVars, rxVars, callVars, Calls
<1> QED BY <1>1, <1>2, <1>3, <1>4, <1>5 DEF Handshake

\* The blocks that keep the queue.
LEMMA BlocksServe ==
  ASSUME TrustInv, ServedInv, VerifyBlock \/ ChallengeBlock, UNCHANGED mode
  PROVE  ServedInv'
<1> USE DEF TrustInv, Shapes, Alone, Deciding, ServedInv,
    Awake, Goes, Ends, HandshakeEnds, Attach, FailLocked, Broadcast, NwUnchanged, PollUnchanged,
    QueueFree, NoWait, Sleeps, Active, Idle, NoSource, HandshakeWorking, ReadIsOver,
    KickReceiveLocked, MayReceive, BaseCheck, Granted, Finished, References, connVars,
    verifyVars, rxVars, callVars, Calls
<1>1. CASE VerifyBlockBegins
  <2>1. Owned'
    BY <1>1 DEF VerifyBlockBegins, VerifyBlockAsks, Owned
  <2>2. Abed'
    BY <1>1 DEF VerifyBlockBegins, VerifyBlockAsks, Abed
  <2>3. Receiving'
    BY <1>1 DEF VerifyBlockBegins, VerifyBlockAsks, Receiving
  <2>4. Untold'
    BY <1>1 DEF VerifyBlockBegins, VerifyBlockAsks, Untold
  <2>5. ThreadsAreServed'
    BY <1>1 DEF VerifyBlockBegins, VerifyBlockAsks, ThreadsAreServed
  <2> QED BY <2>1, <2>2, <2>3, <2>4, <2>5 DEF ServedInv
<1>2. CASE VerifyBlockWaits
  BY <1>2 DEF VerifyBlockWaits, Owned, Abed, Receiving, Untold, ThreadsAreServed
<1>3. CASE VerifyBlockEnds
  <2>1. Owned'
    BY <1>3 DEF VerifyBlockEnds, Owned
  <2>2. Abed'
    BY <1>3 DEF VerifyBlockEnds, Abed, Owned
  <2>3. Receiving'
    BY <1>3 DEF VerifyBlockEnds, Receiving, Owned
  <2>4. Untold'
    BY <1>3 DEF VerifyBlockEnds, Untold, Abed, Owned, Receiving
  <2>5. ThreadsAreServed'
    BY <1>3 DEF VerifyBlockEnds, ThreadsAreServed, Abed, Owned, Receiving
  <2> QED BY <2>1, <2>2, <2>3, <2>4, <2>5 DEF ServedInv
<1>4. CASE ChallengeBlockBegins
  BY <1>4 DEF ChallengeBlockBegins, Owned, Abed, Receiving, Untold, ThreadsAreServed
<1>5. CASE ChallengeBlockEnds
  BY <1>5 DEF ChallengeBlockEnds, Owned, Abed, Receiving, Untold, ThreadsAreServed
<1>6. CASE VerifyBlockRefuses
  BY <1>6 DEF VerifyBlockRefuses, Owned, Abed, Receiving, Untold, ThreadsAreServed
<1> HIDE DEF TrustInv, Shapes, Alone, Deciding, ServedInv,
    Awake, Goes, Ends, HandshakeEnds, Attach, FailLocked, Broadcast, NwUnchanged, PollUnchanged,
    QueueFree, NoWait, Sleeps, Active, Idle, NoSource, HandshakeWorking, ReadIsOver,
    KickReceiveLocked, MayReceive, BaseCheck, Granted, Finished, References, connVars,
    verifyVars, rxVars, callVars, Calls
<1> QED BY <1>1, <1>2, <1>3, <1>4, <1>5, <1>6 DEF VerifyBlock, ChallengeBlock

\* Reading and writing.
LEMMA ReadWriteServe ==
  ASSUME TrustInv, ServedInv, Read \/ Write, UNCHANGED mode
  PROVE  ServedInv'
<1> USE DEF TrustInv, Shapes, Alone, Deciding, ServedInv,
    Awake, Goes, Ends, HandshakeEnds, Attach, FailLocked, Broadcast, NwUnchanged, PollUnchanged,
    QueueFree, NoWait, Sleeps, Active, Idle, NoSource, HandshakeWorking, ReadIsOver,
    KickReceiveLocked, MayReceive, BaseCheck, Granted, Finished, References, connVars,
    verifyVars, rxVars, callVars, Calls
<1>1. ASSUME NEW count, ReadDrains(count)
      PROVE  ServedInv'
  <2>1. Owned'
    BY <1>1 DEF ReadDrains, Owned
  <2>2. Abed'
    BY <1>1 DEF ReadDrains, Abed, Owned
  <2>3. Receiving'
    BY <1>1 DEF ReadDrains, Receiving, Owned
  <2>4. Untold'
    BY <1>1 DEF ReadDrains, Untold, Abed, Owned, Receiving
  <2>5. ThreadsAreServed'
    BY <1>1 DEF ReadDrains, ThreadsAreServed, Abed, Owned, Receiving
  <2> QED BY <2>1, <2>2, <2>3, <2>4, <2>5 DEF ServedInv
<1>2. CASE ReadTellsEnd
  BY <1>2 DEF ReadTellsEnd, Owned, Abed, Receiving, Untold, ThreadsAreServed
<1>3. CASE ReadWaits
  <2>1. Owned'
    BY <1>3 DEF ReadWaits, Owned
  <2>2. Abed'
    BY <1>3 DEF ReadWaits, Abed, Owned
  <2>3. Receiving'
    BY <1>3 DEF ReadWaits, Receiving, Owned
  <2>4. Untold'
    BY <1>3 DEF ReadWaits, Untold, Abed, Owned, Receiving
  <2>5. ThreadsAreServed'
    BY <1>3 DEF ReadWaits, ThreadsAreServed, Abed, Owned, Receiving
  <2> QED BY <2>1, <2>2, <2>3, <2>4, <2>5 DEF ServedInv
<1>4. ASSUME NEW c \in {"read", "write"}, CallExpires(c)
      PROVE  ServedInv'
  BY <1>4 DEF CallExpires, Owned, Abed, Receiving, Untold, ThreadsAreServed
<1>5. CASE WriteWaits
  BY <1>5 DEF WriteWaits, Owned, Abed, Receiving, Untold, ThreadsAreServed
<1>6. CASE WriteFails
  BY <1>6 DEF WriteFails, Owned, Abed, Receiving, Untold, ThreadsAreServed
<1>7. CASE WriteSends
  BY <1>7 DEF WriteSends, Owned, Abed, Receiving, Untold, ThreadsAreServed
<1>8. ASSUME NEW c \in {"read", "write"}, WaitExpires(c)
      PROVE  ServedInv'
  BY <1>8 DEF WaitExpires, Owned, Abed, Receiving, Untold, ThreadsAreServed
<1> HIDE DEF TrustInv, Shapes, Alone, Deciding, ServedInv,
    Awake, Goes, Ends, HandshakeEnds, Attach, FailLocked, Broadcast, NwUnchanged, PollUnchanged,
    QueueFree, NoWait, Sleeps, Active, Idle, NoSource, HandshakeWorking, ReadIsOver,
    KickReceiveLocked, MayReceive, BaseCheck, Granted, Finished, References, connVars,
    verifyVars, rxVars, callVars, Calls
<1> QED BY <1>1, <1>2, <1>3, <1>4, <1>5, <1>6, <1>7, <1>8 DEF Read, Write

\* Closing.
LEMMA CloseServe ==
  ASSUME TrustInv, ServedInv, Close, UNCHANGED mode
  PROVE  ServedInv'
<1> USE DEF TrustInv, Shapes, Alone, Deciding, ServedInv,
    Awake, Goes, Ends, HandshakeEnds, Attach, FailLocked, Broadcast, NwUnchanged, PollUnchanged,
    QueueFree, NoWait, Sleeps, Active, Idle, NoSource, HandshakeWorking, ReadIsOver,
    KickReceiveLocked, MayReceive, BaseCheck, Granted, Finished, References, connVars,
    verifyVars, rxVars, callVars, Calls
<1>1. CASE CloseWaits
  BY <1>1 DEF CloseWaits, Owned, Abed, Receiving, Untold, ThreadsAreServed
<1>2. CASE CloseFlushes
  <2>1. Owned'
    BY <1>2 DEF CloseFlushes, Owned, AnswersHold
  <2>2. Abed'
    BY <1>2 DEF CloseFlushes, Abed, Owned
  <2>3. Receiving'
    BY <1>2 DEF CloseFlushes, Receiving, Owned
  <2>4. Untold'
    BY <1>2 DEF CloseFlushes, Untold, Abed, Owned, Receiving
  <2>5. ThreadsAreServed'
    BY <1>2 DEF CloseFlushes, ThreadsAreServed, Abed, Owned, Receiving
  <2> QED BY <2>1, <2>2, <2>3, <2>4, <2>5 DEF ServedInv
<1>3. CASE CloseFlushExpires
  <2>1. Owned'
    BY <1>3 DEF CloseFlushExpires, Owned
  <2>2. Abed'
    BY <1>3 DEF CloseFlushExpires, Abed, Owned
  <2>3. Receiving'
    BY <1>3 DEF CloseFlushExpires, Receiving, Owned
  <2>4. Untold'
    BY <1>3 DEF CloseFlushExpires, Untold, Abed, Owned, Receiving
  <2>5. ThreadsAreServed'
    BY <1>3 DEF CloseFlushExpires, ThreadsAreServed, Abed, Owned, Receiving
  <2> QED BY <2>1, <2>2, <2>3, <2>4, <2>5 DEF ServedInv
<1>4. CASE CloseCancels
  <2>1. Owned'
    <3> DEFINE b == nw.cancel \/ (connection /\ state # "CLOSED")
    <3>1. nw' = [nw EXCEPT !.cancel = b] /\ (b => nw.cancel \/ connection)
      BY <1>4 DEF CloseCancels
    <3> HIDE DEF b
    <3>2. nw'.state = nw.state /\ nw'.flush = nw.flush /\ (nw'.cancel => nw.cancel \/ connection)
      BY <3>1
    <3> QED BY <1>4, <3>2 DEF CloseCancels, Owned
  <2>2. Abed'
    BY <1>4 DEF CloseCancels, Abed, Owned
  <2>3. Receiving'
    BY <1>4 DEF CloseCancels, Receiving, Owned
  <2>4. Untold'
    BY <1>4 DEF CloseCancels, Untold, Abed, Owned, Receiving
  <2>5. ThreadsAreServed'
    BY <1>4 DEF CloseCancels, ThreadsAreServed, Abed, Owned, Receiving
  <2> QED BY <2>1, <2>2, <2>3, <2>4, <2>5 DEF ServedInv
<1>5. CASE CloseEnds
  <2>1. WakeUpBaseSources
    BY <1>5 DEF CloseEnds, Published
  <2>2. 
        /\ poll'.pc = poll.pc /\ poll'.context = poll.context /\ poll'.cond = poll.cond
        /\ (poll.context => poll'.woken)
        /\ poll' \in [pc : {"off", "attached", "check", "asleep"}, cond : {"IN", "OUT"},
                      context : BOOLEAN, woken : BOOLEAN]
    BY <2>1, WokenSource
  <2>3. Owned'
    BY <1>5, <2>2 DEF CloseEnds, Published, Owned
  <2>4. Abed'
    BY <1>5, <2>2 DEF CloseEnds, Published, Abed, Owned
  <2>5. Receiving'
    BY <1>5, <2>2 DEF CloseEnds, Published, Receiving, Owned
  <2>6. Untold'
    BY <1>5, <2>2 DEF CloseEnds, Published, Untold, Abed, Owned, Receiving
  <2>7. ThreadsAreServed'
    BY <1>5, <2>2 DEF CloseEnds, Published, ThreadsAreServed, Abed, Owned, Receiving
  <2> QED BY <2>3, <2>4, <2>5, <2>6, <2>7 DEF ServedInv
<1>6. CASE WaitExpires("close")
  BY <1>6 DEF WaitExpires, Owned, Abed, Receiving, Untold, ThreadsAreServed
<1> HIDE DEF TrustInv, Shapes, Alone, Deciding, ServedInv,
    Awake, Goes, Ends, HandshakeEnds, Attach, FailLocked, Broadcast, NwUnchanged, PollUnchanged,
    QueueFree, NoWait, Sleeps, Active, Idle, NoSource, HandshakeWorking, ReadIsOver,
    KickReceiveLocked, MayReceive, BaseCheck, Granted, Finished, References, connVars,
    verifyVars, rxVars, callVars, Calls
<1> QED BY <1>1, <1>2, <1>3, <1>4, <1>5, <1>6 DEF Close

\* What the framework runs on the queue.
LEMMA NwServe ==
  ASSUME TrustInv, ServedInv, NwStep, UNCHANGED mode
  PROVE  ServedInv'
<1> USE DEF TrustInv, Shapes, Alone, Deciding, ServedInv,
    Awake, Goes, Ends, HandshakeEnds, Attach, FailLocked, Broadcast, NwUnchanged, PollUnchanged,
    QueueFree, NoWait, Sleeps, Active, Idle, NoSource, HandshakeWorking, ReadIsOver,
    KickReceiveLocked, MayReceive, BaseCheck, Granted, Finished, References, connVars,
    verifyVars, rxVars, callVars, Calls
<1>1. CASE NwReady
  <2>1. held # "disposed" => WakeUpBaseSources
    BY <1>1 DEF NwReady, Published
  <2>2. held # "disposed" => 
        /\ poll'.pc = poll.pc /\ poll'.context = poll.context /\ poll'.cond = poll.cond
        /\ (poll.context => poll'.woken)
        /\ poll' \in [pc : {"off", "attached", "check", "asleep"}, cond : {"IN", "OUT"},
                      context : BOOLEAN, woken : BOOLEAN]
    BY <2>1, WokenSource
  <2>3. Owned'
    BY <1>1, <2>2 DEF NwReady, Published, Owned
  <2>4. Abed'
    BY <1>1, <2>2 DEF NwReady, Published, Abed, Owned
  <2>5. Receiving'
    BY <1>1, <2>2 DEF NwReady, Published, Receiving, Owned
  <2>6. Untold'
    BY <1>1, <2>2 DEF NwReady, Published, Untold, Abed, Owned, Receiving
  <2>7. ThreadsAreServed'
    BY <1>1, <2>2 DEF NwReady, Published, ThreadsAreServed, Abed, Owned, Receiving
  <2> QED BY <2>3, <2>4, <2>5, <2>6, <2>7 DEF ServedInv
<1>2. ASSUME NEW error \in NwErrors, NwFailed(error)
      PROVE  ServedInv'
  <2>1. held # "disposed" => WakeUpBaseSources
    BY <1>2 DEF NwFailed, Published
  <2>2. held # "disposed" => 
        /\ poll'.pc = poll.pc /\ poll'.context = poll.context /\ poll'.cond = poll.cond
        /\ (poll.context => poll'.woken)
        /\ poll' \in [pc : {"off", "attached", "check", "asleep"}, cond : {"IN", "OUT"},
                      context : BOOLEAN, woken : BOOLEAN]
    BY <2>1, WokenSource
  <2>3. Owned'
    BY <1>2, <2>2, ErrorsAreSome DEF NwFailed, Published, Owned
  <2>4. Abed'
    BY <1>2, <2>2, ErrorsAreSome DEF NwFailed, Published, Abed, Owned
  <2>5. Receiving'
    BY <1>2, <2>2, ErrorsAreSome DEF NwFailed, Published, Receiving, Owned
  <2>6. Untold'
    BY <1>2, <2>2, ErrorsAreSome DEF NwFailed, Published, Untold, Abed, Owned, Receiving
  <2>7. ThreadsAreServed'
    BY <1>2, <2>2, ErrorsAreSome DEF NwFailed, Published, ThreadsAreServed, Abed, Owned, Receiving
  <2> QED BY <2>3, <2>4, <2>5, <2>6, <2>7 DEF ServedInv
<1>3. ASSUME NEW error \in NwErrors, NwWaiting(error)
      PROVE  ServedInv'
  <2>1. held # "disposed" => WakeUpBaseSources
    BY <1>3 DEF NwWaiting, Published
  <2>2. held # "disposed" => 
        /\ poll'.pc = poll.pc /\ poll'.context = poll.context /\ poll'.cond = poll.cond
        /\ (poll.context => poll'.woken)
        /\ poll' \in [pc : {"off", "attached", "check", "asleep"}, cond : {"IN", "OUT"},
                      context : BOOLEAN, woken : BOOLEAN]
    BY <2>1, WokenSource
  <2>3. Owned'
    BY <1>3, <2>2, ErrorsAreSome DEF NwWaiting, Published, Owned
  <2>4. Abed'
    BY <1>3, <2>2, ErrorsAreSome DEF NwWaiting, Published, Abed, Owned
  <2>5. Receiving'
    BY <1>3, <2>2, ErrorsAreSome DEF NwWaiting, Published, Receiving, Owned
  <2>6. Untold'
    BY <1>3, <2>2, ErrorsAreSome DEF NwWaiting, Published, Untold, Abed, Owned, Receiving
  <2>7. ThreadsAreServed'
    BY <1>3, <2>2, ErrorsAreSome DEF NwWaiting, Published, ThreadsAreServed, Abed, Owned, Receiving
  <2> QED BY <2>3, <2>4, <2>5, <2>6, <2>7 DEF ServedInv
<1>4. CASE NwTriesAgain
  <2>1. held # "disposed" => WakeUpBaseSources
    BY <1>4 DEF NwTriesAgain, Published
  <2>2. held # "disposed" => 
        /\ poll'.pc = poll.pc /\ poll'.context = poll.context /\ poll'.cond = poll.cond
        /\ (poll.context => poll'.woken)
        /\ poll' \in [pc : {"off", "attached", "check", "asleep"}, cond : {"IN", "OUT"},
                      context : BOOLEAN, woken : BOOLEAN]
    BY <2>1, WokenSource
  <2>3. Owned'
    BY <1>4, <2>2 DEF NwTriesAgain, Published, Owned
  <2>4. Abed'
    BY <1>4, <2>2 DEF NwTriesAgain, Published, Abed, Owned
  <2>5. Receiving'
    BY <1>4, <2>2 DEF NwTriesAgain, Published, Receiving, Owned
  <2>6. Untold'
    BY <1>4, <2>2 DEF NwTriesAgain, Published, Untold, Abed, Owned, Receiving
  <2>7. ThreadsAreServed'
    BY <1>4, <2>2 DEF NwTriesAgain, Published, ThreadsAreServed, Abed, Owned, Receiving
  <2> QED BY <2>3, <2>4, <2>5, <2>6, <2>7 DEF ServedInv
<1>5. CASE NwCancelled
  <2>1. held # "disposed" => WakeUpBaseSources
    BY <1>5 DEF NwCancelled, Published
  <2>2. held # "disposed" => 
        /\ poll'.pc = poll.pc /\ poll'.context = poll.context /\ poll'.cond = poll.cond
        /\ (poll.context => poll'.woken)
        /\ poll' \in [pc : {"off", "attached", "check", "asleep"}, cond : {"IN", "OUT"},
                      context : BOOLEAN, woken : BOOLEAN]
    BY <2>1, WokenSource
  <2>3. Owned'
    <3>1. CASE held = "disposed"
      BY <1>5, <3>1 DEF NwCancelled, Owned
    <3>2. CASE held # "disposed"
      BY <1>5, <2>2, <3>2 DEF NwCancelled, Published, Owned
    <3> QED BY <3>1, <3>2
  <2>4. Abed'
    BY <1>5, <2>2 DEF NwCancelled, Published, Abed, Owned
  <2>5. Receiving'
    BY <1>5, <2>2 DEF NwCancelled, Published, Receiving, Owned
  <2>6. Untold'
    BY <1>5, <2>2 DEF NwCancelled, Published, Untold, Abed, Owned, Receiving
  <2>7. ThreadsAreServed'
    BY <1>5, <2>2 DEF NwCancelled, Published, ThreadsAreServed, Abed, Owned, Receiving
  <2> QED BY <2>3, <2>4, <2>5, <2>6, <2>7 DEF ServedInv
<1>6. ASSUME NEW chunk, NEW final \in BOOLEAN, NEW failed \in BOOLEAN, ReceiveCompletes(chunk, final, failed)
      PROVE  ServedInv'
  <2>1. WakeUpBaseSources
    BY <1>6 DEF ReceiveCompletes, Published
  <2>2. 
        /\ poll'.pc = poll.pc /\ poll'.context = poll.context /\ poll'.cond = poll.cond
        /\ (poll.context => poll'.woken)
        /\ poll' \in [pc : {"off", "attached", "check", "asleep"}, cond : {"IN", "OUT"},
                      context : BOOLEAN, woken : BOOLEAN]
    BY <2>1, WokenSource
  <2>3. Owned'
    BY <1>6, <2>2, ErrorsAreSome DEF ReceiveCompletes, Published, Owned
  <2>4. Abed'
    BY <1>6, <2>2, ErrorsAreSome DEF ReceiveCompletes, Published, Abed, Owned
  <2>5. Receiving'
    <3>1. Append(<<>>, chunk) # <<>>
      OBVIOUS
    <3>2. CASE failed
      BY <1>6, <3>2 DEF ReceiveCompletes, Receiving
    <3>3. CASE ~failed /\ final
      BY <1>6, <3>3 DEF ReceiveCompletes, Receiving
    <3>4. CASE ~failed /\ ~final
      BY <1>6, <3>1, <3>4 DEF ReceiveCompletes, Receiving
    <3> QED BY <1>6, <3>2, <3>3, <3>4
  <2>6. Untold'
    BY <1>6, <2>2, ErrorsAreSome DEF ReceiveCompletes, Published, Untold, Abed, Owned, Receiving
  <2>7. ThreadsAreServed'
    BY <1>6, <2>2, ErrorsAreSome DEF ReceiveCompletes, Published, ThreadsAreServed, Abed, Owned, Receiving
  <2> QED BY <2>3, <2>4, <2>5, <2>6, <2>7 DEF ServedInv
<1>7. ASSUME NEW failed \in BOOLEAN, SendCompletes(failed)
      PROVE  ServedInv'
  <2>1. WakeUpBaseSources
    BY <1>7 DEF SendCompletes, Published
  <2>2. 
        /\ poll'.pc = poll.pc /\ poll'.context = poll.context /\ poll'.cond = poll.cond
        /\ (poll.context => poll'.woken)
        /\ poll' \in [pc : {"off", "attached", "check", "asleep"}, cond : {"IN", "OUT"},
                      context : BOOLEAN, woken : BOOLEAN]
    BY <2>1, WokenSource
  <2>3. Owned'
    BY <1>7, <2>2, ErrorsAreSome DEF SendCompletes, Published, Owned
  <2>4. Abed'
    BY <1>7, <2>2, ErrorsAreSome DEF SendCompletes, Published, Abed, Owned
  <2>5. Receiving'
    BY <1>7, <2>2, ErrorsAreSome DEF SendCompletes, Published, Receiving, Owned
  <2>6. Untold'
    BY <1>7, <2>2, ErrorsAreSome DEF SendCompletes, Published, Untold, Abed, Owned, Receiving
  <2>7. ThreadsAreServed'
    BY <1>7, <2>2, ErrorsAreSome DEF SendCompletes, Published, ThreadsAreServed, Abed, Owned, Receiving
  <2> QED BY <2>3, <2>4, <2>5, <2>6, <2>7 DEF ServedInv
<1>8. CASE FlushCompletes
  <2>1. Owned'
    BY <1>8 DEF FlushCompletes, Owned
  <2>2. Abed'
    BY <1>8 DEF FlushCompletes, Abed, Owned
  <2>3. Receiving'
    BY <1>8 DEF FlushCompletes, Receiving, Owned
  <2>4. Untold'
    BY <1>8 DEF FlushCompletes, Untold, Abed, Owned, Receiving
  <2>5. ThreadsAreServed'
    BY <1>8 DEF FlushCompletes, ThreadsAreServed, Abed, Owned, Receiving
  <2> QED BY <2>1, <2>2, <2>3, <2>4, <2>5 DEF ServedInv
<1> HIDE DEF TrustInv, Shapes, Alone, Deciding, ServedInv,
    Awake, Goes, Ends, HandshakeEnds, Attach, FailLocked, Broadcast, NwUnchanged, PollUnchanged,
    QueueFree, NoWait, Sleeps, Active, Idle, NoSource, HandshakeWorking, ReadIsOver,
    KickReceiveLocked, MayReceive, BaseCheck, Granted, Finished, References, connVars,
    verifyVars, rxVars, callVars, Calls
<1> QED BY <1>1, <1>2, <1>3, <1>4, <1>5, <1>6, <1>7, <1>8 DEF NwStep, ReceiveCompletion

\* The application, its main loop, and the end.
LEMMA ApplicationServe ==
  ASSUME TrustInv, ServedInv, PollStep \/ Application \/ Dispose, UNCHANGED mode
  PROVE  ServedInv'
<1> USE DEF TrustInv, Shapes, Alone, Deciding, ServedInv,
    Awake, Goes, Ends, HandshakeEnds, Attach, FailLocked, Broadcast, NwUnchanged, PollUnchanged,
    QueueFree, NoWait, Sleeps, Active, Idle, NoSource, HandshakeWorking, ReadIsOver,
    KickReceiveLocked, MayReceive, BaseCheck, Granted, Finished, References, connVars,
    verifyVars, rxVars, callVars, Calls
<1>1. CASE CacheContext
  <2>1. Owned'
    BY <1>1 DEF CacheContext, Owned
  <2>2. Abed'
    BY <1>1 DEF CacheContext, Abed, Owned
  <2>3. Receiving'
    BY <1>1 DEF CacheContext, Receiving, Owned
  <2>4. Untold'
    BY <1>1 DEF CacheContext, Untold, Abed, Owned, Receiving
  <2>5. ThreadsAreServed'
    BY <1>1 DEF CacheContext, ThreadsAreServed, Abed, Owned, Receiving
  <2> QED BY <2>1, <2>2, <2>3, <2>4, <2>5 DEF ServedInv
<1>2. CASE SourceChecks
  <2>1. Owned'
    BY <1>2 DEF SourceChecks, Owned
  <2>2. Abed'
    BY <1>2 DEF SourceChecks, Abed, Owned
  <2>3. Receiving'
    BY <1>2 DEF SourceChecks, Receiving, Owned
  <2>4. Untold'
    BY <1>2 DEF SourceChecks, Untold, Abed, Owned, Receiving
  <2>5. ThreadsAreServed'
    BY <1>2 DEF SourceChecks, ThreadsAreServed, Abed, Owned, Receiving
  <2> QED BY <2>1, <2>2, <2>3, <2>4, <2>5 DEF ServedInv
<1>3. CASE LoopWakes
  <2>1. Owned'
    BY <1>3 DEF LoopWakes, Owned
  <2>2. Abed'
    BY <1>3 DEF LoopWakes, Abed, Owned
  <2>3. Receiving'
    BY <1>3 DEF LoopWakes, Receiving, Owned
  <2>4. Untold'
    BY <1>3 DEF LoopWakes, Untold, Abed, Owned, Receiving
  <2>5. ThreadsAreServed'
    BY <1>3 DEF LoopWakes, ThreadsAreServed, Abed, Owned, Receiving
  <2> QED BY <2>1, <2>2, <2>3, <2>4, <2>5 DEF ServedInv
<1>4. ASSUME NEW c \in Calls, NEW timeout, NEW half \in BOOLEAN, Starts(c, timeout, half)
      PROVE  ServedInv'
  BY <1>4 DEF Starts, Owned, Abed, Receiving, Untold, ThreadsAreServed
<1>5. ASSUME NEW c \in Calls, Cancels(c)
      PROVE  ServedInv'
  BY <1>5 DEF Cancels, Owned, Abed, Receiving, Untold, ThreadsAreServed
<1>6. ASSUME held = "app", CreateBaseSource(mode.polls)
      PROVE  ServedInv'
  <2>1. Owned'
    BY <1>6, AppleAssumption DEF CreateBaseSource, Owned
  <2>2. Abed'
    BY <1>6, AppleAssumption DEF CreateBaseSource, Abed, Owned
  <2>3. Receiving'
    BY <1>6, AppleAssumption DEF CreateBaseSource, Receiving, Owned
  <2>4. Untold'
    BY <1>6, AppleAssumption DEF CreateBaseSource, Untold, Abed, Owned, Receiving
  <2>5. ThreadsAreServed'
    BY <1>6, AppleAssumption DEF CreateBaseSource, ThreadsAreServed, Abed, Owned, Receiving
  <2> QED BY <2>1, <2>2, <2>3, <2>4, <2>5 DEF ServedInv
<1>7. CASE Drops
  BY <1>7 DEF Drops, Owned, Abed, Receiving, Untold, ThreadsAreServed
<1>8. CASE Dispose
  <2>1. Owned'
    <3>1. block = "idle"
      BY <1>8 DEF Dispose
    <3> DEFINE v == nw.cancel \/ connection
    <3>2. /\ nw' = [nw EXCEPT !.cancel = v] /\ state' \in {state, "CLOSED"} /\ held' = "disposed"
          /\ connection' = FALSE /\ UNCHANGED <<fatal_error, verify_pending, op, block, base, poll>>
      BY <1>8 DEF Dispose
    <3> HIDE DEF v
    <3>3. nw'.state = nw.state /\ nw'.flush = nw.flush /\ (nw'.cancel <=> v)
      BY <3>2
    <3>4. v => nw.state # "none"
      BY DEF v, Owned
    <3>5. ~verify_pending
      BY <3>1
    <3> QED BY <3>1, <3>2, <3>3, <3>4, <3>5 DEF Owned
  <2>2. Abed'
    BY <1>8 DEF Dispose, Abed, Owned
  <2>3. Receiving'
    BY <1>8 DEF Dispose, Receiving, Owned
  <2>4. Untold'
    BY <1>8 DEF Dispose, Untold, Abed, Owned, Receiving
  <2>5. ThreadsAreServed'
    BY <1>8 DEF Dispose, ThreadsAreServed, Abed, Owned, Receiving
  <2> QED BY <2>1, <2>2, <2>3, <2>4, <2>5 DEF ServedInv
<1> HIDE DEF TrustInv, Shapes, Alone, Deciding, ServedInv,
    Awake, Goes, Ends, HandshakeEnds, Attach, FailLocked, Broadcast, NwUnchanged, PollUnchanged,
    QueueFree, NoWait, Sleeps, Active, Idle, NoSource, HandshakeWorking, ReadIsOver,
    KickReceiveLocked, MayReceive, BaseCheck, Granted, Finished, References, connVars,
    verifyVars, rxVars, callVars, Calls
<1> QED BY <1>1, <1>2, <1>3, <1>4, <1>5, <1>6, <1>7, <1>8 DEF PollStep, Application

\* The sleepers' invariant holds of every reachable state.
LEMMA ServedInvariant == Spec => []ServedInv
<1>1. Init => ServedInv
  BY AppleAssumption DEF Init, Idle, NoSource, Active, Calls, ServedInv, Owned, Abed, Receiving, Untold,
                         ThreadsAreServed
<1>2. TrustInv /\ ServedInv /\ [Next]_vars => ServedInv'
  <2>1. CASE Next
    BY <2>1, HandshakeServe, BlocksServe, ReadWriteServe, CloseServe, NwServe, ApplicationServe
       DEF Next
  <2>2. ASSUME ServedInv, UNCHANGED vars
        PROVE  ServedInv'
    BY <2>2 DEF vars, connVars, verifyVars, rxVars, callVars, ServedInv, Owned, Abed, Receiving, Untold,
                ThreadsAreServed, Active, BaseCheck, HandshakeWorking, ReadIsOver
  <2> QED BY <2>1, <2>2
<1> QED BY <1>1, <1>2, TrustInvariant, PTL DEF Spec

-----------------------------------------------------------------------------
(***************************************************************************)
(* Whoever sleeps has a reason to, and somebody who will wake it:          *)
(* state_cond and the wake-ups of the base sources are told of every       *)
(* change they wait for, a certificate waits for a handshake that will     *)
(* answer, also one whose deadline passes as the certificate comes, and a  *)
(* ready connection with a reader has a receive under way                  *)
(* (gtlsconnection-apple.c:573).  Left without, as the code leaves them,   *)
(* are the block of a certificate that comes after the handshake has given *)
(* up and the poller that an empty datagram woke.                          *)
(***************************************************************************)
THEOREM SleepersServed == Spec => []SleepersAreServed
<1>1. ServedInv => SleepersAreServed
  BY DEF ServedInv, ThreadsAreServed, Untold, Receiving, BaseCheck, SleepersAreServed
<1> QED BY <1>1, ServedInvariant, PTL

\* What has been written has been sent, but for the send in flight, until one fails.
Sent ==
  /\ past.flushed \in Nat /\ past.writes \in Nat
  /\ fatal_error = "none" => past.flushed + (IF tx_in_flight THEN 1 ELSE 0) = past.writes

\* A close is of a connection that was ready and whose writing side is open, and
\* beside no write.
Closers ==
  /\ base.shaken = "ok" => nw.state # "none" /\ state \in {"READY", "FAILED", "CLOSED"}
  /\ Active("close") => base.shaken = "ok" /\ "write" \notin base.closed /\ ~Active("write")
  /\ state = "CLOSED" /\ "write" \notin base.closed => ~tx_in_flight

\* Who had the framework's connection cancelled, or how it ended by itself.
CancelledWhy ==
  nw.cancel \/ Finished =>
    \/ fatal_error # "none" \/ ~past.clean \/ op["close"].pc = "cancelled"
    \/ "write" \in base.closed \/ held = "disposed"

\* What a close that was not pressed for time need not wait for any more.
NothingInFlight ==
  fatal_error = "none" /\ past.clean =>
    /\ op["close"].pc \in {"cancel", "cancelled"} => ~tx_in_flight
    /\ op["close"].pc = "flush" /\ nw.flush = "done" => ~tx_in_flight

CloseInv == Sent /\ Closers /\ CancelledWhy /\ NothingInFlight

-----------------------------------------------------------------------------
\* The handshake's thread.
LEMMA HandshakeSends ==
  ASSUME TrustInv, ServedInv, CloseInv, Handshake, UNCHANGED mode
  PROVE  CloseInv'
<1> USE DEF TrustInv, Shapes, Alone, Deciding, AnswersHold, ServedInv, Owned, CloseInv,
    Awake, Goes, Ends, HandshakeEnds, Attach, FailLocked, Broadcast, NwUnchanged, PollUnchanged,
    QueueFree, NoWait, Sleeps, Active, Idle, NoSource, HandshakeWorking, ReadIsOver,
    KickReceiveLocked, MayReceive, BaseCheck, Granted, Finished, References, connVars,
    verifyVars, rxVars, callVars, Calls
<1>1. CASE HandshakeStarts
  <2>1. Sent'
    BY <1>1 DEF HandshakeStarts, Sent
  <2>2. Closers'
    BY <1>1 DEF HandshakeStarts, Closers
  <2>3. CancelledWhy'
    BY <1>1 DEF HandshakeStarts, CancelledWhy, Closers
  <2>4. NothingInFlight'
    BY <1>1 DEF HandshakeStarts, NothingInFlight, CancelledWhy, Closers
  <2> QED BY <2>1, <2>2, <2>3, <2>4 DEF CloseInv
<1>2. CASE HandshakeLooks
  <2>1. Sent'
    BY <1>2 DEF HandshakeLooks, Sent
  <2>2. Closers'
    BY <1>2 DEF HandshakeLooks, Closers
  <2>3. CancelledWhy'
    BY <1>2 DEF HandshakeLooks, CancelledWhy, Closers
  <2>4. NothingInFlight'
    BY <1>2 DEF HandshakeLooks, NothingInFlight, CancelledWhy, Closers
  <2> QED BY <2>1, <2>2, <2>3, <2>4 DEF CloseInv
<1>3. ASSUME NEW accepted \in BOOLEAN, HandshakeVerified(accepted)
      PROVE  CloseInv'
  <2>1. Sent'
    BY <1>3 DEF HandshakeVerified, Sent
  <2>2. Closers'
    BY <1>3 DEF HandshakeVerified, Closers
  <2>3. CancelledWhy'
    BY <1>3 DEF HandshakeVerified, CancelledWhy, Closers
  <2>4. NothingInFlight'
    BY <1>3 DEF HandshakeVerified, NothingInFlight, CancelledWhy, Closers
  <2> QED BY <2>1, <2>2, <2>3, <2>4 DEF CloseInv
<1>4. CASE HandshakeGivesUp
  BY <1>4 DEF HandshakeGivesUp, Sent, Closers, CancelledWhy, NothingInFlight
<1>5. CASE WaitExpires("handshake")
  BY <1>5 DEF WaitExpires, Sent, Closers, CancelledWhy, NothingInFlight
<1> HIDE DEF TrustInv, Shapes, Alone, Deciding, AnswersHold, ServedInv, Owned, CloseInv,
    Awake, Goes, Ends, HandshakeEnds, Attach, FailLocked, Broadcast, NwUnchanged, PollUnchanged,
    QueueFree, NoWait, Sleeps, Active, Idle, NoSource, HandshakeWorking, ReadIsOver,
    KickReceiveLocked, MayReceive, BaseCheck, Granted, Finished, References, connVars,
    verifyVars, rxVars, callVars, Calls
<1> QED BY <1>1, <1>2, <1>3, <1>4, <1>5 DEF Handshake

\* The blocks that keep the queue.
LEMMA BlocksSends ==
  ASSUME TrustInv, ServedInv, CloseInv, VerifyBlock \/ ChallengeBlock, UNCHANGED mode
  PROVE  CloseInv'
<1> USE DEF TrustInv, Shapes, Alone, Deciding, AnswersHold, ServedInv, Owned, CloseInv,
    Awake, Goes, Ends, HandshakeEnds, Attach, FailLocked, Broadcast, NwUnchanged, PollUnchanged,
    QueueFree, NoWait, Sleeps, Active, Idle, NoSource, HandshakeWorking, ReadIsOver,
    KickReceiveLocked, MayReceive, BaseCheck, Granted, Finished, References, connVars,
    verifyVars, rxVars, callVars, Calls
<1>1. CASE VerifyBlockBegins
  BY <1>1 DEF VerifyBlockBegins, VerifyBlockAsks, Sent, Closers, CancelledWhy, NothingInFlight
<1>2. CASE VerifyBlockWaits
  BY <1>2 DEF VerifyBlockWaits, Sent, Closers, CancelledWhy, NothingInFlight
<1>3. CASE VerifyBlockEnds
  BY <1>3 DEF VerifyBlockEnds, Sent, Closers, CancelledWhy, NothingInFlight
<1>4. CASE ChallengeBlockBegins
  BY <1>4 DEF ChallengeBlockBegins, Sent, Closers, CancelledWhy, NothingInFlight
<1>5. CASE ChallengeBlockEnds
  BY <1>5 DEF ChallengeBlockEnds, Sent, Closers, CancelledWhy, NothingInFlight
<1>6. CASE VerifyBlockRefuses
  BY <1>6 DEF VerifyBlockRefuses, Sent, Closers, CancelledWhy, NothingInFlight
<1> HIDE DEF TrustInv, Shapes, Alone, Deciding, AnswersHold, ServedInv, Owned, CloseInv,
    Awake, Goes, Ends, HandshakeEnds, Attach, FailLocked, Broadcast, NwUnchanged, PollUnchanged,
    QueueFree, NoWait, Sleeps, Active, Idle, NoSource, HandshakeWorking, ReadIsOver,
    KickReceiveLocked, MayReceive, BaseCheck, Granted, Finished, References, connVars,
    verifyVars, rxVars, callVars, Calls
<1> QED BY <1>1, <1>2, <1>3, <1>4, <1>5, <1>6 DEF VerifyBlock, ChallengeBlock

\* Reading and writing.
LEMMA ReadWriteSends ==
  ASSUME TrustInv, ServedInv, CloseInv, Read \/ Write, UNCHANGED mode
  PROVE  CloseInv'
<1> USE DEF TrustInv, Shapes, Alone, Deciding, AnswersHold, ServedInv, Owned, CloseInv,
    Awake, Goes, Ends, HandshakeEnds, Attach, FailLocked, Broadcast, NwUnchanged, PollUnchanged,
    QueueFree, NoWait, Sleeps, Active, Idle, NoSource, HandshakeWorking, ReadIsOver,
    KickReceiveLocked, MayReceive, BaseCheck, Granted, Finished, References, connVars,
    verifyVars, rxVars, callVars, Calls
<1>1. ASSUME NEW count, ReadDrains(count)
      PROVE  CloseInv'
  BY <1>1 DEF ReadDrains, Sent, Closers, CancelledWhy, NothingInFlight
<1>2. CASE ReadTellsEnd
  BY <1>2 DEF ReadTellsEnd, Sent, Closers, CancelledWhy, NothingInFlight
<1>3. CASE ReadWaits
  BY <1>3 DEF ReadWaits, Sent, Closers, CancelledWhy, NothingInFlight
<1>4. ASSUME NEW c \in {"read", "write"}, CallExpires(c)
      PROVE  CloseInv'
  BY <1>4 DEF CallExpires, Sent, Closers, CancelledWhy, NothingInFlight
<1>5. CASE WriteWaits
  BY <1>5 DEF WriteWaits, Sent, Closers, CancelledWhy, NothingInFlight
<1>6. CASE WriteFails
  BY <1>6 DEF WriteFails, Sent, Closers, CancelledWhy, NothingInFlight
<1>7. CASE WriteSends
  BY <1>7 DEF WriteSends, Sent, Closers, CancelledWhy, NothingInFlight
<1>8. ASSUME NEW c \in {"read", "write"}, WaitExpires(c)
      PROVE  CloseInv'
  BY <1>8 DEF WaitExpires, Sent, Closers, CancelledWhy, NothingInFlight
<1> HIDE DEF TrustInv, Shapes, Alone, Deciding, AnswersHold, ServedInv, Owned, CloseInv,
    Awake, Goes, Ends, HandshakeEnds, Attach, FailLocked, Broadcast, NwUnchanged, PollUnchanged,
    QueueFree, NoWait, Sleeps, Active, Idle, NoSource, HandshakeWorking, ReadIsOver,
    KickReceiveLocked, MayReceive, BaseCheck, Granted, Finished, References, connVars,
    verifyVars, rxVars, callVars, Calls
<1> QED BY <1>1, <1>2, <1>3, <1>4, <1>5, <1>6, <1>7, <1>8 DEF Read, Write

\* Closing.
LEMMA CloseSends ==
  ASSUME TrustInv, ServedInv, CloseInv, Close, UNCHANGED mode
  PROVE  CloseInv'
<1> USE DEF TrustInv, Shapes, Alone, Deciding, AnswersHold, ServedInv, Owned, CloseInv,
    Awake, Goes, Ends, HandshakeEnds, Attach, FailLocked, Broadcast, NwUnchanged, PollUnchanged,
    QueueFree, NoWait, Sleeps, Active, Idle, NoSource, HandshakeWorking, ReadIsOver,
    KickReceiveLocked, MayReceive, BaseCheck, Granted, Finished, References, connVars,
    verifyVars, rxVars, callVars, Calls
<1>1. CASE CloseWaits
  BY <1>1 DEF CloseWaits, Sent, Closers, CancelledWhy, NothingInFlight
<1>2. CASE CloseFlushes
  BY <1>2 DEF CloseFlushes, Sent, Closers, CancelledWhy, NothingInFlight
<1>3. CASE CloseFlushExpires
  BY <1>3 DEF CloseFlushExpires, Sent, Closers, CancelledWhy, NothingInFlight
<1>4. CASE CloseCancels
  BY <1>4 DEF CloseCancels, Sent, Closers, CancelledWhy, NothingInFlight
<1>5. CASE CloseEnds
  BY <1>5 DEF CloseEnds, Sent, Closers, CancelledWhy, NothingInFlight
<1>6. CASE WaitExpires("close")
  <2>1. op'["close"].pc = "expired" /\ \A c \in Calls : op'[c].pc # "idle" <=> op[c].pc # "idle"
    BY <1>6 DEF WaitExpires
  <2>2. Sent' /\ Closers'
    BY <1>6, <2>1 DEF WaitExpires, Sent, Closers
  <2>3. CancelledWhy'
    BY <1>6, <2>1 DEF WaitExpires, CancelledWhy, Abed
  <2>4. NothingInFlight'
    BY <1>6, <2>1 DEF WaitExpires, NothingInFlight
  <2> QED BY <2>2, <2>3, <2>4 DEF CloseInv
<1> HIDE DEF TrustInv, Shapes, Alone, Deciding, AnswersHold, ServedInv, Owned, CloseInv,
    Awake, Goes, Ends, HandshakeEnds, Attach, FailLocked, Broadcast, NwUnchanged, PollUnchanged,
    QueueFree, NoWait, Sleeps, Active, Idle, NoSource, HandshakeWorking, ReadIsOver,
    KickReceiveLocked, MayReceive, BaseCheck, Granted, Finished, References, connVars,
    verifyVars, rxVars, callVars, Calls
<1> QED BY <1>1, <1>2, <1>3, <1>4, <1>5, <1>6 DEF Close

\* What the framework runs on the queue.
LEMMA NwSends ==
  ASSUME TrustInv, ServedInv, CloseInv, NwStep, UNCHANGED mode
  PROVE  CloseInv'
<1> USE DEF TrustInv, Shapes, Alone, Deciding, AnswersHold, ServedInv, Owned, CloseInv,
    Awake, Goes, Ends, HandshakeEnds, Attach, FailLocked, Broadcast, NwUnchanged, PollUnchanged,
    QueueFree, NoWait, Sleeps, Active, Idle, NoSource, HandshakeWorking, ReadIsOver,
    KickReceiveLocked, MayReceive, BaseCheck, Granted, Finished, References, connVars,
    verifyVars, rxVars, callVars, Calls
<1>1. CASE NwReady
  BY <1>1 DEF NwReady, Sent, Closers, CancelledWhy, NothingInFlight
<1>2. ASSUME NEW error \in NwErrors, NwFailed(error)
      PROVE  CloseInv'
  <2>1. Sent'
    BY <1>2, ErrorsAreSome DEF NwFailed, Sent
  <2>2. Closers'
    BY <1>2, ErrorsAreSome DEF NwFailed, Closers
  <2>3. CancelledWhy'
    BY <1>2, ErrorsAreSome DEF NwFailed, CancelledWhy, Closers
  <2>4. NothingInFlight'
    BY <1>2, ErrorsAreSome DEF NwFailed, NothingInFlight, CancelledWhy, Closers
  <2> QED BY <2>1, <2>2, <2>3, <2>4 DEF CloseInv
<1>3. ASSUME NEW error \in NwErrors, NwWaiting(error)
      PROVE  CloseInv'
  <2>1. Sent'
    BY <1>3, ErrorsAreSome DEF NwWaiting, Sent
  <2>2. Closers'
    BY <1>3, ErrorsAreSome DEF NwWaiting, Closers
  <2>3. CancelledWhy'
    BY <1>3, ErrorsAreSome DEF NwWaiting, CancelledWhy, Closers
  <2>4. NothingInFlight'
    BY <1>3, ErrorsAreSome DEF NwWaiting, NothingInFlight, CancelledWhy, Closers
  <2> QED BY <2>1, <2>2, <2>3, <2>4 DEF CloseInv
<1>4. CASE NwTriesAgain
  BY <1>4 DEF NwTriesAgain, Sent, Closers, CancelledWhy, NothingInFlight
<1>5. CASE NwCancelled
  BY <1>5 DEF NwCancelled, Sent, Closers, CancelledWhy, NothingInFlight
<1>6. ASSUME NEW chunk, NEW final \in BOOLEAN, NEW failed \in BOOLEAN, ReceiveCompletes(chunk, final, failed)
      PROVE  CloseInv'
  <2>1. Sent'
    BY <1>6, ErrorsAreSome DEF ReceiveCompletes, Sent
  <2>2. Closers'
    BY <1>6, ErrorsAreSome DEF ReceiveCompletes, Closers
  <2>3. CancelledWhy'
    BY <1>6, ErrorsAreSome DEF ReceiveCompletes, CancelledWhy, Closers
  <2>4. NothingInFlight'
    BY <1>6, ErrorsAreSome DEF ReceiveCompletes, NothingInFlight, CancelledWhy, Closers
  <2> QED BY <2>1, <2>2, <2>3, <2>4 DEF CloseInv
<1>7. ASSUME NEW failed \in BOOLEAN, SendCompletes(failed)
      PROVE  CloseInv'
  <2>1. Sent'
    BY <1>7, ErrorsAreSome DEF SendCompletes, Sent
  <2>2. Closers'
    BY <1>7, ErrorsAreSome DEF SendCompletes, Closers
  <2>3. CancelledWhy'
    BY <1>7, ErrorsAreSome DEF SendCompletes, CancelledWhy, Closers
  <2>4. NothingInFlight'
    BY <1>7, ErrorsAreSome DEF SendCompletes, NothingInFlight, CancelledWhy, Closers
  <2> QED BY <2>1, <2>2, <2>3, <2>4 DEF CloseInv
<1>8. CASE FlushCompletes
  <2>1. Sent'
    BY <1>8 DEF FlushCompletes, Sent
  <2>2. Closers'
    BY <1>8 DEF FlushCompletes, Closers
  <2>3. CancelledWhy'
    BY <1>8 DEF FlushCompletes, CancelledWhy, Closers
  <2>4. NothingInFlight'
    BY <1>8 DEF FlushCompletes, NothingInFlight, CancelledWhy, Closers
  <2> QED BY <2>1, <2>2, <2>3, <2>4 DEF CloseInv
<1> HIDE DEF TrustInv, Shapes, Alone, Deciding, AnswersHold, ServedInv, Owned, CloseInv,
    Awake, Goes, Ends, HandshakeEnds, Attach, FailLocked, Broadcast, NwUnchanged, PollUnchanged,
    QueueFree, NoWait, Sleeps, Active, Idle, NoSource, HandshakeWorking, ReadIsOver,
    KickReceiveLocked, MayReceive, BaseCheck, Granted, Finished, References, connVars,
    verifyVars, rxVars, callVars, Calls
<1> QED BY <1>1, <1>2, <1>3, <1>4, <1>5, <1>6, <1>7, <1>8 DEF NwStep, ReceiveCompletion

\* The application, its main loop, and the end.
LEMMA ApplicationSends ==
  ASSUME TrustInv, ServedInv, CloseInv, PollStep \/ Application \/ Dispose, UNCHANGED mode
  PROVE  CloseInv'
<1> USE DEF TrustInv, Shapes, Alone, Deciding, AnswersHold, ServedInv, Owned, CloseInv,
    Awake, Goes, Ends, HandshakeEnds, Attach, FailLocked, Broadcast, NwUnchanged, PollUnchanged,
    QueueFree, NoWait, Sleeps, Active, Idle, NoSource, HandshakeWorking, ReadIsOver,
    KickReceiveLocked, MayReceive, BaseCheck, Granted, Finished, References, connVars,
    verifyVars, rxVars, callVars, Calls
<1>1. CASE CacheContext
  BY <1>1 DEF CacheContext, Sent, Closers, CancelledWhy, NothingInFlight
<1>2. CASE SourceChecks
  BY <1>2 DEF SourceChecks, Sent, Closers, CancelledWhy, NothingInFlight
<1>3. CASE LoopWakes
  BY <1>3 DEF LoopWakes, Sent, Closers, CancelledWhy, NothingInFlight
<1>4. ASSUME NEW c \in Calls, NEW timeout, NEW half \in BOOLEAN, Starts(c, timeout, half)
      PROVE  CloseInv'
  BY <1>4 DEF Starts, Sent, Closers, CancelledWhy, NothingInFlight
<1>5. ASSUME NEW c \in Calls, Cancels(c)
      PROVE  CloseInv'
  BY <1>5 DEF Cancels, Sent, Closers, CancelledWhy, NothingInFlight
<1>6. ASSUME held = "app", CreateBaseSource(mode.polls)
      PROVE  CloseInv'
  <2>1. Sent'
    BY <1>6, AppleAssumption DEF CreateBaseSource, Sent
  <2>2. Closers'
    BY <1>6, AppleAssumption DEF CreateBaseSource, Closers
  <2>3. CancelledWhy'
    BY <1>6, AppleAssumption DEF CreateBaseSource, CancelledWhy, Closers
  <2>4. NothingInFlight'
    BY <1>6, AppleAssumption DEF CreateBaseSource, NothingInFlight, CancelledWhy, Closers
  <2> QED BY <2>1, <2>2, <2>3, <2>4 DEF CloseInv
<1>7. CASE Drops
  BY <1>7 DEF Drops, Sent, Closers, CancelledWhy, NothingInFlight
<1>8. CASE Dispose
  BY <1>8 DEF Dispose, Sent, Closers, CancelledWhy, NothingInFlight
<1> HIDE DEF TrustInv, Shapes, Alone, Deciding, AnswersHold, ServedInv, Owned, CloseInv,
    Awake, Goes, Ends, HandshakeEnds, Attach, FailLocked, Broadcast, NwUnchanged, PollUnchanged,
    QueueFree, NoWait, Sleeps, Active, Idle, NoSource, HandshakeWorking, ReadIsOver,
    KickReceiveLocked, MayReceive, BaseCheck, Granted, Finished, References, connVars,
    verifyVars, rxVars, callVars, Calls
<1> QED BY <1>1, <1>2, <1>3, <1>4, <1>5, <1>6, <1>7, <1>8 DEF PollStep, Application

\* The closers' invariant holds of every reachable state.
LEMMA CloseInvariant == Spec => []CloseInv
<1>1. Init => CloseInv
  BY DEF Init, Idle, Active, Calls, CloseInv, Sent, Closers, CancelledWhy, NothingInFlight, Finished
<1>2. TrustInv /\ ServedInv /\ CloseInv /\ [Next]_vars => CloseInv'
  <2>1. CASE Next
    BY <2>1, HandshakeSends, BlocksSends, ReadWriteSends, CloseSends, NwSends, ApplicationSends
       DEF Next
  <2>2. ASSUME CloseInv, UNCHANGED vars
        PROVE  CloseInv'
    BY <2>2 DEF vars, connVars, callVars, CloseInv, Sent, Closers, CancelledWhy, NothingInFlight,
                Active, Finished
  <2> QED BY <2>1, <2>2
<1> QED BY <1>1, <1>2, TrustInvariant, ServedInvariant, PTL DEF Spec

-----------------------------------------------------------------------------
(***************************************************************************)
(* A close that was not pressed for time, on a connection that had not     *)
(* failed, has had everything sent that the application wrote, also what   *)
(* was still in flight when it did not wait for that (close_fn,            *)
(* gtlsconnection-apple.c:1203).                                           *)
(***************************************************************************)
THEOREM ClosesLoseNothing == Spec => []CloseLosesNothing
<1>1. CloseInv => CloseLosesNothing
  BY DEF CloseInv, Sent, NothingInFlight, CloseLosesNothing
<1> QED BY <1>1, CloseInvariant, PTL

-----------------------------------------------------------------------------
(***************************************************************************)
(* What is read, and the end of it.                                        *)
(***************************************************************************)
\* The bytes that came and are not yet read.
Pending == IF rx_queue = <<>> THEN <<>> ELSE rx_queue[1]

Queued ==
  /\ past.got \in Seq(Nat) /\ nw.sent \in Nat
  /\ rx_queue = <<>> \/ \E chunk \in Seq(Nat) : chunk # <<>> /\ rx_queue = <<chunk>>

\* What came, in a stream and of datagrams, when the peer has sent n bytes.
Counted(came, n) == Len(came) = n /\ \A i \in 1..Len(came) : came[i] = i
Rising(came, n) ==
  \A i \in 1..Len(came) : came[i] <= n /\ \A j \in 1..(i - 1) : came[j] < came[i]

\* What has been read and what waits to be is all that the peer sent, or, of
\* datagrams, in its order.
Whole ==
  /\ Queued
  /\ IF mode.dtls THEN Rising(past.got \o Pending, nw.sent)
                  ELSE Counted(past.got \o Pending, nw.sent)

\* Who told the end had the peer's, all read, or this side closed.
Ended ==
  /\ past.end = "eof" =>
       \/ rx_eof_pending /\ rx_queue = <<>>
       \/ Active("close") \/ base.closed # {}
  /\ ~past.clean => Active("close") \/ base.closed # {}
  /\ state = "CLOSED" =>
       fatal_error # "none" \/ Active("close") \/ base.closed # {} \/ held # "app"

-----------------------------------------------------------------------------
\* The handshake's thread.
LEMMA HandshakeKeepsEnd ==
  ASSUME TrustInv, ServedInv, CloseInv, Ended, Handshake, UNCHANGED mode
  PROVE  Ended'
<1> USE DEF TrustInv, Shapes, Alone, ServedInv, Owned, Receiving, CloseInv, CancelledWhy,
    Awake, Goes, Ends, HandshakeEnds, Attach, FailLocked, Broadcast, NwUnchanged, PollUnchanged,
    QueueFree, NoWait, Sleeps, Active, Idle, NoSource, HandshakeWorking, ReadIsOver,
    KickReceiveLocked, MayReceive, BaseCheck, Granted, Finished, References, connVars,
    verifyVars, rxVars, callVars, Calls
<1>1. CASE HandshakeStarts
  BY <1>1 DEF HandshakeStarts, Ended
<1>2. CASE HandshakeLooks
  BY <1>2 DEF HandshakeLooks, Ended
<1>3. ASSUME NEW accepted \in BOOLEAN, HandshakeVerified(accepted)
      PROVE  Ended'
  BY <1>3 DEF HandshakeVerified, Ended
<1>4. CASE HandshakeGivesUp
  BY <1>4 DEF HandshakeGivesUp, Ended
<1>5. CASE WaitExpires("handshake")
  BY <1>5 DEF WaitExpires, Ended
<1> HIDE DEF TrustInv, Shapes, Alone, ServedInv, Owned, Receiving, CloseInv, CancelledWhy,
    Awake, Goes, Ends, HandshakeEnds, Attach, FailLocked, Broadcast, NwUnchanged, PollUnchanged,
    QueueFree, NoWait, Sleeps, Active, Idle, NoSource, HandshakeWorking, ReadIsOver,
    KickReceiveLocked, MayReceive, BaseCheck, Granted, Finished, References, connVars,
    verifyVars, rxVars, callVars, Calls
<1> QED BY <1>1, <1>2, <1>3, <1>4, <1>5 DEF Handshake

\* The blocks that keep the queue.
LEMMA BlocksKeepEnd ==
  ASSUME TrustInv, ServedInv, CloseInv, Ended, VerifyBlock \/ ChallengeBlock, UNCHANGED mode
  PROVE  Ended'
<1> USE DEF TrustInv, Shapes, Alone, ServedInv, Owned, Receiving, CloseInv, CancelledWhy,
    Awake, Goes, Ends, HandshakeEnds, Attach, FailLocked, Broadcast, NwUnchanged, PollUnchanged,
    QueueFree, NoWait, Sleeps, Active, Idle, NoSource, HandshakeWorking, ReadIsOver,
    KickReceiveLocked, MayReceive, BaseCheck, Granted, Finished, References, connVars,
    verifyVars, rxVars, callVars, Calls
<1>1. CASE VerifyBlockBegins
  BY <1>1 DEF VerifyBlockBegins, VerifyBlockAsks, Ended
<1>2. CASE VerifyBlockWaits
  BY <1>2 DEF VerifyBlockWaits, Ended
<1>3. CASE VerifyBlockEnds
  BY <1>3 DEF VerifyBlockEnds, Ended
<1>4. CASE ChallengeBlockBegins
  BY <1>4 DEF ChallengeBlockBegins, Ended
<1>5. CASE ChallengeBlockEnds
  BY <1>5 DEF ChallengeBlockEnds, Ended
<1>6. CASE VerifyBlockRefuses
  BY <1>6 DEF VerifyBlockRefuses, Ended
<1> HIDE DEF TrustInv, Shapes, Alone, ServedInv, Owned, Receiving, CloseInv, CancelledWhy,
    Awake, Goes, Ends, HandshakeEnds, Attach, FailLocked, Broadcast, NwUnchanged, PollUnchanged,
    QueueFree, NoWait, Sleeps, Active, Idle, NoSource, HandshakeWorking, ReadIsOver,
    KickReceiveLocked, MayReceive, BaseCheck, Granted, Finished, References, connVars,
    verifyVars, rxVars, callVars, Calls
<1> QED BY <1>1, <1>2, <1>3, <1>4, <1>5, <1>6 DEF VerifyBlock, ChallengeBlock

\* Reading and writing.
LEMMA ReadWriteKeepsEnd ==
  ASSUME TrustInv, ServedInv, CloseInv, Ended, Read \/ Write, UNCHANGED mode
  PROVE  Ended'
<1> USE DEF TrustInv, Shapes, Alone, ServedInv, Owned, Receiving, CloseInv, CancelledWhy,
    Awake, Goes, Ends, HandshakeEnds, Attach, FailLocked, Broadcast, NwUnchanged, PollUnchanged,
    QueueFree, NoWait, Sleeps, Active, Idle, NoSource, HandshakeWorking, ReadIsOver,
    KickReceiveLocked, MayReceive, BaseCheck, Granted, Finished, References, connVars,
    verifyVars, rxVars, callVars, Calls
<1>1. ASSUME NEW count, ReadDrains(count)
      PROVE  Ended'
  BY <1>1 DEF ReadDrains, Ended
<1>2. CASE ReadTellsEnd
  BY <1>2 DEF ReadTellsEnd, Ended
<1>3. CASE ReadWaits
  BY <1>3 DEF ReadWaits, Ended
<1>4. ASSUME NEW c \in {"read", "write"}, CallExpires(c)
      PROVE  Ended'
  BY <1>4 DEF CallExpires, Ended
<1>5. CASE WriteWaits
  BY <1>5 DEF WriteWaits, Ended
<1>6. CASE WriteFails
  BY <1>6 DEF WriteFails, Ended
<1>7. CASE WriteSends
  BY <1>7 DEF WriteSends, Ended
<1>8. ASSUME NEW c \in {"read", "write"}, WaitExpires(c)
      PROVE  Ended'
  BY <1>8 DEF WaitExpires, Ended
<1> HIDE DEF TrustInv, Shapes, Alone, ServedInv, Owned, Receiving, CloseInv, CancelledWhy,
    Awake, Goes, Ends, HandshakeEnds, Attach, FailLocked, Broadcast, NwUnchanged, PollUnchanged,
    QueueFree, NoWait, Sleeps, Active, Idle, NoSource, HandshakeWorking, ReadIsOver,
    KickReceiveLocked, MayReceive, BaseCheck, Granted, Finished, References, connVars,
    verifyVars, rxVars, callVars, Calls
<1> QED BY <1>1, <1>2, <1>3, <1>4, <1>5, <1>6, <1>7, <1>8 DEF Read, Write

\* Closing.
LEMMA CloseKeepsEnd ==
  ASSUME TrustInv, ServedInv, CloseInv, Ended, Close, UNCHANGED mode
  PROVE  Ended'
<1> USE DEF TrustInv, Shapes, Alone, ServedInv, Owned, Receiving, CloseInv, CancelledWhy,
    Awake, Goes, Ends, HandshakeEnds, Attach, FailLocked, Broadcast, NwUnchanged, PollUnchanged,
    QueueFree, NoWait, Sleeps, Active, Idle, NoSource, HandshakeWorking, ReadIsOver,
    KickReceiveLocked, MayReceive, BaseCheck, Granted, Finished, References, connVars,
    verifyVars, rxVars, callVars, Calls
<1>1. CASE CloseWaits
  BY <1>1 DEF CloseWaits, Ended
<1>2. CASE CloseFlushes
  BY <1>2 DEF CloseFlushes, Ended
<1>3. CASE CloseFlushExpires
  BY <1>3 DEF CloseFlushExpires, Ended
<1>4. CASE CloseCancels
  BY <1>4 DEF CloseCancels, Ended
<1>5. CASE CloseEnds
  BY <1>5 DEF CloseEnds, Ended
<1>6. CASE WaitExpires("close")
  BY <1>6 DEF WaitExpires, Ended
<1> HIDE DEF TrustInv, Shapes, Alone, ServedInv, Owned, Receiving, CloseInv, CancelledWhy,
    Awake, Goes, Ends, HandshakeEnds, Attach, FailLocked, Broadcast, NwUnchanged, PollUnchanged,
    QueueFree, NoWait, Sleeps, Active, Idle, NoSource, HandshakeWorking, ReadIsOver,
    KickReceiveLocked, MayReceive, BaseCheck, Granted, Finished, References, connVars,
    verifyVars, rxVars, callVars, Calls
<1> QED BY <1>1, <1>2, <1>3, <1>4, <1>5, <1>6 DEF Close

\* What the framework runs on the queue.
LEMMA NwKeepsEnd ==
  ASSUME TrustInv, ServedInv, CloseInv, Ended, NwStep, UNCHANGED mode
  PROVE  Ended'
<1> USE DEF TrustInv, Shapes, Alone, ServedInv, Owned, Receiving, CloseInv, CancelledWhy,
    Awake, Goes, Ends, HandshakeEnds, Attach, FailLocked, Broadcast, NwUnchanged, PollUnchanged,
    QueueFree, NoWait, Sleeps, Active, Idle, NoSource, HandshakeWorking, ReadIsOver,
    KickReceiveLocked, MayReceive, BaseCheck, Granted, Finished, References, connVars,
    verifyVars, rxVars, callVars, Calls
<1>1. CASE NwReady
  BY <1>1 DEF NwReady, Ended
<1>2. ASSUME NEW error \in NwErrors, NwFailed(error)
      PROVE  Ended'
  BY <1>2, ErrorsAreSome DEF NwFailed, Ended
<1>3. ASSUME NEW error \in NwErrors, NwWaiting(error)
      PROVE  Ended'
  BY <1>3, ErrorsAreSome DEF NwWaiting, Ended
<1>4. CASE NwTriesAgain
  BY <1>4 DEF NwTriesAgain, Ended
<1>5. CASE NwCancelled
  BY <1>5 DEF NwCancelled, Ended
<1>6. ASSUME NEW chunk, NEW final \in BOOLEAN, NEW failed \in BOOLEAN, ReceiveCompletes(chunk, final, failed)
      PROVE  Ended'
  BY <1>6, ErrorsAreSome DEF ReceiveCompletes, Ended
<1>7. ASSUME NEW failed \in BOOLEAN, SendCompletes(failed)
      PROVE  Ended'
  BY <1>7, ErrorsAreSome DEF SendCompletes, Ended
<1>8. CASE FlushCompletes
  BY <1>8 DEF FlushCompletes, Ended
<1> HIDE DEF TrustInv, Shapes, Alone, ServedInv, Owned, Receiving, CloseInv, CancelledWhy,
    Awake, Goes, Ends, HandshakeEnds, Attach, FailLocked, Broadcast, NwUnchanged, PollUnchanged,
    QueueFree, NoWait, Sleeps, Active, Idle, NoSource, HandshakeWorking, ReadIsOver,
    KickReceiveLocked, MayReceive, BaseCheck, Granted, Finished, References, connVars,
    verifyVars, rxVars, callVars, Calls
<1> QED BY <1>1, <1>2, <1>3, <1>4, <1>5, <1>6, <1>7, <1>8 DEF NwStep, ReceiveCompletion

\* The application, its main loop, and the end.
LEMMA ApplicationKeepsEnd ==
  ASSUME TrustInv, ServedInv, CloseInv, Ended, PollStep \/ Application \/ Dispose, UNCHANGED mode
  PROVE  Ended'
<1> USE DEF TrustInv, Shapes, Alone, ServedInv, Owned, Receiving, CloseInv, CancelledWhy,
    Awake, Goes, Ends, HandshakeEnds, Attach, FailLocked, Broadcast, NwUnchanged, PollUnchanged,
    QueueFree, NoWait, Sleeps, Active, Idle, NoSource, HandshakeWorking, ReadIsOver,
    KickReceiveLocked, MayReceive, BaseCheck, Granted, Finished, References, connVars,
    verifyVars, rxVars, callVars, Calls
<1>1. CASE CacheContext
  BY <1>1 DEF CacheContext, Ended
<1>2. CASE SourceChecks
  BY <1>2 DEF SourceChecks, Ended
<1>3. CASE LoopWakes
  BY <1>3 DEF LoopWakes, Ended
<1>4. ASSUME NEW c \in Calls, NEW timeout, NEW half \in BOOLEAN, Starts(c, timeout, half)
      PROVE  Ended'
  BY <1>4 DEF Starts, Ended
<1>5. ASSUME NEW c \in Calls, Cancels(c)
      PROVE  Ended'
  BY <1>5 DEF Cancels, Ended
<1>6. ASSUME held = "app", CreateBaseSource(mode.polls)
      PROVE  Ended'
  BY <1>6, AppleAssumption DEF CreateBaseSource, Ended
<1>7. CASE Drops
  BY <1>7 DEF Drops, Ended
<1>8. CASE Dispose
  BY <1>8 DEF Dispose, Ended
<1> HIDE DEF TrustInv, Shapes, Alone, ServedInv, Owned, Receiving, CloseInv, CancelledWhy,
    Awake, Goes, Ends, HandshakeEnds, Attach, FailLocked, Broadcast, NwUnchanged, PollUnchanged,
    QueueFree, NoWait, Sleeps, Active, Idle, NoSource, HandshakeWorking, ReadIsOver,
    KickReceiveLocked, MayReceive, BaseCheck, Granted, Finished, References, connVars,
    verifyVars, rxVars, callVars, Calls
<1> QED BY <1>1, <1>2, <1>3, <1>4, <1>5, <1>6, <1>7, <1>8 DEF PollStep, Application

-----------------------------------------------------------------------------
\* A step that neither reads nor receives leaves the bytes alone.
BytesStay == rx_queue' = rx_queue /\ past'.got = past.got /\ nw'.sent = nw.sent

LEMMA BytesMove ==
  ASSUME TrustInv, Next
  PROVE  BytesStay \/ (\E count \in 1..2 : ReadDrains(count)) \/ ReceiveCompletion
<1>1. ASSUME Handshake PROVE BytesStay
  BY <1>1 DEF Handshake, HandshakeStarts, HandshakeLooks, HandshakeGivesUp, HandshakeVerified, WaitExpires, Attach,
              rxVars, TrustInv, Shapes, BytesStay
<1>2. ASSUME VerifyBlock \/ ChallengeBlock PROVE BytesStay
  BY <1>2 DEF VerifyBlock, ChallengeBlock, VerifyBlockBegins, VerifyBlockAsks, VerifyBlockRefuses,
              VerifyBlockWaits, VerifyBlockEnds,
              ChallengeBlockBegins, ChallengeBlockEnds, rxVars, TrustInv, Shapes, BytesStay
<1>3. ASSUME ReadTellsEnd \/ ReadWaits \/ CallExpires("read") \/ WaitExpires("read") \/ Write PROVE BytesStay
  BY <1>3 DEF Write, ReadTellsEnd, ReadWaits, WriteWaits, WriteFails, WriteSends, CallExpires, WaitExpires,
              rxVars, TrustInv, Shapes, BytesStay
<1>4. ASSUME Close PROVE BytesStay
  BY <1>4 DEF Close, WaitExpires, CloseWaits, CloseFlushes, CloseFlushExpires, CloseCancels, CloseEnds,
              rxVars, TrustInv, Shapes, BytesStay
<1>5. ASSUME \/ NwReady \/ NwTriesAgain \/ NwCancelled
             \/ \E error \in NwErrors : NwFailed(error) \/ NwWaiting(error)
      PROVE  BytesStay
  BY <1>5 DEF NwReady, NwTriesAgain, NwCancelled, NwFailed, NwWaiting, NwUnchanged, TrustInv, Shapes, BytesStay
<1>6. ASSUME (\E failed \in BOOLEAN : SendCompletes(failed)) \/ FlushCompletes PROVE BytesStay
  BY <1>6 DEF SendCompletes, FlushCompletes, rxVars, TrustInv, Shapes, BytesStay
<1>7. ASSUME PollStep \/ Application \/ Dispose PROVE BytesStay
  BY <1>7 DEF PollStep, CacheContext, SourceChecks, LoopWakes, Application, Starts, Cancels,
              CreateBaseSource, Drops, Dispose, PollUnchanged, rxVars, TrustInv, Shapes, BytesStay
<1> QED BY <1>1, <1>2, <1>3, <1>4, <1>5, <1>6, <1>7 DEF Next, Read, NwStep

\* The one chunk of a queue of one is its bytes.
LEMMA FlattenOne ==
  ASSUME NEW c
  PROVE  FlattenSeq(<<c>>) = c
<1> DEFINE s == <<c>>
           F(f) == f = [i \in 1..Len(s) |-> IF i = 1 THEN s[i] ELSE f[i - 1] \o s[i]]
           g == [i \in 1..1 |-> c]
           f0 == CHOOSE f : F(f)
<1>1. Len(s) = 1 /\ s[1] = c
  OBVIOUS
<1>2. g = [i \in 1..1 |-> IF i = 1 THEN s[i] ELSE g[i - 1] \o s[i]]
  BY <1>1
<1>3. F(g)
  BY <1>1, <1>2
<1>4. F(f0)
  BY <1>3, Zenon
<1>5. f0[1] = c
  <2>1. f0 = [i \in 1..Len(s) |-> IF i = 1 THEN s[i] ELSE f0[i - 1] \o s[i]]
    BY <1>4
  <2> HIDE DEF f0
  <2> QED BY <1>1, <2>1
<1>6. FlattenSeq(s) = IF Len(s) = 0 THEN s ELSE f0[Len(s)]
  BY Zenon DEF FlattenSeq
<1> HIDE DEF f0, s
<1>7. FlattenSeq(s) = c
  BY <1>1, <1>5, <1>6
<1> QED BY <1>7 DEF s

\* The next bytes that the peer sent come behind those that came.
LEMMA NextBytes ==
  ASSUME NEW came \in Seq(Nat), NEW n \in Nat, NEW k \in Nat
  PROVE  LET next == came \o [i \in 1..k |-> n + i]
         IN  /\ [i \in 1..k |-> n + i] \in Seq(Nat) /\ Len([i \in 1..k |-> n + i]) = k
             /\ next \in Seq(Nat)
             /\ Counted(came, n) => Counted(next, n + k)
             /\ Rising(came, n) => Rising(next, n + k)
<1> DEFINE r == [i \in 1..k |-> n + i]
           next == came \o r
<1>0. Len(came) \in Nat
  BY LenProperties
<1>1. r \in Seq(Nat) /\ Len(r) = k /\ \A i \in 1..k : r[i] = n + i
  <2>1. \A i \in 1..k : n + i \in Nat
    OBVIOUS
  <2>2. r \in [1..k -> Nat]
    BY <2>1
  <2> QED BY <2>2, SeqDef
<1> HIDE DEF r
<1>2. /\ next \in Seq(Nat) /\ Len(next) = Len(came) + k /\ Len(came) \in Nat
      /\ \A i \in 1..(Len(came) + k) : next[i] = IF i <= Len(came) THEN came[i] ELSE r[i - Len(came)]
  BY <1>1, ConcatProperties, LenProperties
<1>3. \A i \in 1..(Len(came) + k) : ~(i <= Len(came)) => i - Len(came) \in 1..k
  BY <1>2
<1>4. \A i \in 1..(Len(came) + k) :
        next[i] = IF i <= Len(came) THEN came[i] ELSE n + (i - Len(came))
  BY <1>1, <1>2, <1>3
<1>5. \A i \in 1..Len(came) : came[i] \in Nat
  BY ElementOfSeq
<1> HIDE DEF next
<1>6. ASSUME Counted(came, n)
      PROVE  Counted(next, n + k)
  BY <1>2, <1>4, <1>6 DEF Counted
<1>7. ASSUME Rising(came, n)
      PROVE  Rising(next, n + k)
  <2> SUFFICES ASSUME NEW i \in 1..(Len(came) + k)
               PROVE  next[i] <= n + k /\ \A j \in 1..(i - 1) : next[j] < next[i]
    BY <1>2 DEF Rising
  <2>1. CASE i <= Len(came)
    <3>1. i \in 1..Len(came) /\ next[i] = came[i] /\ came[i] <= n /\ came[i] \in Nat
      BY <1>2, <1>4, <1>5, <1>7, <2>1 DEF Rising
    <3>2. \A j \in 1..(i - 1) : j \in 1..(Len(came) + k) /\ j <= Len(came)
      BY <1>0, <2>1
    <3>3. \A j \in 1..(i - 1) : next[j] = came[j] /\ came[j] < came[i]
      BY <1>4, <1>7, <3>1, <3>2 DEF Rising
    <3>4. \A x \in Nat : x <= n => x <= n + k
      OBVIOUS
    <3> QED BY <3>1, <3>3, <3>4
  <2>2. CASE ~(i <= Len(came))
    <3>1. next[i] = n + (i - Len(came))
      BY <1>4, <2>2
    <3>2. ASSUME NEW j \in 1..(i - 1)
          PROVE  next[j] < next[i]
      <4>1. CASE j <= Len(came)
        <5>1. j \in 1..Len(came) /\ j \in 1..(Len(came) + k)
          BY <1>0, <4>1
        <5>2. next[j] = came[j] /\ came[j] <= n /\ came[j] \in Nat
          BY <1>4, <1>5, <1>7, <4>1, <5>1 DEF Rising
        <5>3. \A x \in Nat : x <= n => x < n + (i - Len(came))
          BY <1>0, <2>2
        <5> QED BY <3>1, <5>2, <5>3
      <4>2. CASE ~(j <= Len(came))
        <5>1. j \in 1..(Len(came) + k) /\ next[j] = n + (j - Len(came))
          BY <1>4, <1>0, <4>2
        <5>2. n + (j - Len(came)) < n + (i - Len(came))
          BY <1>0
        <5> QED BY <3>1, <5>1, <5>2
      <4> QED BY <4>1, <4>2
    <3>3. n + (i - Len(came)) <= n + k
      BY <1>0
    <3> QED BY <3>1, <3>2, <3>3
  <2> QED BY <2>1, <2>2
<1>8. next = came \o [i \in 1..k |-> n + i]
  BY DEF next, r
<1> QED BY <1>1, <1>2, <1>6, <1>7, <1>8 DEF r, next

\* What has been read of it is as good.
LEMMA Beginnings ==
  ASSUME NEW got \in Seq(Nat), NEW rest \in Seq(Nat), NEW n \in Nat
  PROVE  /\ \A i \in 1..Len(got) : i \in 1..Len(got \o rest) /\ (got \o rest)[i] = got[i]
         /\ Rising(got \o rest, n) => Rising(got, n)
<1>1. /\ Len(got \o rest) = Len(got) + Len(rest) /\ Len(got) \in Nat /\ Len(rest) \in Nat
      /\ \A i \in 1..Len(got) + Len(rest) : (got \o rest)[i] =
                     IF i <= Len(got) THEN got[i] ELSE rest[i - Len(got)]
  BY ConcatProperties, LenProperties
<1>2. \A i \in 1..Len(got) : i \in 1..Len(got \o rest) /\ (got \o rest)[i] = got[i]
  BY <1>1
<1>3. \A i \in 1..Len(got) : \A j \in 1..(i - 1) : j \in 1..Len(got)
  BY <1>1
<1>4. ASSUME Rising(got \o rest, n)
      PROVE  Rising(got, n)
  BY <1>2, <1>3, <1>4 DEF Rising
<1> QED BY <1>2, <1>4

\* Joining sequences is associative.
LEMMA Joined == \A s, t, u \in Seq(Nat) : (s \o t) \o u = s \o (t \o u)
<1> TAKE s \in Seq(Nat), t \in Seq(Nat), u \in Seq(Nat)
<1> QED BY ConcatAssociative

\* What is taken of a chunk and what is left of it.
LEMMA Taken ==
  ASSUME NEW c \in Seq(Nat), NEW k \in 0..Len(c)
  PROVE  /\ SubSeq(c, 1, k) \in Seq(Nat) /\ SubSeq(c, k + 1, Len(c)) \in Seq(Nat)
         /\ Len(SubSeq(c, 1, k)) = k
         /\ SubSeq(c, 1, k) \o SubSeq(c, k + 1, Len(c)) = c
<1>1. Len(c) \in Nat /\ \A i \in 1..Len(c) : c[i] \in Nat
  BY ElementOfSeq, LenProperties
<1>2. SubSeq(c, 1, k) \in Seq(Nat) /\ Len(SubSeq(c, 1, k)) = k
  <2>1. \A i \in 1..k : c[i] \in Nat
    BY <1>1
  <2>2. /\ SubSeq(c, 1, k) \in Seq(Nat)
        /\ Len(SubSeq(c, 1, k)) = IF 1 <= k THEN k - 1 + 1 ELSE 0
    BY <2>1, SubSeqProperties
  <2> QED BY <2>2
<1>3. SubSeq(c, k + 1, Len(c)) \in Seq(Nat)
  <2>1. \A i \in (k + 1)..Len(c) : c[i] \in Nat
    BY <1>1
  <2> QED BY <1>1, <2>1, SubSeqProperties
<1>4. SubSeq(c, 1, k) \o SubSeq(c, k + 1, Len(c)) = SubSeq(c, 1, Len(c))
  <2>1. 1 \in 1..(Len(c) + 1) /\ k \in (1 - 1)..Len(c) /\ Len(c) \in k..Len(c)
    BY <1>1
  <2> QED BY <2>1, ConcatAdjacentSubSeq
<1> QED BY <1>2, <1>3, <1>4, SubSeqFull

\* Reading takes the first bytes of the chunk that waits.
LEMMA ReadKeepsBytes ==
  ASSUME TrustInv, Whole, NEW count \in 1..2, ReadDrains(count), UNCHANGED mode
  PROVE  Whole'
<1>1. PICK c \in Seq(Nat) : c # <<>> /\ rx_queue = <<c>>
  BY DEF ReadDrains, Whole, Queued
<1> DEFINE k == IF count < Len(c) THEN count ELSE Len(c)
           taken == SubSeq(c, 1, k)
           rest == SubSeq(c, k + 1, Len(c))
<1>2. Len(c) \in Nat /\ k \in 0..Len(c)
  BY <1>1, LenProperties
<1>3. /\ taken \in Seq(Nat) /\ rest \in Seq(Nat) /\ Len(taken) = k /\ taken \o rest = c
  BY <1>1, <1>2, Taken
<1>4. Pending = c /\ past.got \in Seq(Nat) /\ nw.sent \in Nat
  BY <1>1 DEF Pending, Whole, Queued
<1>5. past.got \o taken \in Seq(Nat) /\ (past.got \o taken) \o rest = past.got \o c
  <2> HIDE DEF taken, rest
  <2>1. past.got \o taken \in Seq(Nat)
    BY <1>3, <1>4, ConcatProperties
  <2>2. (past.got \o taken) \o rest = past.got \o (taken \o rest)
    <3>1. taken \in Seq(Nat) /\ rest \in Seq(Nat) /\ past.got \in Seq(Nat)
      BY <1>3, <1>4
    <3> QED BY <3>1, Joined, Zenon
  <2> QED BY <1>3, <2>1, <2>2
<1>6. Head(rx_queue) = c /\ Tail(rx_queue) = <<>> /\ FlattenSeq(rx_queue) = c
  BY <1>1, FlattenOne
<1>7. nw'.sent = nw.sent
  BY DEF ReadDrains
<1> HIDE DEF taken, rest
<1>8. CASE mode.dtls
  <2>1. rx_queue' = <<>> /\ past'.got = past.got \o taken
    BY <1>6, <1>8 DEF ReadDrains, DrainRxDatagramLocked, taken, TrustInv, Shapes
  <2>2. Rising((past.got \o taken) \o rest, nw.sent)
    BY <1>4, <1>5, <1>8 DEF Whole
  <2>3. Rising(past.got \o taken, nw.sent)
    BY <1>3, <1>4, <1>5, <2>2, Beginnings
  <2>4. (past.got \o taken) \o <<>> = past.got \o taken
    BY <1>5, ConcatEmptySeq
  <2> QED BY <1>4, <1>5, <1>7, <1>8, <2>1, <2>3, <2>4 DEF Whole, Queued, Pending
<1>9. CASE ~mode.dtls
  <2>1. /\ past'.got = past.got \o taken
        /\ rx_queue' = IF rest = <<>> THEN <<>> ELSE <<rest>>
    BY <1>3, <1>6, <1>9 DEF ReadDrains, DrainRxQueueLocked, Bytes, taken, rest, TrustInv, Shapes
  <2>2. Pending' = rest
    BY <2>1 DEF Pending
  <2>3. Counted((past.got \o taken) \o rest, nw.sent)
    BY <1>4, <1>5, <1>9 DEF Whole
  <2> QED BY <1>3, <1>4, <1>5, <1>7, <1>9, <2>1, <2>2, <2>3 DEF Whole, Queued
<1> QED BY <1>8, <1>9

\* A receive brings the bytes that come next.
LEMMA ReceiveKeepsBytes ==
  ASSUME TrustInv, Whole, Receiving, ReceiveCompletion, UNCHANGED mode
  PROVE  Whole'
<1>1. past.got \in Seq(Nat) /\ nw.sent \in Nat /\ past'.got = past.got
  BY DEF Whole, Queued, ReceiveCompletion, ReceiveCompletes, TrustInv, Shapes
<1>2. rx_queue = <<>> /\ Pending = <<>> /\ past.got \o <<>> = past.got
  BY <1>1, ConcatEmptySeq DEF ReceiveCompletion, ReceiveCompletes, Receiving, Pending
<1>3. ASSUME NEW length \in 1..2, NEW final, ReceiveCompletes(Received(length), final, FALSE)
      PROVE  Whole'
  <2> DEFINE r == Received(length)
  <2>1. r = [i \in 1..length |-> nw.sent + i] /\ length \in Nat
    BY DEF Received
  <2>2. /\ r \in Seq(Nat) /\ Len(r) = length /\ past.got \o r \in Seq(Nat)
        /\ Counted(past.got, nw.sent) => Counted(past.got \o r, nw.sent + length)
        /\ Rising(past.got, nw.sent) => Rising(past.got \o r, nw.sent + length)
    BY <1>1, <2>1, NextBytes
  <2> HIDE DEF r
  <2>3. r # <<>>
    BY <2>2
  <2>4. rx_queue' = <<r>> /\ nw'.sent = nw.sent + length
    BY <1>2, <1>3, <2>2, <2>3 DEF ReceiveCompletes, TrustInv, Shapes, r
  <2>5. Pending' = r
    BY <2>4 DEF Pending
  <2>6. nw.sent + length \in Nat
    BY <1>1
  <2> QED BY <1>1, <1>2, <2>2, <2>3, <2>4, <2>5, <2>6 DEF Whole, Queued
<1>4. ASSUME NEW final, NEW failed, ReceiveCompletes(<<>>, final, failed)
      PROVE  Whole'
  <2>1. rx_queue' = rx_queue /\ nw'.sent = nw.sent + 0
    BY <1>4 DEF ReceiveCompletes, TrustInv, Shapes
  <2>2. nw'.sent = nw.sent
    BY <1>1, <2>1
  <2> QED BY <1>1, <2>1, <2>2 DEF Whole, Queued, Pending
<1> QED BY <1>3, <1>4 DEF ReceiveCompletion

\* The readers' invariant holds of every reachable state.
LEMMA ReadInvariant == Spec => [](Whole /\ Ended)
<1>1. Init => Whole /\ Ended
  <2> SUFFICES ASSUME Init PROVE Whole /\ Ended
    OBVIOUS
  <2>1. /\ past.got = <<>> /\ nw.sent = 0 /\ rx_queue = <<>> /\ past.end = "none" /\ past.clean
        /\ state = "INIT"
    BY DEF Init
  <2>2. <<>> \in Seq(Nat) /\ <<>> \o <<>> = <<>> /\ Len(<<>>) = 0
    OBVIOUS
  <2>3. Counted(<<>>, 0) /\ Rising(<<>>, 0)
    BY <2>2 DEF Counted, Rising
  <2> QED BY <2>1, <2>2, <2>3 DEF Whole, Queued, Pending, Ended
<1>2. TrustInv /\ ServedInv /\ CloseInv /\ Whole /\ Ended /\ [Next]_vars => (Whole /\ Ended)'
  <2> SUFFICES ASSUME TrustInv, ServedInv, CloseInv, Whole, Ended, [Next]_vars
               PROVE  Whole' /\ Ended'
    OBVIOUS
  <2>1. CASE Next
    <3>1. Ended'
      BY <2>1, HandshakeKeepsEnd, BlocksKeepEnd, ReadWriteKeepsEnd, CloseKeepsEnd, NwKeepsEnd, ApplicationKeepsEnd DEF Next
    <3>2. UNCHANGED mode
      BY <2>1 DEF Next
    <3>3. BytesStay => Whole'
      BY <3>2 DEF BytesStay, Whole, Queued, Pending
    <3>4. Whole'
      BY <2>1, <3>2, <3>3, BytesMove, ReadKeepsBytes, ReceiveKeepsBytes DEF ServedInv
    <3> QED BY <3>1, <3>4
  <2>2. CASE UNCHANGED vars
    <3>1. BytesStay /\ UNCHANGED mode
      BY <2>2 DEF vars, rxVars, BytesStay
    <3>2. Whole'
      BY <3>1 DEF BytesStay, Whole, Queued, Pending
    <3>3. Ended'
      BY <2>2 DEF vars, connVars, rxVars, callVars, Ended, Active
    <3> QED BY <3>2, <3>3
  <2> QED BY <2>1, <2>2
<1> QED BY <1>1, <1>2, TrustInvariant, ServedInvariant, CloseInvariant, PTL DEF Spec

-----------------------------------------------------------------------------
(***************************************************************************)
(* Reads return the peer's bytes in order and miss none of a stream, and   *)
(* they tell of an orderly end only when the peer ended and all is read,   *)
(* or this side closed: never of a broken connection (read_fn,             *)
(* gtlsconnection-apple.c:690).                                            *)
(***************************************************************************)
THEOREM ReadsArriveWhole == Spec => []ReadsAreWhole
<1>1. ASSUME Whole, Ended
      PROVE  ReadsAreWhole
  <2>1. past.got \in Seq(Nat) /\ nw.sent \in Nat /\ Pending \in Seq(Nat) /\ Len(past.got) \in Nat
    <3>1. <<>> \in Seq(Nat)
      OBVIOUS
    <3>2. past.got \in Seq(Nat) /\ nw.sent \in Nat /\ Pending \in Seq(Nat)
      BY <1>1, <3>1 DEF Whole, Queued, Pending
    <3> QED BY <3>2, LenProperties
  <2>2. /\ \A i \in 1..Len(past.got) :
             i \in 1..Len(past.got \o Pending) /\ (past.got \o Pending)[i] = past.got[i]
        /\ Rising(past.got \o Pending, nw.sent) => Rising(past.got, nw.sent)
    BY <2>1, Beginnings
  <2>3. mode.dtls => \A i \in 1..Len(past.got) : \A j \in 1..(i - 1) : past.got[j] < past.got[i]
    BY <1>1, <2>2 DEF Whole, Rising
  <2>4. ~mode.dtls => \A i \in 1..Len(past.got) : past.got[i] = i
    BY <1>1, <2>2 DEF Whole, Counted
  <2>5. rx_queue = <<>> /\ ~mode.dtls => Len(past.got) = nw.sent
    <3>1. past.got \o <<>> = past.got
      BY <2>1, ConcatEmptySeq
    <3> QED BY <1>1, <3>1 DEF Whole, Counted, Pending
  <2> QED BY <1>1, <2>3, <2>4, <2>5 DEF ReadsAreWhole, Ended
<1>2. Whole /\ Ended => ReadsAreWhole
  BY <1>1
<1> QED BY <1>2, ReadInvariant, PTL
=============================================================================
