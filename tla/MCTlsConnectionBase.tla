------------------------ MODULE MCTlsConnectionBase ------------------------
(***************************************************************************)
(* Small instances of TlsConnectionBase.  Each definition of calls gives   *)
(* every thread the few calls whose interleavings the run is about.        *)
(***************************************************************************)
EXTENDS TlsConnectionBase, TLC
CONSTANTS t1, t2, t3

Call(ops, timeouts) == [op : ops, timeout : timeouts]

Unbounded   == [t \in Threads |-> -1]
TwoCalls    == [t \in Threads |-> 2]
OwnContexts == [t \in Threads |-> t]

\* Everything the arbiter offers but finite timeouts: polled and blocking reads,
\* writes, handshakes of all four kinds, closes.
MixedCalls ==
  (t1 :> Call({"READ"}, {-1, 0}) \cup Call({"HANDSHAKE_ASYNC"}, {-1})) @@
  (t2 :> Call({"WRITE"}, {-1}) \cup Call({"HANDSHAKE"}, {-1})) @@
  (t3 :> Call({"CLOSE_BOTH"}, {-1}))
\* A reader and a writer that block, poll or wait for 1 ms.
PollingCalls ==
  (t1 :> Call({"READ"}, {-1, 0})) @@
  (t2 :> Call({"WRITE"}, {-1, 0, 1000}))
\* A reader and a writer that block, and a third thread that closes.
ClosingCalls ==
  (t1 :> Call({"READ"}, {-1})) @@
  (t2 :> Call({"WRITE"}, {-1})) @@
  (t3 :> Call(CloseOps, {-1}))
=============================================================================
