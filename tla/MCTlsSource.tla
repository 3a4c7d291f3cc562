----------------------------- MODULE MCTlsSource -----------------------------
(***************************************************************************)
(* Small instances of TlsSource: a thread that polls a stream for ever and *)
(* another that makes a few blocking calls.                                *)
(***************************************************************************)
EXTENDS TlsSource, TLC
CONSTANTS t1, t2

\* The reader polls; the other thread blocks in reads, writes and closes.
PolledReads ==
  (t1 :> {InputStreamReadNonblocking}) @@
  (t2 :> {InputStreamRead, OutputStreamWrite, OutputStreamWriteNonblocking,
          OutputStreamClose, [op |-> "HANDSHAKE", timeout |-> -1]})
TwoOthers == (t1 :> -1) @@ (t2 :> 2)
OwnContexts == [t \in Threads |-> t]
=============================================================================
