--------------------------- MODULE MCAppleBridge ---------------------------
(***************************************************************************)
(* Every transport, with two attempts to start a handshake, and a pump of  *)
(* every kind, for three bytes.                                            *)
(***************************************************************************)
EXTENDS AppleBridge

EveryPump ==
  [kind : {"stream"}, inPollable : BOOLEAN, outPollable : BOOLEAN]
    \cup [kind : {"datagram", "bridge"}, inPollable : {TRUE}, outPollable : {TRUE}]
=============================================================================
