------------------------- MODULE MCAppleConnection -------------------------
(***************************************************************************)
(* Small instances of AppleConnection: a client over a stream, and a       *)
(* server of datagrams that does not ask for a certificate.                *)
(***************************************************************************)
EXTENDS AppleConnection

MCTimeouts == [handshake |-> {1}, read |-> {1}, write |-> {1}, close |-> {1}]
MCModes == {[verifies |-> TRUE, dtls |-> FALSE, polls |-> "IN", bytes |-> 2, writes |-> 1],
            [verifies |-> FALSE, dtls |-> TRUE, polls |-> "OUT", bytes |-> 1, writes |-> 2]}
MCErrors == {[domain |-> "tls", code |-> "ClosedAbort"]}
=============================================================================
