------------------------ MODULE MCVerifyCertificate ------------------------
(***************************************************************************)
(* A small instance of VerifyCertificate: two certificates, so that one    *)
(* handshake can be told from the next, and both kinds of application.     *)
(***************************************************************************)
EXTENDS VerifyCertificate
CONSTANTS c1, c2
BothApplications == {"loops", "leaves"}
=============================================================================
