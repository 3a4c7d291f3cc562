-------------------------- MODULE MCConnectionIo --------------------------
(***************************************************************************)
(* Small instances of ConnectionIo: one or two records from the peer,      *)
(* calls of two messages, a reader that blocks or does not, and maybe a    *)
(* writer.                                                                 *)
(***************************************************************************)
EXTENDS ConnectionIo

OneOfEach == [reader |-> {-1, 0}, writer |-> {-1}, both |-> {-1}]
NoWriter == [reader |-> {-1}, writer |-> {}, both |-> {-1}]
=============================================================================
