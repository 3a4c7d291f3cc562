----------------------- MODULE MCCertificateDatabase -----------------------
(***************************************************************************)
(* Two files with a root, a renewed one of the same name and an            *)
(* intermediate; peers whose chains are in order, out of order, repeated,  *)
(* rootless, unknown and unhealthy.                                        *)
(***************************************************************************)
EXTENDS CertificateDatabase, TLC
CONSTANTS t1, t2, f1, f2

Cert(id, subject, issuer, health, names) ==
  [id |-> id, subject |-> subject, issuer |-> issuer, health |-> health, names |-> names]
root == Cert(1, "Root", "Root", "fine", {})
renewed == Cert(2, "Root", "Root", "fine", {})
middle == Cert(3, "Middle", "Root", "fine", {})
server == Cert(4, "Server", "Middle", "fine", {"host"})
early == Cert(5, "Server", "Root", "early", {"host"})
odd == Cert(6, "Server", "Root", "odd", {"host"})
stranger == Cert(7, "Other", "Other", "fine", {"host"})

SomeContents == {<<root, renewed>>, <<middle, renewed>>}
SomeLists ==
  {<<server, middle, root>>, <<server, root, middle, middle>>, <<early, root>>, <<odd>>,
   <<stranger>>}
SomeIdentities ==
  [type : {"address"}, name : {"host", "elsewhere"}, ip : {FALSE}]
    \cup [type : {"service", "none"}, name : {"host"}, ip : {TRUE}]

\* Two names have the same hash.
Hashes == [dn \in {"Root", "Middle", "Server", "Other"} |-> IF dn = "Middle" THEN "Other" ELSE dn]
Symmetry == Permutations(Threads) \cup Permutations(Files)
=============================================================================
