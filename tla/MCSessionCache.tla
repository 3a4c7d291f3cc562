--------------------------- MODULE MCSessionCache ---------------------------
(***************************************************************************)
(* Small instances of SessionCache: three servers, a cache of two, two     *)
(* tickets of TLS 1.2 and two of TLS 1.3.                                  *)
(***************************************************************************)
EXTENDS SessionCache, TLC
CONSTANTS k1, k2, k3, k4, i1, i2, i3

VersionOf == (k1 :> TLS_1_2) @@ (k2 :> TLS_1_2) @@ (k3 :> TLS_1_3) @@ (k4 :> TLS_1_3)
\* Servers are alike, and so are tickets of one version.
Symmetry ==
  Permutations({i1, i2, i3}) \cup Permutations({k1, k2}) \cup Permutations({k3, k4})
=============================================================================
