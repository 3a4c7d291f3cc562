-------------------------- MODULE CertificateChain --------------------------
(***************************************************************************)
(* The chain a peer's certificates are put into, and what a verification   *)
(* of it answers: gtlscertificate-*.c and the verify_chain functions of    *)
(* gtlsdatabase-*.c.  A certificate is its name, its issuer's, the         *)
(* identities it is for, and what the library finds wrong with it.  The    *)
(* libraries' verifications are external: they find a chain unknown that   *)
(* leads to no anchor, and report what is wrong with its certificates.     *)
(***************************************************************************)
EXTENDS Naturals, Sequences, SequencesExt, FiniteSets, FiniteSetsExt

Backends == {"gnutls", "openssl", "apple"}

\* What may be wrong with a certificate.  An odd one has nothing the flags name.
Healths == {"fine", "expired", "early", "revoked", "weak", "odd"}

Issued(cert, by) == cert.issuer = by.subject
SelfIssued(cert) == Issued(cert, cert)
Healthy(chain) == \A i \in DOMAIN chain : chain[i].health = "fine"

(* Whether one certificate is taken for the issuer of another.  OpenSSL's  *)
(* code has the library verify the one with the other as its only anchor:  *)
(* a self-signed issuer is then a root, below which nothing may be wrong,  *)
(* and above any other issuer it misses a further one, which is no error;  *)
(* a self-signed certificate has no issuer but itself.                     *)
IsIssuer(backend, cert, issuer) ==
  /\ Issued(cert, issuer)
  /\ backend = "openssl" =>
       /\ SelfIssued(issuer) => Healthy(<<cert, issuer>>)
       /\ SelfIssued(cert) => cert = issuer

\* Mutant: looks for the issuer after the certificate only.
IssuerInFirst(backend, certs, i) ==
  LET found == {j \in DOMAIN certs : j > i /\ IsIssuer(backend, certs[i], certs[j])} IN
  IF IsIssuer(backend, certs[i], certs[i]) \/ found = {} THEN 0 ELSE Min(found)

(* The issuer of the i-th certificate of a list, 0 for none: servers send  *)
(* certificates out of order and more than once.                           *)
IssuerIn(backend, certs, i) ==
  LET found == {j \in DOMAIN certs \ {i} : IsIssuer(backend, certs[i], certs[j])} IN
  IF IsIssuer(backend, certs[i], certs[i]) \/ found = {} THEN 0
  ELSE IF i + 1 \in found THEN i + 1 ELSE Min(found)

\* The chain from the first certificate: the lists have no circle of issuers.
BuildChain(backend, certs) ==
  LET from[i \in DOMAIN certs] ==
        LET next == IssuerIn(backend, certs, i) IN
        <<certs[i]>> \o (IF next = 0 THEN <<>> ELSE from[next])
  IN from[1]

\* What build_chain() is given of what the peer sent: to a server SSL_get_peer_cert_chain()
\* leaves out the client's own certificate, and the first of the rest is passed over for it.
PeerCertificates(backend, isClient, list) ==
  IF backend = "openssl" /\ ~isClient /\ Len(list) > 1 THEN RemoveAt(list, 2) ELSE list

\* Apple keeps the order the peer sent, and leaves the path to the library.
PeerChain(backend, isClient, list) ==
  IF backend = "apple" THEN list
  ELSE BuildChain(backend, PeerCertificates(backend, isClient, list))

\* What Apple hands to the library goes without a root: collect_chain().
CollectChain(chain) ==
  IF Len(chain) > 1 /\ SelfIssued(Last(chain)) THEN Front(chain) ELSE chain
\* The path a verification follows.
Path(backend, chain) ==
  IF backend = "apple" THEN BuildChain(backend, CollectChain(chain)) ELSE chain

-----------------------------------------------------------------------------
(* The libraries' verifications. *)

Anchored(chain, anchors) ==
  \/ ToSet(chain) \cap anchors # {}
  \/ \E a \in anchors : Issued(Last(chain), a)

\* What gnutls_x509_trust_list_verify_crt() reports, all of it.
GnutlsStatus(chain, anchors) ==
  LET healths == {chain[i].health : i \in DOMAIN chain} \ {"fine"}
      found == (IF Anchored(chain, anchors) THEN {} ELSE {"signer_not_found"}) \cup (healths \ {"odd"})
  IN IF found = {} /\ healths = {} THEN {} ELSE {"invalid"} \cup found

\* What gnutls_certificate_verify_peers3() reports, for a name or for none.
GnutlsPeerStatus(chain, anchors, names) ==
  LET status == GnutlsStatus(chain, anchors) IN
  IF names \subseteq Head(chain).names THEN status
  ELSE status \cup {"invalid", "unexpected_owner"}

\* The first error X509_verify_cert() meets.
OpensslError(chain, anchors) ==
  IF Anchored(chain, anchors)
  THEN IF Healthy(chain) THEN "ok"
       ELSE chain[Max({i \in DOMAIN chain : chain[i].health # "fine"})].health
  ELSE IF ~SelfIssued(Last(chain)) THEN "no_issuer"
  ELSE IF Len(chain) = 1 THEN "self_signed"
  ELSE "self_signed_in_chain"

\* SecTrustEvaluateWithError(), which calls a certificate of the future expired.
AppleError(chain, anchors) ==
  LET error == OpensslError(chain, anchors) IN
  CASE error = "early" -> "expired"
    [] error \in {"ok", "expired", "revoked"} -> error
    [] OTHER -> "other"

-----------------------------------------------------------------------------
(* What the backends make of it. *)

FlagsMap ==
  {<<"signer_not_found", "unknown_ca">>, <<"early", "not_activated">>, <<"expired", "expired">>,
   <<"revoked", "revoked">>, <<"weak", "insecure">>, <<"unexpected_owner", "bad_identity">>}

\* Mutant: forgets the status that says no more than invalid.
ConvertFlagsStrips(status) ==
  LET left == status \ {"invalid"}
      known == {f \in FlagsMap : f[1] \in left}
  IN {f[2] : f \in known} \cup (IF left \subseteq {f[1] : f \in known} THEN {} ELSE {"generic_error"})

ConvertFlags(status) ==
  LET left == IF status = {"invalid"} THEN status ELSE status \ {"invalid"}
      known == {f \in FlagsMap : f[1] \in left}
  IN {f[2] : f \in known} \cup (IF left \subseteq {f[1] : f \in known} THEN {} ELSE {"generic_error"})

ConvertError(error) ==
  CASE error = "ok" -> {}
    [] error = "early" -> {"not_activated"}
    [] error \in {"expired", "revoked"} -> {error}
    [] error \in {"no_issuer", "self_signed"} -> {"unknown_ca"}
    [] OTHER -> {"generic_error"}

\* A database calls a revoked certificate insecure, a certificate's own verify() revoked.
TranslateCfError(error, leaf, revoked) ==
  CASE error = "ok" -> {}
    [] error = "expired" -> IF leaf.health = "early" THEN {"not_activated"} ELSE {"expired"}
    [] error = "revoked" -> {revoked}
    [] OTHER -> {"unknown_ca"}

(* An identity is an address, a service or a socket address, or of a type  *)
(* the code does not know; its name is a host's or an IP address, which    *)
(* Apple's backend does not look for in a service's domain.                *)
VerifyIdentity(cert, identity) ==
  IF identity.type # "other" /\ identity.name \in cert.names THEN {} ELSE {"bad_identity"}
MatchesIdentity(cert, identity) ==
  VerifyIdentity(cert, identity) = {} /\ ~(identity.type = "service" /\ identity.ip)

WithIdentity(backend, cert, identity, flags) ==
  flags \cup IF identity.type = "none" THEN {}
             ELSE IF backend # "apple" THEN VerifyIdentity(cert, identity)
             ELSE IF MatchesIdentity(cert, identity) THEN {}
             ELSE {"bad_identity"}

GnutlsVerifyChain(chain, anchors) == ConvertFlags(GnutlsStatus(chain, anchors))
OpensslVerifyChain(chain, anchors) == ConvertError(OpensslError(chain, anchors))
AppleVerifyChain(chain, anchors) ==
  TranslateCfError(AppleError(Path("apple", chain), anchors), Head(chain), "insecure")

VerifyChain(backend, chain, anchors, identity) ==
  WithIdentity(backend, Head(chain), identity,
               CASE backend = "gnutls" -> GnutlsVerifyChain(chain, anchors)
                 [] backend = "openssl" -> OpensslVerifyChain(chain, anchors)
                 [] OTHER -> AppleVerifyChain(chain, anchors))

\* GnuTLS verifies a connection's peer within the session.
SessionVerifyChain(chain, anchors, identity) ==
  CASE identity.type = "none" -> ConvertFlags(GnutlsPeerStatus(chain, anchors, {}))
    [] identity.type = "other" ->
         {"bad_identity"} \cup ConvertFlags(GnutlsPeerStatus(chain, anchors, {}))
    [] OTHER -> ConvertFlags(GnutlsPeerStatus(chain, anchors, {identity.name}))

\* g_tls_certificate_verify() without a trusted CA: Apple's own anchors are the system's.
AppleVerify(chain, systemAnchors) ==
  TranslateCfError(AppleError(BuildChain("apple", chain), systemAnchors), Head(chain), "revoked")
VerifyAlone(backend, chain, identity, systemAnchors) ==
  WithIdentity(backend, Head(chain), identity,
               IF backend = "apple" THEN AppleVerify(chain, systemAnchors) ELSE {})
=============================================================================
