------------------------- MODULE CertificateDatabase -------------------------
(***************************************************************************)
(* A file database of anchors and a connection that verifies its peer by   *)
(* it: gtlsdatabase-*.c, gtlsfiledatabase-*.c, and the verification of     *)
(* gtlsconnection-base.c and its backends.  The anchor files may be        *)
(* rewritten on disk at any time.  GnuTLS and OpenSSL read theirs into a   *)
(* trust list or store and into tables for the lookups, and the first      *)
(* initialization stands; OpenSSL reads the file once for each.  Apple     *)
(* keeps one array of anchors, which the last initialization replaces.     *)
(* A GnuTLS connection takes credentials of its own from the file whenever *)
(* its database is set.                                                    *)
(* Apple's database and the anchors property are not locked: Apple's calls *)
(* and the setting of the property take one step here.                     *)
(***************************************************************************)
EXTENDS CertificateChain

CONSTANTS
  Threads,       \* threads that may initialize the database
  Files,         \* anchor files
  Contents,      \* what the files may hold: sequences of certificates
  Unreadable,    \* the content of a file that cannot be read
  Nothing,       \* what has not been read
  PeerLists,     \* what a peer may send
  Identities,    \* the identities to verify
  HashOf,        \* X509_NAME_hash() of the names
  MaxWrites      \* how often a file is rewritten

ASSUME DatabaseBounds == MaxWrites \in Nat /\ Contents \subseteq Seq(UNION {ToSet(c) : c \in Contents})
Certs == UNION {ToSet(c) : c \in Contents} \cup UNION {ToSet(l) : l \in PeerLists}

\* A peer that is verified has sent something, in which there is no circle of issuers: the
\* code would follow one without end.
ASSUME PeersBounds ==
  /\ PeerLists \subseteq Seq(Certs) /\ <<>> \notin PeerLists
  /\ \A list \in PeerLists :
       \E rank \in [DOMAIN list -> 0..Len(list)] : \A i, j \in DOMAIN list :
         Issued(list[i], list[j]) /\ ~SelfIssued(list[i]) => rank[j] < rank[i]
  /\ \A cert \in Certs : cert.health \in Healths
  /\ \A identity \in Identities : DOMAIN identity = {"type", "name", "ip"}

ASSUME NoContents == Contents \cap {Unreadable, Nothing} = {}

VARIABLES
  backend,
  disk,        \* the files, and how often they have been rewritten
  writes,
  name,        \* anchor_filename
  trust,       \* GnuTLS's trust list, OpenSSL's store, Apple's anchors: Nothing or certificates
  tables,      \* subjects, issuers and complete, which are always filled together
  handles,     \* the certificates by handle: Nothing or a set of handles and certificates
  init,        \* the threads' initializations
  ready,       \* an initialization has succeeded: the database may be used
  connection,  \* [database, creds]: whether it has this database, and GnuTLS's credentials
  issued,      \* the handles given out, with their certificates
  moved        \* the file's name, or Apple's anchors, have changed since

dbVars == <<backend, disk, writes, name, trust, tables, handles, init, ready, connection,
            issued, moved>>

Handle(file, cert) == <<file, cert>>
DbTypeOK ==
  LET read == Contents \cup {Nothing} IN
  /\ backend \in Backends /\ disk \in [Files -> Contents \cup {Unreadable}]
  /\ writes \in 0..MaxWrites /\ name \in Files
  /\ {trust, tables} \subseteq read
  /\ handles = Nothing \/ handles \subseteq (Files \X Certs) \X Certs
  /\ init \in [Threads -> [pc : {"idle", "file", "tables", "install"}, store : read]]
  /\ ready \in BOOLEAN /\ moved \in BOOLEAN
  /\ connection \in [database : BOOLEAN, creds : read \cup {<<>>}]
  /\ issued \subseteq (Files \X Certs) \X Certs

NotStarted == [pc |-> "idle", store |-> Nothing]

DbInit ==
  /\ backend \in Backends
  /\ disk \in [Files -> Contents] /\ writes = 0 /\ name \in Files
  /\ trust = Nothing /\ tables = Nothing /\ handles = Nothing
  /\ init = [t \in Threads |-> NotStarted] /\ ready = FALSE
  /\ connection = [database |-> FALSE, creds |-> <<>>]
  /\ issued = {} /\ moved = FALSE

WriteFile(f, content) ==
  /\ writes < MaxWrites /\ content # disk[f]
  /\ disk' = [disk EXCEPT ![f] = content] /\ writes' = writes + 1
  /\ UNCHANGED <<backend, name, trust, tables, handles, init, ready, connection, issued,
                 moved>>

\* Nothing else may be in progress: the name is not locked.
SetAnchors(f) ==
  /\ \A t \in Threads : init[t].pc = "idle"
  /\ f # name /\ name' = f /\ moved' = TRUE
  /\ UNCHANGED <<backend, disk, writes, trust, tables, handles, init, ready, connection,
                 issued>>

-----------------------------------------------------------------------------
(* Initialization, which may be cancelled where the code looks. *)

\* Mutant: makes GnuTLS's handles for the first certificate of each subject only.
HandlesOfSubjects(file, certs) ==
  {<<Handle(file, certs[i]), certs[i]>> :
     i \in {i \in DOMAIN certs : \A j \in 1..i - 1 : certs[j].subject # certs[i].subject}}

HandlesOf(file, certs) == {<<Handle(file, c), c>> : c \in ToSet(certs)}
ASSUME NoHandles == \A file \in Files, certs \in Contents : HandlesOf(file, certs) # Nothing

Unset(var, value) == IF var = Nothing THEN value ELSE var

GiveUp(t) == init' = [init EXCEPT ![t] = NotStarted]

StartInit(t) ==
  /\ init[t].pc = "idle" /\ backend # "apple"
  /\ init' = [init EXCEPT ![t].pc = "file"]
  /\ UNCHANGED <<backend, disk, writes, name, trust, tables, handles, ready, connection,
                 issued, moved>>

\* create_trust_list(), or X509_STORE_load_locations().
ReadTrust(t) ==
  /\ init[t].pc = "file"
  /\ IF disk[name] = Unreadable THEN GiveUp(t)
     ELSE init' = [init EXCEPT ![t].pc = IF backend = "openssl" THEN "tables" ELSE "install",
                               ![t].store = disk[name]]
  /\ UNCHANGED <<backend, disk, writes, name, trust, tables, handles, ready, connection,
                 issued, moved>>

\* load_anchor_file(): OpenSSL's tables, which stand even if the initialization is cancelled.
ReadTables(t) ==
  /\ init[t].pc = "tables"
  /\ IF disk[name] = Unreadable
     THEN GiveUp(t) /\ UNCHANGED <<tables, handles>>
     ELSE /\ tables' = Unset(tables, disk[name])
          /\ handles' = Unset(handles, HandlesOf(name, disk[name]))
          /\ init' = [init EXCEPT ![t].pc = "install"]
  /\ UNCHANGED <<backend, disk, writes, name, trust, ready, connection, issued, moved>>

\* Mutant: installs the trust list of every initialization.
InstallAgain(t) ==
  /\ init[t].pc = "install"
  /\ trust' = init[t].store
  /\ tables' = IF backend = "gnutls" THEN Unset(tables, init[t].store) ELSE tables
  /\ ready' = TRUE
  /\ GiveUp(t)
  /\ UNCHANGED <<backend, disk, writes, name, handles, connection, issued, moved>>

Install(t) ==
  /\ init[t].pc = "install"
  /\ trust' = Unset(trust, init[t].store)
  /\ tables' = IF backend = "gnutls" THEN Unset(tables, init[t].store) ELSE tables
  /\ ready' = TRUE
  /\ GiveUp(t)
  /\ UNCHANGED <<backend, disk, writes, name, handles, connection, issued, moved>>

CancelInit(t) ==
  /\ init[t].pc \in {"file", "install"}
  /\ GiveUp(t)
  /\ UNCHANGED <<backend, disk, writes, name, trust, tables, handles, ready, connection,
                 issued, moved>>

AppleInit ==
  /\ backend = "apple" /\ disk[name] # Unreadable
  /\ trust' = disk[name] /\ tables' = disk[name]
  /\ ready' = TRUE
  /\ moved' = (moved \/ (trust # Nothing /\ trust # disk[name]))
  /\ UNCHANGED <<backend, disk, writes, name, handles, init, connection, issued>>

-----------------------------------------------------------------------------
(* Lookups. *)

\* The key of a name in the tables.
Key(dn) == IF backend = "openssl" THEN HashOf[dn] ELSE dn

CreateCertificateHandle(cert) ==
  /\ ready /\ cert \in ToSet(tables)
  /\ issued' = issued \cup {<<Handle(name, cert), cert>>}
  /\ UNCHANGED <<backend, disk, writes, name, trust, tables, handles, init, ready, connection,
                 moved>>

\* GnuTLS makes its handles at the first lookup; Apple compares with the file's name of now.
HandlesNow ==
  IF backend = "apple" \/ handles = Nothing THEN HandlesOf(name, tables) ELSE handles
LookupCertificateForHandle(handle) == {h[2] : h \in {h \in HandlesNow : h[1] = handle}}
CreateHandles ==
  /\ ready /\ backend = "gnutls" /\ handles = Nothing
  /\ handles' = HandlesOf(name, tables)
  /\ UNCHANGED <<backend, disk, writes, name, trust, tables, init, ready, connection, issued,
                 moved>>

\* The first of the subject's certificates.
LookupCertificateIssuer(cert) ==
  LET found == {i \in DOMAIN tables : Key(tables[i].subject) = Key(cert.issuer)} IN
  {tables[i] : i \in {i \in found : \A j \in found : i <= j}}

LookupCertificatesIssuedBy(dn) == {a \in ToSet(tables) : Key(a.issuer) = Key(dn)}

\* A verification by the application; one that is cancelled finds a generic error.
DatabaseVerifyChain(isClient, list, identity) ==
  VerifyChain(backend, PeerChain(backend, isClient, list), ToSet(trust), identity)

-----------------------------------------------------------------------------
(* The connection. *)

\* update_credentials_cb() reads the file anew, and keeps what it has if it cannot.
SetDatabase(on) ==
  /\ on => ready
  /\ connection' =
       [database |-> on,
        creds |-> IF backend # "gnutls" THEN connection.creds
                  ELSE IF ~on THEN <<>>
                  ELSE IF disk[name] = Unreadable THEN connection.creds ELSE disk[name]]
  /\ UNCHANGED <<backend, disk, writes, name, trust, tables, handles, init, ready, issued, moved>>

\* The status responses of a peer's certificate only OpenSSL's code looks at itself.
Ocsp == IF backend = "openssl" THEN {"none", "good", "revoked", "bad"} ELSE {"none"}

\* verify_ocsp_response(): only what nothing else was wrong with comes here.
VerifyOcspResponse(response, mustStaple) ==
  CASE response = "none" -> IF mustStaple THEN {"generic_error"} ELSE {}
    [] response = "good" -> {}
    [] response = "revoked" -> {"revoked"}
    [] OTHER -> {"generic_error"}

\* GnuTLS verifies by the connection's credentials.
ConnectionAnchors == ToSet(IF backend = "gnutls" THEN connection.creds ELSE trust)
ConnectionVerifyChain(chain, identity) ==
  IF backend = "gnutls" THEN SessionVerifyChain(chain, ConnectionAnchors, identity)
  ELSE VerifyChain(backend, chain, ConnectionAnchors, identity)

\* A server verifies no identity, a client misses it if it has none.
VerifyPeerCertificate(isClient, list, identity, response, mustStaple) ==
  LET chain == PeerChain(backend, isClient, list)
      named == IF isClient THEN identity ELSE [identity EXCEPT !.type = "none"]
      flags == (IF isClient /\ identity.type = "none" THEN {"bad_identity"} ELSE {})
                 \cup (IF connection.database THEN ConnectionVerifyChain(chain, named)
                       ELSE {"unknown_ca"} \cup VerifyAlone(backend, chain, named, {}))
  IN IF isClient /\ backend = "openssl" /\ flags = {}
     THEN VerifyOcspResponse(response, mustStaple) ELSE flags

-----------------------------------------------------------------------------

InitStep(t) ==
  \/ StartInit(t) \/ ReadTrust(t) \/ ReadTables(t) \/ Install(t) \/ CancelInit(t)
DbNext ==
  \/ \E t \in Threads : InitStep(t)
  \/ AppleInit \/ CreateHandles
  \/ \E c \in Certs : CreateCertificateHandle(c)
  \/ \E on \in BOOLEAN : SetDatabase(on)
  \/ \E f \in Files : SetAnchors(f) \/ \E c \in Contents \cup {Unreadable} : WriteFile(f, c)

DbSpec == DbInit /\ [][DbNext]_dbVars

-----------------------------------------------------------------------------
(* What the lookups, the handles and the verdicts promise. *)

(* The trust anchors and the tables of the lookups come from one reading   *)
(* of one file, whatever initializations run at once or are cancelled.     *)
(* OpenSSL, which reads the file twice and installs in two steps, promises *)
(* it only while no file changes.                                          *)
TrustMatchesTables ==
  trust # Nothing /\ (backend = "openssl" => writes = 0 /\ ~moved) => trust = tables

(* A handle finds the certificate it was made for, and no other: as long   *)
(* as the anchors stay what they were, all of it still finds one.  The     *)
(* issuer a lookup finds has the name asked for, and none is missed:       *)
(* OpenSSL's tables know the names by their hashes only.                   *)
HandlesRoundTrip ==
  \A i \in issued :
    LET made == {j[2] : j \in {j \in issued : j[1] = i[1]}}
        found == LookupCertificateForHandle(i[1])
    IN found \subseteq made /\ (moved \/ found = made)

IssuersAreNamed ==
  ready =>
    \A cert \in Certs :
      LET found == LookupCertificateIssuer(cert) IN
      /\ \A c \in found : Key(c.subject) = Key(cert.issuer)
      /\ found = {} => ~\E a \in ToSet(tables) : a.subject = cert.issuer
      /\ {a \in ToSet(tables) : Issued(a, cert)} \subseteq LookupCertificatesIssuedBy(cert.subject)

LookupsAreRight == HandlesRoundTrip /\ IssuersAreNamed

(* A chain is accepted only if it leads from the first certificate to an   *)
(* anchor with nothing wrong on the way, for the identity asked for; a     *)
(* peer only for an identity and with a database, and not against what     *)
(* the status response of its certificate says.                            *)
Sound(isClient, list, anchors, identity) ==
  LET path == Path(backend, PeerChain(backend, isClient, list)) IN
  /\ Anchored(path, anchors) /\ Healthy(path)
  /\ identity.type # "none" => identity.name \in Head(list).names
AcceptsOnlyAnchored ==
  ready =>
    \A list \in PeerLists, identity \in Identities, isClient \in BOOLEAN :
      /\ DatabaseVerifyChain(isClient, list, identity) = {} =>
           Sound(isClient, list, ToSet(trust), identity)
      /\ \A mustStaple \in BOOLEAN, response \in Ocsp :
           VerifyPeerCertificate(isClient, list, identity, response, mustStaple) = {} =>
             /\ connection.database
             /\ Sound(isClient, list, ConnectionAnchors,
                      IF isClient THEN identity ELSE [identity EXCEPT !.type = "none"])
             /\ isClient => identity.type # "none"
             /\ isClient /\ backend = "openssl" =>
                  response = "good" \/ (response = "none" /\ ~mustStaple)

(* However a peer orders or repeats its certificates, each in the chain    *)
(* has issued the one before, and the chain ends only where the peer sent  *)
(* no issuer.  What is left out nevertheless: a root, which Apple's        *)
(* library has to find among its own, and which OpenSSL's code takes for   *)
(* no issuer if anything is wrong with it or what it issued                *)
(* (gtlscertificate-openssl.c:907); and the second certificate that an     *)
(* OpenSSL server gets (gtlscertificate-openssl.c:965).                    *)
LeftOut(isClient, cert, list, i) ==
  \/ SelfIssued(list[i]) /\ (backend = "apple" \/ (backend = "openssl" /\ ~Healthy(<<cert, list[i]>>)))
  \/ backend = "openssl" /\ ~isClient /\ i = 2
ChainIsComplete ==
  \A list \in PeerLists, isClient \in BOOLEAN :
    LET chain == Path(backend, PeerChain(backend, isClient, list)) IN
    /\ Head(chain) = Head(list)
    /\ \A i \in 1..Len(chain) - 1 : Issued(chain[i], chain[i + 1])
    /\ \/ SelfIssued(Last(chain))
       \/ \A i \in DOMAIN list :
            Issued(Last(chain), list[i]) => LeftOut(isClient, Last(chain), list, i)
=============================================================================
