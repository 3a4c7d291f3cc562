--------------------- MODULE CertificateDatabaseProofs ---------------------
(***************************************************************************)
(* The trust anchors of a file database, the tables of its lookups and the *)
(* handles it gives out agree, for every file, however many threads        *)
(* initialize it; the chain of every list without a circle is complete,    *)
(* and accepted only for an anchor.                                        *)
(***************************************************************************)
EXTENDS CertificateDatabase, WellFoundedInduction, TLAPS

-----------------------------------------------------------------------------
(***************************************************************************)
(* The inductive invariant.  While no file has changed, every reading of   *)
(* it is the same.                                                         *)
(***************************************************************************)
Steady == writes = 0 /\ ~moved

InitOK(t) ==
  /\ init[t].pc # "idle" => backend # "apple"
  /\ init[t].pc = "tables" => backend = "openssl"
  /\ init[t].pc \in {"tables", "install"} =>
       /\ init[t].store \in Contents
       /\ backend = "openssl" /\ Steady => init[t].store = disk[name]
  /\ init[t].pc = "install" /\ backend = "openssl" => tables # Nothing

\* Trust list and tables, read together or from the same file.
TablesOK ==
  /\ backend # "openssl" => trust = tables
  /\ backend = "openssl" /\ Steady => {trust, tables} \subseteq {Nothing, disk[name]}
  /\ trust # Nothing => tables # Nothing
  /\ ready => trust # Nothing

HandleOf(h) == \E f \in Files, c \in Certs : h = <<Handle(f, c), c>>

\* The handles are of the tables' certificates, and of the file with this name.
HandlesOK ==
  /\ handles # Nothing => (\A h \in handles : HandleOf(h)) /\ tables # Nothing
  /\ handles # Nothing /\ ~moved => handles = HandlesOf(name, tables)
  /\ backend = "openssl" /\ tables # Nothing => handles # Nothing
  /\ backend = "apple" => handles = Nothing

IssuedOK ==
  \A i \in issued :
    /\ HandleOf(i) /\ ready
    /\ ~moved => i[1][1] = name /\ i[2] \in ToSet(tables)

DbInv == DbTypeOK /\ (\A t \in Threads : InitOK(t)) /\ TablesOK /\ HandlesOK /\ IssuedOK

-----------------------------------------------------------------------------
LEMMA ContentsAreSequences ==
  ASSUME NEW s \in Contents
  PROVE  /\ s \in Seq(Certs) /\ ToSet(s) \subseteq Certs
         /\ \A i \in DOMAIN s : s[i] \in ToSet(s)
         /\ s # Nothing /\ s # Unreadable
<1>1. s \in Seq(UNION {ToSet(c) : c \in Contents})
  BY DatabaseBounds
<1>2. DOMAIN s = 1..Len(s) /\ \A i \in 1..Len(s) : s[i] \in ToSet(s)
  BY <1>1 DEF ToSet
<1>3. ToSet(s) \subseteq Certs
  BY DEF Certs
<1>4. s \in Seq(Certs)
  BY <1>1 DEF Certs
<1> QED BY <1>2, <1>3, <1>4, NoContents

\* The handles of a file are handles, and none of them nothing.
LEMMA HandlesOfFile ==
  ASSUME NEW f \in Files, NEW s \in Contents
  PROVE  /\ \A h \in HandlesOf(f, s) : HandleOf(h)
         /\ HandlesOf(f, s) # Nothing
         /\ HandlesOf(f, s) \subseteq (Files \X Certs) \X Certs
  BY NoHandles, ContentsAreSequences DEF HandlesOf, HandleOf, Handle

-----------------------------------------------------------------------------
LEMMA TypeStep ==
  ASSUME DbInv, [DbNext]_dbVars
  PROVE  DbTypeOK'
<1> USE DEF DbInv, DbTypeOK
<1>1. ASSUME NEW t \in Threads, InitStep(t)
      PROVE  DbTypeOK'
  <2>1. CASE StartInit(t)
    BY <1>1, <2>1 DEF StartInit
  <2>2. CASE ReadTrust(t)
    BY <1>1, <2>2 DEF ReadTrust, GiveUp, NotStarted
  <2>3. CASE ReadTables(t)
    BY <1>1, <2>3, HandlesOfFile DEF ReadTables, GiveUp, NotStarted, Unset
  <2>4. CASE Install(t)
    BY <1>1, <2>4 DEF Install, GiveUp, NotStarted, Unset, InitOK
  <2>5. CASE CancelInit(t)
    BY <1>1, <2>5 DEF CancelInit, GiveUp, NotStarted
  <2> QED BY <1>1, <2>1, <2>2, <2>3, <2>4, <2>5 DEF InitStep
<1>2. CASE AppleInit
  BY <1>2 DEF AppleInit
<1>3. CASE CreateHandles
  BY <1>3, HandlesOfFile DEF CreateHandles, TablesOK
<1>4. ASSUME NEW c \in Certs, CreateCertificateHandle(c)
      PROVE  DbTypeOK'
  BY <1>4 DEF CreateCertificateHandle, Handle
<1>5. ASSUME NEW on \in BOOLEAN, SetDatabase(on)
      PROVE  DbTypeOK'
  BY <1>5 DEF SetDatabase
<1>6. ASSUME NEW f \in Files, SetAnchors(f)
      PROVE  DbTypeOK'
  BY <1>6 DEF SetAnchors
<1>7. ASSUME NEW f \in Files, NEW c \in Contents \cup {Unreadable}, WriteFile(f, c)
      PROVE  DbTypeOK'
  BY <1>7, DatabaseBounds DEF WriteFile
<1>8. CASE UNCHANGED dbVars
  BY <1>8 DEF dbVars
<1> QED BY <1>1, <1>2, <1>3, <1>4, <1>5, <1>6, <1>7, <1>8 DEF DbNext

LEMMA InitStays ==
  ASSUME DbInv, DbTypeOK', [DbNext]_dbVars
  PROVE  (\A u \in Threads : InitOK(u))'
<1> USE DEF DbInv, InitOK, TablesOK, HandlesOK, IssuedOK, Steady
<1>1. ASSUME NEW t \in Threads, InitStep(t)
      PROVE  (\A u \in Threads : InitOK(u))'
  <2>1. CASE StartInit(t)
    BY <1>1, <2>1 DEF StartInit, DbTypeOK
  <2>2. CASE ReadTrust(t)
    BY <1>1, <2>2 DEF ReadTrust, GiveUp, NotStarted, DbTypeOK
  <2>3. CASE ReadTables(t)
    BY <1>1, <2>3, HandlesOfFile, ContentsAreSequences DEF ReadTables, GiveUp, NotStarted, Unset, DbTypeOK
  <2>4. CASE Install(t)
    BY <1>1, <2>4, ContentsAreSequences DEF Install, GiveUp, NotStarted, Unset, DbTypeOK
  <2>5. CASE CancelInit(t)
    BY <1>1, <2>5 DEF CancelInit, GiveUp, NotStarted, DbTypeOK
  <2> QED BY <1>1, <2>1, <2>2, <2>3, <2>4, <2>5 DEF InitStep
<1>2. CASE AppleInit
  BY <1>2, ContentsAreSequences DEF AppleInit, DbTypeOK
<1>3. CASE CreateHandles
  BY <1>3, HandlesOfFile DEF CreateHandles, DbTypeOK
<1>4. ASSUME NEW c \in Certs, CreateCertificateHandle(c)
      PROVE  (\A u \in Threads : InitOK(u))'
  BY <1>4 DEF CreateCertificateHandle, Handle, HandleOf, DbTypeOK
<1>5. ASSUME NEW on \in BOOLEAN, SetDatabase(on)
      PROVE  (\A u \in Threads : InitOK(u))'
  BY <1>5 DEF SetDatabase, DbTypeOK
<1>6. ASSUME NEW f \in Files, SetAnchors(f)
      PROVE  (\A u \in Threads : InitOK(u))'
  BY <1>6 DEF SetAnchors, DbTypeOK
<1>7. ASSUME NEW f \in Files, NEW c \in Contents \cup {Unreadable}, WriteFile(f, c)
      PROVE  (\A u \in Threads : InitOK(u))'
  BY <1>7, DatabaseBounds DEF WriteFile, DbTypeOK
<1>8. CASE UNCHANGED dbVars
  BY <1>8 DEF dbVars, DbTypeOK
<1> QED BY <1>1, <1>2, <1>3, <1>4, <1>5, <1>6, <1>7, <1>8 DEF DbNext

LEMMA TablesStay ==
  ASSUME DbInv, DbTypeOK', [DbNext]_dbVars
  PROVE  TablesOK'
<1> USE DEF DbInv, InitOK, TablesOK, HandlesOK, IssuedOK, Steady
<1>1. ASSUME NEW t \in Threads, InitStep(t)
      PROVE  TablesOK'
  <2>1. CASE StartInit(t)
    BY <1>1, <2>1 DEF StartInit, DbTypeOK
  <2>2. CASE ReadTrust(t)
    BY <1>1, <2>2 DEF ReadTrust, GiveUp, NotStarted, DbTypeOK
  <2>3. CASE ReadTables(t)
    BY <1>1, <2>3, HandlesOfFile, ContentsAreSequences DEF ReadTables, GiveUp, NotStarted, Unset, DbTypeOK
  <2>4. CASE Install(t)
    <3>1. init[t].store \in Contents /\ backend # "apple"
      BY <1>1, <2>4 DEF Install
    <3>2. /\ trust' = Unset(trust, init[t].store)
          /\ tables' = IF backend = "gnutls" THEN Unset(tables, init[t].store) ELSE tables
          /\ UNCHANGED <<backend, disk, writes, name, moved>>
      BY <2>4 DEF Install
    <3>3. init[t].store # Nothing
      BY <3>1, ContentsAreSequences
    <3>4. CASE backend = "openssl"
      BY <1>1, <2>4, <3>2, <3>3, <3>4 DEF Install, Unset
    <3>5. CASE backend # "openssl"
      BY <2>4, <3>1, <3>2, <3>3, <3>5 DEF Unset, DbTypeOK, Backends
    <3> QED BY <3>4, <3>5
  <2>5. CASE CancelInit(t)
    BY <1>1, <2>5 DEF CancelInit, GiveUp, NotStarted, DbTypeOK
  <2> QED BY <1>1, <2>1, <2>2, <2>3, <2>4, <2>5 DEF InitStep
<1>2. CASE AppleInit
  BY <1>2, ContentsAreSequences DEF AppleInit, DbTypeOK
<1>3. CASE CreateHandles
  BY <1>3, HandlesOfFile DEF CreateHandles, DbTypeOK
<1>4. ASSUME NEW c \in Certs, CreateCertificateHandle(c)
      PROVE  TablesOK'
  BY <1>4 DEF CreateCertificateHandle, Handle, HandleOf, DbTypeOK
<1>5. ASSUME NEW on \in BOOLEAN, SetDatabase(on)
      PROVE  TablesOK'
  BY <1>5 DEF SetDatabase, DbTypeOK
<1>6. ASSUME NEW f \in Files, SetAnchors(f)
      PROVE  TablesOK'
  BY <1>6 DEF SetAnchors, DbTypeOK
<1>7. ASSUME NEW f \in Files, NEW c \in Contents \cup {Unreadable}, WriteFile(f, c)
      PROVE  TablesOK'
  BY <1>7, DatabaseBounds DEF WriteFile, DbTypeOK
<1>8. CASE UNCHANGED dbVars
  BY <1>8 DEF dbVars, DbTypeOK
<1> QED BY <1>1, <1>2, <1>3, <1>4, <1>5, <1>6, <1>7, <1>8 DEF DbNext

LEMMA HandlesStay ==
  ASSUME DbInv, DbTypeOK', [DbNext]_dbVars
  PROVE  HandlesOK'
<1> USE DEF DbInv, InitOK, TablesOK, HandlesOK, IssuedOK, Steady
<1>1. ASSUME NEW t \in Threads, InitStep(t)
      PROVE  HandlesOK'
  <2>1. CASE StartInit(t)
    BY <1>1, <2>1 DEF StartInit, DbTypeOK
  <2>2. CASE ReadTrust(t)
    BY <1>1, <2>2 DEF ReadTrust, GiveUp, NotStarted, DbTypeOK
  <2>3. CASE ReadTables(t)
    BY <1>1, <2>3, HandlesOfFile, ContentsAreSequences DEF ReadTables, GiveUp, NotStarted, Unset, DbTypeOK
  <2>4. CASE Install(t)
    BY <1>1, <2>4, ContentsAreSequences DEF Install, GiveUp, NotStarted, Unset, DbTypeOK
  <2>5. CASE CancelInit(t)
    BY <1>1, <2>5 DEF CancelInit, GiveUp, NotStarted, DbTypeOK
  <2> QED BY <1>1, <2>1, <2>2, <2>3, <2>4, <2>5 DEF InitStep
<1>2. CASE AppleInit
  BY <1>2, ContentsAreSequences DEF AppleInit, DbTypeOK
<1>3. CASE CreateHandles
  BY <1>3, HandlesOfFile DEF CreateHandles, DbTypeOK
<1>4. ASSUME NEW c \in Certs, CreateCertificateHandle(c)
      PROVE  HandlesOK'
  BY <1>4 DEF CreateCertificateHandle, Handle, HandleOf, DbTypeOK
<1>5. ASSUME NEW on \in BOOLEAN, SetDatabase(on)
      PROVE  HandlesOK'
  BY <1>5 DEF SetDatabase, DbTypeOK
<1>6. ASSUME NEW f \in Files, SetAnchors(f)
      PROVE  HandlesOK'
  BY <1>6 DEF SetAnchors, DbTypeOK
<1>7. ASSUME NEW f \in Files, NEW c \in Contents \cup {Unreadable}, WriteFile(f, c)
      PROVE  HandlesOK'
  BY <1>7, DatabaseBounds DEF WriteFile, DbTypeOK
<1>8. CASE UNCHANGED dbVars
  BY <1>8 DEF dbVars, DbTypeOK
<1> QED BY <1>1, <1>2, <1>3, <1>4, <1>5, <1>6, <1>7, <1>8 DEF DbNext

LEMMA IssuedStay ==
  ASSUME DbInv, DbTypeOK', [DbNext]_dbVars
  PROVE  IssuedOK'
<1> USE DEF DbInv, InitOK, TablesOK, HandlesOK, IssuedOK, Steady
<1>1. ASSUME NEW t \in Threads, InitStep(t)
      PROVE  IssuedOK'
  <2>1. CASE StartInit(t)
    BY <1>1, <2>1 DEF StartInit, DbTypeOK
  <2>2. CASE ReadTrust(t)
    BY <1>1, <2>2 DEF ReadTrust, GiveUp, NotStarted, DbTypeOK
  <2>3. CASE ReadTables(t)
    BY <1>1, <2>3, HandlesOfFile, ContentsAreSequences DEF ReadTables, GiveUp, NotStarted, Unset, DbTypeOK
  <2>4. CASE Install(t)
    BY <1>1, <2>4, ContentsAreSequences DEF Install, GiveUp, NotStarted, Unset, DbTypeOK
  <2>5. CASE CancelInit(t)
    BY <1>1, <2>5 DEF CancelInit, GiveUp, NotStarted, DbTypeOK
  <2> QED BY <1>1, <2>1, <2>2, <2>3, <2>4, <2>5 DEF InitStep
<1>2. CASE AppleInit
  BY <1>2, ContentsAreSequences DEF AppleInit, DbTypeOK
<1>3. CASE CreateHandles
  BY <1>3, HandlesOfFile DEF CreateHandles, DbTypeOK
<1>4. ASSUME NEW c \in Certs, CreateCertificateHandle(c)
      PROVE  IssuedOK'
  BY <1>4 DEF CreateCertificateHandle, Handle, HandleOf, DbTypeOK
<1>5. ASSUME NEW on \in BOOLEAN, SetDatabase(on)
      PROVE  IssuedOK'
  BY <1>5 DEF SetDatabase, DbTypeOK
<1>6. ASSUME NEW f \in Files, SetAnchors(f)
      PROVE  IssuedOK'
  BY <1>6 DEF SetAnchors, DbTypeOK
<1>7. ASSUME NEW f \in Files, NEW c \in Contents \cup {Unreadable}, WriteFile(f, c)
      PROVE  IssuedOK'
  BY <1>7, DatabaseBounds DEF WriteFile, DbTypeOK
<1>8. CASE UNCHANGED dbVars
  BY <1>8 DEF dbVars, DbTypeOK
<1> QED BY <1>1, <1>2, <1>3, <1>4, <1>5, <1>6, <1>7, <1>8 DEF DbNext

LEMMA DbInvariant == DbSpec => []DbInv
<1>1. ASSUME DbInit
      PROVE  DbInv
  <2>1. /\ backend \in Backends /\ disk \in [Files -> Contents] /\ writes = 0 /\ name \in Files
        /\ trust = Nothing /\ tables = Nothing /\ handles = Nothing
        /\ init = [t \in Threads |-> NotStarted] /\ ready = FALSE
        /\ connection = [database |-> FALSE, creds |-> <<>>]
        /\ issued = {} /\ moved = FALSE
    BY <1>1 DEF DbInit
  <2>2. DbTypeOK
    <3>1. /\ disk \in [Files -> Contents \cup {Unreadable}] /\ writes \in 0..MaxWrites
          /\ init \in [Threads -> [pc : {"idle", "file", "tables", "install"},
                                   store : Contents \cup {Nothing}]]
          /\ connection \in [database : BOOLEAN, creds : Contents \cup {Nothing} \cup {<<>>}]
          /\ issued \subseteq (Files \X Certs) \X Certs
      BY <2>1, DatabaseBounds DEF NotStarted
    <3> QED BY <2>1, <3>1, Zenon DEF DbTypeOK
  <2>3. \A t \in Threads : InitOK(t)
    BY <2>1 DEF InitOK, NotStarted
  <2>4. TablesOK
    BY <2>1 DEF TablesOK
  <2>5. HandlesOK
    BY <2>1 DEF HandlesOK
  <2>6. IssuedOK
    BY <2>1 DEF IssuedOK
  <2> QED BY <2>2, <2>3, <2>4, <2>5, <2>6 DEF DbInv
<1>2. DbInv /\ [DbNext]_dbVars => DbInv'
  BY TypeStep, InitStays, TablesStay, HandlesStay, IssuedStay DEF DbInv
<1> QED BY <1>1, <1>2, PTL DEF DbSpec

-----------------------------------------------------------------------------
(***************************************************************************)
(* Types.                                                                  *)
(***************************************************************************)
THEOREM DbTypeCorrect == DbSpec => []DbTypeOK
<1>1. DbInv => DbTypeOK
  BY DEF DbInv
<1> QED BY <1>1, DbInvariant, PTL

(***************************************************************************)
(* Whatever threads initialize the database at once, and whichever of them *)
(* is cancelled, the anchors and the tables of the lookups come from one   *)
(* reading; those of OpenSSL, as long as no file changes.                  *)
(***************************************************************************)
THEOREM TrustAgrees == DbSpec => []TrustMatchesTables
<1>1. DbInv => TrustMatchesTables
  BY DEF DbInv, DbTypeOK, TablesOK, Steady, TrustMatchesTables
<1> QED BY <1>1, DbInvariant, PTL

-----------------------------------------------------------------------------
\* Handles carry what they were made for.
LEMMA RoundTrip ==
  ASSUME DbInv
  PROVE  HandlesRoundTrip
<1> SUFFICES ASSUME NEW i \in issued
             PROVE  LET made == {j[2] : j \in {j \in issued : j[1] = i[1]}}
                        found == LookupCertificateForHandle(i[1])
                    IN found \subseteq made /\ (moved \/ found = made)
  BY DEF HandlesRoundTrip
<1> DEFINE made == {j[2] : j \in {j \in issued : j[1] = i[1]}}
           found == LookupCertificateForHandle(i[1])
<1>1. PICK f \in Files, c \in Certs : i = <<Handle(f, c), c>>
  BY DEF DbInv, IssuedOK, HandleOf
<1>2. made = {c}
  BY <1>1 DEF DbInv, IssuedOK, HandleOf, Handle
<1>3. tables \in Contents /\ name \in Files
  BY DEF DbInv, IssuedOK, TablesOK, DbTypeOK
<1>4. \A h \in HandlesNow : HandleOf(h)
  BY <1>3, HandlesOfFile DEF HandlesNow, DbInv, HandlesOK
<1>5. found \subseteq {c}
  BY <1>1, <1>4 DEF LookupCertificateForHandle, HandleOf, Handle
<1>6. ASSUME ~moved
      PROVE  c \in found
  <2>1. HandlesNow = HandlesOf(name, tables)
    BY <1>6 DEF HandlesNow, DbInv, HandlesOK
  <2>2. f = name /\ c \in ToSet(tables)
    BY <1>1, <1>6 DEF DbInv, IssuedOK, Handle
  <2> QED BY <1>1, <2>1, <2>2 DEF LookupCertificateForHandle, HandlesOf
<1> QED BY <1>2, <1>5, <1>6

\* The first of some positions in a sequence.
LEMMA FirstOf ==
  ASSUME NEW S \in SUBSET Nat, S # {}
  PROVE  \E i \in S : \A j \in S : i <= j
<1> DEFINE R == OpToRel(<, Nat)
<1>1. \E i \in S : \A j \in S : <<j, i>> \notin R
  BY WFMin, NatLessThanWellFounded
<1>2. \A i, j \in Nat : <<j, i>> \in R <=> j < i
  BY DEF OpToRel
<1> HIDE DEF R
<1>3. PICK i \in S : \A j \in S : <<j, i>> \notin R
  BY <1>1
<1>4. \A j \in S : ~(j < i)
  BY <1>2, <1>3
<1> QED BY <1>4

LEMMA IssuersRight ==
  ASSUME DbInv
  PROVE  IssuersAreNamed
<1> SUFFICES ASSUME ready, NEW cert \in Certs
             PROVE  LET found == LookupCertificateIssuer(cert) IN
                    /\ \A c \in found : Key(c.subject) = Key(cert.issuer)
                    /\ found = {} => ~\E a \in ToSet(tables) : a.subject = cert.issuer
                    /\ {a \in ToSet(tables) : Issued(a, cert)}
                         \subseteq LookupCertificatesIssuedBy(cert.subject)
  BY DEF IssuersAreNamed
<1> DEFINE places == {i \in DOMAIN tables : Key(tables[i].subject) = Key(cert.issuer)}
<1>1. tables \in Seq(Certs)
  BY ContentsAreSequences DEF DbInv, DbTypeOK, TablesOK
<1>2. LookupCertificateIssuer(cert) = {tables[i] : i \in {i \in places : \A j \in places : i <= j}}
  BY DEF LookupCertificateIssuer
<1>3. places # {} => LookupCertificateIssuer(cert) # {}
  <2>1. DOMAIN tables = 1..Len(tables) /\ Len(tables) \in Nat
    BY <1>1
  <2>2. places \in SUBSET Nat
    BY <2>1
  <2> HIDE DEF places
  <2>3. ASSUME places # {}
        PROVE  LookupCertificateIssuer(cert) # {}
    <3>1. PICK i \in places : \A j \in places : i <= j
      BY <2>2, <2>3, FirstOf
    <3> QED BY <1>2, <3>1
  <2> QED BY <2>3
<1>4. ASSUME NEW a \in ToSet(tables), a.subject = cert.issuer
      PROVE  places # {}
  BY <1>1, <1>4 DEF ToSet
<1>5. {a \in ToSet(tables) : Issued(a, cert)} \subseteq LookupCertificatesIssuedBy(cert.subject)
  BY DEF Issued, LookupCertificatesIssuedBy
<1>6. \A c \in LookupCertificateIssuer(cert) : Key(c.subject) = Key(cert.issuer)
  BY <1>2
<1> QED BY <1>3, <1>4, <1>5, <1>6

(***************************************************************************)
(* A handle finds the certificate it was made for and no other; an issuer  *)
(* that is found has the name asked for, and one that is there is found.   *)
(***************************************************************************)
THEOREM LookupsRight == DbSpec => []LookupsAreRight
<1>1. DbInv => LookupsAreRight
  BY RoundTrip, IssuersRight DEF LookupsAreRight
<1> QED BY <1>1, DbInvariant, PTL

-----------------------------------------------------------------------------
(***************************************************************************)
(* The chain of a list.  That the recursive function is there at all, and  *)
(* what it makes, goes by the rank that a list without a circle gives its  *)
(* certificates: the least rank at which it would fail.                    *)
(***************************************************************************)
Chained(b, certs, from) ==
  [i \in DOMAIN certs |->
     <<certs[i]>> \o (IF IssuerIn(b, certs, i) = 0 THEN <<>> ELSE from[IssuerIn(b, certs, i)])]

Ranked(certs, rank) ==
  /\ \E n \in Nat : rank \in [DOMAIN certs -> 0..n]
  /\ \A i, j \in DOMAIN certs :
       Issued(certs[i], certs[j]) /\ ~SelfIssued(certs[i]) => rank[j] < rank[i]

\* A chain that leads from the i-th certificate as far as the list does.
Leads(b, certs, i, chain) ==
  /\ chain \in Seq(ToSet(certs)) /\ Len(chain) >= 1 /\ chain[1] = certs[i]
  /\ \A k \in 1..Len(chain) - 1 : Issued(chain[k], chain[k + 1])
  /\ \E j \in DOMAIN certs : chain[Len(chain)] = certs[j] /\ IssuerIn(b, certs, j) = 0

\* Whom the code takes for an issuer has issued; a root has no issuer but itself.
LEMMA IssuersIssued ==
  ASSUME NEW b, NEW cert, NEW issuer
  PROVE  /\ IsIssuer(b, cert, issuer) => Issued(cert, issuer)
         /\ IsIssuer(b, cert, cert) => SelfIssued(cert)
         /\ SelfIssued(cert) /\ IsIssuer(b, cert, issuer) => IsIssuer(b, cert, cert)
  BY DEF IsIssuer, SelfIssued

\* The issuer that is found, and that none is missed.
LEMMA IssuerFound ==
  ASSUME NEW b, NEW X, NEW certs \in Seq(X), NEW i \in DOMAIN certs
  PROVE  /\ IssuerIn(b, certs, i) # 0 => /\ IssuerIn(b, certs, i) \in DOMAIN certs
                                      /\ Issued(certs[i], certs[IssuerIn(b, certs, i)])
                                      /\ ~SelfIssued(certs[i])
         /\ IssuerIn(b, certs, i) = 0 =>
              SelfIssued(certs[i]) \/ \A j \in DOMAIN certs : ~IsIssuer(b, certs[i], certs[j])
<1> DEFINE found == {j \in DOMAIN certs \ {i} : IsIssuer(b, certs[i], certs[j])}
           own == IsIssuer(b, certs[i], certs[i])
<1>1. DOMAIN certs = 1..Len(certs) /\ Len(certs) \in Nat
  OBVIOUS
<1>2. found \in SUBSET Nat /\ \A j \in found : j \in DOMAIN certs /\ j # 0 /\ Issued(certs[i], certs[j])
  BY <1>1, IssuersIssued
<1>3. IssuerIn(b, certs, i) = IF own \/ found = {} THEN 0
                              ELSE IF i + 1 \in found THEN i + 1 ELSE Min(found)
  BY DEF IssuerIn
<1>4. /\ own => SelfIssued(certs[i])
      /\ ~own /\ found = {} => \A j \in DOMAIN certs : ~IsIssuer(b, certs[i], certs[j])
      /\ ~own /\ found # {} => ~SelfIssued(certs[i])
  BY IssuersIssued
<1> HIDE DEF found, own
<1>5. found # {} => Min(found) \in found
  <2> SUFFICES ASSUME found # {} PROVE Min(found) \in found
    OBVIOUS
  <2>1. \E x \in found : \A y \in found : x <= y
    BY <1>2, FirstOf
  <2> QED BY <2>1 DEF Min
<1> QED BY <1>2, <1>3, <1>4, <1>5

\* The function of BuildChain() is there.
LEMMA ChainsThere ==
  ASSUME NEW b, NEW X, NEW certs \in Seq(X), NEW rank, Ranked(certs, rank)
  PROVE  \E from : from = Chained(b, certs, from)
<1> DEFINE D == DOMAIN certs
           Good(f, m) == \A i \in D : rank[i] < m => f[i] = Chained(b, certs, f)[i]
           bad == {m \in Nat : ~ \E f \in [D -> Seq(X)] : Good(f, m)}
<1>1. D = 1..Len(certs) /\ Len(certs) \in Nat /\ \A i \in D : certs[i] \in X
  OBVIOUS
<1>2. PICK n \in Nat : \A i \in D : rank[i] \in Nat /\ rank[i] <= n
  BY <1>1 DEF Ranked
<1>3. \A i \in D : IssuerIn(b, certs, i) # 0 =>
                     IssuerIn(b, certs, i) \in D /\ rank[IssuerIn(b, certs, i)] < rank[i]
  BY IssuerFound DEF Ranked
<1>4. \A f \in [D -> Seq(X)] : Chained(b, certs, f) \in [D -> Seq(X)]
  <2> SUFFICES ASSUME NEW f \in [D -> Seq(X)], NEW i \in D
               PROVE  <<certs[i]>> \o (IF IssuerIn(b, certs, i) = 0 THEN <<>> ELSE f[IssuerIn(b, certs, i)])
                        \in Seq(X)
    BY DEF Chained
  <2> DEFINE rest == IF IssuerIn(b, certs, i) = 0 THEN <<>> ELSE f[IssuerIn(b, certs, i)]
  <2>1. rest \in Seq(X)
    BY <1>3
  <2>2. <<certs[i]>> \in Seq(X)
    BY <1>1
  <2> HIDE DEF rest
  <2>3. <<certs[i]>> \o rest \in Seq(X)
    BY <2>1, <2>2
  <2> QED BY <2>3 DEF rest
<1>5. 0 \notin bad
  <2>1. [i \in D |-> <<>>] \in [D -> Seq(X)]
    OBVIOUS
  <2>2. Good([i \in D |-> <<>>], 0)
    BY <1>2
  <2> QED BY <2>1, <2>2
<1>6. ASSUME NEW m \in Nat, m \notin bad
      PROVE  m + 1 \notin bad
  <2>1. PICK f \in [D -> Seq(X)] : Good(f, m)
    BY <1>6
  <2> DEFINE g == Chained(b, certs, f)
  <2>2. g \in [D -> Seq(X)]
    BY <1>4
  <2>3. ASSUME NEW i \in D, rank[i] < m + 1
        PROVE  g[i] = Chained(b, certs, g)[i]
    <3>1. IssuerIn(b, certs, i) # 0 => g[IssuerIn(b, certs, i)] = f[IssuerIn(b, certs, i)]
      <4>1. IssuerIn(b, certs, i) # 0 => rank[IssuerIn(b, certs, i)] < m
        BY <1>2, <1>3, <2>3
      <4> QED BY <1>3, <2>1, <4>1
    <3> QED BY <3>1 DEF Chained
  <2> QED BY <2>2, <2>3
<1>7. n + 1 \notin bad
  <2>1. bad # {} => \E m \in bad : \A k \in bad : m <= k
    BY FirstOf
  <2> SUFFICES ASSUME NEW m \in bad, \A k \in bad : m <= k
               PROVE  FALSE
    BY <1>2, <2>1
  <2>2. m \in Nat /\ m # 0
    BY <1>5
  <2> HIDE DEF bad
  <2>3. m - 1 \in Nat /\ m - 1 \notin bad
    BY <2>2
  <2>4. (m - 1) + 1 \notin bad
    BY <1>6, <2>3
  <2> QED BY <2>2, <2>4
<1>8. PICK f \in [D -> Seq(X)] : Good(f, n + 1)
  BY <1>2, <1>7
<1>9. \A i \in D : f[i] = Chained(b, certs, f)[i]
  <2>1. \A i \in D : rank[i] < n + 1
    BY <1>2
  <2> QED BY <1>8, <2>1
<1>10. f = Chained(b, certs, f)
  BY <1>4, <1>9
<1> QED BY <1>10

\* What it makes.
LEMMA ChainsLead ==
  ASSUME NEW b, NEW X, NEW certs \in Seq(X), NEW rank, Ranked(certs, rank),
         NEW from, from = Chained(b, certs, from)
  PROVE  \A i \in DOMAIN certs : Leads(b, certs, i, from[i])
<1> DEFINE D == DOMAIN certs
           bad == {m \in Nat : \E i \in D : rank[i] = m /\ ~Leads(b, certs, i, from[i])}
<1>1. D = 1..Len(certs) /\ Len(certs) \in Nat /\ \A i \in D : certs[i] \in ToSet(certs)
  BY DEF ToSet
<1>2. \A i \in D : rank[i] \in Nat
  BY <1>1 DEF Ranked
<1>3. \A i \in D : IssuerIn(b, certs, i) # 0 =>
                     /\ IssuerIn(b, certs, i) \in D /\ rank[IssuerIn(b, certs, i)] < rank[i]
                     /\ Issued(certs[i], certs[IssuerIn(b, certs, i)])
  BY IssuerFound DEF Ranked
<1>4. ASSUME NEW i \in D,
             IssuerIn(b, certs, i) # 0 => Leads(b, certs, IssuerIn(b, certs, i), from[IssuerIn(b, certs, i)])
      PROVE  Leads(b, certs, i, from[i])
  <2> DEFINE n == IssuerIn(b, certs, i)
             rest == IF n = 0 THEN <<>> ELSE from[n]
  <2>1. from[i] = <<certs[i]>> \o rest
    BY DEF Chained
  <2>2. CASE n = 0
    <3>1. from[i] = <<certs[i]>>
      <4>1. from[i] = <<certs[i]>> \o <<>>
        BY <2>1, <2>2
      <4>2. <<certs[i]>> \in Seq(ToSet(certs))
        BY <1>1
      <4> QED BY <4>1, <4>2
    <3>2. <<certs[i]>> \in Seq(ToSet(certs)) /\ Len(<<certs[i]>>) = 1 /\ <<certs[i]>>[1] = certs[i]
      BY <1>1
    <3> QED BY <2>2, <3>1, <3>2 DEF Leads
  <2>3. CASE n # 0
    <3> DEFINE t == from[n]
    <3>1. Leads(b, certs, n, t) /\ n \in D /\ Issued(certs[i], certs[n])
      BY <1>3, <1>4, <2>3
    <3>2. from[i] = <<certs[i]>> \o t
      BY <2>1, <2>3
    <3> HIDE DEF t, n
    <3>3. t \in Seq(ToSet(certs)) /\ Len(t) \in Nat /\ Len(t) >= 1 /\ certs[i] \in ToSet(certs)
      BY <1>1, <3>1 DEF Leads
    <3>4. LET c == <<certs[i]>> \o t
          IN  /\ c \in Seq(ToSet(certs)) /\ Len(c) = Len(t) + 1 /\ c[1] = certs[i]
              /\ \A k \in 1..Len(t) : c[k + 1] = t[k]
      BY <3>3
    <3>5. /\ from[i] \in Seq(ToSet(certs)) /\ Len(from[i]) = Len(t) + 1 /\ from[i][1] = certs[i]
          /\ \A k \in 1..Len(t) : from[i][k + 1] = t[k]
      BY <3>2, <3>4
    <3>6. ASSUME NEW k \in 1..Len(from[i]) - 1
          PROVE  Issued(from[i][k], from[i][k + 1])
      <4>1. k \in 1..Len(t) /\ from[i][k + 1] = t[k]
        BY <3>3, <3>5
      <4>2. CASE k = 1
        BY <3>1, <3>5, <4>1, <4>2 DEF Leads
      <4>3. CASE k # 1
        <5>1. k - 1 \in 1..Len(t) - 1 /\ k - 1 \in 1..Len(t) /\ (k - 1) + 1 = k
          BY <3>3, <4>1, <4>3
        <5>2. from[i][k] = t[k - 1] /\ Issued(t[k - 1], t[k])
          BY <3>1, <3>5, <5>1 DEF Leads
        <5> QED BY <4>1, <5>2
      <4> QED BY <4>2, <4>3
    <3>7. from[i][Len(from[i])] = t[Len(t)]
      BY <3>3, <3>5
    <3> QED BY <3>1, <3>3, <3>5, <3>6, <3>7 DEF Leads
  <2> QED BY <2>2, <2>3
<1>5. bad = {}
  <2>1. bad # {} => \E m \in bad : \A n \in bad : m <= n
    BY FirstOf
  <2> SUFFICES ASSUME NEW m \in bad, \A n \in bad : m <= n
               PROVE  FALSE
    BY <2>1
  <2>2. PICK i \in D : rank[i] = m /\ ~Leads(b, certs, i, from[i])
    OBVIOUS
  <2>3. IssuerIn(b, certs, i) # 0 => Leads(b, certs, IssuerIn(b, certs, i), from[IssuerIn(b, certs, i)])
    BY <1>2, <1>3, <2>2
  <2> QED BY <1>4, <2>2, <2>3
<1> QED BY <1>2, <1>5

\* The chain of a list leads from its first certificate.
LEMMA BuildsChain ==
  ASSUME NEW b, NEW X, NEW certs \in Seq(X), certs # <<>>, NEW rank, Ranked(certs, rank)
  PROVE  Leads(b, certs, 1, BuildChain(b, certs))
<1> DEFINE from == CHOOSE from : from = Chained(b, certs, from)
<1>1. from = Chained(b, certs, from)
  BY ChainsThere
<1>2. BuildChain(b, certs) = from[1]
  BY DEF BuildChain, Chained
<1> HIDE DEF from
<1>3. 1 \in DOMAIN certs
  OBVIOUS
<1> QED BY <1>1, <1>2, <1>3, ChainsLead

\* Some of the certificates of a list without a circle have no circle either.
LEMMA SomeRanked ==
  ASSUME NEW X, NEW certs \in Seq(X), NEW rank, Ranked(certs, rank), NEW some \in Seq(X),
         NEW at \in [DOMAIN some -> DOMAIN certs], \A k \in DOMAIN some : some[k] = certs[at[k]]
  PROVE  \E r : Ranked(some, r)
<1> DEFINE r == [k \in DOMAIN some |-> rank[at[k]]]
<1>1. PICK n \in Nat : rank \in [DOMAIN certs -> 0..n]
  BY DEF Ranked
<1>2. r \in [DOMAIN some -> 0..n]
  BY <1>1
<1>3. \A i, j \in DOMAIN some : Issued(some[i], some[j]) /\ ~SelfIssued(some[i]) => r[j] < r[i]
  BY DEF Ranked
<1>4. Ranked(some, r)
  BY <1>1, <1>2, <1>3 DEF Ranked
<1> QED BY <1>4

\* What Apple hands to the library of a list.
LEMMA FrontKept ==
  ASSUME NEW X, NEW certs \in Seq(X), Len(certs) > 1, NEW rank, Ranked(certs, rank)
  PROVE  /\ Front(certs) \in Seq(X) /\ Len(Front(certs)) = Len(certs) - 1
         /\ \A i \in 1..Len(certs) - 1 : Front(certs)[i] = certs[i]
         /\ \E r : Ranked(Front(certs), r)
<1> DEFINE front == Front(certs)
           n == Len(certs) - 1
           at == [i \in 1..n |-> i]
<1>1. DOMAIN certs = 1..Len(certs) /\ n \in Nat /\ \A i \in 1..n : i \in DOMAIN certs
  OBVIOUS
<1>2. front \in Seq(X) /\ Len(front) = n /\ \A i \in 1..n : front[i] = certs[i]
  BY <1>1 DEF Front
<1>3. DOMAIN front = 1..n
  BY <1>2
<1> HIDE DEF front, n
<1>4. at \in [DOMAIN front -> DOMAIN certs] /\ \A k \in DOMAIN front : front[k] = certs[at[k]]
  BY <1>1, <1>2, <1>3
<1> HIDE DEF at
<1>5. \E r : Ranked(front, r)
  BY <1>2, <1>4, SomeRanked
<1> QED BY <1>2, <1>5 DEF front, n

\* What an OpenSSL server keeps of a list.
LEMMA SecondLeftOut ==
  ASSUME NEW X, NEW certs \in Seq(X), Len(certs) > 1, NEW rank, Ranked(certs, rank)
  PROVE  /\ RemoveAt(certs, 2) \in Seq(X) /\ Len(RemoveAt(certs, 2)) = Len(certs) - 1
         /\ RemoveAt(certs, 2)[1] = certs[1]
         /\ \A i \in 2..Len(certs) - 1 : RemoveAt(certs, 2)[i] = certs[i + 1]
         /\ \E r : Ranked(RemoveAt(certs, 2), r)
<1> DEFINE some == RemoveAt(certs, 2)
           n == Len(certs) - 1
           at == [i \in 1..n |-> IF i = 1 THEN 1 ELSE i + 1]
           left == SubSeq(certs, 1, 1)
           right == SubSeq(certs, 3, Len(certs))
<1>1. DOMAIN certs = 1..Len(certs) /\ Len(certs) \in Nat /\ n \in Nat /\ n >= 1
  OBVIOUS
<1>2. left \in Seq(X) /\ Len(left) = 1 /\ left[1] = certs[1]
  BY <1>1
<1>3. /\ right \in Seq(X) /\ Len(right) = n - 1
      /\ \A i \in 1..n - 1 : right[i] = certs[i + 2]
  BY <1>1
<1>4. some = left \o right
  BY DEF RemoveAt
<1> HIDE DEF left, right, some
<1>5. /\ some \in Seq(X) /\ Len(some) = n /\ some[1] = certs[1]
      /\ \A i \in 2..n : some[i] = right[i - 1]
  <2>1. left = <<certs[1]>> /\ certs[1] \in X /\ Len(right) \in Nat
    BY <1>1, <1>2, <1>3
  <2>2. LET c == <<certs[1]>> \o right
        IN  /\ c \in Seq(X) /\ Len(c) = Len(right) + 1 /\ c[1] = certs[1]
            /\ \A k \in 1..Len(right) : c[k + 1] = right[k]
    BY <1>3, <2>1
  <2>3. /\ some \in Seq(X) /\ Len(some) = n /\ some[1] = certs[1]
        /\ \A k \in 1..n - 1 : some[k + 1] = right[k]
    <3>1. some = <<certs[1]>> \o right
      BY <1>4, <2>1
    <3>2. /\ some \in Seq(X) /\ Len(some) = Len(right) + 1 /\ some[1] = certs[1]
          /\ \A k \in 1..Len(right) : some[k + 1] = right[k]
      BY <2>2, <3>1, Zenon
    <3>3. Len(right) = n - 1 /\ Len(right) + 1 = n
      BY <1>1, <1>3
    <3> HIDE DEF n
    <3> QED BY <3>2, <3>3
  <2>4. ASSUME NEW i \in 2..n
        PROVE  some[i] = right[i - 1]
    <3>1. i - 1 \in 1..n - 1 /\ (i - 1) + 1 = i
      BY <1>1
    <3> QED BY <2>3, <3>1
  <2> QED BY <2>3, <2>4
<1>6. \A i \in 2..n : some[i] = certs[i + 1]
  <2> SUFFICES ASSUME NEW i \in 2..n
               PROVE  some[i] = certs[i + 1]
    OBVIOUS
  <2>1. i - 1 \in 1..n - 1 /\ (i - 1) + 2 = i + 1
    BY <1>1
  <2> QED BY <1>3, <1>5, <2>1
<1>7. DOMAIN some = 1..n
  BY <1>5
<1>8. at \in [DOMAIN some -> DOMAIN certs]
  <2>1. \A i \in 1..n : (IF i = 1 THEN 1 ELSE i + 1) \in 1..Len(certs)
    BY <1>1
  <2> QED BY <1>1, <1>7, <2>1
<1>9. \A k \in DOMAIN some : some[k] = certs[at[k]]
  BY <1>1, <1>5, <1>6, <1>7
<1> HIDE DEF at, n
<1>10. \E r : Ranked(some, r)
  <2>1. some \in Seq(X)
    BY <1>5
  <2> QED BY <1>8, <1>9, <2>1, SomeRanked
<1> QED BY <1>5, <1>6, <1>10 DEF some, n

-----------------------------------------------------------------------------
\* The path of a verification, and the certificates it is made of.
PathOf(isClient, list) == Path(backend, PeerChain(backend, isClient, list))
Source(isClient, list) ==
  IF backend = "apple" THEN CollectChain(list) ELSE PeerCertificates(backend, isClient, list)

LEMMA PathsMade ==
  ASSUME NEW list, NEW isClient \in BOOLEAN
  PROVE  /\ PathOf(isClient, list) = BuildChain(backend, Source(isClient, list))
         /\ backend = "apple" => PeerChain(backend, isClient, list) = list
         /\ backend # "apple" => PeerChain(backend, isClient, list) = PathOf(isClient, list)
  BY DEF PathOf, Path, PeerChain, Source

LEMMA SourceKept ==
  ASSUME NEW list \in PeerLists, NEW isClient \in BOOLEAN
  PROVE  /\ Source(isClient, list) \in Seq(Certs) /\ Source(isClient, list) # <<>>
         /\ Source(isClient, list)[1] = list[1]
         /\ \E r : Ranked(Source(isClient, list), r)
         /\ \A i \in DOMAIN list :
              \/ \E j \in DOMAIN Source(isClient, list) : Source(isClient, list)[j] = list[i]
              \/ backend = "apple" /\ SelfIssued(list[i])
              \/ backend = "openssl" /\ ~isClient /\ i = 2
<1>1. list \in Seq(Certs) /\ list # <<>> /\ Len(list) \in Nat /\ DOMAIN list = 1..Len(list)
  BY PeersBounds
<1>2. PICK rank : Ranked(list, rank)
  BY <1>1, PeersBounds DEF Ranked
<1>3. CASE backend = "apple" /\ Len(list) > 1 /\ SelfIssued(Last(list))
  <2> DEFINE front == Front(list)
  <2>1. Source(isClient, list) = front
    BY <1>3 DEF Source, CollectChain
  <2>2. /\ front \in Seq(Certs) /\ Len(front) = Len(list) - 1
        /\ \A i \in 1..Len(list) - 1 : front[i] = list[i]
        /\ \E r : Ranked(front, r)
    BY <1>1, <1>2, <1>3, FrontKept
  <2> HIDE DEF front
  <2>3. front # <<>> /\ front[1] = list[1] /\ DOMAIN front = 1..Len(list) - 1
    BY <1>1, <1>3, <2>2
  <2>4. ASSUME NEW i \in DOMAIN list
        PROVE  (\E j \in DOMAIN front : front[j] = list[i]) \/ SelfIssued(list[i])
    <3>1. CASE i = Len(list)
      BY <1>3, <3>1 DEF Last
    <3>2. CASE i # Len(list)
      <4>1. i \in 1..Len(list) - 1
        BY <1>1, <3>2
      <4> QED BY <2>2, <2>3, <4>1
    <3> QED BY <3>1, <3>2
  <2> QED BY <1>3, <2>1, <2>2, <2>3, <2>4
<1>4. CASE backend = "openssl" /\ ~isClient /\ Len(list) > 1
  <2> DEFINE some == RemoveAt(list, 2)
  <2>1. Source(isClient, list) = some
    BY <1>4 DEF Source, PeerCertificates
  <2>2. /\ some \in Seq(Certs) /\ Len(some) = Len(list) - 1 /\ some[1] = list[1]
        /\ \A i \in 2..Len(list) - 1 : some[i] = list[i + 1]
        /\ \E r : Ranked(some, r)
    BY <1>1, <1>2, <1>4, SecondLeftOut
  <2> HIDE DEF some
  <2>3. some # <<>> /\ DOMAIN some = 1..Len(list) - 1
    BY <1>1, <1>4, <2>2
  <2>4. ASSUME NEW i \in DOMAIN list, i # 2
        PROVE  \E j \in DOMAIN some : some[j] = list[i]
    <3>1. CASE i = 1
      BY <1>1, <1>4, <2>2, <2>3, <3>1
    <3>2. CASE i # 1
      <4>1. i - 1 \in 2..Len(list) - 1 /\ (i - 1) + 1 = i /\ i - 1 \in DOMAIN some
        BY <1>1, <2>3, <2>4, <3>2
      <4> QED BY <2>2, <4>1
    <3> QED BY <3>1, <3>2
  <2> QED BY <1>4, <2>1, <2>2, <2>3, <2>4
<1>5. CASE /\ ~(backend = "apple" /\ Len(list) > 1 /\ SelfIssued(Last(list)))
           /\ ~(backend = "openssl" /\ ~isClient /\ Len(list) > 1)
  <2>1. Source(isClient, list) = list
    BY <1>5 DEF Source, CollectChain, PeerCertificates
  <2> QED BY <1>1, <1>2, <2>1
<1> QED BY <1>3, <1>4, <1>5

\* The path leads from the first certificate as far as what is kept of the list does.
LEMMA PathsLead ==
  ASSUME NEW list \in PeerLists, NEW isClient \in BOOLEAN
  PROVE  Leads(backend, Source(isClient, list), 1, PathOf(isClient, list))
<1> DEFINE source == Source(isClient, list)
<1>1. source \in Seq(Certs) /\ source # <<>> /\ \E r : Ranked(source, r)
  BY SourceKept
<1> HIDE DEF source
<1>2. Leads(backend, source, 1, BuildChain(backend, source))
  BY <1>1, BuildsChain
<1> QED BY <1>2, PathsMade DEF source

\* What of a path of the list's certificates the verdicts need to know.
LEMMA PathsAreOfCerts ==
  ASSUME NEW list \in PeerLists, NEW isClient \in BOOLEAN
  PROVE  /\ PathOf(isClient, list) \in Seq(Certs) /\ PathOf(isClient, list) # <<>>
         /\ Head(PathOf(isClient, list)) = Head(list)
         /\ Head(PeerChain(backend, isClient, list)) = Head(list)
<1> DEFINE source == Source(isClient, list)
           path == PathOf(isClient, list)
<1>1. list \in Seq(Certs) /\ list # <<>> /\ Head(list) = list[1]
  BY PeersBounds
<1>2. source \in Seq(Certs) /\ source # <<>> /\ source[1] = list[1] /\ Leads(backend, source, 1, path)
  BY SourceKept, PathsLead
<1> HIDE DEF source, path
<1>3. ToSet(source) \subseteq Certs
  BY <1>2 DEF ToSet
<1>4. path \in Seq(ToSet(source)) /\ Len(path) >= 1 /\ path[1] = list[1]
  BY <1>2 DEF Leads
<1>5. path \in Seq(Certs)
  BY <1>3, <1>4
<1>6. path # <<>> /\ Head(path) = Head(list)
  BY <1>1, <1>4, <1>5
<1> QED BY <1>5, <1>6, PathsMade DEF path

\* The end of a chain: an issuer of its own, or none in the list.
LEMMA ChainsEnd ==
  ASSUME NEW b, NEW X, NEW certs \in Seq(X), NEW chain, Leads(b, certs, 1, chain)
  PROVE  SelfIssued(Last(chain)) \/ \A j \in DOMAIN certs : ~IsIssuer(b, Last(chain), certs[j])
  BY IssuerFound DEF Leads, Last

\* An issuer that is not taken for one is a root, with something wrong with it or below it.
LEMMA IssuerRefused ==
  ASSUME NEW b, NEW cert, NEW issuer, Issued(cert, issuer), ~IsIssuer(b, cert, issuer),
         ~SelfIssued(cert)
  PROVE  b = "openssl" /\ SelfIssued(issuer) /\ ~Healthy(<<cert, issuer>>)
  BY DEF IsIssuer

LEMMA PathsComplete ==
  ASSUME NEW list \in PeerLists, NEW isClient \in BOOLEAN
  PROVE  LET chain == PathOf(isClient, list) IN
         /\ Head(chain) = Head(list)
         /\ \A i \in 1..Len(chain) - 1 : Issued(chain[i], chain[i + 1])
         /\ \/ SelfIssued(Last(chain))
            \/ \A i \in DOMAIN list :
                 Issued(Last(chain), list[i]) => LeftOut(isClient, Last(chain), list, i)
<1> DEFINE source == Source(isClient, list)
           chain == PathOf(isClient, list)
<1>1. /\ source \in Seq(Certs) /\ Leads(backend, source, 1, chain)
      /\ \A i \in DOMAIN list :
           \/ \E j \in DOMAIN source : source[j] = list[i]
           \/ backend = "apple" /\ SelfIssued(list[i])
           \/ backend = "openssl" /\ ~isClient /\ i = 2
  <2>1. Leads(backend, source, 1, chain)
    BY PathsLead
  <2>2. source \in Seq(Certs)
    BY SourceKept
  <2>3. ASSUME NEW i \in DOMAIN list
        PROVE  \/ \E j \in DOMAIN source : source[j] = list[i]
               \/ backend = "apple" /\ SelfIssued(list[i])
               \/ backend = "openssl" /\ ~isClient /\ i = 2
    BY SourceKept
  <2> QED BY <2>1, <2>2, <2>3
<1>2. Head(chain) = Head(list)
  BY PathsAreOfCerts
<1> HIDE DEF source, chain
<1>3. \A i \in 1..Len(chain) - 1 : Issued(chain[i], chain[i + 1])
  BY <1>1 DEF Leads
<1>4. ASSUME ~SelfIssued(Last(chain)), NEW i \in DOMAIN list, Issued(Last(chain), list[i])
      PROVE  LeftOut(isClient, Last(chain), list, i)
  <2>1. ASSUME NEW j \in DOMAIN source, source[j] = list[i]
        PROVE  LeftOut(isClient, Last(chain), list, i)
    <3>1. ~IsIssuer(backend, Last(chain), source[j])
      BY <1>1, <1>4, ChainsEnd
    <3>2. /\ backend = "openssl" /\ SelfIssued(list[i])
          /\ ~Healthy(<<Last(chain), list[i]>>)
      BY <1>4, <2>1, <3>1, IssuerRefused
    <3> QED BY <3>2 DEF LeftOut
  <2>2. CASE backend = "apple" /\ SelfIssued(list[i])
    BY <2>2 DEF LeftOut
  <2>3. CASE backend = "openssl" /\ ~isClient /\ i = 2
    BY <2>3 DEF LeftOut
  <2> QED BY <1>1, <1>4, <2>1, <2>2, <2>3
<1> QED BY <1>2, <1>3, <1>4 DEF chain

(***************************************************************************)
(* However a peer orders or repeats its certificates, each in the chain    *)
(* has issued the one before, and the chain ends only where the peer sent  *)
(* no issuer but one the code leaves out: for every list without a circle  *)
(* of issuers, for the three libraries, of servers and of clients.         *)
(***************************************************************************)
THEOREM ChainsComplete == DbSpec => []ChainIsComplete
<1>1. ChainIsComplete
  BY PathsComplete DEF ChainIsComplete, PathOf
<1> QED BY <1>1, PTL

-----------------------------------------------------------------------------
(***************************************************************************)
(* What a verdict without flags says.                                      *)
(***************************************************************************)
LEMMA NothingConverted ==
  ASSUME NEW status, ConvertFlags(status) = {}
  PROVE  status = {}
<1> DEFINE left == IF status = {"invalid"} THEN status ELSE status \ {"invalid"}
           known == {f \in FlagsMap : f[1] \in left}
<1>1. /\ {f[2] : f \in known} = {}
      /\ left \subseteq {f[1] : f \in known}
  BY DEF ConvertFlags
<1>2. left = {}
  BY <1>1
<1> QED BY <1>2

LEMMA GnutlsAccepts ==
  ASSUME NEW chain, NEW anchors, GnutlsStatus(chain, anchors) = {}
  PROVE  Anchored(chain, anchors) /\ Healthy(chain)
  BY DEF GnutlsStatus, Healthy

LEMMA PeerAccepted ==
  ASSUME NEW chain, NEW anchors, NEW names, GnutlsPeerStatus(chain, anchors, names) = {}
  PROVE  Anchored(chain, anchors) /\ Healthy(chain) /\ names \subseteq Head(chain).names
  BY GnutlsAccepts DEF GnutlsPeerStatus

LEMMA OpensslAccepts ==
  ASSUME NEW chain \in Seq(Certs), NEW anchors, OpensslError(chain, anchors) = "ok"
  PROVE  Anchored(chain, anchors) /\ Healthy(chain)
<1>1. Anchored(chain, anchors)
  BY DEF OpensslError
<1>2. ASSUME ~Healthy(chain)
      PROVE  FALSE
  <2> DEFINE ill == {i \in DOMAIN chain : chain[i].health # "fine"}
  <2>1. chain[Max(ill)].health = "ok"
    BY <1>1, <1>2 DEF OpensslError
  <2>2. DOMAIN chain = 1..Len(chain) /\ Len(chain) \in Nat /\ \A i \in DOMAIN chain : chain[i] \in Certs
    OBVIOUS
  <2>3. ill # {} /\ ill \subseteq 1..Len(chain)
    BY <1>2, <2>2 DEF Healthy
  <2> HIDE DEF ill
  <2>4. \E i \in ill : \A j \in ill : i >= j
    <3> DEFINE from == {Len(chain) - i : i \in ill}
    <3>1. from \in SUBSET Nat /\ from # {}
      <4>1. \A i \in 1..Len(chain) : Len(chain) - i \in Nat
        BY <2>2
      <4> QED BY <2>3, <4>1
    <3>2. \E k \in from : \A l \in from : k <= l
      BY <3>1, FirstOf
    <3>3. PICK i \in ill : \A j \in ill : Len(chain) - i <= Len(chain) - j
      BY <3>2
    <3> QED BY <2>2, <2>3, <3>3
  <2>5. Max(ill) \in ill
    BY <2>4 DEF Max
  <2>6. chain[Max(ill)].health \in Healths
    BY <2>2, <2>3, <2>5, PeersBounds
  <2> QED BY <2>1, <2>6 DEF Healths
<1> QED BY <1>1, <1>2

LEMMA AppleAccepts ==
  ASSUME NEW chain, NEW anchors, NEW leaf, NEW revoked,
         TranslateCfError(AppleError(chain, anchors), leaf, revoked) = {}
  PROVE  OpensslError(chain, anchors) = "ok"
  BY DEF TranslateCfError, AppleError

LEMMA ErrorConverted ==
  ASSUME NEW error, ConvertError(error) = {}
  PROVE  error = "ok"
  BY DEF ConvertError

LEMMA IdentityFits ==
  ASSUME NEW cert, NEW identity, NEW flags, WithIdentity(backend, cert, identity, flags) = {}
  PROVE  flags = {} /\ (identity.type # "none" => identity.name \in cert.names)
  BY DEF WithIdentity, VerifyIdentity, MatchesIdentity

LEMMA VerdictIsSound ==
  ASSUME backend \in Backends, NEW list \in PeerLists, NEW isClient \in BOOLEAN, NEW anchors,
         NEW identity,
         VerifyChain(backend, PeerChain(backend, isClient, list), anchors, identity) = {}
  PROVE  Sound(isClient, list, anchors, identity)
<1> DEFINE chain == PeerChain(backend, isClient, list)
           flags == CASE backend = "gnutls" -> GnutlsVerifyChain(chain, anchors)
                      [] backend = "openssl" -> OpensslVerifyChain(chain, anchors)
                      [] OTHER -> AppleVerifyChain(chain, anchors)
<1>1. /\ PathOf(isClient, list) \in Seq(Certs) /\ Head(chain) = Head(list)
      /\ backend # "apple" => chain = PathOf(isClient, list)
  BY PathsAreOfCerts, PathsMade
<1>2. WithIdentity(backend, Head(chain), identity, flags) = {}
  BY DEF VerifyChain
<1>3. flags = {} /\ (identity.type # "none" => identity.name \in Head(list).names)
  <2> HIDE DEF flags, chain
  <2> QED BY <1>1, <1>2, IdentityFits
<1>4. Anchored(PathOf(isClient, list), anchors) /\ Healthy(PathOf(isClient, list))
  <2>1. CASE backend = "gnutls"
    <3>1. ConvertFlags(GnutlsStatus(PathOf(isClient, list), anchors)) = {}
      BY <1>1, <1>3, <2>1 DEF GnutlsVerifyChain
    <3> QED BY <3>1, NothingConverted, GnutlsAccepts
  <2>2. CASE backend = "openssl"
    <3>1. ConvertError(OpensslError(PathOf(isClient, list), anchors)) = {}
      BY <1>1, <1>3, <2>2 DEF OpensslVerifyChain
    <3> QED BY <1>1, <3>1, ErrorConverted, OpensslAccepts
  <2>3. CASE backend = "apple"
    <3>1. TranslateCfError(AppleError(PathOf(isClient, list), anchors), Head(chain), "insecure") = {}
      BY <1>3, <2>3 DEF AppleVerifyChain, PathOf
    <3>2. OpensslError(PathOf(isClient, list), anchors) = "ok"
      BY <3>1, AppleAccepts
    <3> QED BY <1>1, <3>2, OpensslAccepts
  <2> QED BY <2>1, <2>2, <2>3 DEF Backends
<1> QED BY <1>3, <1>4 DEF Sound, PathOf

\* The same of GnuTLS's session.
LEMMA SessionIsSound ==
  ASSUME backend = "gnutls", NEW list \in PeerLists, NEW isClient \in BOOLEAN, NEW anchors,
         NEW identity,
         SessionVerifyChain(PeerChain(backend, isClient, list), anchors, identity) = {}
  PROVE  Sound(isClient, list, anchors, identity)
<1>1. PeerChain(backend, isClient, list) = PathOf(isClient, list) /\ Head(PathOf(isClient, list)) = Head(list)
  BY PathsAreOfCerts, PathsMade
<1>2. /\ identity.type # "other"
      /\ ConvertFlags(GnutlsPeerStatus(PathOf(isClient, list), anchors,
           IF identity.type = "none" THEN {} ELSE {identity.name})) = {}
  <2>1. CASE identity.type = "none"
    BY <1>1, <2>1 DEF SessionVerifyChain
  <2>2. CASE identity.type = "other"
    BY <1>1, <2>2 DEF SessionVerifyChain
  <2>3. CASE identity.type \notin {"none", "other"}
    BY <1>1, <2>3 DEF SessionVerifyChain
  <2> QED BY <2>1, <2>2, <2>3
<1>3. GnutlsPeerStatus(PathOf(isClient, list), anchors,
        IF identity.type = "none" THEN {} ELSE {identity.name}) = {}
  BY <1>2, NothingConverted
<1>4. /\ Anchored(PathOf(isClient, list), anchors) /\ Healthy(PathOf(isClient, list))
      /\ (IF identity.type = "none" THEN {} ELSE {identity.name}) \subseteq Head(list).names
  BY <1>1, <1>3, PeerAccepted
<1> QED BY <1>4 DEF Sound, PathOf

\* A peer is accepted by the connection's database, for an identity if it is a server,
\* and not against its status response.
LEMMA PeerIsSound ==
  ASSUME backend \in Backends, NEW list \in PeerLists, NEW identity \in Identities,
         NEW isClient \in BOOLEAN, NEW mustStaple \in BOOLEAN, NEW response \in Ocsp,
         VerifyPeerCertificate(isClient, list, identity, response, mustStaple) = {}
  PROVE  /\ connection.database
         /\ Sound(isClient, list, ConnectionAnchors,
                  IF isClient THEN identity ELSE [identity EXCEPT !.type = "none"])
         /\ isClient => identity.type # "none"
         /\ isClient /\ backend = "openssl" =>
              response = "good" \/ (response = "none" /\ ~mustStaple)
<1> DEFINE chain == PeerChain(backend, isClient, list)
           named == IF isClient THEN identity ELSE [identity EXCEPT !.type = "none"]
           byDatabase == ConnectionVerifyChain(chain, named)
           alone == {"unknown_ca"} \cup VerifyAlone(backend, chain, named, {})
           unnamed == IF isClient /\ identity.type = "none" THEN {"bad_identity"} ELSE {}
           flags == unnamed \cup (IF connection.database THEN byDatabase ELSE alone)
<1>1. VerifyPeerCertificate(isClient, list, identity, response, mustStaple) =
        IF isClient /\ backend = "openssl" /\ flags = {}
        THEN VerifyOcspResponse(response, mustStaple) ELSE flags
  BY DEF VerifyPeerCertificate
<1> HIDE DEF byDatabase
<1>2. flags = {} /\ unnamed = {} /\ connection.database /\ byDatabase = {}
  <2> HIDE DEF flags
  <2>1. flags = {}
    BY <1>1
  <2>2. "unknown_ca" \in alone
    OBVIOUS
  <2> HIDE DEF alone, unnamed
  <2> QED BY <2>1, <2>2 DEF flags
<1>3. Sound(isClient, list, ConnectionAnchors, named)
  <2> HIDE DEF named
  <2>1. CASE backend = "gnutls"
    <3>1. SessionVerifyChain(chain, ConnectionAnchors, named) = {}
      BY <1>2, <2>1 DEF byDatabase, ConnectionVerifyChain
    <3> QED BY <2>1, <3>1, SessionIsSound
  <2>2. CASE backend # "gnutls"
    <3>1. VerifyChain(backend, chain, ConnectionAnchors, named) = {}
      BY <1>2, <2>2 DEF byDatabase, ConnectionVerifyChain
    <3> QED BY <3>1, VerdictIsSound
  <2> QED BY <2>1, <2>2
<1>4. isClient => identity.type # "none"
  BY <1>2
<1>5. ASSUME isClient, backend = "openssl"
      PROVE  response = "good" \/ (response = "none" /\ ~mustStaple)
  <2>1. VerifyOcspResponse(response, mustStaple) = {}
    BY <1>1, <1>2, <1>5
  <2> QED BY <2>1 DEF VerifyOcspResponse
<1> QED BY <1>2, <1>3, <1>4, <1>5

(***************************************************************************)
(* A chain is accepted only if it leads from the first certificate to an   *)
(* anchor with nothing wrong on the way, for the identity asked for; a     *)
(* peer only for an identity and with a database, and not against what     *)
(* the status response of its certificate says: for every list without a   *)
(* circle, whatever the anchors have become meanwhile.                     *)
(***************************************************************************)
THEOREM AnchoredOnly == DbSpec => []AcceptsOnlyAnchored
<1>1. ASSUME DbInv
      PROVE  AcceptsOnlyAnchored
  <2>1. backend \in Backends
    BY <1>1 DEF DbInv, DbTypeOK
  <2>2. ASSUME NEW list \in PeerLists, NEW isClient \in BOOLEAN, NEW identity,
               DatabaseVerifyChain(isClient, list, identity) = {}
        PROVE  Sound(isClient, list, ToSet(trust), identity)
    BY <2>1, <2>2, VerdictIsSound DEF DatabaseVerifyChain
  <2> QED BY <2>1, <2>2, PeerIsSound DEF AcceptsOnlyAnchored
<1>2. DbInv => AcceptsOnlyAnchored
  BY <1>1
<1> QED BY <1>2, DbInvariant, PTL
=============================================================================
