------------------------- MODULE AppleBridgeProofs -------------------------
(***************************************************************************)
(* However a connection over Network.framework gets its transport, in any  *)
(* number of attempts, no descriptor is closed twice and those it still    *)
(* has at the end are the ones dispose() closes.  A pump that bridges it   *)
(* passes on what comes, in order, and does not rest while it can go on.   *)
(***************************************************************************)
EXTENDS AppleBridge, SequenceTheorems, TLAPS

-----------------------------------------------------------------------------
(***************************************************************************)
(* The inductive invariant.  Fields are where dispose() looks; InTransit   *)
(* what a step has opened and a later one hands on or closes.              *)
(***************************************************************************)
Fields == {priv.bounce_socket, priv.listen_fd, priv.listener}

InTransit ==
  CASE At("create") /\ ~Public -> {The("apple")}
    [] setup.pc \in {"listening", "release", "rendezvous"} -> {The("listener")}
    [] At("adopt") -> {The("listener"), The("ours")}
    [] OTHER -> {}

Named(names) == ({"none"} \cup names) \X Nat

PrivType ==
  [bounce_fd : Named({"ours", "udp"}), bounce_socket : Named({"ours", "udp"}),
   listen_fd : Named({"listen"}), listener : Named({"listener"}), pending : BOOLEAN]

EndpointTypeOK ==
  /\ transport \in Transport
  /\ setup \in [pc : {"idle", "transport", "create", "attach", "listening", "release", "adopt",
                      "rendezvous", "bridge", "direct", "bridged", "failed", "disposed"},
                attempt : Nat]
  /\ open \subseteq {"apple", "ours", "udp", "listen", "listener"} \X Nat
  /\ priv \in PrivType

\* What is open is of this attempt or of one before it: at its beginning, of one before.
OfAttempts ==
  \A r \in open : r[2] <= setup.attempt /\ (At("transport") => r[2] < setup.attempt)

\* What dispose() or a later step will close is open ...
HeldIsOpen == (Fields \ {None}) \cup InTransit \subseteq open

\* ... and what a later step will close is not what dispose() will.
TransitIsNotHeld == InTransit \cap Fields = {}

\* What this attempt has opened is where it will be closed, but for a datagram socket.
OpenIsHeld == \A r \in open : r[2] = setup.attempt /\ r[1] # "udp" => r \in Fields \cup InTransit

\* A client adopts its end only when the framework's connection is attached, which
\* finishes what setup_public_endpoint has begun.
Unattached == setup.pc \in {"idle", "transport", "create", "attach"}
AdoptsLate == Client /\ Unattached => priv.bounce_socket = None

PendingIsClients == priv.pending => Client

PendingIsOpen ==
  priv.pending /\ Unattached =>
    /\ transport.dtls => priv.bounce_fd \in open /\ priv.bounce_fd[1] = "udp"
    /\ ~transport.dtls => priv.listen_fd # None

\* Only a server has a listener.
ServerListens == setup.pc \in {"listening", "release", "adopt", "rendezvous"} => Listens

EndpointInv ==
  /\ EndpointTypeOK /\ ~twice /\ OfAttempts /\ HeldIsOpen /\ TransitIsNotHeld /\ OpenIsHeld
  /\ AdoptsLate /\ PendingIsClients /\ PendingIsOpen /\ ServerListens

USE DEF None, The, Descriptors, Untouched, At, To, Public, Client, Listens, Fails

-----------------------------------------------------------------------------
\* The framework's end is on its way; ours is where dispose() finds it.
LEMMA SetupBounceTransportStep ==
  ASSUME EndpointInv, SetupBounceTransport
  PROVE  EndpointInv'
<1> USE DEF EndpointInv, EndpointTypeOK
<1>1. CASE transport.socket
  <2>1. /\ transport' = transport
        /\ setup.pc = "transport"
        /\ setup' = [setup EXCEPT !.pc = "create"]
        /\ ~Public
        /\ open' = open \cup {The("apple")}
        /\ ~twice'
        /\ priv' = priv
    BY <1>1 DEF SetupBounceTransport
  <2>2. priv' \in PrivType
    BY <2>1
  <2>3. EndpointTypeOK'
    BY <2>1, <2>2
  <2> QED
    BY <2>1, <2>2, <2>3 DEF Fields, InTransit, PrivType, Named, OfAttempts, HeldIsOpen,
        TransitIsNotHeld, OpenIsHeld, Unattached, AdoptsLate, PendingIsClients,
        PendingIsOpen, ServerListens
<1>2. CASE ~transport.socket
  <2>1. /\ transport' = transport
        /\ setup.pc = "transport"
        /\ setup' = [setup EXCEPT !.pc = "create"]
        /\ ~Public
        /\ open' = open \cup {The("apple"), The("ours")}
        /\ ~twice'
        /\ priv' = [priv EXCEPT !.bounce_fd = The("ours"), !.bounce_socket = The("ours")]
    BY <1>2 DEF SetupBounceTransport
  <2>2. /\ priv' \in PrivType
        /\ priv'.bounce_socket = The("ours")
        /\ priv'.listen_fd = priv.listen_fd
        /\ priv'.listener = priv.listener
        /\ priv'.pending = priv.pending
    <3>1. The("ours") \in Named({"ours", "udp"})
      BY DEF Named, PrivType
    <3> QED BY <2>1, <3>1 DEF PrivType
  <2>3. EndpointTypeOK'
    BY <2>1, <2>2
  <2> QED
    BY <2>1, <2>2, <2>3 DEF Fields, InTransit, PrivType, Named, OfAttempts, HeldIsOpen,
        TransitIsNotHeld, OpenIsHeld, Unattached, AdoptsLate, PendingIsClients,
        PendingIsOpen, ServerListens
<1> QED BY <1>1, <1>2 DEF SetupBounceTransport, Transport

\* What setup_public_endpoint opens waits for attach.
LEMMA SetupPublicEndpointStep ==
  ASSUME EndpointInv, SetupPublicEndpoint
  PROVE  EndpointInv'
<1> USE DEF EndpointInv, EndpointTypeOK
<1>1. CASE To("create") /\ transport.dtls
  <2>1. /\ At("transport")
        /\ Client
        /\ transport' = transport
        /\ setup' = [setup EXCEPT !.pc = "create"]
        /\ open' = open \cup {The("udp")}
        /\ ~twice'
        /\ priv' = [priv EXCEPT !.bounce_fd = The("udp"), !.pending = TRUE]
    BY <1>1 DEF SetupPublicEndpoint
  <2>2. /\ priv' \in PrivType
        /\ priv'.bounce_fd = The("udp")
        /\ priv'.pending = TRUE
        /\ priv'.bounce_socket = priv.bounce_socket
        /\ priv'.listen_fd = priv.listen_fd
        /\ priv'.listener = priv.listener
    <3>1. The("udp") \in Named({"ours", "udp"})
      BY DEF Named, PrivType
    <3> QED BY <2>1, <3>1 DEF PrivType
  <2>3. EndpointTypeOK'
    BY <2>1, <2>2
  <2>4. PendingIsOpen'
    <3>1. transport'.dtls /\ priv'.bounce_fd \in open' /\ priv'.bounce_fd[1] = "udp"
      BY <1>1, <2>1, <2>2
    <3> QED BY <3>1 DEF PendingIsOpen
  <2> QED
    BY <2>1, <2>2, <2>3, <2>4 DEF Fields, InTransit, PrivType, Named, OfAttempts, HeldIsOpen,
        TransitIsNotHeld, OpenIsHeld, Unattached, AdoptsLate, PendingIsClients,
        PendingIsOpen, ServerListens
<1>2. CASE To("create") /\ ~transport.dtls
  <2>1. /\ At("transport")
        /\ Client
        /\ transport' = transport
        /\ setup' = [setup EXCEPT !.pc = "create"]
        /\ open' = open \cup {The("listen")}
        /\ ~twice'
        /\ priv' = [priv EXCEPT !.listen_fd = The("listen"), !.pending = TRUE]
    BY <1>2 DEF SetupPublicEndpoint
  <2>2. /\ priv' \in PrivType
        /\ priv'.pending = TRUE
        /\ priv'.bounce_socket = priv.bounce_socket
        /\ priv'.listen_fd = The("listen")
        /\ priv'.listener = priv.listener
    <3>1. The("listen") \in Named({"listen"})
      BY DEF Named, PrivType
    <3> QED BY <2>1, <3>1 DEF PrivType
  <2>3. EndpointTypeOK'
    BY <2>1, <2>2
  <2>4. PendingIsOpen'
    <3>1. ~transport'.dtls /\ priv'.listen_fd # None
      BY <1>2, <2>1, <2>2
    <3> QED BY <3>1 DEF PendingIsOpen
  <2> QED
    BY <2>1, <2>2, <2>3, <2>4 DEF Fields, InTransit, PrivType, Named, OfAttempts, HeldIsOpen,
        TransitIsNotHeld, OpenIsHeld, Unattached, AdoptsLate, PendingIsClients,
        PendingIsOpen, ServerListens
<1>3. CASE Fails /\ Untouched /\ UNCHANGED priv
  <2>1. /\ At("transport")
        /\ Client
        /\ transport' = transport
        /\ setup' = [setup EXCEPT !.pc = "idle"]
        /\ open' = open
        /\ ~twice'
        /\ priv' = priv
    BY <1>3 DEF SetupPublicEndpoint
  <2>2. priv' \in PrivType
    BY <2>1
  <2>3. EndpointTypeOK'
    BY <2>1, <2>2
  <2> QED
    BY <2>1, <2>2, <2>3 DEF Fields, InTransit, PrivType, Named, OfAttempts, HeldIsOpen,
        TransitIsNotHeld, OpenIsHeld, Unattached, AdoptsLate, PendingIsClients,
        PendingIsOpen, ServerListens
<1> QED BY <1>1, <1>2, <1>3 DEF SetupPublicEndpoint, Transport

\* The listener is closed before anybody has it.
LEMMA ReleaseListenerStep ==
  ASSUME EndpointInv, ReleaseListener
  PROVE  EndpointInv'
<1> USE DEF EndpointInv, EndpointTypeOK
<1>1. /\ At("release")
      /\ transport' = transport
      /\ setup' = [setup EXCEPT !.pc = "idle"]
      /\ open' = open \ {The("listener")}
      /\ The("listener") \in open
      /\ ~twice'
      /\ priv' = priv
  BY DEF ReleaseListener, InTransit, HeldIsOpen
<1>2. priv' \in PrivType
  BY <1>1
<1>3. EndpointTypeOK'
  BY <1>1, <1>2
<1> QED
  BY <1>1, <1>2, <1>3 DEF Fields, InTransit, PrivType, Named, OfAttempts, HeldIsOpen,
      TransitIsNotHeld, OpenIsHeld, Unattached, AdoptsLate, PendingIsClients,
      PendingIsOpen, ServerListens

\* Whatever was opened has been closed.
LEMMA SetupBounceTransportFailsStep ==
  ASSUME EndpointInv, SetupBounceTransportFails
  PROVE  EndpointInv'
<1> USE DEF EndpointInv, EndpointTypeOK
<1>1. CASE Untouched
  <2>1. /\ ~Public
        /\ At("transport")
        /\ transport' = transport
        /\ setup' = [setup EXCEPT !.pc = "idle"]
        /\ open' = open
        /\ ~twice'
        /\ priv' = [priv EXCEPT !.bounce_fd = IF transport.dtls /\ ~transport.socket THEN None ELSE @]
    BY <1>1 DEF SetupBounceTransportFails
  <2>2. /\ priv' \in PrivType
        /\ priv'.pending = priv.pending
        /\ priv'.bounce_socket = priv.bounce_socket
        /\ priv'.listen_fd = priv.listen_fd
        /\ priv'.listener = priv.listener
    <3>1. None \in Named({"ours", "udp"})
      BY DEF Named, PrivType
    <3> QED BY <2>1, <3>1 DEF PrivType
  <2>3. EndpointTypeOK'
    BY <2>1, <2>2
  <2> QED
    BY <2>1, <2>2, <2>3 DEF Fields, InTransit, PrivType, Named, OfAttempts, HeldIsOpen,
        TransitIsNotHeld, OpenIsHeld, Unattached, AdoptsLate, PendingIsClients,
        PendingIsOpen, ServerListens
<1>2. CASE Descriptors({The("apple"), The("ours")}, {The("apple"), The("ours")})
  <2>1. /\ ~Public
        /\ At("transport")
        /\ transport' = transport
        /\ setup' = [setup EXCEPT !.pc = "idle"]
        /\ open' = open \ {The("apple"), The("ours")}
        /\ ~twice'
        /\ priv' = [priv EXCEPT !.bounce_fd = IF transport.dtls /\ ~transport.socket THEN None ELSE @]
    BY <1>2 DEF SetupBounceTransportFails
  <2>2. /\ priv' \in PrivType
        /\ priv'.pending = priv.pending
        /\ priv'.bounce_socket = priv.bounce_socket
        /\ priv'.listen_fd = priv.listen_fd
        /\ priv'.listener = priv.listener
    <3>1. None \in Named({"ours", "udp"})
      BY DEF Named, PrivType
    <3> QED BY <2>1, <3>1 DEF PrivType
  <2>3. EndpointTypeOK'
    BY <2>1, <2>2
  <2> QED
    BY <2>1, <2>2, <2>3 DEF Fields, InTransit, PrivType, Named, OfAttempts, HeldIsOpen,
        TransitIsNotHeld, OpenIsHeld, Unattached, AdoptsLate, PendingIsClients,
        PendingIsOpen, ServerListens
<1> QED BY <1>1, <1>2 DEF SetupBounceTransportFails, Transport

\* The framework takes its end, or it is closed.
LEMMA CreateConnectionStep ==
  ASSUME EndpointInv, CreateConnection
  PROVE  EndpointInv'
<1> USE DEF EndpointInv, EndpointTypeOK
<1>1. /\ ~Public
      /\ At("create")
      /\ transport' = transport
      /\ setup' = [setup EXCEPT !.pc = "attach"] \/ setup' = [setup EXCEPT !.pc = "idle"]
      /\ open' = open \ {The("apple")}
      /\ The("apple") \in open
      /\ ~twice'
      /\ priv' = priv
  BY DEF CreateConnection, InTransit, HeldIsOpen
<1>2. priv' \in PrivType
  BY <1>1
<1>3. EndpointTypeOK'
  BY <1>1, <1>2
<1> QED
  BY <1>1, <1>2, <1>3 DEF Fields, InTransit, PrivType, Named, OfAttempts, HeldIsOpen,
      TransitIsNotHeld, OpenIsHeld, Unattached, AdoptsLate, PendingIsClients,
      PendingIsOpen, ServerListens

\* Our end is on its way beside the listener.
LEMMA DialLoopbackStep ==
  ASSUME EndpointInv, DialLoopback
  PROVE  EndpointInv'
<1> USE DEF EndpointInv, EndpointTypeOK
<1>1. CASE To("adopt")
  <2>1. /\ At("listening")
        /\ transport' = transport
        /\ setup' = [setup EXCEPT !.pc = "adopt"]
        /\ open' = open \cup {The("ours")}
        /\ ~twice'
        /\ priv' = priv
    BY <1>1 DEF DialLoopback
  <2>2. priv' \in PrivType
    BY <2>1
  <2>3. EndpointTypeOK'
    BY <2>1, <2>2
  <2> QED
    BY <2>1, <2>2, <2>3 DEF Fields, InTransit, PrivType, Named, OfAttempts, HeldIsOpen,
        TransitIsNotHeld, OpenIsHeld, Unattached, AdoptsLate, PendingIsClients,
        PendingIsOpen, ServerListens
<1>2. CASE To("release")
  <2>1. /\ At("listening")
        /\ transport' = transport
        /\ setup' = [setup EXCEPT !.pc = "release"]
        /\ open' = open
        /\ ~twice'
        /\ priv' = priv
    BY <1>2 DEF DialLoopback
  <2>2. priv' \in PrivType
    BY <2>1
  <2>3. EndpointTypeOK'
    BY <2>1, <2>2
  <2> QED
    BY <2>1, <2>2, <2>3 DEF Fields, InTransit, PrivType, Named, OfAttempts, HeldIsOpen,
        TransitIsNotHeld, OpenIsHeld, Unattached, AdoptsLate, PendingIsClients,
        PendingIsOpen, ServerListens
<1> QED BY <1>1, <1>2 DEF DialLoopback, Transport

\* Our end is handed to its socket, or closed.
LEMMA AdoptDialledStep ==
  ASSUME EndpointInv, AdoptDialled
  PROVE  EndpointInv'
<1> USE DEF EndpointInv, EndpointTypeOK
<1>1. CASE To("rendezvous")
  <2>1. /\ At("adopt")
        /\ transport' = transport
        /\ setup' = [setup EXCEPT !.pc = "rendezvous"]
        /\ open' = open
        /\ ~twice'
        /\ priv' = [priv EXCEPT !.bounce_fd = The("ours"), !.bounce_socket = The("ours"), !.pending = FALSE]
    BY <1>1 DEF AdoptDialled, AdoptBounceFd, InTransit, HeldIsOpen
  <2>2. /\ priv' \in PrivType
        /\ priv'.bounce_socket = The("ours")
        /\ priv'.listen_fd = priv.listen_fd
        /\ priv'.listener = priv.listener
        /\ priv'.pending = FALSE
    <3>1. The("ours") \in Named({"ours", "udp"})
      BY DEF Named, PrivType
    <3> QED BY <2>1, <3>1 DEF PrivType
  <2>3. EndpointTypeOK'
    BY <2>1, <2>2
  <2> QED
    BY <2>1, <2>2, <2>3 DEF Fields, InTransit, PrivType, Named, OfAttempts, HeldIsOpen,
        TransitIsNotHeld, OpenIsHeld, Unattached, AdoptsLate, PendingIsClients,
        PendingIsOpen, ServerListens
<1>2. CASE To("release")
  <2>1. /\ At("adopt")
        /\ transport' = transport
        /\ setup' = [setup EXCEPT !.pc = "release"]
        /\ open' = open \ {The("ours")}
        /\ The("ours") \in open
        /\ ~twice'
        /\ priv' = [priv EXCEPT !.listen_fd = IF @ \in {} THEN None ELSE @]
    BY <1>2 DEF AdoptDialled, AdoptBounceFd, InTransit, HeldIsOpen
  <2>2. /\ priv' \in PrivType
        /\ priv'.bounce_socket = priv.bounce_socket
        /\ priv'.listen_fd = priv.listen_fd
        /\ priv'.listener = priv.listener
        /\ priv'.pending = priv.pending
    <3>1. None \in Named({"listen"})
      BY DEF Named, PrivType
    <3> QED BY <2>1, <3>1 DEF PrivType
  <2>3. EndpointTypeOK'
    BY <2>1, <2>2
  <2>4. HeldIsOpen'
    <3>1. Fields' = Fields
      BY <2>2 DEF Fields
    <3>2. InTransit = {The("listener"), The("ours")} /\ InTransit' = {The("listener")}
      BY <2>1, <2>3 DEF InTransit
    <3>3. The("listener") # The("ours")
      OBVIOUS
    <3> QED BY <2>1, <3>1, <3>2, <3>3 DEF HeldIsOpen, TransitIsNotHeld
  <2> QED
    BY <2>1, <2>2, <2>3, <2>4 DEF Fields, InTransit, PrivType, Named, OfAttempts, HeldIsOpen,
        TransitIsNotHeld, OpenIsHeld, Unattached, AdoptsLate, PendingIsClients,
        PendingIsOpen, ServerListens
<1> QED BY <1>1, <1>2 DEF AdoptDialled, AdoptBounceFd, InTransit, HeldIsOpen, Transport

\* The listener is handed to its field.
LEMMA RendezvousStep ==
  ASSUME EndpointInv, Rendezvous
  PROVE  EndpointInv'
<1> USE DEF EndpointInv, EndpointTypeOK
<1>1. /\ At("rendezvous")
      /\ transport' = transport
      /\ setup' = [setup EXCEPT !.pc = "attach"]
      /\ open' = open
      /\ ~twice'
      /\ priv' = [priv EXCEPT !.listener = The("listener")]
  BY DEF Rendezvous
<1>2. /\ priv' \in PrivType
      /\ priv'.bounce_socket = priv.bounce_socket
      /\ priv'.listen_fd = priv.listen_fd
      /\ priv'.listener = The("listener")
      /\ priv'.pending = priv.pending
  <2>1. The("listener") \in Named({"listener"})
    BY DEF Named, PrivType
  <2> QED BY <1>1, <2>1 DEF PrivType
<1>3. EndpointTypeOK'
  BY <1>1, <1>2
<1> QED
  BY <1>1, <1>2, <1>3 DEF Fields, InTransit, PrivType, Named, OfAttempts, HeldIsOpen,
      TransitIsNotHeld, OpenIsHeld, Unattached, AdoptsLate, PendingIsClients,
      PendingIsOpen, ServerListens

\* The listening descriptor is closed and forgotten, our end adopted or closed.
LEMMA FinalizePublicTlsBridgeStep ==
  ASSUME EndpointInv, FinalizePublicTlsBridge
  PROVE  EndpointInv'
<1> USE DEF EndpointInv, EndpointTypeOK
<1>1. CASE To("bridge")
  <2>1. /\ priv.pending
        /\ ~transport.dtls
        /\ At("attach")
        /\ transport' = transport
        /\ setup' = [setup EXCEPT !.pc = "bridge"]
        /\ priv.listen_fd \in open
        /\ open' = (open \cup {The("ours")}) \ {priv.listen_fd}
        /\ ~twice'
        /\ priv' = [priv EXCEPT !.bounce_fd = The("ours"), !.bounce_socket = The("ours"), !.pending = FALSE, !.listen_fd = None]
    BY <1>1 DEF FinalizePublicTlsBridge, AdoptBounceFd, Unattached, PendingIsOpen, Fields, HeldIsOpen
  <2>2. /\ priv' \in PrivType
        /\ priv'.bounce_socket = The("ours")
        /\ priv'.listen_fd = None
        /\ priv'.listener = priv.listener
        /\ priv'.pending = FALSE
    <3>1. /\ The("ours") \in Named({"ours", "udp"})
          /\ None \in Named({"listen"})
      BY DEF Named, PrivType
    <3> QED BY <2>1, <3>1 DEF PrivType
  <2>3. EndpointTypeOK'
    BY <2>1, <2>2
  <2> QED
    BY <2>1, <2>2, <2>3 DEF Fields, InTransit, PrivType, Named, OfAttempts, HeldIsOpen,
        TransitIsNotHeld, OpenIsHeld, Unattached, AdoptsLate, PendingIsClients,
        PendingIsOpen, ServerListens
<1>2. CASE /\ priv' = [priv EXCEPT !.listen_fd = IF @ \in {priv.listen_fd} THEN None ELSE @]
          /\ Descriptors({The("ours")}, {priv.listen_fd} \cup {The("ours")}) /\ To("failed")
  <2>1. /\ priv.pending
        /\ ~transport.dtls
        /\ At("attach")
        /\ transport' = transport
        /\ setup' = [setup EXCEPT !.pc = "failed"]
        /\ priv.listen_fd \in open
        /\ open' = (open \cup {The("ours")}) \ {priv.listen_fd, The("ours")}
        /\ ~twice'
        /\ priv' = [priv EXCEPT !.listen_fd = None]
    BY <1>2 DEF FinalizePublicTlsBridge, AdoptBounceFd, Unattached, PendingIsOpen, Fields, HeldIsOpen
  <2>2. /\ priv' \in PrivType
        /\ priv'.bounce_socket = priv.bounce_socket
        /\ priv'.listen_fd = None
        /\ priv'.listener = priv.listener
        /\ priv'.pending = priv.pending
    <3>1. None \in Named({"listen"})
      BY DEF Named, PrivType
    <3> QED BY <2>1, <3>1 DEF PrivType
  <2>3. EndpointTypeOK'
    BY <2>1, <2>2
  <2> QED
    BY <2>1, <2>2, <2>3 DEF Fields, InTransit, PrivType, Named, OfAttempts, HeldIsOpen,
        TransitIsNotHeld, OpenIsHeld, Unattached, AdoptsLate, PendingIsClients,
        PendingIsOpen, ServerListens
<1>3. CASE To("failed") /\ Untouched /\ UNCHANGED priv
  <2>1. /\ priv.pending
        /\ ~transport.dtls
        /\ At("attach")
        /\ transport' = transport
        /\ setup' = [setup EXCEPT !.pc = "failed"]
        /\ open' = open
        /\ ~twice'
        /\ priv' = priv
    BY <1>3 DEF FinalizePublicTlsBridge, AdoptBounceFd, Unattached, PendingIsOpen, Fields, HeldIsOpen
  <2>2. priv' \in PrivType
    BY <2>1
  <2>3. EndpointTypeOK'
    BY <2>1, <2>2
  <2> QED
    BY <2>1, <2>2, <2>3 DEF Fields, InTransit, PrivType, Named, OfAttempts, HeldIsOpen,
        TransitIsNotHeld, OpenIsHeld, Unattached, AdoptsLate, PendingIsClients,
        PendingIsOpen, ServerListens
<1> QED BY <1>1, <1>2, <1>3 DEF FinalizePublicTlsBridge, AdoptBounceFd, Unattached, PendingIsOpen, Fields, HeldIsOpen, Transport

\* The socket of datagrams is adopted, or closed and never looked at again.
LEMMA FinalizePublicDtlsBridgeStep ==
  ASSUME EndpointInv, FinalizePublicDtlsBridge
  PROVE  EndpointInv'
<1> USE DEF EndpointInv, EndpointTypeOK
<1>1. CASE To("bridge")
  <2>1. /\ priv.pending
        /\ transport.dtls
        /\ At("attach")
        /\ transport' = transport
        /\ setup' = [setup EXCEPT !.pc = "bridge"]
        /\ priv.bounce_fd \in open
        /\ open' = open
        /\ ~twice'
        /\ priv' = [priv EXCEPT !.bounce_socket = priv.bounce_fd, !.pending = FALSE]
    BY <1>1 DEF FinalizePublicDtlsBridge, AdoptBounceFd, Unattached, PendingIsOpen
  <2>2. /\ priv' \in PrivType
        /\ priv'.bounce_socket = priv.bounce_fd
        /\ priv'.listen_fd = priv.listen_fd
        /\ priv'.listener = priv.listener
        /\ priv'.pending = FALSE
    <3>1. priv.bounce_fd \in Named({"ours", "udp"})
      BY DEF Named, PrivType
    <3> QED BY <2>1, <3>1 DEF PrivType
  <2>3. EndpointTypeOK'
    BY <2>1, <2>2
  <2> QED
    BY <2>1, <2>2, <2>3 DEF Fields, InTransit, PrivType, Named, OfAttempts, HeldIsOpen,
        TransitIsNotHeld, OpenIsHeld, Unattached, AdoptsLate, PendingIsClients,
        PendingIsOpen, ServerListens
<1>2. CASE /\ priv' = [priv EXCEPT !.listen_fd = IF @ \in {} THEN None ELSE @]
          /\ Descriptors({}, {} \cup {priv.bounce_fd}) /\ To("failed")
  <2>1. /\ priv.pending
        /\ transport.dtls
        /\ At("attach")
        /\ transport' = transport
        /\ setup' = [setup EXCEPT !.pc = "failed"]
        /\ priv.bounce_fd \in open
        /\ priv.bounce_fd[1] = "udp"
        /\ open' = open \ {priv.bounce_fd}
        /\ ~twice'
        /\ priv' = [priv EXCEPT !.listen_fd = IF @ \in {} THEN None ELSE @]
    BY <1>2 DEF FinalizePublicDtlsBridge, AdoptBounceFd, Unattached, PendingIsOpen
  <2>2. /\ priv' \in PrivType
        /\ priv'.bounce_socket = priv.bounce_socket
        /\ priv'.listen_fd = priv.listen_fd
        /\ priv'.listener = priv.listener
        /\ priv'.pending = priv.pending
    <3>1. None \in Named({"listen"})
      BY DEF Named, PrivType
    <3> QED BY <2>1, <3>1 DEF PrivType
  <2>3. EndpointTypeOK'
    BY <2>1, <2>2
  <2> QED
    BY <2>1, <2>2, <2>3 DEF Fields, InTransit, PrivType, Named, OfAttempts, HeldIsOpen,
        TransitIsNotHeld, OpenIsHeld, Unattached, AdoptsLate, PendingIsClients,
        PendingIsOpen, ServerListens
<1>3. CASE To("failed") /\ Untouched /\ UNCHANGED priv
  <2>1. /\ priv.pending
        /\ transport.dtls
        /\ At("attach")
        /\ transport' = transport
        /\ setup' = [setup EXCEPT !.pc = "failed"]
        /\ open' = open
        /\ ~twice'
        /\ priv' = priv
    BY <1>3 DEF FinalizePublicDtlsBridge, AdoptBounceFd, Unattached, PendingIsOpen
  <2>2. priv' \in PrivType
    BY <2>1
  <2>3. EndpointTypeOK'
    BY <2>1, <2>2
  <2> QED
    BY <2>1, <2>2, <2>3 DEF Fields, InTransit, PrivType, Named, OfAttempts, HeldIsOpen,
        TransitIsNotHeld, OpenIsHeld, Unattached, AdoptsLate, PendingIsClients,
        PendingIsOpen, ServerListens
<1> QED BY <1>1, <1>2, <1>3 DEF FinalizePublicDtlsBridge, AdoptBounceFd, Unattached, PendingIsOpen, Transport

\* What dispose() closes is open.
LEMMA DisposeStep ==
  ASSUME EndpointInv, Dispose
  PROVE  EndpointInv'
<1> USE DEF EndpointInv, EndpointTypeOK
<1>1. /\ transport' = transport
      /\ setup.pc \in {"idle", "failed", "direct", "bridged"}
      /\ setup' = [setup EXCEPT !.pc = "disposed"]
      /\ open' = open \ (Fields \ {None})
      /\ ~twice'
      /\ priv' = [priv EXCEPT !.bounce_socket = None, !.listen_fd = None, !.listener = None]
  BY DEF Dispose, Fields, HeldIsOpen
<1>2. /\ priv' \in PrivType
      /\ priv'.bounce_socket = None
      /\ priv'.listen_fd = None
      /\ priv'.listener = None
      /\ priv'.pending = priv.pending
  <2>1. /\ None \in Named({"ours", "udp"})
        /\ None \in Named({"listen"})
        /\ None \in Named({"listener"})
    BY DEF Named, PrivType
  <2> QED BY <1>1, <2>1 DEF PrivType
<1>3. EndpointTypeOK'
  BY <1>1, <1>2
<1> QED
  BY <1>1, <1>2, <1>3 DEF Fields, InTransit, PrivType, Named, OfAttempts, HeldIsOpen,
      TransitIsNotHeld, OpenIsHeld, Unattached, AdoptsLate, PendingIsClients,
      PendingIsOpen, ServerListens

\* Steps that open or close nothing, or a listener.
LEMMA OtherEndpointSteps ==
  ASSUME EndpointInv, \/ Start \/ CreatePublicConnection \/ CreateListener \/ NewConnection \/ StartBridge
  PROVE  EndpointInv'
<1>1. CASE Start
  BY <1>1 DEF Start, EndpointInv, EndpointTypeOK, Fields, InTransit, PrivType, Named,
    OfAttempts, HeldIsOpen, TransitIsNotHeld, OpenIsHeld, Unattached, AdoptsLate,
    PendingIsClients, PendingIsOpen, ServerListens, Transport
<1>2. CASE CreatePublicConnection
  BY <1>2 DEF CreatePublicConnection, EndpointInv, EndpointTypeOK, Fields, InTransit, PrivType, Named,
    OfAttempts, HeldIsOpen, TransitIsNotHeld, OpenIsHeld, Unattached, AdoptsLate,
    PendingIsClients, PendingIsOpen, ServerListens, Transport
<1>3. CASE CreateListener
  BY <1>3 DEF CreateListener, EndpointInv, EndpointTypeOK, Fields, InTransit, PrivType, Named,
    OfAttempts, HeldIsOpen, TransitIsNotHeld, OpenIsHeld, Unattached, AdoptsLate,
    PendingIsClients, PendingIsOpen, ServerListens, Transport
<1>4. CASE NewConnection
  BY <1>4 DEF NewConnection, EndpointInv, EndpointTypeOK, Fields, InTransit, PrivType, Named,
    OfAttempts, HeldIsOpen, TransitIsNotHeld, OpenIsHeld, Unattached, AdoptsLate,
    PendingIsClients, PendingIsOpen, ServerListens, Transport
<1>5. CASE StartBridge
  BY <1>5 DEF StartBridge, EndpointInv, EndpointTypeOK, Fields, InTransit, PrivType, Named,
    OfAttempts, HeldIsOpen, TransitIsNotHeld, OpenIsHeld, Unattached, AdoptsLate,
    PendingIsClients, PendingIsOpen, ServerListens, Transport
<1> QED BY <1>1, <1>2, <1>3, <1>4, <1>5

LEMMA EndpointInitial == Init => EndpointInv
  BY EndpointAssumption DEF Init, EndpointInit, EndpointInv, EndpointTypeOK, Fields, InTransit,
    PrivType, Named, OfAttempts, HeldIsOpen, TransitIsNotHeld, OpenIsHeld, Unattached, AdoptsLate,
    PendingIsClients, PendingIsOpen, ServerListens

LEMMA EndpointStays ==
  ASSUME EndpointInv, UNCHANGED endpointVars
  PROVE  EndpointInv'
  BY DEF endpointVars, EndpointInv, EndpointTypeOK, Fields, InTransit, OfAttempts, HeldIsOpen,
    TransitIsNotHeld, OpenIsHeld, Unattached, AdoptsLate, PendingIsClients, PendingIsOpen,
    ServerListens

LEMMA EndpointInvariant == Spec => []EndpointInv
<1>1. ASSUME EndpointInv, [Next]_vars
      PROVE  EndpointInv'
  <2>1. CASE EndpointStep
    BY <1>1, <2>1, SetupBounceTransportStep, SetupPublicEndpointStep, ReleaseListenerStep,
      SetupBounceTransportFailsStep, CreateConnectionStep, DialLoopbackStep, AdoptDialledStep,
      RendezvousStep, FinalizePublicTlsBridgeStep, FinalizePublicDtlsBridgeStep,
      OtherEndpointSteps DEF EndpointStep
  <2>2. CASE Disposes
    BY <1>1, <2>2, DisposeStep DEF Disposes
  <2>3. CASE UNCHANGED endpointVars
    BY <1>1, <2>3, EndpointStays
  <2> QED BY <1>1, <2>1, <2>2, <2>3 DEF Next, BridgeStarts, CloseStops, vars
<1> QED BY <1>1, EndpointInitial, PTL DEF Spec

(***************************************************************************)
(* No descriptor is closed twice on any path that fails half way, and at   *)
(* the end those that are open are where dispose() finds them, or          *)
(* forgotten: of an attempt before, or a datagram socket.                  *)
(***************************************************************************)
THEOREM DescriptorsKept == Spec => []DescriptorsAccounted
<1>1. EndpointInv => DescriptorsAccounted
  BY DEF EndpointInv, EndpointTypeOK, DescriptorsAccounted, Forgotten, OpenIsHeld, OfAttempts,
    Fields, InTransit
<1> QED BY <1>1, EndpointInvariant, PTL

-----------------------------------------------------------------------------
(***************************************************************************)
(* The pump.  Between the end it reads and the end it writes nothing is    *)
(* lost, doubled or reordered, and while it has not stopped it always has  *)
(* something under way that will run it again.                             *)
(***************************************************************************)
PumpType ==
  [run : {"none", "drive"}, buffer : Seq(Nat), stopped : BOOLEAN, stopping : BOOLEAN,
   suspended : BOOLEAN, freed : BOOLEAN]

PumpTypeOK ==
  /\ type \in PumpTypes
  /\ pump \in PumpType
  /\ source \in [came : Nat, taken : Nat, end : {"open", "eof", "error"}]
  /\ sink \in [got : Seq(Nat), room : BOOLEAN, state : {"open", "broken", "shut"}]

\* What came first went through first, the rest of what was taken is in the buffer.
Through == Len(sink.got)
InOrder ==
  /\ source.taken <= source.came
  /\ Through <= source.taken
  /\ sink.got = Numbers(1, Through)
  /\ ~pump.stopped => pump.buffer = Numbers(Through + 1, source.taken)

\* What a pump in a GMainContext has under way beside its owner's reference, ...
GlibWorks ==
  Glib /\ refs # {} /\ ~pump.stopped =>
    \/ pump.run = "drive" /\ refs = {"owner"}
    \/ /\ pump.run = "none" /\ pump.buffer = <<>>
       /\ refs \in {{"owner", "invoke"}, {"owner", "readable"}, {"owner", "read"}}
    \/ /\ pump.run = "none" /\ pump.buffer # <<>>
       /\ refs \in {{"owner", "writable"}, {"owner", "write"}}

\* ... and one on the dispatch queue.
BridgeWorks ==
  Bridge /\ refs # {} =>
    /\ "readable" \in refs \/ pump.stopping
    /\ pump.stopping => pump.stopped
    /\ ~pump.stopped =>
         IF pump.buffer = <<>> THEN ~pump.suspended ELSE pump.suspended /\ "writable" \in refs

Ends ==
  /\ io => pump.stopped
  /\ pump.stopped \/ Bridge \/ refs = {} => pump.run = "none"
  /\ refs = {} => pump.freed \/ (pump.buffer = <<>> /\ ~pump.stopping)

PumpInv == PumpTypeOK /\ InOrder /\ GlibWorks /\ BridgeWorks /\ Ends

\* The bytes of a range, those of two ranges that follow each other, and what a
\* write takes of them and leaves.
LEMMA NumbersAre ==
  ASSUME NEW a \in Nat \ {0}, NEW b \in Nat, a <= b + 1
  PROVE  /\ Numbers(a, b) \in Seq(Nat)
         /\ Len(Numbers(a, b)) = b - a + 1
         /\ \A i \in 1..(b - a + 1) : Numbers(a, b)[i] = a + i - 1
<1> DEFINE n == b - a + 1
           s == Numbers(a, b)
<1>1. n \in Nat /\ s = [i \in 1..n |-> a + i - 1]
  BY DEF Numbers
<1>2. s \in [1..n -> Nat]
  BY <1>1
<1>3. s \in Seq(Nat)
  BY <1>1, <1>2, SeqDef
<1>4. Len(s) = n
  <2>1. DOMAIN s = 1..n /\ DOMAIN s = 1..Len(s) /\ Len(s) \in Nat
    BY <1>1, <1>2, <1>3, LenProperties
  <2> QED BY <1>1, <2>1
<1> QED BY <1>1, <1>3, <1>4

\* ... with the length that the caller knows.
LEMMA NumbersFrom ==
  ASSUME NEW a \in Nat \ {0}, NEW b \in Nat, NEW n \in Nat, n = b - a + 1
  PROVE  /\ Numbers(a, b) \in Seq(Nat)
         /\ Len(Numbers(a, b)) = n
         /\ \A i \in 1..n : Numbers(a, b)[i] = a + i - 1
<1>1. a <= b + 1
  OBVIOUS
<1> QED BY <1>1, NumbersAre

LEMMA NumbersEmpty ==
  ASSUME NEW a \in Nat \ {0}, NEW b \in Nat, a <= b + 1
  PROVE  Numbers(a, b) = <<>> <=> a = b + 1
<1>1. Numbers(a, b) \in Seq(Nat) /\ Len(Numbers(a, b)) = b - a + 1
  BY NumbersAre
<1>2. Numbers(a, b) = <<>> <=> Len(Numbers(a, b)) = 0
  BY <1>1, EmptySeq
<1> QED BY <1>1, <1>2

LEMMA NumbersJoin ==
  ASSUME NEW a \in Nat \ {0}, NEW m \in Nat, NEW n \in Nat, a <= m + 1, m <= n
  PROVE  Numbers(a, m) \o Numbers(m + 1, n) = Numbers(a, n)
<1> DEFINE s == Numbers(a, m)
           t == Numbers(m + 1, n)
           u == Numbers(a, n)
           k == m - a + 1
<1>1. s \in Seq(Nat) /\ Len(s) = k /\ \A i \in 1..k : s[i] = a + i - 1
  BY NumbersAre
<1>2. t \in Seq(Nat) /\ Len(t) = n - m /\ \A i \in 1..(n - m) : t[i] = m + i
  <2>1. m + 1 \in Nat \ {0} /\ n \in Nat /\ n - m \in Nat /\ n - m = n - (m + 1) + 1
    OBVIOUS
  <2>2. /\ Numbers(m + 1, n) \in Seq(Nat) /\ Len(Numbers(m + 1, n)) = n - m
        /\ \A i \in 1..(n - m) : Numbers(m + 1, n)[i] = m + 1 + i - 1
    BY <2>1, NumbersFrom
  <2> QED BY <2>2
<1>3. u \in Seq(Nat) /\ Len(u) = n - a + 1 /\ \A i \in 1..(n - a + 1) : u[i] = a + i - 1
  <2>1. a <= n + 1
    OBVIOUS
  <2> QED BY <2>1, NumbersAre
<1>4. k \in Nat /\ k + (n - m) = n - a + 1 /\ m = k + a - 1
  OBVIOUS
<1> HIDE DEF s, t, u, k
<1>5. /\ s \o t \in Seq(Nat) /\ Len(s \o t) = Len(s) + Len(t)
      /\ \A i \in 1..(Len(s) + Len(t)) :
           (s \o t)[i] = IF i <= Len(s) THEN s[i] ELSE t[i - Len(s)]
  BY <1>1, <1>2, ConcatProperties
<1>6. Len(s \o t) = n - a + 1 /\ \A i \in 1..(n - a + 1) : (s \o t)[i] = u[i]
  <2>1. Len(s) = k /\ Len(s) + Len(t) = n - a + 1
    BY <1>1, <1>2, <1>4
  <2>2. /\ Len(s \o t) = n - a + 1
        /\ \A i \in 1..(n - a + 1) : (s \o t)[i] = IF i <= k THEN s[i] ELSE t[i - k]
    BY <1>5, <2>1
  <2>3. ASSUME NEW i \in 1..(n - a + 1) PROVE (s \o t)[i] = u[i]
    <3>1. CASE i <= k
      BY <1>1, <1>3, <1>4, <2>2, <3>1
    <3>2. CASE ~(i <= k)
      <4>1. i - k \in 1..(n - m) /\ m + (i - k) = a + i - 1
        BY <1>4, <3>2
      <4>2. (s \o t)[i] = t[i - k]
        BY <2>2, <3>2
      <4>3. t[i - k] = m + (i - k)
        BY <1>2, <4>1
      <4> QED BY <1>3, <4>1, <4>2, <4>3
    <3> QED BY <3>1, <3>2
  <2> QED BY <2>2, <2>3
<1>7. s \o t = u
  BY <1>3, <1>5, <1>6, SeqEqual
<1> QED BY <1>7 DEF s, t, u

LEMMA NumbersSplit ==
  ASSUME NEW a \in Nat \ {0}, NEW b \in Nat, NEW n \in Nat, a + n <= b + 1
  PROVE  /\ SubSeq(Numbers(a, b), 1, n) = Numbers(a, a + n - 1)
         /\ SubSeq(Numbers(a, b), n + 1, Len(Numbers(a, b))) = Numbers(a + n, b)
<1> DEFINE s == Numbers(a, b)
           t == Numbers(a, a + n - 1)
           u == Numbers(a + n, b)
<1>1. /\ s \in Seq(Nat) /\ Len(s) = b - a + 1
      /\ \A i \in 1..(b - a + 1) : s[i] = a + i - 1
  BY NumbersAre
<1>2. t \in Seq(Nat) /\ Len(t) = n /\ \A i \in 1..n : t[i] = a + i - 1
  <2>1. a \in Nat \ {0} /\ a + n - 1 \in Nat /\ n \in Nat /\ n = a + n - 1 - a + 1
    OBVIOUS
  <2>2. /\ Numbers(a, a + n - 1) \in Seq(Nat) /\ Len(Numbers(a, a + n - 1)) = n
        /\ \A i \in 1..(n) : Numbers(a, a + n - 1)[i] = a + i - 1
    BY <2>1, NumbersFrom
  <2> QED BY <2>2
<1>3. /\ u \in Seq(Nat) /\ Len(u) = b - a + 1 - n
      /\ \A i \in 1..(b - a + 1 - n) : u[i] = a + n + i - 1
  <2>1. a + n \in Nat \ {0} /\ b \in Nat /\ b - a + 1 - n \in Nat /\ b - a + 1 - n = b - (a + n) + 1
    OBVIOUS
  <2>2. /\ Numbers(a + n, b) \in Seq(Nat) /\ Len(Numbers(a + n, b)) = b - a + 1 - n
        /\ \A i \in 1..(b - a + 1 - n) : Numbers(a + n, b)[i] = a + n + i - 1
    BY <2>1, NumbersFrom
  <2> QED BY <2>2
<1> HIDE DEF s, t, u
<1>4. SubSeq(s, 1, n) = t
  <2>1. /\ SubSeq(s, 1, n) \in Seq(Nat) /\ Len(SubSeq(s, 1, n)) = n
        /\ \A i \in 1..n : SubSeq(s, 1, n)[i] = s[i]
    BY <1>1, SubSeqProperties
  <2> QED BY <1>1, <1>2, <2>1, SeqEqual
<1>5. SubSeq(s, n + 1, Len(s)) = u
  <2>1. /\ SubSeq(s, n + 1, Len(s)) \in Seq(Nat) /\ Len(SubSeq(s, n + 1, Len(s))) = b - a + 1 - n
        /\ \A i \in 1..(b - a + 1 - n) : SubSeq(s, n + 1, Len(s))[i] = s[n + i]
    BY <1>1, SubSeqProperties
  <2> QED BY <1>1, <1>3, <2>1, SeqEqual
<1> QED BY <1>4, <1>5 DEF s, t, u

\* A write of n bytes of those that are left.
LEMMA GivesInOrder ==
  ASSUME NEW g \in Nat, NEW w \in Nat, g <= w, NEW n \in 0..(w - g)
  PROVE  /\ g + n <= w
         /\ Numbers(1, g) \o SubSeq(Numbers(g + 1, w), 1, n) = Numbers(1, g + n)
         /\ Len(Numbers(1, g + n)) = g + n
         /\ Numbers(1, g + n) \in Seq(Nat)
         /\ SubSeq(Numbers(g + 1, w), n + 1, w - g) = Numbers(g + n + 1, w)
         /\ Numbers(g + n + 1, w) \in Seq(Nat)
<1> DEFINE buffer == Numbers(g + 1, w)
<1>1. Len(buffer) = w - g
  <2>1. g + 1 \in Nat \ {0} /\ w \in Nat /\ w - g \in Nat /\ w - g = w - (g + 1) + 1
    OBVIOUS
  <2> QED BY <2>1, NumbersFrom
<1>2. n \in Nat /\ g + n <= w
  BY <1>1
<1>3. /\ SubSeq(buffer, 1, n) = Numbers(g + 1, g + n)
      /\ SubSeq(buffer, n + 1, Len(buffer)) = Numbers(g + n + 1, w)
  <2>1. g + 1 \in Nat \ {0} /\ (g + 1) + n <= w + 1
    BY <1>2
  <2>2. /\ SubSeq(Numbers(g + 1, w), 1, n) = Numbers(g + 1, (g + 1) + n - 1)
        /\ SubSeq(Numbers(g + 1, w), n + 1, Len(Numbers(g + 1, w))) = Numbers((g + 1) + n, w)
    BY <1>2, <2>1, NumbersSplit
  <2>3. (g + 1) + n - 1 = g + n /\ (g + 1) + n = g + n + 1
    BY <1>2
  <2> QED BY <2>2, <2>3
<1>4. Numbers(1, g) \o SubSeq(buffer, 1, n) = Numbers(1, g + n)
  <2>1. g + n \in Nat /\ g <= g + n /\ 1 \in Nat \ {0} /\ 1 <= g + 1
    BY <1>2
  <2>2. Numbers(1, g) \o Numbers(g + 1, g + n) = Numbers(1, g + n)
    BY <2>1, NumbersJoin
  <2> QED BY <1>3, <2>2
<1>5. Numbers(1, g + n) \in Seq(Nat) /\ Len(Numbers(1, g + n)) = g + n
  <2> DEFINE m == g + n
  <2>1. m \in Nat
    BY <1>2
  <2> HIDE DEF m
  <2>2. 1 \in Nat \ {0} /\ m \in Nat /\ m = m - 1 + 1
    BY <2>1
  <2>3. Numbers(1, m) \in Seq(Nat) /\ Len(Numbers(1, m)) = m
    BY <2>2, NumbersFrom
  <2> QED BY <2>3 DEF m
<1>6. Numbers(g + n + 1, w) \in Seq(Nat)
  <2>1. g + n + 1 \in Nat \ {0} /\ g + n + 1 <= w + 1
    BY <1>2
  <2> QED BY <2>1, NumbersAre
<1> QED BY <1>1, <1>2, <1>3, <1>4, <1>5, <1>6

\* Steps that move no byte, and steps that stop the pump.
LEMMA NothingMoves ==
  ASSUME PumpTypeOK, InOrder, source'.taken = source.taken, source.came <= source'.came,
         source'.came \in Nat, sink'.got = sink.got,
         ~pump'.stopped => ~pump.stopped /\ pump'.buffer = pump.buffer
  PROVE  InOrder'
BY DEF PumpTypeOK, InOrder, Through

\* What a pump takes when its buffer is empty.
LEMMA Fills ==
  ASSUME PumpTypeOK, InOrder, ~pump.stopped, pump.buffer = <<>>,
         NEW n \in 1..(source.came - source.taken)
  PROVE  LET b == Numbers(source.taken + 1, source.taken + n)
         IN  /\ Through = source.taken /\ source.taken + n \in Nat
             /\ source.taken + n <= source.came
             /\ b \in Seq(Nat) /\ b # <<>> /\ Len(b) = n
<1>1. Through \in Nat /\ source.taken \in Nat /\ source.came \in Nat
  BY LenProperties DEF PumpTypeOK, Through
<1>2. Through = source.taken
  <2>1. Through + 1 \in Nat \ {0} /\ Through + 1 <= source.taken + 1
    BY <1>1 DEF InOrder
  <2>2. Numbers(Through + 1, source.taken) = <<>> <=> Through + 1 = source.taken + 1
    BY <1>1, <2>1, NumbersEmpty
  <2> QED BY <1>1, <2>2 DEF InOrder
<1>3. /\ source.taken + 1 \in Nat \ {0} /\ source.taken + n \in Nat /\ n \in Nat
      /\ n = (source.taken + n) - (source.taken + 1) + 1
      /\ source.taken + n <= source.came
  <2>1. \A t, c \in Nat : \A k \in 1..(c - t) :
          /\ t + 1 \in Nat \ {0} /\ t + k \in Nat /\ k \in Nat
          /\ k = (t + k) - (t + 1) + 1
          /\ t + k <= c
    OBVIOUS
  <2> QED BY <1>1, <2>1
<1>4. /\ Numbers(source.taken + 1, source.taken + n) \in Seq(Nat)
      /\ Len(Numbers(source.taken + 1, source.taken + n)) = n
  BY <1>3, NumbersFrom
<1> QED BY <1>2, <1>3, <1>4, EmptySeq

LEMMA FilledInOrder ==
  ASSUME PumpTypeOK, InOrder, ~pump.stopped, pump.buffer = <<>>,
         NEW n \in 1..(source.came - source.taken),
         pump'.buffer = Numbers(source.taken + 1, source.taken + n),
         source' = [source EXCEPT !.taken = @ + n], sink' = sink
  PROVE  InOrder' /\ pump'.buffer \in Seq(Nat) /\ pump'.buffer # <<>>
<1>1. /\ Through = source.taken /\ source.taken + n \in Nat
      /\ source.taken + n <= source.came
      /\ pump'.buffer \in Seq(Nat) /\ pump'.buffer # <<>>
  BY Fills
<1>2. source'.taken = source.taken + n /\ source'.came = source.came
  BY DEF PumpTypeOK
<1>3. source.taken <= source.taken + n
  BY DEF PumpTypeOK
<1>4. Through' = Through
  BY DEF Through
<1> QED BY <1>1, <1>2, <1>3, <1>4 DEF InOrder

LEMMA Given ==
  ASSUME PumpTypeOK, InOrder, NEW w \in Nat, Through <= w,
         NEW b, b = Numbers(Through + 1, w), NEW n \in 0..Len(b),
         sink'.got = sink.got \o SubSeq(b, 1, n)
  PROVE  /\ Through' = Through + n /\ Through' \in Nat /\ Through' <= w
         /\ sink'.got = Numbers(1, Through') /\ sink'.got \in Seq(Nat)
         /\ SubSeq(b, n + 1, Len(b)) = Numbers(Through' + 1, w)
         /\ SubSeq(b, n + 1, Len(b)) \in Seq(Nat)
<1>1. Through \in Nat
  BY LenProperties DEF PumpTypeOK, Through
<1> DEFINE g == Through
<1>2. g \in Nat /\ g <= w /\ sink.got = Numbers(1, g) /\ b = Numbers(g + 1, w)
  BY <1>1 DEF InOrder
<1> HIDE DEF g
<1>3. Len(b) = w - g
  <2>1. g + 1 \in Nat \ {0} /\ w \in Nat /\ w - g \in Nat /\ w - g = w - (g + 1) + 1
    BY <1>2
  <2>2. Len(Numbers(g + 1, w)) = w - g
    BY <2>1, NumbersFrom
  <2> QED BY <1>2, <2>2
<1>4. n \in 0..(w - g)
  BY <1>3
<1>5. /\ g + n <= w
      /\ Numbers(1, g) \o SubSeq(Numbers(g + 1, w), 1, n) = Numbers(1, g + n)
      /\ Len(Numbers(1, g + n)) = g + n
      /\ Numbers(1, g + n) \in Seq(Nat)
      /\ SubSeq(Numbers(g + 1, w), n + 1, w - g) = Numbers(g + n + 1, w)
      /\ Numbers(g + n + 1, w) \in Seq(Nat)
  BY <1>2, <1>4, GivesInOrder
<1>6. sink'.got = Numbers(1, g + n) /\ Len(sink'.got) = g + n
  BY <1>2, <1>5
<1>7. SubSeq(b, n + 1, Len(b)) = Numbers(g + n + 1, w)
  BY <1>2, <1>3, <1>5
<1>8. Through' = g + n /\ Through' \in Nat
  BY <1>2, <1>6 DEF Through
<1> QED BY <1>5, <1>6, <1>7, <1>8 DEF g

LEMMA GivenInOrder ==
  ASSUME PumpTypeOK, InOrder, ~pump.stopped, NEW n \in 1..Len(pump.buffer),
         sink'.got = sink.got \o SubSeq(pump.buffer, 1, n), source' = source,
         pump'.buffer = SubSeq(pump.buffer, n + 1, Len(pump.buffer))
  PROVE  InOrder' /\ pump'.buffer \in Seq(Nat) /\ sink'.got \in Seq(Nat)
<1>1. /\ source.taken \in Nat /\ Through <= source.taken /\ n \in 0..Len(pump.buffer)
      /\ pump.buffer = Numbers(Through + 1, source.taken)
  BY DEF PumpTypeOK, InOrder
<1>2. /\ Through' <= source.taken
      /\ sink'.got = Numbers(1, Through') /\ sink'.got \in Seq(Nat)
      /\ SubSeq(pump.buffer, n + 1, Len(pump.buffer)) = Numbers(Through' + 1, source.taken)
      /\ SubSeq(pump.buffer, n + 1, Len(pump.buffer)) \in Seq(Nat)
  BY <1>1, Given
<1> QED BY <1>2 DEF InOrder

-----------------------------------------------------------------------------
(***************************************************************************)
(* The steps of a pump in a GMainContext.                                  *)
(***************************************************************************)
LEMMA GlibStarts ==
  ASSUME PumpInv, NewGlibPump, refs = {}, ~pump.freed, UNCHANGED <<type, io, source, sink>>
  PROVE  PumpInv'
<1> USE DEF PumpInv
<1>1. Glib /\ pump' = pump /\ refs' = {"owner", "invoke"} /\ pump.buffer = <<>>
  BY DEF NewGlibPump, Ends
<1>2. PumpTypeOK' /\ InOrder' /\ Glib' /\ ~Bridge'
  BY <1>1 DEF PumpTypeOK, InOrder, Through, Glib, Bridge
<1>3. pump.run = "none"
  BY DEF Ends
<1>4. GlibWorks' /\ BridgeWorks' /\ Ends'
  BY <1>1, <1>2, <1>3 DEF GlibWorks, BridgeWorks, Ends
<1> QED BY <1>2, <1>4

\* A callback lets the pump run.
LEMMA CalledBack ==
  ASSUME PumpInv, Glib, NEW s \in {"invoke", "readable", "writable"}, s \in refs,
         pump.run = "none", UNCHANGED <<type, io, source, sink>>,
         Held([pump EXCEPT !.run = IF pump.stopped \/ io THEN "none" ELSE "drive"], refs \ {s})
  PROVE  PumpInv'
<1> USE DEF PumpInv
<1>1. /\ pump'.stopped = pump.stopped /\ pump'.buffer = pump.buffer
      /\ pump'.stopping = pump.stopping
      /\ pump' \in PumpType
      /\ refs' = refs \ {s}
      /\ pump'.freed <=> refs' = {}
      /\ pump.stopped => pump'.run = "none"
      /\ ~pump.stopped => pump'.run = "drive"
  BY DEF Held, PumpTypeOK, PumpType, Ends
<1>2. PumpTypeOK' /\ Glib' /\ ~Bridge'
  BY <1>1 DEF PumpTypeOK, Glib, Bridge
<1>3. InOrder'
  BY <1>1, NothingMoves DEF PumpTypeOK
<1>4. ~pump.stopped => refs' = {"owner"}
  BY <1>1 DEF GlibWorks
<1>5. GlibWorks'
  BY <1>1, <1>4 DEF GlibWorks
<1>6. BridgeWorks'
  BY <1>2 DEF BridgeWorks
<1>7. Ends'
  BY <1>1, <1>2, <1>4 DEF Ends
<1> QED BY <1>2, <1>3, <1>5, <1>6, <1>7

\* A running pump has nothing else under way.
LEMMA DriverAlone ==
  ASSUME PumpInv, Drives
  PROVE  ~pump.stopped /\ refs = {"owner"} /\ ~io /\ Glib /\ ~Bridge /\ pump.run = "drive"
BY DEF PumpInv, Drives, Ends, GlibWorks, Glib, Bridge

\* What a driven pump does: it goes on, or waits for an end, or stops.
LEMMA DriverGoesOn ==
  ASSUME PumpInv, Drives, type' = type, io' = io, PumpTypeOK', InOrder', refs # {},
         \/ pump'.run = "drive" /\ refs' = refs /\ ~pump'.stopped
         \/ /\ pump'.run = "none" /\ ~pump'.stopped
            /\ \/ pump'.buffer = <<>> /\ \E s \in {"readable", "read"} : refs' = refs \cup {s}
               \/ pump'.buffer # <<>> /\ \E s \in {"writable", "write"} : refs' = refs \cup {s}
         \/ pump'.run = "none" /\ pump'.stopped /\ refs' = refs
  PROVE  PumpInv'
<1>1. ~pump.stopped /\ refs = {"owner"} /\ ~io /\ Glib /\ ~Bridge
  BY DriverAlone
<1>2. Glib' /\ ~Bridge'
  BY <1>1 DEF Glib, Bridge
<1>3. GlibWorks'
  BY <1>1 DEF GlibWorks
<1>4. BridgeWorks' /\ Ends'
  BY <1>1, <1>2 DEF BridgeWorks, Ends
<1> QED BY <1>3, <1>4 DEF PumpInv

LEMMA TakesWhatCame ==
  ASSUME PumpTypeOK, Ready, NEW n \in Takes
  PROVE  n \in 1..(source.came - source.taken)
<1>1. source.came \in Nat /\ source.taken \in Nat /\ source.taken < source.came
  BY DEF PumpTypeOK, Ready
<1>2. n = 1 \/ n \in 1..(source.came - source.taken)
  BY DEF Takes
<1> QED BY <1>1, <1>2

LEMMA DriveReadsStep ==
  ASSUME PumpInv, DriveReads
  PROVE  PumpInv'
<1> USE DEF PumpInv
<1>1. ~pump.stopped /\ refs = {"owner"} /\ pump.run = "drive" /\ Drives
  BY DriverAlone DEF DriveReads
<1>2. type' = type /\ io' = io /\ sink' = sink /\ pump.buffer = <<>>
  BY DEF DriveReads
<1>3. CASE Ready /\ \E n \in Takes : TakeInto(n) /\ refs' = refs
  <2>1. PICK n \in Takes : TakeInto(n) /\ refs' = refs
    BY <1>3
  <2>2. n \in 1..(source.came - source.taken)
    BY <1>3, <2>1, TakesWhatCame
  <2>3. /\ source' = [source EXCEPT !.taken = @ + n]
        /\ pump'.buffer = Numbers(source.taken + 1, source.taken + n)
        /\ pump'.stopped = pump.stopped /\ pump'.run = pump.run
    BY <2>1 DEF TakeInto, PumpTypeOK, PumpType
  <2>4. InOrder' /\ pump'.buffer \in Seq(Nat)
    BY <1>1, <1>2, <2>2, <2>3, FilledInOrder
  <2>5. PumpTypeOK'
    <3>1. pump' \in PumpType
      BY <2>1, <2>3, <2>4 DEF TakeInto, PumpTypeOK, PumpType
    <3>2. source.taken + n \in Nat
      BY <2>2 DEF PumpTypeOK
    <3> QED BY <1>2, <2>3, <3>1, <3>2 DEF PumpTypeOK
  <2> QED BY <1>1, <1>2, <2>1, <2>3, <2>4, <2>5, DriverGoesOn
<1>4. CASE /\ \E s \in {"readable", "read"} : refs' = refs \cup {s}
           /\ pump' = Waits(pump) /\ source' = source
  <2>1. pump'.run = "none" /\ ~pump'.stopped /\ pump'.buffer = <<>> /\ pump' \in PumpType
    BY <1>1, <1>2, <1>4 DEF Waits, PumpTypeOK, PumpType
  <2>2. PumpTypeOK'
    BY <1>2, <1>4, <2>1 DEF PumpTypeOK
  <2>3. InOrder'
    BY <1>1, <1>2, <1>4, <2>1, NothingMoves DEF PumpTypeOK
  <2> QED BY <1>1, <1>2, <1>4, <2>1, <2>2, <2>3, DriverGoesOn
<1>5. CASE pump' = Stops(pump) /\ refs' = refs /\ source' = source
  <2>1. pump'.run = "none" /\ pump'.stopped /\ pump' \in PumpType
    BY <1>5 DEF Stops, PumpTypeOK, PumpType
  <2>2. PumpTypeOK'
    BY <1>2, <1>5, <2>1 DEF PumpTypeOK
  <2>3. InOrder'
    BY <1>2, <1>5, <2>1, NothingMoves DEF PumpTypeOK
  <2> QED BY <1>1, <1>2, <1>5, <2>1, <2>2, <2>3, DriverGoesOn
<1> QED BY <1>3, <1>4, <1>5 DEF DriveReads

LEMMA GivesWhatItHas ==
  ASSUME PumpTypeOK, pump.buffer # <<>>, NEW n \in Gives
  PROVE  n \in 1..Len(pump.buffer)
<1>1. Len(pump.buffer) \in Nat \ {0}
  BY EmptySeq DEF PumpTypeOK, PumpType
<1>2. n = Len(pump.buffer) \/ n \in 1..Len(pump.buffer)
  BY DEF Gives
<1> QED BY <1>1, <1>2

LEMMA DriveWritesStep ==
  ASSUME PumpInv, DriveWrites
  PROVE  PumpInv'
<1> USE DEF PumpInv
<1>1. ~pump.stopped /\ refs = {"owner"} /\ pump.run = "drive" /\ Drives
  BY DriverAlone DEF DriveWrites
<1>2. type' = type /\ io' = io /\ source' = source /\ pump.buffer # <<>>
  BY DEF DriveWrites
<1>3. CASE \E n \in Gives : GiveFrom(pump, n) /\ refs' = refs
  <2>1. PICK n \in Gives : GiveFrom(pump, n) /\ refs' = refs
    BY <1>3
  <2>2. n \in 1..Len(pump.buffer)
    BY <1>2, <2>1, GivesWhatItHas
  <2>3. /\ sink'.got = sink.got \o SubSeq(pump.buffer, 1, n)
        /\ pump'.buffer = SubSeq(pump.buffer, n + 1, Len(pump.buffer))
        /\ pump'.stopped = pump.stopped /\ pump'.run = pump.run
    BY <2>1 DEF GiveFrom, PumpTypeOK, PumpType
  <2>4. InOrder' /\ pump'.buffer \in Seq(Nat) /\ sink'.got \in Seq(Nat)
    BY <1>1, <1>2, <2>2, <2>3, GivenInOrder
  <2>5. PumpTypeOK'
    <3>1. pump' \in PumpType
      BY <2>1, <2>3, <2>4 DEF GiveFrom, PumpTypeOK, PumpType
    <3>2. sink' = [sink EXCEPT !.got = sink'.got]
      BY <2>1 DEF GiveFrom, PumpTypeOK
    <3> QED BY <1>2, <2>4, <3>1, <3>2 DEF PumpTypeOK
  <2> QED BY <1>1, <1>2, <2>1, <2>3, <2>4, <2>5, DriverGoesOn
<1>4. CASE /\ \E s \in {"writable", "write"} : refs' = refs \cup {s}
           /\ pump' = Waits(pump) /\ sink' = sink
  <2>1. /\ pump'.run = "none" /\ ~pump'.stopped /\ pump'.buffer = pump.buffer
        /\ pump' \in PumpType
    BY <1>1, <1>4 DEF Waits, PumpTypeOK, PumpType
  <2>2. PumpTypeOK'
    BY <1>2, <1>4, <2>1 DEF PumpTypeOK
  <2>3. InOrder'
    BY <1>1, <1>2, <1>4, <2>1, NothingMoves DEF PumpTypeOK
  <2> QED BY <1>1, <1>2, <1>4, <2>1, <2>2, <2>3, DriverGoesOn
<1>5. CASE pump' = Stops(pump) /\ refs' = refs /\ sink' = sink
  <2>1. pump'.run = "none" /\ pump'.stopped /\ pump' \in PumpType
    BY <1>5 DEF Stops, PumpTypeOK, PumpType
  <2>2. PumpTypeOK'
    BY <1>2, <1>5, <2>1 DEF PumpTypeOK
  <2>3. InOrder'
    BY <1>2, <1>5, <2>1, NothingMoves DEF PumpTypeOK
  <2> QED BY <1>1, <1>2, <1>5, <2>1, <2>2, <2>3, DriverGoesOn
<1> QED BY <1>3, <1>4, <1>5 DEF DriveWrites

\* A call that has ended lets the pump run, or stops it.
LEMMA CallEnds ==
  ASSUME PumpInv, PumpTypeOK', InOrder', NEW c \in {"read", "write"}, Call(c),
         type' = type, io' = io, refs' = refs \ {c}, pump'.freed <=> refs' = {},
         \/ pump'.run = "drive" /\ ~pump.stopped /\ pump'.stopped = pump.stopped
         \/ pump'.run = "none" /\ pump'.stopped
  PROVE  PumpInv'
<1>1. Glib /\ ~Bridge /\ Glib' /\ ~Bridge' /\ c \in refs
  BY DEF Call, Glib, Bridge
<1>2. ~pump.stopped => refs' = {"owner"} /\ ~io
  BY <1>1 DEF PumpInv, GlibWorks, Ends
<1>3. GlibWorks'
  BY <1>2 DEF GlibWorks
<1>4. BridgeWorks'
  BY <1>1 DEF BridgeWorks
<1>5. Ends'
  BY <1>1, <1>2 DEF PumpInv, Ends
<1> QED BY <1>3, <1>4, <1>5 DEF PumpInv

\* The fields of a pump that the last reference frees.
LEMMA HeldFields ==
  ASSUME NEW p \in PumpType, NEW r, Held(p, r)
  PROVE  /\ refs' = r /\ pump' \in PumpType /\ (pump'.freed <=> r = {})
         /\ pump'.run = p.run /\ pump'.buffer = p.buffer
         /\ pump'.stopped = p.stopped /\ pump'.stopping = p.stopping
<1>1. pump' = [p EXCEPT !.freed = (r = {})] /\ refs' = r
  BY DEF Held
<1>2. (r = {}) \in BOOLEAN
  OBVIOUS
<1> DEFINE b == (r = {})
<1>3. b <=> r = {}
  OBVIOUS
<1>4. b \in BOOLEAN /\ pump' = [p EXCEPT !.freed = b]
  BY <1>1, <1>2
<1> HIDE DEF b
<1>5. /\ pump' \in PumpType /\ pump'.freed = b
      /\ pump'.run = p.run /\ pump'.buffer = p.buffer
      /\ pump'.stopped = p.stopped /\ pump'.stopping = p.stopping
  BY <1>4 DEF PumpType
<1> QED BY <1>1, <1>3, <1>5

\* A call that stops the pump, or finds it stopped.
LEMMA CallStops ==
  ASSUME PumpInv, NEW c \in {"read", "write"}, Call(c), type' = type, io' = io,
         source' = source, sink' = sink, Held(Stops(pump), refs \ {c})
  PROVE  PumpInv'
<1>1. /\ Stops(pump) \in PumpType /\ Stops(pump).stopped /\ Stops(pump).run = "none"
  BY DEF Stops, PumpInv, PumpTypeOK, PumpType
<1>2. /\ refs' = refs \ {c} /\ pump' \in PumpType /\ (pump'.freed <=> refs \ {c} = {})
      /\ pump'.run = "none" /\ pump'.stopped
  BY <1>1, HeldFields
<1>3. PumpTypeOK'
  BY <1>2 DEF PumpInv, PumpTypeOK
<1>4. InOrder'
  BY <1>2, NothingMoves DEF PumpInv, PumpTypeOK
<1> QED BY <1>2, <1>3, <1>4, CallEnds

LEMMA OnReadDoneStep ==
  ASSUME PumpInv, OnReadDone
  PROVE  PumpInv'
<1>1. Call("read") /\ type' = type /\ io' = io /\ sink' = sink
  BY Zenon DEF OnReadDone
<1>2. ~pump.stopped => pump.buffer = <<>>
  BY <1>1 DEF Call, PumpInv, GlibWorks
<1>3. ASSUME Ready, ~pump.stopped, NEW n \in Takes,
             source' = [source EXCEPT !.taken = @ + n],
             Held([pump EXCEPT !.buffer = Numbers(source.taken + 1, source.taken + n),
                               !.run = "drive"], refs \ {"read"})
      PROVE  PumpInv'
  <2>1. n \in 1..(source.came - source.taken)
    BY <1>3, TakesWhatCame DEF PumpInv
  <2>2. Numbers(source.taken + 1, source.taken + n) \in Seq(Nat) /\ source.taken + n \in Nat
    BY <1>2, <1>3, <2>1, Fills DEF PumpInv
  <2> DEFINE p == [pump EXCEPT !.buffer = Numbers(source.taken + 1, source.taken + n),
                               !.run = "drive"]
  <2>3. /\ p \in PumpType /\ p.buffer = Numbers(source.taken + 1, source.taken + n)
        /\ p.run = "drive" /\ p.stopped = pump.stopped
    BY <2>2 DEF PumpInv, PumpTypeOK, PumpType
  <2>4. Held(p, refs \ {"read"})
    BY <1>3
  <2> HIDE DEF p
  <2>5. /\ refs' = refs \ {"read"} /\ pump' \in PumpType
        /\ (pump'.freed <=> refs \ {"read"} = {})
        /\ pump'.buffer = Numbers(source.taken + 1, source.taken + n)
        /\ pump'.run = "drive" /\ pump'.stopped = pump.stopped
    BY <2>3, <2>4, HeldFields
  <2>6. InOrder'
    BY <1>1, <1>2, <1>3, <2>1, <2>5, FilledInOrder DEF PumpInv
  <2>7. PumpTypeOK'
    BY <1>1, <1>3, <2>2, <2>5 DEF PumpInv, PumpTypeOK
  <2> QED BY <1>1, <1>3, <2>5, <2>6, <2>7, CallEnds
<1>4. ASSUME Held(Stops(pump), refs \ {"read"}), source' = source
      PROVE  PumpInv'
  BY <1>1, <1>4, CallStops
<1> QED BY <1>3, <1>4, Zenon DEF OnReadDone

LEMMA OnWriteDoneStep ==
  ASSUME PumpInv, OnWriteDone
  PROVE  PumpInv'
<1>1. Call("write") /\ type' = type /\ io' = io /\ source' = source
  BY Zenon DEF OnWriteDone
<1>2. ~pump.stopped => pump.buffer # <<>>
  BY <1>1 DEF Call, PumpInv, GlibWorks
<1>3. ASSUME ~pump.stopped, NEW n \in Gives,
             sink' = [sink EXCEPT !.got = @ \o SubSeq(pump.buffer, 1, n)],
             Held([pump EXCEPT !.buffer = SubSeq(@, n + 1, Len(@)), !.run = "drive"],
                  refs \ {"write"})
      PROVE  PumpInv'
  <2>1. n \in 1..Len(pump.buffer)
    BY <1>2, <1>3, GivesWhatItHas DEF PumpInv
  <2> DEFINE rest == SubSeq(pump.buffer, n + 1, Len(pump.buffer))
             p == [pump EXCEPT !.buffer = rest, !.run = "drive"]
  <2>2. rest \in Seq(Nat)
    BY <2>1, SubSeqProperties DEF PumpInv, PumpTypeOK, PumpType
  <2>3. Held(p, refs \ {"write"})
    BY <1>3
  <2> HIDE DEF rest
  <2>4. p \in PumpType /\ p.buffer = rest /\ p.run = "drive" /\ p.stopped = pump.stopped
    BY <2>2 DEF PumpInv, PumpTypeOK, PumpType
  <2> HIDE DEF p
  <2>5. /\ refs' = refs \ {"write"} /\ pump' \in PumpType
        /\ (pump'.freed <=> refs \ {"write"} = {})
        /\ pump'.buffer = rest /\ pump'.run = "drive" /\ pump'.stopped = pump.stopped
    BY <2>3, <2>4, HeldFields
  <2>6. sink'.got = sink.got \o SubSeq(pump.buffer, 1, n)
    BY <1>3 DEF PumpInv, PumpTypeOK
  <2>7. pump'.buffer = SubSeq(pump.buffer, n + 1, Len(pump.buffer))
    BY <2>5 DEF rest
  <2>8. InOrder' /\ sink'.got \in Seq(Nat)
    BY <1>1, <1>3, <2>1, <2>6, <2>7, GivenInOrder DEF PumpInv
  <2>9. PumpTypeOK'
    <3>1. sink' = [sink EXCEPT !.got = sink'.got]
      BY <1>3, <2>6
    <3> QED BY <1>1, <2>5, <2>8, <3>1 DEF PumpInv, PumpTypeOK
  <2> QED BY <1>1, <1>3, <2>5, <2>8, <2>9, CallEnds
<1>4. ASSUME Held(Stops(pump), refs \ {"write"}), sink' = sink
      PROVE  PumpInv'
  BY <1>1, <1>4, CallStops
<1> QED BY <1>3, <1>4, Zenon DEF OnWriteDone

LEMMA StopGlibPumpStep ==
  ASSUME PumpInv, StopGlibPump
  PROVE  PumpInv'
<1> USE DEF PumpInv
<1>1. /\ UNCHANGED <<type, source, sink>> /\ pump.run = "none" /\ Glib /\ ~Bridge
      /\ Glib' /\ ~Bridge'
  BY DEF StopGlibPump, Glib, Bridge
<1>2. /\ pump'.run = "none" /\ pump'.stopped /\ pump' \in PumpType
      /\ pump'.freed <=> refs' = {}
  BY <1>1 DEF StopGlibPump, Held, PumpTypeOK, PumpType
<1>3. PumpTypeOK'
  BY <1>1, <1>2 DEF PumpTypeOK
<1>4. InOrder'
  BY <1>1, <1>2, NothingMoves DEF PumpTypeOK
<1>5. GlibWorks' /\ BridgeWorks' /\ Ends'
  BY <1>1, <1>2 DEF GlibWorks, BridgeWorks, Ends
<1> QED BY <1>3, <1>4, <1>5

-----------------------------------------------------------------------------
(***************************************************************************)
(* The steps of a pump on the dispatch queue.                              *)
(***************************************************************************)
LEMMA BridgeIsNotGlib == ~(Bridge /\ Glib)
BY DEF Bridge, Glib

LEMMA BridgePumpStarts ==
  ASSUME PumpInv, NewBridgePump, refs = {}, ~pump.freed, UNCHANGED <<type, io, source, sink>>
  PROVE  PumpInv'
<1>1. Bridge /\ ~Glib /\ Bridge' /\ ~Glib' /\ refs' = {"readable"}
  BY BridgeIsNotGlib DEF NewBridgePump, Bridge, Glib
<1>2. pump.buffer = <<>> /\ ~pump.stopping /\ pump.run = "none"
  BY DEF PumpInv, Ends
<1>3. /\ pump' \in PumpType /\ pump'.buffer = pump.buffer /\ pump'.run = "none"
      /\ pump'.stopped = pump.stopped /\ ~pump'.stopping /\ ~pump'.suspended
  BY <1>2 DEF NewBridgePump, PumpInv, PumpTypeOK, PumpType
<1>4. PumpTypeOK'
  BY <1>3 DEF PumpInv, PumpTypeOK
<1>5. InOrder'
  BY <1>3, NothingMoves DEF PumpInv, PumpTypeOK
<1>6. GlibWorks' /\ BridgeWorks' /\ Ends'
  BY <1>1, <1>2, <1>3 DEF GlibWorks, BridgeWorks, Ends, PumpInv
<1> QED BY <1>4, <1>5, <1>6 DEF PumpInv

\* What draining leaves: p is the pump with what it has read, s what is left of the source.
LEMMA DrainStep ==
  ASSUME PumpInv, Bridge, type' = type, io' = io,
         NEW p \in PumpType, NEW s \in [came : Nat, taken : Nat, end : {"open", "eof", "error"}],
         ~p.stopped, p.stopping = pump.stopping, p.run = pump.run, p.suspended, "readable" \in refs,
         ~pump.stopped, s.taken <= s.came, Through <= s.taken,
         p.buffer = Numbers(Through + 1, s.taken), Drain(p, s)
  PROVE  PumpInv'
<1>1. ~Glib /\ Bridge' /\ ~Glib' /\ ~io /\ pump.run = "none" /\ ~pump.stopping
  BY BridgeIsNotGlib DEF Bridge, Glib, PumpInv, Ends, BridgeWorks
<1>2. source' = s /\ p.buffer # <<>>
  BY Zenon DEF Drain
<1>3. ASSUME pump'.run = "none", pump' \in PumpType, ~pump'.stopping, refs' # {}, PumpTypeOK', InOrder',
             "readable" \in refs',
             ~pump'.stopped =>
               IF pump'.buffer = <<>> THEN ~pump'.suspended
               ELSE pump'.suspended /\ "writable" \in refs'
      PROVE  PumpInv'
  <2>1. GlibWorks' /\ BridgeWorks' /\ Ends'
    BY <1>1, <1>3 DEF GlibWorks, BridgeWorks, Ends
  <2> QED BY <1>3, <2>1 DEF PumpInv
<1>4. ASSUME NEW n \in 1..Len(p.buffer),
             LET rest == SubSeq(p.buffer, n + 1, Len(p.buffer))
             IN  /\ sink' = [sink EXCEPT !.got = @ \o SubSeq(p.buffer, 1, n), !.room = (rest = <<>>)]
                 /\ IF rest = <<>>
                    THEN /\ pump' = [p EXCEPT !.buffer = rest, !.suspended = p.stopped /\ @]
                         /\ refs' = IF "writable" \in refs
                                    THEN (refs \ {"writable"}) \cup {"writeCancelled"} ELSE refs
                    ELSE pump' = [p EXCEPT !.buffer = rest] /\ refs' = refs \cup {"writable"}
      PROVE  PumpInv'
  <2> DEFINE rest == SubSeq(p.buffer, n + 1, Len(p.buffer))
             empty == (rest = <<>>)
  <2>1. sink' = [sink EXCEPT !.got = @ \o SubSeq(p.buffer, 1, n), !.room = empty]
    BY <1>4
  <2>2. IF rest = <<>>
        THEN /\ pump' = [p EXCEPT !.buffer = rest, !.suspended = p.stopped /\ @]
             /\ refs' = IF "writable" \in refs
                        THEN (refs \ {"writable"}) \cup {"writeCancelled"} ELSE refs
        ELSE pump' = [p EXCEPT !.buffer = rest] /\ refs' = refs \cup {"writable"}
    BY <1>4
  <2>3. empty \in BOOLEAN
    OBVIOUS
  <2> HIDE DEF empty
  <2>4. /\ sink'.got = sink.got \o SubSeq(p.buffer, 1, n) /\ sink'.room = empty
        /\ sink' = [sink EXCEPT !.got = sink'.got, !.room = sink'.room]
    BY <2>1 DEF PumpInv, PumpTypeOK
  <2>5. s.taken \in Nat /\ Through <= s.taken /\ n \in 0..Len(p.buffer)
    OBVIOUS
  <2>6. /\ Through' <= s.taken
        /\ sink'.got = Numbers(1, Through') /\ sink'.got \in Seq(Nat)
        /\ rest = Numbers(Through' + 1, s.taken) /\ rest \in Seq(Nat)
    <3>1. PumpTypeOK /\ InOrder /\ sink'.got = sink.got \o SubSeq(p.buffer, 1, n)
      BY <2>4 DEF PumpInv
    <3> HIDE DEF rest
    <3>2. /\ Through' <= s.taken
          /\ sink'.got = Numbers(1, Through') /\ sink'.got \in Seq(Nat)
          /\ SubSeq(p.buffer, n + 1, Len(p.buffer)) = Numbers(Through' + 1, s.taken)
          /\ SubSeq(p.buffer, n + 1, Len(p.buffer)) \in Seq(Nat)
      BY <2>5, <3>1, Given
    <3> QED BY <3>2 DEF rest
  <2> HIDE DEF rest
  <2>7. /\ pump' \in PumpType /\ pump'.buffer = rest /\ pump'.run = "none"
        /\ ~pump'.stopped /\ ~pump'.stopping
        /\ rest = <<>> => ~pump'.suspended
        /\ rest # <<>> => pump'.suspended
    <3>1. CASE rest = <<>>
      <4>1. pump' = [p EXCEPT !.buffer = rest, !.suspended = FALSE]
        BY <2>2, <3>1
      <4> QED BY <1>1, <2>6, <3>1, <4>1 DEF PumpType
    <3>2. CASE rest # <<>>
      BY <1>1, <2>2, <2>6, <3>2 DEF PumpType
    <3> QED BY <3>1, <3>2
  <2>8. "readable" \in refs' /\ (rest # <<>> => "writable" \in refs')
    BY <2>2
  <2>9. InOrder'
    BY <1>2, <2>6, <2>7 DEF InOrder
  <2>10. PumpTypeOK'
    <3>1. sink' \in [got : Seq(Nat), room : BOOLEAN, state : {"open", "broken", "shut"}]
      BY <2>3, <2>4, <2>6 DEF PumpInv, PumpTypeOK
    <3> QED BY <1>2, <2>7, <3>1 DEF PumpInv, PumpTypeOK
  <2> QED BY <1>3, <2>7, <2>8, <2>9, <2>10
<1>5. ASSUME pump' = p, refs' = refs \cup {"writable"}, sink' = sink
      PROVE  PumpInv'
  <2>1. PumpTypeOK'
    BY <1>2, <1>5 DEF PumpInv, PumpTypeOK
  <2>2. InOrder'
    BY <1>2, <1>5 DEF PumpInv, InOrder, Through
  <2> QED BY <1>1, <1>2, <1>3, <1>5, <2>1, <2>2
<1>6. ASSUME pump' = [p EXCEPT !.stopped = TRUE], refs' = refs, sink' = sink
      PROVE  PumpInv'
  <2>1. /\ pump' \in PumpType /\ pump'.stopped /\ ~pump'.stopping /\ pump'.run = "none"
    BY <1>1, <1>6 DEF PumpType
  <2>2. PumpTypeOK'
    BY <1>2, <1>6, <2>1 DEF PumpInv, PumpTypeOK
  <2>3. InOrder'
    BY <1>2, <1>6, <2>1 DEF PumpInv, InOrder, Through
  <2> QED BY <1>1, <1>2, <1>3, <1>6, <2>1, <2>2, <2>3
<1> QED
  <2>1. CASE \E n \in 1..Len(p.buffer) :
          LET rest == SubSeq(p.buffer, n + 1, Len(p.buffer))
          IN  /\ sink' = [sink EXCEPT !.got = @ \o SubSeq(p.buffer, 1, n), !.room = (rest = <<>>)]
              /\ IF rest = <<>>
                 THEN /\ pump' = [p EXCEPT !.buffer = rest, !.suspended = p.stopped /\ @]
                      /\ refs' = IF "writable" \in refs
                                 THEN (refs \ {"writable"}) \cup {"writeCancelled"} ELSE refs
                 ELSE pump' = [p EXCEPT !.buffer = rest] /\ refs' = refs \cup {"writable"}
    BY <1>4, <2>1, Zenon
  <2>2. CASE pump' = p /\ refs' = refs \cup {"writable"} /\ sink' = sink
    BY <1>5, <2>2
  <2>3. CASE pump' = [p EXCEPT !.stopped = TRUE] /\ refs' = refs /\ sink' = sink
    BY <1>6, <2>3
  <2> QED BY <2>1, <2>2, <2>3, Zenon DEF Drain

LEMMA HandleReadableStep ==
  ASSUME PumpInv, HandleReadable
  PROVE  PumpInv'
<1>1. /\ Bridge /\ ~Glib /\ Bridge' /\ ~Glib' /\ type' = type /\ io' = io
      /\ "readable" \in refs /\ ~pump.suspended
  <2>1. Event("readable") /\ ~pump.suspended /\ type' = type /\ io' = io
    BY Zenon DEF HandleReadable
  <2> QED BY <2>1, BridgeIsNotGlib DEF Event, Bridge, Glib
<1>2. pump.run = "none" /\ (~pump.stopped => pump.buffer = <<>> /\ ~pump.stopping)
  BY <1>1 DEF PumpInv, BridgeWorks, Ends
<1>3. CASE pump.stopped
  <2>1. UNCHANGED pumpVars
    BY <1>1, <1>3 DEF HandleReadable, pumpVars
  <2> QED BY <2>1 DEF pumpVars, PumpInv, PumpTypeOK, InOrder, Through, GlibWorks, BridgeWorks,
    Ends, Glib, Bridge
<1>4. ASSUME ~pump.stopped, Ready, NEW n \in Takes,
             Drain([pump EXCEPT !.buffer = Numbers(source.taken + 1, source.taken + n),
                                !.suspended = TRUE],
                   [source EXCEPT !.taken = @ + n])
      PROVE  PumpInv'
  <2>1. n \in 1..(source.came - source.taken)
    BY <1>4, TakesWhatCame DEF PumpInv
  <2>2. /\ Through = source.taken /\ source.taken + n \in Nat /\ source.taken + n <= source.came
        /\ Numbers(source.taken + 1, source.taken + n) \in Seq(Nat)
    BY <1>2, <1>4, <2>1, Fills DEF PumpInv
  <2> DEFINE p == [pump EXCEPT !.buffer = Numbers(source.taken + 1, source.taken + n),
                               !.suspended = TRUE]
             s == [source EXCEPT !.taken = @ + n]
  <2>3. /\ p \in PumpType /\ p.buffer = Numbers(source.taken + 1, source.taken + n)
        /\ p.suspended /\ p.stopped = pump.stopped /\ p.stopping = pump.stopping
        /\ p.run = pump.run
    BY <2>2 DEF PumpInv, PumpTypeOK, PumpType
  <2>4. /\ s \in [came : Nat, taken : Nat, end : {"open", "eof", "error"}]
        /\ s.taken = source.taken + n /\ s.came = source.came
    BY <2>2 DEF PumpInv, PumpTypeOK
  <2>5. Drain(p, s)
    BY <1>4
  <2> HIDE DEF p, s
  <2>6. Through <= s.taken /\ s.taken <= s.came /\ p.buffer = Numbers(Through + 1, s.taken)
    BY <2>1, <2>2, <2>3, <2>4 DEF PumpInv, PumpTypeOK
  <2> QED BY <1>1, <1>4, <2>3, <2>4, <2>5, <2>6, DrainStep
<1>5. ASSUME ~pump.stopped,
             pump' = [pump EXCEPT !.stopped = TRUE, !.suspended = TRUE],
             sink' = IF source.end = "eof" THEN [sink EXCEPT !.state = "shut"] ELSE sink,
             refs' = refs, source' = source
      PROVE  PumpInv'
  <2>1. /\ pump' \in PumpType /\ pump'.stopped /\ ~pump'.stopping /\ pump'.run = "none"
    BY <1>2, <1>5 DEF PumpInv, PumpTypeOK, PumpType
  <2>2. /\ sink'.got = sink.got
        /\ sink' \in [got : Seq(Nat), room : BOOLEAN, state : {"open", "broken", "shut"}]
    BY <1>5 DEF PumpInv, PumpTypeOK
  <2>3. PumpTypeOK'
    BY <1>1, <1>5, <2>1, <2>2 DEF PumpInv, PumpTypeOK
  <2>4. InOrder'
    BY <1>5, <2>1, <2>2, NothingMoves DEF PumpInv, PumpTypeOK
  <2>5. GlibWorks' /\ BridgeWorks' /\ Ends'
    BY <1>1, <1>5, <2>1 DEF GlibWorks, BridgeWorks, Ends
  <2> QED BY <2>3, <2>4, <2>5 DEF PumpInv
<1> QED BY <1>3, <1>4, <1>5, Zenon DEF HandleReadable

LEMMA HandleWritableStep ==
  ASSUME PumpInv, HandleWritable
  PROVE  PumpInv'
<1>1. /\ Bridge /\ ~Glib /\ type' = type /\ io' = io /\ refs # {}
  BY BridgeIsNotGlib DEF HandleWritable, Event
<1>2. CASE pump.stopped
  <2>1. UNCHANGED pumpVars
    BY <1>1, <1>2 DEF HandleWritable, pumpVars
  <2> QED BY <2>1 DEF pumpVars, PumpInv, PumpTypeOK, InOrder, Through, GlibWorks, BridgeWorks,
    Ends, Glib, Bridge
<1>3. CASE ~pump.stopped
  <2>1. Drain(pump, source)
    BY <1>3, Zenon DEF HandleWritable
  <2>2. pump.buffer # <<>>
    BY <2>1, Zenon DEF Drain
  <2>3. pump.suspended /\ "readable" \in refs
    BY <1>1, <1>3, <2>2 DEF PumpInv, BridgeWorks
  <2>4. /\ pump \in PumpType /\ source \in [came : Nat, taken : Nat, end : {"open", "eof", "error"}]
        /\ source.taken <= source.came /\ Through <= source.taken
        /\ pump.buffer = Numbers(Through + 1, source.taken)
    BY <1>3 DEF PumpInv, PumpTypeOK, InOrder
  <2> QED BY <1>1, <1>3, <2>1, <2>3, <2>4, DrainStep
<1> QED BY <1>2, <1>3

LEMMA HandleSourceCancelledStep ==
  ASSUME PumpInv, NEW s \in {"readCancelled", "writeCancelled"}, HandleSourceCancelled(s)
  PROVE  PumpInv'
<1>1. /\ Bridge /\ s \in refs /\ refs' = refs \ {s}
      /\ pump' = [pump EXCEPT !.freed = pump.stopping /\ refs' = {}]
      /\ UNCHANGED <<type, io, source, sink>>
  BY Zenon DEF HandleSourceCancelled, Event
<1>2. ~Glib /\ Bridge' /\ ~Glib'
  BY <1>1, BridgeIsNotGlib DEF Bridge, Glib
<1> DEFINE last == pump.stopping /\ refs' = {}
<1>3. last \in BOOLEAN /\ (last <=> pump.stopping /\ refs' = {})
  BY DEF PumpInv, PumpTypeOK, PumpType
<1>4. pump' = [pump EXCEPT !.freed = last]
  BY <1>1
<1> HIDE DEF last
<1>5. /\ pump' \in PumpType /\ pump'.run = pump.run /\ pump'.buffer = pump.buffer
      /\ pump'.stopped = pump.stopped /\ pump'.stopping = pump.stopping
      /\ pump'.suspended = pump.suspended /\ pump'.freed = last
  BY <1>3, <1>4 DEF PumpInv, PumpTypeOK, PumpType
<1>6. PumpTypeOK'
  BY <1>1, <1>5 DEF PumpInv, PumpTypeOK
<1>7. InOrder'
  BY <1>1, <1>5, NothingMoves DEF PumpInv, PumpTypeOK
<1>8. GlibWorks' /\ BridgeWorks' /\ Ends'
  BY <1>1, <1>2, <1>3, <1>5 DEF PumpInv, GlibWorks, BridgeWorks, Ends
<1> QED BY <1>6, <1>7, <1>8 DEF PumpInv

\* What the last quarter of a second pumps, of the buffer b and of what came after it.
LEMMA DrainTakes ==
  ASSUME NEW g \in Nat, NEW t \in Nat, NEW c \in Nat, g <= t, t <= c,
         NEW b, b = Numbers(g + 1, t), NEW d \in 0..(Len(b) + c - t)
  PROVE  LET all == b \o Numbers(t + 1, c)
             fromSource == IF d > Len(b) THEN d - Len(b) ELSE 0
         IN  /\ all = Numbers(g + 1, c) /\ d \in 0..Len(all)
             /\ fromSource \in Nat /\ g + d <= t + fromSource /\ t + fromSource <= c
<1>1. g + 1 \in Nat \ {0} /\ g + 1 <= t + 1 /\ g + 1 <= c + 1
  OBVIOUS
<1>2. b \o Numbers(t + 1, c) = Numbers(g + 1, c)
  BY <1>1, NumbersJoin
<1>3. Len(Numbers(g + 1, t)) = t - (g + 1) + 1 /\ Len(Numbers(g + 1, c)) = c - (g + 1) + 1
  BY <1>1, NumbersAre
<1>4. Len(b) = t - g /\ Len(Numbers(g + 1, c)) = c - g
  BY <1>3
<1>5. d \in Nat /\ d <= c - g
  BY <1>4
<1> DEFINE fromSource == IF d > Len(b) THEN d - Len(b) ELSE 0
<1>6. fromSource \in Nat /\ g + d <= t + fromSource /\ t + fromSource <= c
  <2>1. CASE d > t - g
    <3>1. fromSource = d - (t - g)
      BY <1>4, <2>1
    <3> HIDE DEF fromSource
    <3> QED BY <1>5, <2>1, <3>1
  <2>2. CASE ~(d > t - g)
    <3>1. fromSource = 0
      BY <1>4, <2>2
    <3> HIDE DEF fromSource
    <3> QED BY <1>5, <2>2, <3>1
  <2> QED BY <2>1, <2>2
<1>7. d \in 0..Len(Numbers(g + 1, c))
  BY <1>4, <1>5
<1> QED BY <1>2, <1>6, <1>7

\* What there is to pump, and how much of what is pumped comes from the source.
Waiting == pump.buffer \o Numbers(source.taken + 1, source.came)
FromSource(n) == IF n > Len(pump.buffer) THEN n - Len(pump.buffer) ELSE 0

LEMMA DrainedInOrder ==
  ASSUME PumpTypeOK, InOrder,
         NEW drained \in 0..(Len(pump.buffer) + source.came - source.taken),
         drained > 0 => ~pump.stopped,
         sink'.got = sink.got \o SubSeq(Waiting, 1, drained),
         source'.taken = source.taken + FromSource(drained), source'.came = source.came, pump'.stopped
  PROVE  InOrder' /\ source'.taken \in Nat /\ sink'.got \in Seq(Nat)
<1> DEFINE g == Through
           t == source.taken
           c == source.came
<1>1. /\ t \in Nat /\ c \in Nat /\ pump.buffer \in Seq(Nat) /\ Len(pump.buffer) \in Nat
      /\ g \in Nat /\ g <= t /\ t <= c /\ sink.got \in Seq(Nat) /\ drained \in Nat
  BY LenProperties DEF PumpTypeOK, PumpType, Through, InOrder
<1>2. CASE drained = 0
  <2>1. FromSource(drained) = 0
    BY <1>1, <1>2 DEF FromSource
  <2>2. Waiting \in Seq(Nat)
    <3>1. \A n \in Nat : n + 1 \in Nat \ {0}
      OBVIOUS
    <3>2. \A m, n \in Nat : m <= n => m + 1 <= n + 1
      OBVIOUS
    <3>3. t + 1 \in Nat \ {0} /\ t + 1 <= c + 1
      BY <1>1, <3>1, <3>2
    <3>4. Numbers(t + 1, c) \in Seq(Nat)
      BY <1>1, <3>3, NumbersAre
    <3> QED BY <1>1, <3>4, ConcatProperties DEF Waiting
  <2>3. SubSeq(Waiting, 1, drained) = <<>>
    <3>1. SubSeq(Waiting, 1, 0) \in Seq(Nat) /\ Len(SubSeq(Waiting, 1, 0)) = 0
      BY <2>2, SubSeqProperties
    <3> QED BY <1>2, <3>1, EmptySeq
  <2>4. sink'.got = sink.got
    BY <1>1, <2>3, ConcatEmptySeq
  <2>5. source'.taken = source.taken
    BY <1>1, <2>1
  <2> QED BY <1>1, <2>4, <2>5 DEF InOrder, Through
<1>3. CASE drained # 0
  <2>1. ~pump.stopped
    BY <1>1, <1>3
  <2>2. pump.buffer = Numbers(g + 1, t)
    BY <2>1 DEF InOrder
  <2>3. /\ Waiting = Numbers(g + 1, c) /\ drained \in 0..Len(Waiting)
        /\ FromSource(drained) \in Nat
        /\ g + drained <= t + FromSource(drained) /\ t + FromSource(drained) <= c
    <3>1. drained \in 0..(Len(pump.buffer) + c - t)
      OBVIOUS
    <3> HIDE DEF g, t, c
    <3>2. LET a == pump.buffer \o Numbers(t + 1, c)
              f == IF drained > Len(pump.buffer) THEN drained - Len(pump.buffer) ELSE 0
          IN  /\ a = Numbers(g + 1, c) /\ drained \in 0..Len(a)
              /\ f \in Nat /\ g + drained <= t + f /\ t + f <= c
      BY <1>1, <2>2, <3>1, DrainTakes
    <3>3. Waiting = pump.buffer \o Numbers(t + 1, c)
      BY DEF t, c, Waiting
    <3> QED BY <3>2, <3>3 DEF FromSource
  <2>4. g <= c
    BY <1>1
  <2>5. /\ Through' = Through + drained /\ Through' \in Nat
        /\ sink'.got = Numbers(1, Through') /\ sink'.got \in Seq(Nat)
    BY <1>1, <2>3, <2>4, Given
  <2>6. source'.taken \in Nat
    <3>1. \A x, y \in Nat : x + y \in Nat
      OBVIOUS
    <3>2. source.taken + FromSource(drained) \in Nat
      BY <1>1, <2>3, <3>1
    <3> QED BY <3>2
  <2> QED BY <1>1, <2>3, <2>5, <2>6 DEF InOrder
<1> QED BY <1>2, <1>3

LEMMA StopBridgePumpStep ==
  ASSUME PumpInv, StopBridgePump
  PROVE  PumpInv'
<1>1. /\ Bridge /\ type' = type
      /\ pump' = [pump EXCEPT !.stopping = TRUE, !.stopped = TRUE, !.suspended = FALSE,
                              !.buffer = <<>>]
      /\ "readCancelled" \in refs'
  BY DEF StopBridgePump
<1>2. ~Glib /\ Bridge' /\ ~Glib' /\ pump.run = "none"
  BY <1>1, BridgeIsNotGlib DEF Bridge, Glib, PumpInv, Ends
<1>3. /\ pump' \in PumpType /\ pump'.stopped /\ pump'.stopping /\ pump'.run = "none"
  <2>1. pump \in PumpType /\ <<>> \in Seq(Nat)
    BY EmptySeq DEF PumpInv, PumpTypeOK
  <2> QED BY <1>1, <1>2, <2>1 DEF PumpType
<1>4. PICK drained \in 0..(Len(pump.buffer) + source.came - source.taken) :
       LET all == pump.buffer \o Numbers(source.taken + 1, source.came)
           fromSource == IF drained > Len(pump.buffer) THEN drained - Len(pump.buffer) ELSE 0
       IN  /\ drained > 0 => ~pump.stopped /\ sink.state = "open" /\ sink.room
           /\ sink' = [sink EXCEPT !.got = @ \o SubSeq(all, 1, drained)]
           /\ source' = [source EXCEPT !.taken = @ + fromSource]
  BY Zenon DEF StopBridgePump
<1>5. /\ drained > 0 => ~pump.stopped
      /\ sink' = [sink EXCEPT !.got = sink.got \o SubSeq(Waiting, 1, drained)]
      /\ source' = [source EXCEPT !.taken = source.taken + FromSource(drained)]
  BY <1>4 DEF Waiting, FromSource
<1>6. /\ sink'.got = sink.got \o SubSeq(Waiting, 1, drained)
      /\ source'.taken = source.taken + FromSource(drained) /\ source'.came = source.came
      /\ sink' = [sink EXCEPT !.got = sink'.got]
      /\ source' = [source EXCEPT !.taken = source'.taken]
  BY <1>5 DEF PumpInv, PumpTypeOK
<1>7. InOrder' /\ source'.taken \in Nat /\ sink'.got \in Seq(Nat)
  BY <1>3, <1>5, <1>6, DrainedInOrder DEF PumpInv
<1>8. PumpTypeOK'
  BY <1>1, <1>3, <1>6, <1>7 DEF PumpInv, PumpTypeOK
<1>9. GlibWorks' /\ BridgeWorks' /\ Ends'
  BY <1>1, <1>2, <1>3 DEF GlibWorks, BridgeWorks, Ends
<1> QED BY <1>7, <1>8, <1>9 DEF PumpInv

-----------------------------------------------------------------------------
(***************************************************************************)
(* The two ends, and the invariant.                                        *)
(***************************************************************************)
LEMMA PeersStep ==
  ASSUME PumpInv, Peers
  PROVE  PumpInv'
<1>1. UNCHANGED <<type, pump, refs, io>>
  BY DEF Peers, Arrive, SourceEnds, SinkChanges
<1>2. /\ source' \in [came : Nat, taken : Nat, end : {"open", "eof", "error"}]
      /\ source'.taken = source.taken /\ source.came <= source'.came
      /\ sink' \in [got : Seq(Nat), room : BOOLEAN, state : {"open", "broken", "shut"}]
      /\ sink'.got = sink.got
  <2>1. CASE Arrive
    BY <2>1 DEF Arrive, PumpInv, PumpTypeOK
  <2>2. CASE SourceEnds
    BY <2>2 DEF SourceEnds, PumpInv, PumpTypeOK
  <2>3. CASE SinkChanges
    <3>1. source' = source /\ \/ sink' = [sink EXCEPT !.room = ~@]
                              \/ sink' = [sink EXCEPT !.state = "broken"]
      BY <2>3 DEF SinkChanges
    <3> DEFINE room == ~sink.room
    <3>2. room \in BOOLEAN
      OBVIOUS
    <3>3. sink' = [sink EXCEPT !.room = room] \/ sink' = [sink EXCEPT !.state = "broken"]
      BY <3>1
    <3> HIDE DEF room
    <3> QED BY <3>1, <3>2, <3>3 DEF PumpInv, PumpTypeOK
  <2> QED BY <2>1, <2>2, <2>3 DEF Peers
<1>3. PumpTypeOK'
  BY <1>1, <1>2 DEF PumpInv, PumpTypeOK
<1>4. InOrder'
  BY <1>1, <1>2, NothingMoves DEF PumpInv
<1>5. GlibWorks' /\ BridgeWorks' /\ Ends'
  BY <1>1 DEF PumpInv, GlibWorks, BridgeWorks, Ends, Glib, Bridge
<1> QED BY <1>3, <1>4, <1>5 DEF PumpInv

LEMMA PumpStarts ==
  ASSUME PumpInv, BridgeStarts
  PROVE  PumpInv'
BY GlibStarts, BridgePumpStarts DEF BridgeStarts, NewPump

LEMMA PumpSteps ==
  ASSUME PumpInv, PumpStep
  PROVE  PumpInv'
<1>1. CASE DriveScheduled
  BY <1>1, CalledBack DEF DriveScheduled, Call
<1>2. ASSUME NEW s \in {"readable", "writable"}, OnReady(s)
      PROVE  PumpInv'
  BY <1>2, CalledBack DEF OnReady, Call
<1> QED BY <1>1, <1>2, DriveReadsStep, DriveWritesStep, OnReadDoneStep, OnWriteDoneStep,
      HandleReadableStep, HandleWritableStep, HandleSourceCancelledStep DEF PumpStep

LEMMA PumpStays ==
  ASSUME PumpInv, UNCHANGED pumpVars
  PROVE  PumpInv'
BY DEF pumpVars, PumpInv, PumpTypeOK, InOrder, Through, GlibWorks, BridgeWorks, Ends, Glib, Bridge

LEMMA PumpInitial == Init => PumpInv
<1> SUFFICES ASSUME PumpInit PROVE PumpInv
  BY DEF Init
<1>1. /\ type \in PumpTypes /\ refs = {} /\ io = FALSE
      /\ pump = [run |-> "none", buffer |-> <<>>, stopped |-> FALSE, stopping |-> FALSE,
                 suspended |-> TRUE, freed |-> FALSE]
      /\ source = [came |-> 0, taken |-> 0, end |-> "open"]
      /\ sink = [got |-> <<>>, room |-> TRUE, state |-> "open"]
  BY PumpsAssumption DEF PumpInit
<1>2. <<>> \in Seq(Nat) /\ Len(<<>>) = 0
  BY EmptySeq
<1>3. PumpTypeOK
  BY <1>1, <1>2 DEF PumpTypeOK, PumpType
<1>4. Numbers(1, 0) = <<>>
  BY NumbersEmpty
<1>5. InOrder
  BY <1>1, <1>2, <1>4 DEF InOrder, Through
<1>6. GlibWorks /\ BridgeWorks /\ Ends
  BY <1>1 DEF GlibWorks, BridgeWorks, Ends
<1> QED BY <1>3, <1>5, <1>6 DEF PumpInv

LEMMA PumpInvariant == Spec => []PumpInv
<1>1. ASSUME PumpInv, [Next]_vars
      PROVE  PumpInv'
  <2>1. CASE StopPump
    BY <1>1, <2>1, StopGlibPumpStep, StopBridgePumpStep DEF StopPump
  <2>2. CASE UNCHANGED pumpVars
    BY <1>1, <2>2, PumpStays
  <2>3. CASE BridgeStarts \/ PumpStep \/ Peers
    BY <1>1, <2>3, PumpStarts, PumpSteps, PeersStep
  <2> QED BY <1>1, <2>1, <2>2, <2>3 DEF Next, CloseStops, Disposes, vars
<1> QED BY <1>1, PumpInitial, PTL DEF Spec

(***************************************************************************)
(* Whatever the sizes of the pieces in which a pump reads and writes, what *)
(* its sink was given is a prefix of what came, and what it took and has   *)
(* not passed on is in its buffer while it has not stopped.                *)
(***************************************************************************)
THEOREM BytesKeepOrder == Spec => []PumpedInOrder
<1>1. ASSUME PumpInv PROVE PumpedInOrder
  <2>1. /\ source.taken \in Nat /\ Through \in Nat /\ Through <= source.taken
        /\ sink.got = Numbers(1, Through)
    BY <1>1, LenProperties DEF PumpInv, PumpTypeOK, InOrder, Through
  <2>2. /\ 1 \in Nat \ {0} /\ 1 <= Through + 1 /\ 1 + Through <= source.taken + 1
        /\ 1 + Through - 1 = Through /\ 1 <= source.taken + 1
    BY <2>1
  <2>3. IsPrefix(sink.got, Numbers(1, source.taken))
    <3>1. SubSeq(Numbers(1, source.taken), 1, Through) = Numbers(1, 1 + Through - 1)
      BY <2>1, <2>2, NumbersSplit
    <3>2. Len(Numbers(1, source.taken)) = source.taken - 1 + 1
      BY <2>1, <2>2, NumbersAre
    <3> QED BY <2>1, <2>2, <3>1, <3>2 DEF IsPrefix, Through
  <2>4. ASSUME ~pump.stopped PROVE sink.got \o pump.buffer = Numbers(1, source.taken)
    <3>1. pump.buffer = Numbers(Through + 1, source.taken)
      BY <1>1, <2>4 DEF PumpInv, InOrder
    <3>2. Numbers(1, Through) \o Numbers(Through + 1, source.taken) = Numbers(1, source.taken)
      BY <2>1, <2>2, NumbersJoin
    <3> QED BY <2>1, <3>1, <3>2
  <2> QED BY <2>3, <2>4 DEF PumpedInOrder
<1>2. PumpInv => PumpedInOrder
  BY <1>1
<1> QED BY <1>2, PumpInvariant, PTL

(***************************************************************************)
(* A pump that has not stopped never rests with nothing that would run it  *)
(* again: neither an asynchronous call nor a source is lost between the    *)
(* step that needs it and the callback, and a suspended source is resumed. *)
(***************************************************************************)
THEOREM PumpsKeepGoing == Spec => []PumpsAreServed
<1>1. PumpInv => PumpsAreServed
  <2> SUFFICES ASSUME PumpInv, refs # {}, ~pump.stopped, pump.run = "none", "invoke" \notin refs
               PROVE  IF pump.buffer = <<>>
                      THEN {"readable", "read"} \cap refs # {} /\ ~(Bridge /\ pump.suspended)
                      ELSE {"writable", "write"} \cap refs # {}
    BY DEF PumpsAreServed
  <2>1. CASE Bridge
    BY <2>1 DEF PumpInv, BridgeWorks
  <2>2. CASE Glib
    BY <2>2, BridgeIsNotGlib DEF PumpInv, GlibWorks
  <2>3. Bridge \/ Glib
    BY DEF PumpInv, PumpTypeOK, PumpTypes, Bridge, Glib
  <2> QED BY <2>1, <2>2, <2>3
<1> QED BY <1>1, PumpInvariant, PTL
=============================================================================
