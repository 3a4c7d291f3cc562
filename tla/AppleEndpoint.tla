--------------------------- MODULE AppleEndpoint ---------------------------
(***************************************************************************)
(* How a connection over Network.framework gets a transport.  With the     *)
(* private interfaces of the system the framework is given a descriptor: a *)
(* duplicate of the base socket, or one end of a loopback pair whose other *)
(* end is bridged to the base stream.  With its public interfaces it       *)
(* connects to, or listens on, a loopback port, and our end of that is     *)
(* bridged to the base socket.                                             *)
(*                                                                         *)
(* A descriptor or listener is <<name, attempt>>.  Those that the framework*)
(* has taken over are the framework's to close.                            *)
(***************************************************************************)
EXTENDS Integers, FiniteSets

CONSTANTS
  Transports,   \* the connections: [public, dtls, server, socket]
  MaxAttempts   \* bound: how often a handshake is started again

Transport == [public : BOOLEAN, dtls : BOOLEAN, server : BOOLEAN, socket : BOOLEAN]

ASSUME EndpointAssumption == Transports \subseteq Transport /\ MaxAttempts \in Nat \ {0}

None == <<"none", 0>>

VARIABLES
  transport,    \* which connection it is
  setup,        \* start_handshake: where it is, and the attempt
  open,         \* the descriptors and listeners that are open and ours
  priv,         \* bounce_fd, bounce_socket, public_listen_fd, public_listener, pending
  captured,     \* whether the listener was given a connection, not yet attached
  twice         \* whether a descriptor was closed that was not open

endpointVars == <<transport, setup, open, priv, captured, twice>>

EndpointInit ==
  /\ transport \in Transports
  /\ setup = [pc |-> "idle", attempt |-> 0]
  /\ open = {}
  /\ priv = [bounce_fd |-> None, bounce_socket |-> None, listen_fd |-> None,
             listener |-> None, pending |-> FALSE]
  /\ captured = FALSE
  /\ twice = FALSE

The(name) == <<name, setup.attempt>>

\* What a step opens and what it closes.
Descriptors(opened, closed) ==
  /\ open' = (open \cup opened) \ closed
  /\ twice' = (twice \/ ~(closed \subseteq open \cup opened))
Untouched == UNCHANGED <<open, twice>>

At(pc) == setup.pc = pc
To(pc) == setup' = [setup EXCEPT !.pc = pc]

Public == transport.public
Client == Public /\ ~transport.server
Listens == Public /\ transport.server

\* The handshake's thread starts a handshake when there is no connection yet; one
\* that could not be started may be tried again.
Start ==
  /\ At("idle") /\ setup.attempt < MaxAttempts
  /\ setup' = [pc |-> "transport", attempt |-> setup.attempt + 1]
  /\ Untouched /\ UNCHANGED <<transport, priv, captured>>

\* start_handshake returns FALSE.
Fails == To("idle")

-----------------------------------------------------------------------------
(***************************************************************************)
(* Private: setup_bounce_transport, then a connection over the descriptor. *)
(***************************************************************************)
SetupBounceTransport ==
  /\ At("transport") /\ ~Public
  /\ \/ transport.socket /\ Descriptors({The("apple")}, {}) /\ To("create") /\ UNCHANGED priv
     \/ /\ ~transport.socket
        /\ priv' = [priv EXCEPT !.bounce_fd = The("ours"), !.bounce_socket = The("ours")]
        /\ Descriptors({The("apple"), The("ours")}, {}) /\ To("create")
  /\ UNCHANGED <<transport, captured>>

\* No duplicate, no pair, or no socket of our end: nothing stays behind.
SetupBounceTransportFails ==
  /\ At("transport") /\ ~Public
  /\ \/ Untouched
     \/ ~transport.socket /\ Descriptors({The("apple"), The("ours")}, {The("apple"), The("ours")})
  /\ priv' = [priv EXCEPT !.bounce_fd = IF transport.dtls /\ ~transport.socket THEN None ELSE @]
  /\ Fails
  /\ UNCHANGED <<transport, captured>>

CreateConnection ==
  /\ At("create") /\ ~Public
  /\ Descriptors({}, {The("apple")})
  /\ To("attach") \/ Fails
  /\ UNCHANGED <<transport, priv, captured>>

-----------------------------------------------------------------------------
(***************************************************************************)
(* Public client: setup_public_endpoint, and a connection to its port.     *)
(***************************************************************************)
SetupPublicEndpoint ==
  /\ At("transport") /\ Client
  /\ \/ /\ transport.dtls
        /\ Descriptors({The("udp")}, {})
        /\ priv' = [priv EXCEPT !.bounce_fd = The("udp"), !.pending = TRUE]
        /\ To("create")
     \/ /\ ~transport.dtls
        /\ Descriptors({The("listen")}, {})
        /\ priv' = [priv EXCEPT !.listen_fd = The("listen"), !.pending = TRUE]
        /\ To("create")
     \/ Fails /\ Untouched /\ UNCHANGED priv
  /\ UNCHANGED <<transport, captured>>

CreatePublicConnection ==
  /\ At("create") /\ Client
  /\ To("attach") \/ Fails
  /\ Untouched /\ UNCHANGED <<transport, priv, captured>>

-----------------------------------------------------------------------------
(***************************************************************************)
(* Public server: listen_public_endpoint.                                  *)
(***************************************************************************)
CreateListener ==
  /\ At("transport") /\ Listens
  /\ \/ Descriptors({The("listener")}, {}) /\ To("listening")
     \/ Fails /\ Untouched
  /\ UNCHANGED <<transport, priv, captured>>

\* release_listener.
ReleaseListener ==
  /\ At("release")
  /\ Descriptors({}, {The("listener")}) /\ Fails
  /\ captured' = FALSE
  /\ UNCHANGED <<transport, priv>>

\* The listener is ready and we have dialled its port, or not.
DialLoopback ==
  /\ At("listening")
  /\ \/ Descriptors({The("ours")}, {}) /\ To("adopt")
     \/ To("release") /\ Untouched
  /\ UNCHANGED <<transport, priv, captured>>

\* Its handler is given a connection: over TCP when we connect, over UDP when a
\* datagram comes from our end, which nobody sends yet.
NewConnection ==
  /\ setup.pc \in {"adopt", "rendezvous", "release"} /\ ~captured
  /\ The("ours") \in open /\ ~transport.dtls
  /\ captured' = TRUE
  /\ Untouched /\ UNCHANGED <<transport, setup, priv>>

\* As it would be if the listening descriptor were not forgotten.
AdoptBounceFdKeeps(fd, opened, closed, next, otherwise) ==
  \/ /\ priv' = [priv EXCEPT !.bounce_fd = fd, !.bounce_socket = fd, !.pending = FALSE]
     /\ Descriptors(opened, closed) /\ To(next)
  \/ UNCHANGED priv /\ Descriptors(opened, closed \cup {fd}) /\ To(otherwise)

\* adopt_bounce_fd takes a descriptor over, or closes it.
AdoptBounceFd(fd, opened, closed, next, otherwise) ==
  \/ /\ priv' = [priv EXCEPT !.bounce_fd = fd, !.bounce_socket = fd, !.pending = FALSE,
                             !.listen_fd = IF @ \in closed THEN None ELSE @]
     /\ Descriptors(opened, closed) /\ To(next)
  \/ /\ priv' = [priv EXCEPT !.listen_fd = IF @ \in closed THEN None ELSE @]
     /\ Descriptors(opened, closed \cup {fd}) /\ To(otherwise)

AdoptDialled ==
  /\ At("adopt") /\ AdoptBounceFd(The("ours"), {}, {}, "rendezvous", "release")
  /\ UNCHANGED <<transport, captured>>

\* new_conn_sem is awaited without a limit.
Rendezvous ==
  /\ At("rendezvous") /\ captured
  /\ priv' = [priv EXCEPT !.listener = The("listener")]
  /\ captured' = FALSE
  /\ To("attach") /\ Untouched
  /\ UNCHANGED transport

-----------------------------------------------------------------------------
(***************************************************************************)
(* attach: the bridge, when the framework's connection has been started.   *)
(***************************************************************************)
FinalizePublicTlsBridge ==
  /\ At("attach") /\ priv.pending /\ ~transport.dtls
  /\ \/ AdoptBounceFd(The("ours"), {The("ours")}, {priv.listen_fd}, "bridge", "failed")
     \/ To("failed") /\ Untouched /\ UNCHANGED priv
  /\ UNCHANGED <<transport, captured>>

FinalizePublicDtlsBridge ==
  /\ At("attach") /\ priv.pending /\ transport.dtls
  /\ \/ AdoptBounceFd(priv.bounce_fd, {}, {}, "bridge", "failed")
     \/ To("failed") /\ Untouched /\ UNCHANGED priv
  /\ UNCHANGED <<transport, captured>>

\* A bridge is needed when our end of a loopback exists; a public one needs the
\* descriptor of the base socket too.
StartBridge ==
  /\ At("bridge") \/ (At("attach") /\ ~priv.pending)
  /\ LET ours == IF Public THEN priv.bounce_fd ELSE priv.bounce_socket
     IN  To(IF ours = None THEN "direct" ELSE IF Public /\ ~transport.socket THEN "failed" ELSE "bridged")
  /\ Untouched /\ UNCHANGED <<transport, priv, captured>>

\* dispose(): our end is closed with its socket, the others one by one.
Dispose ==
  /\ setup.pc \in {"idle", "failed", "direct", "bridged"}
  /\ Descriptors({}, {priv.bounce_socket, priv.listen_fd, priv.listener} \ {None})
  /\ priv' = [priv EXCEPT !.bounce_socket = None, !.listen_fd = None, !.listener = None]
  /\ To("disposed")
  /\ UNCHANGED <<transport, captured>>

EndpointStep ==
  \/ Start \/ SetupBounceTransport \/ SetupBounceTransportFails \/ CreateConnection
  \/ SetupPublicEndpoint \/ CreatePublicConnection \/ CreateListener \/ ReleaseListener
  \/ DialLoopback \/ NewConnection \/ AdoptDialled \/ Rendezvous
  \/ FinalizePublicTlsBridge \/ FinalizePublicDtlsBridge \/ StartBridge

-----------------------------------------------------------------------------
\* What dispose() does not find again: what a failed attempt left in a field that
\* the next attempt fills anew, and a descriptor of datagrams that no socket took.
Forgotten == {r \in open : r[2] < setup.attempt \/ r[1] = "udp"}

\* No descriptor is closed that is not open, so that none of another's is, on any
\* of the paths that fail half way; and what is open is where dispose() will find
\* it, except for what Forgotten says (adopt_bounce_fd, gtlsconnection-apple.c:2543).
DescriptorsAccounted ==
  /\ ~twice
  /\ setup.pc \in {"failed", "direct", "bridged", "disposed"} =>
       open \ Forgotten \subseteq {priv.bounce_socket, priv.listen_fd, priv.listener}
=============================================================================
