----------------------------- MODULE TlsClaims -----------------------------
(***************************************************************************)
(* What the arbiter of gtlsconnection-base.c promises, whatever threads    *)
(* and contexts it is made of: each direction of a connection belongs to   *)
(* one operation at a time, only its holder closes it, a handshake ends in *)
(* the hands of whoever holds both, and every handshake that has ended is  *)
(* finished once, which may break the connection for good.                 *)
(*                                                                         *)
(* The promise about the directions is void once a handshake that never    *)
(* held them is yielded: handshake() and do_implicit_handshake() yield     *)
(* whether or not claim_op() succeeded.                                    *)
(***************************************************************************)
EXTENDS FiniteSets

CONSTANT Actors

VARIABLES
  readers, writers,  \* who holds the direction: one actor at most
  void,              \* the promise about them is void
  over,              \* the actors whose handshake has ended and is to be finished
  established,       \* a handshake has succeeded
  broken,            \* handshake_error: a handshake has failed
  read_closed, write_closed

heldVars == <<readers, writers, void>>
sessionVars == <<over, established, broken>>
closedVars == <<read_closed, write_closed>>
vars == <<heldVars, sessionVars, closedVars>>

Init ==
  /\ readers = {} /\ writers = {} /\ void = FALSE
  /\ over = {} /\ established = FALSE /\ broken = FALSE
  /\ read_closed = FALSE /\ write_closed = FALSE

\* An operation takes the directions it needs, all of them at once.
Take(a, read, write) ==
  /\ ~void
  /\ read => readers = {}
  /\ write => writers = {}
  /\ readers' = IF read THEN {a} ELSE readers
  /\ writers' = IF write THEN {a} ELSE writers
  /\ UNCHANGED <<void, sessionVars, closedVars>>

Give(a) ==
  /\ a \in readers \cup writers
  /\ readers' = readers \ {a} /\ writers' = writers \ {a}
  /\ UNCHANGED <<void, sessionVars, closedVars>>

Holds(a, held) == void \/ held = {a}

\* A direction is closed by its holder, writing only on an established session.
Close(a) ==
  /\ read_closed' \in {read_closed, Holds(a, readers)}
  /\ write_closed' \in {write_closed, Holds(a, writers) /\ established}
  /\ read_closed => read_closed'
  /\ write_closed => write_closed'
  /\ UNCHANGED <<heldVars, sessionVars>>

EndHandshake(a) ==
  /\ Holds(a, readers) /\ Holds(a, writers) /\ a \notin over
  /\ over' = over \cup {a}
  /\ established' \in {established, TRUE}
  /\ UNCHANGED <<heldVars, broken, closedVars>>

\* Only a handshake that has run may break the connection, and none mends it.
Finish(a) ==
  /\ a \in over
  /\ over' = over \ {a}
  /\ broken' \in {broken, TRUE}
  /\ UNCHANGED <<heldVars, established, closedVars>>

\* A handshake that holds nothing is yielded.
GiveNothing ==
  /\ ~void /\ void' = TRUE
  /\ readers' = {} /\ writers' = {}
  /\ UNCHANGED <<sessionVars, closedVars>>

Next ==
  \/ \E a \in Actors :
       \/ \E read, write \in BOOLEAN : Take(a, read, write)
       \/ Give(a) \/ Close(a) \/ EndHandshake(a) \/ Finish(a)
  \/ GiveNothing

Spec == Init /\ [][Next]_vars
=============================================================================
