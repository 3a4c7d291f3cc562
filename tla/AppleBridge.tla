---------------------------- MODULE AppleBridge ----------------------------
(***************************************************************************)
(* The endpoint of a connection over Network.framework and a pump that     *)
(* bridges it to the base stream, from start_handshake() to dispose().     *)
(***************************************************************************)
EXTENDS AppleEndpoint, ApplePumps

vars == <<endpointVars, pumpVars>>

KindOf(t) == IF t.public THEN "bridge" ELSE IF t.dtls THEN "datagram" ELSE "stream"

Init == EndpointInit /\ PumpInit /\ type.kind = KindOf(transport)

\* attach ends by making the pump and starting it.
BridgeStarts ==
  /\ At("bridged") /\ refs = {} /\ ~pump.freed
  /\ NewPump
  /\ UNCHANGED endpointVars

\* close_fn stops the pumps of a connection that was made; dispose() does otherwise.
CloseStops ==
  /\ At("bridged") /\ StopPump
  /\ UNCHANGED endpointVars

Disposes ==
  /\ Dispose
  /\ IF At("bridged") /\ ~io THEN StopPump ELSE UNCHANGED pumpVars

Next ==
  \/ EndpointStep /\ UNCHANGED pumpVars
  \/ BridgeStarts \/ CloseStops \/ Disposes
  \/ refs # {} /\ (PumpStep \/ Peers) /\ UNCHANGED endpointVars

Spec == Init /\ [][Next]_vars

\* The context, or the queue, of the pump runs what is due on it.
FairSpec == Spec /\ WF_vars(PumpStep /\ UNCHANGED endpointVars)
=============================================================================
