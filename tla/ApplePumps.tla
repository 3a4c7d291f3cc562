----------------------------- MODULE ApplePumps -----------------------------
(***************************************************************************)
(* The pumps that bridge our end of the loopback and the base stream, each *)
(* in one direction: StreamPump and DatagramPump in a GMainContext, which  *)
(* wait with GSources and asynchronous calls, and BridgePump on the        *)
(* dispatch queue, which suspends and resumes its dispatch sources.  A     *)
(* pump is closed from the thread that runs it.                            *)
(*                                                                         *)
(* Bytes are numbered in the order in which they came.  A datagram is one  *)
(* of them, and a send takes it whole or not at all.                       *)
(***************************************************************************)
EXTENDS Integers, Sequences, FiniteSets, SequencesExt

CONSTANTS
  Pumps,      \* [kind, inPollable, outPollable]
  MaxLength   \* bound: the bytes that come

PumpTypes == [kind : {"stream", "datagram", "bridge"}, inPollable : BOOLEAN, outPollable : BOOLEAN]

ASSUME PumpsAssumption == Pumps \subseteq PumpTypes /\ MaxLength \in Nat

VARIABLES
  type,       \* which pump it is
  pump,       \* the struct: buffer, stopped, and what follows
  refs,       \* who holds the pump: for a GSource or a call, also that it is under way
  io,         \* io_cancellable: whether it is cancelled
  source,     \* what has come, what has been taken, and whether it has ended
  sink        \* what it was given, whether it has room, whether it is broken or shut

pumpVars == <<type, pump, refs, io, source, sink>>

Glib == type.kind \in {"stream", "datagram"}
Bridge == type.kind = "bridge"
Pollable(end) == type.kind = "datagram" \/ IF end = "in" THEN type.inPollable ELSE type.outPollable

PumpInit ==
  /\ type \in Pumps
  /\ pump = [run |-> "none", buffer |-> <<>>, stopped |-> FALSE, stopping |-> FALSE,
             suspended |-> TRUE, freed |-> FALSE]
  /\ refs = {}
  /\ io = FALSE
  /\ source = [came |-> 0, taken |-> 0, end |-> "open"]
  /\ sink = [got |-> <<>>, room |-> TRUE, state |-> "open"]

Numbers(first, last) == [i \in 1..(last - first + 1) |-> first + i - 1]
Ready == source.came > source.taken

\* How much one read takes, and one write: a pump of datagrams takes one.
Takes == IF type.kind = "datagram" THEN {1} ELSE 1..(source.came - source.taken)
Gives == IF type.kind = "datagram" THEN {Len(pump.buffer)} ELSE 1..Len(pump.buffer)

TakeInto(n) ==
  /\ pump' = [pump EXCEPT !.buffer = Numbers(source.taken + 1, source.taken + n)]
  /\ source' = [source EXCEPT !.taken = @ + n]
\* As it would be if a write were taken for complete.
GiveFromOnce(p, n) ==
  /\ sink' = [sink EXCEPT !.got = @ \o SubSeq(p.buffer, 1, n)]
  /\ pump' = [p EXCEPT !.buffer = <<>>]

GiveFrom(p, n) ==
  /\ sink' = [sink EXCEPT !.got = @ \o SubSeq(p.buffer, 1, n)]
  /\ pump' = [p EXCEPT !.buffer = SubSeq(@, n + 1, Len(@))]

Stops(p) == [p EXCEPT !.stopped = TRUE, !.run = "none"]
Waits(p) == [p EXCEPT !.run = "none"]

\* The last reference frees the pump.
Held(p, r) == refs' = r /\ pump' = [p EXCEPT !.freed = (r = {})]

-----------------------------------------------------------------------------
(***************************************************************************)
(* StreamPump and DatagramPump.  refs: "owner", the connection; "invoke",  *)
(* the scheduled run; "readable" and "writable", the GSources; "read" and  *)
(* "write", the asynchronous calls.                                        *)
(***************************************************************************)
NewGlibPump == Glib /\ pump' = pump /\ refs' = {"owner", "invoke"}

Drives == Glib /\ pump.run = "drive"
Call(c) == Glib /\ c \in refs /\ pump.run = "none"

\* The scheduled run, and the callbacks, drive the pump unless it is stopped.
DriveScheduled ==
  /\ Call("invoke")
  /\ Held([pump EXCEPT !.run = IF pump.stopped \/ io THEN "none" ELSE "drive"], refs \ {"invoke"})
  /\ UNCHANGED <<type, io, source, sink>>

OnReady(s) ==
  /\ Call(s)
  /\ io \/ IF s = "readable" THEN Ready \/ source.end # "open" ELSE sink.room \/ sink.state = "broken"
  /\ Held([pump EXCEPT !.run = IF pump.stopped \/ io THEN "none" ELSE "drive"], refs \ {s})
  /\ UNCHANGED <<type, io, source, sink>>

\* drive: an empty buffer is filled,
DriveReads ==
  /\ Drives /\ pump.buffer = <<>> /\ "read" \notin refs
  /\ \/ /\ Pollable("in") /\ Ready /\ ~io
        /\ \E n \in Takes : TakeInto(n)
        /\ UNCHANGED refs
     \/ /\ Pollable("in") /\ ~Ready /\ source.end = "open" /\ ~io
        /\ refs' = refs \cup {"readable"} /\ pump' = Waits(pump)
        /\ UNCHANGED source
     \/ /\ Pollable("in") /\ (io \/ (~Ready /\ source.end # "open"))
        /\ pump' = Stops(pump)
        /\ UNCHANGED <<refs, source>>
     \/ /\ ~Pollable("in")
        /\ refs' = refs \cup {"read"} /\ pump' = Waits(pump)
        /\ UNCHANGED source
  /\ UNCHANGED <<type, io, sink>>

\* and a full one written.
DriveWrites ==
  /\ Drives /\ pump.buffer # <<>> /\ "write" \notin refs
  /\ \/ /\ Pollable("out") /\ sink.room /\ sink.state = "open" /\ ~io
        /\ \E n \in Gives : GiveFrom(pump, n)
        /\ UNCHANGED refs
     \/ /\ Pollable("out") /\ ~sink.room /\ sink.state = "open" /\ ~io
        /\ refs' = refs \cup {"writable"} /\ pump' = Waits(pump)
        /\ UNCHANGED sink
     \/ /\ Pollable("out") /\ (io \/ sink.state = "broken")
        /\ pump' = Stops(pump)
        /\ UNCHANGED <<refs, sink>>
     \/ /\ ~Pollable("out")
        /\ refs' = refs \cup {"write"} /\ pump' = Waits(pump)
        /\ UNCHANGED sink
  /\ UNCHANGED <<type, io, source>>

\* stream_pump_on_read_done: data, or the end, an error or the cancellation.
OnReadDone ==
  /\ Call("read")
  /\ \/ /\ Ready /\ ~pump.stopped
        /\ \E n \in Takes :
             /\ source' = [source EXCEPT !.taken = @ + n]
             /\ Held([pump EXCEPT !.buffer = Numbers(source.taken + 1, source.taken + n),
                                  !.run = "drive"], refs \ {"read"})
     \/ /\ io \/ pump.stopped \/ (~Ready /\ source.end # "open")
        /\ Held(Stops(pump), refs \ {"read"})
        /\ UNCHANGED source
  /\ UNCHANGED <<type, io, sink>>

OnWriteDone ==
  /\ Call("write")
  /\ \/ /\ sink.room /\ sink.state = "open" /\ ~pump.stopped
        /\ \E n \in Gives :
             /\ sink' = [sink EXCEPT !.got = @ \o SubSeq(pump.buffer, 1, n)]
             /\ Held([pump EXCEPT !.buffer = SubSeq(@, n + 1, Len(@)), !.run = "drive"],
                     refs \ {"write"})
     \/ /\ io \/ pump.stopped \/ sink.state = "broken"
        /\ Held(Stops(pump), refs \ {"write"})
        /\ UNCHANGED sink
  /\ UNCHANGED <<type, io, source>>

\* stream_pump_stop and the owner's unref, after io_cancellable has been cancelled.
StopGlibPump ==
  /\ Glib /\ "owner" \in refs /\ pump.run = "none"
  /\ io' = TRUE
  /\ Held([pump EXCEPT !.stopped = TRUE], refs \ {"owner", "readable", "writable"})
  /\ UNCHANGED <<type, source, sink>>

-----------------------------------------------------------------------------
(***************************************************************************)
(* BridgePump.  refs: "readable" and "writable", the dispatch sources, and *)
(* "readCancelled" and "writeCancelled", those whose cancel handler is due. *)
(***************************************************************************)
NewBridgePump == Bridge /\ pump' = [pump EXCEPT !.suspended = FALSE] /\ refs' = {"readable"}

Event(s) == Bridge /\ s \in refs /\ ~pump.freed

\* As it would be if the read source were not resumed.
DrainKeepsSuspended(p, s) ==
  /\ p.buffer # <<>> /\ sink.room /\ sink.state = "open"
  /\ \E n \in 1..Len(p.buffer) :
       LET rest == SubSeq(p.buffer, n + 1, Len(p.buffer))
       IN  /\ sink' = [sink EXCEPT !.got = @ \o SubSeq(p.buffer, 1, n), !.room = (rest = <<>>)]
           /\ pump' = [p EXCEPT !.buffer = rest]
           /\ refs' = IF rest # <<>> THEN refs \cup {"writable"} ELSE refs
  /\ source' = s

\* bridge_pump_drain, up to what the socket does not take.
Drain(p, s) ==
  \/ /\ p.buffer # <<>> /\ sink.room /\ sink.state = "open"
     /\ \E n \in 1..Len(p.buffer) :
          LET rest == SubSeq(p.buffer, n + 1, Len(p.buffer))
          IN  /\ sink' = [sink EXCEPT !.got = @ \o SubSeq(p.buffer, 1, n), !.room = (rest = <<>>)]
              /\ IF rest = <<>>
                 THEN /\ pump' = [p EXCEPT !.buffer = rest, !.suspended = p.stopped /\ @]
                      /\ refs' = IF "writable" \in refs
                                 THEN (refs \ {"writable"}) \cup {"writeCancelled"} ELSE refs
                 ELSE pump' = [p EXCEPT !.buffer = rest] /\ refs' = refs \cup {"writable"}
     /\ source' = s
  \/ /\ p.buffer # <<>> /\ ~sink.room /\ sink.state = "open"
     /\ pump' = p /\ refs' = refs \cup {"writable"} /\ source' = s
     /\ UNCHANGED sink
  \/ /\ p.buffer # <<>> /\ sink.state # "open"
     /\ pump' = [p EXCEPT !.stopped = TRUE] /\ source' = s
     /\ UNCHANGED <<refs, sink>>

\* bridge_pump_handle_readable; a stopped pump looks at nothing.
HandleReadable ==
  /\ Event("readable") /\ ~pump.suspended
  /\ Ready \/ source.end # "open"
  /\ IF pump.stopped THEN UNCHANGED <<pump, refs, source, sink>>
     ELSE IF Ready
     THEN \E n \in Takes :
            Drain([pump EXCEPT !.buffer = Numbers(source.taken + 1, source.taken + n),
                               !.suspended = TRUE],
                  [source EXCEPT !.taken = @ + n])
     ELSE /\ pump' = [pump EXCEPT !.stopped = TRUE, !.suspended = TRUE]
          /\ sink' = IF source.end = "eof" THEN [sink EXCEPT !.state = "shut"] ELSE sink
          /\ UNCHANGED <<refs, source>>
  /\ UNCHANGED <<type, io>>

HandleWritable ==
  /\ Event("writable") /\ (sink.room \/ sink.state # "open")
  /\ IF pump.stopped THEN UNCHANGED <<pump, refs, source, sink>> ELSE Drain(pump, source)
  /\ UNCHANGED <<type, io>>

\* A cancel handler runs when its source is not suspended; the last frees the pump.
HandleSourceCancelled(s) ==
  /\ Event(s) /\ s \in {"readCancelled", "writeCancelled"}
  /\ s = "readCancelled" => ~pump.suspended
  /\ refs' = refs \ {s}
  /\ pump' = [pump EXCEPT !.freed = pump.stopping /\ refs' = {}]
  /\ UNCHANGED <<type, io, source, sink>>

\* As it would be if a suspended source were cancelled as it is.
StopBridgePumpSuspended ==
  /\ Bridge /\ ~pump.stopping /\ "readable" \in refs
  /\ pump' = [pump EXCEPT !.stopping = TRUE, !.stopped = TRUE, !.buffer = <<>>]
  /\ refs' = {"readCancelled"} \cup (IF {"writable", "writeCancelled"} \cap refs # {}
                                     THEN {"writeCancelled"} ELSE {})
  /\ io' = TRUE
  /\ UNCHANGED <<type, source, sink>>

\* bridge_pump_cancel: for a quarter of a second it goes on pumping what there is,
\* then a suspended source is resumed, to be cancelled.
StopBridgePump ==
  /\ Bridge /\ ~pump.stopping /\ "readable" \in refs
  /\ \E drained \in 0..(Len(pump.buffer) + source.came - source.taken) :
       LET all == pump.buffer \o Numbers(source.taken + 1, source.came)
           fromSource == IF drained > Len(pump.buffer) THEN drained - Len(pump.buffer) ELSE 0
       IN  /\ drained > 0 => ~pump.stopped /\ sink.state = "open" /\ sink.room
           /\ sink' = [sink EXCEPT !.got = @ \o SubSeq(all, 1, drained)]
           /\ source' = [source EXCEPT !.taken = @ + fromSource]
  /\ pump' = [pump EXCEPT !.stopping = TRUE, !.stopped = TRUE, !.suspended = FALSE, !.buffer = <<>>]
  /\ refs' = {"readCancelled"} \cup (IF {"writable", "writeCancelled"} \cap refs # {}
                                     THEN {"writeCancelled"} ELSE {})
  /\ io' = TRUE
  /\ UNCHANGED type

-----------------------------------------------------------------------------
NewPump == (NewGlibPump \/ NewBridgePump) /\ UNCHANGED <<type, io, source, sink>>
StopPump == StopGlibPump \/ StopBridgePump

PumpStep ==
  \/ DriveScheduled \/ DriveReads \/ DriveWrites
  \/ OnReady("readable") \/ OnReady("writable") \/ OnReadDone \/ OnWriteDone
  \/ HandleReadable \/ HandleWritable
  \/ HandleSourceCancelled("readCancelled") \/ HandleSourceCancelled("writeCancelled")

\* The two ends.
Arrive ==
  /\ source.end = "open" /\ source.came < MaxLength
  /\ source' = [source EXCEPT !.came = @ + 1]
  /\ UNCHANGED <<type, pump, refs, io, sink>>

SourceEnds ==
  /\ source.end = "open"
  /\ \E end \in {"eof", "error"} : source' = [source EXCEPT !.end = end]
  /\ UNCHANGED <<type, pump, refs, io, sink>>

SinkChanges ==
  /\ sink.state = "open"
  /\ \/ sink' = [sink EXCEPT !.room = ~@]
     \/ sink' = [sink EXCEPT !.state = "broken"]
  /\ UNCHANGED <<type, pump, refs, io, source>>

Peers == Arrive \/ SourceEnds \/ SinkChanges

-----------------------------------------------------------------------------
\* What went through is what came, in order, nothing twice, and what a pump that has
\* not stopped took is either through or in its buffer, however small the pieces in
\* which it is written (stream_pump_drive, gtlsconnection-apple.c:2800).
PumpedInOrder ==
  LET through == sink.got \o pump.buffer
  IN  /\ IsPrefix(sink.got, Numbers(1, source.taken))
      /\ ~pump.stopped => through = Numbers(1, source.taken)

\* A pump that has neither stopped nor is running will be run when it can go on: it
\* has a source on, or a call in flight at, the end it waits for, and a dispatch
\* source it needs is not suspended.
PumpsAreServed ==
  refs # {} /\ ~pump.stopped /\ pump.run = "none" /\ "invoke" \notin refs =>
    IF pump.buffer = <<>>
    THEN {"readable", "read"} \cap refs # {} /\ ~(Bridge /\ pump.suspended)
    ELSE {"writable", "write"} \cap refs # {}

\* A closed pump is freed, once, when what it left under way has ended: suspended
\* sources too (bridge_pump_cancel, gtlsconnection-apple.c:2055).
ClosedPumpsAreFreed == [](io => <>pump.freed)
=============================================================================
