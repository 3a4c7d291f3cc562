---------------------------- MODULE SessionCache ----------------------------
(***************************************************************************)
(* The client session cache of tls/base/gtlssessioncache.c: the tickets a  *)
(* server has issued, by session ID, for the next connection to the same   *)
(* server.  The cache belongs to the process and every call holds          *)
(* session_cache_lock from beginning to end, so a call is one action.      *)
(* Time is the monotonic clock, which counts from the start of the system. *)
(***************************************************************************)
EXTENDS Integers, Sequences, FiniteSets

CONSTANTS
  Ids,        \* session IDs
  Tickets,    \* what servers issue; each is stored at most once
  Version,    \* Version[k]: the protocol version ticket k was issued under
  NoTicket,   \* NULL
  MaxSize,    \* SESSION_CACHE_MAX_SIZE
  MaxAge,     \* SESSION_CACHE_MAX_AGE
  IntMax,     \* INT_MAX, in the unit of the clock
  MaxTime     \* bound on the clock, for TLC

\* GTlsProtocolVersion
TLS_1_2 == 4
TLS_1_3 == 5
DTLS_1_0 == 201
DTLS_1_2 == 202

ASSUME TicketsAssumption ==
  /\ NoTicket \notin Tickets
  /\ Version \in [Tickets -> Nat]
ASSUME LimitsAssumption ==
  /\ MaxSize \in Nat \ {0} /\ MaxAge \in Nat /\ IntMax \in Nat /\ MaxTime \in Nat
  /\ IsFiniteSet(Ids)

VARIABLES
  cached,     \* the session IDs in the hash table
  entry,      \* the GTlsCacheData of each
  now,        \* g_get_monotonic_time()
  refs,       \* references to ticket k that the cache has taken and not given back
  born,       \* born[k]: when ticket k was stored (history)
  stored,     \* the tickets stored so far (history)
  used        \* the tickets handed out so far (history)

vars == <<cached, entry, now, refs, born, stored, used>>

NoEntry == [ticket12 |-> NoTicket, tickets13 |-> <<>>, expires |-> 0]

Entries == [ticket12 : Tickets \cup {NoTicket}, tickets13 : Seq(Tickets), expires : Nat]

TypeOK ==
  /\ cached \subseteq Ids
  /\ entry \in [Ids -> Entries]
  /\ now \in Nat
  /\ refs \in [Tickets -> Nat]
  /\ born \in [Tickets -> Nat]
  /\ stored \subseteq Tickets
  /\ used \subseteq Tickets

Init ==
  /\ cached = {}
  /\ entry = [id \in Ids |-> NoEntry]
  /\ now = 0
  /\ refs = [k \in Tickets |-> 0]
  /\ born = [k \in Tickets |-> 0]
  /\ stored = {}
  /\ used = {}

-----------------------------------------------------------------------------
\* The version test of g_tls_store_session_data.
SingleUse(k) ==
  \/ Version[k] >= TLS_1_3 /\ Version[k] < DTLS_1_0
  \/ Version[k] > DTLS_1_2

\* Every ticket an entry points to.
Holds(e) == {e.tickets13[i] : i \in 1..Len(e.tickets13)} \cup ({e.ticket12} \ {NoTicket})

InCache(k) == \E id \in cached : k \in Holds(entry[id])

Expired(id) == now > entry[id].expires

\* The entries that expire first, as far as the scan of session_cache_cleanup()
\* sees them: it starts from INT_MAX.  Which one it finds first is up to the hash
\* table.
Oldest ==
  {id \in cached : /\ entry[id].expires < IntMax
                   /\ \A other \in cached : entry[id].expires <= entry[other].expires}

\* session_cache_cleanup(): all that have expired or, if none has, the oldest.
CleanedUp ==
  LET expired == {id \in cached : Expired(id)}
  IN  IF expired # {} THEN {expired}
      ELSE IF Oldest # {} THEN {{id} : id \in Oldest}
      ELSE {{}}

\* cache_data_free() for the entries gone, and the reference of a ticket replaced.
ReleaseAll(ids, replaced) ==
  [k \in Tickets |-> IF (\E id \in ids : k \in Holds(entry[id])) \/ k = replaced
                       THEN refs[k] - 1 ELSE refs[k]]

Without(ids) == [id \in Ids |-> IF id \in ids THEN NoEntry ELSE entry[id]]

\* Mutant: a new ticket gives its entry another ten minutes.
RefreshedEntry(id) ==
  IF id \in cached THEN [entry[id] EXCEPT !.expires = now + MaxAge]
  ELSE [NoEntry EXCEPT !.expires = now + MaxAge]

\* The entry a store adds to: the one there, expired or not, or a new one.
StoreEntry(id) ==
  IF id \in cached THEN entry[id]
  ELSE [NoEntry EXCEPT !.expires = now + MaxAge]

WithTicket(e, k) ==
  IF SingleUse(k) THEN [e EXCEPT !.tickets13 = Append(@, k)]
  ELSE [e EXCEPT !.ticket12 = k]

\* g_tls_store_session_data: gone is what the cleanup removed to make room.
StoreMakingRoom(id, k, gone) ==
  LET e == StoreEntry(id)
      replaced == IF SingleUse(k) THEN NoTicket ELSE e.ticket12
  IN  /\ cached' = (cached \ gone) \cup {id}
      /\ entry' = [Without(gone) EXCEPT ![id] = WithTicket(e, k)]
      /\ refs' = [ReleaseAll(gone, replaced) EXCEPT ![k] = @ + 1]

\* Must the cache make room for a new entry?
Full(id) == id \notin cached /\ Cardinality(cached) >= MaxSize

Store(id, k) ==
  /\ k \notin stored
  /\ IF Full(id)
       THEN \E gone \in CleanedUp : StoreMakingRoom(id, k, gone)
       ELSE StoreMakingRoom(id, k, {})
  /\ born' = [born EXCEPT ![k] = now]
  /\ stored' = stored \cup {k}
  /\ UNCHANGED <<now, used>>

Drop(ids) ==
  /\ cached' = cached \ ids
  /\ entry' = Without(ids)
  /\ refs' = ReleaseAll(ids, NoTicket)

\* g_tls_lookup_session_data finds an entry that has expired ...
LookupExpired(id) ==
  /\ id \in cached
  /\ Expired(id)
  /\ Drop({id})
  /\ UNCHANGED <<now, born, stored, used>>

\* Mutant: the ticket is looked at, not taken.
LookupPeeks(id) ==
  /\ id \in cached
  /\ ~Expired(id)
  /\ entry[id].tickets13 # <<>>
  /\ used' = used \cup {Head(entry[id].tickets13)}
  /\ UNCHANGED <<cached, entry, refs, now, born, stored>>

\* ... a ticket of TLS 1.3, which leaves the cache with its reference ...
LookupSingleUse(id) ==
  /\ id \in cached
  /\ ~Expired(id)
  /\ entry[id].tickets13 # <<>>
  /\ entry' = [entry EXCEPT ![id].tickets13 = Tail(@)]
  /\ refs' = [refs EXCEPT ![Head(entry[id].tickets13)] = @ - 1]
  /\ used' = used \cup {Head(entry[id].tickets13)}
  /\ UNCHANGED <<cached, now, born, stored>>

\* ... one of TLS 1.2, which stays and of which the caller gets a reference of its
\* own, or none, and then the entry goes ...
LookupReusable(id) ==
  /\ id \in cached
  /\ ~Expired(id)
  /\ entry[id].tickets13 = <<>>
  /\ entry[id].ticket12 # NoTicket
  /\ \/ /\ used' = used \cup {entry[id].ticket12}
        /\ UNCHANGED <<cached, entry, refs>>
     \/ Drop({id}) /\ UNCHANGED used
  /\ UNCHANGED <<now, born, stored>>

\* ... or nothing at all.
LookupEmpty(id) ==
  /\ id \in cached
  /\ ~Expired(id)
  /\ entry[id].tickets13 = <<>>
  /\ entry[id].ticket12 = NoTicket
  /\ Drop({id})
  /\ UNCHANGED <<now, born, stored, used>>

Tick ==
  /\ now < MaxTime
  /\ now' = now + 1
  /\ UNCHANGED <<cached, entry, refs, born, stored, used>>

Next ==
  \/ Tick
  \/ \E id \in Ids :
       \/ \E k \in Tickets : Store(id, k)
       \/ LookupExpired(id)
       \/ LookupSingleUse(id)
       \/ LookupReusable(id)
       \/ LookupEmpty(id)

Spec == Init /\ [][Next]_vars

-----------------------------------------------------------------------------
\* "session tickets should be used only once since TLS 1.3": once handed out, such
\* a ticket is nowhere in the cache again.
UsedOnce ==
  \A k \in used : SingleUse(k) => ~InCache(k)

\* "a new session gets used after 10 minutes even if the cached one was resumed more
\* recently": a ticket that can still be handed out was stored within the last ten
\* minutes, whatever was stored and looked up under the same ID since.
TicketsAreFresh ==
  \A id \in cached : \A k \in Holds(entry[id]) :
    ~Expired(id) => now <= born[k] + MaxAge

\* The cache has one reference to each ticket it points to and none to the others:
\* nothing leaks and nothing is freed twice, on any of the ways out of the cache.
RefsBalanced ==
  \A k \in Tickets : refs[k] = IF InCache(k) THEN 1 ELSE 0

\* As long as the clock is MaxAge below INT_MAX the limit is kept.
LimitWhileYoung ==
  now + MaxAge < IntMax => Cardinality(cached) <= MaxSize

=============================================================================
