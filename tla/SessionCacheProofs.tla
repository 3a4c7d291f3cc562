------------------------- MODULE SessionCacheProofs -------------------------
(***************************************************************************)
(* Proofs about SessionCache, for every set of session IDs and of tickets  *)
(* and all limits.  The inductive invariant says where a ticket can be: in *)
(* one place of one entry, the queue if it is good for one use, and never  *)
(* there unless it has been stored.                                        *)
(***************************************************************************)
EXTENDS SessionCache, FiniteSetTheorems, WellFoundedInduction, TLAPS

\* The queue has the tickets of TLS 1.3, each once, the other field the others.
Sorted(e) ==
  /\ \A i \in 1..Len(e.tickets13) : SingleUse(e.tickets13[i])
  /\ \A i, j \in 1..Len(e.tickets13) : e.tickets13[i] = e.tickets13[j] => i = j
  /\ e.ticket12 # NoTicket => ~SingleUse(e.ticket12)

\* An entry expires at most MaxAge after each of its tickets was stored.
Dated(e) == \A k \in Holds(e) : e.expires <= born[k] + MaxAge

Places ==
  /\ \A id \in cached : Sorted(entry[id]) /\ Holds(entry[id]) \subseteq stored
  /\ \A id, other \in cached : Holds(entry[id]) \cap Holds(entry[other]) # {} => id = other
  /\ used \subseteq stored
Dates ==
  \A id \in cached : entry[id].expires <= now + MaxAge /\ Dated(entry[id])

CacheInv == TypeOK /\ Places /\ Dates /\ UsedOnce /\ RefsBalanced /\ LimitWhileYoung

-----------------------------------------------------------------------------
(***************************************************************************)
(* What an entry holds.                                                    *)
(***************************************************************************)
LEMMA EntryType ==
  ASSUME NEW e \in Entries
  PROVE  /\ e.ticket12 \in Tickets \cup {NoTicket}
         /\ e.tickets13 \in Seq(Tickets)
         /\ Len(e.tickets13) \in Nat
         /\ \A i \in 1..Len(e.tickets13) : e.tickets13[i] \in Tickets
         /\ e.expires \in Nat
         /\ Holds(e) \subseteq Tickets
BY TicketsAssumption DEF Entries, Holds

LEMMA NoEntryFacts ==
  ASSUME NEW x \in Nat
  PROVE  LET e == [NoEntry EXCEPT !.expires = x] IN
         /\ e \in Entries /\ Sorted(e) /\ Holds(e) = {} /\ e.expires = x
         /\ e.ticket12 = NoTicket
<1>1. [NoEntry EXCEPT !.expires = x] = [ticket12 |-> NoTicket, tickets13 |-> <<>>, expires |-> x]
  BY DEF NoEntry
<1> DEFINE f == [ticket12 |-> NoTicket, tickets13 |-> <<>>, expires |-> x]
<1>2. f \in Entries
  BY DEF Entries
<1>3. f.tickets13 = <<>> /\ f.ticket12 = NoTicket /\ f.expires = x
  OBVIOUS
<1> HIDE DEF f
<1>4. 1..Len(f.tickets13) = {}
  BY <1>3
<1>5. Sorted(f) /\ Holds(f) = {}
  BY <1>3, <1>4 DEF Sorted, Holds
<1> QED BY <1>1, <1>2, <1>3, <1>5 DEF f

LEMMA Append13 ==
  ASSUME NEW e \in Entries, NEW k \in Tickets, SingleUse(k), Sorted(e), k \notin Holds(e)
  PROVE  LET f == WithTicket(e, k) IN
         /\ f \in Entries /\ Sorted(f) /\ Holds(f) = Holds(e) \cup {k}
         /\ f.expires = e.expires
<1> DEFINE f == [ticket12 |-> e.ticket12, tickets13 |-> Append(e.tickets13, k),
                 expires |-> e.expires]
<1>1. WithTicket(e, k) = f
  BY DEF WithTicket, Entries
<1>2. /\ Len(f.tickets13) = Len(e.tickets13) + 1
      /\ f.tickets13[Len(e.tickets13) + 1] = k
      /\ \A i \in 1..Len(e.tickets13) : f.tickets13[i] = e.tickets13[i]
      /\ f.tickets13 \in Seq(Tickets)
      /\ Len(e.tickets13) \in Nat
  BY EntryType
<1>3. f \in Entries
  BY <1>2, EntryType DEF Entries
<1>4. Holds(f) = Holds(e) \cup {k}
  <2> HIDE DEF f
  <2>1. f.ticket12 = e.ticket12
    BY DEF f
  <2>2. {f.tickets13[i] : i \in 1..Len(f.tickets13)}
          = {e.tickets13[i] : i \in 1..Len(e.tickets13)} \cup {k}
    BY <1>2
  <2> QED BY <2>1, <2>2 DEF Holds
<1>5. Sorted(f)
  <2>1. f.ticket12 = e.ticket12
    OBVIOUS
  <2> DEFINE n == Len(e.tickets13)
             s == e.tickets13
             r == f.tickets13
  <2>2. \A i \in 1..n : s[i] # k
    BY DEF Holds
  <2>3. \A i \in 1..n : SingleUse(s[i])
    BY DEF Sorted
  <2>4. \A i, j \in 1..n : s[i] = s[j] => i = j
    BY DEF Sorted
  <2>5. Len(r) = n + 1 /\ n \in Nat /\ r[n + 1] = k /\ \A i \in 1..n : r[i] = s[i]
    BY <1>2
  <2> HIDE DEF n, s, r
  <2>6. \A i \in 1..Len(r) : SingleUse(r[i])
    BY <2>3, <2>5
  <2>7. \A i, j \in 1..Len(r) : r[i] = r[j] => i = j
    BY <2>2, <2>4, <2>5
  <2>8. e.ticket12 # NoTicket => ~SingleUse(e.ticket12)
    BY DEF Sorted
  <2> USE DEF r
  <2> HIDE DEF f
  <2> QED BY <2>1, <2>6, <2>7, <2>8 DEF Sorted
<1>6. f.expires = e.expires
  OBVIOUS
<1> HIDE DEF f
<1> QED BY <1>1, <1>3, <1>4, <1>5, <1>6

LEMMA Replace12 ==
  ASSUME NEW e \in Entries, NEW k \in Tickets, ~SingleUse(k), Sorted(e)
  PROVE  LET f == WithTicket(e, k) IN
         /\ f \in Entries /\ Sorted(f)
         /\ Holds(f) = (Holds(e) \ {e.ticket12}) \cup {k}
         /\ f.expires = e.expires
<1> DEFINE f == [ticket12 |-> k, tickets13 |-> e.tickets13, expires |-> e.expires]
<1>1. WithTicket(e, k) = f
  BY DEF WithTicket, Entries
<1>2. f \in Entries /\ Sorted(f)
  BY EntryType DEF Entries, Sorted
<1>3. e.ticket12 \notin {e.tickets13[i] : i \in 1..Len(e.tickets13)}
  BY EntryType, TicketsAssumption DEF Sorted
<1>4. Holds(f) = (Holds(e) \ {e.ticket12}) \cup {k}
  BY <1>3, TicketsAssumption DEF Holds
<1> QED BY <1>1, <1>2, <1>4

LEMMA Take13 ==
  ASSUME NEW e \in Entries, Sorted(e), e.tickets13 # <<>>
  PROVE  LET f == [e EXCEPT !.tickets13 = Tail(@)] IN
         /\ f \in Entries /\ Sorted(f)
         /\ Head(e.tickets13) \in Holds(e)
         /\ SingleUse(Head(e.tickets13))
         /\ Holds(f) = Holds(e) \ {Head(e.tickets13)}
         /\ f.expires = e.expires
<1> DEFINE s == e.tickets13
           f == [ticket12 |-> e.ticket12, tickets13 |-> Tail(s), expires |-> e.expires]
<1>1. [e EXCEPT !.tickets13 = Tail(@)] = f
  BY DEF Entries
<1>2. /\ s \in Seq(Tickets) /\ Len(s) \in Nat /\ Len(s) > 0
      /\ Head(s) = s[1]
      /\ Tail(s) \in Seq(Tickets)
      /\ Len(Tail(s)) = Len(s) - 1
      /\ \A i \in 1..(Len(s) - 1) : Tail(s)[i] = s[i + 1]
  BY EntryType
<1>3. f \in Entries
  BY <1>2, EntryType DEF Entries
<1>4. Sorted(f)
  <2>1. f.tickets13 = Tail(s) /\ f.ticket12 = e.ticket12
    OBVIOUS
  <2>2. \A i \in 1..Len(Tail(s)) : i \in 1..(Len(s) - 1) /\ i + 1 \in 1..Len(s)
    BY <1>2
  <2> HIDE DEF f
  <2> QED BY <1>2, <2>1, <2>2 DEF Sorted
<1>5. Head(s) \in Holds(e) /\ SingleUse(Head(s))
  BY <1>2 DEF Holds, Sorted
<1>6. {Tail(s)[i] : i \in 1..Len(Tail(s))} = {s[i] : i \in 1..Len(s)} \ {s[1]}
  <2>1. \A i \in 1..Len(Tail(s)) : i + 1 \in 1..Len(s) /\ Tail(s)[i] = s[i + 1] /\ s[i + 1] # s[1]
    BY <1>2 DEF Sorted
  <2>2. ASSUME NEW j \in 1..Len(s), s[j] # s[1]
        PROVE  j - 1 \in 1..Len(Tail(s)) /\ Tail(s)[j - 1] = s[j]
    BY <1>2, <2>2
  <2> QED BY <2>1, <2>2
<1>7. e.ticket12 # s[1]
  BY <1>2, <1>5, EntryType, TicketsAssumption DEF Sorted
<1>8. Holds(f) = Holds(e) \ {Head(s)}
  <2>1. f.tickets13 = Tail(s) /\ f.ticket12 = e.ticket12
    OBVIOUS
  <2> HIDE DEF f
  <2> QED BY <1>2, <1>6, <1>7, <2>1 DEF Holds
<1> QED BY <1>1, <1>3, <1>4, <1>5, <1>8

\* A nonempty set of naturals has a least element.
LEMMA LeastNatural ==
  ASSUME NEW T, T \subseteq Nat, T # {}
  PROVE  \E x \in T : \A y \in T : x <= y
<1> DEFINE R == OpToRel(<, Nat)
<1>1. \E x \in T : \A y \in T : <<y, x>> \notin R
  BY WFMin, NatLessThanWellFounded
<1>2. \A x, y \in Nat : <<y, x>> \in R <=> y < x
  BY DEF OpToRel
<1> HIDE DEF R
<1>3. PICK x \in T : \A y \in T : <<y, x>> \notin R
  BY <1>1
<1>4. \A y \in T : ~(y < x)
  BY <1>2, <1>3
<1>5. \A y \in T : x <= y
  BY <1>4
<1> QED BY <1>5

\* What is removed to make room is in the cache, and is something as long as the
\* clock is young.
LEMMA RoomIsMade ==
  ASSUME TypeOK, Dates, cached # {}, NEW gone \in CleanedUp
  PROVE  /\ gone \subseteq cached
         /\ now + MaxAge < IntMax => gone # {}
<1>1. gone \subseteq cached
  BY DEF CleanedUp, Oldest
<1>2. ASSUME now + MaxAge < IntMax PROVE Oldest # {}
  <2> DEFINE T == {entry[id].expires : id \in cached}
  <2>1. T \subseteq Nat /\ T # {}
    BY EntryType DEF TypeOK
  <2>2. PICK x \in T : \A y \in T : x <= y
    BY <2>1, LeastNatural
  <2>3. PICK id \in cached : entry[id].expires = x
    BY <2>2
  <2>4. entry[id].expires < IntMax
    <3>1. entry[id].expires <= now + MaxAge
      BY DEF Dates
    <3>2. entry[id].expires \in Nat /\ now \in Nat
      BY EntryType DEF TypeOK
    <3> QED BY <1>2, <3>1, <3>2, LimitsAssumption
  <2> QED BY <2>2, <2>3, <2>4 DEF Oldest
<1>3. ASSUME now + MaxAge < IntMax PROVE gone # {}
  BY <1>2, <1>3 DEF CleanedUp
<1> QED BY <1>1, <1>3

\* The references of the tickets that leave with some entries.
LEMMA Released ==
  ASSUME TypeOK, RefsBalanced, NEW ids, ids \subseteq cached, NEW replaced,
         replaced \in Tickets => InCache(replaced)
  PROVE  \A k \in Tickets :
           /\ ReleaseAll(ids, replaced)[k] \in Nat
           /\ ReleaseAll(ids, replaced)[k] =
                IF InCache(k) /\ k # replaced /\ ~\E id \in ids : k \in Holds(entry[id])
                  THEN 1 ELSE 0
<1> SUFFICES ASSUME NEW k \in Tickets
             PROVE  /\ ReleaseAll(ids, replaced)[k] \in Nat
                    /\ ReleaseAll(ids, replaced)[k] =
                         IF InCache(k) /\ k # replaced /\ ~\E id \in ids : k \in Holds(entry[id])
                           THEN 1 ELSE 0
  OBVIOUS
<1>1. refs[k] = IF InCache(k) THEN 1 ELSE 0
  BY DEF RefsBalanced
<1>2. (\E id \in ids : k \in Holds(entry[id])) \/ k = replaced => InCache(k)
  BY DEF InCache
<1>3. ReleaseAll(ids, replaced)[k] =
        IF (\E id \in ids : k \in Holds(entry[id])) \/ k = replaced
          THEN refs[k] - 1 ELSE refs[k]
  BY DEF ReleaseAll
<1> QED BY <1>1, <1>2, <1>3

-----------------------------------------------------------------------------
(***************************************************************************)
(* The invariant holds at the beginning and every call keeps it.           *)
(***************************************************************************)
LEMMA InitInv == Init => CacheInv
<1> SUFFICES ASSUME Init PROVE CacheInv
  OBVIOUS
<1> USE DEF Init
<1>1. TypeOK
  <2>1. NoEntry \in Entries
    BY DEF NoEntry, Entries
  <2> QED BY <2>1 DEF TypeOK
<1>2. LimitWhileYoung
  BY FS_EmptySet, LimitsAssumption DEF LimitWhileYoung
<1> QED BY <1>1, <1>2 DEF CacheInv, Places, Dates, UsedOnce, RefsBalanced, InCache

LEMMA TickKeeps ==
  ASSUME CacheInv, Tick
  PROVE  CacheInv'
<1> USE DEF Tick, CacheInv
<1>1. TypeOK'
  BY DEF TypeOK
<1>2. Places'
  BY DEF Places
<1>3. Dates'
  <2>1. SUFFICES ASSUME NEW id \in cached
                 PROVE  entry[id].expires <= now + 1 + MaxAge /\ Dated(entry[id])'
    BY DEF Dates
  <2>2. entry[id].expires <= now + MaxAge /\ Dated(entry[id])
    BY DEF Dates
  <2>3. entry[id].expires \in Nat /\ now \in Nat
    BY EntryType DEF TypeOK
  <2> QED BY <2>2, <2>3, LimitsAssumption DEF Dated
<1>4. UsedOnce' /\ RefsBalanced'
  BY DEF UsedOnce, RefsBalanced, InCache
<1>5. LimitWhileYoung'
  BY LimitsAssumption DEF LimitWhileYoung, TypeOK
<1> QED BY <1>1, <1>2, <1>3, <1>4, <1>5

LEMMA DropKeeps ==
  ASSUME CacheInv, NEW ids, ids \subseteq cached, Drop(ids),
         UNCHANGED <<now, born, stored, used>>
  PROVE  CacheInv'
<1> USE DEF CacheInv, Drop
<1>1. \A id \in cached' : id \in cached /\ id \in Ids /\ id \notin ids /\ entry'[id] = entry[id]
  BY DEF Without, TypeOK
<1>2. \A k : InCache(k)' <=> InCache(k) /\ ~\E id \in ids : k \in Holds(entry[id])
  BY <1>1 DEF InCache, Places, TypeOK
<1>3. TypeOK'
  <2>1. NoEntry \in Entries
    BY DEF NoEntry, Entries
  <2>2. entry' \in [Ids -> Entries]
    BY <2>1 DEF Without, TypeOK
  <2>3. \A k \in Tickets : ReleaseAll(ids, NoTicket)[k] \in Nat
    BY Released, TicketsAssumption
  <2>4. refs' \in [Tickets -> Nat]
    BY <2>3 DEF ReleaseAll
  <2> QED BY <2>2, <2>4 DEF TypeOK
<1>4. Places'
  BY <1>1 DEF Places
<1>5. Dates'
  BY <1>1 DEF Dates, Dated
<1>6. UsedOnce'
  BY <1>2 DEF UsedOnce
<1>7. RefsBalanced'
  BY <1>2, Released, TicketsAssumption DEF RefsBalanced
<1>8. LimitWhileYoung'
  <2>1. IsFiniteSet(cached)
    BY FS_Subset, LimitsAssumption DEF TypeOK
  <2>2. Cardinality(cached') <= Cardinality(cached) /\ Cardinality(cached) \in Nat
        /\ Cardinality(cached') \in Nat
    BY <2>1, FS_Subset, FS_CardinalityType
  <2> QED BY <2>2, LimitsAssumption DEF LimitWhileYoung, TypeOK
<1> QED BY <1>3, <1>4, <1>5, <1>6, <1>7, <1>8

LEMMA SingleUseKeeps ==
  ASSUME CacheInv, NEW id \in Ids, LookupSingleUse(id)
  PROVE  CacheInv'
<1> USE DEF CacheInv, LookupSingleUse
<1> DEFINE e == entry[id]
           k == Head(entry[id].tickets13)
<1>1. e \in Entries /\ Sorted(e) /\ Holds(e) \subseteq stored /\ Dated(e)
  BY DEF TypeOK, Places, Dates
<1>2. /\ entry'[id] \in Entries /\ Sorted(entry'[id])
      /\ k \in Holds(e) /\ SingleUse(k) /\ k \in Tickets
      /\ Holds(entry'[id]) = Holds(e) \ {k}
      /\ entry'[id].expires = e.expires
  <2>1. entry'[id] = [e EXCEPT !.tickets13 = Tail(@)]
    BY DEF TypeOK
  <2> QED BY <1>1, <2>1, Take13, EntryType
<1>3. \A other \in Ids : other # id => entry'[other] = entry[other]
  BY DEF TypeOK
<1> HIDE DEF e, k
<1>4. \A x : InCache(x)' <=> InCache(x) /\ x # k
  BY <1>2, <1>3 DEF InCache, Places, TypeOK, e
<1>5. refs[k] = 1 /\ refs'[k] = 0 /\ \A x \in Tickets : x # k => refs'[x] = refs[x]
  BY <1>2 DEF RefsBalanced, InCache, TypeOK, e, k
<1>6. TypeOK'
  <2>1. entry' \in [Ids -> Entries]
    BY <1>2, <1>3 DEF TypeOK
  <2>2. refs' \in [Tickets -> Nat]
    BY <1>5 DEF TypeOK
  <2> QED BY <1>2, <2>1, <2>2 DEF TypeOK, k
<1>7. Places'
  BY <1>1, <1>2, <1>3 DEF Places, TypeOK, e, k
<1>8. Dates'
  BY <1>1, <1>2, <1>3 DEF Dates, Dated, TypeOK, e
<1>9. UsedOnce'
  BY <1>4 DEF UsedOnce, k
<1>10. RefsBalanced'
  BY <1>2, <1>4, <1>5 DEF RefsBalanced
<1>11. LimitWhileYoung'
  BY DEF LimitWhileYoung
<1> QED BY <1>6, <1>7, <1>8, <1>9, <1>10, <1>11

LEMMA ReusableKeeps ==
  ASSUME CacheInv, NEW id \in Ids, LookupReusable(id)
  PROVE  CacheInv'
<1>1. CASE /\ used' = used \cup {entry[id].ticket12}
           /\ UNCHANGED <<cached, entry, refs, now, born, stored>>
  <2> USE <1>1 DEF CacheInv
  <2>1. entry[id].ticket12 \in Tickets \cap stored /\ ~SingleUse(entry[id].ticket12)
    BY EntryType DEF LookupReusable, Places, Sorted, Holds, TypeOK
  <2>2. TypeOK' /\ Places'
    BY <2>1 DEF TypeOK, Places
  <2>3. Dates' /\ LimitWhileYoung' /\ RefsBalanced'
    BY DEF Dates, Dated, LimitWhileYoung, RefsBalanced, InCache
  <2>4. UsedOnce'
    BY <2>1 DEF UsedOnce, InCache
  <2> QED BY <2>2, <2>3, <2>4
<1>2. CASE Drop({id}) /\ UNCHANGED <<now, born, stored, used>>
  BY <1>2, DropKeeps DEF LookupReusable
<1> QED BY <1>1, <1>2 DEF LookupReusable

\* The entry a store leaves behind, whichever kind of ticket it is.
LEMMA StoredEntry ==
  ASSUME CacheInv, NEW id \in Ids, NEW k \in Tickets \ stored
  PROVE  LET e == StoreEntry(id)
             f == WithTicket(e, k)
             replaced == IF SingleUse(k) THEN NoTicket ELSE e.ticket12
         IN  /\ f \in Entries /\ Sorted(f)
             /\ Holds(f) = (Holds(e) \ {replaced}) \cup {k}
             /\ f.expires = e.expires
             /\ replaced \in Tickets => replaced \in Holds(e)
<1> DEFINE e == StoreEntry(id)
<1>1. e \in Entries /\ Sorted(e) /\ Holds(e) \subseteq stored
  <2>1. now + MaxAge \in Nat
    BY LimitsAssumption DEF CacheInv, TypeOK
  <2>2. CASE id \in cached
    BY <2>2 DEF StoreEntry, CacheInv, TypeOK, Places
  <2>3. CASE id \notin cached
    BY <2>1, <2>3, NoEntryFacts DEF StoreEntry
  <2> QED BY <2>2, <2>3
<1>2. NoTicket \notin Holds(e)
  BY <1>1, EntryType, TicketsAssumption
<1>3. k \notin Holds(e)
  BY <1>1
<1>4. e.ticket12 \in Tickets => e.ticket12 \in Holds(e)
  BY TicketsAssumption DEF Holds
<1> HIDE DEF e
<1>5. CASE SingleUse(k)
  BY <1>1, <1>2, <1>3, <1>5, Append13, TicketsAssumption DEF e
<1>6. CASE ~SingleUse(k)
  BY <1>1, <1>4, <1>6, Replace12 DEF e
<1> QED BY <1>5, <1>6

LEMMA StoreKeeps ==
  ASSUME CacheInv, NEW id \in Ids, NEW k \in Tickets, NEW gone, gone \subseteq cached,
         k \notin stored, StoreMakingRoom(id, k, gone),
         \/ ~Full(id) /\ gone = {}
         \/ Full(id) /\ gone \in CleanedUp,
         born' = [born EXCEPT ![k] = now], stored' = stored \cup {k},
         UNCHANGED <<now, used>>
  PROVE  CacheInv'
<1> USE DEF CacheInv
<1> DEFINE e == StoreEntry(id)
           f == WithTicket(e, k)
           replaced == IF SingleUse(k) THEN NoTicket ELSE e.ticket12
<1>1. /\ f \in Entries /\ Sorted(f)
      /\ Holds(f) = (Holds(e) \ {replaced}) \cup {k}
      /\ f.expires = e.expires
      /\ replaced \in Tickets => replaced \in Holds(e)
  BY StoredEntry
<1>2. /\ cached' = (cached \ gone) \cup {id}
      /\ entry' = [Without(gone) EXCEPT ![id] = f]
      /\ refs' = [ReleaseAll(gone, replaced) EXCEPT ![k] = @ + 1]
  BY DEF StoreMakingRoom
<1>3. id \in cached => e = entry[id] /\ id \notin gone
  BY DEF StoreEntry, Full
<1>4. id \notin cached => Holds(e) = {} /\ e.expires = now + MaxAge
  <2>1. now + MaxAge \in Nat
    BY LimitsAssumption DEF TypeOK
  <2> QED BY <2>1, NoEntryFacts DEF StoreEntry
<1> HIDE DEF e, f, replaced
<1>5. entry'[id] = f /\ \A other \in cached' : other # id => other \in cached /\ entry'[other] = entry[other]
  BY <1>2 DEF Without, TypeOK
<1>6. Holds(e) \subseteq stored
  BY <1>3, <1>4 DEF Places
<1>7. replaced \in Tickets => id \in cached /\ replaced \in Holds(entry[id]) /\ InCache(replaced)
  BY <1>1, <1>3, <1>4 DEF InCache
<1>8. ~InCache(k)
  BY DEF InCache, Places
<1>9. \A x \in Tickets :
        InCache(x)' <=> \/ x = k
                        \/ InCache(x) /\ x # replaced /\ ~\E g \in gone : x \in Holds(entry[g])
  <2> SUFFICES ASSUME NEW x \in Tickets, x # k
               PROVE  InCache(x)' <=>
                        InCache(x) /\ x # replaced /\ ~\E g \in gone : x \in Holds(entry[g])
    BY <1>1, <1>2, <1>5 DEF InCache
  <2>1. x \in Holds(f) <=> id \in cached /\ x \in Holds(entry[id]) /\ x # replaced
    BY <1>1, <1>3, <1>4
  <2>2. InCache(x)' <=> x \in Holds(f) \/ \E other \in (cached \ gone) \ {id} : x \in Holds(entry[other])
    BY <1>2, <1>5 DEF InCache
  <2>3. \A one, other \in cached : x \in Holds(entry[one]) /\ x \in Holds(entry[other]) => one = other
    BY DEF Places
  <2> QED BY <1>3, <1>7, <2>1, <2>2, <2>3 DEF InCache
<1>10. /\ \A x \in Tickets : x # k => refs'[x] = ReleaseAll(gone, replaced)[x]
       /\ refs'[k] = ReleaseAll(gone, replaced)[k] + 1
  BY <1>2 DEF ReleaseAll
<1>11. RefsBalanced'
  <2>1. k # replaced
    BY <1>7, <1>8
  <2>2. ReleaseAll(gone, replaced)[k] = 0
    BY <1>7, <1>8, Released
  <2> QED BY <1>7, <1>9, <1>10, <2>1, <2>2, Released DEF RefsBalanced
<1>12. TypeOK'
  <2>1. NoEntry \in Entries
    BY DEF NoEntry, Entries
  <2>2. entry' \in [Ids -> Entries]
    BY <1>1, <1>2, <2>1 DEF Without, TypeOK
  <2>3. \A x \in Tickets : refs'[x] \in Nat
    BY <1>11 DEF RefsBalanced
  <2>4. refs' \in [Tickets -> Nat]
    BY <1>2, <2>3 DEF ReleaseAll
  <2>5. born' \in [Tickets -> Nat] /\ cached' \subseteq Ids
    BY <1>2 DEF TypeOK
  <2> QED BY <2>2, <2>4, <2>5 DEF TypeOK
<1>13. Places'
  <2>1. \A other \in cached' : Sorted(entry'[other]) /\ Holds(entry'[other]) \subseteq stored'
    BY <1>1, <1>2, <1>5, <1>6 DEF Places
  <2>2. ASSUME NEW one \in cached', one # id
        PROVE  Holds(entry'[one]) \cap Holds(entry'[id]) = {}
    BY <1>1, <1>3, <1>4, <1>5, <2>2 DEF Places
  <2>3. \A one, other \in cached' :
          Holds(entry'[one]) \cap Holds(entry'[other]) # {} => one = other
    BY <1>5, <2>2 DEF Places
  <2> QED BY <2>1, <2>3 DEF Places
<1>14. Dates'
  <2>1. e.expires <= now + MaxAge /\ e.expires \in Nat /\ now \in Nat
    BY <1>3, <1>4, EntryType, LimitsAssumption DEF Dates, TypeOK
  <2>2. \A x \in Tickets : x \in stored => born'[x] = born[x]
    BY DEF TypeOK
  <2>3. \A x \in Holds(f) : f.expires <= born'[x] + MaxAge
    <3>1. born'[k] = now
      BY DEF TypeOK
    <3>2. \A x \in Holds(e) : e.expires <= born[x] + MaxAge /\ x \in Tickets
      BY <1>3, <1>4, <1>6 DEF Dates, Dated, TypeOK
    <3> QED BY <1>1, <1>6, <2>1, <2>2, <3>1, <3>2
  <2>4. ASSUME NEW other \in cached', other # id
        PROVE  entry'[other].expires <= now' + MaxAge /\ Dated(entry[other])'
    <3>1. Dated(entry[other]) /\ Holds(entry[other]) \subseteq stored
      BY <1>5, <2>4 DEF Dates, Places
    <3>2. \A x \in Holds(entry[other]) : entry[other].expires <= born'[x] + MaxAge
      BY <2>2, <3>1 DEF Dated, TypeOK
    <3> QED BY <1>5, <2>4, <3>2 DEF Dates, Dated
  <2>5. entry'[id].expires <= now' + MaxAge /\ Dated(entry[id])'
    BY <1>1, <1>5, <2>1, <2>3 DEF Dated
  <2> QED BY <2>4, <2>5 DEF Dates
<1>15. UsedOnce'
  <2>1. k \notin used
    BY DEF Places
  <2> QED BY <1>9, <2>1 DEF UsedOnce, TypeOK
<1>16. LimitWhileYoung'
  <2> SUFFICES ASSUME now + MaxAge < IntMax
               PROVE  Cardinality(cached') <= MaxSize
    BY DEF LimitWhileYoung
  <2>1. IsFiniteSet(cached) /\ Cardinality(cached) \in Nat
    BY FS_Subset, FS_CardinalityType, LimitsAssumption DEF TypeOK
  <2>2. Cardinality(cached) <= MaxSize
    BY DEF LimitWhileYoung
  <2>3. CASE id \in cached
    <3>1. cached' = cached
      BY <1>2, <2>3 DEF Full
    <3> QED BY <2>2, <3>1
  <2>4. CASE id \notin cached /\ ~Full(id)
    <3>1. cached' = cached \cup {id}
      BY <1>2, <2>4
    <3>2. Cardinality(cached') = Cardinality(cached) + 1
      BY <2>1, <2>4, <3>1, FS_AddElement
    <3> QED BY <2>1, <2>4, <3>2, LimitsAssumption DEF Full
  <2>5. CASE Full(id) /\ cached = {}
    <3>1. gone = {} /\ cached' = {id}
      BY <1>2, <2>5
    <3> QED BY <3>1, FS_Singleton, LimitsAssumption
  <2>6. CASE Full(id) /\ cached # {}
    <3>1. gone # {}
      BY <2>6, RoomIsMade
    <3>2. PICK g \in gone : TRUE
      BY <3>1
    <3>3. Cardinality(cached \ {g}) = Cardinality(cached) - 1 /\ IsFiniteSet(cached \ {g})
      BY <2>1, FS_RemoveElement
    <3>4. cached \ gone \subseteq cached \ {g}
      OBVIOUS
    <3>5. /\ Cardinality(cached \ gone) <= Cardinality(cached) - 1
          /\ IsFiniteSet(cached \ gone)
          /\ Cardinality(cached \ gone) \in Nat
      BY <3>3, <3>4, FS_Subset, FS_CardinalityType
    <3>6. Cardinality(cached') = Cardinality(cached \ gone) + 1
      BY <1>2, <2>6, <3>5, FS_AddElement DEF Full
    <3> QED BY <2>1, <2>2, <3>5, <3>6, LimitsAssumption
  <2> QED BY <2>3, <2>4, <2>5, <2>6
<1> QED BY <1>11, <1>12, <1>13, <1>14, <1>15, <1>16

-----------------------------------------------------------------------------
LEMMA NextKeeps == CacheInv /\ [Next]_vars => CacheInv'
<1> SUFFICES ASSUME CacheInv, [Next]_vars PROVE CacheInv'
  OBVIOUS
<1>1. CASE Tick
  BY <1>1, TickKeeps
<1>2. ASSUME NEW id \in Ids, NEW k \in Tickets, Store(id, k)
      PROVE  CacheInv'
  <2>1. CASE Full(id)
    <3>1. PICK gone \in CleanedUp : StoreMakingRoom(id, k, gone)
      BY <1>2, <2>1 DEF Store
    <3>2. gone \subseteq cached
      BY DEF CleanedUp, Oldest
    <3> QED BY <1>2, <2>1, <3>1, <3>2, StoreKeeps DEF Store
  <2>2. CASE ~Full(id)
    <3>1. StoreMakingRoom(id, k, {}) /\ {} \subseteq cached
      BY <1>2, <2>2 DEF Store
    <3>2. /\ k \notin stored /\ stored' = stored \cup {k}
          /\ born' = [born EXCEPT ![k] = now] /\ UNCHANGED <<now, used>>
      BY <1>2 DEF Store
    <3>3. PICK gone : gone = {}
      OBVIOUS
    <3>4. StoreMakingRoom(id, k, gone) /\ gone \subseteq cached
      BY <3>1, <3>3
    <3>5. ~Full(id) /\ gone = {}
      BY <2>2, <3>3
    <3> HIDE <2>2, <3>3
    <3> QED BY <3>2, <3>4, <3>5, StoreKeeps
  <2> QED BY <2>1, <2>2
<1>3. ASSUME NEW id \in Ids, LookupExpired(id) \/ LookupEmpty(id)
      PROVE  CacheInv'
  BY <1>3, DropKeeps DEF LookupExpired, LookupEmpty
<1>4. CASE UNCHANGED vars
  BY <1>4 DEF vars, CacheInv, TypeOK, Places, Dates, Dated, UsedOnce, RefsBalanced, InCache,
              LimitWhileYoung
<1> QED BY <1>1, <1>2, <1>3, <1>4, SingleUseKeeps, ReusableKeeps DEF Next

\* The invariant of the cache.
THEOREM CacheInvariant == Spec => []CacheInv
<1>1. Init => CacheInv
  BY InitInv
<1>2. CacheInv /\ [Next]_vars => CacheInv'
  BY NextKeeps
<1> QED BY <1>1, <1>2, PTL DEF Spec

\* The cache keeps the types of its fields, the reference counts among them: the
\* cache never gives back a reference it does not have.
THEOREM CacheTypeCorrect == Spec => []TypeOK
<1>1. CacheInv => TypeOK
  BY DEF CacheInv
<1> QED BY <1>1, CacheInvariant, PTL

\* A ticket of TLS 1.3 that was handed out is not in the cache any more.
THEOREM TicketsUsedOnce == Spec => []UsedOnce
<1>1. CacheInv => UsedOnce
  BY DEF CacheInv
<1> QED BY <1>1, CacheInvariant, PTL

\* A ticket is handed out at most MaxAge after it was stored, however often its
\* entry is added to.
THEOREM TicketsFresh == Spec => []TicketsAreFresh
<1>1. CacheInv => TicketsAreFresh
  <2> SUFFICES ASSUME CacheInv, NEW id \in cached, NEW k \in Holds(entry[id]), ~Expired(id)
               PROVE  now <= born[k] + MaxAge
    BY DEF TicketsAreFresh
  <2>1. entry[id].expires <= born[k] + MaxAge
    BY DEF CacheInv, Dates, Dated
  <2>2. entry[id].expires \in Nat /\ now \in Nat /\ born[k] \in Nat
    BY EntryType DEF CacheInv, TypeOK
  <2> QED BY <2>1, <2>2, LimitsAssumption DEF Expired
<1> QED BY <1>1, CacheInvariant, PTL

\* The cache owns exactly one reference to each ticket it points to.
THEOREM ReferencesBalanced == Spec => []RefsBalanced
<1>1. CacheInv => RefsBalanced
  BY DEF CacheInv
<1> QED BY <1>1, CacheInvariant, PTL

\* Until the clock is MaxAge away from INT_MAX, the cache has at most MaxSize entries.
THEOREM LimitKept == Spec => []LimitWhileYoung
<1>1. CacheInv => LimitWhileYoung
  BY DEF CacheInv
<1> QED BY <1>1, CacheInvariant, PTL
=============================================================================
