------------------------- MODULE DeduplicatorProofs -------------------------
(***************************************************************************)
(* The safety properties of module Deduplicator, proved for every set of   *)
(* callers, every assignment of keys and every TTL.  IInv is the inductive *)
(* invariant.  Its core is EvictedInv: an entry leaves the map only when   *)
(* its time is over and its channel closed.  The properties about waiters  *)
(* and windows follow because every insertion finds the key free, hence    *)
(* finds the earlier entries of the key evicted.                           *)
(***************************************************************************)
EXTENDS Deduplicator, TLAPS

\* The map sends a key to an allocated entry of that key.
MapInv ==
    \A k \in Keys :
        entries[k] # None => DedupKey(entries[k]) = k /\ Allocated(entries[k])

\* A caller allocates its entry when Seen returns, and never before; the
\* callers that stored have one.
AllocInv ==
    \A c \in Callers :
        /\ call[c].at \in {"idle", "seen"} => ~Allocated(c)
        /\ call[c].at \in {"first", "stored"} => Allocated(c)

\* Clock readings are not from the future.
ClockInv ==
    \A c \in Callers :
        /\ call[c].now <= now
        /\ entry[c].born <= now

\* An entry out of the map has expired, and its channel is closed.
EvictedInv ==
    \A e \in Callers :
        Allocated(e) /\ ~Live(e) => now >= entry[e].expires /\ entry[e].done # "open"

\* A Lookup that waits or copies has an allocated entry of its own key.
PointerInv ==
    \A c \in Callers :
        call[c].at \in {"waiting", "copying"}
        => /\ call[c].ptr \in Callers
           /\ Allocated(call[c].ptr)
           /\ DedupKey(call[c].ptr) = DedupKey(c)

\* A reply stems from a caller of the key that called Store.
Published(r, k) == r \in Callers /\ call[r].at = "stored" /\ DedupKey(r) = k

ReplyInv ==
    /\ \A e \in Callers : entry[e].reply # None => Published(entry[e].reply, DedupKey(e))
    /\ \A c \in Callers :
          /\ call[c].at = "copying" => Published(call[c].got, DedupKey(c))
          /\ call[c].at = "hit" /\ call[c].got # Torn => Published(call[c].got, DedupKey(c))
    /\ \A c \in Callers : call[c].at = "copying" => entry[call[c].ptr].reply # None

IInv ==
    /\ TypeOK
    /\ MapInv
    /\ AllocInv
    /\ ClockInv
    /\ EvictedInv
    /\ PointerInv
    /\ NoDoubleClose
    /\ WindowsExclusive
    /\ ReplyInv
    /\ TornOnlyAfterSlowHandler

\* A caller's key is a key of the map (dedupKey).
LEMMA KeyIsKey == \A c \in Callers : DedupKey(c) \in Keys
BY DEF Keys

\* The marks for no entry and for a torn copy name no caller.
LEMMA NoneIsNoCaller == None \notin Callers /\ Torn \notin Callers /\ None # Torn
BY CallersAreNotModelMarks DEF None, Torn

\* What eviction at a clock reading does to one entry and to the map.
LEMMA EvictFacts ==
    ASSUME IInv, NEW t \in Nat, t <= now
    PROVE  /\ AfterEvict(t) \in [Keys -> Callers \cup {None}]
           /\ Evicted(t) \in [Callers -> [reply : Replies, done : Channel,
                                          expires : Nat, born : Nat]]
           /\ \A k \in Keys :
                 AfterEvict(t)[k] # None => AfterEvict(t)[k] = entries[k]
           /\ \A e \in Callers :
                 /\ Evicted(t)[e].reply = entry[e].reply
                 /\ Evicted(t)[e].expires = entry[e].expires
                 /\ Evicted(t)[e].born = entry[e].born
                 /\ (Evicted(t)[e].done = "nil") <=> (entry[e].done = "nil")
                 /\ Evicted(t)[e].done # "panic"
                 /\ Evicted(t)[e].done = "open" => entry[e].done = "open"
                 /\ Live(e) /\ AfterEvict(t)[DedupKey(e)] # e
                    => t >= entry[e].expires /\ Evicted(t)[e].done # "open"
<1> USE DEF Channel, CloseChannel, Replies, TypeOK, NoDoubleClose
<1>1. AfterEvict(t) \in [Keys -> Callers \cup {None}]
  BY DEF IInv, AfterEvict
<1>2. Evicted(t) \in [Callers -> [reply : Replies, done : Channel,
                                   expires : Nat, born : Nat]]
  BY DEF IInv, Evicted
<1>3. \A k \in Keys : AfterEvict(t)[k] # None => AfterEvict(t)[k] = entries[k]
  BY DEF IInv, AfterEvict
<1>4. ASSUME NEW e \in Callers
      PROVE  /\ Evicted(t)[e].reply = entry[e].reply
             /\ Evicted(t)[e].expires = entry[e].expires
             /\ Evicted(t)[e].born = entry[e].born
             /\ (Evicted(t)[e].done = "nil") <=> (entry[e].done = "nil")
             /\ Evicted(t)[e].done # "panic"
             /\ Evicted(t)[e].done = "open" => entry[e].done = "open"
  BY DEF IInv, Evicted
<1>5. ASSUME NEW e \in Callers, Live(e), AfterEvict(t)[DedupKey(e)] # e
      PROVE  t >= entry[e].expires /\ Evicted(t)[e].done # "open"
  BY <1>5, KeyIsKey, NoneIsNoCaller DEF IInv, Evicted, AfterEvict, Expired, Live
<1> QED BY <1>1, <1>2, <1>3, <1>4, <1>5

\* The invariant holds of a new Deduplicator (NewDeduplicator).
THEOREM InitIInv == Init => IInv
<1> SUFFICES ASSUME Init PROVE IInv
  OBVIOUS
<1> USE NoneIsNoCaller DEF Init, NoEntry, Allocated, Replies, Channel, Phases
<1>1. TypeOK
  BY DEF TypeOK
<1>2. MapInv /\ AllocInv /\ ClockInv /\ EvictedInv
  BY KeyIsKey DEF MapInv, AllocInv, ClockInv, EvictedInv
<1>3. PointerInv /\ NoDoubleClose /\ WindowsExclusive
  BY DEF PointerInv, NoDoubleClose, WindowsExclusive
<1>4. ReplyInv /\ TornOnlyAfterSlowHandler
  BY DEF ReplyInv, TornOnlyAfterSlowHandler
<1> QED BY <1>1, <1>2, <1>3, <1>4 DEF IInv

\* A step of one caller changes its phase and one more of its variables: the
\* callers' states keep their type.
LEMMA CallStepType ==
    ASSUME IInv, NEW c \in Callers, NEW p \in Phases
    PROVE  /\ \A n \in Nat : [call EXCEPT ![c].at = p, ![c].now = n] \in
                 [Callers -> [at : Phases, now : Nat, ptr : Callers \cup {None},
                              got : Replies \cup {Torn}]]
           /\ \A q \in Callers \cup {None} : [call EXCEPT ![c].at = p, ![c].ptr = q] \in
                 [Callers -> [at : Phases, now : Nat, ptr : Callers \cup {None},
                              got : Replies \cup {Torn}]]
           /\ \A g \in Replies \cup {Torn} : [call EXCEPT ![c].at = p, ![c].got = g] \in
                 [Callers -> [at : Phases, now : Nat, ptr : Callers \cup {None},
                              got : Replies \cup {Torn}]]
<1> DEFINE Ptrs == Callers \cup {None}
           Gots == Replies \cup {Torn}
<1>1. call \in [Callers -> [at : Phases, now : Nat, ptr : Ptrs, got : Gots]]
  BY DEF IInv, TypeOK
<1> HIDE DEF Ptrs, Gots
<1>2. \A n \in Nat : [call EXCEPT ![c].at = p, ![c].now = n] \in
         [Callers -> [at : Phases, now : Nat, ptr : Ptrs, got : Gots]]
  BY <1>1
<1>3. \A q \in Ptrs : [call EXCEPT ![c].at = p, ![c].ptr = q] \in
         [Callers -> [at : Phases, now : Nat, ptr : Ptrs, got : Gots]]
  BY <1>1
<1>4. \A g \in Gots : [call EXCEPT ![c].at = p, ![c].got = g] \in
         [Callers -> [at : Phases, now : Nat, ptr : Ptrs, got : Gots]]
  BY <1>1
<1> QED BY <1>2, <1>3, <1>4 DEF Ptrs, Gots

-----------------------------------------------------------------------------
(* One lemma per action: it preserves the inductive invariant.             *)

\* Steps that leave the map and the entries alone, and only move c to a
\* phase about which IInv says little.
LEMMA SeenReadsClockIInv ==
    ASSUME IInv, NEW c \in Callers, SeenReadsClock(c) PROVE IInv'
<1> USE DEF SeenReadsClock, Allocated, Published
<1>1. TypeOK'
  <2>1. "seen" \in Phases /\ now \in Nat
    BY DEF Phases, IInv, TypeOK
  <2>2. call' \in [Callers -> [at : Phases, now : Nat, ptr : Callers \cup {None},
                               got : Replies \cup {Torn}]]
    BY <2>1, CallStepType DEF SeenReadsClock
  <2> QED BY <2>2 DEF IInv, TypeOK
<1>2. MapInv' /\ AllocInv' /\ EvictedInv'
  BY DEF IInv, TypeOK, MapInv, AllocInv, EvictedInv, Live
<1>3. ClockInv' /\ NoDoubleClose' /\ WindowsExclusive'
  BY DEF IInv, TypeOK, ClockInv, NoDoubleClose, WindowsExclusive
<1>4. PointerInv' /\ ReplyInv'
  BY DEF IInv, TypeOK, PointerInv, ReplyInv
<1>5. TornOnlyAfterSlowHandler'
  <2>1. /\ TornOnlyAfterSlowHandler
        /\ call \in [Callers -> [at : Phases, now : Nat, ptr : Callers \cup {None},
                                 got : Replies \cup {Torn}]]
    BY DEF IInv, TypeOK
  <2> QED BY <2>1 DEF TornOnlyAfterSlowHandler
<1> QED BY <1>1, <1>2, <1>3, <1>4, <1>5 DEF IInv

\* Eviction alone: Cleanup, and Seen of a duplicate.
LEMMA EvictIInv ==
    ASSUME IInv, NEW t \in Nat, t <= now,
           now' = now, entries' = AfterEvict(t), entry' = Evicted(t),
           \/ call' = call
           \/ \E c \in Callers : call[c].at = "seen" /\ Goto(c, "duplicate")
    PROVE  IInv'
<1>0. /\ entries' \in [Keys -> Callers \cup {None}]
      /\ entry' \in [Callers -> [reply : Replies, done : Channel,
                                  expires : Nat, born : Nat]]
      /\ \A k \in Keys : entries'[k] # None => entries'[k] = entries[k]
      /\ \A e \in Callers :
            /\ entry'[e].reply = entry[e].reply
            /\ entry'[e].expires = entry[e].expires
            /\ entry'[e].born = entry[e].born
            /\ (entry'[e].done = "nil") <=> (entry[e].done = "nil")
            /\ entry'[e].done # "panic"
            /\ entry'[e].done = "open" => entry[e].done = "open"
            /\ Live(e) /\ entries'[DedupKey(e)] # e
               => now >= entry[e].expires /\ entry'[e].done # "open"
  <2>1. \A e \in Callers : entry[e].expires \in Nat /\ now \in Nat
    BY DEF IInv, TypeOK
  <2> QED BY <2>1, EvictFacts
<1>1. /\ call' \in [Callers -> [at : Phases, now : Nat, ptr : Callers \cup {None},
                                 got : Replies \cup {Torn}]]
      /\ \A d \in Callers :
            /\ call'[d].ptr = call[d].ptr /\ call'[d].got = call[d].got
            /\ call'[d].now <= now
            /\ \/ call'[d].at = call[d].at
               \/ call[d].at = "seen" /\ call'[d].at = "duplicate"
  <2>1. CASE call' = call
    BY <2>1 DEF IInv, TypeOK, ClockInv
  <2>2. CASE \E c \in Callers : call[c].at = "seen" /\ Goto(c, "duplicate")
    <3>1. PICK c \in Callers : call[c].at = "seen" /\ Goto(c, "duplicate")
      BY <2>2
    <3>2. call' = [call EXCEPT ![c] = [@ EXCEPT !.at = "duplicate", !.now = 0]]
      BY <3>1 DEF Goto
    <3>4. call[c] \in [at : Phases, now : Nat, ptr : Callers \cup {None},
                       got : Replies \cup {Torn}]
      BY DEF IInv, TypeOK
    <3>5. call' \in [Callers -> [at : Phases, now : Nat, ptr : Callers \cup {None},
                                 got : Replies \cup {Torn}]]
      BY <3>2, <3>4 DEF IInv, TypeOK, Phases
    <3>6. /\ call'[c].at = "duplicate" /\ call'[c].now = 0
          /\ call'[c].ptr = call[c].ptr /\ call'[c].got = call[c].got
      BY <3>2, <3>4 DEF IInv, TypeOK
    <3>7. \A d \in Callers \ {c} : call'[d] = call[d]
      BY <3>2 DEF IInv, TypeOK
    <3>8. 0 <= now /\ \A d \in Callers : call[d].now <= now
      BY DEF IInv, TypeOK, ClockInv
    <3> QED BY <3>1, <3>5, <3>6, <3>7, <3>8
  <2> QED BY <2>1, <2>2
<1>2. TypeOK'
  BY <1>0, <1>1 DEF IInv, TypeOK
<1>3. MapInv'
  BY <1>0 DEF IInv, MapInv, TypeOK, Allocated
<1>4. AllocInv'
  BY <1>0, <1>1 DEF IInv, AllocInv, Allocated
<1>5. ClockInv'
  BY <1>0, <1>1 DEF IInv, ClockInv
<1>6. EvictedInv'
  <2> SUFFICES ASSUME NEW e \in Callers, Allocated(e)', ~Live(e)'
               PROVE  now >= entry'[e].expires /\ entry'[e].done # "open"
    BY DEF EvictedInv
  <2>1. Allocated(e) /\ entries'[DedupKey(e)] # e
    BY <1>0 DEF Allocated, Live, DedupKey
  <2> QED BY <2>1, <1>0 DEF IInv, EvictedInv
<1>7. /\ PointerInv'
      /\ NoDoubleClose'
      /\ WindowsExclusive'
  <2>1. PointerInv'
    <3> SUFFICES ASSUME NEW d \in Callers, call'[d].at \in {"waiting", "copying"}
                 PROVE  /\ call'[d].ptr \in Callers
                        /\ Allocated(call[d].ptr)'
                        /\ DedupKey(call'[d].ptr) = DedupKey(d)
      BY DEF PointerInv, DedupKey
    <3>1. /\ call[d].ptr \in Callers
          /\ Allocated(call[d].ptr)
          /\ DedupKey(call[d].ptr) = DedupKey(d)
      BY <1>1 DEF IInv, PointerInv
    <3> QED BY <1>0, <1>1, <3>1 DEF Allocated
  <2>2. NoDoubleClose'
    BY <1>0 DEF NoDoubleClose
  <2>3. WindowsExclusive'
    <3>1. \A e \in Callers : /\ Allocated(e)' => Allocated(e)
                             /\ entry'[e].born = entry[e].born
                             /\ entry'[e].expires = entry[e].expires
      BY <1>0 DEF Allocated
    <3>2. WindowsExclusive
      BY DEF IInv
    <3> QED BY Zenon, <3>1, <3>2 DEF WindowsExclusive, DedupKey
  <2> QED BY <2>1, <2>2, <2>3
<1>8. \A r, k : Published(r, k) => Published(r, k)'
  BY <1>1 DEF Published, DedupKey
<1>9. ReplyInv'
  <2>0. ReplyInv
    BY DEF IInv
  <2>1. (\A e \in Callers : entry[e].reply # None => Published(entry[e].reply, DedupKey(e)))'
    <3> SUFFICES ASSUME NEW e \in Callers, entry'[e].reply # None
                 PROVE  Published(entry[e].reply, DedupKey(e))'
      BY DEF DedupKey
    <3>1. entry'[e].reply = entry[e].reply
      BY <1>0
    <3>2. PICK r : r = entry[e].reply
      OBVIOUS
    <3>3. Published(r, DedupKey(e))
      BY <2>0, <3>1, <3>2 DEF ReplyInv
    <3>4. Published(r, DedupKey(e))'
      BY <1>8, <3>3 DEF DedupKey
    <3> QED BY <3>1, <3>2, <3>4 DEF Published
  <2>2. (\A d \in Callers :
           /\ call[d].at = "copying" => Published(call[d].got, DedupKey(d))
           /\ call[d].at = "hit" /\ call[d].got # Torn
              => Published(call[d].got, DedupKey(d)))'
    BY <1>1, <1>8, <2>0 DEF ReplyInv, DedupKey
  <2>3. \A d \in Callers : call'[d].at = "copying" => entry'[call'[d].ptr].reply # None
    BY <1>0, <1>1 DEF IInv, PointerInv, ReplyInv
  <2> QED BY <2>1, <2>2, <2>3 DEF ReplyInv
<1>10. TornOnlyAfterSlowHandler'
  <2> SUFFICES ASSUME NEW c \in Callers, call'[c].got = Torn
               PROVE  \E d, e \in Callers :
                         /\ d # e
                         /\ DedupKey(d) = DedupKey(c) /\ DedupKey(e) = DedupKey(c)
                         /\ call'[d].at = "stored" /\ call'[e].at = "stored"
                         /\ now' >= entry'[d].expires
    BY DEF TornOnlyAfterSlowHandler, DedupKey
  <2>1. PICK d \in Callers, e \in Callers :
           /\ d # e
           /\ DedupKey(d) = DedupKey(c) /\ DedupKey(e) = DedupKey(c)
           /\ call[d].at = "stored" /\ call[e].at = "stored"
           /\ now >= entry[d].expires
    BY <1>1 DEF IInv, TornOnlyAfterSlowHandler
  <2> QED BY <1>0, <1>1, <2>1
<1> QED BY <1>2, <1>3, <1>4, <1>5, <1>6, <1>7, <1>9, <1>10 DEF IInv

\* Seen of a first sighting: eviction, then an insertion under a free key.
LEMMA InsertIInv ==
    ASSUME IInv, NEW c \in Callers, SeenLocked(c),
           AfterEvict(call[c].now)[DedupKey(c)] = None
    PROVE  IInv'
<1> DEFINE t == call[c].now
           k == DedupKey(c)
           new == [reply |-> None, done |-> "open", expires |-> t + Ttl, born |-> now]
<1>0. /\ t \in Nat /\ t <= now
      /\ k \in Keys
      /\ call[c].at = "seen" /\ ~Allocated(c)
      /\ now' = now
      /\ entries' = [AfterEvict(t) EXCEPT ![k] = c]
      /\ entry' = [Evicted(t) EXCEPT ![c] = new]
      /\ call' = [call EXCEPT ![c].at = "first", ![c].now = 0]
  BY KeyIsKey DEF IInv, TypeOK, ClockInv, AllocInv, SeenLocked, FreshEntry, Goto
<1>1. /\ Evicted(t) \in [Callers -> [reply : Replies, done : Channel,
                                     expires : Nat, born : Nat]]
      /\ AfterEvict(t) \in [Keys -> Callers \cup {None}]
      /\ \A d \in Callers : now >= Evicted(t)[d].born
  BY <1>0, EvictFacts DEF IInv, ClockInv
<1>2. TypeOK'
  <2>1. new \in [reply : Replies, done : Channel, expires : Nat, born : Nat]
    BY <1>0, TimeAssumption DEF IInv, TypeOK, Replies, Channel
  <2>2. /\ now' \in Nat
        /\ entries' \in [Keys -> Callers \cup {None}]
        /\ entry' \in [Callers -> [reply : Replies, done : Channel,
                                    expires : Nat, born : Nat]]
    BY <1>0, <1>1, <2>1 DEF IInv, TypeOK
  <2>3. call' \in [Callers -> [at : Phases, now : Nat, ptr : Callers \cup {None},
                               got : Replies \cup {Torn}]]
    <3>1. call' = [call EXCEPT ![c].at = "first", ![c].now = 0]
      BY <1>0
    <3>2. "first" \in Phases /\ 0 \in Nat
      BY DEF Phases
    <3> QED BY <3>1, <3>2, CallStepType
  <2> QED BY <2>2, <2>3 DEF TypeOK
<1>3. /\ entry'[c] = new
      /\ \A d \in Callers \ {c} : entry'[d] = Evicted(t)[d]
  BY <1>0, <1>1
<1>4. MapInv'
  <2> SUFFICES ASSUME NEW j \in Keys, entries'[j] # None
               PROVE  DedupKey(entries'[j]) = j /\ Allocated(entries[j])'
    BY DEF MapInv, DedupKey
  <2>1. CASE j = k
    BY <1>0, <1>1, <1>3, <2>1 DEF Allocated
  <2>2. CASE j # k
    <3>1. entries'[j] = entries[j] /\ entries[j] \in Callers
      BY <1>0, <1>1, <2>2, EvictFacts DEF IInv, TypeOK
    <3>2. DedupKey(entries[j]) = j /\ Allocated(entries[j])
      BY <3>1, NoneIsNoCaller DEF IInv, MapInv
    <3> QED BY <1>0, <1>3, <3>1, <3>2, EvictFacts DEF Allocated
  <2> QED BY <2>1, <2>2
<1>5. AllocInv' /\ ClockInv'
  BY <1>0, <1>1, <1>3, EvictFacts DEF IInv, TypeOK, AllocInv, ClockInv, Allocated
<1>6. ASSUME NEW d \in Callers, Allocated(d), DedupKey(d) = k
      PROVE  d # c /\ now >= entry[d].expires /\ Evicted(t)[d].done # "open"
  <2>1. d # c
    BY <1>0, <1>6
  <2>2. CASE Live(d)
    BY <2>1, <2>2, <1>0, <1>6, EvictFacts, NoneIsNoCaller DEF IInv, TypeOK
  <2>3. CASE ~Live(d)
    BY <2>1, <2>3, <1>0, <1>6, EvictFacts DEF IInv, EvictedInv
  <2> QED BY <2>2, <2>3
<1>7. EvictedInv'
  <2> SUFFICES ASSUME NEW d \in Callers, Allocated(d)', ~Live(d)'
               PROVE  now >= entry'[d].expires /\ entry'[d].done # "open"
    BY <1>0 DEF EvictedInv
  <2>1. d # c
    BY <1>0, <1>1 DEF Live
  <2>2. Allocated(d)
    BY <1>0, <1>3, <2>1, EvictFacts DEF Allocated
  <2>3. CASE DedupKey(d) = k
    BY <1>0, <1>3, <1>6, <2>1, <2>2, <2>3, EvictFacts
  <2>4. CASE DedupKey(d) # k
    <3>1. AfterEvict(t)[DedupKey(d)] # d
      BY <1>0, <1>1, <2>4, KeyIsKey DEF Live
    <3> QED BY <1>0, <1>3, <2>1, <2>2, <3>1, EvictFacts DEF IInv, EvictedInv, TypeOK
  <2> QED BY <2>3, <2>4
<1>8. PointerInv' /\ NoDoubleClose'
  BY <1>0, <1>1, <1>3, EvictFacts
     DEF IInv, TypeOK, PointerInv, NoDoubleClose, Allocated
<1>9. WindowsExclusive'
  <2> SUFFICES ASSUME NEW d \in Callers, NEW e \in Callers, d # e,
                      Allocated(d)', Allocated(e)', DedupKey(d) = DedupKey(e)
               PROVE  \/ entry'[e].born >= entry'[d].expires
                      \/ entry'[d].born >= entry'[e].expires
    BY DEF WindowsExclusive, DedupKey
  <2>1. CASE d # c /\ e # c
    BY <1>0, <1>3, <2>1, EvictFacts DEF IInv, WindowsExclusive, Allocated
  <2>2. CASE d = c
    <3>1. Allocated(e)
      BY <1>0, <1>3, <2>2, EvictFacts DEF Allocated
    <3> QED BY <1>0, <1>3, <1>6, <2>2, <3>1, EvictFacts
  <2>3. CASE e = c
    <3>1. Allocated(d)
      BY <1>0, <1>3, <2>3, EvictFacts DEF Allocated
    <3> QED BY <1>0, <1>3, <1>6, <2>3, <3>1, EvictFacts
  <2> QED BY <2>1, <2>2, <2>3
<1>10. /\ call'[c].at = "first" /\ call'[c].got = call[c].got
       /\ \A d \in Callers \ {c} : call'[d] = call[d]
  BY <1>0 DEF IInv, TypeOK
<1>11. ReplyInv'
  <2>1. \A r, j : Published(r, j) => Published(r, j)'
    BY <1>0, <1>10 DEF Published, DedupKey
  <2>2. \A d \in Callers : entry'[d].reply = IF d = c THEN None ELSE entry[d].reply
    BY <1>0, <1>3, EvictFacts
  <2>3. (\A e \in Callers : entry[e].reply # None => Published(entry[e].reply, DedupKey(e)))'
    <3> DEFINE Stored(r, j) == r \in Callers /\ call'[r].at = "stored" /\ DedupKey(r) = j
    <3>1. \A r, j : Published(r, j) => Stored(r, j)
      BY <2>1 DEF Published, DedupKey
    <3>2. ASSUME NEW e \in Callers, entry'[e].reply # None
          PROVE  Stored(entry'[e].reply, DedupKey(e))
      <4>1. entry'[e].reply = entry[e].reply /\ entry[e].reply # None
        BY <2>2, <3>2
      <4>2. Published(entry[e].reply, DedupKey(e))
        BY <4>1 DEF IInv, ReplyInv
      <4> QED BY <3>1, <4>1, <4>2
    <3> QED BY <3>2 DEF Published, DedupKey
  <2>4. (\A d \in Callers :
           /\ call[d].at = "copying" => Published(call[d].got, DedupKey(d))
           /\ call[d].at = "hit" /\ call[d].got # Torn
              => Published(call[d].got, DedupKey(d)))'
    <3> DEFINE Stored(r, j) == r \in Callers /\ call'[r].at = "stored" /\ DedupKey(r) = j
    <3>1. \A r, j : Published(r, j) => Stored(r, j)
      BY <2>1 DEF Published, DedupKey
    <3>2. ASSUME NEW d \in Callers,
                 \/ call'[d].at = "copying"
                 \/ call'[d].at = "hit" /\ call'[d].got # Torn
          PROVE  Stored(call'[d].got, DedupKey(d))
      <4>1. d # c /\ call'[d] = call[d]
        BY <1>10, <3>2
      <4>2. Published(call[d].got, DedupKey(d))
        BY <3>2, <4>1 DEF IInv, ReplyInv
      <4> QED BY <3>1, <4>1, <4>2
    <3> QED BY <3>2 DEF Published, DedupKey
  <2>5. \A d \in Callers : call'[d].at = "copying" => entry'[call'[d].ptr].reply # None
    <3> SUFFICES ASSUME NEW d \in Callers, call'[d].at = "copying"
                 PROVE  entry'[call'[d].ptr].reply # None
      OBVIOUS
    <3>1. d # c /\ call'[d] = call[d] /\ call[d].at = "copying"
      BY <1>10
    <3>2. call[d].ptr \in Callers /\ Allocated(call[d].ptr)
      BY <3>1 DEF IInv, PointerInv
    <3>3. entry[call[d].ptr].reply # None
      BY <3>1 DEF IInv, ReplyInv
    <3>4. call[d].ptr # c
      BY <1>0, <3>2
    <3> QED BY <2>2, <3>1, <3>2, <3>3, <3>4
  <2> QED BY <2>3, <2>4, <2>5 DEF ReplyInv
<1>12. TornOnlyAfterSlowHandler'
  <2> SUFFICES ASSUME NEW f \in Callers, call'[f].got = Torn
               PROVE  \E d, e \in Callers :
                         /\ d # e
                         /\ DedupKey(d) = DedupKey(f) /\ DedupKey(e) = DedupKey(f)
                         /\ call'[d].at = "stored" /\ call'[e].at = "stored"
                         /\ now' >= entry'[d].expires
    BY DEF TornOnlyAfterSlowHandler, DedupKey
  <2>1. PICK d \in Callers, e \in Callers :
           /\ d # e
           /\ DedupKey(d) = DedupKey(f) /\ DedupKey(e) = DedupKey(f)
           /\ call[d].at = "stored" /\ call[e].at = "stored"
           /\ now >= entry[d].expires
    BY <1>10 DEF IInv, TornOnlyAfterSlowHandler
  <2>2. d # c /\ e # c
    BY <1>0, <2>1
  <2>3. entry'[d].expires = entry[d].expires
    BY <1>0, <1>3, <2>2, EvictFacts
  <2> QED BY <1>0, <1>10, <2>1, <2>2, <2>3
<1> QED BY <1>2, <1>4, <1>5, <1>7, <1>8, <1>9, <1>11, <1>12 DEF IInv

\* Store publishes c in the live entry of its key, which may be another's.
LEMMA StoreIInv ==
    ASSUME IInv, NEW c \in Callers, Store(c) PROVE IInv'
<1> DEFINE k == DedupKey(c)
           o == entries[k]
<1>1. /\ call[c].at = "first" /\ now' = now /\ entries' = entries
      /\ call' = [call EXCEPT ![c].at = "stored", ![c].now = 0]
      /\ k \in Keys
  BY KeyIsKey DEF Store, Goto
<1>2. /\ call'[c].at = "stored" /\ call'[c].got = call[c].got
      /\ call'[c].ptr = call[c].ptr /\ call'[c].now = 0
      /\ \A d \in Callers \ {c} : call'[d] = call[d]
  BY <1>1 DEF IInv, TypeOK
<1>3. o # None => o \in Callers /\ DedupKey(o) = k /\ Allocated(o)
  BY <1>1 DEF IInv, TypeOK, MapInv
<1>4. /\ entry' \in [Callers -> [reply : Replies, done : Channel,
                                 expires : Nat, born : Nat]]
      /\ \A d \in Callers :
            /\ entry'[d].reply = IF d = o THEN c ELSE entry[d].reply
            /\ entry'[d].expires = entry[d].expires
            /\ entry'[d].born = entry[d].born
            /\ (entry'[d].done = "nil") <=> (entry[d].done = "nil")
            /\ entry'[d].done # "panic"
            /\ entry'[d].done = "open" => entry[d].done = "open"
  <2>0. /\ entry \in [Callers -> [reply : Replies, done : Channel,
                                  expires : Nat, born : Nat]]
        /\ \A d \in Callers : entry[d].done # "panic"
    BY DEF IInv, TypeOK, NoDoubleClose
  <2>1. CASE o = None
    <3>1. entry' = entry
      BY <2>1 DEF Store
    <3> QED BY <2>0, <2>1, <3>1, NoneIsNoCaller
  <2>2. CASE o # None
    BY <2>2, <1>3 DEF IInv, TypeOK, Store, NoDoubleClose, CloseChannel, Channel,
                      Replies, Allocated
  <2> QED BY <2>1, <2>2
<1>5. TypeOK'
  <2>1. call' \in [Callers -> [at : Phases, now : Nat, ptr : Callers \cup {None},
                               got : Replies \cup {Torn}]]
    <3>1. call' = [call EXCEPT ![c].at = "stored", ![c].now = 0]
      BY <1>1
    <3>2. "stored" \in Phases /\ 0 \in Nat
      BY DEF Phases
    <3> QED BY <3>1, <3>2, CallStepType
  <2>2. now' \in Nat /\ entries' \in [Keys -> Callers \cup {None}]
    BY <1>1 DEF IInv, TypeOK
  <2> QED BY <1>4, <2>1, <2>2 DEF TypeOK
<1>6. /\ MapInv'
      /\ EvictedInv'
  <2>1. MapInv'
    BY <1>1, <1>4 DEF IInv, MapInv, Allocated, DedupKey, TypeOK
  <2>2. EvictedInv'
    BY <1>1, <1>4 DEF IInv, EvictedInv, Allocated, Live, DedupKey
  <2> QED BY <2>1, <2>2
<1>7. AllocInv'
  <2> SUFFICES ASSUME NEW d \in Callers
               PROVE  /\ call'[d].at \in {"idle", "seen"} => ~Allocated(d)'
                      /\ call'[d].at \in {"first", "stored"} => Allocated(d)'
    BY DEF AllocInv, Allocated
  <2>1. Allocated(d)' <=> Allocated(d)
    BY <1>4 DEF Allocated
  <2>2. /\ call[d].at \in {"idle", "seen"} => ~Allocated(d)
        /\ call[d].at \in {"first", "stored"} => Allocated(d)
    BY DEF IInv, AllocInv
  <2>3. CASE d = c
    BY <1>1, <1>2, <2>1, <2>2, <2>3
  <2>4. CASE d # c
    BY <1>2, <2>1, <2>2, <2>4
  <2> QED BY <2>3, <2>4
<1>8. ClockInv'
  <2>1. \A d \in Callers : now' >= entry'[d].born
    BY <1>1, <1>4 DEF IInv, ClockInv
  <2>2. \A d \in Callers : call'[d].now <= now'
    BY <1>1, <1>2 DEF IInv, TypeOK, ClockInv
  <2> QED BY <2>1, <2>2 DEF ClockInv
<1>9. NoDoubleClose' /\ WindowsExclusive'
  <2>1. WindowsExclusive'
    BY <1>4 DEF IInv, WindowsExclusive, Allocated, DedupKey
  <2> QED BY <2>1, <1>4 DEF NoDoubleClose
<1>10. PointerInv'
  BY <1>2, <1>4 DEF IInv, PointerInv, Allocated, DedupKey
<1>11. ReplyInv'
  <2>1. \A r, j : Published(r, j) => Published(r, j)'
    BY <1>1, <1>2 DEF Published, DedupKey
  <2>2. Published(c, k)'
    BY <1>2 DEF Published, DedupKey
  <2>3. (\A e \in Callers : entry[e].reply # None => Published(entry[e].reply, DedupKey(e)))'
    <3> SUFFICES ASSUME NEW e \in Callers, entry'[e].reply # None
                 PROVE  Published(entry[e].reply, DedupKey(e))'
      BY DEF DedupKey
    <3>1. CASE e = o
      <4>1. entry'[e].reply = c /\ DedupKey(e) = k
        BY <1>3, <1>4, <3>1, NoneIsNoCaller
      <4> QED BY <4>1, <2>2 DEF DedupKey
    <3>2. CASE e # o
      <4>1. entry'[e].reply = entry[e].reply
        BY <1>4, <3>2
      <4>2. Published(entry[e].reply, DedupKey(e))
        BY <4>1 DEF IInv, ReplyInv
      <4> QED BY <4>1, <4>2, <2>1 DEF DedupKey, Published
    <3> QED BY <3>1, <3>2
  <2>4. (\A d \in Callers :
           /\ call[d].at = "copying" => Published(call[d].got, DedupKey(d))
           /\ call[d].at = "hit" /\ call[d].got # Torn
              => Published(call[d].got, DedupKey(d)))'
    BY <1>2, <2>1 DEF IInv, ReplyInv, DedupKey
  <2>5. \A d \in Callers : call'[d].at = "copying" => entry'[call'[d].ptr].reply # None
    BY <1>2, <1>4, NoneIsNoCaller DEF IInv, PointerInv, ReplyInv
  <2> QED BY <2>3, <2>4, <2>5 DEF ReplyInv
<1>12. TornOnlyAfterSlowHandler'
  <2> SUFFICES ASSUME NEW f \in Callers, call'[f].got = Torn
               PROVE  \E d, e \in Callers :
                         /\ d # e
                         /\ DedupKey(d) = DedupKey(f) /\ DedupKey(e) = DedupKey(f)
                         /\ call'[d].at = "stored" /\ call'[e].at = "stored"
                         /\ now' >= entry'[d].expires
    BY DEF TornOnlyAfterSlowHandler, DedupKey
  <2>1. PICK d \in Callers, e \in Callers :
           /\ d # e
           /\ DedupKey(d) = DedupKey(f) /\ DedupKey(e) = DedupKey(f)
           /\ call[d].at = "stored" /\ call[e].at = "stored"
           /\ now >= entry[d].expires
    BY <1>2 DEF IInv, TornOnlyAfterSlowHandler
  <2>2. entry'[d].expires = entry[d].expires
    BY <1>4
  <2>3. call'[d].at = "stored" /\ call'[e].at = "stored"
    BY <1>2, <2>1
  <2> QED BY <1>1, <2>1, <2>2, <2>3
<1> QED BY <1>5, <1>6, <1>7, <1>8, <1>9, <1>10, <1>11, <1>12 DEF IInv

\* Steps of one caller that leave the clock, the map and the entries alone:
\* what they must establish of the caller's new state.
LEMMA CallerStepIInv ==
    ASSUME IInv, NEW c \in Callers,
           UNCHANGED <<now, entries, entry>>,
           call[c].at \in {"first", "duplicate", "waiting", "copying"},
           call' \in [Callers -> [at : Phases, now : Nat, ptr : Callers \cup {None},
                                  got : Replies \cup {Torn}]],
           \A d \in Callers \ {c} : call'[d] = call[d],
           call'[c].now <= now,
           call'[c].at \in {"silent", "miss", "waiting", "copying", "hit"},
           call'[c].at \in {"waiting", "copying"}
           => /\ call'[c].ptr \in Callers
              /\ Allocated(call'[c].ptr)
              /\ DedupKey(call'[c].ptr) = DedupKey(c),
           call'[c].at = "copying"
           => /\ Published(call'[c].got, DedupKey(c))
              /\ entry[call'[c].ptr].reply # None,
           call'[c].at = "hit" /\ call'[c].got # Torn
           => Published(call'[c].got, DedupKey(c)),
           call'[c].got = Torn /\ call[c].got # Torn
           => \E d, e \in Callers :
                 /\ d # e
                 /\ DedupKey(d) = DedupKey(c) /\ DedupKey(e) = DedupKey(c)
                 /\ call[d].at = "stored" /\ call[e].at = "stored"
                 /\ now >= entry[d].expires
    PROVE  IInv'
<1>1. TypeOK'
  BY DEF IInv, TypeOK
<1>2. /\ MapInv'
      /\ EvictedInv'
  BY DEF IInv, MapInv, EvictedInv, Allocated, Live, DedupKey
<1>3. AllocInv'
  BY DEF IInv, AllocInv, Allocated
<1>4. ClockInv'
  BY DEF IInv, ClockInv
<1>5. NoDoubleClose' /\ WindowsExclusive'
  BY DEF IInv, NoDoubleClose, WindowsExclusive, Allocated, DedupKey
<1>6. PointerInv'
  BY DEF IInv, PointerInv, Allocated, DedupKey
<1>7. \A r, k : Published(r, k) => (r \in Callers /\ call'[r].at = "stored" /\ DedupKey(r) = k)
  BY DEF Published
<1>8. ReplyInv'
  BY <1>7 DEF IInv, ReplyInv, PointerInv, Published, DedupKey
<1>9. TornOnlyAfterSlowHandler'
  BY DEF IInv, TornOnlyAfterSlowHandler, DedupKey
<1> QED BY <1>1, <1>2, <1>3, <1>4, <1>5, <1>6, <1>8, <1>9 DEF IInv

\* A handler that stays silent changes no entry (server.go:235-253).
LEMMA AbandonIInv ==
    ASSUME IInv, NEW c \in Callers, Abandon(c) PROVE IInv'
<1>1. /\ call[c].at = "first" /\ UNCHANGED <<now, entries, entry>>
      /\ call' = [call EXCEPT ![c].at = "silent", ![c].now = 0]
  BY DEF Abandon, Goto
<1>2. call' \in [Callers -> [at : Phases, now : Nat, ptr : Callers \cup {None},
                             got : Replies \cup {Torn}]]
  <2>1. "silent" \in Phases /\ 0 \in Nat
    BY DEF Phases
  <2> QED BY <1>1, <2>1, CallStepType
<1>3. /\ call'[c].at = "silent" /\ call'[c].now <= now /\ call'[c].got = call[c].got
      /\ \A d \in Callers \ {c} : call'[d] = call[d]
  BY <1>1 DEF IInv, TypeOK
<1> QED BY <1>1, <1>2, <1>3, CallerStepIInv

\* Lookup takes an entry that is in the map (dedup.go:117-122).
LEMMA LookupLockedIInv ==
    ASSUME IInv, NEW c \in Callers, LookupLocked(c) PROVE IInv'
<1> DEFINE o == entries[DedupKey(c)]
<1>1. /\ call[c].at = "duplicate" /\ UNCHANGED <<now, entries, entry>>
      /\ call' = [call EXCEPT ![c].at = IF o = None THEN "miss" ELSE "waiting",
                              ![c].ptr = o]
      /\ o \in Callers \cup {None}
      /\ o # None => Allocated(o) /\ DedupKey(o) = DedupKey(c)
  BY KeyIsKey DEF IInv, TypeOK, MapInv, LookupLocked
<1>2. call' \in [Callers -> [at : Phases, now : Nat, ptr : Callers \cup {None},
                             got : Replies \cup {Torn}]]
  <2>1. PICK p \in Phases : call' = [call EXCEPT ![c].at = p, ![c].ptr = o]
    BY <1>1 DEF Phases
  <2>2. o \in Callers \cup {None}
    BY <1>1
  <2> HIDE DEF o
  <2> QED BY <2>1, <2>2, CallStepType
<1>3. /\ call'[c].at = IF o = None THEN "miss" ELSE "waiting"
      /\ call'[c].ptr = o /\ call'[c].now <= now /\ call'[c].got = call[c].got
      /\ \A d \in Callers \ {c} : call'[d] = call[d]
  BY <1>1 DEF IInv, TypeOK, ClockInv
<1> QED BY <1>1, <1>2, <1>3, CallerStepIInv

\* Lookup finds the reply of the entry whose channel closed (dedup.go:123-126).
LEMMA LookupWakesIInv ==
    ASSUME IInv, NEW c \in Callers, LookupWakes(c) PROVE IInv'
<1> DEFINE r == entry[call[c].ptr].reply
<1>1. /\ call[c].at = "waiting" /\ UNCHANGED <<now, entries, entry>>
      /\ call' = [call EXCEPT ![c].at = IF r = None THEN "miss" ELSE "copying",
                              ![c].got = r]
      /\ call[c].ptr \in Callers
      /\ r \in Replies
      /\ r # None => Published(r, DedupKey(c))
  BY DEF IInv, TypeOK, PointerInv, ReplyInv, LookupWakes
<1>2. call' \in [Callers -> [at : Phases, now : Nat, ptr : Callers \cup {None},
                             got : Replies \cup {Torn}]]
  <2>1. PICK p \in Phases : call' = [call EXCEPT ![c].at = p, ![c].got = r]
    BY <1>1 DEF Phases
  <2>2. r \in Replies \cup {Torn}
    BY <1>1
  <2> HIDE DEF r
  <2> QED BY <2>1, <2>2, CallStepType
<1>3. /\ call'[c].at = IF r = None THEN "miss" ELSE "copying"
      /\ call'[c].ptr = call[c].ptr /\ call'[c].now <= now /\ call'[c].got = r
      /\ r # Torn
      /\ \A d \in Callers \ {c} : call'[d] = call[d]
  BY <1>1, NoneIsNoCaller DEF IInv, TypeOK, ClockInv, Replies
<1>4. Allocated(call[c].ptr) /\ DedupKey(call[c].ptr) = DedupKey(c)
  BY <1>1 DEF IInv, PointerInv
<1> QED BY <1>1, <1>2, <1>3, <1>4, CallerStepIInv

\* A torn copy needs two replies of the key: the two callers that stored
\* them have windows apart, so the earlier one's is over.
LEMMA LookupCopiesIInv ==
    ASSUME IInv, NEW c \in Callers, LookupCopies(c) PROVE IInv'
<1> DEFINE latest == entry[call[c].ptr].reply
           old == call[c].got
<1>1. /\ call[c].at = "copying" /\ UNCHANGED <<now, entries, entry>>
      /\ Published(old, DedupKey(c))
      /\ Published(latest, DedupKey(c))
  BY DEF IInv, PointerInv, ReplyInv, LookupCopies
<1>2. PICK r : /\ r \in IF latest = old THEN {latest} ELSE {old, latest, Torn}
               /\ call' = [call EXCEPT ![c].at = "hit", ![c].got = r]
  BY DEF LookupCopies
<1>3. r \in Replies \cup {Torn}
  BY <1>1, <1>2 DEF Replies, Published
<1>4. call' \in [Callers -> [at : Phases, now : Nat, ptr : Callers \cup {None},
                             got : Replies \cup {Torn}]]
  <2>1. "hit" \in Phases
    BY DEF Phases
  <2> QED BY <1>2, <1>3, <2>1, CallStepType
<1>5. /\ call'[c].at = "hit" /\ call'[c].now <= now /\ call'[c].got = r
      /\ \A d \in Callers \ {c} : call'[d] = call[d]
  BY <1>2 DEF IInv, TypeOK, ClockInv
<1>6. r # Torn => Published(r, DedupKey(c))
  BY <1>1, <1>2
<1>7. ASSUME r = Torn
      PROVE  \E d, e \in Callers :
                /\ d # e
                /\ DedupKey(d) = DedupKey(c) /\ DedupKey(e) = DedupKey(c)
                /\ call[d].at = "stored" /\ call[e].at = "stored"
                /\ now >= entry[d].expires
  <2>1. latest # old
    BY <1>1, <1>2, <1>7, NoneIsNoCaller DEF Published
  <2>2. /\ latest \in Callers /\ old \in Callers
        /\ call[latest].at = "stored" /\ call[old].at = "stored"
        /\ DedupKey(latest) = DedupKey(c) /\ DedupKey(old) = DedupKey(c)
    BY <1>1 DEF Published
  <2>3. \/ entry[latest].born >= entry[old].expires
        \/ entry[old].born >= entry[latest].expires
    BY <2>1, <2>2 DEF IInv, AllocInv, WindowsExclusive
  <2>4. now >= entry[old].expires \/ now >= entry[latest].expires
    BY <2>2, <2>3 DEF IInv, TypeOK, ClockInv
  <2> QED BY <2>1, <2>2, <2>4
<1> QED BY <1>1, <1>4, <1>5, <1>6, <1>7, CallerStepIInv

\* Time changes no entry; expiry is noticed by eviction only.
LEMMA TickIInv == ASSUME IInv, Tick PROVE IInv'
<1> USE DEF Tick, Allocated, Published, DedupKey, Live
<1>1. now' = now + 1 /\ now \in Nat /\ UNCHANGED <<entries, entry, call>>
  BY DEF IInv, TypeOK
<1>2. TypeOK' /\ MapInv' /\ AllocInv' /\ PointerInv' /\ NoDoubleClose'
  BY <1>1 DEF IInv, TypeOK, MapInv, AllocInv, PointerInv, NoDoubleClose
<1>3. ClockInv' /\ EvictedInv'
  <2>1. ClockInv'
    BY <1>1 DEF IInv, TypeOK, ClockInv
  <2>2. \A e \in Callers : entry[e].expires \in Nat
    BY DEF IInv, TypeOK
  <2>3. EvictedInv'
    BY <1>1, <2>2 DEF IInv, EvictedInv
  <2> QED BY <2>1, <2>3
<1>4. WindowsExclusive' /\ ReplyInv'
  BY <1>1 DEF IInv, WindowsExclusive, ReplyInv
<1>5. TornOnlyAfterSlowHandler'
  BY <1>1 DEF IInv, TypeOK, TornOnlyAfterSlowHandler
<1> QED BY <1>2, <1>3, <1>4, <1>5 DEF IInv

-----------------------------------------------------------------------------
\* Every step preserves the inductive invariant.
LEMMA StepIInv == IInv /\ [Next]_vars => IInv'
<1> SUFFICES ASSUME IInv, [Next]_vars PROVE IInv'
  OBVIOUS
<1>1. CASE Tick
  BY <1>1, TickIInv
<1>2. CASE Cleanup
  <2>1. now \in Nat /\ now <= now
    BY DEF IInv, TypeOK
  <2>2. /\ now' = now /\ call' = call
        /\ entries' = AfterEvict(now) /\ entry' = Evicted(now)
    BY <1>2 DEF Cleanup
  <2> QED BY <2>1, <2>2, EvictIInv
<1>3. ASSUME NEW c \in Callers, Step(c)
      PROVE  IInv'
  <2>1. CASE SeenReadsClock(c)
    BY <2>1, SeenReadsClockIInv
  <2>2. CASE SeenLocked(c) /\ AfterEvict(call[c].now)[DedupKey(c)] = None
    BY <2>2, InsertIInv
  <2>3. CASE SeenLocked(c) /\ AfterEvict(call[c].now)[DedupKey(c)] # None
    <3>1. call[c].now \in Nat /\ call[c].now <= now
      BY DEF IInv, TypeOK, ClockInv
    <3>2. /\ now' = now /\ call[c].at = "seen" /\ Goto(c, "duplicate")
          /\ entries' = AfterEvict(call[c].now) /\ entry' = Evicted(call[c].now)
      BY <2>3 DEF SeenLocked
    <3> QED BY <3>1, <3>2, EvictIInv
  <2>4. CASE Store(c)
    BY <2>4, StoreIInv
  <2>5. CASE Abandon(c)
    BY <2>5, AbandonIInv
  <2>6. CASE Lookup(c)
    BY <2>6, LookupLockedIInv, LookupWakesIInv, LookupCopiesIInv DEF Lookup
  <2> QED BY <1>3, <2>1, <2>2, <2>3, <2>4, <2>5, <2>6 DEF Step
<1>4. CASE UNCHANGED vars
  BY <1>4 DEF IInv, vars, TypeOK, MapInv, AllocInv, ClockInv, EvictedInv,
              PointerInv, NoDoubleClose, WindowsExclusive, ReplyInv, Published,
              TornOnlyAfterSlowHandler, Allocated, Live, DedupKey
<1> QED BY <1>1, <1>2, <1>3, <1>4 DEF Next

\* IInv holds in every state of every behavior.
THEOREM Invariance == Spec => []IInv
<1>1. Init => IInv
  BY InitIInv
<1>2. IInv /\ [Next]_vars => IInv'
  BY StepIInv
<1> QED BY <1>1, <1>2, PTL DEF Spec

\* The types of the variables (server/dedup.go:41-51 and the locals).
THEOREM TypeCorrect == Spec => []TypeOK
<1>1. IInv => TypeOK
  BY DEF IInv
<1> QED BY <1>1, Invariance, PTL

\* Two first sightings of a key have windows that do not overlap, however
\* old the clock reading is with which Seen evicts (dedup.go:74-89).
THEOREM WindowsAreExclusive == Spec => []WindowsExclusive
<1>1. IInv => WindowsExclusive
  BY DEF IInv
<1> QED BY <1>1, Invariance, PTL

\* An entry that a Lookup waits for is either still in the map, where Store
\* and eviction find it, or its channel is closed (dedup.go:115-163).
THEOREM WaitersAreReachable == Spec => []NoOrphanedWaiter
<1>1. IInv => NoOrphanedWaiter
  BY DEF IInv, NoOrphanedWaiter, PointerInv, EvictedInv
<1> QED BY <1>1, Invariance, PTL

\* Store and eviction never close a closed channel (dedup.go:105-109, 155-159).
THEOREM ChannelsCloseOnce == Spec => []NoDoubleClose
<1>1. IInv => NoDoubleClose
  BY DEF IInv
<1> QED BY <1>1, Invariance, PTL

\* What Lookup returns was stored for the same key (dedup.go:96-128).
THEOREM HitsArePublished == Spec => []HitIsPublishedForItsKey
<1>1. IInv => HitIsPublishedForItsKey
  BY DEF IInv, HitIsPublishedForItsKey, ReplyInv, Published, DedupKey
<1> QED BY <1>1, Invariance, PTL

\* The unlocked read of the reply can only go wrong (dedup.go:124-127) when
\* a handler has outlived its entry.
THEOREM TearsNeedSlowHandler == Spec => []TornOnlyAfterSlowHandler
<1>1. IInv => TornOnlyAfterSlowHandler
  BY DEF IInv
<1> QED BY <1>1, Invariance, PTL

\* What is evicted stays as it is (dedup.go:96-110, 150-163): no step changes
\* an entry that is out of the map, or puts it back.
THEOREM EvictedStays == Spec => EvictedIsFinal
<1>1. ASSUME IInv, Next
      PROVE  \A e \in Callers :
                Allocated(e) /\ ~Live(e)
                => entry'[e] = entry[e] /\ entries'[DedupKey(e)] # e
  <2> SUFFICES ASSUME NEW e \in Callers, Allocated(e), ~Live(e)
               PROVE  entry'[e] = entry[e] /\ entries'[DedupKey(e)] # e
    OBVIOUS
  <2>1. \A t : /\ Evicted(t)[e] = entry[e]
               /\ AfterEvict(t)[DedupKey(e)] # e
    BY KeyIsKey, NoneIsNoCaller DEF Evicted, AfterEvict, Expired, Live
  <2>2. CASE Tick
    BY <2>2 DEF Tick, Live
  <2>3. CASE Cleanup
    BY <2>1, <2>3 DEF Cleanup
  <2>4. ASSUME NEW c \in Callers, Step(c)
        PROVE  entry'[e] = entry[e] /\ entries'[DedupKey(e)] # e
    <3>1. CASE SeenLocked(c)
      <4>1. call[c].at = "seen" /\ c # e
        BY <1>1, <3>1 DEF SeenLocked, IInv, AllocInv
      <4>2. CASE AfterEvict(call[c].now)[DedupKey(c)] # None
        BY <2>1, <3>1, <4>2 DEF SeenLocked
      <4>3. CASE AfterEvict(call[c].now)[DedupKey(c)] = None
        <5>1. /\ entries' = [AfterEvict(call[c].now) EXCEPT ![DedupKey(c)] = c]
              /\ entry'[e] = Evicted(call[c].now)[e]
          BY <3>1, <4>1, <4>3 DEF SeenLocked, FreshEntry, Evicted
        <5>2. AfterEvict(call[c].now) = [k \in Keys |-> AfterEvict(call[c].now)[k]]
          BY DEF AfterEvict
        <5>3. entries'[DedupKey(e)] # e
          BY <2>1, <4>1, <5>1, <5>2, KeyIsKey
        <5> QED BY <2>1, <5>1, <5>3
      <4> QED BY <4>2, <4>3
    <3>2. CASE Store(c)
      BY <1>1, <3>2, KeyIsKey DEF Store, IInv, TypeOK, MapInv, Live
    <3>3. CASE SeenReadsClock(c) \/ Abandon(c) \/ Lookup(c)
      BY <3>3 DEF SeenReadsClock, Abandon, Lookup, LookupLocked, LookupWakes,
                  LookupCopies, Live
    <3> QED BY <2>4, <3>1, <3>2, <3>3 DEF Step
  <2> QED BY <1>1, <2>2, <2>3, <2>4 DEF Next
<1>2. IInv /\ [Next]_vars => [EvictedUnchanged]_vars
  BY <1>1 DEF EvictedUnchanged
<1> QED BY <1>2, Invariance, PTL DEF Spec, EvictedIsFinal

-----------------------------------------------------------------------------
(* Whose reply an entry holds.  Store puts a caller's reply into another's *)
(* entry only when its own has left the map, hence has expired.            *)
Outlived(r) == now >= entry[r].expires

StaleInv ==
    /\ \A e \in Callers : entry[e].reply \notin {None, e} => Outlived(entry[e].reply)
    /\ \A c \in Callers :
          call[c].at \in {"copying", "hit"} /\ call[c].got \notin {call[c].ptr, Torn}
          => Outlived(call[c].got)

\* Time goes on, and the expiry of an entry stays what Seen made it.
LEMMA ExpiryStays ==
    ASSUME IInv, [Next]_vars, NEW e \in Callers, Allocated(e)
    PROVE  now' >= now /\ entry'[e].expires = entry[e].expires
<1>0. now \in Nat /\ now <= now
  BY DEF IInv, TypeOK
<1>1. CASE Tick \/ UNCHANGED vars
  BY <1>0, <1>1 DEF Tick, vars
<1>2. CASE Cleanup
  BY <1>0, <1>2, EvictFacts DEF Cleanup
<1>3. ASSUME NEW d \in Callers, Step(d)
      PROVE  now' = now /\ entry'[e].expires = entry[e].expires
  <2>1. CASE SeenLocked(d)
    <3>1. call[d].now \in Nat /\ call[d].now <= now /\ d # e
      BY <2>1 DEF IInv, TypeOK, ClockInv, AllocInv, SeenLocked
    <3>2. Evicted(call[d].now)[e].expires = entry[e].expires
      BY <3>1, EvictFacts
    <3>3. entry'[e] = Evicted(call[d].now)[e]
      BY <2>1, <3>1 DEF SeenLocked, Evicted
    <3> QED BY <2>1, <3>2, <3>3 DEF SeenLocked
  <2>2. CASE Store(d)
    BY <2>2 DEF Store, IInv, TypeOK
  <2>3. CASE SeenReadsClock(d) \/ Abandon(d) \/ Lookup(d)
    BY <2>3 DEF SeenReadsClock, Abandon, Lookup, LookupLocked, LookupWakes, LookupCopies
  <2> QED BY <1>3, <2>1, <2>2, <2>3 DEF Step
<1> QED BY <1>0, <1>1, <1>2, <1>3 DEF Next

\* Whoever outlived its window and stored has outlived it for good.
LEMMA OutlivedStays ==
    ASSUME IInv, [Next]_vars, NEW r, NEW k, Published(r, k), Outlived(r)
    PROVE  now' >= entry'[r].expires
<1>1. r \in Callers /\ Allocated(r)
  BY DEF Published, IInv, AllocInv
<1>2. now' >= now /\ entry'[r].expires = entry[r].expires
  BY <1>1, ExpiryStays
<1>3. now \in Nat /\ now' \in Nat /\ entry[r].expires \in Nat
  BY <1>1, StepIInv DEF IInv, TypeOK
<1> QED BY <1>2, <1>3 DEF Outlived

\* Steps that publish nothing and copy nothing.
LEMMA QuietStale ==
    ASSUME IInv, StaleInv, [Next]_vars,
           \A e \in Callers : entry'[e].reply \in {None, entry[e].reply},
           \A c \in Callers : call'[c].at \in {"copying", "hit"} => call'[c] = call[c]
    PROVE  StaleInv'
<1>1. ASSUME NEW e \in Callers, entry'[e].reply \notin {None, e}
      PROVE  now' >= entry'[entry'[e].reply].expires
  <2>1. Published(entry[e].reply, DedupKey(e)) /\ Outlived(entry[e].reply)
    BY <1>1 DEF StaleInv, IInv, ReplyInv
  <2> QED BY <1>1, <2>1, OutlivedStays
<1>2. ASSUME NEW c \in Callers, call'[c].at \in {"copying", "hit"},
             call'[c].got \notin {call'[c].ptr, Torn}
      PROVE  now' >= entry'[call'[c].got].expires
  <2>1. Published(call[c].got, DedupKey(c)) /\ Outlived(call[c].got)
    BY <1>2 DEF StaleInv, IInv, ReplyInv
  <2> QED BY <1>2, <2>1, OutlivedStays
<1> QED BY <1>1, <1>2 DEF StaleInv, Outlived

\* Store (dedup.go:96-110): what c finds under its key is its own entry, or
\* c's is out of the map.
LEMMA StoreStale ==
    ASSUME IInv, StaleInv, NEW c \in Callers, Store(c) PROVE StaleInv'
<1> DEFINE o == entries[DedupKey(c)]
<1>0. [Next]_vars
  BY DEF Next, Step
<1>1. /\ call[c].at = "first"
      /\ call' = [call EXCEPT ![c].at = "stored", ![c].now = 0]
      /\ \A e \in Callers : entry'[e].reply = IF e = o THEN c ELSE entry[e].reply
      /\ now' = now
      /\ \A e \in Callers : entry'[e].expires = entry[e].expires
  BY NoneIsNoCaller DEF Store, Goto, IInv, TypeOK
<1>2. ASSUME NEW e \in Callers, entry'[e].reply \notin {None, e}
      PROVE  now' >= entry'[entry'[e].reply].expires
  <2>1. CASE e = o
    <3>1. entry'[e].reply = c /\ c # e
      BY <1>1, <1>2, <2>1
    <3>2. Allocated(c) /\ ~Live(c)
      BY <1>1, <2>1, <3>1 DEF IInv, AllocInv, Live
    <3> QED BY <1>1, <3>1, <3>2 DEF IInv, EvictedInv, Outlived
  <2>2. CASE e # o
    <3>1. entry'[e].reply = entry[e].reply
      BY <1>1, <2>2
    <3>2. Published(entry[e].reply, DedupKey(e)) /\ Outlived(entry[e].reply)
      BY <1>2, <3>1 DEF StaleInv, IInv, ReplyInv
    <3> QED BY <1>0, <3>1, <3>2, OutlivedStays
  <2> QED BY <2>1, <2>2
<1>3. ASSUME NEW d \in Callers, call'[d].at \in {"copying", "hit"},
             call'[d].got \notin {call'[d].ptr, Torn}
      PROVE  now' >= entry'[call'[d].got].expires
  <2>1. call'[d] = call[d]
    BY <1>1, <1>3 DEF IInv, TypeOK
  <2>2. Published(call[d].got, DedupKey(d)) /\ Outlived(call[d].got)
    BY <1>3, <2>1 DEF StaleInv, IInv, ReplyInv
  <2> QED BY <1>0, <2>1, <2>2, OutlivedStays
<1> QED BY <1>2, <1>3 DEF StaleInv, Outlived

\* Lookup's wake-up and its copy (dedup.go:123-127) pass on what the entry
\* holds, now or when it was compared with nil.
LEMMA LookupStale ==
    ASSUME IInv, StaleInv, NEW c \in Callers, LookupWakes(c) \/ LookupCopies(c)
    PROVE  StaleInv'
<1> DEFINE held == entry[call[c].ptr].reply
<1>1. /\ UNCHANGED <<now, entry>>
      /\ call[c].ptr \in Callers
      /\ \A d \in Callers \ {c} : call'[d] = call[d]
      /\ call'[c].ptr = call[c].ptr
      /\ call'[c].at \in {"copying", "hit"} => call'[c].got \in {held, call[c].got, Torn}
  BY DEF LookupWakes, LookupCopies, IInv, TypeOK, PointerInv
<1>2. ASSUME call'[c].at \in {"copying", "hit"}, call'[c].got \notin {call[c].ptr, Torn}
      PROVE  Outlived(call'[c].got)
  <2>1. CASE call'[c].got = held
    <3>1. held # None
      BY <1>2 DEF LookupWakes, LookupCopies, IInv, TypeOK, ReplyInv
    <3> QED BY <1>1, <1>2, <2>1, <3>1 DEF StaleInv
  <2>2. CASE call'[c].got # held
    <3>1. call[c].at = "copying" /\ call'[c].got = call[c].got
      BY <1>1, <1>2, <2>2 DEF LookupWakes, LookupCopies, IInv, TypeOK
    <3> QED BY <1>2, <3>1 DEF StaleInv
  <2> QED BY <2>1, <2>2
<1> QED BY <1>1, <1>2 DEF StaleInv, Outlived

\* A hit that is not of the entry it was found in is a reply published by a
\* handler that outlived its own window (dedup.go:96-128).
THEOREM HitsAreOfTheirWindow == Spec => []HitIsOfItsWindow
<1>1. Init => StaleInv
  BY DEF Init, NoEntry, StaleInv
<1>2. ASSUME IInv, StaleInv, [Next]_vars PROVE StaleInv'
  <2>1. CASE Tick \/ UNCHANGED vars
    <3>1. UNCHANGED <<entry, call>>
      BY <2>1 DEF Tick, vars
    <3> QED BY <1>2, <3>1, QuietStale
  <2>2. CASE Cleanup
    <3>1. now \in Nat /\ now <= now /\ entry' = Evicted(now) /\ call' = call
      BY <1>2, <2>2 DEF Cleanup, IInv, TypeOK
    <3>2. \A e \in Callers : entry'[e].reply = entry[e].reply
      BY <1>2, <3>1, EvictFacts
    <3> QED BY <1>2, <3>1, <3>2, QuietStale
  <2>3. ASSUME NEW c \in Callers, SeenLocked(c) PROVE StaleInv'
    <3>1. call[c].now \in Nat /\ call[c].now <= now
      BY <1>2 DEF IInv, TypeOK, ClockInv
    <3>2. \A e \in Callers : Evicted(call[c].now)[e].reply = entry[e].reply
      BY <1>2, <3>1, EvictFacts
    <3>3. \A e \in Callers : entry'[e].reply \in {None, entry[e].reply}
      <4>1. CASE AfterEvict(call[c].now)[DedupKey(c)] # None
        BY <2>3, <3>2, <4>1 DEF SeenLocked
      <4>2. CASE AfterEvict(call[c].now)[DedupKey(c)] = None
        <5>1. entry' = [Evicted(call[c].now) EXCEPT ![c] = FreshEntry(call[c].now)]
          BY <2>3, <4>2 DEF SeenLocked
        <5>2. DOMAIN Evicted(call[c].now) = Callers
          BY DEF Evicted
        <5>3. FreshEntry(call[c].now).reply = None
          BY DEF FreshEntry
        <5> QED BY <3>2, <5>1, <5>2, <5>3
      <4> QED BY <4>1, <4>2
    <3>4. \A d \in Callers : call'[d].at \in {"copying", "hit"} => call'[d] = call[d]
      BY <1>2, <2>3 DEF SeenLocked, Goto, IInv, TypeOK
    <3> QED BY <1>2, <3>3, <3>4, QuietStale
  <2>4. ASSUME NEW c \in Callers, SeenReadsClock(c) \/ Abandon(c) \/ LookupLocked(c)
        PROVE  StaleInv'
    <3>1. entry' = entry
      BY <2>4 DEF SeenReadsClock, Abandon, LookupLocked
    <3>2. \A d \in Callers : call'[d].at \in {"copying", "hit"} => call'[d] = call[d]
      BY <1>2, <2>4 DEF SeenReadsClock, Abandon, LookupLocked, Goto, IInv, TypeOK
    <3> QED BY <1>2, <3>1, <3>2, QuietStale
  <2> QED BY <1>2, <2>1, <2>2, <2>3, <2>4, StoreStale, LookupStale DEF Next, Step, Lookup
<1>3. StaleInv => HitIsOfItsWindow
  BY DEF StaleInv, HitIsOfItsWindow, Outlived
<1> QED BY <1>1, <1>2, <1>3, Invariance, StepIInv, PTL DEF Spec

-----------------------------------------------------------------------------
(* An open channel has a caller who may yet close it.                      *)

\* An entry's channel is open only while its caller runs its handler, or
\* once that has ended without a reply.
OpenInv == \A e \in Callers : entry[e].done = "open" => call[e].at \in {"first", "silent"}

\* Store closes the channel of its caller's own entry, unless eviction has.
LEMMA StoreCloses ==
    ASSUME IInv, OpenInv, NEW c \in Callers, Store(c) PROVE OpenInv'
<1>1. call \in [Callers -> [at : Phases, now : Nat, ptr : Callers \cup {None},
                            got : Replies \cup {Torn}]]
      /\ entry \in [Callers -> [reply : Replies, done : Channel, expires : Nat, born : Nat]]
  BY DEF IInv, TypeOK
<1>2. /\ call[c].at = "first" /\ Allocated(c) /\ entries[DedupKey(c)] \in Callers \cup {None}
      /\ \A d \in Callers \ {c} : call'[d] = call[d]
  BY <1>1, KeyIsKey DEF Store, Goto, IInv, AllocInv, TypeOK
<1> DEFINE o == entries[DedupKey(c)]
<1>3. \A e \in Callers : entry'[e].done = "open" => entry[e].done = "open" /\ e # o
  <2>1. CASE o = None
    <3>1. entry' = entry
      BY <2>1 DEF Store
    <3> QED BY <2>1, <3>1, NoneIsNoCaller
  <2>2. CASE o # None
    <3>1. entry' = [entry EXCEPT ![o].reply = c,
                                 ![o].done = IF @ = "open" THEN CloseChannel(@) ELSE @]
      BY <2>2 DEF Store
    <3> QED BY <1>1, <1>2, <2>2, <3>1 DEF CloseChannel
  <2> QED BY <2>1, <2>2
<1>4. o = c \/ entry[c].done # "open"
  BY <1>2 DEF IInv, EvictedInv, Live
<1>5. ASSUME NEW e \in Callers, entry'[e].done = "open"
      PROVE  call'[e].at \in {"first", "silent"}
  <2>1. e # c /\ entry[e].done = "open"
    BY <1>3, <1>4, <1>5
  <2> QED BY <1>2, <2>1 DEF OpenInv
<1> QED BY <1>5 DEF OpenInv

\* Seen opens a channel for a caller that goes on to its handler.
LEMMA SeenOpens ==
    ASSUME IInv, OpenInv, NEW c \in Callers, SeenLocked(c) PROVE OpenInv'
<1> DEFINE t == call[c].now
<1>1. /\ call \in [Callers -> [at : Phases, now : Nat, ptr : Callers \cup {None},
                               got : Replies \cup {Torn}]]
      /\ t \in Nat /\ t <= now
  BY DEF IInv, TypeOK, ClockInv
<1>2. /\ DOMAIN Evicted(t) = Callers
      /\ \A e \in Callers : Evicted(t)[e].done = "open" => entry[e].done = "open"
  BY <1>1, EvictFacts
<1>3. call[c].at = "seen" /\ entry[c].done # "open"
  BY DEF SeenLocked, OpenInv
<1>4. \/ entry' = Evicted(t)
      \/ entry' = [Evicted(t) EXCEPT ![c] = FreshEntry(t)] /\ Goto(c, "first")
  BY DEF SeenLocked
<1>5. \A d \in Callers \ {c} : call'[d] = call[d]
  BY <1>1 DEF SeenLocked, Goto
<1> HIDE DEF t
<1>6. CASE entry' = Evicted(t)
  BY <1>2, <1>3, <1>5, <1>6 DEF OpenInv
<1>7. CASE entry' = [Evicted(t) EXCEPT ![c] = FreshEntry(t)] /\ Goto(c, "first")
  <2>1. call'[c].at = "first"
    BY <1>1, <1>7 DEF Goto
  <2>2. \A e \in Callers \ {c} : entry'[e] = Evicted(t)[e]
    BY <1>2, <1>7
  <2> QED BY <1>2, <1>5, <2>1, <2>2 DEF OpenInv
<1> QED BY <1>4, <1>6, <1>7

\* Every step keeps the open channels with callers that may close them.
LEMMA StepOpenInv == IInv /\ OpenInv /\ [Next]_vars => OpenInv'
<1> SUFFICES ASSUME IInv, OpenInv, [Next]_vars PROVE OpenInv'
  OBVIOUS
<1>0. call \in [Callers -> [at : Phases, now : Nat, ptr : Callers \cup {None},
                            got : Replies \cup {Torn}]]
  BY DEF IInv, TypeOK
<1>1. CASE Tick \/ UNCHANGED vars
  BY <1>1 DEF Tick, vars, OpenInv
<1>2. CASE Cleanup
  <2>1. now \in Nat /\ now <= now
    BY DEF IInv, TypeOK
  <2>2. \A e \in Callers : Evicted(now)[e].done = "open" => entry[e].done = "open"
    BY <2>1, EvictFacts
  <2> QED BY <1>2, <2>2 DEF Cleanup, OpenInv
<1>3. ASSUME NEW c \in Callers, Step(c) PROVE OpenInv'
  <2>1. CASE SeenReadsClock(c) \/ Abandon(c) \/ Lookup(c)
    <3>1. entry' = entry /\ \A d \in Callers \ {c} : call'[d] = call[d]
      BY <1>0, <2>1 DEF SeenReadsClock, Abandon, Goto, Lookup, LookupLocked,
                        LookupWakes, LookupCopies
    <3>2. call[c].at \in {"first", "silent"} => call'[c].at \in {"first", "silent"}
      BY <1>0, <2>1 DEF SeenReadsClock, Abandon, Goto, Lookup, LookupLocked,
                        LookupWakes, LookupCopies
    <3> QED BY <3>1, <3>2 DEF OpenInv
  <2> QED BY <1>3, <2>1, StoreCloses, SeenOpens DEF Step
<1> QED BY <1>1, <1>2, <1>3 DEF Next

\* So a Lookup that waits, waits for a caller that is in its handler or has
\* left it without a reply (dedup.go:115-134).
THEOREM OpenChannelsHaveCallers == Spec => []OpenInv
<1>1. Init => OpenInv
  BY DEF Init, NoEntry, OpenInv
<1> QED BY <1>1, StepOpenInv, Invariance, PTL DEF Spec

-----------------------------------------------------------------------------
(* What the servers' proofs need to know of a step.                        *)

\* An entry stays allocated, and a caller that stored has stored for good.
LEMMA RunsStay ==
    ASSUME IInv, [Next]_vars, NEW e \in Callers
    PROVE  /\ Allocated(e) => Allocated(e)'
           /\ call[e].at = "stored" => call'[e].at = "stored"
<1>1. CASE Tick \/ UNCHANGED vars
  BY <1>1 DEF Tick, vars, Allocated
<1>2. CASE Cleanup
  <2>1. now \in Nat /\ now <= now
    BY DEF IInv, TypeOK
  <2>2. (Evicted(now)[e].done = "nil") <=> (entry[e].done = "nil")
    BY <2>1, EvictFacts
  <2> QED BY <1>2, <2>2 DEF Cleanup, Allocated
<1>3. ASSUME NEW d \in Callers, Step(d)
      PROVE  /\ Allocated(e) => Allocated(e)'
             /\ call[e].at = "stored" => call'[e].at = "stored"
  <2>0. call \in [Callers -> [at : Phases, now : Nat, ptr : Callers \cup {None},
                              got : Replies \cup {Torn}]]
    BY DEF IInv, TypeOK
  <2>1. CASE SeenLocked(d)
    <3>1. call[d].now \in Nat /\ call[d].now <= now
      BY DEF IInv, TypeOK, ClockInv
    <3> DEFINE t == call[d].now
    <3>2. /\ (Evicted(t)[e].done = "nil") <=> (entry[e].done = "nil")
          /\ DOMAIN Evicted(t) = Callers
      BY <3>1, EvictFacts
    <3>3. entry'[e].done = Evicted(t)[e].done \/ entry'[e].done = "open"
      <4>1. CASE AfterEvict(t)[DedupKey(d)] # None
        BY <2>1, <4>1 DEF SeenLocked
      <4>2. CASE AfterEvict(t)[DedupKey(d)] = None
        <5>1. entry' = [Evicted(t) EXCEPT ![d] =
                           [reply |-> None, done |-> "open",
                            expires |-> t + Ttl, born |-> now]]
          BY <2>1, <4>2 DEF SeenLocked, FreshEntry
        <5> HIDE DEF t
        <5> QED BY <3>2, <5>1
      <4> QED BY <4>1, <4>2
    <3>4. call[d].at = "seen" /\ (Goto(d, "duplicate") \/ Goto(d, "first"))
      BY <2>1 DEF SeenLocked
    <3>5. call[e].at = "stored" => call'[e].at = "stored"
      BY <2>0, <3>4 DEF Goto
    <3> QED BY <3>2, <3>3, <3>5 DEF Allocated
  <2>2. CASE Store(d)
    <3>1. call[e].at = "stored" => call'[e].at = "stored"
      BY <2>0, <2>2 DEF Store, Goto
    <3>2. Allocated(e) => Allocated(e)'
      BY <2>2 DEF Store, IInv, TypeOK, MapInv, Allocated, CloseChannel
    <3> QED BY <3>1, <3>2
  <2>3. CASE SeenReadsClock(d) \/ Abandon(d) \/ Lookup(d)
    <3>1. Allocated(e) => Allocated(e)'
      BY <2>3 DEF SeenReadsClock, Abandon, Lookup, LookupLocked, LookupWakes,
                  LookupCopies, Allocated
    <3>2. \A f \in Callers \ {d} : call'[f] = call[f]
      BY <2>0, <2>3 DEF SeenReadsClock, Abandon, Goto, Lookup, LookupLocked,
                        LookupWakes, LookupCopies
    <3>3. call[d].at # "stored"
      BY <2>3 DEF SeenReadsClock, Abandon, Lookup, LookupLocked, LookupWakes,
                  LookupCopies
    <3> QED BY <3>1, <3>2, <3>3
  <2> QED BY <1>3, <2>1, <2>2, <2>3 DEF Step
<1> QED BY <1>1, <1>2, <1>3 DEF Next

\* Only Seen's critical section allocates an entry, and only the caller's.
LEMMA RunsAreSeen ==
    ASSUME IInv, [Next]_vars, NEW e \in Callers, Allocated(e)', ~Allocated(e)
    PROVE  call[e].at = "seen"
<1>1. CASE Tick \/ UNCHANGED vars
  BY <1>1 DEF Tick, vars, Allocated
<1>2. CASE Cleanup
  <2>1. now \in Nat /\ now <= now
    BY DEF IInv, TypeOK
  <2>2. (Evicted(now)[e].done = "nil") <=> (entry[e].done = "nil")
    BY <2>1, EvictFacts
  <2> QED BY <1>2, <2>2 DEF Cleanup, Allocated
<1>3. ASSUME NEW d \in Callers, Step(d) PROVE call[e].at = "seen"
  <2>1. CASE SeenLocked(d)
    <3>1. call[d].now \in Nat /\ call[d].now <= now
      BY DEF IInv, TypeOK, ClockInv
    <3> DEFINE t == call[d].now
    <3>2. (Evicted(t)[e].done = "nil") <=> (entry[e].done = "nil")
      BY <3>1, EvictFacts
    <3>3. CASE e = d
      BY <2>1, <3>3 DEF SeenLocked
    <3>4. CASE e # d
      <4>1. entry'[e] = Evicted(t)[e]
        BY <2>1, <3>4 DEF SeenLocked, Evicted
      <4> QED BY <3>2, <4>1 DEF Allocated
    <3> QED BY <3>3, <3>4
  <2>2. CASE Store(d)
    BY <2>2 DEF Store, IInv, TypeOK, MapInv, Allocated
  <2>3. CASE SeenReadsClock(d) \/ Abandon(d) \/ Lookup(d)
    BY <2>3 DEF SeenReadsClock, Abandon, Lookup, LookupLocked, LookupWakes,
                LookupCopies, Allocated
  <2> QED BY <1>3, <2>1, <2>2, <2>3 DEF Step
<1> QED BY <1>1, <1>2, <1>3 DEF Next
=============================================================================
