---------------------------- MODULE Deduplicator ----------------------------
(***************************************************************************)
(* The duplicate detector of server/dedup.go.  A caller is one goroutine   *)
(* that handles one request: it calls Seen and then, when Seen returned    *)
(* false, runs the handler and perhaps calls Store; when Seen returned     *)
(* true it calls Lookup.  The caller that inserts a dedupEntry also names  *)
(* it, so an entry that was evicted and the one that replaced it under the *)
(* same key stay two objects, as the two heap objects of the code do.      *)
(*                                                                         *)
(* The mutex makes Seen's critical section, Store and Cleanup atomic.      *)
(* What the code does outside the mutex is a step of its own: the clock    *)
(* reading of Seen, the wait on the done channel in Lookup, and the read   *)
(* of the reply slice, whose two words are read one after the other.       *)
(*                                                                         *)
(* A definition called a slip is the code with one plausible mistake; the  *)
(* checks use it to see that a property would notice.                      *)
(***************************************************************************)
EXTENDS Integers, FiniteSets

CONSTANTS
    Callers,    \* the goroutines, one per request received
    AddrOf,     \* the source address of a caller's request
    IdOf,       \* the RADIUS Identifier of a caller's request
    Ttl,        \* time an entry lives
    MaxTime     \* bound: the clock stops here

ASSUME CallersAreNotModelMarks ==
    Callers \cap {"none", "torn"} = {}

ASSUME TimeAssumption ==
    /\ Ttl \in Nat \ {0}
    /\ MaxTime \in Nat

\* The map key.  UDP and TCP addresses print as fewer than 128 octets, so
\* the truncation of the address string never merges two of them.
DedupKey(c) == <<AddrOf[c], IdOf[c]>>

Keys == {DedupKey(c) : c \in Callers}

None == "none"      \* no entry under a key; the nil reply
Torn == "torn"      \* the data word of one reply with the length of another

\* A handler's marshaled reply is named by the caller that produced it.
Replies == Callers \cup {None}

\* The values of a done channel; "panic" is a close of a closed channel.
Channel == {"nil", "open", "closed", "panic"}

CloseChannel(ch) == IF ch = "open" THEN "closed" ELSE "panic"

Phases == {"idle", "seen", "first", "duplicate", "waiting", "copying",
           "hit", "miss", "stored", "silent"}

VARIABLES
    now,        \* the clock
    entries,    \* Deduplicator.entries: key -> name of the live entry, or None
    entry,      \* every dedupEntry ever allocated; born is when it was inserted
    call        \* each caller's progress and local variables

vars == <<now, entries, entry, call>>

NoEntry == [reply |-> None, done |-> "nil", expires |-> 0, born |-> 0]

Init ==
    /\ now = 0
    /\ entries = [k \in Keys |-> None]
    /\ entry = [c \in Callers |-> NoEntry]
    /\ call = [c \in Callers |->
                  [at |-> "idle", now |-> 0, ptr |-> None, got |-> None]]

Live(e) == entries[DedupKey(e)] = e

Allocated(e) == entry[e].done # "nil"

\* The clock reading of a Seen call is dead once Seen has returned.
Goto(c, phase) == call' = [call EXCEPT ![c].at = phase, ![c].now = 0]

-----------------------------------------------------------------------------
(* evictExpiredLocked: the entries that a clock reading t finds expired    *)
(* have their channel closed, unless it is, and leave the map.             *)

\* Slip: the comparison's negation is lost.
ExpiredSlip(t) == {e \in Callers : Live(e) /\ t < entry[e].expires}

Expired(t) == {e \in Callers : Live(e) /\ t >= entry[e].expires}

AfterEvict(t) ==
    [k \in Keys |-> IF entries[k] \in Expired(t) THEN None ELSE entries[k]]

\* Slip: eviction leaves the channel open.
EvictedOpenSlip(t) == entry

\* Slip: eviction drops the reply to free its memory.
EvictedClearsSlip(t) ==
    [e \in Callers |-> IF e \in Expired(t)
                       THEN [entry[e] EXCEPT !.reply = None, !.done = "closed"]
                       ELSE entry[e]]

Evicted(t) ==
    [e \in Callers |->
        IF e \in Expired(t) /\ entry[e].done = "open"
        THEN [entry[e] EXCEPT !.done = CloseChannel(@)]
        ELSE entry[e]]

FreshEntry(t) == [reply |-> None, done |-> "open", expires |-> t + Ttl, born |-> now]

\* Seen reads the clock before it takes the mutex.
SeenReadsClock(c) ==
    /\ call[c].at = "idle"
    /\ now + Ttl <= MaxTime
    /\ call' = [call EXCEPT ![c].at = "seen", ![c].now = now]
    /\ UNCHANGED <<now, entries, entry>>

\* Seen's critical section, with the clock reading it came with.
SeenLocked(c) ==
    LET t == call[c].now
        live == AfterEvict(t)
        k == DedupKey(c)
    IN  /\ call[c].at = "seen"
        /\ IF live[k] # None
           THEN /\ entries' = live
                /\ entry' = Evicted(t)
                /\ Goto(c, "duplicate")
           ELSE /\ entries' = [live EXCEPT ![k] = c]
                /\ entry' = [Evicted(t) EXCEPT ![c] = FreshEntry(t)]
                /\ Goto(c, "first")
        /\ UNCHANGED now

\* Slip: the channel is not closed.
StoreOpenSlip(c) ==
    LET e == entries[DedupKey(c)]
    IN  /\ call[c].at = "first"
        /\ entry' = IF e = None THEN entry ELSE [entry EXCEPT ![e].reply = c]
        /\ Goto(c, "stored")
        /\ UNCHANGED <<now, entries>>

\* Slip: the channel is closed without a look whether it is closed already.
StoreClosesAgainSlip(c) ==
    LET e == entries[DedupKey(c)]
    IN  /\ call[c].at = "first"
        /\ entry' = IF e = None
                    THEN entry
                    ELSE [entry EXCEPT ![e].reply = c, ![e].done = CloseChannel(@)]
        /\ Goto(c, "stored")
        /\ UNCHANGED <<now, entries>>

\* Store finds its entry by key, so it may find a later caller's.
Store(c) ==
    LET e == entries[DedupKey(c)]
    IN  /\ call[c].at = "first"
        /\ entry' = IF e = None
                    THEN entry
                    ELSE [entry EXCEPT
                            ![e].reply = c,
                            ![e].done = IF @ = "open"
                                        THEN CloseChannel(@) ELSE @]
        /\ Goto(c, "stored")
        /\ UNCHANGED <<now, entries>>

\* The caller has no reply to publish and never calls Store.
Abandon(c) ==
    /\ call[c].at = "first"
    /\ Goto(c, "silent")
    /\ UNCHANGED <<now, entries, entry>>

\* Lookup takes the entry out of the map under the mutex ...
LookupLocked(c) ==
    LET e == entries[DedupKey(c)]
    IN  /\ call[c].at = "duplicate"
        /\ call' = [call EXCEPT
                      ![c].at = IF e = None THEN "miss" ELSE "waiting",
                      ![c].ptr = e]
        /\ UNCHANGED <<now, entries, entry>>

\* ... waits for its done channel and, if the reply is not nil, ...
LookupWakes(c) ==
    LET e == entry[call[c].ptr]
    IN  /\ call[c].at = "waiting"
        /\ e.done # "open"
        /\ call' = [call EXCEPT
                      ![c].at = IF e.reply = None THEN "miss" ELSE "copying",
                      ![c].got = e.reply]
        /\ UNCHANGED <<now, entries, entry>>

\* ... copies it without the mutex.  Another Store may have replaced the
\* reply since it was compared with nil: the copy is then the old reply, the
\* new one, or the address of one with the length of the other.
LookupCopies(c) ==
    LET latest == entry[call[c].ptr].reply
    IN  /\ call[c].at = "copying"
        /\ \E r \in IF latest = call[c].got THEN {latest}
                                            ELSE {call[c].got, latest, Torn} :
              call' = [call EXCEPT ![c].at = "hit", ![c].got = r]
        /\ UNCHANGED <<now, entries, entry>>

\* Cleanup reads the clock with the mutex held.
Cleanup ==
    /\ Expired(now) # {}
    /\ entries' = AfterEvict(now)
    /\ entry' = Evicted(now)
    /\ UNCHANGED <<now, call>>

Tick ==
    /\ now < MaxTime
    /\ now' = now + 1
    /\ UNCHANGED <<entries, entry, call>>

Lookup(c) == LookupLocked(c) \/ LookupWakes(c) \/ LookupCopies(c)

Step(c) ==
    \/ SeenReadsClock(c)
    \/ SeenLocked(c)
    \/ Store(c)
    \/ Abandon(c)
    \/ Lookup(c)

Next == Tick \/ Cleanup \/ \E c \in Callers : Step(c)

Spec == Init /\ [][Next]_vars

\* The scheduler runs every goroutine that can run, time passes, and the
\* owner calls Cleanup from a ticker.  No caller need ever call Store.
Fairness ==
    /\ WF_vars(Tick)
    /\ WF_vars(Cleanup)
    /\ \A c \in Callers : WF_vars(SeenLocked(c)) /\ WF_vars(Lookup(c))

FairSpec == Spec /\ Fairness

-----------------------------------------------------------------------------
\* The variables hold values of the program's types.
TypeOK ==
    /\ now \in Nat
    /\ entries \in [Keys -> Callers \cup {None}]
    /\ entry \in [Callers -> [reply : Replies, done : Channel,
                              expires : Nat, born : Nat]]
    /\ call \in [Callers -> [at : Phases, now : Nat,
                             ptr : Callers \cup {None},
                             got : Replies \cup {Torn}]]

\* Two first sightings of one (address, identifier) never share a window:
\* the later entry was inserted no earlier than the other one's expiry.
\* Seen evicts before it looks, with a clock reading that may be old.
WindowsExclusive ==
    \A c, d \in Callers :
        c # d /\ Allocated(c) /\ Allocated(d) /\ DedupKey(c) = DedupKey(d)
        => \/ entry[d].born >= entry[c].expires
           \/ entry[c].born >= entry[d].expires

\* No Lookup is left waiting on an entry that is out of the map: nothing
\* would ever close its channel.  (Eviction closes what it deletes.)
NoOrphanedWaiter ==
    \A c \in Callers :
        call[c].at = "waiting" /\ entry[call[c].ptr].done = "open"
        => Live(call[c].ptr)

\* No done channel is closed twice, although Store, a late Store to the
\* same entry, and eviction all close it: that would panic the server.
NoDoubleClose == \A e \in Callers : entry[e].done # "panic"

\* A reply that Lookup returns was published by a caller that has called
\* Store for a request of the same (address, identifier), whichever entry
\* the reply was found in.
HitIsPublishedForItsKey ==
    \A c \in Callers :
        call[c].at = "hit" /\ call[c].got # Torn
        => LET r == call[c].got
           IN  /\ r \in Callers
               /\ call[r].at = "stored"
               /\ AddrOf[r] = AddrOf[c]
               /\ IdOf[r] = IdOf[c]

\* A hit is the reply of the very request that opened the window, which may
\* be another request than the one it answers (dedup.go:167), unless it was
\* published late, by a handler that outlived its own window (dedup.go:100).
HitIsOfItsWindow ==
    \A c \in Callers :
        call[c].at = "hit" /\ call[c].got \notin {call[c].ptr, Torn}
        => now >= entry[call[c].got].expires

\* A copy is torn only when some handler outlived its window: two callers
\* of the key stored, one of them at or after its own entry's expiry.
TornOnlyAfterSlowHandler ==
    \A c \in Callers :
        call[c].got = Torn
        => \E d, e \in Callers :
              /\ d # e
              /\ DedupKey(d) = DedupKey(c) /\ DedupKey(e) = DedupKey(c)
              /\ call[d].at = "stored" /\ call[e].at = "stored"
              /\ now >= entry[d].expires

EvictedUnchanged ==
    \A e \in Callers :
        Allocated(e) /\ ~Live(e)
        => /\ entry'[e] = entry[e]
           /\ entries'[DedupKey(e)] # e

\* An entry that left the map never comes back to it, and the reply of an
\* evicted entry no longer changes: a late Store cannot reach it.
EvictedIsFinal == [][EvictedUnchanged]_vars

\* With Cleanup called from a ticker, no Lookup waits forever, even when
\* the first caller never publishes a reply.
WaitersAreReleased ==
    \A c \in Callers : call[c].at = "waiting" ~> call[c].at # "waiting"
=============================================================================
