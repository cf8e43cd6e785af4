--------------------------- MODULE IdentifierPool ---------------------------
(***************************************************************************)
(* The pool of RADIUS Identifiers of protocol/identifier.go: a channel     *)
(* that buffers one token per Identifier.  Users are the goroutines that   *)
(* call Acquire and later Release.  Receiving from the channel and sending *)
(* to it are atomic; the select of Acquire takes either case when a token  *)
(* and the context's end are both there.                                   *)
(*                                                                         *)
(* A definition called a slip is the code with one plausible mistake; the  *)
(* checks use it to see that a property would notice.                      *)
(***************************************************************************)
EXTENDS Naturals, Sequences, FiniteSets

CONSTANTS
    Users,      \* the goroutines that use the pool, one Acquire each
    Ids,        \* the Identifiers, 0..255 in the program
    Seed,       \* the order in which NewIdentifierPool puts the tokens in
    None        \* no Identifier

ASSUME SeedHoldsEveryId ==
    /\ Seed \in Seq(Ids)
    /\ \A i \in Ids : \E n \in 1..Len(Seed) : Seed[n] = i
    /\ \A m, n \in 1..Len(Seed) : Seed[m] = Seed[n] => m = n

ASSUME NoneIsNoIdOrUser == None \notin Ids \cup Users

VARIABLES
    tokens,     \* the channel's buffer, oldest token first
    user        \* each user: [at, id]

poolVars == <<tokens, user>>

\* The buffer's capacity, 256 in the program.
Capacity == Len(Seed)

PoolInit ==
    /\ tokens = Seed
    /\ user = [u \in Users |-> [at |-> "new", id |-> None]]

Holds(u) == user[u].at = "holding"

\* Acquire receives a token ...
Acquire(u) ==
    /\ user[u].at = "new"
    /\ tokens # <<>>
    /\ tokens' = Tail(tokens)
    /\ user' = [user EXCEPT ![u] = [at |-> "holding", id |-> Head(tokens)]]

\* ... or gives up: ErrIdentifierExhausted.
AcquireCanceled(u) ==
    /\ user[u].at = "new"
    /\ user' = [user EXCEPT ![u].at = "exhausted"]
    /\ UNCHANGED tokens

\* Slip: the token goes back while the Identifier is in use.
ReleaseEarlySlip(u) ==
    /\ Holds(u)
    /\ Len(tokens) < Capacity
    /\ tokens' = Append(tokens, user[u].id)
    /\ UNCHANGED user

\* Release drops a token that does not fit.
Release(u) ==
    /\ Holds(u)
    /\ tokens' = IF Len(tokens) < Capacity
                 THEN Append(tokens, user[u].id) ELSE tokens
    /\ user' = [user EXCEPT ![u] = [at |-> "released", id |-> None]]

PoolNext ==
    \E u \in Users : Acquire(u) \/ AcquireCanceled(u) \/ Release(u)

PoolSpec == PoolInit /\ [][PoolNext]_poolVars

-----------------------------------------------------------------------------
PoolTypeOK ==
    /\ tokens \in Seq(Ids)
    /\ user \in [Users -> [at : {"new", "holding", "exhausted", "released"},
                           id : Ids \cup {None}]]

InPool(i) == \E n \in 1..Len(tokens) : tokens[n] = i

\* An Identifier is not given out while a request that carries it is
\* outstanding: no two users hold one, and none that is held is in the
\* channel too.
NoIdHeldTwice ==
    /\ \A u, v \in Users : Holds(u) /\ Holds(v) /\ user[u].id = user[v].id => u = v
    /\ \A u \in Users : Holds(u) => ~InPool(user[u].id)

\* No Identifier is lost: whatever path a request takes, every Identifier
\* is held by a user or can be acquired, and is in the channel once.
NoIdLost ==
    /\ \A i \in Ids : InPool(i) \/ \E u \in Users : Holds(u) /\ user[u].id = i
    /\ \A m, n \in 1..Len(tokens) : tokens[m] = tokens[n] => m = n

\* The pool implements the allocator.
owner ==
    [i \in Ids |-> IF \E u \in Users : Holds(u) /\ user[u].id = i
                   THEN CHOOSE u \in Users : Holds(u) /\ user[u].id = i
                   ELSE None]

Allocator == INSTANCE IdAllocator WITH Free <- None

ImplementsAllocator == Allocator!AllocSpec
=============================================================================
