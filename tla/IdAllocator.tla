----------------------------- MODULE IdAllocator -----------------------------
(***************************************************************************)
(* What an identifier pool promises (the comment of IdentifierPool in      *)
(* protocol/identifier.go): an Identifier belongs to one user at a time,   *)
(* from Acquire to Release, and any free Identifier may be given out.      *)
(***************************************************************************)
CONSTANTS Users, Ids, Free

VARIABLE owner      \* Ids -> the user that holds the Identifier, or Free

AllocInit == owner = [i \in Ids |-> Free]

\* A user holds at most one Identifier.
Take(u, i) ==
    /\ owner[i] = Free
    /\ \A j \in Ids : owner[j] # u
    /\ owner' = [owner EXCEPT ![i] = u]

Give(u, i) ==
    /\ owner[i] = u
    /\ owner' = [owner EXCEPT ![i] = Free]

AllocNext == \E u \in Users, i \in Ids : Take(u, i) \/ Give(u, i)

AllocSpec == AllocInit /\ [][AllocNext]_owner
=============================================================================
