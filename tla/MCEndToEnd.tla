----------------------------- MODULE MCEndToEnd -----------------------------
(* Two calls of two transmissions each, with one Identifier between them;  *)
(* the calls, with their datagrams, are interchangeable, and so are the    *)
(* Authenticators.                                                         *)
EXTENDS EndToEnd, TLC

CONSTANTS i1, c1, c2, d1, d2, d3, d4, a1, a2, client

MCSeed == <<i1>>
MCCallOf == d1 :> c1 @@ d2 :> c1 @@ d3 :> c2 @@ d4 :> c2
MCAttemptOf == d1 :> 0 @@ d2 :> 1 @@ d3 :> 0 @@ d4 :> 1
MCIdOf == [d \in Callers |-> i1]
MCAddrOf == [d \in Callers |-> client]

Swap == c1 :> c2 @@ c2 :> c1 @@ d1 :> d3 @@ d3 :> d1 @@ d2 :> d4 @@ d4 :> d2
MCSymmetry == {Swap} \cup Permutations({a1, a2})

\* Bound: two datagrams at most are transmitted; where the server, the client
\* or a call's context ends, one of them at most, there is one datagram and
\* one call has not begun.
TwoDatagrams == \A D \in SUBSET Callers : Cardinality(D) > 2 => \E d \in D : net'[d] = "unsent"

ServerEnds == ~open' \/ ctx' # "live"
ClientEnds == ~clientOpen' \/ \E c \in Users : clientCtx'[c] # "live"

EndsAlone ==
    /\ ~(ServerEnds /\ ClientEnds)
    /\ ServerEnds \/ ClientEnds
       => /\ \E c \in Users : xchg'[c].at = "new"
          /\ \A d, e \in Callers : d # e => net'[d] = "unsent" \/ net'[e] = "unsent"

MCSpec == EndInit /\ [][EndNext /\ TwoDatagrams /\ EndsAlone]_endVars
=============================================================================
