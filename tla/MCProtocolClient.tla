-------------------------- MODULE MCProtocolClient --------------------------
(* Identifiers are handed out in the order of MCSeed.  In the first run    *)
(* one call has a deadline, the other two are interchangeable and so are   *)
(* the Authenticators.                                                     *)
EXTENDS ProtocolClient, TLC

CONSTANTS i1, i2, c1, c2, c3, a1, a2

MCSeed == <<i1, i2>>
MCSymmetry == Permutations({c2, c3}) \cup Permutations({a1, a2})

\* Bound: the socket holds one reply.  A second one may as well arrive when
\* the first has been read.
OneReply == Len(inbox') <= 1

\* Bound: only calls with a deadline are given up.
TimedEnd == \A c \in Users : ctx'[c] # "live" => c \in Timed

MCSpec == ClientInit /\ [][ClientNext /\ OneReply /\ TimedEnd]_clientVars
MCFairSpec == ClientInit /\ [][ClientNext /\ OneReply]_clientVars /\ ClientFairness
=============================================================================
