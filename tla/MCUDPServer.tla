----------------------------- MODULE MCUDPServer -----------------------------
(* Retransmissions of one request: every datagram carries the same source  *)
(* address and Identifier.  Two of them meet a Shutdown, a Close or a      *)
(* canceled context; or a third one, which comes late enough to evict.     *)
EXTENDS UDPServer, TLC

CONSTANTS client, third

MCAddrOf == [c \in Callers |-> client]
MCIdOf == [c \in Callers |-> 1]

\* Bound: a third datagram, or the end of the server.
ThirdOrEnd ==
    at'[third] # "net" =>
        /\ now' >= Ttl
        /\ open' /\ ctx' = "live"
        /\ overdue' = {} /\ \A s \in Stoppers : stop'[s] = "idle"

\* A datagram need never arrive and nothing need end the server, so the
\* fairness is the server's.
MCSpec == ServerInit /\ [][ServerNext /\ ThirdOrEnd]_serverVars /\ ServerFairness
=============================================================================
