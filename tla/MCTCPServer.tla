----------------------------- MODULE MCTCPServer -----------------------------
(* One client sends two requests with the same Identifier; the other sends *)
(* one, whose sighting may evict the first's, or stays idle.               *)
EXTENDS TCPServer, TLC

CONSTANTS k1, k2, a, b, other

MCConns == {k1, k2}
MCCallers == {a, b, other}
MCScript == (k1 :> <<a, b>>) @@ (k2 :> <<other>>)
MCAddrOf == (a :> k1) @@ (b :> k1) @@ (other :> k2)
MCIdOf == [r \in MCCallers |-> 1]

\* Bound: the other client sends its request, or the server ends.
OtherOrEnd ==
    sentN'[k2] > 0 =>
        /\ open' /\ ctx' = "live"
        /\ overdue' = {} /\ \A s \in Stoppers : stop'[s] = "idle"

\* A client need not send and nothing need end the server, so the fairness is
\* the server's.
MCSpec == TCPInit /\ [][TCPNext /\ OtherOrEnd]_tcpVars /\ TCPFairness
=============================================================================
