------------------------------ MODULE MCStream ------------------------------
(* The connection-oriented transports: calls on one connection, or the      *)
(* accepting of connections; focus says which.                              *)
EXTENDS StreamConn, StreamListener, TLC

VARIABLE focus

MCVars == <<focus, connVars, listenVars>>

MCInit ==
    /\ focus \in {"calls", "accepts"}
    /\ ConnInit   /\ (focus = "accepts" => kind = "tcp")
    /\ ListenInit /\ (focus = "calls" => layer = "tls")

MCNext ==
    /\ UNCHANGED focus
    /\ \/ focus = "calls" /\ ConnNext /\ UNCHANGED listenVars
       \/ focus = "accepts" /\ ListenNext /\ UNCHANGED connVars

\* Each part's own fairness, while it is the one that runs.
MCFairness ==
    /\ \A c \in Callers :
         /\ WF_connVars(focus = "calls" /\ Proceed(c))
         /\ WF_connVars(focus = "calls" /\ Expire(c))
    /\ \A a \in Acceptors : WF_listenVars(focus = "accepts" /\ AcceptStep(a))

MCSpec == MCInit /\ [][MCNext]_MCVars /\ MCFairness
=============================================================================
