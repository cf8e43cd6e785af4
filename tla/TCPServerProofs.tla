--------------------------- MODULE TCPServerProofs ---------------------------
(***************************************************************************)
(* The TCP server's connections and its use of the Deduplicator.  First    *)
(* the places and counters (PlaceInv), from which every step is a step of  *)
(* module Deduplicator or leaves it alone, so IInv holds here too; then    *)
(* ServeInv, which adds the WaitGroup, the one connection between Accept   *)
(* and wg.Add, and what a Shutdown has seen.  PhaseInv says that of a      *)
(* connection's requests only the one being handled is inside the          *)
(* detector; RunInv, that the entry of a key is the latest run's; WireInv, *)
(* that replies are written to requests read, in their order.              *)
(***************************************************************************)
EXTENDS TCPServer, DeduplicatorProofs, FiniteSetTheorems

\* The types of the server's own variables but the counter and the replies.
OwnTypeOK ==
    /\ at \in [Conns -> Places]
    /\ sentN \in [Conns -> Nat] /\ readN \in [Conns -> Nat]
    /\ hungUp \subseteq Conns
    /\ loop \in {"accepting", "holding", "context", "closed"}
    /\ acceptor \in {"waiting", "delivered", "failed"}
    /\ open \in BOOLEAN
    /\ ctx \in {"live", "canceled", "expired"}
    /\ stop \in [Stoppers -> {"idle", "waiting", "nil", "gaveUp"}]
    /\ helper \in [Stoppers -> {"none", "starting", "blocked", "woken", "returned"}]
    /\ overdue \subseteq Stoppers
    /\ panicked \in BOOLEAN

\* Requests are read after they were sent, and one at least was read when
\* one is handled.
ScriptInv ==
    \A k \in Conns :
        /\ readN[k] <= sentN[k] /\ sentN[k] <= Len(Script[k])
        /\ at[k] \in InRequest => readN[k] >= 1

PlaceInv == OwnTypeOK /\ ScriptInv

\* A script position names a request of the program.
LEMMA ScriptEntry ==
    ASSUME NEW k \in Conns, NEW n \in Nat, 1 <= n, n <= Len(Script[k])
    PROVE  n \in DOMAIN Script[k] /\ Script[k][n] \in Callers
BY ScriptAssumption

\* The request being handled is a request (handleConn has read one).
LEMMA CurrentIsCaller ==
    ASSUME PlaceInv, NEW k \in Conns, readN[k] >= 1
    PROVE  Current(k) \in Callers
<1>1. readN[k] \in Nat /\ sentN[k] \in Nat /\ readN[k] <= sentN[k] /\ sentN[k] <= Len(Script[k])
  BY DEF PlaceInv, OwnTypeOK, ScriptInv
<1>2. Len(Script[k]) \in Nat
  BY ScriptAssumption
<1> QED BY <1>1, <1>2, ScriptEntry DEF Current

\* A new server has no connections.
LEMMA InitPlaceInv == TCPInit => PlaceInv
<1> SUFFICES ASSUME TCPInit PROVE PlaceInv
  OBVIOUS
<1>1. OwnTypeOK
  BY DEF TCPInit, OwnTypeOK, Places
<1>2. \A k \in Conns : Len(Script[k]) \in Nat
  BY ScriptAssumption
<1>3. ScriptInv
  BY <1>2 DEF TCPInit, ScriptInv, InRequest
<1> QED BY <1>1, <1>3 DEF PlaceInv

\* Each step of handleConn moves its connection, reads at most one request
\* of those sent, and touches nothing of Serve, the clients or Shutdown.
LEMMA HandleConnShape ==
    ASSUME PlaceInv, NEW k \in Conns, HandleConn(k)
    PROVE  /\ at[k] \in Running
           /\ UNCHANGED <<clientVars, acceptVars, open, ctx, stopVars>>
           /\ \/ UNCHANGED <<at, wg>>
              \/ \E p \in Running : Move(k, p) /\ UNCHANGED wg
              \/ EndConn(k)
           /\ \/ UNCHANGED readN /\ (at'[k] \in InRequest => at[k] \in InRequest)
              \/ readN' = [readN EXCEPT ![k] = @ + 1] /\ readN[k] < sentN[k]
<1> USE DEF Running, InRequest
<1>0. at \in [Conns -> Places]
  BY DEF PlaceInv, OwnTypeOK
<1>1. CASE UnknownClient(k) \/ KnownClient(k) \/ ReadEnds(k)
  BY <1>0, <1>1 DEF UnknownClient, KnownClient, ReadEnds, EndConn, Move
<1>2. CASE ReadMalformed(k)
  BY <1>2 DEF ReadMalformed, Read, Buffered
<1>3. CASE ReadRequest(k)
  BY <1>3 DEF ReadRequest, Read, Buffered
<1>4. CASE DetectDuplicate(k) \/ LookupCached(k) \/ AnswerDuplicate(k)
  BY <1>0, <1>4 DEF DetectDuplicate, LookupCached, AnswerDuplicate, Move
<1>5. CASE HandlerSilent(k) \/ HandlerFails(k) \/ HandlerReplies(k) \/ SendReply(k)
  BY <1>0, <1>5 DEF HandlerSilent, HandlerFails, HandlerReplies, SendReply, EndConn, Move
<1> QED BY <1>1, <1>2, <1>3, <1>4, <1>5 DEF HandleConn

\* Every step keeps places and positions.
LEMMA StepPlaceInv == PlaceInv /\ [TCPNext]_tcpVars => PlaceInv'
<1> SUFFICES ASSUME PlaceInv, [TCPNext]_tcpVars PROVE PlaceInv'
  OBVIOUS
<1>0. OwnTypeOK /\ ScriptInv
  BY DEF PlaceInv
<1>1. \A k \in Conns : Len(Script[k]) \in Nat
  BY ScriptAssumption
<1>2. ASSUME NEW k \in Conns, HandleConn(k) PROVE PlaceInv'
  <2>1. UNCHANGED <<sentN, hungUp, loop, acceptor, open, ctx, stop, helper, overdue,
                    panicked>>
    BY <1>2, HandleConnShape DEF clientVars, acceptVars, stopVars
  <2>2. \/ at' = at
        \/ \E p \in Places : at' = [at EXCEPT ![k] = p]
    BY <1>2, HandleConnShape DEF Move, EndConn, Places
  <2>3. /\ at' \in [Conns -> Places]
        /\ \A l \in Conns \ {k} : at'[l] = at[l]
    BY <1>0, <2>2 DEF OwnTypeOK
  <2>4. \/ readN' = readN /\ (at'[k] \in InRequest => at[k] \in InRequest)
        \/ readN' = [readN EXCEPT ![k] = @ + 1] /\ readN[k] < sentN[k]
    BY <1>2, HandleConnShape
  <2>5. OwnTypeOK'
    BY <1>0, <2>1, <2>3, <2>4 DEF OwnTypeOK
  <2>6. /\ \A l \in Conns \ {k} : readN'[l] = readN[l]
        /\ \/ readN'[k] = readN[k] /\ (at'[k] \in InRequest => at[k] \in InRequest)
           \/ readN'[k] = readN[k] + 1 /\ readN[k] < sentN[k]
    BY <1>0, <2>4 DEF OwnTypeOK
  <2>7. readN[k] \in Nat /\ sentN[k] \in Nat
    BY <1>0 DEF OwnTypeOK
  <2>8. ASSUME NEW l \in Conns
        PROVE  /\ readN'[l] <= sentN[l] /\ sentN[l] <= Len(Script[l])
               /\ at'[l] \in InRequest => readN'[l] >= 1
    <3>1. CASE l = k
      BY <1>0, <2>6, <2>7, <3>1 DEF ScriptInv
    <3>2. CASE l # k
      BY <1>0, <2>3, <2>6, <3>2 DEF ScriptInv
    <3> QED BY <3>1, <3>2
  <2>9. ScriptInv'
    BY <2>1, <2>8 DEF ScriptInv
  <2> QED BY <2>5, <2>9 DEF PlaceInv
<1>3. ASSUME NEW k \in Conns, NEW p \in {"backlog", "delivered", "held", "started"},
             Move(k, p),
             UNCHANGED <<readN, sentN, hungUp, open, ctx, stop, helper, overdue, panicked>>,
             loop' \in {"accepting", "holding", "context", "closed"},
             acceptor' \in {"waiting", "delivered", "failed"}
      PROVE  PlaceInv'
  <2>1. p \in Places /\ p \notin InRequest
    BY DEF Places, Running, InRequest
  <2>2. /\ at' \in [Conns -> Places] /\ at'[k] = p
        /\ \A l \in Conns \ {k} : at'[l] = at[l]
    BY <1>0, <1>3, <2>1 DEF OwnTypeOK, Move
  <2>3. OwnTypeOK'
    BY <1>0, <1>3, <2>2 DEF OwnTypeOK
  <2>4. ScriptInv'
    BY <1>0, <1>3, <2>1, <2>2 DEF ScriptInv
  <2> QED BY <2>3, <2>4 DEF PlaceInv
<1>4. ASSUME NEW k \in Conns, Connect(k) \/ AcceptorTakes(k) \/ Serve(k) PROVE PlaceInv'
  <2>1. CASE Connect(k)
    BY <1>0, <1>3, <2>1 DEF Connect, clientVars, acceptVars, stopVars, OwnTypeOK
  <2>2. CASE AcceptorTakes(k)
    BY <1>0, <1>3, <2>2 DEF AcceptorTakes, clientVars, stopVars, OwnTypeOK
  <2>3. CASE AcceptReturns(k)
    BY <1>0, <1>3, <2>3 DEF AcceptReturns, clientVars, stopVars, OwnTypeOK
  <2>4. CASE StartConn(k)
    BY <1>0, <1>3, <2>4 DEF StartConn, clientVars, stopVars, OwnTypeOK
  <2>5. CASE StartConnPanics(k)
    BY <1>0, <2>5 DEF StartConnPanics, clientVars, acceptVars, PlaceInv, OwnTypeOK, ScriptInv
  <2> QED BY <1>4, <2>1, <2>2, <2>3, <2>4, <2>5 DEF Serve
<1>5. ASSUME NEW k \in Conns, SendRequest(k) \/ HangUp(k) PROVE PlaceInv'
  <2>1. CASE SendRequest(k)
    <3>1. /\ sentN' = [sentN EXCEPT ![k] = @ + 1] /\ sentN[k] < Len(Script[k])
          /\ UNCHANGED <<at, readN, hungUp, loop, acceptor, open, ctx, stop, helper, overdue,
                         panicked>>
      BY <2>1 DEF SendRequest, acceptVars, stopVars
    <3>2. OwnTypeOK'
      BY <1>0, <3>1 DEF OwnTypeOK
    <3>3. ScriptInv'
      BY <1>0, <1>1, <3>1 DEF OwnTypeOK, ScriptInv
    <3> QED BY <3>2, <3>3 DEF PlaceInv
  <2>2. CASE HangUp(k)
    BY <1>0, <2>2 DEF HangUp, acceptVars, stopVars, PlaceInv, OwnTypeOK, ScriptInv
  <2> QED BY <1>5, <2>1, <2>2
<1>6. ASSUME CloseListener,
             UNCHANGED <<readN, sentN, hungUp, loop, acceptor, ctx, overdue, panicked>>,
             stop' \in [Stoppers -> {"idle", "waiting", "nil", "gaveUp"}],
             helper' \in [Stoppers -> {"none", "starting", "blocked", "woken", "returned"}]
      PROVE  PlaceInv'
  <2>1. /\ at' \in [Conns -> Places]
        /\ \A l \in Conns : at'[l] \in InRequest => at[l] \in InRequest
    BY <1>0, <1>6 DEF OwnTypeOK, CloseListener, Places, InRequest
  <2>2. open' = FALSE
    BY <1>6 DEF CloseListener
  <2>3. OwnTypeOK'
    BY <1>0, <1>6, <2>1, <2>2 DEF OwnTypeOK
  <2>4. ScriptInv'
    BY <1>0, <1>6, <2>1 DEF ScriptInv
  <2> QED BY <2>3, <2>4 DEF PlaceInv
<1>7. ASSUME UNCHANGED <<at, readN, sentN, hungUp, open>>,
             loop' \in {"accepting", "holding", "context", "closed"},
             acceptor' \in {"waiting", "delivered", "failed"},
             ctx' \in {"live", "canceled", "expired"},
             stop' \in [Stoppers -> {"idle", "waiting", "nil", "gaveUp"}],
             helper' \in [Stoppers -> {"none", "starting", "blocked", "woken", "returned"}],
             overdue' \subseteq Stoppers, panicked' \in BOOLEAN
      PROVE  PlaceInv'
  BY <1>0, <1>7 DEF PlaceInv, OwnTypeOK, ScriptInv
<1>8. ASSUME NEW s \in Stoppers, Shutdown(s) PROVE PlaceInv'
  <2>1. CASE ShutdownCloses(s)
    BY <1>0, <1>6, <2>1 DEF ShutdownCloses, clientVars, acceptVars, OwnTypeOK
  <2>2. CASE WaitStarts(s) \/ WaitWakes(s)
    BY <1>0, <1>7, <2>2 DEF WaitStarts, WaitWakes, clientVars, acceptVars, OwnTypeOK
  <2>3. CASE ShutdownReturns(s)
    BY <1>0, <1>7, <2>3 DEF ShutdownReturns, clientVars, acceptVars, OwnTypeOK
  <2>4. CASE ShutdownExpires(s)
    BY <1>0, <1>7, <2>4 DEF ShutdownExpires, clientVars, acceptVars, OwnTypeOK
  <2> QED BY <1>8, <2>1, <2>2, <2>3, <2>4 DEF Shutdown
<1>9. CASE AcceptorFails \/ AcceptCanceled \/ AcceptFails
  BY <1>0, <1>7, <1>9 DEF AcceptorFails, AcceptCanceled, AcceptFails, clientVars,
                          stopVars, OwnTypeOK
<1>10. CASE CancelContext
  BY <1>0, <1>7, <1>10 DEF CancelContext, clientVars, acceptVars, stopVars, OwnTypeOK
<1>11. CASE Close
  BY <1>0, <1>6, <1>11 DEF Close, clientVars, acceptVars, stopVars, OwnTypeOK
<1>12. CASE Clock \/ UNCHANGED tcpVars
  BY <1>0, <1>7, <1>12 DEF Clock, tcpVars, clientVars, acceptVars, stopVars, OwnTypeOK
<1>13. CASE DoneReleases
  BY <1>0, <1>7, <1>13 DEF DoneReleases, clientVars, acceptVars, OwnTypeOK
<1> QED BY <1>2, <1>4, <1>5, <1>8, <1>9, <1>10, <1>11, <1>12, <1>13 DEF TCPNext, Client

\* No request is handled that was not sent and read.
THEOREM TCPPlaces == TCPSpec => []PlaceInv
BY InitPlaceInv, StepPlaceInv, PTL DEF TCPSpec

\* A connection's step is a step of the Deduplicator for the request at
\* hand, or leaves it alone; nothing else but the clock touches it.
LEMMA TCPStepImplements ==
    ASSUME PlaceInv, PlaceInv', [TCPNext]_tcpVars PROVE [Next]_vars
<1>1. ASSUME NEW k \in Conns, HandleConn(k) PROVE [Next]_vars
  <2>1. CASE ReadRequest(k)
    <3>1. readN'[k] >= 1
      BY <2>1 DEF ReadRequest, Read, Buffered, PlaceInv, OwnTypeOK
    <3>2. Current(k)' \in Callers
      <4>1. /\ readN'[k] \in Nat /\ readN'[k] <= sentN'[k] /\ sentN'[k] <= Len(Script[k])
            /\ sentN'[k] \in Nat
        BY DEF PlaceInv, OwnTypeOK, ScriptInv
      <4>2. Len(Script[k]) \in Nat
        BY ScriptAssumption
      <4> QED BY <3>1, <4>1, <4>2, ScriptEntry DEF Current
    <3> QED BY <2>1, <3>2 DEF ReadRequest, Next, Step
  <2>2. CASE at[k] \in InRequest
    <3>1. Current(k) \in Callers
      BY <2>2, CurrentIsCaller DEF PlaceInv, ScriptInv
    <3>2. CASE DetectDuplicate(k)
      BY <3>1, <3>2 DEF DetectDuplicate, Next, Step
    <3>3. CASE LookupCached(k)
      BY <3>1, <3>3 DEF LookupCached, Next, Step
    <3>4. CASE HandlerSilent(k) \/ HandlerFails(k)
      BY <3>1, <3>4 DEF HandlerSilent, HandlerFails, Next, Step
    <3>5. CASE HandlerReplies(k)
      BY <3>1, <3>5 DEF HandlerReplies, Next, Step
    <3>6. CASE AnswerDuplicate(k) \/ SendReply(k)
      BY <3>6 DEF AnswerDuplicate, SendReply
    <3>7. CASE UnknownClient(k) \/ KnownClient(k) \/ ReadEnds(k) \/ ReadMalformed(k)
      BY <3>7 DEF UnknownClient, KnownClient, ReadEnds, ReadMalformed
    <3> QED BY <1>1, <2>1, <3>2, <3>3, <3>4, <3>5, <3>6, <3>7 DEF HandleConn
  <2>3. CASE at[k] \notin InRequest
    BY <1>1, <2>1, <2>3 DEF HandleConn, InRequest, UnknownClient, KnownClient, ReadEnds,
         ReadMalformed, DetectDuplicate, LookupCached, AnswerDuplicate, HandlerSilent,
         HandlerFails, HandlerReplies, SendReply
  <2> QED BY <2>2, <2>3
<1>2. ASSUME NEW k \in Conns, Client(k) \/ AcceptorTakes(k) \/ Serve(k)
      PROVE  UNCHANGED vars
  BY <1>2 DEF Client, Connect, SendRequest, HangUp, AcceptorTakes, Serve, AcceptReturns,
              StartConn, StartConnPanics
<1>3. ASSUME NEW s \in Stoppers, Shutdown(s) PROVE UNCHANGED vars
  BY <1>3 DEF Shutdown, ShutdownCloses, WaitStarts, WaitWakes, ShutdownReturns,
              ShutdownExpires
<1>4. CASE DoneReleases \/ AcceptorFails \/ AcceptCanceled \/ AcceptFails \/ CancelContext
           \/ Close
  BY <1>4 DEF DoneReleases, AcceptorFails, AcceptCanceled, AcceptFails, CancelContext, Close
<1>5. CASE Clock
  BY <1>5 DEF Clock, Next
<1>6. CASE UNCHANGED tcpVars
  BY <1>6 DEF tcpVars
<1> QED BY <1>1, <1>2, <1>3, <1>4, <1>5, <1>6 DEF TCPNext

\* The TCP server takes the Deduplicator's steps, whatever the number of
\* connections and the requests they carry ...
LEMMA TCPTakesItsSteps == TCPSpec => Spec
<1>1. TCPInit => Init
  BY DEF TCPInit
<1>2. PlaceInv /\ PlaceInv' /\ [TCPNext]_tcpVars => [Next]_vars
  BY TCPStepImplements
<1> QED BY <1>1, <1>2, TCPPlaces, PTL DEF TCPSpec, Spec

\* ... so the Deduplicator's invariant holds in the TCP server.
THEOREM TCPKeepsIInv == TCPSpec => []IInv
BY TCPTakesItsSteps, Invariance, PTL

-----------------------------------------------------------------------------
(* The WaitGroup, Accept and Shutdown.                                     *)

RunningSet == {k \in Conns : at[k] \in Running}

\* The WaitGroup's counter is the number of connections with a goroutine.
CountInv == IsFiniteSet(RunningSet) /\ wg = Cardinality(RunningSet)

\* Between the kernel and wg.Add there is one connection at most: Serve's,
\* or that of the latest Accept's goroutine.
Pending(k) == at[k] \in {"delivered", "held"}

AcceptInv ==
    /\ \A k \in Conns : Pending(k) => acceptor = "delivered"
    /\ \A k \in Conns : at[k] = "held" => loop = "holding"
    /\ \A k, l \in Conns : Pending(k) /\ Pending(l) => k = l

\* A helper goroutine has seen the counter at zero, or somebody has for it.
SeenZero ==
    \/ \E s \in Stoppers : helper[s] \in {"woken", "returned"} \/ stop[s] = "nil"
    \/ panicked

\* A Shutdown that has begun has closed the listener; the counter at zero then
\* leaves at most the connection that was pending.
AtMostOne ==
    \A k, l \in Conns :
        /\ at[k] \in Running \cup {"delivered", "held"}
        /\ at[l] \in Running \cup {"delivered", "held"}
        => k = l

StopInv ==
    /\ \A s \in Stoppers : stop[s] # "idle" \/ helper[s] # "none" => ~open
    /\ panicked => ~open
    /\ SeenZero => AtMostOne

ServeInv == CountInv /\ AcceptInv /\ StopInv

\* Moving one connection changes the counted set as it changes that
\* connection's place.
LEMMA MoveCounts ==
    ASSUME CountInv, OwnTypeOK, NEW k \in Conns, NEW p \in Places, Move(k, p)
    PROVE  /\ at[k] \in Running /\ p \in Running /\ wg' = wg => CountInv'
           /\ at[k] \notin Running /\ p \notin Running /\ wg' = wg => CountInv'
           /\ at[k] \notin Running /\ p \in Running /\ wg' = wg + 1 => CountInv'
           /\ at[k] \in Running /\ p \notin Running /\ wg' = wg - 1 => CountInv'
<1>1. at' = [at EXCEPT ![k] = p] /\ at \in [Conns -> Places]
  BY DEF Move, OwnTypeOK
<1>2. CASE (at[k] \in Running) = (p \in Running)
  <2>1. RunningSet' = RunningSet
    BY <1>1, <1>2 DEF RunningSet
  <2> QED BY <1>2, <2>1 DEF CountInv
<1>3. CASE at[k] \notin Running /\ p \in Running
  <2>1. RunningSet' = RunningSet \cup {k} /\ k \notin RunningSet
    BY <1>1, <1>3 DEF RunningSet
  <2> QED BY <1>3, <2>1, FS_AddElement DEF CountInv
<1>4. CASE at[k] \in Running /\ p \notin Running
  <2>1. RunningSet' = RunningSet \ {k} /\ k \in RunningSet
    BY <1>1, <1>4 DEF RunningSet
  <2> QED BY <1>4, <2>1, FS_RemoveElement DEF CountInv
<1> QED BY <1>2, <1>3, <1>4

\* A step of a connection's goroutine keeps the count, and lets nothing new
\* be pending or running.
LEMMA HandleConnServeInv ==
    ASSUME PlaceInv, ServeInv, NEW k \in Conns, HandleConn(k) PROVE ServeInv'
<1>0. OwnTypeOK /\ CountInv /\ AcceptInv /\ StopInv
  BY DEF PlaceInv, ServeInv
<1>1. at[k] \in Running /\ UNCHANGED <<loop, acceptor, open, stop, helper, panicked>>
  BY HandleConnShape DEF acceptVars, stopVars
<1>2. CASE UNCHANGED <<at, wg>>
  BY <1>0, <1>1, <1>2 DEF ServeInv, CountInv, RunningSet, AcceptInv, Pending, StopInv,
                          SeenZero, AtMostOne
<1>3. ASSUME NEW p \in Running \cup {"closed"}, Move(k, p), CountInv' PROVE ServeInv'
  <2>1. p \in Places /\ p \notin {"delivered", "held"} /\ at[k] \notin {"delivered", "held"}
    BY <1>1 DEF Places, Running, InRequest
  <2>2. at'[k] = p /\ \A l \in Conns \ {k} : at'[l] = at[l]
    BY <1>0, <1>3 DEF Move, OwnTypeOK
  <2>3. \A l \in Conns : Pending(l)' => Pending(l) /\ at'[l] = at[l]
    BY <2>1, <2>2 DEF Pending
  <2>4. AcceptInv'
    BY <1>0, <1>1, <2>3 DEF AcceptInv, Pending
  <2>5. \A l \in Conns : at'[l] \in Running \cup {"delivered", "held"}
                          => at[l] \in Running \cup {"delivered", "held"}
    BY <1>1, <2>2
  <2>6. StopInv'
    BY <1>0, <1>1, <2>5 DEF StopInv, SeenZero, AtMostOne
  <2> QED BY <1>3, <2>4, <2>6 DEF ServeInv
<1>4. ASSUME NEW p \in Running, Move(k, p), UNCHANGED wg PROVE ServeInv'
  <2>1. CountInv'
    BY <1>0, <1>1, <1>4, MoveCounts DEF Places
  <2> QED BY <1>3, <1>4, <2>1
<1>5. CASE EndConn(k)
  <2>1. Move(k, "closed") /\ wg' = wg - 1 /\ "closed" \in Places /\ "closed" \notin Running
    BY <1>5 DEF EndConn, Places, Running, InRequest
  <2>2. CountInv'
    BY <1>0, <1>1, <2>1, MoveCounts
  <2> QED BY <1>3, <2>1, <2>2
<1> QED BY <1>2, <1>4, <1>5, HandleConnShape

\* At a counter of zero only the pending connection is left.
LEMMA NoneRunningAtZero == ASSUME ServeInv, wg = 0 PROVE AtMostOne
<1>1. RunningSet = {}
  BY FS_EmptySet DEF ServeInv, CountInv
<1> QED BY <1>1 DEF ServeInv, RunningSet, AcceptInv, Pending, AtMostOne

\* Accept and Serve: the pending connection is passed on, and counted.
LEMMA AcceptServeInv ==
    ASSUME PlaceInv, ServeInv, NEW k \in Conns, Connect(k) \/ AcceptorTakes(k) \/ Serve(k)
    PROVE  ServeInv'
<1>0. OwnTypeOK /\ CountInv /\ AcceptInv /\ StopInv
  BY DEF PlaceInv, ServeInv
<1>1. ASSUME NEW p \in Places, Move(k, p)
      PROVE  at'[k] = p /\ \A l \in Conns \ {k} : at'[l] = at[l]
  BY <1>0, <1>1 DEF Move, OwnTypeOK
<1>2. {"backlog", "delivered", "held", "started"} \subseteq Places
  BY DEF Places, Running
<1>3. {"none", "backlog", "delivered", "held"} \cap Running = {} /\ "started" \in Running
  BY DEF Running, InRequest
<1>4. CASE Connect(k)
  <2>1. /\ Move(k, "backlog") /\ at[k] = "none" /\ wg' = wg
        /\ UNCHANGED <<loop, acceptor, open, stop, helper, panicked>>
    BY <1>4 DEF Connect, acceptVars, stopVars
  <2>2. CountInv'
    BY <1>0, <1>2, <1>3, <2>1, MoveCounts
  <2>3. AcceptInv'
    BY <1>0, <1>1, <1>2, <2>1 DEF AcceptInv, Pending
  <2>4. StopInv'
    BY <1>0, <1>1, <1>2, <1>3, <2>1 DEF StopInv, SeenZero, AtMostOne
  <2> QED BY <2>2, <2>3, <2>4 DEF ServeInv
<1>5. CASE AcceptorTakes(k)
  <2>1. /\ Move(k, "delivered") /\ at[k] = "backlog" /\ wg' = wg /\ open
        /\ acceptor = "waiting" /\ acceptor' = "delivered"
        /\ UNCHANGED <<loop, open, stop, helper, panicked>>
    BY <1>5 DEF AcceptorTakes, stopVars
  <2>2. CountInv'
    BY <1>0, <1>2, <1>3, <2>1, MoveCounts
  <2>3. \A l \in Conns : ~Pending(l)
    BY <1>0, <2>1 DEF AcceptInv
  <2>4. AcceptInv'
    BY <1>1, <1>2, <2>1, <2>3 DEF AcceptInv, Pending
  <2>5. StopInv'
    BY <1>0, <2>1 DEF StopInv, SeenZero, OwnTypeOK
  <2> QED BY <2>2, <2>4, <2>5 DEF ServeInv
<1>6. CASE AcceptReturns(k)
  <2>1. /\ Move(k, "held") /\ at[k] = "delivered" /\ wg' = wg
        /\ loop' = "holding" /\ UNCHANGED <<acceptor, open, stop, helper, panicked>>
    BY <1>6 DEF AcceptReturns, stopVars
  <2>2. CountInv'
    BY <1>0, <1>2, <1>3, <2>1, MoveCounts
  <2>3. AcceptInv'
    BY <1>0, <1>1, <1>2, <2>1 DEF AcceptInv, Pending
  <2>4. StopInv'
    BY <1>0, <1>1, <1>2, <2>1 DEF StopInv, SeenZero, AtMostOne
  <2> QED BY <2>2, <2>3, <2>4 DEF ServeInv
<1>7. CASE StartConn(k)
  <2>1. /\ Move(k, "started") /\ at[k] = "held" /\ wg' = wg + 1
        /\ UNCHANGED <<open, stop, helper, panicked>>
    BY <1>7 DEF StartConn, stopVars
  <2>2. CountInv'
    BY <1>0, <1>2, <1>3, <2>1, MoveCounts
  <2>3. \A l \in Conns : ~Pending(l)'
    BY <1>0, <1>1, <1>2, <2>1 DEF AcceptInv, Pending
  <2>4. AcceptInv'
    BY <2>3 DEF AcceptInv, Pending
  <2>5. StopInv'
    BY <1>0, <1>1, <1>2, <2>1 DEF StopInv, SeenZero, AtMostOne
  <2> QED BY <2>2, <2>4, <2>5 DEF ServeInv
<1>8. CASE StartConnPanics(k)
  <2>1. /\ UNCHANGED <<at, loop, acceptor, wg, open, stop, helper>>
        /\ wg = 0 /\ Asleep # {}
    BY <1>8 DEF StartConnPanics, acceptVars
  <2>2. ~open
    BY <1>0, <2>1 DEF Asleep, StopInv
  <2>3. AtMostOne
    BY <2>1, NoneRunningAtZero
  <2> QED BY <1>0, <2>1, <2>2, <2>3 DEF ServeInv, CountInv, RunningSet, AcceptInv, Pending,
                                        StopInv, AtMostOne
<1> QED BY <1>4, <1>5, <1>6, <1>7, <1>8 DEF Serve

\* Closing the listener moves only connections that nobody has accepted.
LEMMA CloseListenerServeInv ==
    ASSUME PlaceInv, ServeInv, CloseListener, UNCHANGED <<loop, acceptor, wg>>,
           SeenZero' => SeenZero
    PROVE  ServeInv'
<1>0. OwnTypeOK /\ CountInv /\ AcceptInv /\ StopInv
  BY DEF PlaceInv, ServeInv
<1>1. \A k \in Conns : /\ at'[k] = at[k] \/ (at[k] = "backlog" /\ at'[k] = "closed")
                       /\ ~open'
  BY <1>0 DEF CloseListener, OwnTypeOK
<1>2. {"backlog", "closed"} \cap (Running \cup {"delivered", "held"}) = {}
  BY DEF Running, InRequest
<1>3. RunningSet' = RunningSet
  BY <1>1, <1>2 DEF RunningSet
<1>4. CountInv'
  BY <1>0, <1>3 DEF CountInv
<1>5. AcceptInv'
  BY <1>0, <1>1 DEF AcceptInv, Pending
<1>6. open' = FALSE
  BY DEF CloseListener
<1>7. StopInv'
  BY <1>0, <1>1, <1>2, <1>6 DEF StopInv, AtMostOne
<1> QED BY <1>4, <1>5, <1>7 DEF ServeInv

\* Shutdown's steps, and what wg.Wait does: whoever goes on, or panics, has
\* seen the counter at zero.
LEMMA ShutdownServeInv ==
    ASSUME PlaceInv, ServeInv, DoneReleases \/ \E s \in Stoppers : Shutdown(s)
    PROVE  ServeInv'
<1>0. OwnTypeOK /\ CountInv /\ AcceptInv /\ StopInv
  BY DEF PlaceInv, ServeInv
<1>1. ASSUME NEW s \in Stoppers, ShutdownCloses(s) PROVE ServeInv'
  <2>1. /\ CloseListener /\ UNCHANGED <<loop, acceptor, wg, panicked>>
        /\ stop' = [stop EXCEPT ![s] = "waiting"]
        /\ helper' = [helper EXCEPT ![s] = "starting"]
    BY <1>1 DEF ShutdownCloses, acceptVars
  <2>2. SeenZero' => SeenZero
    BY <1>0, <2>1 DEF OwnTypeOK, SeenZero
  <2> QED BY <2>1, <2>2, CloseListenerServeInv
<1>2. ASSUME UNCHANGED <<at, loop, acceptor, open, wg>>, ~open, SeenZero' => SeenZero \/ wg = 0
      PROVE  ServeInv'
  <2>1. CountInv' /\ AcceptInv'
    BY <1>0, <1>2 DEF CountInv, RunningSet, AcceptInv, Pending
  <2>2. wg = 0 => AtMostOne
    BY NoneRunningAtZero
  <2>3. StopInv'
    BY <1>0, <1>2, <2>2 DEF StopInv, AtMostOne
  <2> QED BY <2>1, <2>3 DEF ServeInv
<1>3. ASSUME NEW s \in Stoppers, WaitStarts(s) PROVE ServeInv'
  <2>1. /\ helper[s] = "starting"
        /\ helper' = [helper EXCEPT ![s] = IF wg = 0 THEN "returned" ELSE "blocked"]
        /\ UNCHANGED <<at, loop, acceptor, open, wg, stop, panicked>>
    BY <1>3 DEF WaitStarts, acceptVars
  <2>2. ~open /\ (SeenZero' => SeenZero \/ wg = 0)
    BY <1>0, <2>1 DEF StopInv, SeenZero, OwnTypeOK
  <2> QED BY <1>2, <2>1, <2>2
<1>4. CASE DoneReleases
  <2>1. wg = 0 /\ Asleep # {} /\ UNCHANGED <<at, loop, acceptor, open, wg>>
    BY <1>4 DEF DoneReleases, acceptVars
  <2>2. ~open
    BY <1>0, <2>1 DEF StopInv, Asleep
  <2> QED BY <1>2, <2>1, <2>2
<1>5. ASSUME NEW s \in Stoppers, WaitWakes(s) PROVE ServeInv'
  <2>1. helper[s] = "woken" /\ UNCHANGED <<at, loop, acceptor, open, wg>>
    BY <1>5 DEF WaitWakes, acceptVars
  <2>2. ~open /\ SeenZero
    BY <1>0, <2>1 DEF StopInv, SeenZero
  <2> QED BY <1>2, <2>1, <2>2
<1>6. ASSUME NEW s \in Stoppers, ShutdownReturns(s) \/ ShutdownExpires(s) PROVE ServeInv'
  <2>1. /\ stop[s] # "idle"
        /\ \/ stop' = stop
           \/ stop' = [stop EXCEPT ![s] = "gaveUp"]
           \/ helper[s] = "returned" /\ stop' = [stop EXCEPT ![s] = "nil"]
        /\ UNCHANGED <<at, loop, acceptor, open, wg, helper, panicked>>
    BY <1>6 DEF ShutdownReturns, ShutdownExpires, acceptVars
  <2>2. ~open /\ (SeenZero' => SeenZero)
    BY <1>0, <2>1 DEF StopInv, SeenZero, OwnTypeOK
  <2> QED BY <1>2, <2>1, <2>2
<1> QED BY <1>1, <1>3, <1>4, <1>5, <1>6 DEF Shutdown

\* Every step keeps the count and what Shutdown knows.
LEMMA StepServeInv == PlaceInv /\ ServeInv /\ [TCPNext]_tcpVars => ServeInv'
<1> SUFFICES ASSUME PlaceInv, ServeInv, [TCPNext]_tcpVars PROVE ServeInv'
  OBVIOUS
<1>0. OwnTypeOK /\ CountInv /\ AcceptInv /\ StopInv
  BY DEF PlaceInv, ServeInv
<1>1. ASSUME UNCHANGED <<at, wg, open, stop, helper, panicked>>,
             loop = "holding" => loop' = "holding",
             acceptor = "delivered" => acceptor' = "delivered"
      PROVE  ServeInv'
  BY <1>0, <1>1 DEF ServeInv, CountInv, RunningSet, AcceptInv, Pending, StopInv, SeenZero,
                    AtMostOne
<1>2. ASSUME NEW k \in Conns, SendRequest(k) \/ HangUp(k) PROVE ServeInv'
  BY <1>1, <1>2 DEF SendRequest, HangUp, acceptVars, stopVars
<1>3. CASE AcceptorFails \/ AcceptCanceled \/ AcceptFails
  BY <1>1, <1>3 DEF AcceptorFails, AcceptCanceled, AcceptFails, stopVars
<1>4. CASE CancelContext \/ Clock \/ UNCHANGED tcpVars
  BY <1>1, <1>4 DEF CancelContext, Clock, tcpVars, acceptVars, stopVars
<1>5. CASE Close
  <2>1. CloseListener /\ UNCHANGED <<loop, acceptor, wg, stop, helper, panicked>>
    BY <1>5 DEF Close, acceptVars, stopVars
  <2>2. SeenZero' => SeenZero
    BY <2>1 DEF SeenZero
  <2> QED BY <2>1, <2>2, CloseListenerServeInv
<1> QED BY <1>2, <1>3, <1>4, <1>5, HandleConnServeInv, AcceptServeInv, ShutdownServeInv
        DEF TCPNext, Client

\* A new server has started nothing (NewTCPServer).
LEMMA InitServeInv == TCPInit => ServeInv
<1> SUFFICES ASSUME TCPInit PROVE ServeInv
  OBVIOUS
<1>1. RunningSet = {}
  BY DEF TCPInit, RunningSet, Running, InRequest
<1>2. CountInv
  BY <1>1, FS_EmptySet DEF TCPInit, CountInv
<1>3. AcceptInv /\ StopInv
  BY DEF TCPInit, AcceptInv, Pending, StopInv, SeenZero
<1> QED BY <1>2, <1>3 DEF ServeInv

\* The counter counts, whatever connections come and go.
THEOREM TCPServeInvariance == TCPSpec => []ServeInv
BY InitServeInv, StepServeInv, TCPPlaces, PTL DEF TCPSpec

\* A nil result of Shutdown, or a panic under it, leaves one connection at most with a goroutine
\* now or later (TCPServer.Shutdown, however many connections there are).
THEOREM TCPShutdownDrains == TCPSpec => []ShutdownLeavesAtMostOne
<1>1. ServeInv => ShutdownLeavesAtMostOne
  <2> SUFFICES ASSUME ServeInv, (\E s \in Stoppers : stop[s] = "nil") \/ panicked,
                      NEW k \in Conns, NEW l \in Conns,
                      {at[k], at[l]} \subseteq Running \cup {"delivered", "held"}
               PROVE  k = l
    BY DEF ShutdownLeavesAtMostOne
  <2> QED BY DEF ServeInv, StopInv, SeenZero, AtMostOne
<1> QED BY <1>1, TCPServeInvariance, PTL

\* A canceled Accept loses one connection at most (TCPListener.Accept).
THEOREM TCPStrandsOne == TCPSpec => []AtMostOneStranded
<1>1. ServeInv => AtMostOneStranded
  BY DEF ServeInv, AcceptInv, Pending, AtMostOneStranded
<1> QED BY <1>1, TCPServeInvariance, PTL

-----------------------------------------------------------------------------
(* One request at a time on a connection: what the Deduplicator's entries  *)
(* and the replies look like to it.                                        *)

Final == {"stored", "silent", "hit", "miss"}

\* Where the request at hand is in the Deduplicator.
PhaseAt(k) ==
    LET p == call[Current(k)].at IN
    /\ at[k] = "seen" => p = "seen"
    /\ at[k] = "handling" => p = "first"
    /\ at[k] = "replying" => p = "stored"
    /\ at[k] = "duplicate" => p \in {"duplicate", "waiting", "copying", "hit", "miss"}
    /\ at[k] = "reading" => p \in Final
    /\ at[k] = "closed" => p \in Final \cup {"idle"}

\* Requests before the one at hand are finished, those after it untouched.
PhaseInv ==
    /\ \A c \in Callers :
          call[c].at # "idle" => \E k \in Conns : \E i \in DOMAIN Script[k] : Script[k][i] = c
    /\ \A k \in Conns : \A i \in DOMAIN Script[k] :
          /\ i > readN[k] => call[Script[k][i]].at = "idle"
          /\ i < readN[k] => call[Script[k][i]].at \in Final
          /\ i = readN[k] => PhaseAt(k)
    /\ \A k \in Conns :
          at[k] \in {"none", "backlog", "delivered", "held", "started"} => readN[k] = 0

\* Request j is the latest of n's key, up to n, that ran the handler.
IsLatestRun(k, n, j) ==
    /\ j \in 1..n
    /\ Allocated(Script[k][j]) /\ DedupKey(Script[k][j]) = DedupKey(Script[k][n])
    /\ \A i \in 1..n :
          Allocated(Script[k][i]) /\ DedupKey(Script[k][i]) = DedupKey(Script[k][n])
          => i <= j

\* An entry belongs to a request that ran or runs the handler, holds its
\* own reply if any, and once that is stored is closed.
OwnEntryInv ==
    \A c \in Callers :
        /\ Allocated(c) => call[c].at \in {"first", "stored", "silent"}
        /\ entry[c].reply \in {None, c}
        /\ call[c].at = "stored" => entry[c].done # "open"

\* The live entry of a key is the latest.
LiveIsLatest ==
    \A k \in Conns : \A i, j \in DOMAIN Script[k] :
        /\ Allocated(Script[k][i]) /\ Live(Script[k][j])
        /\ DedupKey(Script[k][i]) = DedupKey(Script[k][j])
        => i <= j

\* A duplicate's pointer is to the latest entry, its reply that entry's.
FoundLatest(k) ==
    at[k] = "duplicate" /\ call[Current(k)].at \in {"waiting", "copying", "hit"}
    => \E j \in 1..readN[k] :
          /\ IsLatestRun(k, readN[k], j)
          /\ call[Current(k)].ptr = Script[k][j]
          /\ call[Current(k)].at \in {"copying", "hit"}
             => call[Current(k)].got = Script[k][j]

RunInv == OwnEntryInv /\ LiveIsLatest /\ \A k \in Conns : FoundLatest(k)

\* Two positions of scripts hold different requests, and keys of requests of
\* different connections differ.
LEMMA ScriptsAreApart ==
    ASSUME NEW k \in Conns, NEW l \in Conns, NEW i \in DOMAIN Script[k], NEW j \in DOMAIN Script[l]
    PROVE  /\ Script[k][i] \in Callers
           /\ Script[k][i] = Script[l][j] => k = l /\ i = j
           /\ DedupKey(Script[k][i]) = DedupKey(Script[l][j]) => k = l
<1>1. Script[k] \in Seq(Callers)
  BY ScriptAssumption
<1> QED BY <1>1, RequestsAssumption DEF DedupKey

\* Positions read are positions of the script.
LEMMA ReadPositions ==
    ASSUME PlaceInv, NEW k \in Conns
    PROVE  /\ DOMAIN Script[k] = 1..Len(Script[k]) /\ Len(Script[k]) \in Nat
           /\ readN[k] \in Nat /\ readN[k] <= Len(Script[k])
           /\ 1..readN[k] \subseteq DOMAIN Script[k]
           /\ readN[k] >= 1 => readN[k] \in DOMAIN Script[k]
           /\ at[k] \in InRequest => readN[k] \in DOMAIN Script[k] /\ Current(k) \in Callers
<1>1. DOMAIN Script[k] = 1..Len(Script[k]) /\ Len(Script[k]) \in Nat
  BY ScriptAssumption
<1>2. /\ readN[k] \in Nat /\ sentN[k] \in Nat
      /\ readN[k] <= sentN[k] /\ sentN[k] <= Len(Script[k])
      /\ at[k] \in InRequest => readN[k] >= 1
  BY DEF PlaceInv, OwnTypeOK, ScriptInv
<1>3. readN[k] >= 1 => readN[k] \in DOMAIN Script[k]
  BY <1>1, <1>2
<1>4. at[k] \in InRequest => readN[k] \in DOMAIN Script[k] /\ Current(k) \in Callers
  BY <1>2, <1>3, ScriptsAreApart DEF Current
<1>5. 1..readN[k] \subseteq DOMAIN Script[k]
  BY <1>1, <1>2
<1> QED BY <1>1, <1>2, <1>3, <1>4, <1>5

\* A step of k's goroutine with the request at position n keeps PhaseInv if
\* it leaves k's own place right.
LEMMA PhaseFrame ==
    ASSUME PlaceInv, PhaseInv, NEW k \in Conns, NEW n \in DOMAIN Script[k],
           readN'[k] = n, \A l \in Conns \ {k} : readN'[l] = readN[l] /\ at'[l] = at[l],
           n = readN[k] \/ (n = readN[k] + 1 /\ at[k] = "reading"),
           \A d \in Callers \ {Script[k][n]} : call'[d] = call[d],
           at'[k] \in {"reading", "closed"} \cup InRequest, PhaseAt(k)'
    PROVE  PhaseInv'
<1> DEFINE c == Script[k][n]
<1>1. c \in Callers /\ n \in Nat /\ n >= 1 /\ readN[k] \in Nat
  BY ReadPositions, ScriptsAreApart
<1>2. ASSUME NEW d \in Callers, call'[d].at # "idle"
      PROVE  \E l \in Conns : \E i \in DOMAIN Script[l] : Script[l][i] = d
  <2>1. CASE d = c
    BY <2>1
  <2>2. CASE d # c
    BY <1>2, <2>2 DEF PhaseInv
  <2> QED BY <2>1, <2>2
<1>3. ASSUME NEW l \in Conns, NEW i \in DOMAIN Script[l]
      PROVE  /\ i > readN'[l] => call'[Script[l][i]].at = "idle"
             /\ i < readN'[l] => call'[Script[l][i]].at \in Final
             /\ i = readN'[l] => PhaseAt(l)'
  <2>0. i \in Nat /\ Script[l][i] \in Callers
    BY ReadPositions, ScriptsAreApart
  <2>1. CASE l # k
    <3>1. Script[l][i] # c
      BY <2>1, ScriptsAreApart
    <3>2. call'[Script[l][i]] = call[Script[l][i]] /\ readN'[l] = readN[l] /\ at'[l] = at[l]
      BY <2>0, <2>1, <3>1
    <3>3. ASSUME i = readN[l] PROVE PhaseAt(l)'
      <4>1. PhaseAt(l)
        BY Zenon, <3>3 DEF PhaseInv
      <4>2. call'[Current(l)'] = call[Current(l)] /\ at'[l] = at[l]
        BY Zenon, <3>2, <3>3 DEF Current
      <4> QED BY Zenon, <4>1, <4>2 DEF PhaseAt
    <3> QED BY <3>2, <3>3 DEF PhaseInv
  <2>2. CASE l = k
    <3>1. i # n => call'[Script[k][i]] = call[Script[k][i]]
      BY <2>0, <2>2, ScriptsAreApart
    <3>2. i > n => i > readN[k]
      BY <1>1, <2>0
    <3>3. i < n => i < readN[k] \/ (i = readN[k] /\ at[k] = "reading")
      BY <1>1, <2>0
    <3>4. i = readN[k] /\ at[k] = "reading" => call[Script[k][i]].at \in Final
      BY <2>2 DEF PhaseInv, PhaseAt, Current
    <3>5. i > n => call'[Script[k][i]].at = "idle"
      BY <1>1, <2>0, <2>2, <3>1, <3>2 DEF PhaseInv
    <3>6. i < n => call'[Script[k][i]].at \in Final
      BY <1>1, <2>0, <2>2, <3>1, <3>3, <3>4 DEF PhaseInv
    <3> QED BY <2>2, <3>5, <3>6
  <2> QED BY <2>1, <2>2
<1>4. ASSUME NEW l \in Conns,
             at'[l] \in {"none", "backlog", "delivered", "held", "started"}
      PROVE  readN'[l] = 0
  BY <1>4 DEF PhaseInv, InRequest
<1> QED BY <1>2, <1>3, <1>4 DEF PhaseInv

\* A step that changes no call and no position keeps PhaseInv if it moves
\* connections as the server does.
LEMMA PhaseQuiet ==
    ASSUME PhaseInv, UNCHANGED <<call, readN>>,
           \A l \in Conns :
               \/ at'[l] = at[l]
               \/ at'[l] = "closed" /\ at[l] = "reading"
               \/ readN[l] = 0 /\ at'[l] \notin InRequest
    PROVE  PhaseInv'
<1>1. ASSUME NEW l \in Conns, NEW i \in DOMAIN Script[l], i = readN[l] PROVE PhaseAt(l)'
  <2>1. readN[l] # 0
    <3>1. DOMAIN Script[l] = 1..Len(Script[l])
      BY ScriptAssumption
    <3> QED BY <1>1, <3>1
  <2>2. PhaseAt(l) /\ (at'[l] = at[l] \/ (at'[l] = "closed" /\ at[l] = "reading"))
    BY <1>1, <2>1 DEF PhaseInv
  <2> QED BY <2>2 DEF PhaseAt, Current
<1>2. \A l \in Conns :
         at'[l] \in {"none", "backlog", "delivered", "held", "started"} => readN'[l] = 0
  BY DEF PhaseInv
<1> QED BY <1>1, <1>2 DEF PhaseInv

\* What a step of the goroutine does to its request's call.
LEMMA HandleConnPhase ==
    ASSUME Dedup, PlaceInv, PlaceInv', IInv, PhaseInv, NEW k \in Conns, HandleConn(k)
    PROVE  PhaseInv'
<1> DEFINE c == Current(k)
<1>0. /\ at \in [Conns -> Places] /\ readN \in [Conns -> Nat]
      /\ call \in [Callers -> [at : Phases, now : Nat, ptr : Callers \cup {None},
                               got : Replies \cup {Torn}]]
  BY DEF PlaceInv, OwnTypeOK, IInv, TypeOK
<1>1. ASSUME NEW p \in Places, Move(k, p)
      PROVE  at'[k] = p /\ \A l \in Conns \ {k} : at'[l] = at[l]
  BY <1>0, <1>1 DEF Move
<1>2. {"reading", "closed"} \cup InRequest \subseteq Places
  BY DEF Places, Running
<1>3. ASSUME NEW d \in Callers, NEW x, Goto(d, x)
      PROVE  call'[d].at = x /\ \A e \in Callers \ {d} : call'[e] = call[e]
  BY <1>0, <1>3 DEF Goto
<1>4. at[k] \in InRequest => /\ c \in Callers /\ readN[k] \in DOMAIN Script[k]
                             /\ c = Script[k][readN[k]] /\ PhaseAt(k)
  BY ReadPositions DEF Current, PhaseInv
<1>5. CASE UnknownClient(k) \/ KnownClient(k) \/ ReadEnds(k)
  <2>1. /\ UNCHANGED <<call, readN>>
        /\ \/ at[k] = "reading" /\ Move(k, "closed")
           \/ at[k] = "started" /\ (Move(k, "closed") \/ Move(k, "reading"))
    BY <1>5 DEF UnknownClient, KnownClient, ReadEnds, EndConn, vars
  <2>2. \/ at[k] = "reading" /\ at'[k] = "closed"
        \/ readN[k] = 0 /\ at'[k] \in {"closed", "reading"}
    BY <1>1, <1>2, <2>1 DEF PhaseInv
  <2>3. \A l \in Conns \ {k} : at'[l] = at[l]
    BY <1>1, <1>2, <2>1
  <2> QED BY <2>1, <2>2, <2>3, PhaseQuiet DEF InRequest
<1>6. CASE ReadMalformed(k) \/ ReadRequest(k)
  <2> DEFINE n == readN[k] + 1
  <2>1. /\ at[k] = "reading" /\ readN' = [readN EXCEPT ![k] = @ + 1]
        /\ \/ Move(k, "closed") /\ UNCHANGED call
           \/ Move(k, "seen") /\ SeenReadsClock(Current(k)')
    BY <1>6 DEF ReadMalformed, ReadRequest, Read, EndConn, vars
  <2>2. readN'[k] = n /\ \A l \in Conns \ {k} : readN'[l] = readN[l]
    BY <1>0, <2>1
  <2>3. n \in DOMAIN Script[k]
    <3>1. DOMAIN Script[k] = 1..Len(Script[k]) /\ Len(Script[k]) \in Nat
      BY ReadPositions
    <3>2. n \in Nat /\ n >= 1
      BY <1>0
    <3>3. n <= Len(Script[k])
      BY <2>2, <3>1 DEF PlaceInv, OwnTypeOK, ScriptInv
    <3> QED BY <3>1, <3>2, <3>3
  <2>4. Current(k)' = Script[k][n] /\ Script[k][n] \in Callers
    BY <2>2, <2>3, ScriptsAreApart DEF Current
  <2>5. \A d \in Callers \ {Script[k][n]} : call'[d] = call[d]
    BY <1>0, <2>1, <2>4 DEF SeenReadsClock
  <2>6. at'[k] \in {"closed", "seen"} /\ \A l \in Conns \ {k} : at'[l] = at[l]
    BY <1>1, <1>2, <2>1 DEF InRequest
  <2>7. at'[k] = "seen" => call'[Script[k][n]].at = "seen"
    BY <1>0, <1>1, <1>2, <2>1, <2>4 DEF SeenReadsClock
  <2>8. at'[k] = "closed" => call'[Script[k][n]].at = "idle"
    <3>1. call[Script[k][n]].at = "idle"
      BY <1>0, <2>3 DEF PhaseInv
    <3>2. at'[k] = "closed" => UNCHANGED call
      BY <1>1, <1>2, <2>1 DEF InRequest
    <3> QED BY <3>1, <3>2
  <2>9. PhaseAt(k)'
    BY <2>4, <2>6, <2>7, <2>8 DEF PhaseAt
  <2> QED BY <2>1, <2>2, <2>3, <2>5, <2>6, <2>9, PhaseFrame DEF InRequest
<1>7. ASSUME NEW p \in {"reading", "closed"} \cup InRequest, at[k] \in InRequest,
             Move(k, p) \/ (p = at[k] /\ UNCHANGED at), UNCHANGED readN,
             \A d \in Callers \ {c} : call'[d] = call[d],
             p = "handling" => call'[c].at = "first",
             p = "replying" => call'[c].at = "stored",
             p = "duplicate" => call'[c].at \in {"duplicate", "waiting", "copying", "hit", "miss"},
             p \in {"reading", "closed"} => call'[c].at \in Final,
             p # "seen"
      PROVE  PhaseInv'
  <2>1. at'[k] = p /\ \A l \in Conns \ {k} : at'[l] = at[l]
    BY <1>0, <1>1, <1>2, <1>7
  <2>2. Current(k)' = c /\ c = Script[k][readN[k]] /\ readN[k] \in DOMAIN Script[k]
    BY <1>4, <1>7 DEF Current
  <2>3. PhaseAt(k)'
    BY <1>7, <2>1, <2>2 DEF PhaseAt
  <2> QED BY <1>7, <2>1, <2>2, <2>3, PhaseFrame
<1>8. CASE DetectDuplicate(k)
  <2>1. /\ at[k] = "seen" /\ UNCHANGED readN
        /\ Goto(c, "first") \/ Goto(c, "duplicate")
        /\ Move(k, IF call'[c].at = "first" THEN "handling" ELSE "duplicate")
    BY <1>8 DEF DetectDuplicate, SeenLocked
  <2>2. /\ c \in Callers /\ call'[c].at \in {"first", "duplicate"}
        /\ \A d \in Callers \ {c} : call'[d] = call[d]
    BY <1>3, <1>4, <2>1 DEF InRequest
  <2> QED BY <1>7, <2>1, <2>2 DEF InRequest
<1>9. CASE LookupCached(k)
  <2>1. at[k] = "duplicate" /\ UNCHANGED <<at, readN>> /\ Lookup(c)
    BY <1>9 DEF LookupCached
  <2>2. c \in Callers
    BY <1>4, <2>1 DEF InRequest
  <2>3. /\ call'[c].at \in {"waiting", "copying", "hit", "miss"}
        /\ \A d \in Callers \ {c} : call'[d] = call[d]
    <3>1. CASE LookupLocked(c)
      BY <1>0, <2>2, <3>1 DEF LookupLocked
    <3>2. CASE LookupWakes(c)
      BY <1>0, <2>2, <3>2 DEF LookupWakes
    <3>3. CASE LookupCopies(c)
      BY <1>0, <2>2, <3>3 DEF LookupCopies
    <3> QED BY <2>1, <3>1, <3>2, <3>3 DEF Lookup
  <2> QED BY <1>7, <2>1, <2>3 DEF InRequest
<1>10. CASE AnswerDuplicate(k)
  <2>1. /\ at[k] = "duplicate" /\ UNCHANGED <<call, readN>> /\ Move(k, "reading")
        /\ call[c].at \in {"hit", "miss"}
    BY <1>10 DEF AnswerDuplicate, vars
  <2> QED BY <1>7, <2>1 DEF InRequest, Final
<1>11. CASE HandlerSilent(k) \/ HandlerFails(k)
  <2>1. /\ at[k] = "handling" /\ UNCHANGED readN /\ Goto(c, "silent")
        /\ Move(k, "reading") \/ Move(k, "closed")
    BY <1>11 DEF HandlerSilent, HandlerFails, Abandon, EndConn
  <2>2. call'[c].at = "silent" /\ \A d \in Callers \ {c} : call'[d] = call[d]
    BY <1>3, <1>4, <2>1 DEF InRequest
  <2> QED BY <1>7, <2>1, <2>2 DEF InRequest, Final
<1>12. CASE HandlerReplies(k)
  <2>1. at[k] = "handling" /\ UNCHANGED readN /\ Goto(c, "stored") /\ Move(k, "replying")
    BY <1>12 DEF HandlerReplies, Store
  <2>2. call'[c].at = "stored" /\ \A d \in Callers \ {c} : call'[d] = call[d]
    BY <1>3, <1>4, <2>1 DEF InRequest
  <2> QED BY <1>7, <2>1, <2>2 DEF InRequest
<1>13. CASE SendReply(k)
  <2>1. /\ at[k] = "replying" /\ UNCHANGED <<call, readN>>
        /\ Move(k, "reading") \/ Move(k, "closed")
    BY <1>13 DEF SendReply, EndConn, vars
  <2>2. call[c].at = "stored"
    BY <1>4, <2>1 DEF PhaseAt, InRequest
  <2> QED BY <1>7, <2>1, <2>2 DEF InRequest, Final
<1> QED BY <1>5, <1>6, <1>8, <1>9, <1>10, <1>11, <1>12, <1>13 DEF HandleConn

\* Everybody else leaves the Deduplicator's entries and the connections that
\* have a goroutine alone.
LEMMA OthersShape ==
    ASSUME PlaceInv, [TCPNext]_tcpVars, ~\E k \in Conns : HandleConn(k)
    PROVE  /\ UNCHANGED <<call, entries, entry, readN, wire>>
           /\ \A l \in Conns :
                 \/ at'[l] = at[l]
                 \/ /\ at[l] \in {"none", "backlog", "delivered", "held"}
                    /\ at'[l] \notin InRequest
<1> DEFINE Early == {"none", "backlog", "delivered", "held"}
           Kept == /\ UNCHANGED <<call, entries, entry, readN, wire>>
                   /\ \A l \in Conns : at'[l] = at[l] \/ (at[l] \in Early /\ at'[l] \notin InRequest)
<1> SUFFICES Kept
  OBVIOUS
<1>0. at \in [Conns -> Places]
  BY DEF PlaceInv, OwnTypeOK
<1>1. ASSUME NEW k \in Conns, NEW p \in {"backlog", "delivered", "held", "started"},
             Move(k, p), at[k] \in Early, UNCHANGED <<vars, readN, wire>>
      PROVE  Kept
  <2>1. at'[k] = p /\ \A l \in Conns \ {k} : at'[l] = at[l]
    BY <1>0, <1>1 DEF Move
  <2> QED BY <1>1, <2>1 DEF vars, InRequest
<1>2. ASSUME NEW k \in Conns, Client(k) \/ AcceptorTakes(k) \/ Serve(k) PROVE Kept
  <2>1. CASE Connect(k)
    BY <1>1, <2>1 DEF Connect
  <2>2. CASE SendRequest(k) \/ HangUp(k)
    BY <2>2 DEF SendRequest, HangUp, vars
  <2>3. CASE AcceptorTakes(k)
    BY <1>1, <2>3 DEF AcceptorTakes
  <2>4. CASE AcceptReturns(k)
    BY <1>1, <2>4 DEF AcceptReturns
  <2>5. CASE StartConn(k)
    BY <1>1, <2>5 DEF StartConn
  <2>6. CASE StartConnPanics(k)
    BY <2>6 DEF StartConnPanics, vars
  <2> QED BY <1>2, <2>1, <2>2, <2>3, <2>4, <2>5, <2>6 DEF Client, Serve
<1>3. ASSUME CloseListener, UNCHANGED <<vars, readN, wire>> PROVE Kept
  BY <1>0, <1>3 DEF CloseListener, vars, InRequest
<1>4. ASSUME NEW s \in Stoppers, Shutdown(s) PROVE Kept
  <2>1. CASE ShutdownCloses(s)
    BY <1>3, <2>1 DEF ShutdownCloses
  <2>2. CASE WaitStarts(s) \/ WaitWakes(s) \/ ShutdownReturns(s) \/ ShutdownExpires(s)
    BY <2>2 DEF WaitStarts, WaitWakes, ShutdownReturns, ShutdownExpires, vars
  <2> QED BY <1>4, <2>1, <2>2 DEF Shutdown
<1>5. CASE Close
  BY <1>3, <1>5 DEF Close
<1>6. CASE DoneReleases \/ AcceptorFails \/ AcceptCanceled \/ AcceptFails \/ CancelContext
  BY <1>6 DEF DoneReleases, AcceptorFails, AcceptCanceled, AcceptFails, CancelContext, vars
<1>7. CASE Clock \/ UNCHANGED tcpVars
  BY <1>7 DEF Clock, Tick, tcpVars, vars
<1> QED BY <1>2, <1>4, <1>5, <1>6, <1>7 DEF TCPNext

\* A new server has seen no request.
LEMMA InitPhaseInv == TCPInit => PhaseInv
<1> SUFFICES ASSUME TCPInit PROVE PhaseInv
  OBVIOUS
<1>1. ASSUME NEW k \in Conns, NEW i \in DOMAIN Script[k]
      PROVE  i > readN[k] /\ Script[k][i] \in Callers
  <2>1. DOMAIN Script[k] = 1..Len(Script[k])
    BY ScriptAssumption
  <2> QED BY <2>1, ScriptsAreApart DEF TCPInit
<1>2. \A c \in Callers : call[c].at = "idle"
  BY DEF TCPInit, Init
<1>3. \A k \in Conns : \A i \in DOMAIN Script[k] : ~(i < readN[k]) /\ i # readN[k]
  <2> SUFFICES ASSUME NEW k \in Conns, NEW i \in DOMAIN Script[k]
               PROVE  ~(i < readN[k]) /\ i # readN[k]
    OBVIOUS
  <2>1. DOMAIN Script[k] = 1..Len(Script[k])
    BY ScriptAssumption
  <2> QED BY <2>1 DEF TCPInit
<1>4. \A k \in Conns : readN[k] = 0
  BY DEF TCPInit
<1> QED BY <1>1, <1>2, <1>3, <1>4 DEF PhaseInv

\* On a connection one request is in the Deduplicator at a time: those
\* before it are finished there, those after it have not entered.
THEOREM TCPRequestsTakeTurns == TCPSpec => [](Dedup => PhaseInv)
<1>1. TCPInit => (Dedup => PhaseInv)
  BY InitPhaseInv
<1>2. ASSUME PlaceInv, PlaceInv', IInv, Dedup, PhaseInv, [TCPNext]_tcpVars
      PROVE  PhaseInv'
  <2>1. CASE \E k \in Conns : HandleConn(k)
    BY <1>2, <2>1, HandleConnPhase
  <2>2. CASE ~\E k \in Conns : HandleConn(k)
    <3>1. /\ UNCHANGED <<call, readN>>
          /\ \A l \in Conns : at'[l] = at[l] \/ (readN[l] = 0 /\ at'[l] \notin InRequest)
      BY <1>2, <2>2, OthersShape DEF PhaseInv
    <3> QED BY <1>2, <3>1, PhaseQuiet
  <2> QED BY <2>1, <2>2
<1>3. PlaceInv /\ PlaceInv' /\ IInv /\ (Dedup => PhaseInv) /\ [TCPNext]_tcpVars
      => (Dedup => PhaseInv)'
  BY <1>2
<1> QED BY <1>1, <1>3, TCPPlaces, TCPKeepsIInv, PTL DEF TCPSpec

\* The requests read do not enter Seen again, so the latest of them that ran
\* stays the latest.
LEMMA LatestStays ==
    ASSUME IInv, PlaceInv, PhaseInv, [Next]_vars, NEW k \in Conns,
           NEW n \in 1..readN[k], n = readN[k] => at[k] # "seen",
           NEW j, IsLatestRun(k, n, j)
    PROVE  IsLatestRun(k, n, j)'
<1>1. /\ readN[k] \in Nat /\ 1..readN[k] \subseteq DOMAIN Script[k]
      /\ at[k] \in {"reading", "closed"} \cup InRequest
  <2>1. at[k] \in Places /\ readN[k] # 0
    BY DEF PlaceInv, OwnTypeOK
  <2> QED BY <2>1, ReadPositions DEF PhaseInv, Places, Running
<1>2. ASSUME NEW i \in 1..n PROVE Allocated(Script[k][i])' <=> Allocated(Script[k][i])
  <2>1. i \in DOMAIN Script[k] /\ i <= readN[k] /\ Script[k][i] \in Callers
    BY <1>1, ScriptsAreApart
  <2>2. call[Script[k][i]].at # "seen"
    <3>1. CASE i < readN[k]
      BY <2>1, <3>1 DEF PhaseInv, Final
    <3>2. CASE i = readN[k]
      BY <1>1, <2>1, <3>2 DEF PhaseInv, PhaseAt, Current, InRequest, Final
    <3> QED BY <1>1, <2>1, <3>1, <3>2
  <2> QED BY <2>1, <2>2, RunsStay, RunsAreSeen
<1> QED BY <1>2 DEF IsLatestRun

\* A connection's step leaves the other connections' requests alone.
LEMMA OthersUntouched ==
    ASSUME PlaceInv, PlaceInv', IInv, NEW k \in Conns, HandleConn(k),
           NEW l \in Conns \ {k}
    PROVE  /\ at'[l] = at[l] /\ readN'[l] = readN[l]
           /\ \A i \in DOMAIN Script[l] : call'[Script[l][i]] = call[Script[l][i]]
<1>0. /\ at \in [Conns -> Places] /\ readN \in [Conns -> Nat]
      /\ call \in [Callers -> [at : Phases, now : Nat, ptr : Callers \cup {None},
                               got : Replies \cup {Torn}]]
  BY DEF PlaceInv, OwnTypeOK, IInv, TypeOK
<1>1. at'[l] = at[l] /\ readN'[l] = readN[l]
  BY <1>0, HandleConnShape DEF Move, EndConn
<1>2. ASSUME NEW n \in DOMAIN Script[k],
             \A d \in Callers \ {Script[k][n]} : call'[d] = call[d]
      PROVE  \A i \in DOMAIN Script[l] : call'[Script[l][i]] = call[Script[l][i]]
  BY <1>2, ScriptsAreApart
<1>3. CASE ReadRequest(k)
  <2>1. readN'[k] \in Nat /\ readN'[k] >= 1
    BY <1>0, <1>3 DEF ReadRequest, Read
  <2>2. readN'[k] <= Len(Script[k]) /\ DOMAIN Script[k] = 1..Len(Script[k])
    BY ReadPositions DEF PlaceInv, OwnTypeOK, ScriptInv
  <2>3. \A d \in Callers \ {Current(k)'} : call'[d] = call[d]
    BY <1>0, <1>3 DEF ReadRequest, SeenReadsClock, vars
  <2> QED BY <1>1, <1>2, <2>1, <2>2, <2>3 DEF Current
<1>4. CASE at[k] \in InRequest /\ ~ReadRequest(k)
  <2>1. readN[k] \in DOMAIN Script[k]
    BY <1>4, ReadPositions
  <2>2. \A d \in Callers \ {Current(k)} : call'[d] = call[d]
    <3>1. CASE DetectDuplicate(k)
      BY <1>0, <3>1 DEF DetectDuplicate, SeenLocked, Goto
    <3>2. CASE LookupCached(k)
      BY <1>0, <3>2 DEF LookupCached, Lookup, LookupLocked, LookupWakes, LookupCopies
    <3>3. CASE HandlerSilent(k) \/ HandlerFails(k) \/ HandlerReplies(k)
      BY <1>0, <3>3 DEF HandlerSilent, HandlerFails, HandlerReplies, Abandon, Store, Goto, vars
    <3>4. CASE UnknownClient(k) \/ KnownClient(k) \/ ReadEnds(k) \/ ReadMalformed(k)
               \/ AnswerDuplicate(k) \/ SendReply(k)
      BY <3>4 DEF UnknownClient, KnownClient, ReadEnds, ReadMalformed, AnswerDuplicate,
                  SendReply, vars
    <3> QED BY <1>4, <3>1, <3>2, <3>3, <3>4 DEF HandleConn
  <2> QED BY <1>1, <1>2, <2>1, <2>2 DEF Current
<1>5. CASE at[k] \notin InRequest /\ ~ReadRequest(k)
  <2>1. UNCHANGED call
    BY <1>5 DEF HandleConn, UnknownClient, KnownClient, ReadEnds, ReadMalformed,
         DetectDuplicate, LookupCached, AnswerDuplicate, HandlerSilent, HandlerFails,
         HandlerReplies, SendReply, InRequest, vars
  <2> QED BY <1>1, <2>1
<1> QED BY <1>3, <1>4, <1>5

\* Where the request at hand and its call stay, so does what it found.
LEMMA FoundStays ==
    ASSUME IInv, PlaceInv, PhaseInv, [Next]_vars, NEW k \in Conns, FoundLatest(k),
           at'[k] = at[k], readN'[k] = readN[k],
           at[k] = "duplicate" => call'[Current(k)] = call[Current(k)]
    PROVE  FoundLatest(k)'
<1> SUFFICES ASSUME at'[k] = "duplicate",
                    call'[Current(k)'].at \in {"waiting", "copying", "hit"}
             PROVE  \E j \in 1..readN'[k] :
                       /\ IsLatestRun(k, readN[k], j)'
                       /\ call'[Current(k)'].ptr = Script[k][j]
                       /\ call'[Current(k)'].at \in {"copying", "hit"}
                          => call'[Current(k)'].got = Script[k][j]
  BY DEF FoundLatest
<1>1. Current(k)' = Current(k) /\ call'[Current(k)] = call[Current(k)]
  BY DEF Current
<1>2. PICK j \in 1..readN[k] :
          /\ IsLatestRun(k, readN[k], j)
          /\ call[Current(k)].ptr = Script[k][j]
          /\ call[Current(k)].at \in {"copying", "hit"} => call[Current(k)].got = Script[k][j]
  BY <1>1 DEF FoundLatest
<1>3. readN[k] \in 1..readN[k]
  BY ReadPositions DEF InRequest, PlaceInv, ScriptInv
<1>4. IsLatestRun(k, readN[k], j)'
  <2> DEFINE n == readN[k]
  <2>1. n \in 1..readN[k] /\ (n = readN[k] => at[k] # "seen") /\ IsLatestRun(k, n, j)
    BY <1>2, <1>3
  <2>2. \A m \in 1..readN[k] :
           (m = readN[k] => at[k] # "seen") /\ IsLatestRun(k, m, j) => IsLatestRun(k, m, j)'
    BY LatestStays
  <2>3. readN' [k] = n
    OBVIOUS
  <2> QED BY <2>1, <2>2, <2>3 DEF IsLatestRun
<1> QED BY <1>1, <1>2, <1>4

\* A step that leaves the entries alone, and whose request has none or ends
\* without a reply, keeps what RunInv says of entries.
LEMMA EntriesQuiet ==
    ASSUME OwnEntryInv, LiveIsLatest, UNCHANGED <<entries, entry>>,
           \A c \in Callers :
               call'[c] = call[c] \/ call'[c].at = "silent"
               \/ (~Allocated(c) /\ call'[c].at # "stored")
    PROVE  OwnEntryInv' /\ LiveIsLatest'
<1>1. OwnEntryInv'
  BY DEF OwnEntryInv, Allocated
<1>2. LiveIsLatest'
  BY DEF LiveIsLatest, Allocated, Live
<1> QED BY <1>1, <1>2

\* Seen's critical section: the entry inserted is the latest of its key.
LEMMA SeenKeepsEntries ==
    ASSUME IInv, PlaceInv, PhaseInv, OwnEntryInv, LiveIsLatest,
           NEW k \in Conns, at[k] = "seen", SeenLocked(Current(k))
    PROVE  OwnEntryInv' /\ LiveIsLatest'
<1> DEFINE c == Current(k)  n == readN[k]  t == call[c].now  K == DedupKey(c)
<1>0. /\ c \in Callers /\ n \in DOMAIN Script[k] /\ c = Script[k][n] /\ K \in Keys
      /\ call[c].at = "seen" /\ ~Allocated(c) /\ n \in Nat
      /\ DOMAIN Script[k] = 1..Len(Script[k])
  BY ReadPositions, KeyIsKey DEF InRequest, Current, SeenLocked, IInv, AllocInv
<1>1. /\ t \in Nat /\ t <= now
      /\ call \in [Callers -> [at : Phases, now : Nat, ptr : Callers \cup {None},
                               got : Replies \cup {Torn}]]
  BY <1>0 DEF IInv, TypeOK, ClockInv
<1> DEFINE live == AfterEvict(t)  evicted == Evicted(t)
<1>2. /\ live \in [Keys -> Callers \cup {None}] /\ DOMAIN evicted = Callers
      /\ \A x \in Keys : live[x] # None => live[x] = entries[x]
      /\ \A e \in Callers :
            /\ evicted[e].reply = entry[e].reply
            /\ (evicted[e].done = "nil") <=> (entry[e].done = "nil")
            /\ evicted[e].done = "open" => entry[e].done = "open"
  BY <1>1, EvictFacts
<1>3. \/ /\ entries' = live /\ entry' = evicted /\ Goto(c, "duplicate")
      \/ /\ live[K] = None
         /\ entries' = [live EXCEPT ![K] = c]
         /\ entry' = [evicted EXCEPT ![c] = FreshEntry(t)]
         /\ Goto(c, "first")
  BY DEF SeenLocked
<1>4. call'[c].at \in {"duplicate", "first"} /\ \A d \in Callers \ {c} : call'[d] = call[d]
  BY <1>0, <1>1, <1>3 DEF Goto
<1> HIDE DEF c, n, t, K, live, evicted
<1>5. \A d \in Callers \ {c} : entry'[d] = evicted[d]
  BY <1>2, <1>3
<1>6. \/ entry'[c] = evicted[c] /\ call'[c].at = "duplicate"
      \/ entry'[c] = FreshEntry(t) /\ call'[c].at = "first"
  BY <1>0, <1>1, <1>2, <1>3 DEF Goto
<1>7. ASSUME NEW d \in Callers
      PROVE  /\ Allocated(d)' => call'[d].at \in {"first", "stored", "silent"}
             /\ entry'[d].reply \in {None, d}
             /\ call'[d].at = "stored" => entry'[d].done # "open"
  <2>1. CASE d = c
    <3>1. CASE entry'[c] = evicted[c] /\ call'[c].at = "duplicate"
      BY <1>0, <1>2, <2>1, <3>1 DEF OwnEntryInv, Allocated
    <3>2. CASE entry'[c] = FreshEntry(t) /\ call'[c].at = "first"
      BY <1>0, <2>1, <3>2 DEF FreshEntry
    <3> QED BY <1>6, <3>1, <3>2
  <2>2. CASE d # c
    BY <1>2, <1>4, <1>5, <2>2 DEF OwnEntryInv, Allocated
  <2> QED BY <2>1, <2>2
<1>8. OwnEntryInv'
  BY <1>7 DEF OwnEntryInv
<1>9. ASSUME NEW l \in Conns, NEW i \in DOMAIN Script[l], NEW j \in DOMAIN Script[l],
             Allocated(Script[l][i])', Live(Script[l][j])',
             DedupKey(Script[l][i]) = DedupKey(Script[l][j])
      PROVE  i <= j
  <2> DEFINE a == Script[l][i]  b == Script[l][j]
  <2>1. a \in Callers /\ b \in Callers /\ DedupKey(b) \in Keys /\ b # None
    BY ScriptsAreApart, KeyIsKey, NoneIsNoCaller
  <2>2. CASE entries' = live /\ entry' = evicted
    <3>1. Allocated(a) /\ Live(b)
      BY <1>2, <1>9, <2>1, <2>2 DEF Allocated, Live
    <3> QED BY <1>9, <3>1 DEF LiveIsLatest
  <2>3. CASE entries' = [live EXCEPT ![K] = c] /\ DedupKey(b) # K
    <3>1. Live(b)
      BY <1>2, <1>9, <2>1, <2>3 DEF Live
    <3>2. a # c
      BY <1>9, <2>3 DEF K
    <3>3. Allocated(a)
      BY <1>2, <1>5, <1>9, <2>1, <3>2 DEF Allocated
    <3> QED BY <1>9, <3>1, <3>3 DEF LiveIsLatest
  <2>4. CASE entries' = [live EXCEPT ![K] = c] /\ DedupKey(b) = K
    <3>1. b = c
      BY <1>0, <1>2, <1>9, <2>4 DEF Live
    <3>2. l = k /\ j = n
      BY <1>0, <3>1, ScriptsAreApart
    <3>3. CASE i > n
      <4>1. call[a].at = "idle"
        BY <3>2, <3>3 DEF PhaseInv, n
      <4>2. ~Allocated(a) /\ a # c
        BY <1>0, <2>1, <4>1 DEF IInv, AllocInv
      <4> QED BY <1>2, <1>5, <1>9, <2>1, <4>2 DEF Allocated
    <3> QED BY <1>0, <3>2, <3>3
  <2> QED BY <1>3, <2>2, <2>3, <2>4
<1>10. LiveIsLatest'
  BY <1>9 DEF LiveIsLatest
<1> QED BY <1>8, <1>10

\* Store finds its caller's own entry or none: no later request of the key
\* has run, since those are not read before this one is answered.
LEMMA StoreFindsOwn ==
    ASSUME IInv, PlaceInv, PhaseInv, LiveIsLatest, NEW k \in Conns, at[k] \in InRequest,
           Allocated(Current(k))
    PROVE  entries[DedupKey(Current(k))] \in {None, Current(k)}
<1> DEFINE c == Current(k)  n == readN[k]  e == entries[DedupKey(c)]
<1>0. /\ c \in Callers /\ n \in DOMAIN Script[k] /\ c = Script[k][n] /\ DedupKey(c) \in Keys
      /\ n \in Nat /\ DOMAIN Script[k] = 1..Len(Script[k])
  BY ReadPositions, KeyIsKey DEF Current
<1> SUFFICES ASSUME e # None PROVE e = c
  OBVIOUS
<1>1. e \in Callers /\ Allocated(e) /\ DedupKey(e) = DedupKey(c) /\ Live(e)
  BY <1>0 DEF IInv, TypeOK, MapInv, Live
<1>2. call[e].at # "idle"
  BY <1>1 DEF IInv, AllocInv
<1>3. \E l \in Conns : \E i \in DOMAIN Script[l] : Script[l][i] = e
  BY <1>1, <1>2 DEF PhaseInv
<1>4. PICK i \in DOMAIN Script[k] : Script[k][i] = e
  BY <1>0, <1>1, <1>3, ScriptsAreApart
<1>5. n <= i
  BY <1>0, <1>1, <1>4 DEF LiveIsLatest
<1>6. ~(i > n)
  BY <1>2, <1>4 DEF PhaseInv
<1> QED BY <1>0, <1>4, <1>5, <1>6

\* Store closes the entry of its caller, if eviction has not.
LEMMA StoreKeepsEntries ==
    ASSUME IInv, PlaceInv, PhaseInv, OwnEntryInv, LiveIsLatest, NEW k \in Conns,
           at[k] = "handling", Store(Current(k))
    PROVE  OwnEntryInv' /\ LiveIsLatest'
<1> DEFINE c == Current(k)  e == entries[DedupKey(c)]
<1>0. c \in Callers /\ call[c].at = "first" /\ Allocated(c) /\ DedupKey(c) \in Keys
  BY ReadPositions, KeyIsKey DEF InRequest, Store, IInv, AllocInv
<1>1. e \in {None, c}
  BY <1>0, StoreFindsOwn DEF InRequest
<1>2. /\ call \in [Callers -> [at : Phases, now : Nat, ptr : Callers \cup {None},
                               got : Replies \cup {Torn}]]
      /\ entry \in [Callers -> [reply : Replies, done : Channel, expires : Nat, born : Nat]]
  BY DEF IInv, TypeOK
<1>3. /\ call'[c].at = "stored" /\ \A d \in Callers \ {c} : call'[d] = call[d]
      /\ entries' = entries
  BY <1>0, <1>2 DEF Store, Goto
<1>4. CASE e = None
  <2>1. entry' = entry
    BY <1>4 DEF Store
  <2>2. entry[c].done # "open"
    BY <1>0, <1>4, NoneIsNoCaller DEF IInv, EvictedInv, Live
  <2>3. OwnEntryInv'
    BY <1>0, <1>3, <2>1, <2>2 DEF OwnEntryInv, Allocated
  <2>4. LiveIsLatest'
    BY <1>3, <2>1 DEF LiveIsLatest, Allocated, Live
  <2> QED BY <2>3, <2>4
<1>5. CASE e = c
  <2>1. entry' = [entry EXCEPT ![c].reply = c,
                               ![c].done = IF @ = "open" THEN CloseChannel(@) ELSE @]
    BY <1>0, <1>5, NoneIsNoCaller DEF Store
  <2>2. /\ entry'[c].reply = c /\ entry'[c].done \notin {"open", "nil"}
        /\ \A d \in Callers \ {c} : entry'[d] = entry[d]
    BY <1>0, <1>2, <2>1 DEF CloseChannel, Allocated
  <2>3. \A d \in Callers : Allocated(d)' <=> Allocated(d)
    BY <1>0, <2>2 DEF Allocated
  <2>4. OwnEntryInv'
    BY <1>3, <2>2, <2>3 DEF OwnEntryInv
  <2>5. LiveIsLatest'
    BY <1>3, <2>3, ScriptsAreApart DEF LiveIsLatest, Live
  <2> QED BY <2>4, <2>5
<1> QED BY <1>1, <1>4, <1>5

\* Lookup finds the live entry, hence the latest, and copies its own reply.
LEMMA LookupFindsLatest ==
    ASSUME IInv, PlaceInv, PhaseInv, RunInv, NEW k \in Conns, LookupCached(k)
    PROVE  FoundLatest(k)'
<1> DEFINE c == Current(k)  n == readN[k]  e == entries[DedupKey(c)]
<1>0. /\ c \in Callers /\ n \in DOMAIN Script[k] /\ c = Script[k][n] /\ DedupKey(c) \in Keys
      /\ n \in Nat /\ DOMAIN Script[k] = 1..Len(Script[k]) /\ at[k] = "duplicate"
  BY ReadPositions, KeyIsKey DEF InRequest, Current, LookupCached
<1>1. call \in [Callers -> [at : Phases, now : Nat, ptr : Callers \cup {None},
                            got : Replies \cup {Torn}]]
  BY DEF IInv, TypeOK
<1>2. /\ UNCHANGED <<entry, readN>> /\ Current(k)' = c /\ DedupKey(c)' = DedupKey(c)
      /\ Lookup(c)
  <2>1. Lookup(c) /\ UNCHANGED readN
    BY DEF LookupCached
  <2>2. UNCHANGED entry
    BY <2>1 DEF Lookup, LookupLocked, LookupWakes, LookupCopies
  <2> QED BY <2>1, <2>2 DEF Current
<1>3. \A j : IsLatestRun(k, n, j)' <=> IsLatestRun(k, n, j)
  BY <1>2 DEF IsLatestRun, Allocated
<1>4. ASSUME NEW j \in 1..n, IsLatestRun(k, n, j),
             call'[c].at \in {"waiting", "copying", "hit", "miss"},
             call'[c].at # "miss" => call'[c].ptr = Script[k][j],
             call'[c].at \in {"copying", "hit"} => call'[c].got = Script[k][j]
      PROVE  FoundLatest(k)'
  BY <1>2, <1>3, <1>4 DEF FoundLatest
<1>5. CASE LookupLocked(c) /\ e = None
  <2>1. call'[c].at = "miss"
    BY <1>0, <1>1, <1>5 DEF LookupLocked
  <2> QED BY <1>2, <2>1 DEF FoundLatest
<1>6. CASE LookupLocked(c) /\ e # None
  <2>1. call'[c].at = "waiting" /\ call'[c].ptr = e
    BY <1>0, <1>1, <1>6 DEF LookupLocked
  <2>2. e \in Callers /\ Allocated(e) /\ DedupKey(e) = DedupKey(c) /\ Live(e)
    BY <1>0, <1>6 DEF IInv, TypeOK, MapInv, Live
  <2>3. call[e].at # "idle"
    BY <2>2 DEF IInv, AllocInv
  <2>4. \E l \in Conns : \E i \in DOMAIN Script[l] : Script[l][i] = e
    BY <2>2, <2>3 DEF PhaseInv
  <2>5. PICK j \in DOMAIN Script[k] : Script[k][j] = e
    BY <1>0, <2>2, <2>4, ScriptsAreApart
  <2>6. ~(j > n)
    BY <2>3, <2>5 DEF PhaseInv
  <2>7. j \in 1..n
    BY <1>0, <2>5, <2>6
  <2>8. \A i \in 1..n : Allocated(Script[k][i]) /\ DedupKey(Script[k][i]) = DedupKey(c) => i <= j
    BY <1>0, <2>2, <2>5 DEF RunInv, LiveIsLatest
  <2>9. IsLatestRun(k, n, j)
    BY <1>0, <2>2, <2>5, <2>7, <2>8 DEF IsLatestRun
  <2> QED BY <1>4, <2>1, <2>5, <2>7, <2>9
<1>7. ASSUME call[c].at \in {"waiting", "copying"}
      PROVE  \E j \in 1..n :
                /\ IsLatestRun(k, n, j)
                /\ call[c].ptr = Script[k][j]
                /\ call[c].at = "copying" => call[c].got = Script[k][j]
                /\ entry[call[c].ptr].reply \in {None, Script[k][j]}
  <2>1. PICK j \in 1..n :
           /\ IsLatestRun(k, n, j)
           /\ call[c].ptr = Script[k][j]
           /\ call[c].at \in {"copying", "hit"} => call[c].got = Script[k][j]
    BY <1>0, <1>7 DEF RunInv, FoundLatest
  <2>2. call[c].ptr \in Callers
    BY <1>0, <1>7 DEF IInv, PointerInv
  <2>3. entry[call[c].ptr].reply \in {None, call[c].ptr}
    BY <2>2 DEF RunInv, OwnEntryInv
  <2> QED BY <2>1, <2>3
<1>8. CASE LookupWakes(c)
  <2>1. PICK j \in 1..n :
           /\ IsLatestRun(k, n, j)
           /\ call[c].ptr = Script[k][j]
           /\ entry[call[c].ptr].reply \in {None, Script[k][j]}
    BY <1>7, <1>8 DEF LookupWakes
  <2>2. /\ call'[c].ptr = call[c].ptr
        /\ call'[c].at \in {"miss", "copying"}
        /\ call'[c].at = "copying" => entry[call[c].ptr].reply # None
        /\ call'[c].got = entry[call[c].ptr].reply
    BY <1>0, <1>1, <1>8 DEF LookupWakes
  <2> QED BY <1>4, <2>1, <2>2
<1>9. CASE LookupCopies(c)
  <2>1. PICK j \in 1..n :
           /\ IsLatestRun(k, n, j)
           /\ call[c].ptr = Script[k][j]
           /\ call[c].got = Script[k][j]
           /\ entry[call[c].ptr].reply \in {None, Script[k][j]}
    BY <1>7, <1>9 DEF LookupCopies
  <2>2. entry[call[c].ptr].reply = call[c].got
    <3>1. call[c].at = "copying" /\ c \in Callers
      BY <1>0, <1>9 DEF LookupCopies
    <3>2. entry[call[c].ptr].reply # None
      BY <1>0, <3>1 DEF IInv, ReplyInv
    <3> QED BY <2>1, <3>2
  <2>3. call'[c].at = "hit" /\ call'[c].ptr = call[c].ptr /\ call'[c].got = call[c].got
    <3>1. call' = [call EXCEPT ![c].at = "hit", ![c].got = call[c].got]
      BY <1>9, <2>2 DEF LookupCopies
    <3>2. call[c] \in [at : Phases, now : Nat, ptr : Callers \cup {None},
                       got : Replies \cup {Torn}]
      BY <1>0 DEF IInv, TypeOK
    <3> QED BY <1>0, <1>1, <3>1, <3>2
  <2> QED BY <1>4, <2>1, <2>3
<1> QED BY <1>2, <1>5, <1>6, <1>8, <1>9 DEF Lookup

\* Every step of a connection keeps RunInv.
LEMMA HandleConnRun ==
    ASSUME PlaceInv, PlaceInv', IInv, [Next]_vars, PhaseInv, RunInv,
           NEW k \in Conns, HandleConn(k)
    PROVE  RunInv'
<1> DEFINE c == Current(k)
<1>0. /\ OwnEntryInv /\ LiveIsLatest /\ \A l \in Conns : FoundLatest(l)
      /\ at \in [Conns -> Places] /\ readN \in [Conns -> Nat]
      /\ call \in [Callers -> [at : Phases, now : Nat, ptr : Callers \cup {None},
                               got : Replies \cup {Torn}]]
      /\ at[k] \in InRequest => c \in Callers
  BY ReadPositions DEF RunInv, PlaceInv, OwnTypeOK, IInv, TypeOK
<1>1. ASSUME NEW l \in Conns \ {k} PROVE FoundLatest(l)'
  <2>1. /\ at'[l] = at[l] /\ readN'[l] = readN[l]
        /\ \A i \in DOMAIN Script[l] : call'[Script[l][i]] = call[Script[l][i]]
    BY OthersUntouched
  <2>2. at[l] = "duplicate" => call'[Current(l)] = call[Current(l)]
    BY <2>1, ReadPositions DEF InRequest, Current
  <2> QED BY <1>0, <2>1, <2>2, FoundStays
<1>2. ASSUME OwnEntryInv' /\ LiveIsLatest', FoundLatest(k)' PROVE RunInv'
  BY <1>1, <1>2 DEF RunInv
<1>3. ASSUME NEW p \in Places, Move(k, p), p # "duplicate" PROVE FoundLatest(k)'
  BY <1>0, <1>3 DEF Move, FoundLatest
<1>4. {"reading", "closed"} \cup InRequest \subseteq Places
  BY DEF Places, Running
<1>5. CASE UnknownClient(k) \/ KnownClient(k) \/ ReadEnds(k) \/ ReadMalformed(k)
           \/ AnswerDuplicate(k) \/ SendReply(k)
  <2>1. UNCHANGED <<call, entries, entry>> /\ (Move(k, "reading") \/ Move(k, "closed"))
    BY <1>5 DEF UnknownClient, KnownClient, ReadEnds, ReadMalformed, AnswerDuplicate,
                SendReply, EndConn, vars
  <2>2. OwnEntryInv' /\ LiveIsLatest'
    BY <1>0, <2>1, EntriesQuiet
  <2> QED BY <1>2, <1>3, <1>4, <2>1, <2>2
<1>6. CASE ReadRequest(k)
  <2>1. \/ UNCHANGED <<call, entries, entry>> /\ Move(k, "handling")
        \/ SeenReadsClock(Current(k)') /\ Move(k, "seen")
    BY <1>6 DEF ReadRequest, vars
  <2>2. CASE UNCHANGED <<call, entries, entry>> /\ Move(k, "handling")
    <3>1. OwnEntryInv' /\ LiveIsLatest'
      BY <1>0, <2>2, EntriesQuiet
    <3> QED BY <1>2, <1>3, <1>4, <2>2, <3>1 DEF InRequest
  <2>3. CASE SeenReadsClock(Current(k)') /\ Move(k, "seen")
    <3> DEFINE d == Current(k)'
    <3>1. d \in Callers
      <4>1. readN'[k] >= 1
        BY <1>0, <1>6 DEF ReadRequest, Read
      <4>2. /\ readN'[k] \in Nat /\ readN'[k] <= Len(Script[k])
            /\ DOMAIN Script[k] = 1..Len(Script[k])
        BY ReadPositions DEF PlaceInv, OwnTypeOK, ScriptInv
      <4> QED BY <4>1, <4>2, ScriptsAreApart DEF Current
    <3>2. /\ UNCHANGED <<entries, entry>> /\ call'[d].at = "seen" /\ call[d].at = "idle"
          /\ \A f \in Callers \ {d} : call'[f] = call[f]
      BY <1>0, <2>3, <3>1 DEF SeenReadsClock
    <3>3. ~Allocated(d)
      BY <3>1, <3>2 DEF IInv, AllocInv
    <3>4. OwnEntryInv' /\ LiveIsLatest'
      BY <1>0, <3>2, <3>3, EntriesQuiet
    <3> QED BY <1>2, <1>3, <1>4, <2>3, <3>4 DEF InRequest
  <2> QED BY <2>1, <2>2, <2>3
<1>7. CASE DetectDuplicate(k)
  <2>1. /\ at[k] = "seen" /\ SeenLocked(c) /\ UNCHANGED readN
        /\ Goto(c, "first") \/ Goto(c, "duplicate")
    BY <1>7 DEF DetectDuplicate, SeenLocked
  <2>2. OwnEntryInv' /\ LiveIsLatest'
    BY <1>0, <2>1, SeenKeepsEntries
  <2>3. Current(k)' = c /\ call'[c].at \in {"first", "duplicate"}
    BY <1>0, <2>1 DEF Current, Goto, InRequest
  <2> QED BY <1>2, <2>2, <2>3 DEF FoundLatest
<1>8. CASE LookupCached(k)
  <2>1. at[k] = "duplicate" /\ Lookup(c) /\ c \in Callers /\ PhaseAt(k)
    BY <1>0, <1>8, ReadPositions DEF LookupCached, InRequest, PhaseInv
  <2>2. call[c].at \in {"duplicate", "waiting", "copying", "hit", "miss"}
    BY <2>1 DEF PhaseAt
  <2>3. ~Allocated(c)
    BY <1>0, <2>1, <2>2 DEF OwnEntryInv
  <2>4. /\ UNCHANGED <<entries, entry>> /\ call'[c].at # "stored"
        /\ \A d \in Callers \ {c} : call'[d] = call[d]
    BY <1>0, <2>1 DEF Lookup, LookupLocked, LookupWakes, LookupCopies
  <2>5. OwnEntryInv' /\ LiveIsLatest'
    BY <1>0, <2>3, <2>4, EntriesQuiet
  <2> QED BY <1>2, <1>8, <2>5, LookupFindsLatest
<1>9. CASE HandlerSilent(k) \/ HandlerFails(k)
  <2>1. /\ at[k] = "handling" /\ (Move(k, "reading") \/ Move(k, "closed"))
        /\ Abandon(c) \/ UNCHANGED <<call, entries, entry>>
    BY <1>9 DEF HandlerSilent, HandlerFails, EndConn, vars
  <2>2. /\ UNCHANGED <<entries, entry>>
        /\ \A d \in Callers : call'[d] = call[d] \/ call'[d].at = "silent"
    BY <1>0, <2>1 DEF Abandon, Goto, InRequest
  <2>3. OwnEntryInv' /\ LiveIsLatest'
    BY <1>0, <2>2, EntriesQuiet
  <2> QED BY <1>2, <1>3, <1>4, <2>1, <2>3
<1>10. CASE HandlerReplies(k)
  <2>1. /\ at[k] = "handling" /\ Move(k, "replying")
        /\ Store(c) \/ UNCHANGED <<call, entries, entry>>
    BY <1>10 DEF HandlerReplies, vars
  <2>2. OwnEntryInv' /\ LiveIsLatest'
    BY <1>0, <2>1, StoreKeepsEntries, EntriesQuiet
  <2> QED BY <1>2, <1>3, <1>4, <2>1, <2>2 DEF InRequest
<1> QED BY <1>5, <1>6, <1>7, <1>8, <1>9, <1>10 DEF HandleConn

\* Entries of an empty map.
LEMMA InitRunInv == TCPInit => RunInv
<1> SUFFICES ASSUME TCPInit PROVE RunInv
  OBVIOUS
<1>1. \A c \in Callers : entry[c] = NoEntry /\ call[c].at = "idle" /\ ~Allocated(c)
  BY DEF TCPInit, Init, NoEntry, Allocated
<1>2. OwnEntryInv
  BY <1>1 DEF OwnEntryInv, NoEntry
<1>3. LiveIsLatest
  BY <1>1, ScriptsAreApart DEF LiveIsLatest
<1>4. \A k \in Conns : FoundLatest(k)
  BY DEF TCPInit, FoundLatest
<1> QED BY <1>2, <1>3, <1>4 DEF RunInv

\* With the detector, a request's entry has its own reply and is found by
\* the duplicates that follow it on its connection, and by no other.
THEOREM TCPRunsInvariance == TCPSpec => [](Dedup => RunInv)
<1>1. TCPInit => (Dedup => RunInv)
  BY InitRunInv
<1>2. ASSUME PlaceInv, PlaceInv', IInv, Dedup, PhaseInv, RunInv, [TCPNext]_tcpVars
      PROVE  RunInv'
  <2>1. [Next]_vars
    BY <1>2, TCPStepImplements
  <2>2. CASE \E k \in Conns : HandleConn(k)
    BY <1>2, <2>1, <2>2, HandleConnRun
  <2>3. CASE ~\E k \in Conns : HandleConn(k)
    <3>1. /\ UNCHANGED <<call, entries, entry, readN>>
          /\ \A l \in Conns : at'[l] \in InRequest => at'[l] = at[l]
      BY <1>2, <2>3, OthersShape
    <3>2. OwnEntryInv' /\ LiveIsLatest'
      BY <1>2, <3>1, EntriesQuiet DEF RunInv
    <3>3. ASSUME NEW l \in Conns PROVE FoundLatest(l)'
      <4>1. CASE at'[l] = "duplicate"
        BY <1>2, <2>1, <3>1, <4>1, FoundStays DEF RunInv, InRequest
      <4>2. CASE at'[l] # "duplicate"
        BY <4>2 DEF FoundLatest
      <4> QED BY <4>1, <4>2
    <3> QED BY <3>2, <3>3 DEF RunInv
  <2> QED BY <2>2, <2>3
<1>3. PlaceInv /\ PlaceInv' /\ IInv /\ (Dedup => PhaseInv) /\ (Dedup => RunInv)
      /\ [TCPNext]_tcpVars => (Dedup => RunInv)'
  BY <1>2
<1> QED BY <1>1, <1>3, TCPPlaces, TCPKeepsIInv, TCPRequestsTakeTurns, PTL DEF TCPSpec

\* Without the detector nobody asks it anything.
LEMMA NoDetectorPlaces == TCPSpec => [](~Dedup => \A k \in Conns : at[k] \notin {"seen", "duplicate"})
<1> DEFINE Inv == ~Dedup => \A k \in Conns : at[k] \notin {"seen", "duplicate"}
<1>1. TCPInit => Inv
  BY DEF TCPInit
<1>2. ASSUME PlaceInv, Inv, [TCPNext]_tcpVars PROVE Inv'
  <2> SUFFICES ASSUME ~Dedup, NEW l \in Conns PROVE at'[l] \notin {"seen", "duplicate"}
    OBVIOUS
  <2>1. at[l] \notin {"seen", "duplicate"} /\ at \in [Conns -> Places]
    BY <1>2 DEF PlaceInv, OwnTypeOK
  <2>2. ASSUME NEW k \in Conns, HandleConn(k) PROVE at'[l] \notin {"seen", "duplicate"}
    <3>1. /\ at' = at \/ Move(k, "closed") \/ Move(k, "reading")
             \/ Move(k, "handling") \/ Move(k, "replying")
      BY <1>2, <2>1, <2>2, DedupIsBoolean DEF HandleConn, UnknownClient, KnownClient, ReadEnds,
         ReadMalformed, ReadRequest, DetectDuplicate, LookupCached, AnswerDuplicate,
         HandlerSilent, HandlerFails, HandlerReplies, SendReply, EndConn
    <3> QED BY <2>1, <3>1 DEF Move
  <2>3. CASE ~\E k \in Conns : HandleConn(k)
    BY <1>2, <2>1, <2>3, OthersShape DEF InRequest
  <2> QED BY <2>2, <2>3
<1> QED BY <1>1, <1>2, TCPPlaces, PTL DEF TCPSpec

\* A duplicate on a connection never waits for a handler that still runs:
\* handleConn has taken no other request meanwhile.
THEOREM TCPWaitsOnlyOnSilence == TCPSpec => []WaitsOnlyOnSilence
<1>1. ASSUME PlaceInv, IInv, Dedup, PhaseInv, RunInv PROVE WaitsOnlyOnSilence
  <2> SUFFICES ASSUME NEW k \in Conns, at[k] = "duplicate",
                      call[Current(k)].at = "waiting",
                      entry[call[Current(k)].ptr].done = "open"
               PROVE  call[call[Current(k)].ptr].at = "silent"
    BY DEF WaitsOnlyOnSilence
  <2> DEFINE e == call[Current(k)].ptr
  <2>1. PICK j \in 1..readN[k] : IsLatestRun(k, readN[k], j) /\ e = Script[k][j]
    BY <1>1 DEF RunInv, FoundLatest
  <2>2. e \in Callers /\ Allocated(e) /\ j \in DOMAIN Script[k]
    BY <1>1, <2>1, ReadPositions, ScriptsAreApart DEF IsLatestRun
  <2>3. call[e].at \in {"first", "silent"}
    BY <1>1, <2>2 DEF RunInv, OwnEntryInv
  <2>4. CASE j = readN[k]
    BY <1>1, <2>1, <2>2, <2>3, <2>4 DEF Current
  <2>5. CASE j < readN[k]
    BY <1>1, <2>1, <2>2, <2>3, <2>5 DEF PhaseInv, Final
  <2>6. readN[k] \in Nat
    BY <1>1 DEF PlaceInv, OwnTypeOK
  <2> QED BY <2>3, <2>4, <2>5, <2>6
<1>2. ASSUME ~Dedup, \A k \in Conns : at[k] \notin {"seen", "duplicate"}
      PROVE  WaitsOnlyOnSilence
  BY <1>2 DEF WaitsOnlyOnSilence
<1>3. PlaceInv /\ IInv /\ (Dedup => PhaseInv) /\ (Dedup => RunInv)
      /\ (~Dedup => \A k \in Conns : at[k] \notin {"seen", "duplicate"})
      => WaitsOnlyOnSilence
  BY <1>1, <1>2
<1> QED BY <1>3, TCPPlaces, TCPKeepsIInv, TCPRequestsTakeTurns, TCPRunsInvariance,
           NoDetectorPlaces, PTL

-----------------------------------------------------------------------------
(* The replies.                                                            *)

Answers == [of : Callers, reply : Callers \cup {Torn}]

WireTypeOK == wire \in [Conns -> Seq(Answers)]

\* Every reply is to a request read, and to the one at hand only when its
\* turn is over.
AnswersRead ==
    \A k \in Conns : \A i \in DOMAIN wire[k] : \E n \in 1..readN[k] :
        /\ wire[k][i].of = Script[k][n]
        /\ n = readN[k] => at[k] \notin InRequest

WireInv == WireTypeOK /\ AnswersRead /\ RepliesInOrder

\* A request has one position.
LEMMA IndexOfEntry ==
    ASSUME NEW k \in Conns, NEW n \in DOMAIN Script[k] PROVE IndexIn(k, Script[k][n]) = n
<1>1. \A i \in DOMAIN Script[k] : Script[k][i] = Script[k][n] => i = n
  BY ScriptsAreApart
<1> QED BY <1>1 DEF IndexIn

\* What a step of a connection writes: nothing, or a reply to the request at
\* hand, which is thereby done with.
LEMMA HandleConnWrites ==
    ASSUME PlaceInv, IInv, WireTypeOK, NEW k \in Conns, HandleConn(k)
    PROVE  \/ UNCHANGED wire
           \/ \E r \in Callers \cup {Torn} :
                 /\ Write(k, r) /\ Move(k, "reading") /\ UNCHANGED <<call, entries, entry, readN>>
                 /\ \/ at[k] = "replying" /\ r = Current(k)
                    \/ at[k] = "duplicate" /\ call[Current(k)].at = "hit" /\ r = call[Current(k)].got
<1>1. at[k] \in InRequest => Current(k) \in Callers
  BY ReadPositions
<1>2. CASE AnswerDuplicate(k)
  <2>1. at[k] = "duplicate" /\ Move(k, "reading") /\ UNCHANGED <<call, entries, entry, readN>>
    BY <1>2 DEF AnswerDuplicate, vars
  <2>2. \/ UNCHANGED wire
        \/ call[Current(k)].at = "hit" /\ Write(k, call[Current(k)].got)
    BY <1>2 DEF AnswerDuplicate
  <2>3. call[Current(k)].at = "hit" => call[Current(k)].got \in Callers \cup {Torn}
    BY <1>1, <2>1 DEF IInv, ReplyInv, Published, InRequest
  <2> QED BY <2>1, <2>2, <2>3
<1>3. CASE SendReply(k)
  <2>1. at[k] = "replying" /\ UNCHANGED <<call, entries, entry, readN>>
        /\ (UNCHANGED wire \/ (Write(k, Current(k)) /\ Move(k, "reading")))
    BY <1>3 DEF SendReply, vars
  <2> QED BY <1>1, <2>1 DEF InRequest
<1>4. CASE ~AnswerDuplicate(k) /\ ~SendReply(k)
  BY <1>4 DEF HandleConn, UnknownClient, KnownClient, ReadEnds, ReadMalformed, ReadRequest,
       DetectDuplicate, LookupCached, HandlerSilent, HandlerFails, HandlerReplies
<1> QED BY <1>2, <1>3, <1>4

\* Every step keeps the replies in order.
LEMMA StepWireInv ==
    ASSUME PlaceInv, PlaceInv', IInv, WireInv, [TCPNext]_tcpVars PROVE WireInv'
<1>0. /\ wire \in [Conns -> Seq(Answers)] /\ AnswersRead /\ RepliesInOrder
      /\ at \in [Conns -> Places] /\ readN \in [Conns -> Nat]
  BY DEF WireInv, WireTypeOK, PlaceInv, OwnTypeOK
<1>1. ASSUME UNCHANGED wire,
             \A l \in Conns :
                 \/ readN'[l] = readN[l] /\ (at'[l] \in InRequest => at[l] \in InRequest)
                 \/ readN'[l] = readN[l] + 1
      PROVE  WireInv'
  <2>1. ASSUME NEW l \in Conns, NEW i \in DOMAIN wire'[l]
        PROVE  \E n \in 1..readN'[l] : /\ wire'[l][i].of = Script[l][n]
                                       /\ n = readN'[l] => at'[l] \notin InRequest
    <3>1. PICK n \in 1..readN[l] : /\ wire[l][i].of = Script[l][n]
                                   /\ n = readN[l] => at[l] \notin InRequest
      BY <1>0, <1>1 DEF AnswersRead
    <3>2. readN[l] \in Nat
      BY <1>0
    <3>3. n \in 1..readN'[l] /\ (n = readN'[l] => at'[l] \notin InRequest)
      BY <1>1, <3>1, <3>2
    <3> QED BY <1>1, <3>1, <3>3
  <2> QED BY <1>0, <1>1, <2>1 DEF WireInv, WireTypeOK, AnswersRead, RepliesInOrder
<1>2. ASSUME NEW k \in Conns, HandleConn(k) PROVE WireInv'
  <2>1. CASE UNCHANGED wire
    <3>1. \A l \in Conns \ {k} : readN'[l] = readN[l] /\ at'[l] = at[l]
      BY <1>2, OthersUntouched
    <3>2. \/ readN'[k] = readN[k] /\ (at'[k] \in InRequest => at[k] \in InRequest)
          \/ readN'[k] = readN[k] + 1
      BY <1>0, <1>2, HandleConnShape
    <3> QED BY <1>1, <2>1, <3>1, <3>2
  <2>2. ASSUME NEW r \in Callers \cup {Torn}, Write(k, r), Move(k, "reading"), UNCHANGED readN,
               at[k] \in InRequest
        PROVE  WireInv'
    <3> DEFINE c == Current(k)  n == readN[k]  a == [of |-> c, reply |-> r]
               m == Len(wire[k])
    <3>1. /\ c \in Callers /\ n \in DOMAIN Script[k] /\ c = Script[k][n] /\ n \in Nat
          /\ DOMAIN Script[k] = 1..Len(Script[k]) /\ IndexIn(k, c) = n
      BY <2>2, ReadPositions, IndexOfEntry DEF Current
    <3>2. a \in Answers
      BY <3>1 DEF Answers
    <3>3. /\ wire'[k] = Append(wire[k], a) /\ wire[k] \in Seq(Answers)
          /\ \A l \in Conns \ {k} : wire'[l] = wire[l]
          /\ at'[k] = "reading" /\ \A l \in Conns \ {k} : at'[l] = at[l]
      BY <1>0, <2>2 DEF Write, Move
    <3>4. /\ m \in Nat /\ DOMAIN wire[k] = 1..m /\ DOMAIN wire'[k] = 1..(m + 1)
          /\ wire'[k][m + 1] = a /\ \A i \in 1..m : wire'[k][i] = wire[k][i]
      BY <3>2, <3>3
    <3>5. WireTypeOK'
      <4>1. wire'[k] \in Seq(Answers)
        BY <3>2, <3>3
      <4>2. wire' = [wire EXCEPT ![k] = wire'[k]]
        BY <1>0, <2>2, <3>3 DEF Write
      <4> QED BY <1>0, <4>1, <4>2 DEF WireTypeOK
    <3>6. ASSUME NEW i \in 1..m
          PROVE  \E p \in 1..n : p < n /\ wire[k][i].of = Script[k][p]
      <4>1. PICK p \in 1..n : wire[k][i].of = Script[k][p] /\ p # n
        BY <1>0, <2>2, <3>4 DEF AnswersRead
      <4> QED BY <3>1, <4>1
    <3>7. AnswersRead'
      <4> SUFFICES ASSUME NEW l \in Conns, NEW i \in DOMAIN wire'[l]
                   PROVE  \E p \in 1..readN'[l] :
                             /\ wire'[l][i].of = Script[l][p]
                             /\ p = readN'[l] => at'[l] \notin InRequest
        BY DEF AnswersRead
      <4>1. CASE l # k
        <5>1. wire'[l] = wire[l] /\ at'[l] = at[l] /\ readN'[l] = readN[l]
          BY <2>2, <3>3, <4>1
        <5>2. \E p \in 1..readN[l] : /\ wire[l][i].of = Script[l][p]
                                     /\ p = readN[l] => at[l] \notin InRequest
          BY <1>0, <5>1 DEF AnswersRead
        <5> QED BY <5>1, <5>2
      <4>2. CASE l = k /\ i = m + 1
        <5>1. n \in 1..n /\ at'[k] \notin InRequest
          BY <3>1, <3>3 DEF InRequest
        <5> QED BY <2>2, <3>1, <3>4, <4>2, <5>1
      <4>3. CASE l = k /\ i # m + 1
        <5>1. i \in 1..m
          BY <3>4, <4>3
        <5> QED BY <2>2, <3>3, <3>4, <3>6, <4>3, <5>1 DEF InRequest
      <4> QED BY <4>1, <4>2, <4>3
    <3>8. RepliesInOrder'
      <4> SUFFICES ASSUME NEW l \in Conns, NEW i \in DOMAIN wire'[l], NEW j \in DOMAIN wire'[l],
                          i < j
                   PROVE  IndexIn(l, wire'[l][i].of) < IndexIn(l, wire'[l][j].of)
        BY DEF RepliesInOrder, IndexIn
      <4>1. CASE l # k \/ j # m + 1
        <5>1. i \in DOMAIN wire[l] /\ j \in DOMAIN wire[l]
          <6>1. CASE l # k
            BY <3>3, <6>1
          <6>2. CASE l = k
            <7>1. i \in 1..(m + 1) /\ j \in 1..(m + 1) /\ j # m + 1 /\ i < j
              BY <3>4, <4>1, <6>2
            <7>2. i \in 1..m /\ j \in 1..m
              BY <3>4, <7>1
            <7> QED BY <3>4, <6>2, <7>2
          <6> QED BY <6>1, <6>2
        <5>2. wire'[l][i] = wire[l][i] /\ wire'[l][j] = wire[l][j]
          <6>1. CASE l # k
            BY <3>3, <6>1
          <6>2. CASE l = k
            BY <3>4, <5>1, <6>2
          <6> QED BY <6>1, <6>2
        <5> QED BY <1>0, <5>1, <5>2 DEF RepliesInOrder
      <4>2. CASE l = k /\ j = m + 1
        <5>1. i \in 1..m
          BY <3>4, <4>2
        <5>2. PICK p \in 1..n : p < n /\ wire[k][i].of = Script[k][p]
          BY <3>6, <5>1
        <5>3. IndexIn(k, wire[k][i].of) = p
          BY <3>1, <5>2, IndexOfEntry
        <5> QED BY <3>1, <3>4, <4>2, <5>1, <5>2, <5>3
      <4> QED BY <4>1, <4>2
    <3> QED BY <3>5, <3>7, <3>8 DEF WireInv
  <2> QED BY <1>0, <1>2, <2>1, <2>2, HandleConnWrites DEF WireTypeOK, InRequest
<1>3. CASE ~\E k \in Conns : HandleConn(k)
  BY <1>1, <1>3, OthersShape
<1> QED BY <1>2, <1>3

\* Before the first request nothing is written.
LEMMA InitWireInv == TCPInit => WireInv
<1> SUFFICES ASSUME TCPInit PROVE WireInv
  OBVIOUS
<1>1. wire = [k \in Conns |-> <<>>] /\ \A k \in Conns : DOMAIN wire[k] = {}
  BY DEF TCPInit
<1> QED BY <1>1 DEF WireInv, WireTypeOK, AnswersRead, RepliesInOrder

\* Replies have the types of replies, answer requests that were read, and go
\* out in the order of the requests.
THEOREM TCPWireInvariance == TCPSpec => []WireInv
BY InitWireInv, StepWireInv, TCPPlaces, TCPKeepsIInv, PTL DEF TCPSpec

\* The replies of a connection answer its requests in their order, at most
\* one each, with or without the detector.
THEOREM TCPRepliesInOrder == TCPSpec => []RepliesInOrder
<1>1. WireInv => RepliesInOrder
  BY DEF WireInv
<1> QED BY <1>1, TCPWireInvariance, PTL

\* The server's types; the counter of goroutines never goes below zero.
THEOREM TCPTypeCorrect == TCPSpec => []TCPTypeOK
<1>1. ASSUME PlaceInv, IInv, ServeInv, WireInv PROVE TCPTypeOK
  <2>1. wg \in Nat
    BY <1>1, FS_CardinalityType DEF ServeInv, CountInv
  <2>2. wire \in [Conns -> Seq([of : Callers, reply : Callers \cup {Torn}])]
    BY <1>1 DEF WireInv, WireTypeOK, Answers
  <2>3. \A k \in Conns : readN[k] <= sentN[k] /\ sentN[k] <= Len(Script[k])
    BY <1>1 DEF PlaceInv, ScriptInv
  <2> QED BY <1>1, <2>1, <2>2, <2>3 DEF TCPTypeOK, PlaceInv, OwnTypeOK, IInv
<1>2. PlaceInv /\ IInv /\ ServeInv /\ WireInv => TCPTypeOK
  BY <1>1
<1> QED BY <1>2, TCPPlaces, TCPKeepsIInv, TCPServeInvariance, TCPWireInvariance, PTL

\* Every reply is that of the latest run for the request it answers.
AnswersLatest ==
    \A k \in Conns : \A i \in DOMAIN wire[k] : \E n \in 1..readN[k] : \E j \in 1..n :
        /\ n = readN[k] => at[k] \notin InRequest
        /\ wire[k][i].of = Script[k][n]
        /\ IsLatestRun(k, n, j)
        /\ wire[k][i].reply = Script[k][j]

\* Every step keeps that: later runs are of later requests.
LEMMA StepAnswersLatest ==
    ASSUME Dedup, PlaceInv, PlaceInv', IInv, PhaseInv, RunInv, WireInv, AnswersLatest,
           [TCPNext]_tcpVars
    PROVE  AnswersLatest'
<1>0. /\ wire \in [Conns -> Seq(Answers)] /\ at \in [Conns -> Places]
      /\ readN \in [Conns -> Nat] /\ [Next]_vars
  BY TCPStepImplements DEF WireInv, WireTypeOK, PlaceInv, OwnTypeOK
<1>1. ASSUME NEW l \in Conns, NEW i \in DOMAIN wire[l], wire'[l][i] = wire[l][i],
             \/ readN'[l] = readN[l] /\ (at'[l] \in InRequest => at[l] \in InRequest)
             \/ readN'[l] = readN[l] + 1
      PROVE  \E n \in 1..readN'[l] : \E j \in 1..n :
                /\ n = readN'[l] => at'[l] \notin InRequest
                /\ wire'[l][i].of = Script[l][n]
                /\ IsLatestRun(l, n, j)'
                /\ wire'[l][i].reply = Script[l][j]
  <2>1. PICK n \in 1..readN[l] : \E j \in 1..n :
           /\ n = readN[l] => at[l] \notin InRequest
           /\ wire[l][i].of = Script[l][n]
           /\ IsLatestRun(l, n, j)
           /\ wire[l][i].reply = Script[l][j]
    BY DEF AnswersLatest
  <2>2. PICK j \in 1..n :
           /\ n = readN[l] => at[l] \notin InRequest
           /\ wire[l][i].of = Script[l][n]
           /\ IsLatestRun(l, n, j)
           /\ wire[l][i].reply = Script[l][j]
    BY <2>1
  <2>3. n = readN[l] => at[l] # "seen"
    BY <2>2 DEF InRequest
  <2>4. IsLatestRun(l, n, j)'
    BY <1>0, <2>2, <2>3, LatestStays
  <2>5. readN[l] \in Nat
    BY <1>0
  <2>6. n \in 1..readN'[l] /\ (n = readN'[l] => at'[l] \notin InRequest)
    BY <1>1, <2>2, <2>5
  <2> QED BY <1>1, <2>2, <2>4, <2>6
<1>2. ASSUME UNCHANGED wire,
             \A l \in Conns :
                 \/ readN'[l] = readN[l] /\ (at'[l] \in InRequest => at[l] \in InRequest)
                 \/ readN'[l] = readN[l] + 1
      PROVE  AnswersLatest'
  BY <1>1, <1>2 DEF AnswersLatest
<1>3. ASSUME NEW k \in Conns, HandleConn(k) PROVE AnswersLatest'
  <2>1. CASE UNCHANGED wire
    <3>1. \A l \in Conns \ {k} : readN'[l] = readN[l] /\ at'[l] = at[l]
      BY <1>3, OthersUntouched
    <3>2. \/ readN'[k] = readN[k] /\ (at'[k] \in InRequest => at[k] \in InRequest)
          \/ readN'[k] = readN[k] + 1
      BY <1>0, <1>3, HandleConnShape
    <3> QED BY <1>2, <2>1, <3>1, <3>2
  <2>2. ASSUME NEW r \in Callers \cup {Torn}, Write(k, r), Move(k, "reading"),
               UNCHANGED <<call, entries, entry, readN>>,
               \/ at[k] = "replying" /\ r = Current(k)
               \/ at[k] = "duplicate" /\ call[Current(k)].at = "hit" /\ r = call[Current(k)].got
        PROVE  AnswersLatest'
    <3> DEFINE c == Current(k)  n == readN[k]  m == Len(wire[k])
    <3>1. /\ c \in Callers /\ n \in DOMAIN Script[k] /\ c = Script[k][n] /\ n \in Nat
          /\ DOMAIN Script[k] = 1..Len(Script[k])
      BY <2>2, ReadPositions DEF Current, InRequest
    <3>2. \E j \in 1..n : IsLatestRun(k, n, j) /\ r = Script[k][j]
      <4>1. CASE at[k] = "duplicate"
        BY <2>2, <4>1 DEF RunInv, FoundLatest
      <4>2. CASE at[k] = "replying"
        <5>1. call[c].at = "stored"
          BY <3>1, <4>2 DEF PhaseInv, PhaseAt
        <5>2. Allocated(c)
          BY <3>1, <5>1 DEF IInv, AllocInv
        <5>3. IsLatestRun(k, n, n)
          BY <3>1, <5>2 DEF IsLatestRun
        <5> QED BY <2>2, <3>1, <4>2, <5>3
      <4> QED BY <2>2, <4>1, <4>2
    <3>3. PICK j \in 1..n : IsLatestRun(k, n, j) /\ r = Script[k][j]
      BY <3>2
    <3>4. IsLatestRun(k, n, j)'
      <4>1. \A x, y : IsLatestRun(k, x, y) => IsLatestRun(k, x, y)'
        BY <2>2 DEF IsLatestRun, Allocated
      <4> QED BY <2>2, <3>3, <4>1 DEF IsLatestRun
    <3>5. /\ wire'[k] = Append(wire[k], [of |-> c, reply |-> r])
          /\ \A l \in Conns \ {k} : wire'[l] = wire[l]
          /\ at'[k] = "reading" /\ \A l \in Conns \ {k} : at'[l] = at[l]
      BY <1>0, <2>2 DEF Write, Move
    <3>6. /\ m \in Nat /\ DOMAIN wire[k] = 1..m /\ DOMAIN wire'[k] = 1..(m + 1)
          /\ wire'[k][m + 1] = [of |-> c, reply |-> r]
          /\ \A i \in 1..m : wire'[k][i] = wire[k][i]
      <4>1. wire[k] \in Seq(Answers)
        BY <1>0
      <4>2. [of |-> c, reply |-> r] \in Answers
        BY <3>1 DEF Answers
      <4> QED BY <3>5, <4>1, <4>2
    <3> SUFFICES ASSUME NEW l \in Conns, NEW i \in DOMAIN wire'[l]
                 PROVE  \E p \in 1..readN'[l] : \E q \in 1..p :
                           /\ p = readN'[l] => at'[l] \notin InRequest
                           /\ wire'[l][i].of = Script[l][p]
                           /\ IsLatestRun(l, p, q)'
                           /\ wire'[l][i].reply = Script[l][q]
      BY DEF AnswersLatest
    <3>7. CASE l # k
      BY <1>1, <2>2, <3>5, <3>7
    <3>8. CASE l = k /\ i \in 1..m
      <4>1. i \in DOMAIN wire[l] /\ wire'[l][i] = wire[l][i] /\ readN'[l] = readN[l]
            /\ at'[l] \notin InRequest
        BY <2>2, <3>5, <3>6, <3>8 DEF InRequest
      <4> QED BY <1>1, <4>1
    <3>9. CASE l = k /\ i = m + 1
      <4>1. /\ n \in 1..readN'[k] /\ at'[k] \notin InRequest
            /\ wire'[k][i].of = Script[k][n] /\ wire'[k][i].reply = Script[k][j]
        BY <2>2, <3>1, <3>3, <3>5, <3>6, <3>9 DEF InRequest
      <4>2. PICK p \in 1..readN'[k] : p = n /\ p = readN'[k]
        BY <2>2, <4>1
      <4>3. IsLatestRun(k, p, j)'
        BY <3>4, <4>2 DEF IsLatestRun
      <4> QED BY <3>3, <3>9, <4>1, <4>2, <4>3
    <3> QED BY <3>6, <3>7, <3>8, <3>9
  <2> QED BY <1>3, <2>1, <2>2, HandleConnWrites DEF WireInv
<1>4. CASE ~\E k \in Conns : HandleConn(k)
  BY <1>2, <1>4, OthersShape
<1> QED BY <1>3, <1>4

\* A connection's duplicates are answered with the reply of the latest run
\* of their request, whatever the other connections do to the entries.
THEOREM TCPAnswersAreLatest == TCPSpec => []AnswersAreOfTheLatestRun
<1>1. TCPInit => (Dedup => AnswersLatest)
  BY DEF TCPInit, AnswersLatest
<1>2. PlaceInv /\ PlaceInv' /\ IInv /\ (Dedup => PhaseInv) /\ (Dedup => RunInv) /\ WireInv
      /\ (Dedup => AnswersLatest) /\ [TCPNext]_tcpVars => (Dedup => AnswersLatest)'
  BY StepAnswersLatest
<1>3. TCPSpec => [](Dedup => AnswersLatest)
  BY <1>1, <1>2, TCPPlaces, TCPKeepsIInv, TCPRequestsTakeTurns, TCPRunsInvariance,
     TCPWireInvariance, PTL DEF TCPSpec
<1>4. ASSUME Dedup, PlaceInv, AnswersLatest PROVE AnswersAreOfTheLatestRun
  <2> SUFFICES ASSUME NEW k \in Conns, NEW i \in DOMAIN wire[k]
               PROVE  wire[k][i].reply = LatestRun(k, wire[k][i].of)
    BY DEF AnswersAreOfTheLatestRun
  <2>1. PICK n \in 1..readN[k] : \E j \in 1..n :
           wire[k][i].of = Script[k][n] /\ IsLatestRun(k, n, j) /\ wire[k][i].reply = Script[k][j]
    BY <1>4 DEF AnswersLatest
  <2>2. PICK j \in 1..n :
           wire[k][i].of = Script[k][n] /\ IsLatestRun(k, n, j) /\ wire[k][i].reply = Script[k][j]
    BY <2>1
  <2>3. n \in Nat /\ n \in DOMAIN Script[k] /\ IndexIn(k, wire[k][i].of) = n
    BY <1>4, <2>2, ReadPositions, IndexOfEntry
  <2> DEFINE runs == {x \in 1..n : /\ Allocated(Script[k][x])
                                   /\ DedupKey(Script[k][x]) = DedupKey(Script[k][n])}
  <2>4. j \in runs /\ \A x \in runs : x <= j
    BY <2>2 DEF IsLatestRun
  <2>5. (CHOOSE x \in runs : \A y \in runs : y <= x) = j
    BY <2>3, <2>4
  <2>6. LatestRun(k, wire[k][i].of) = Script[k][CHOOSE x \in runs : \A y \in runs : y <= x]
    BY <2>2, <2>3, <2>4 DEF LatestRun
  <2> QED BY <2>2, <2>5, <2>6
<1>5. (Dedup => AnswersLatest) /\ PlaceInv => AnswersAreOfTheLatestRun
  BY <1>4 DEF AnswersAreOfTheLatestRun
<1> QED BY <1>3, <1>5, TCPPlaces, PTL

=============================================================================
