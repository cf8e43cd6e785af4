------------------------------ MODULE TCPServer ------------------------------
(***************************************************************************)
(* The TCP server of server/server.go over transport/tcp.go: the Serve     *)
(* loop with the goroutine that each Accept starts, one goroutine per      *)
(* connection (handleConn), the Deduplicator they share, and Shutdown.     *)
(* The callers of module Deduplicator are the requests.  A connection's    *)
(* client sends the requests of its script in order, without waiting for   *)
(* replies; handleConn takes them one after the other.                     *)
(*                                                                         *)
(* External: the kernel completes connections while the listener is open,  *)
(* resets the ones not yet accepted when it closes, and delivers a         *)
(* connection's octets in order; a client may hang up at any time.         *)
(***************************************************************************)
EXTENDS Deduplicator, Sequences

CONSTANTS
    Conns,      \* the connections clients make
    Script,     \* the requests each client sends, in order
    Dedup,      \* was the server built with WithTCPDedup?
    Stoppers    \* the goroutines that call Shutdown

ASSUME DedupIsBoolean == Dedup \in BOOLEAN

ASSUME ScriptAssumption == Script \in [Conns -> Seq(Callers)]

\* Every request is sent once, and a connection's address is its own.
ASSUME RequestsAssumption ==
    \A k, l \in Conns : \A i \in DOMAIN Script[k], j \in DOMAIN Script[l] :
        /\ Script[k][i] = Script[l][j] => k = l /\ i = j
        /\ AddrOf[Script[k][i]] = AddrOf[Script[l][j]] <=> k = l

VARIABLES
    at,         \* where each connection and its goroutine are
    sentN,      \* how many requests of the script the client has sent
    readN,      \* how many of them handleConn has read
    hungUp,     \* the connections whose client has closed its end
    wire,       \* the replies written: [of: request, reply]
    loop,       \* Serve: accepting, holding a connection, or what it returned
    acceptor,   \* the goroutine of the latest Accept
    open,       \* is the listener open?
    ctx,        \* the context given to Serve and, by it, to everything else
    wg,         \* the WaitGroup's counter
    stop,       \* each Shutdown call
    helper,     \* the goroutine in which each of them waits
    overdue,    \* the Shutdown calls whose own context has expired
    panicked    \* has the WaitGroup panicked, which ends the program?

clientVars == <<sentN, hungUp>>
acceptVars == <<loop, acceptor>>
stopVars == <<stop, helper, overdue, panicked>>
tcpVars == <<vars, at, readN, wire, clientVars, acceptVars, open, ctx, wg, stopVars>>

InRequest == {"seen", "duplicate", "handling", "replying"}

\* Places of a connection with a goroutine of its own.
Running == {"started", "reading"} \cup InRequest

Places == {"none", "backlog", "delivered", "held", "closed"} \cup Running

TCPInit ==
    /\ Init
    /\ at = [k \in Conns |-> "none"]
    /\ sentN = [k \in Conns |-> 0]
    /\ readN = [k \in Conns |-> 0]
    /\ hungUp = {}
    /\ wire = [k \in Conns |-> <<>>]
    /\ loop = "accepting"
    /\ acceptor = "waiting"
    /\ open = TRUE
    /\ ctx = "live"
    /\ wg = 0
    /\ stop = [s \in Stoppers |-> "idle"]
    /\ helper = [s \in Stoppers |-> "none"]
    /\ overdue = {}
    /\ panicked = FALSE

Move(k, place) == at' = [at EXCEPT ![k] = place]

\* The request that handleConn has read last.
Current(k) == Script[k][readN[k]]

Buffered(k) == readN[k] < sentN[k]

\* The helpers asleep in wg.Wait.
Asleep == {s \in Stoppers : helper[s] = "blocked"}

\* handleConn returns: the connection is closed and the deferred Done runs,
\* up to the counter.
EndConn(k) == Move(k, "closed") /\ wg' = wg - 1

Write(k, r) == wire' = [wire EXCEPT ![k] = Append(@, [of |-> Current(k), reply |-> r])]

-----------------------------------------------------------------------------
(* Clients                                                                 *)

Connect(k) ==
    /\ at[k] = "none"
    /\ open
    /\ Move(k, "backlog")
    /\ UNCHANGED <<vars, readN, wire, clientVars, acceptVars, open, ctx, wg, stopVars>>

SendRequest(k) ==
    /\ at[k] \notin {"none", "closed"} /\ k \notin hungUp
    /\ sentN[k] < Len(Script[k])
    /\ sentN' = [sentN EXCEPT ![k] = @ + 1]
    /\ UNCHANGED <<vars, at, readN, wire, hungUp, acceptVars, open, ctx, wg, stopVars>>

HangUp(k) ==
    /\ at[k] \notin {"none", "closed"} /\ k \notin hungUp
    /\ hungUp' = hungUp \cup {k}
    /\ UNCHANGED <<vars, at, readN, wire, sentN, acceptVars, open, ctx, wg, stopVars>>

-----------------------------------------------------------------------------
(* Serve and Accept.  A connection that was delivered by the goroutine of  *)
(* an Accept that had returned already stays delivered for good.           *)

AcceptorTakes(k) ==
    /\ acceptor = "waiting" /\ open
    /\ at[k] = "backlog"
    /\ acceptor' = "delivered"
    /\ Move(k, "delivered")
    /\ UNCHANGED <<vars, readN, wire, clientVars, loop, open, ctx, wg, stopVars>>

AcceptorFails ==
    /\ acceptor = "waiting" /\ ~open
    /\ acceptor' = "failed"
    /\ UNCHANGED <<vars, at, readN, wire, clientVars, loop, open, ctx, wg, stopVars>>

AcceptReturns(k) ==
    /\ loop = "accepting" /\ acceptor = "delivered"
    /\ at[k] = "delivered"
    /\ loop' = "holding"
    /\ Move(k, "held")
    /\ UNCHANGED <<vars, readN, wire, clientVars, acceptor, open, ctx, wg, stopVars>>

\* The select takes the context's case, whatever the goroutine did.
AcceptCanceled ==
    /\ loop = "accepting" /\ ctx # "live"
    /\ loop' = "context"
    /\ UNCHANGED <<vars, at, readN, wire, clientVars, acceptor, open, ctx, wg, stopVars>>

\* Accept reports the closed listener; Serve gives the context precedence.
AcceptFails ==
    /\ loop = "accepting" /\ acceptor = "failed"
    /\ loop' = IF ctx # "live" THEN "context" ELSE "closed"
    /\ UNCHANGED <<vars, at, readN, wire, clientVars, acceptor, open, ctx, wg, stopVars>>

\* wg.Add(1), the go statement, and the next Accept with its goroutine.
StartConn(k) ==
    /\ loop = "holding" /\ at[k] = "held"
    /\ ~(wg = 0 /\ Asleep # {})
    /\ wg' = wg + 1
    /\ Move(k, "started")
    /\ loop' = "accepting"
    /\ acceptor' = "waiting"
    /\ UNCHANGED <<vars, readN, wire, clientVars, open, ctx, stopVars>>

\* wg.Add(1) between the last Done's decrement and its release of the
\* helpers: "WaitGroup misuse: Add called concurrently with Wait".
StartConnPanics(k) ==
    /\ loop = "holding" /\ at[k] = "held"
    /\ wg = 0 /\ Asleep # {}
    /\ panicked' = TRUE
    /\ UNCHANGED <<vars, at, readN, wire, clientVars, acceptVars, open, ctx, wg, stop,
                   helper, overdue>>

CancelContext ==
    /\ \/ ctx = "live" /\ ctx' \in {"canceled", "expired"}
       \/ ctx = "canceled" /\ ctx' = "expired"
    /\ UNCHANGED <<vars, at, readN, wire, clientVars, acceptVars, open, wg, stopVars>>

-----------------------------------------------------------------------------
(* handleConn                                                              *)

\* Slip: the early return precedes the defer of wg.Done.
UnknownClientSlip(k) ==
    /\ at[k] = "started"
    /\ Move(k, "closed")
    /\ UNCHANGED <<vars, readN, wire, clientVars, acceptVars, open, ctx, wg, stopVars>>

UnknownClient(k) ==
    /\ at[k] = "started"
    /\ EndConn(k)
    /\ UNCHANGED <<vars, readN, wire, clientVars, acceptVars, open, ctx, stopVars>>

KnownClient(k) ==
    /\ at[k] = "started"
    /\ Move(k, "reading")
    /\ UNCHANGED <<vars, readN, wire, clientVars, acceptVars, open, ctx, wg, stopVars>>

\* ReadPacket fails: the client is gone, or the context's deadline has
\* passed, with which every read of the connection is limited.  A context
\* that is canceled has no effect on a read.
ReadEnds(k) ==
    /\ at[k] = "reading"
    /\ ctx = "expired" \/ (k \in hungUp /\ ~Buffered(k))
    /\ EndConn(k)
    /\ UNCHANGED <<vars, readN, wire, clientVars, acceptVars, open, ctx, stopVars>>

Read(k) ==
    /\ at[k] = "reading" /\ Buffered(k)
    /\ ctx # "expired"
    /\ readN' = [readN EXCEPT ![k] = @ + 1]

\* The Length field, or what Unmarshal verifies, is wrong.
ReadMalformed(k) ==
    /\ Read(k)
    /\ EndConn(k)
    /\ UNCHANGED <<vars, wire, clientVars, acceptVars, open, ctx, stopVars>>

\* The request is well formed: enter Seen, or go straight to the handler.
ReadRequest(k) ==
    /\ Read(k)
    /\ IF Dedup
       THEN SeenReadsClock(Current(k)') /\ Move(k, "seen")
       ELSE UNCHANGED vars /\ Move(k, "handling")
    /\ UNCHANGED <<wire, clientVars, acceptVars, open, ctx, wg, stopVars>>

DetectDuplicate(k) ==
    /\ at[k] = "seen"
    /\ SeenLocked(Current(k))
    /\ Move(k, IF call'[Current(k)].at = "first" THEN "handling" ELSE "duplicate")
    /\ UNCHANGED <<readN, wire, clientVars, acceptVars, open, ctx, wg, stopVars>>

LookupCached(k) ==
    /\ at[k] = "duplicate"
    /\ Lookup(Current(k))
    /\ UNCHANGED <<at, readN, wire, clientVars, acceptVars, open, ctx, wg, stopVars>>

\* Slip: no continue after the cached reply.
AnswerDuplicateSlip(k) ==
    /\ at[k] = "duplicate"
    /\ call[Current(k)].at = "hit"
    /\ Write(k, call[Current(k)].got)
    /\ Move(k, "replying")
    /\ UNCHANGED <<vars, readN, clientVars, acceptVars, open, ctx, wg, stopVars>>

\* Lookup returned: resend what it found and go on.  The result of the
\* write is ignored; to a client that is gone it may fail.
AnswerDuplicate(k) ==
    /\ at[k] = "duplicate"
    /\ \/ call[Current(k)].at = "hit" /\ Write(k, call[Current(k)].got)
       \/ call[Current(k)].at = "hit" /\ k \in hungUp /\ UNCHANGED wire
       \/ call[Current(k)].at = "miss" /\ UNCHANGED wire
    /\ Move(k, "reading")
    /\ UNCHANGED <<vars, readN, clientVars, acceptVars, open, ctx, wg, stopVars>>

\* The handler has no reply: the entry that Seen made stays open.
HandlerSilent(k) ==
    /\ at[k] = "handling"
    /\ IF Dedup THEN Abandon(Current(k)) ELSE UNCHANGED vars
    /\ Move(k, "reading")
    /\ UNCHANGED <<readN, wire, clientVars, acceptVars, open, ctx, wg, stopVars>>

\* The handler fails, or its reply does not marshal.
HandlerFails(k) ==
    /\ at[k] = "handling"
    /\ IF Dedup THEN Abandon(Current(k)) ELSE UNCHANGED vars
    /\ EndConn(k)
    /\ UNCHANGED <<readN, wire, clientVars, acceptVars, open, ctx, stopVars>>

HandlerReplies(k) ==
    /\ at[k] = "handling"
    /\ IF Dedup THEN Store(Current(k)) ELSE UNCHANGED vars
    /\ Move(k, "replying")
    /\ UNCHANGED <<readN, wire, clientVars, acceptVars, open, ctx, wg, stopVars>>

SendReply(k) ==
    /\ at[k] = "replying"
    /\ \/ Write(k, Current(k)) /\ Move(k, "reading") /\ UNCHANGED wg
       \/ k \in hungUp /\ EndConn(k) /\ UNCHANGED wire
    /\ UNCHANGED <<vars, readN, clientVars, acceptVars, open, ctx, stopVars>>

-----------------------------------------------------------------------------
(* Close and Shutdown                                                      *)

\* The kernel resets the connections that nobody has accepted.
CloseListener ==
    /\ open' = FALSE
    /\ at' = [k \in Conns |-> IF at[k] = "backlog" THEN "closed" ELSE at[k]]

Close ==
    /\ open
    /\ CloseListener
    /\ UNCHANGED <<vars, readN, wire, clientVars, acceptVars, ctx, wg, stopVars>>

\* The listener is closed and the helper goroutine started.
ShutdownCloses(s) ==
    /\ stop[s] = "idle"
    /\ CloseListener
    /\ stop' = [stop EXCEPT ![s] = "waiting"]
    /\ helper' = [helper EXCEPT ![s] = "starting"]
    /\ UNCHANGED <<vars, readN, wire, clientVars, acceptVars, ctx, wg, overdue, panicked>>

\* The helper calls wg.Wait: it goes on at a counter of zero and sleeps at
\* any other.
WaitStarts(s) ==
    /\ helper[s] = "starting"
    /\ helper' = [helper EXCEPT ![s] = IF wg = 0 THEN "returned" ELSE "blocked"]
    /\ UNCHANGED <<vars, at, readN, wire, clientVars, acceptVars, open, ctx, wg, stop,
                   overdue, panicked>>

\* The Done that took the counter to zero releases the helpers that sleep.
DoneReleases ==
    /\ wg = 0 /\ Asleep # {}
    /\ helper' = [s \in Stoppers |-> IF s \in Asleep THEN "woken" ELSE helper[s]]
    /\ UNCHANGED <<vars, at, readN, wire, clientVars, acceptVars, open, ctx, wg, stop,
                   overdue, panicked>>

\* A released helper runs and finds the WaitGroup unused, or in use again:
\* "WaitGroup is reused before previous Wait has returned".
WaitWakes(s) ==
    /\ helper[s] = "woken"
    /\ IF wg = 0 /\ Asleep = {}
       THEN helper' = [helper EXCEPT ![s] = "returned"] /\ UNCHANGED panicked
       ELSE panicked' = TRUE /\ UNCHANGED helper
    /\ UNCHANGED <<vars, at, readN, wire, clientVars, acceptVars, open, ctx, wg, stop,
                   overdue>>

\* Shutdown's select takes either case when both are ready.  The helper
\* outlives a call that gave up.
ShutdownReturns(s) ==
    /\ stop[s] = "waiting"
    /\ \/ helper[s] = "returned" /\ stop' = [stop EXCEPT ![s] = "nil"]
       \/ s \in overdue /\ stop' = [stop EXCEPT ![s] = "gaveUp"]
    /\ UNCHANGED <<vars, at, readN, wire, clientVars, acceptVars, open, ctx, wg, helper,
                   overdue, panicked>>

\* (A context that has expired before the call is one that expires at once.)
ShutdownExpires(s) ==
    /\ stop[s] = "waiting" /\ s \notin overdue
    /\ overdue' = overdue \cup {s}
    /\ UNCHANGED <<vars, at, readN, wire, clientVars, acceptVars, open, ctx, wg, stop,
                   helper, panicked>>

\* Bound: time that no Seen would read any more is left out.
Clock ==
    /\ now + Ttl < MaxTime
    /\ Tick
    /\ UNCHANGED <<at, readN, wire, clientVars, acceptVars, open, ctx, wg, stopVars>>

Client(k) == Connect(k) \/ SendRequest(k) \/ HangUp(k)

Serve(k) == AcceptReturns(k) \/ StartConn(k) \/ StartConnPanics(k)

HandleConn(k) ==
    \/ UnknownClient(k) \/ KnownClient(k)
    \/ ReadEnds(k) \/ ReadMalformed(k) \/ ReadRequest(k)
    \/ DetectDuplicate(k) \/ LookupCached(k) \/ AnswerDuplicate(k)
    \/ HandlerSilent(k) \/ HandlerFails(k) \/ HandlerReplies(k) \/ SendReply(k)

Shutdown(s) ==
    \/ ShutdownCloses(s) \/ ShutdownReturns(s) \/ ShutdownExpires(s)
    \/ WaitStarts(s) \/ WaitWakes(s)

\* The program goes on until the WaitGroup panics.
TCPNext ==
    /\ ~panicked
    /\ \/ \E k \in Conns : Client(k) \/ AcceptorTakes(k) \/ Serve(k) \/ HandleConn(k)
       \/ \E s \in Stoppers : Shutdown(s)
       \/ DoneReleases
       \/ AcceptorFails \/ AcceptCanceled \/ AcceptFails
       \/ CancelContext \/ Close \/ Clock

TCPSpec == TCPInit /\ [][TCPNext]_tcpVars

\* What the program does as long as it runs.
Up(A) == ~panicked /\ A

\* Every goroutine that can run is run and handlers return.  Clients need
\* not send, nor ever hang up.
TCPFairness ==
    /\ WF_tcpVars(Up(AcceptorFails))
    /\ WF_tcpVars(Up(AcceptFails))
    /\ WF_tcpVars(Up(DoneReleases))
    /\ \A k \in Conns :
          /\ WF_tcpVars(Up(AcceptorTakes(k)))
          /\ WF_tcpVars(Up(Serve(k)))
          /\ WF_tcpVars(Up(HandleConn(k)))
    /\ \A s \in Stoppers :
          WF_tcpVars(Up(WaitStarts(s) \/ WaitWakes(s) \/ ShutdownReturns(s)))

FairTCPSpec == TCPSpec /\ TCPFairness

-----------------------------------------------------------------------------
(* Properties                                                              *)

\* The variables hold values of the program's types; above all the
\* WaitGroup's counter, which panics when it drops below zero.
TCPTypeOK ==
    /\ TypeOK
    /\ at \in [Conns -> Places]
    /\ sentN \in [Conns -> Nat] /\ readN \in [Conns -> Nat]
    /\ \A k \in Conns : readN[k] <= sentN[k] /\ sentN[k] <= Len(Script[k])
    /\ hungUp \subseteq Conns
    /\ wire \in [Conns -> Seq([of : Callers, reply : Callers \cup {Torn}])]
    /\ loop \in {"accepting", "holding", "context", "closed"}
    /\ acceptor \in {"waiting", "delivered", "failed"}
    /\ open \in BOOLEAN
    /\ ctx \in {"live", "canceled", "expired"}
    /\ wg \in Nat
    /\ stop \in [Stoppers -> {"idle", "waiting", "nil", "gaveUp"}]
    /\ helper \in [Stoppers -> {"none", "starting", "blocked", "woken", "returned"}]
    /\ overdue \subseteq Stoppers
    /\ panicked \in BOOLEAN

\* Where a request stands in its connection's script.
IndexIn(k, c) == CHOOSE i \in DOMAIN Script[k] : Script[k][i] = c

\* The latest request of c's key, up to c, that ran the handler; None if
\* none did.
LatestRun(k, c) ==
    LET runs == {i \in 1..IndexIn(k, c) :
                    /\ Allocated(Script[k][i])
                    /\ DedupKey(Script[k][i]) = DedupKey(c)}
    IN  IF runs = {} THEN None
        ELSE Script[k][CHOOSE i \in runs : \A j \in runs : j <= i]

\* Every reply on a connection is that of the latest run of the handler for
\* the request's key: a duplicate is never answered from an older window,
\* nor with a reply torn between two, whatever other connections evict.
AnswersAreOfTheLatestRun ==
    Dedup =>
    \A k \in Conns : \A i \in DOMAIN wire[k] :
        wire[k][i].reply = LatestRun(k, wire[k][i].of)

\* Replies go out in the order of the requests, at most one to each: what a
\* client that matches them by order relies on.
RepliesInOrder ==
    \A k \in Conns : \A i, j \in DOMAIN wire[k] :
        i < j => IndexIn(k, wire[k][i].of) < IndexIn(k, wire[k][j].of)

\* A duplicate that waits on an open channel waits for a handler that has
\* already returned without a reply, never for one that still runs: over TCP
\* Lookup either answers at once or waits for nothing but eviction.
WaitsOnlyOnSilence ==
    \A k \in Conns :
        LET c == Current(k) IN
        at[k] = "duplicate" /\ call[c].at = "waiting" /\ entry[call[c].ptr].done = "open"
        => call[call[c].ptr].at = "silent"

\* A connection that was accepted but never reaches a handler, and so is
\* never closed, is lost only by the cancellation of Serve, and then it is
\* the only one.
AtMostOneStranded ==
    \A k, l \in Conns :
        at[k] = "delivered" /\ at[l] = "delivered" => k = l

\* Once Shutdown has returned nil at most one connection has a goroutine or
\* will get one: that which Accept had returned or was about to.  Nor does a
\* panic of the WaitGroup find more than that one.
ShutdownLeavesAtMostOne ==
    (\E s \in Stoppers : stop[s] = "nil") \/ panicked
    => \A k, l \in Conns :
          {at[k], at[l]} \subseteq Running \cup {"delivered", "held"} => k = l

NoSilentHandler == \A c \in Callers : call[c].at # "silent"

\* When every handler publishes a reply, a connection that has a goroutine
\* and whose client has hung up is closed, unless the program dies.
ConnectionsEnd ==
    []NoSilentHandler
    => \A k \in Conns :
          at[k] \in Running /\ k \in hungUp ~> at[k] = "closed" \/ panicked

\* When moreover the clients hang up, Shutdown returns without the help of
\* its context, or the WaitGroup panics under it.
ShutdownFinishes ==
    []NoSilentHandler /\ <>[](\A k \in Conns : at[k] \in Running => k \in hungUp)
    => \A s \in Stoppers :
          stop[s] = "waiting" ~> stop[s] \in {"nil", "gaveUp"} \/ panicked

=============================================================================
