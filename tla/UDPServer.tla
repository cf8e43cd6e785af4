------------------------------ MODULE UDPServer ------------------------------
(***************************************************************************)
(* The UDP server of server/server.go over the socket of transport/udp.go: *)
(* the Serve loop, one goroutine per datagram (handleOne), the             *)
(* Deduplicator they share, and Close and Shutdown called from outside.    *)
(* The callers of module Deduplicator are the datagrams' goroutines.       *)
(*                                                                         *)
(* The steps of handleOne that call the Deduplicator are the actions of    *)
(* that module, joined with what the goroutine does next; so the server    *)
(* can be shown to use the Deduplicator only as that module allows.        *)
(***************************************************************************)
EXTENDS Deduplicator

CONSTANTS
    Dedup,      \* was the server built with WithUDPDedup?
    Stoppers    \* the goroutines that call Shutdown

ASSUME DedupIsBoolean == Dedup \in BOOLEAN

VARIABLES
    at,         \* where each datagram and its goroutine are
    loop,       \* the Serve loop: reading, holding a packet, or exited
    serveErr,   \* what Serve returned
    open,       \* is the socket open?
    ctx,        \* the context given to Serve
    wg,         \* the WaitGroup's counter
    stop,       \* each Shutdown call
    helper,     \* the goroutine in which each of them waits
    overdue,    \* the Shutdown calls whose own context has expired
    panicked,   \* has the WaitGroup panicked, which ends the program?
    sent        \* the replies the socket took, by the request they answer

socketVars == <<loop, serveErr, open, ctx>>
stopVars == <<stop, helper, overdue, panicked>>
serverVars == <<vars, at, socketVars, wg, stopVars, sent>>

\* Goroutines started and not yet done; "held" is still with Serve.
Running == {"queued", "seen", "duplicate", "handling", "replying"}

Unfinished(c) == at[c] \in Running \cup {"held"}

Places == {"net", "held", "done"} \cup Running

ServerInit ==
    /\ Init
    /\ at = [c \in Callers |-> "net"]
    /\ loop = "reading"
    /\ serveErr = "none"
    /\ open = TRUE
    /\ ctx = "live"
    /\ wg = 0
    /\ stop = [s \in Stoppers |-> "idle"]
    /\ helper = [s \in Stoppers |-> "none"]
    /\ overdue = {}
    /\ panicked = FALSE
    /\ sent = [c \in Callers |-> {}]

Move(c, place) == at' = [at EXCEPT ![c] = place]

\* The helpers asleep in wg.Wait.
Asleep == {s \in Stoppers : helper[s] = "blocked"}

\* handleOne returns and the deferred wg.Done runs, up to the counter.
Finish(c) == Move(c, "done") /\ wg' = wg - 1

\* SendPacket fails once the socket is closed, and the error is only logged.
SendPacket(c, r) ==
    sent' = IF open THEN [sent EXCEPT ![c] = @ \cup {r}] ELSE sent

-----------------------------------------------------------------------------
(* Serve                                                                   *)

\* ReadPacket returns a datagram.  A context without a deadline is never
\* consulted; past its deadline every read fails.  (The clock bound leaves
\* room for an entry made for this datagram to expire.)
ReadPacket(c) ==
    /\ loop = "reading" /\ at[c] = "net"
    /\ open
    /\ ctx # "expired"
    /\ now + Ttl <= MaxTime
    /\ loop' = "holding"
    /\ Move(c, "held")
    /\ UNCHANGED <<vars, serveErr, open, ctx, wg, stopVars, sent>>

\* The secret lookup does not know the source address.
UnknownClient(c) ==
    /\ at[c] = "held"
    /\ loop' = "reading"
    /\ Move(c, "done")
    /\ UNCHANGED <<vars, serveErr, open, ctx, wg, stopVars, sent>>

\* wg.Add(1), then the go statement.
Dispatch(c) ==
    /\ at[c] = "held"
    /\ ~(wg = 0 /\ Asleep # {})
    /\ loop' = "reading"
    /\ wg' = wg + 1
    /\ Move(c, "queued")
    /\ UNCHANGED <<vars, serveErr, open, ctx, stopVars, sent>>

\* wg.Add(1) between the last Done's decrement and its release of the
\* helpers: "WaitGroup misuse: Add called concurrently with Wait".
DispatchPanics(c) ==
    /\ at[c] = "held"
    /\ wg = 0 /\ Asleep # {}
    /\ panicked' = TRUE
    /\ UNCHANGED <<vars, at, socketVars, wg, stop, helper, overdue, sent>>

\* ReadPacket fails and mapReadErr gives the context's error precedence.
ReadFails ==
    /\ loop = "reading"
    /\ ~open \/ ctx = "expired"
    /\ loop' = "exited"
    /\ serveErr' = IF ctx # "live" THEN "context" ELSE "closed"
    /\ UNCHANGED <<vars, at, open, ctx, wg, stopVars, sent>>

\* The context is canceled, or its deadline passes, perhaps afterwards.
CancelContext ==
    /\ \/ ctx = "live" /\ ctx' \in {"canceled", "expired"}
       \/ ctx = "canceled" /\ ctx' = "expired"
    /\ UNCHANGED <<vars, at, loop, serveErr, open, wg, stopVars,
                   sent>>

-----------------------------------------------------------------------------
(* handleOne                                                               *)

\* Slip: the early return precedes the defer of wg.Done.
MalformedLeaksSlip(c) ==
    /\ at[c] = "queued"
    /\ Move(c, "done")
    /\ UNCHANGED <<vars, socketVars, wg, stopVars, sent>>

Malformed(c) ==
    /\ at[c] = "queued"
    /\ Finish(c)
    /\ UNCHANGED <<vars, socketVars, stopVars, sent>>

\* Unmarshal succeeded: enter Seen, or go straight to the handler.
Accept(c) ==
    /\ at[c] = "queued"
    /\ IF Dedup
       THEN SeenReadsClock(c) /\ Move(c, "seen")
       ELSE UNCHANGED vars /\ Move(c, "handling")
    /\ UNCHANGED <<socketVars, wg, stopVars, sent>>

DetectDuplicate(c) ==
    /\ at[c] = "seen"
    /\ SeenLocked(c)
    /\ Move(c, IF call'[c].at = "first" THEN "handling" ELSE "duplicate")
    /\ UNCHANGED <<socketVars, wg, stopVars, sent>>

LookupCached(c) ==
    /\ at[c] = "duplicate"
    /\ Lookup(c)
    /\ UNCHANGED <<at, socketVars, wg, stopVars, sent>>

\* Slip: after resending what Lookup found, no return.
AnswerThenRunSlip(c) ==
    /\ at[c] = "duplicate"
    /\ call[c].at = "hit"
    /\ SendPacket(c, call[c].got)
    /\ Move(c, "replying")
    /\ UNCHANGED <<vars, socketVars, wg, stopVars>>

\* Lookup returned: resend what it found, if anything, and return.
AnswerDuplicate(c) ==
    /\ at[c] = "duplicate"
    /\ \/ call[c].at = "hit" /\ SendPacket(c, call[c].got)
       \/ call[c].at = "miss" /\ UNCHANGED sent
    /\ Finish(c)
    /\ UNCHANGED <<vars, socketVars, stopVars>>

\* The handler fails, returns no reply, or returns one that Marshal refuses.
HandlerSilent(c) ==
    /\ at[c] = "handling"
    /\ IF Dedup THEN Abandon(c) ELSE UNCHANGED vars
    /\ Finish(c)
    /\ UNCHANGED <<socketVars, stopVars, sent>>

HandlerReplies(c) ==
    /\ at[c] = "handling"
    /\ IF Dedup THEN Store(c) ELSE UNCHANGED vars
    /\ Move(c, "replying")
    /\ UNCHANGED <<socketVars, wg, stopVars, sent>>

SendReply(c) ==
    /\ at[c] = "replying"
    /\ SendPacket(c, c)
    /\ Finish(c)
    /\ UNCHANGED <<vars, socketVars, stopVars>>

-----------------------------------------------------------------------------
(* Close and Shutdown                                                      *)

Close ==
    /\ open
    /\ open' = FALSE
    /\ UNCHANGED <<vars, at, loop, serveErr, ctx, wg, stopVars,
                   sent>>

\* Slip: Shutdown waits before it closes the socket.
ShutdownClosesSlip(s) ==
    /\ stop[s] = "idle"
    /\ stop' = [stop EXCEPT ![s] = "waiting"]
    /\ helper' = [helper EXCEPT ![s] = "starting"]
    /\ UNCHANGED <<vars, at, socketVars, wg, overdue, panicked, sent>>

\* The socket is closed and the helper goroutine started.
ShutdownCloses(s) ==
    /\ stop[s] = "idle"
    /\ open' = FALSE
    /\ stop' = [stop EXCEPT ![s] = "waiting"]
    /\ helper' = [helper EXCEPT ![s] = "starting"]
    /\ UNCHANGED <<vars, at, loop, serveErr, ctx, wg, overdue, panicked, sent>>

\* The helper calls wg.Wait: it goes on at a counter of zero and sleeps at
\* any other.
WaitStarts(s) ==
    /\ helper[s] = "starting"
    /\ helper' = [helper EXCEPT ![s] = IF wg = 0 THEN "returned" ELSE "blocked"]
    /\ UNCHANGED <<vars, at, socketVars, wg, stop, overdue, panicked, sent>>

\* The Done that took the counter to zero releases the helpers that sleep.
DoneReleases ==
    /\ wg = 0 /\ Asleep # {}
    /\ helper' = [s \in Stoppers |-> IF s \in Asleep THEN "woken" ELSE helper[s]]
    /\ UNCHANGED <<vars, at, socketVars, wg, stop, overdue, panicked, sent>>

\* A released helper runs and finds the WaitGroup unused, or in use again:
\* "WaitGroup is reused before previous Wait has returned".
WaitWakes(s) ==
    /\ helper[s] = "woken"
    /\ IF wg = 0 /\ Asleep = {}
       THEN helper' = [helper EXCEPT ![s] = "returned"] /\ UNCHANGED panicked
       ELSE panicked' = TRUE /\ UNCHANGED helper
    /\ UNCHANGED <<vars, at, socketVars, wg, stop, overdue, sent>>

\* Shutdown's select takes either case when both are ready.  The helper
\* outlives a call that gave up.
ShutdownReturns(s) ==
    /\ stop[s] = "waiting"
    /\ \/ helper[s] = "returned" /\ stop' = [stop EXCEPT ![s] = "nil"]
       \/ s \in overdue /\ stop' = [stop EXCEPT ![s] = "gaveUp"]
    /\ UNCHANGED <<vars, at, socketVars, wg, helper, overdue, panicked, sent>>

ShutdownExpires(s) ==
    /\ s \notin overdue
    /\ overdue' = overdue \cup {s}
    /\ UNCHANGED <<vars, at, socketVars, wg, stop, helper, panicked, sent>>

\* Bound: near the clock's end it waits for the datagrams already read.
Clock ==
    /\ now + Ttl >= MaxTime => \A c \in Callers : at[c] \notin {"held", "queued"}
    /\ Tick
    /\ UNCHANGED <<at, socketVars, wg, stopVars, sent>>

ServeStep(c) == ReadPacket(c) \/ UnknownClient(c) \/ Dispatch(c) \/ DispatchPanics(c)

HandleOne(c) ==
    \/ Malformed(c)
    \/ Accept(c)
    \/ DetectDuplicate(c)
    \/ LookupCached(c)
    \/ AnswerDuplicate(c)
    \/ HandlerSilent(c)
    \/ HandlerReplies(c)
    \/ SendReply(c)

Shutdown(s) ==
    \/ ShutdownCloses(s) \/ ShutdownReturns(s) \/ ShutdownExpires(s)
    \/ WaitStarts(s) \/ WaitWakes(s)

\* The program goes on until the WaitGroup panics.
ServerNext ==
    /\ ~panicked
    /\ \/ \E c \in Callers : ServeStep(c) \/ HandleOne(c)
       \/ \E s \in Stoppers : Shutdown(s)
       \/ DoneReleases
       \/ ReadFails \/ CancelContext \/ Close \/ Clock

ServerSpec == ServerInit /\ [][ServerNext]_serverVars

\* What the program does as long as it runs.
Up(A) == ~panicked /\ A

\* Every goroutine that can run is run, handlers return, and time passes.
\* No datagram need arrive, and nothing cancels, closes or shuts down.  The
\* server never calls Cleanup and keeps its Deduplicator to itself.
ServerFairness ==
    /\ WF_serverVars(Up(ReadFails))
    /\ WF_serverVars(Up(Clock))
    /\ WF_serverVars(Up(DoneReleases))
    /\ \A c \in Callers :
          /\ WF_serverVars(Up(UnknownClient(c) \/ Dispatch(c) \/ DispatchPanics(c)))
          /\ WF_serverVars(Up(HandleOne(c)))
    /\ \A s \in Stoppers :
          WF_serverVars(Up(WaitStarts(s) \/ WaitWakes(s) \/ ShutdownReturns(s)))

-----------------------------------------------------------------------------
ServerTypeOK ==
    /\ TypeOK
    /\ at \in [Callers -> Places]
    /\ loop \in {"reading", "holding", "exited"}
    /\ serveErr \in {"none", "context", "closed"}
    /\ open \in BOOLEAN
    /\ ctx \in {"live", "canceled", "expired"}
    /\ wg \in Nat
    /\ stop \in [Stoppers -> {"idle", "waiting", "nil", "gaveUp"}]
    /\ helper \in [Stoppers -> {"none", "starting", "blocked", "woken", "returned"}]
    /\ overdue \subseteq Stoppers
    /\ panicked \in BOOLEAN
    /\ sent \in [Callers -> SUBSET (Callers \cup {Torn})]

\* The callers of a key that Seen told to run their handler.
RunsFor(k) == {d \in Callers : Allocated(d) /\ DedupKey(d) = k}

\* While only one caller of a key has run its handler, every reply that any
\* request of the key is sent is that run's: a duplicate is answered with
\* the very bytes of the first answer, or not at all.
DuplicatesGetTheSameReply ==
    Dedup =>
    \A c, d \in Callers : RunsFor(DedupKey(c)) = {d} => sent[c] \subseteq {d}

\* Once Shutdown has returned nil at most one request is still unfinished:
\* the one Serve had read before the socket was closed and not yet counted.
\* Nor does a panic of the WaitGroup end the program with more than that one
\* unanswered.
ShutdownLeavesAtMostOne ==
    (\E s \in Stoppers : stop[s] = "nil") \/ panicked
    => \A c, d \in Callers : Unfinished(c) /\ Unfinished(d) => c = d

NoSilentHandler == \A c \in Callers : call[c].at # "silent"

\* A duplicate in Lookup whose channel nobody has closed.
Blocked(c) == call[c].at = "waiting" /\ entry[call[c].ptr].done = "open"

\* Shutdown never waits for goroutines that wait for each other: while the
\* WaitGroup counts any, one of them can go on, unless a handler has ended
\* without publishing a reply and its duplicates wait for the eviction.
CountedRequestsGoOn ==
    NoSilentHandler /\ wg > 0
    => \E c \in Callers : at[c] \in Running /\ ~Blocked(c)

\* When every handler publishes a reply, every goroutine that Serve starts
\* finishes, unless the program dies: no duplicate waits forever on its first
\* request.
RequestsFinish ==
    []NoSilentHandler
    => \A c \in Callers : at[c] = "queued" ~> at[c] = "done" \/ panicked

\* Then Shutdown returns too, without its context's help, or the WaitGroup
\* panics under it.
ShutdownFinishes ==
    []NoSilentHandler
    => \A s \in Stoppers :
          stop[s] = "waiting" ~> stop[s] \in {"nil", "gaveUp"} \/ panicked

-----------------------------------------------------------------------------
\* server.go:287-288: a nil error of Shutdown says all handlers finished.
ShutdownNilMeansFinished ==
    (\E s \in Stoppers : stop[s] = "nil")
    => \A c \in Callers : at[c] \notin Running
=============================================================================
