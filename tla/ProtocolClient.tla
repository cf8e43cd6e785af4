--------------------------- MODULE ProtocolClient ---------------------------
(***************************************************************************)
(* The client of protocol/client.go over the UDP socket of                 *)
(* transport/udp.go.  Users of the identifier pool are the calls           *)
(* (Authenticate, Account, SendCoA, SendDisconnect) in progress on one     *)
(* Client; they share its socket, and with it one read deadline and one    *)
(* receive queue.  Exchange hands whatever datagram it reads to its call.  *)
(* The policy's delays are positive: an attempt before the last has a      *)
(* deadline of its own.                                                    *)
(*                                                                         *)
(* A Request Authenticator tells requests apart no further than their      *)
(* contents do.  It is a digest of a request's code, Identifier and        *)
(* attributes, or, in an Access-Request, random octets or those that the   *)
(* caller supplies, who may supply them again.  So calls may have one in   *)
(* common, and a reply to one of them verifies in the others.              *)
(*                                                                         *)
(* External: net.UDPConn lets one goroutine read at a time, and the others *)
(* wait their turn whatever the socket's deadline; the network and the     *)
(* server lose a request copy or answer it, at any time and in any order.  *)
(* A server that keeps replies by Identifier may answer with the one to    *)
(* another request, or with a damaged one.                                 *)
(***************************************************************************)
EXTENDS IdentifierPool

CONSTANTS
    Attempts,   \* RetransmitPolicy.Attempts()
    Timed,      \* the calls whose context has a deadline
    Auths       \* what a Request Authenticator depends on but for the Identifier

ASSUME AttemptsAssumption == Attempts \in Nat \ {0}

ASSUME TimedAssumption == Timed \subseteq Users

VARIABLES
    xchg,       \* each call's progress and local variables
    ctx,        \* each call's context
    due,        \* the calls whose current Exchange is past its deadline
    sock,       \* the socket's read deadline: who set it and has it passed
    open,       \* is the socket open?
    inFlight,   \* request copies of each call not yet answered or lost
    inbox       \* the replies the socket holds: [of, id], of None if damaged

netVars == <<inFlight, inbox>>
clientVars == <<poolVars, xchg, ctx, due, sock, open, netVars>>

ClientInit ==
    /\ PoolInit
    /\ xchg = [c \in Users |-> [at |-> "new", attempt |-> 0, id |-> None,
                                auth |-> None, result |-> "none", got |-> None]]
    /\ ctx = [c \in Users |-> "live"]
    /\ due = {}
    /\ sock = [by |-> None, passed |-> FALSE]
    /\ open = TRUE
    /\ inFlight = [c \in Users |-> 0]
    /\ inbox = <<>>

At(c, place) == xchg[c].at = place

\* The request is sent: Exchange waits for its turn to read, or reads.
InExchange(c) == xchg[c].at \in {"queueing", "reading"}

LastAttempt(c) == xchg[c].attempt = Attempts - 1

\* Slip: only the caller's own deadline is applied.
HasDeadlineSlip(c) == LastAttempt(c) /\ c \in Timed

\* Every attempt but the last runs under a context of its own deadline.
HasDeadline(c) == ~LastAttempt(c) \/ c \in Timed

\* The call returns; its deferred Release gives the Identifier back, and its
\* loop counter is dead.
Return(c, result, from) ==
    /\ xchg' = [xchg EXCEPT ![c].at = "returned", ![c].attempt = 0,
                            ![c].result = result, ![c].got = from]
    /\ Release(c)

\* The for loop goes on to the next attempt or ends with lastErr, the error
\* of its last attempt.
NextAttempt(c, err) ==
    IF LastAttempt(c)
    THEN Return(c, err, None)
    ELSE /\ xchg' = [xchg EXCEPT ![c].at = "backoff", ![c].attempt = @ + 1]
         /\ UNCHANGED poolVars

\* Exchange failed: a context that has ended takes precedence.
ExchangeFails(c, err) ==
    IF ctx[c] # "live" THEN Return(c, "context", None) ELSE NextAttempt(c, err)

-----------------------------------------------------------------------------
\* Slip: Release is called at once, and not only deferred.
BeginReleasesSlip(c) ==
    /\ user[c].at = "new" /\ tokens # <<>>
    /\ user' = [user EXCEPT ![c] = [at |-> "holding", id |-> Head(tokens)]]
    /\ tokens' = Append(Tail(tokens), Head(tokens))
    /\ \E auth \in Auths :
          xchg' = [xchg EXCEPT ![c].at = "sending", ![c].id = Head(tokens),
                               ![c].auth = auth]
    /\ UNCHANGED <<ctx, due, sock, open, netVars>>

\* The Request Authenticator is one for all the attempts of a call.
Begin(c) ==
    /\ Acquire(c)
    /\ \E auth \in Auths :
          xchg' = [xchg EXCEPT ![c].at = "sending", ![c].id = Head(tokens),
                               ![c].auth = auth]
    /\ UNCHANGED <<ctx, due, sock, open, netVars>>

\* Acquire's select found the context at its end.
BeginCanceled(c) ==
    /\ ctx[c] # "live"
    /\ AcquireCanceled(c)
    /\ xchg' = [xchg EXCEPT ![c].at = "returned", ![c].result = "exhausted"]
    /\ UNCHANGED <<ctx, due, sock, open, netVars>>

\* Slip: the early return precedes the deferred Release.
EncodeFailsSlip(c) ==
    /\ At(c, "sending") /\ xchg[c].attempt = 0
    /\ xchg' = [xchg EXCEPT ![c].at = "returned", ![c].result = "encode"]
    /\ UNCHANGED <<poolVars, ctx, due, sock, open, netVars>>

\* No random authenticator, or Marshal fails, before the first attempt.
EncodeFails(c) ==
    /\ At(c, "sending") /\ xchg[c].attempt = 0
    /\ Return(c, "encode", None)
    /\ UNCHANGED <<ctx, due, sock, open, netVars>>

\* Exchange sets the socket's deadlines from its context, or clears them,
\* and writes the request.
Send(c) ==
    /\ At(c, "sending")
    /\ open
    /\ ctx[c] # "deadline"
    /\ sock' = [by |-> IF HasDeadline(c) THEN c ELSE None, passed |-> FALSE]
    /\ due' = due \ {c}
    /\ inFlight' = [inFlight EXCEPT ![c] = @ + 1]
    /\ xchg' = [xchg EXCEPT ![c].at = "queueing"]
    /\ UNCHANGED <<poolVars, ctx, open, inbox>>

\* The deadline it sets is in the past, so the write fails.
SendExpired(c) ==
    /\ At(c, "sending")
    /\ open
    /\ ctx[c] = "deadline"
    /\ sock' = [by |-> c, passed |-> TRUE]
    /\ ExchangeFails(c, "timeout")
    /\ UNCHANGED <<ctx, due, open, netVars>>

StartReading(c) ==
    /\ At(c, "queueing")
    /\ open
    /\ \A d \in Users : ~At(d, "reading")
    /\ xchg' = [xchg EXCEPT ![c].at = "reading"]
    /\ UNCHANGED <<poolVars, ctx, due, sock, open, netVars>>

\* Slip: the Identifier alone decides.
ReadReplySlip(c) ==
    /\ At(c, "reading")
    /\ open /\ ~sock.passed
    /\ inbox # <<>>
    /\ IF Head(inbox).id # xchg[c].id
       THEN NextAttempt(c, "mismatch")
       ELSE Return(c, "reply", Head(inbox).of)
    /\ inbox' = Tail(inbox)
    /\ UNCHANGED <<ctx, due, sock, open, inFlight>>

\* Slip: the digest that Marshal made the Request Authenticator is not read
\* back from the packet.
ReadReplyUnreadSlip(c) ==
    /\ At(c, "reading")
    /\ open /\ ~sock.passed
    /\ inbox # <<>>
    /\ NextAttempt(c, IF Head(inbox).id # xchg[c].id THEN "mismatch"
                                                     ELSE "badAuthenticator")
    /\ inbox' = Tail(inbox)
    /\ UNCHANGED <<ctx, due, sock, open, inFlight>>

\* The Response Authenticator is that of a reply to a request with c's
\* Identifier and Request Authenticator.
Verifies(reply, c) ==
    reply.of \in Users /\ xchg[reply.of].auth = xchg[c].auth

\* VerifyResponse: the Identifier, then the Response Authenticator; then the
\* reply's code.
ReadReply(c) ==
    /\ At(c, "reading")
    /\ open /\ ~sock.passed
    /\ inbox # <<>>
    /\ LET reply == Head(inbox)
       IN  IF reply.id # xchg[c].id
           THEN NextAttempt(c, "mismatch")
           ELSE IF ~Verifies(reply, c)
           THEN NextAttempt(c, "badAuthenticator")
           ELSE \E result \in {"reply", "unexpectedCode"} :
                    Return(c, result, reply.of)
    /\ inbox' = Tail(inbox)
    /\ UNCHANGED <<ctx, due, sock, open, inFlight>>

\* The socket's deadline has passed, whoever set it.
ReadTimesOut(c) ==
    /\ At(c, "reading")
    /\ open /\ sock.passed
    /\ ExchangeFails(c, "timeout")
    /\ UNCHANGED <<ctx, due, sock, open, netVars>>

SocketClosed(c) ==
    /\ At(c, "sending") \/ InExchange(c)
    /\ ~open
    /\ ExchangeFails(c, "closed")
    /\ UNCHANGED <<ctx, due, sock, open, netVars>>

\* The select between attempts.
BackoffEnds(c) ==
    /\ At(c, "backoff")
    /\ \/ xchg' = [xchg EXCEPT ![c].at = "sending"] /\ UNCHANGED poolVars
       \/ ctx[c] # "live" /\ Return(c, "context", None)
    /\ UNCHANGED <<ctx, due, sock, open, netVars>>

-----------------------------------------------------------------------------
(* Time, contexts and the environment                                      *)

\* The deadline of c's Exchange passes; the socket notices if it is the one
\* that the socket was last given.
DeadlinePasses(c) ==
    /\ due' = due \cup {c}
    /\ sock' = IF sock.by = c THEN [sock EXCEPT !.passed = TRUE] ELSE sock

\* The last attempt's deadline is the context's own, canceled or not.
AttemptDeadline(c) ==
    /\ InExchange(c)
    /\ ~LastAttempt(c) \/ (c \in Timed /\ ctx[c] = "canceled")
    /\ c \notin due
    /\ DeadlinePasses(c)
    /\ UNCHANGED <<poolVars, xchg, ctx, open, netVars>>

ContextDeadline(c) ==
    /\ c \in Timed
    /\ ctx[c] = "live"
    /\ ~At(c, "returned")
    /\ ctx' = [ctx EXCEPT ![c] = "deadline"]
    /\ IF InExchange(c) THEN DeadlinePasses(c) ELSE UNCHANGED <<due, sock>>
    /\ UNCHANGED <<poolVars, xchg, open, netVars>>

\* Cancellation wakes nobody who reads from the socket.
CancelContext(c) ==
    /\ ctx[c] = "live"
    /\ ~At(c, "returned")
    /\ ctx' = [ctx EXCEPT ![c] = "canceled"]
    /\ UNCHANGED <<poolVars, xchg, due, sock, open, netVars>>

\* A deadline outlives on the socket the Exchange that set it.
LeftoverDeadlinePasses ==
    /\ sock.by # None /\ ~sock.passed
    /\ ~InExchange(sock.by)
    /\ sock' = [sock EXCEPT !.passed = TRUE]
    /\ UNCHANGED <<poolVars, xchg, ctx, due, open, netVars>>

\* An ICMP error that an earlier datagram drew fails the write or the read.
Refused(c) ==
    /\ open
    /\ \/ /\ At(c, "sending") /\ ctx[c] # "deadline"
          /\ sock' = [by |-> IF HasDeadline(c) THEN c ELSE None, passed |-> FALSE]
       \/ At(c, "reading") /\ UNCHANGED sock
    /\ ExchangeFails(c, "refused")
    /\ UNCHANGED <<ctx, due, open, netVars>>

Close ==
    /\ open
    /\ open' = FALSE
    /\ UNCHANGED <<poolVars, xchg, ctx, due, sock, netVars>>

\* A copy of c's request draws a reply.
Answered(c, reply) ==
    /\ inFlight[c] > 0
    /\ inFlight' = [inFlight EXCEPT ![c] = @ - 1]
    /\ inbox' = Append(inbox, reply)
    /\ UNCHANGED <<poolVars, xchg, ctx, due, sock, open>>

\* The replies a server may have for a request with c's Identifier.
RepliesFor(c) ==
    {[of |-> d, id |-> xchg[c].id] :
        d \in {d \in Users : xchg[d].id = xchg[c].id} \cup {None}}

ServerAnswers(c) == \E reply \in RepliesFor(c) : Answered(c, reply)

Lose(c) ==
    /\ inFlight[c] > 0
    /\ inFlight' = [inFlight EXCEPT ![c] = @ - 1]
    /\ UNCHANGED <<poolVars, xchg, ctx, due, sock, open, inbox>>

Work(c) ==
    \/ Begin(c) \/ BeginCanceled(c) \/ EncodeFails(c)
    \/ Send(c) \/ SendExpired(c)
    \/ StartReading(c) \/ ReadReply(c) \/ ReadTimesOut(c) \/ SocketClosed(c)
    \/ BackoffEnds(c)

Environment(c) ==
    \/ AttemptDeadline(c) \/ ContextDeadline(c) \/ CancelContext(c)
    \/ ServerAnswers(c) \/ Lose(c) \/ Refused(c)

ClientNext ==
    \/ \E c \in Users : Work(c) \/ Environment(c)
    \/ LeftoverDeadlinePasses \/ Close

ClientSpec == ClientInit /\ [][ClientNext]_clientVars

\* Calls that can go on do, and deadlines pass.  Nothing makes the server
\* answer, a context end early or the socket close.
ClientFairness ==
    /\ \A c \in Users :
          /\ WF_clientVars(Work(c))
          /\ WF_clientVars(AttemptDeadline(c))
          /\ WF_clientVars(ContextDeadline(c))
    /\ WF_clientVars(LeftoverDeadlinePasses)

FairClientSpec == ClientSpec /\ ClientFairness

-----------------------------------------------------------------------------
Results == {"none", "exhausted", "encode", "timeout", "closed", "refused",
            "mismatch", "badAuthenticator", "context", "reply", "unexpectedCode"}

ClientTypeOK ==
    /\ PoolTypeOK
    /\ xchg \in [Users -> [at : {"new", "sending", "queueing", "reading", "backoff",
                                  "returned"},
                           attempt : 0..(Attempts - 1), id : Ids \cup {None},
                           auth : Auths \cup {None}, result : Results,
                           got : Users \cup {None}]]
    /\ ctx \in [Users -> {"live", "canceled", "deadline"}]
    /\ due \subseteq Users
    /\ sock \in [by : Users \cup {None}, passed : BOOLEAN]
    /\ open \in BOOLEAN
    /\ inFlight \in [Users -> Nat]
    /\ inbox \in Seq([of : Users \cup {None}, id : Ids])

\* A call that returns a reply returns that to its own request or, where the
\* two have one Request Authenticator, a late answer to a call that was over
\* before it was given the same Identifier: calls that are under way on the
\* socket never take each other's replies, however the Identifiers go round.
RepliesStayApart ==
    \A c \in Users :
        LET b == xchg[c].got IN
        b \notin {None, c} => /\ At(b, "returned")
                             /\ xchg[b].id = xchg[c].id /\ xchg[b].auth = xchg[c].auth

\* A call transmits only while it holds the Identifier it transmits with,
\* and has given it back whenever it has returned.
CallsOwnTheirIdentifier ==
    \A c \in Users :
        /\ xchg[c].at \in {"sending", "queueing", "reading", "backoff"}
           <=> Holds(c)
        /\ Holds(c) => user[c].id = xchg[c].id

\* The time of the Exchange that gave the socket its deadline is not up and
\* will be, or the Exchange is over and the deadline is left on the socket.
StillToPass(d) ==
    \/ ~InExchange(d)
    \/ /\ d \notin due
       /\ ~LastAttempt(d) \/ (d \in Timed /\ ctx[d] # "deadline")

\* A call that reads, or waits for its turn to, is never left with nothing to
\* end its wait: however the calls overwrite the one deadline of the socket,
\* it has passed or is still to pass, unless a call without a deadline of
\* its own has removed it.
ReadsCanEnd ==
    (\E c \in Users : InExchange(c))
    => \/ sock.passed
       \/ sock.by # None /\ StillToPass(sock.by)
       \/ sock.by = None /\ \E d \in Users \ Timed : ~At(d, "new")

\* However its exchange ends, a call that has returned keeps no Identifier:
\* each one is in the channel or with a call under way that transmits with it.
IdsComeBack ==
    \A i \in Ids :
        \/ InPool(i)
        \/ \E c \in Users : xchg[c].id = i /\ ~At(c, "returned")

\* When every context has a deadline every call returns, whatever the
\* network does and whoever set the socket's deadline last.
CallsReturn ==
    \A c \in Users : At(c, "sending") ~> At(c, "returned")

-----------------------------------------------------------------------------
\* transport/udp.go:168: the context deadline bounds the read.
DeadlineBoundsRead ==
    \A c \in Users : c \in due /\ InExchange(c) ~> ~InExchange(c)
=============================================================================
