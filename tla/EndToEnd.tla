------------------------------ MODULE EndToEnd ------------------------------
(***************************************************************************)
(* The calls of one Client, the network, and a UDP server with its         *)
(* Deduplicator.  The server is module UDPServer and the client is module  *)
(* ProtocolClient, every step of either being the one of its module; here  *)
(* the answers that the client's module allows any server to give are      *)
(* those that this server gives, and the datagrams that the server's       *)
(* module lets come at any time are those that the client transmits.       *)
(*                                                                         *)
(* A caller of the Deduplicator is a datagram: one transmission of a call, *)
(* under the Identifier that the call may come to hold.  All carry the     *)
(* address of the client's socket.                                         *)
(*                                                                         *)
(* External: the network loses and delays datagrams of both directions.    *)
(***************************************************************************)
EXTENDS UDPServer, Sequences

CONSTANTS
    Users, Ids, Seed, Attempts, Timed, Auths,   \* as in module ProtocolClient
    NoOne,      \* no Identifier, and no call
    CallOf,     \* the call that transmits a datagram
    AttemptOf   \* which of its transmissions the datagram is

ASSUME DatagramsAreTransmissions ==
    /\ CallOf \in [Callers -> Users]
    /\ IdOf \in [Callers -> Ids]
    /\ AttemptOf \in [Callers -> 0..(Attempts - 1)]
    /\ \A c \in Users, n \in 0..(Attempts - 1), i \in Ids :
          \E d \in Callers : CallOf[d] = c /\ AttemptOf[d] = n /\ IdOf[d] = i

ASSUME OneAddress == \A d, e \in Callers : AddrOf[d] = AddrOf[e]

VARIABLES
    tokens, user, xchg, clientCtx, due, sock, clientOpen, inFlight, inbox,
                \* as in module ProtocolClient
    net,        \* where each datagram is
    settled     \* the replies to it that have arrived or are lost

callVars == <<tokens, user, xchg, clientCtx, due, sock, clientOpen>>
clientVars == <<callVars, inFlight, inbox>>
netVars == <<net, settled>>
endVars == <<serverVars, clientVars, netVars>>

Client == INSTANCE ProtocolClient WITH None <- NoOne, ctx <- clientCtx, open <- clientOpen

ASSUME ClientAssumptions ==
    /\ Client!SeedHoldsEveryId /\ Client!NoneIsNoIdOrUser
    /\ Client!AttemptsAssumption /\ Client!TimedAssumption

EndInit ==
    /\ ServerInit
    /\ Client!ClientInit
    /\ net = [d \in Callers |-> "unsent"]
    /\ settled = [d \in Callers |-> {}]

-----------------------------------------------------------------------------
(* The client's steps                                                      *)

\* A call transmits: a datagram sets out.
Transmit(c) ==
    /\ Client!Send(c)
    /\ \E d \in Callers :
          /\ CallOf[d] = c /\ AttemptOf[d] = xchg[c].attempt /\ IdOf[d] = xchg[c].id
          /\ net' = [net EXCEPT ![d] = "toServer"]
    /\ UNCHANGED <<serverVars, settled>>

\* Every other step of a call, and what happens to its context and socket.
Local(c) ==
    \/ Client!Begin(c) \/ Client!BeginCanceled(c) \/ Client!EncodeFails(c)
    \/ Client!SendExpired(c) \/ Client!StartReading(c) \/ Client!ReadReply(c)
    \/ Client!ReadTimesOut(c) \/ Client!SocketClosed(c) \/ Client!BackoffEnds(c)
    \/ Client!AttemptDeadline(c) \/ Client!ContextDeadline(c)
    \/ Client!CancelContext(c) \/ Client!Refused(c)

ClientStep ==
    \/ \E c \in Users : Transmit(c)
    \/ /\ (\E c \in Users : Local(c)) \/ Client!LeftoverDeadlinePasses \/ Client!Close
       /\ UNCHANGED <<serverVars, netVars>>

-----------------------------------------------------------------------------
(* The server's steps                                                      *)

Receive(d) ==
    /\ net[d] = "toServer"
    /\ ReadPacket(d)
    /\ net' = [net EXCEPT ![d] = "server"]

\* What the server does when it takes no datagram in.
ServeOn ==
    \/ \E d \in Callers :
          UnknownClient(d) \/ Dispatch(d) \/ DispatchPanics(d) \/ HandleOne(d)
    \/ \E s \in Stoppers : Shutdown(s)
    \/ DoneReleases
    \/ ReadFails \/ CancelContext \/ Close \/ Clock

\* A panic of the WaitGroup ends the server's program, and nothing else.
ServerStep ==
    /\ ~panicked
    /\ (\E d \in Callers : Receive(d)) \/ (ServeOn /\ UNCHANGED net)
    /\ UNCHANGED <<clientVars, settled>>

-----------------------------------------------------------------------------
(* The network                                                             *)

\* What the client finds in reply r to datagram d: the reply to a call's own
\* request, or one that answers none, under the Identifier of its key.
Reply(d, r) ==
    IF r \in Callers THEN [of |-> CallOf[r], id |-> IdOf[r]]
                     ELSE [of |-> NoOne, id |-> IdOf[d]]

\* One answer less to come for the datagram's call.
Settle(d) ==
    /\ inFlight' = [inFlight EXCEPT ![CallOf[d]] = @ - 1]
    /\ UNCHANGED <<serverVars, callVars>>

\* A reply that the server has sent arrives or is lost.
ReplyGoes(d) ==
    /\ \E r \in sent[d] \ settled[d] :
          /\ settled' = [settled EXCEPT ![d] = @ \cup {r}]
          /\ inbox' = Append(inbox, Reply(d, r)) \/ UNCHANGED inbox
    /\ Settle(d)
    /\ UNCHANGED net

\* The request is lost, or the server is done with it and has sent nothing.
RequestGoes(d) ==
    /\ net[d] = "toServer" \/ (net[d] = "server" /\ at[d] = "done" /\ sent[d] = {})
    /\ net' = [net EXCEPT ![d] = "gone"]
    /\ Settle(d)
    /\ UNCHANGED <<inbox, settled>>

NetworkStep == \E d \in Callers : ReplyGoes(d) \/ RequestGoes(d)

EndNext == ClientStep \/ ServerStep \/ NetworkStep

EndSpec == EndInit /\ [][EndNext]_endVars

-----------------------------------------------------------------------------
EndTypeOK ==
    /\ ServerTypeOK
    /\ Client!ClientTypeOK
    /\ net \in [Callers -> {"unsent", "toServer", "server", "gone"}]
    /\ settled \in [Callers -> SUBSET (Callers \cup {Torn})]

\* The client's module lets a server do whatever this one does: each datagram
\* is answered once at most, and under the Identifier that it came with,
\* although the answer may be to another call that held the Identifier.
ImplementsClient == Client!ClientSpec

\* A reply that a call is given comes from a run of the handler on a request
\* with its Identifier and its Request Authenticator: on one of its own
\* datagrams, or on one of a call before it, whose answer the server or the
\* network has kept.  And for no two datagrams of a call was the handler run in
\* one window of the Deduplicator, however often the call transmitted and
\* whatever the network lost.
AcceptedMeansServedOncePerWindow ==
    Dedup =>
    \A c \in Users : xchg[c].got # NoOne =>
        /\ \E d \in Callers :
              /\ CallOf[d] = xchg[c].got /\ IdOf[d] = xchg[c].id
              /\ call[d].at = "stored"
        /\ xchg[xchg[c].got].auth = xchg[c].auth
        /\ \A d, e \in Callers :
              d # e /\ CallOf[d] = c /\ CallOf[e] = c /\ Allocated(d) /\ Allocated(e)
              => \/ entry[d].born >= entry[e].expires
                 \/ entry[e].born >= entry[d].expires

\* Two handlers of one Identifier published their replies, one too late.
SlowHandler(i) ==
    \E d, e \in Callers :
        /\ d # e /\ IdOf[d] = i /\ IdOf[e] = i
        /\ call[d].at = "stored" /\ call[e].at = "stored"
        /\ now >= entry[d].expires

\* A reply that does not verify is another call's, kept by the server or by the
\* network, or damaged, because a handler has outlived its window: a call whose
\* Identifier no other request had is never refused its reply, however often
\* it is transmitted, unless its handler is slow.
RejectionsHaveAReason ==
    \A c \in Users :
        /\ xchg[c].result = "mismatch"
           => \E b \in Users : xchg[b].id \notin {NoOne, xchg[c].id}
        /\ xchg[c].result = "badAuthenticator"
           => \/ \E b \in Users : xchg[b].id = xchg[c].id /\ xchg[b].auth # xchg[c].auth
              \/ Dedup /\ SlowHandler(xchg[c].id)
=============================================================================
