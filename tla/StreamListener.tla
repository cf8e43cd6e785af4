--------------------------- MODULE StreamListener ---------------------------
(***************************************************************************)
(* Accept of the TLS and DTLS listeners (transport/tls.go, dtls.go): each  *)
(* call starts a goroutine that accepts a connection, for TLS completes    *)
(* the handshake under the call's context, and puts the outcome into a     *)
(* channel of one place; the call returns the outcome or, if its context   *)
(* is canceled first, the context's error.                                 *)
(*                                                                         *)
(* pion/dtls is external: dtls.go:67 says its handshake is part of         *)
(* ln.Accept, dtls.go:171 that it is left to the first Read or Write; here *)
(* it takes any time, none included, and no notice of the call's context.  *)
(* A peer may never finish a handshake.                                    *)
(***************************************************************************)
EXTENDS Naturals

CONSTANTS Acceptors,  \* the calls of Accept
          Peers,      \* the clients that connect
          Nobody      \* no call; no peer

ASSUME NobodyElse == Nobody \notin Acceptors \cup Peers
ASSUME OutcomesTellApart == {"error", "canceled"} \cap (Peers \cup {Nobody}) = {}

VARIABLES layer,      \* "tls" or "dtls"
          listening,  \* the listener is open
          canceled,   \* the calls whose context is canceled
          call,       \* call[a]: "idle", "blocked", "done"
          returned,   \* returned[a]: a peer's connection, "canceled", "error"
          worker,     \* worker[a]: the goroutine of call a
          taken,      \* taken[a]: the peer its ln.Accept returned
          channel,    \* channel[a]: the place in a's channel
          peer        \* peer[p]: "away", "queued", "taken", "up", "closed"

listenVars == <<layer, listening, canceled, call, returned, worker, taken,
                channel, peer>>

Outcomes == Peers \cup {"error"}

ListenTypeOK ==
    /\ layer \in {"tls", "dtls"} /\ listening \in BOOLEAN
    /\ canceled \subseteq Acceptors
    /\ call \in [Acceptors -> {"idle", "blocked", "done"}]
    /\ returned \in [Acceptors -> Outcomes \cup {"canceled", Nobody}]
    /\ worker \in [Acceptors -> {"none", "accepting", "handshake", "sending", "ended"}]
    /\ taken \in [Acceptors -> Peers \cup {Nobody}]
    /\ channel \in [Acceptors -> Outcomes \cup {Nobody}]
    /\ peer \in [Peers -> {"away", "queued", "taken", "up", "closed"}]

ListenInit ==
    /\ layer \in {"tls", "dtls"} /\ listening = TRUE /\ canceled = {}
    /\ call = [a \in Acceptors |-> "idle"]
    /\ returned = [a \in Acceptors |-> Nobody]
    /\ worker = [a \in Acceptors |-> "none"]
    /\ taken = [a \in Acceptors |-> Nobody]
    /\ channel = [a \in Acceptors |-> Nobody]
    /\ peer = [p \in Peers |-> "away"]

Accept(a) ==
    /\ call[a] = "idle"
    /\ call' = [call EXCEPT ![a] = "blocked"]
    /\ worker' = [worker EXCEPT ![a] = "accepting"]
    /\ UNCHANGED <<layer, listening, canceled, returned, taken, channel, peer>>

\* ln.Accept in the goroutine: a waiting peer, or an error once it is closed.
TakePeer(a) ==
    /\ worker[a] = "accepting" /\ listening
    /\ \E p \in Peers :
         /\ peer[p] = "queued"
         /\ peer' = [peer EXCEPT ![p] = "taken"]
         /\ taken' = [taken EXCEPT ![a] = p]
    /\ worker' = [worker EXCEPT ![a] = "handshake"]
    /\ UNCHANGED <<layer, listening, canceled, call, returned, channel>>

\* The goroutine's send: there is a place in the channel, so it never waits for
\* the call to receive.
CanSendSlip(a) == channel[a] = Nobody /\ call[a] = "blocked"

CanSend(a) == channel[a] = Nobody

Send(a, outcome) ==
    /\ CanSend(a)
    /\ channel' = [channel EXCEPT ![a] = outcome]
    /\ worker' = [worker EXCEPT ![a] = "ended"]

ListenerClosed(a) ==
    /\ worker[a] = "accepting" /\ ~listening
    /\ Send(a, "error")
    /\ UNCHANGED <<layer, listening, canceled, call, returned, taken, peer>>

HandshakeDone(a) ==
    /\ worker[a] = "handshake"
    /\ Send(a, taken[a])
    /\ peer' = [peer EXCEPT ![taken[a]] = "up"]
    /\ UNCHANGED <<layer, listening, canceled, call, returned, taken>>

\* Whether the handshake gives up when the call is canceled: HandshakeContext.
UnderContext(a) == layer = "tls" /\ a \in canceled

\* A handshake that fails, or is given up, closes the connection.
HandshakeFailsSlip(a) ==
    /\ worker[a] = "handshake"
    /\ Send(a, "error")
    /\ UNCHANGED <<layer, listening, canceled, call, returned, taken, peer>>

HandshakeFails(a) ==
    /\ worker[a] = "handshake"
    /\ Send(a, "error")
    /\ peer' = [peer EXCEPT ![taken[a]] = "closed"]
    /\ UNCHANGED <<layer, listening, canceled, call, returned, taken>>

Abandon(a) == UnderContext(a) /\ HandshakeFails(a)

\* The select of the call: a canceled context, an outcome, either if both.
ReturnCanceled(a) ==
    /\ call[a] = "blocked" /\ a \in canceled
    /\ call' = [call EXCEPT ![a] = "done"]
    /\ returned' = [returned EXCEPT ![a] = "canceled"]
    /\ UNCHANGED <<layer, listening, canceled, worker, taken, channel, peer>>

ReturnOutcome(a) ==
    /\ call[a] = "blocked" /\ channel[a] # Nobody
    /\ call' = [call EXCEPT ![a] = "done"]
    /\ returned' = [returned EXCEPT ![a] = channel[a]]
    /\ channel' = [channel EXCEPT ![a] = Nobody]
    /\ UNCHANGED <<layer, listening, canceled, worker, taken, peer>>

Cancel(a) ==
    /\ call[a] # "idle" /\ a \notin canceled
    /\ canceled' = canceled \cup {a}
    /\ UNCHANGED <<layer, listening, call, returned, worker, taken, channel, peer>>

CloseListener ==
    /\ listening /\ listening' = FALSE
    /\ UNCHANGED <<layer, canceled, call, returned, worker, taken, channel, peer>>

Connect(p) ==
    /\ peer[p] = "away" /\ listening
    /\ peer' = [peer EXCEPT ![p] = "queued"]
    /\ UNCHANGED <<layer, listening, canceled, call, returned, worker, taken, channel>>

AcceptStep(a) == \/ TakePeer(a) \/ ListenerClosed(a) \/ Abandon(a)
                 \/ ReturnCanceled(a) \/ ReturnOutcome(a)

ListenNext ==
    \/ \E a \in Acceptors : \/ Accept(a) \/ AcceptStep(a) \/ Cancel(a)
                            \/ HandshakeDone(a) \/ HandshakeFails(a)
    \/ \E p \in Peers : Connect(p)
    \/ CloseListener

\* Goroutines run; a peer need not finish, or fail, its handshake.
ListenFairness == \A a \in Acceptors : WF_listenVars(AcceptStep(a))

ListenSpec == ListenInit /\ [][ListenNext]_listenVars /\ ListenFairness

-----------------------------------------------------------------------------
(* Properties                                                              *)

Owned(p) == \E a \in Acceptors :
              \/ returned[a] = p
              \/ call[a] = "blocked" /\ channel[a] = p

\* An open connection no goroutine is busy with belongs to one call; to none
\* only if the call that accepted it was canceled, and then nobody will ever
\* close it (tls.go:82).  A connection handed to a caller is not a closed one.
StrandedOnlyByCancel ==
    \A p \in Peers :
      /\ \A a \in Acceptors :
           taken[a] = p /\ worker[a] = "ended" /\ peer[p] # "closed" /\ ~Owned(p)
             => returned[a] = "canceled"
      /\ peer[p] = "closed" => ~Owned(p)
      /\ \A a, b \in Acceptors : returned[a] = p /\ returned[b] = p => a = b

\* After Close and a cancellation the call returns and its goroutine ends, the
\* call gone or not (tls.go:63), unless a DTLS peer does not finish its handshake.
AcceptsEnd ==
    \A a \in Acceptors :
      (a \in canceled /\ ~listening)
        ~> /\ call[a] = "done"
           /\ worker[a] = "ended" \/ (layer = "dtls" /\ worker[a] = "handshake")
=============================================================================
