----------------------------- MODULE StreamConn -----------------------------
(***************************************************************************)
(* Exchanges over one persistent connection: TCPClient, TLSClient and      *)
(* DTLSClient (transport/tcp.go, tls.go, dtls.go) on the framing of        *)
(* transport/framed.go.  Callers of Exchange share the connection behind   *)
(* one mutex; a call writes its request, then reads one packet, whichever  *)
(* request that packet answers.                                            *)
(*                                                                         *)
(* A packet is PacketUnits units of the stream, the first HeaderUnits of   *)
(* which are the header; over DTLS it is one record.  The peer is          *)
(* external: it answers or ignores a request, may be late, stop reading    *)
(* (writes then block), and close.  It frames what it reads by the lengths *)
(* in it, so behind half a request it takes the first octets of the next   *)
(* one for the rest, and may answer what it has read so: Packet(None).     *)
(* An Exchange is called once per caller.                                  *)
(***************************************************************************)
EXTENDS Naturals, Sequences

CONSTANTS Callers,   \* the calls of Exchange
          Timed,     \* those whose context has a deadline
          None       \* no caller

ASSUME TimedAreCallers == Timed \subseteq Callers
ASSUME NoneIsNoCaller == None \notin Callers

HeaderUnits == 2
PacketUnits == 4

VARIABLES kind,      \* "tcp", "tls" or "dtls"
          at,        \* where each call is
          result,    \* what it returned
          expired,   \* the calls whose deadline has passed
          writeBy,   \* whose deadline the connection applies to writes
          readBy,    \* whose deadline it applies to reads
          inbox,     \* the requests the peer has yet to handle; None is one
                     \* that it reads across the end of half a request
          torn,      \* what is written next the peer takes for the rest of one
          stream,    \* what the peer has sent and nobody has read
          got,       \* what the current ReadPacket has read
          need,      \* how much it wants
          stalled,   \* the peer does not read: a write blocks
          ended      \* "no", "peer" or "self": who closed the connection

netVars  == <<inbox, torn, stalled, ended>>
readVars == <<stream, got, need>>
connVars == <<kind, at, result, expired, writeBy, readBy, netVars, readVars>>

Unit(c, i) == [of |-> c, part |-> i]
Packet(c)  == [i \in 1..PacketUnits |-> Unit(c, i)]
Record(c, size) == [of |-> c, part |-> size]   \* a DTLS record
Fits       == 0                                \* of at most 4095 octets
Oversize   == PacketUnits + 1                  \* of 4096 octets

Held      == {"write", "read"}
Answers   == Callers \cup {"garbage"}
Failures  == {"deadline", "timeout", "closed", "malformed", "buffer too small"}

ASSUME ResultsTellApart ==
    (Callers \cup {None}) \cap ({"garbage"} \cup Failures) = {}

ConnTypeOK ==
    /\ kind \in {"tcp", "tls", "dtls"}
    /\ at \in [Callers -> {"idle", "waiting", "done"} \cup Held]
    /\ result \in [Callers -> {None} \cup Answers \cup Failures]
    /\ expired \subseteq Timed
    /\ {writeBy, readBy} \subseteq Timed \cup {None}
    /\ inbox \in Seq(Callers \cup {None})
    /\ torn \in BOOLEAN /\ stalled \in BOOLEAN
    /\ stream \in Seq([of : Callers \cup {None}, part : Fits..Oversize])
    /\ got \in Seq([of : Callers \cup {None}, part : 1..PacketUnits])
    /\ need \in 0..PacketUnits
    /\ ended \in {"no", "peer", "self"}

ConnInit ==
    /\ kind \in {"tcp", "tls", "dtls"}
    /\ at = [c \in Callers |-> "idle"]
    /\ result = [c \in Callers |-> None]
    /\ expired = {} /\ writeBy = None /\ readBy = None
    /\ inbox = <<>> /\ torn = FALSE /\ stalled = FALSE /\ ended = "no"
    /\ stream = <<>> /\ got = <<>> /\ need = 0

-----------------------------------------------------------------------------
(* The calls                                                               *)

Return(c, r) ==
    /\ at' = [at EXCEPT ![c] = "done"]
    /\ result' = [result EXCEPT ![c] = r]

\* The call starts; the mutex takes no notice of its context.
Exchange(c) ==
    /\ at[c] = "idle"
    /\ at' = [at EXCEPT ![c] = "waiting"]
    /\ UNCHANGED <<kind, result, expired, writeBy, readBy, netVars, readVars>>

MutexFreeSlip == TRUE

MutexFree == \A c \in Callers : at[c] \notin Held

\* The mutex is taken.  Only TCP's Exchange sets a deadline for the write, and
\* only if there is one: without it the write deadline set last stays.
Lock(c) ==
    /\ at[c] = "waiting" /\ MutexFree
    /\ at' = [at EXCEPT ![c] = "write"]
    /\ writeBy' = IF kind = "tcp" /\ c \in Timed THEN c ELSE writeBy
    /\ UNCHANGED <<kind, result, expired, readBy, netVars, readVars>>

\* SetReadDeadline before each read: a context without a deadline clears it.
ApplyReadDeadlineSlip(c) == IF c \in Timed THEN c ELSE readBy
NoReadDeadlineSlip(c) == None
ApplyReadDeadline(c) == IF c \in Timed THEN c ELSE None

Blocked == stalled /\ kind # "dtls"

\* The request is written whole.  Behind half a request it is the rest of that
\* one, and the packet read across the two may end where it ends.
WritePacket(c) ==
    /\ at[c] = "write" /\ ~Blocked
    /\ ended # "self" /\ writeBy \notin expired
    /\ at' = [at EXCEPT ![c] = "read"]
    /\ inbox' = Append(inbox, IF torn THEN None ELSE c)
    /\ torn' \in {torn, FALSE}
    /\ readBy' = ApplyReadDeadline(c)
    /\ got' = <<>> /\ need' = HeaderUnits
    /\ UNCHANGED <<kind, result, expired, writeBy, stalled, ended, stream>>

\* The write deadline, this call's or an earlier one's, ends the write; one
\* that was blocked may have written a part of the request, which behind half
\* a request may be the rest of that one.
WriteExpires(c) ==
    /\ at[c] = "write" /\ ended # "self" /\ writeBy \in expired
    /\ \/ UNCHANGED <<inbox, torn>>
       \/ Blocked /\ torn' = TRUE /\ UNCHANGED inbox
       \/ Blocked /\ torn /\ torn' \in BOOLEAN /\ inbox' = Append(inbox, None)
    /\ Return(c, "deadline")
    /\ UNCHANGED <<kind, expired, writeBy, readBy, stalled, ended, readVars>>

WriteFails(c) ==
    /\ at[c] = "write" /\ ended # "no"
    /\ Return(c, "closed")
    /\ UNCHANGED <<kind, expired, writeBy, readBy, netVars, readVars>>

-----------------------------------------------------------------------------
(* Reading                                                                 *)

CanRead(c) == at[c] = "read" /\ ended # "self" /\ readBy \notin expired

\* validateRadiusLength on the header: a header in step says how long its packet
\* is; one out of step says anything, an illegal length included (0 here).
Lengths(header) ==
    IF \E d \in Callers \cup {None} : header = SubSeq(Packet(d), 1, HeaderUnits)
      THEN {PacketUnits}
      ELSE {0} \cup (HeaderUnits + 1)..PacketUnits

Content(units) ==
    IF \E d \in Callers : units = Packet(d) THEN units[1].of ELSE "garbage"

\* readFramedStream: io.ReadFull on the header, then on what its length says.
\* What has been read is gone from the stream whatever happens next.
ReadUnit(c) ==
    /\ kind # "dtls" /\ CanRead(c) /\ stream # <<>>
    /\ stream' = Tail(stream)
    /\ LET read == Append(got, Head(stream)) IN
       IF Len(read) < need
         THEN got' = read /\ UNCHANGED <<at, result, need>>
       ELSE IF need = HeaderUnits
         THEN \E length \in Lengths(read) :
                /\ got' = read /\ need' = length
                /\ IF length = 0 THEN Return(c, "malformed")
                                 ELSE UNCHANGED <<at, result>>
       ELSE got' = <<>> /\ need' = 0 /\ Return(c, Content(read))
    /\ UNCHANGED <<kind, expired, writeBy, readBy, netVars>>

Without(i) == SubSeq(stream, 1, i - 1) \o SubSeq(stream, i + 1, Len(stream))

\* readFramedMessage: one Read returns one record, in whatever order the network
\* delivered them.  The buffer is PacketMaxLengthRFC2866 = 4095 octets, so the
\* read of a packet of 4096 fails, and its record stays or is dropped (pion's).
ReadRecord(c) ==
    /\ kind = "dtls" /\ CanRead(c)
    /\ \E i \in DOMAIN stream :
         IF stream[i].part = Fits
           THEN stream' = Without(i) /\ Return(c, stream[i].of)
           ELSE /\ stream' \in {stream, Without(i)}
                /\ Return(c, "buffer too small")
    /\ UNCHANGED <<kind, expired, writeBy, readBy, netVars, got, need>>

ReadTimesOut(c) ==
    /\ at[c] = "read" /\ ended # "self" /\ readBy \in expired
    /\ Return(c, "timeout")
    /\ got' = <<>> /\ need' = 0
    /\ UNCHANGED <<kind, expired, writeBy, readBy, netVars, stream>>

\* mapReadErr: end of file, in the middle of a packet too, is ErrConnClosed.
ReadEnds(c) ==
    /\ at[c] = "read"
    /\ ended = "self" \/ (ended = "peer" /\ stream = <<>>)
    /\ Return(c, "closed")
    /\ got' = <<>> /\ need' = 0
    /\ UNCHANGED <<kind, expired, writeBy, readBy, netVars, stream>>

Close ==
    /\ ended = "no" /\ ended' = "self"
    /\ UNCHANGED <<kind, at, result, expired, writeBy, readBy, inbox, torn,
                   stalled, readVars>>

-----------------------------------------------------------------------------
(* The clock and the peer                                                  *)

Expire(c) ==
    /\ c \in Timed \ expired /\ at[c] # "idle"
    /\ expired' = expired \cup {c}
    /\ UNCHANGED <<kind, at, result, writeBy, readBy, netVars, readVars>>

\* What the peer may answer.  Octets read across the end of half a request may
\* be more than one packet to it; here they are at most two.
Replies(c) ==
    CASE kind = "dtls"             -> {<<Record(c, size)>> : size \in {Fits, Oversize}}
      [] kind # "dtls" /\ c # None -> {Packet(c)}
      [] kind # "dtls" /\ c = None -> {Packet(c), Packet(c) \o Packet(c)}

PeerAnswers ==
    /\ inbox # <<>> /\ ended = "no"
    /\ inbox' = Tail(inbox)
    /\ \E reply \in Replies(Head(inbox)) : stream' = stream \o reply
    /\ UNCHANGED <<kind, at, result, expired, writeBy, readBy, torn, stalled,
                   ended, got, need>>

PeerIgnores ==
    /\ inbox # <<>>
    /\ inbox' = Tail(inbox)
    /\ UNCHANGED <<kind, at, result, expired, writeBy, readBy, torn, stalled,
                   ended, readVars>>

PeerStalls ==
    /\ stalled' = ~stalled
    /\ UNCHANGED <<kind, at, result, expired, writeBy, readBy, inbox, torn,
                   ended, readVars>>

PeerCloses ==
    /\ ended = "no" /\ ended' = "peer"
    /\ UNCHANGED <<kind, at, result, expired, writeBy, readBy, inbox, torn,
                   stalled, readVars>>

-----------------------------------------------------------------------------
Proceed(c) == \/ Lock(c)      \/ WritePacket(c) \/ WriteExpires(c) \/ WriteFails(c)
              \/ ReadUnit(c)  \/ ReadRecord(c)  \/ ReadTimesOut(c) \/ ReadEnds(c)

ConnNext == \/ \E c \in Callers : Exchange(c) \/ Proceed(c) \/ Expire(c)
            \/ Close \/ PeerAnswers \/ PeerIgnores \/ PeerStalls \/ PeerCloses

\* A call that can go on does, and time passes.  Nothing is assumed of the peer.
ConnFairness == \A c \in Callers : WF_connVars(Proceed(c)) /\ WF_connVars(Expire(c))

ConnSpec == ConnInit /\ [][ConnNext]_connVars /\ ConnFairness

-----------------------------------------------------------------------------
(* Properties                                                              *)

Foreign(c) == result[c] \in Answers \ {c}

\* A call returns another call's reply, or octets that answer no call, only on a
\* connection on which an earlier Exchange has failed by a deadline: the mutex
\* keeps calls in step, and only a reply that was given up on, whole
\* (transport/tcp.go:254) or half read (framed.go:44), and over TCP a request
\* that was written by half (tcp.go:251), put them out of step.  Over DTLS so
\* does a record too large for the buffer that stays in front of the calls' own.
OutOfStepOnlyAfterTimeout ==
    [][\A c \in Callers : Foreign(c)' /\ ~Foreign(c)
         => \E d \in Callers \ {c} :
              \/ result[d] = "timeout"
              \/ kind = "tcp" /\ result[d] = "deadline"
              \/ kind = "dtls" /\ result[d] = "buffer too small"]_connVars

\* A call without a deadline never times out in its read; its write can, over
\* TCP, because of the deadline an earlier call left (transport/tcp.go:246).
UntimedCallFailsOnlyByAStaleDeadline ==
    \A c \in Callers \ Timed :
      /\ result[c] # "timeout"
      /\ result[c] = "deadline" => kind = "tcp" /\ \E d \in expired : at[d] = "done"

\* A call with a deadline that has the connection returns, whatever the peer
\* does, unless it is writing over TLS to a peer that has stopped reading.
TimedCallsReturn ==
    \A c \in Timed :
      at[c] \in Held ~> at[c] = "done" \/ (kind = "tls" /\ at[c] = "write" /\ stalled)
=============================================================================
