---------------------------- MODULE StreamProofs ----------------------------
(***************************************************************************)
(* What the connection-oriented transports keep, for any number of calls,  *)
(* peers and acceptors: exchanges on one connection stay in step until one *)
(* of them times out (tcp.go, tls.go, dtls.go, framed.go), and an Accept   *)
(* loses a connection only when it is canceled (tls.go, dtls.go).          *)
(***************************************************************************)
EXTENDS StreamConn, StreamListener, SequenceTheorems, TLAPS

-----------------------------------------------------------------------------
(* The connection                                                          *)

Units   == [of : Callers \cup {None}, part : 1..PacketUnits]
Records == [of : Callers, part : {Fits, Oversize}]

\* Over a byte stream, what is on the way are units of packets.
UnitsOK ==
    /\ kind # "dtls" => stream \in Seq(Units)
    /\ kind = "dtls" => stream \in Seq(Records)

\* Half a request is written only by a call that a deadline ends, over TCP;
\* until then the peer reads each request by itself.
TearInv ==
    \/ kind = "tcp" /\ \E d \in Callers : result[d] = "deadline"
    \/ ~torn /\ inbox \in Seq(Callers)

\* exMu is held by one call, which has not returned yet.
MutexInv ==
    /\ \A c, d \in Callers : at[c] \in Held /\ at[d] \in Held => c = d
    /\ \A c \in Callers : at[c] # "done" => result[c] = None

\* The read deadline is the reader's own; the write deadline was set over TCP
\* by a call that has come to its write.
DeadlineInv ==
    /\ \A c \in Callers : at[c] = "read" => readBy = IF c \in Timed THEN c ELSE None
    /\ writeBy # None => kind = "tcp" /\ at[writeBy] \in Held \cup {"done"}

\* No Exchange has left octets behind.
Clean ==
    \A d \in Callers :
        /\ result[d] # "timeout"
        /\ kind = "tcp" => result[d] # "deadline"
        /\ kind = "dtls" => result[d] # "buffer too small"

\* The reply to c is being read, a part of it or all of it still to come.
Arriving(c) ==
    IF kind = "dtls"
    THEN got = <<>> /\ Len(stream) = 1 /\ stream[1].of = c
    ELSE /\ Len(got) < PacketUnits /\ Len(got) + Len(stream) = PacketUnits
         /\ \A i \in 1..Len(got) : got[i] = Unit(c, i)
         /\ \A i \in 1..Len(stream) : stream[i] = Unit(c, Len(got) + i)
         /\ need = IF Len(got) < HeaderUnits THEN HeaderUnits ELSE PacketUnits

\* As long as that is so, requests and replies are those of the reader.
InStep ==
    Clean /\ ended # "self" =>
        /\ \A c \in Callers : at[c] = "read" =>
              \/ /\ stream = <<>> /\ got = <<>> /\ need = HeaderUnits
                 /\ ended = "no" => inbox \in {<<>>, <<c>>}
              \/ Arriving(c) /\ (ended = "no" => inbox = <<>>)
        /\ (\A c \in Callers : at[c] # "read") =>
              stream = <<>> /\ (ended = "no" => inbox = <<>>)

ConnInv ==
    /\ ConnTypeOK /\ UnitsOK /\ TearInv /\ MutexInv /\ DeadlineInv
    /\ UntimedCallFailsOnlyByAStaleDeadline /\ InStep

\* A new connection: nothing was written, nothing is on the way.
LEMMA ConnInitially == ConnInit => ConnInv
<1> SUFFICES ASSUME ConnInit PROVE ConnInv
  OBVIOUS
<1>1. ConnTypeOK
  <2>1. at \in [Callers -> {"idle", "waiting", "done"} \cup Held]
    BY DEF ConnInit
  <2>2. result \in [Callers -> {None} \cup Answers \cup Failures]
    BY DEF ConnInit
  <2>3. /\ inbox \in Seq(Callers \cup {None}) /\ stream \in Seq([of : Callers \cup {None}, part : Fits..Oversize])
        /\ got \in Seq([of : Callers \cup {None}, part : 1..PacketUnits]) /\ need \in 0..PacketUnits
    BY DEF ConnInit, PacketUnits
  <2> QED BY <2>1, <2>2, <2>3 DEF ConnInit, ConnTypeOK
<1>2. UnitsOK /\ TearInv /\ MutexInv /\ DeadlineInv /\ InStep
  BY DEF ConnInit, UnitsOK, TearInv, MutexInv, DeadlineInv, InStep, Held
<1>3. UntimedCallFailsOnlyByAStaleDeadline
  BY ResultsTellApart DEF ConnInit, UntimedCallFailsOnlyByAStaleDeadline, Failures
<1> QED BY <1>1, <1>2, <1>3 DEF ConnInv

-----------------------------------------------------------------------------
(* Types                                                                   *)

Places == {"idle", "waiting", "done"} \cup Held
Results == {None} \cup Answers \cup Failures

\* A call that returns is done, with a result.
LEMMA ReturnType ==
    ASSUME ConnTypeOK, NEW c \in Callers, NEW r \in Results, Return(c, r)
    PROVE  at' \in [Callers -> Places] /\ result' \in [Callers -> Results]
BY DEF ConnTypeOK, Return, Places, Results

\* What ReadFull is asked for, and what a packet is taken for.
LEMMA ReadUnitType ==
    ASSUME ConnTypeOK, UnitsOK, NEW c \in Callers, ReadUnit(c)
    PROVE  /\ stream' = Tail(stream) /\ stream' \in Seq([of : Callers \cup {None}, part : 1..PacketUnits])
           /\ got' \in Seq([of : Callers \cup {None}, part : 1..PacketUnits])
           /\ need' \in 0..PacketUnits
           /\ \/ UNCHANGED <<at, result>>
              \/ Return(c, "malformed")
              \/ \E r \in Answers : Return(c, r)
<1> DEFINE read == Append(got, Head(stream))
           U == [of : Callers \cup {None}, part : 1..PacketUnits]
<1>1. /\ stream \in Seq([of : Callers \cup {None}, part : Fits..Oversize]) /\ stream # <<>>
      /\ kind # "dtls" /\ got \in Seq(U)
  BY DEF ConnTypeOK, ReadUnit
<1>2. Len(stream) \in Nat /\ Len(stream) >= 1 /\ stream[1] = Head(stream)
  BY <1>1
<1>3. stream \in Seq(U)
  BY <1>1 DEF UnitsOK, Units
<1>4. read \in Seq(U) /\ Len(read) >= 1 /\ read[1] \in U
  <2> HIDE DEF U
  <2>1. Head(stream) \in U
    BY <1>2, <1>3, ElementOfSeq
  <2> QED BY <1>1, <2>1
<1>5. stream' = Tail(stream) /\ Tail(stream) \in Seq(U)
  BY <1>1, <1>3 DEF ReadUnit
<1>6. Content(read) \in Answers
  <2>1. ASSUME NEW d \in Callers, read = Packet(d) PROVE read[1].of = d
    <3> HIDE DEF read
    <3> QED BY <2>1 DEF Packet, Unit, PacketUnits
  <2> HIDE DEF read
  <2> QED BY <2>1 DEF Content, Answers
<1>7. \A l \in Lengths(read) : l \in 0..PacketUnits
  BY DEF Lengths, HeaderUnits, PacketUnits
<1> HIDE DEF read, U
<1>8. /\ got' \in Seq(U) /\ need' \in 0..PacketUnits
      /\ \/ UNCHANGED <<at, result>>
         \/ Return(c, "malformed")
         \/ \E r \in Answers : Return(c, r)
  <2>1. CASE Len(read) < need
    BY <1>4, <2>1 DEF ReadUnit, ConnTypeOK, read
  <2>2. CASE ~(Len(read) < need) /\ need = HeaderUnits
    BY <1>4, <1>7, <2>2 DEF ReadUnit, read
  <2>3. CASE ~(Len(read) < need) /\ need # HeaderUnits
    BY <1>6, <2>3 DEF ReadUnit, read, PacketUnits
  <2> QED BY <2>1, <2>2, <2>3
<1> QED BY <1>5, <1>8 DEF U

\* Records and units are what a stream may hold.
LEMMA SeqOfRecords ==
    ASSUME NEW s, s \in Seq(Records) \/ s \in Seq(Units)
    PROVE  s \in Seq([of : Callers \cup {None}, part : Fits..Oversize])
<1> DEFINE U == [of : Callers \cup {None}, part : Fits..Oversize]
<1>1. Records \subseteq U /\ Units \subseteq U
  BY DEF Records, Units, Fits, Oversize, PacketUnits
<1> HIDE DEF U
<1>2. s \in Seq(U)
  BY <1>1
<1> QED BY <1>2 DEF U

\* A record on the way is a reply to one of the calls.
LEMMA RecordAt ==
    ASSUME UnitsOK, kind = "dtls", NEW i \in DOMAIN stream
    PROVE  stream \in Seq(Records) /\ i \in 1..Len(stream) /\ stream[i].of \in Callers
<1>1. stream \in Seq(Records)
  BY DEF UnitsOK
<1>2. i \in 1..Len(stream)
  BY <1>1
<1>3. stream[i] \in Records
  BY <1>1, <1>2, ElementOfSeq
<1> QED BY <1>1, <1>2, <1>3 DEF Records

\* Over TLS and DTLS no request is read across another: each is its caller's.
LEMMA DatagramPeers ==
    ASSUME TearInv, kind = "dtls", inbox # <<>>
    PROVE  Head(inbox) \in Callers
BY DEF TearInv

\* A reply is a record, or packets of a stream.
LEMMA RepliesType ==
    ASSUME NEW c \in Callers \cup {None}, NEW reply \in Replies(c)
    PROVE  /\ kind # "dtls" => reply \in Seq(Units)
           /\ kind = "dtls" /\ c \in Callers => reply \in Seq(Records)
<1>1. Packet(c) \in Seq(Units)
  BY DEF Packet, Unit, Units, PacketUnits
<1>2. \A size \in {Fits, Oversize} : Record(c, size) \in [of : {c}, part : {Fits, Oversize}]
  BY DEF Record
<1>3. CASE kind # "dtls"
  <2>1. reply = Packet(c) \/ reply = Packet(c) \o Packet(c)
    BY <1>3 DEF Replies
  <2>2. Packet(c) \o Packet(c) \in Seq(Units)
    BY <1>1
  <2> QED BY <1>1, <1>3, <2>1, <2>2
<1>4. CASE kind = "dtls"
  <2>1. PICK size \in {Fits, Oversize} : reply = <<Record(c, size)>>
    BY <1>4 DEF Replies
  <2>2. c \in Callers => Record(c, size) \in Records
    BY DEF Record, Records
  <2> QED BY <1>4, <2>1, <2>2
<1> QED BY <1>3, <1>4

\* Every step keeps the types: the streams of TCP and TLS carry parts of packets.
LEMMA ConnTypeStep ==
    ASSUME ConnTypeOK, UnitsOK, TearInv, [ConnNext]_connVars
    PROVE  ConnTypeOK' /\ UnitsOK'
<1> USE DEF netVars, readVars
<1>1. CASE UNCHANGED connVars
  BY <1>1 DEF connVars, ConnTypeOK, UnitsOK
<1>2. ASSUME NEW c \in Callers, \/ Exchange(c) \/ Lock(c) \/ Expire(c)
      PROVE  ConnTypeOK' /\ UnitsOK'
  BY <1>2 DEF Exchange, Lock, Expire, ConnTypeOK, UnitsOK, Held
<1>3. ASSUME NEW c \in Callers, WritePacket(c)
      PROVE  ConnTypeOK' /\ UnitsOK'
  <2>0. at' \in [Callers -> Places] /\ torn' \in BOOLEAN
    BY <1>3 DEF WritePacket, ConnTypeOK, Places, Held
  <2>3. inbox' \in Seq(Callers \cup {None})
    <3>1. PICK d \in Callers \cup {None} : inbox' = Append(inbox, d)
      BY <1>3 DEF WritePacket
    <3> QED BY <3>1 DEF ConnTypeOK
  <2>1. /\ at' \in [Callers -> Places] /\ inbox' \in Seq(Callers \cup {None})
        /\ torn' \in BOOLEAN
    BY <2>0, <2>3
  <2>2. readBy' \in Timed \cup {None} /\ got' = <<>> /\ need' \in 0..PacketUnits
    BY <1>3 DEF WritePacket, ApplyReadDeadline, HeaderUnits, PacketUnits
  <2> QED BY <1>3, <2>1, <2>2 DEF WritePacket, ConnTypeOK, UnitsOK, Places
<1>4. ASSUME NEW c \in Callers, WriteExpires(c) \/ WriteFails(c)
      PROVE  ConnTypeOK' /\ UnitsOK'
  <2>1. Return(c, "deadline") \/ Return(c, "closed")
    BY <1>4 DEF WriteExpires, WriteFails
  <2>2. at' \in [Callers -> Places] /\ result' \in [Callers -> Results]
    BY <2>1, ReturnType DEF Results, Failures
  <2>4. inbox' = inbox \/ inbox' = Append(inbox, None)
    <3>1. CASE WriteExpires(c)
      BY Zenon, <3>1 DEF WriteExpires
    <3>2. CASE WriteFails(c)
      BY <3>2 DEF WriteFails
    <3> QED BY <1>4, <3>1, <3>2
  <2>3. inbox' \in Seq(Callers \cup {None}) /\ torn' \in BOOLEAN
    <3>1. inbox' \in Seq(Callers \cup {None})
      <4>1. inbox \in Seq(Callers \cup {None})
        BY DEF ConnTypeOK
      <4> QED BY ONLY <2>4, <4>1
    <3>2. torn' \in BOOLEAN
      <4>1. CASE WriteExpires(c)
        BY Zenon, <4>1 DEF WriteExpires, ConnTypeOK
      <4>2. CASE WriteFails(c)
        BY <4>2 DEF WriteFails, ConnTypeOK
      <4> QED BY <1>4, <4>1, <4>2
    <3> QED BY <3>1, <3>2
  <2> QED BY <1>4, <2>2, <2>3 DEF WriteExpires, WriteFails, ConnTypeOK, UnitsOK, Places, Results
<1>5. ASSUME NEW c \in Callers, ReadUnit(c)
      PROVE  ConnTypeOK' /\ UnitsOK'
  <2>1. at' \in [Callers -> Places] /\ result' \in [Callers -> Results]
    BY <1>5, ReadUnitType, ReturnType DEF Results, Failures, ConnTypeOK, Places
  <2>2. stream' \in Seq(Units)
    BY <1>5, ReadUnitType DEF Units
  <2>3. stream' \in Seq([of : Callers \cup {None}, part : Fits..Oversize])
    BY ONLY <2>2, SeqOfRecords
  <2>4. /\ got' \in Seq([of : Callers \cup {None}, part : 1..PacketUnits])
        /\ need' \in 0..PacketUnits
    BY <1>5, ReadUnitType
  <2> QED BY <1>5, <2>1, <2>2, <2>3, <2>4 DEF ReadUnit, ConnTypeOK, UnitsOK, Places, Results
<1>6. ASSUME NEW c \in Callers, ReadRecord(c)
      PROVE  ConnTypeOK' /\ UnitsOK'
  <2>1. PICK i \in DOMAIN stream :
           IF stream[i].part = Fits
           THEN stream' = Without(i) /\ Return(c, stream[i].of)
           ELSE /\ stream' \in {stream, Without(i)}
                /\ Return(c, "buffer too small")
    BY <1>6 DEF ReadRecord
  <2>0. kind = "dtls"
    BY <1>6 DEF ReadRecord
  <2>2. stream \in Seq(Records) /\ i \in 1..Len(stream) /\ stream[i].of \in Callers
    BY <2>0, RecordAt
  <2>4. Without(i) \in Seq(Records)
    BY <2>2 DEF Without
  <2>6. stream' \in Seq(Records)
    BY <2>1, <2>2, <2>4
  <2>8. stream' \in Seq([of : Callers \cup {None}, part : Fits..Oversize])
    BY <2>6, SeqOfRecords
  <2>5. at' \in [Callers -> Places] /\ result' \in [Callers -> Results]
    <3>1. stream[i].of \in Results /\ "buffer too small" \in Results
      BY <2>2 DEF Results, Answers, Failures
    <3> QED BY <2>1, <3>1, ReturnType
  <2> QED BY <1>6, <2>0, <2>5, <2>6, <2>8 DEF ReadRecord, ConnTypeOK, UnitsOK, Places, Results
<1>7. ASSUME NEW c \in Callers, ReadTimesOut(c) \/ ReadEnds(c)
      PROVE  ConnTypeOK' /\ UnitsOK'
  <2>1. Return(c, "timeout") \/ Return(c, "closed")
    BY <1>7 DEF ReadTimesOut, ReadEnds
  <2>2. at' \in [Callers -> Places] /\ result' \in [Callers -> Results]
    BY <2>1, ReturnType DEF Results, Failures
  <2>3. got' = <<>> /\ need' \in 0..PacketUnits
    BY <1>7 DEF ReadTimesOut, ReadEnds, PacketUnits
  <2> QED BY <1>7, <2>2, <2>3 DEF ReadTimesOut, ReadEnds, ConnTypeOK, UnitsOK, Places, Results
<1>8. CASE PeerAnswers
  <2>1. PICK reply \in Replies(Head(inbox)) : stream' = stream \o reply
    BY <1>8 DEF PeerAnswers
  <2>2. Head(inbox) \in Callers \cup {None} /\ Tail(inbox) \in Seq(Callers \cup {None})
    BY <1>8 DEF ConnTypeOK, PeerAnswers
  <2>3. kind = "dtls" => reply \in Seq(Records)
    BY <1>8, DatagramPeers, RepliesType DEF PeerAnswers
  <2>4. kind # "dtls" => reply \in Seq(Units)
    BY <2>2, RepliesType
  <2>5. /\ kind = "dtls" => stream' \in Seq(Records)
        /\ kind # "dtls" => stream' \in Seq(Units)
    BY <2>1, <2>3, <2>4 DEF UnitsOK
  <2>6. stream' \in Seq([of : Callers \cup {None}, part : Fits..Oversize])
    BY <2>5, SeqOfRecords
  <2> QED BY <1>8, <2>2, <2>5, <2>6 DEF PeerAnswers, ConnTypeOK, UnitsOK
<1>9. CASE PeerIgnores
  <2>1. Tail(inbox) \in Seq(Callers \cup {None})
    BY <1>9 DEF PeerIgnores, ConnTypeOK
  <2> QED BY <1>9, <2>1 DEF PeerIgnores, ConnTypeOK, UnitsOK
<1>10. CASE Close \/ PeerStalls \/ PeerCloses
  BY <1>10 DEF Close, PeerStalls, PeerCloses, ConnTypeOK, UnitsOK
<1> QED BY <1>1, <1>2, <1>3, <1>4, <1>5, <1>6, <1>7, <1>8, <1>9, <1>10 DEF ConnNext, Proceed

-----------------------------------------------------------------------------
(* The mutex and the deadlines                                             *)

\* A call returns from a write or a read, or goes on reading.
LEMMA Returns ==
    ASSUME ConnTypeOK, UnitsOK, NEW c \in Callers,
           \/ WriteExpires(c) \/ WriteFails(c) \/ ReadUnit(c) \/ ReadRecord(c)
           \/ ReadTimesOut(c) \/ ReadEnds(c)
    PROVE  /\ at[c] \in Held
           /\ UNCHANGED <<at, result>> \/ \E r \in Results \ {None} : Return(c, r)
<1>0. {"deadline", "closed", "timeout", "malformed", "buffer too small"} \subseteq Results \ {None}
  BY ResultsTellApart DEF Results, Failures
<1>1. Answers \subseteq Results \ {None}
  BY NoneIsNoCaller, ResultsTellApart DEF Results, Answers
<1>2. CASE WriteExpires(c) \/ WriteFails(c) \/ ReadTimesOut(c) \/ ReadEnds(c)
  BY <1>0, <1>2 DEF WriteExpires, WriteFails, ReadTimesOut, ReadEnds, Held
<1>3. CASE ReadUnit(c)
  BY <1>0, <1>1, <1>3, ReadUnitType DEF ReadUnit, CanRead, Held
<1>4. CASE ReadRecord(c)
  <2>1. PICK i \in DOMAIN stream : Return(c, stream[i].of) \/ Return(c, "buffer too small")
    BY <1>4 DEF ReadRecord
  <2>2. kind = "dtls"
    BY <1>4 DEF ReadRecord
  <2>3. stream[i].of \in Answers
    BY <2>2, RecordAt DEF Answers
  <2> QED BY <1>0, <1>1, <1>4, <2>1, <2>3 DEF ReadRecord, CanRead, Held
<1> QED BY <1>2, <1>3, <1>4

\* What a step does to the calls: it moves one of them, or none.
LEMMA Moves ==
    ASSUME ConnTypeOK, UnitsOK, [ConnNext]_connVars
    PROVE  \/ UNCHANGED <<at, result>>
           \/ \E c \in Callers :
                 /\ UNCHANGED result
                 /\ \/ /\ at[c] = "idle" /\ at' = [at EXCEPT ![c] = "waiting"]
                       /\ Exchange(c)
                    \/ /\ at[c] = "waiting" /\ at' = [at EXCEPT ![c] = "write"]
                       /\ Lock(c)
                    \/ /\ at[c] = "write" /\ at' = [at EXCEPT ![c] = "read"]
                       /\ WritePacket(c)
           \/ \E c \in Callers : \E r \in Results \ {None} :
                 at[c] \in Held /\ Return(c, r) /\ UNCHANGED <<readBy, writeBy>>
<1> USE DEF netVars, readVars
<1>1. CASE \/ UNCHANGED connVars \/ \E c \in Callers : Expire(c)
           \/ Close \/ PeerAnswers \/ PeerIgnores \/ PeerStalls \/ PeerCloses
  BY <1>1 DEF connVars, Expire, Close, PeerAnswers, PeerIgnores, PeerStalls, PeerCloses
<1>2. ASSUME NEW c \in Callers, Exchange(c) \/ Lock(c) \/ WritePacket(c)
      PROVE  /\ UNCHANGED result
             /\ \/ /\ at[c] = "idle" /\ at' = [at EXCEPT ![c] = "waiting"]
                   /\ Exchange(c)
                \/ /\ at[c] = "waiting" /\ at' = [at EXCEPT ![c] = "write"]
                   /\ Lock(c)
                \/ /\ at[c] = "write" /\ at' = [at EXCEPT ![c] = "read"]
                   /\ WritePacket(c)
  BY <1>2 DEF Exchange, Lock, WritePacket
<1>3. ASSUME NEW c \in Callers,
             \/ WriteExpires(c) \/ WriteFails(c) \/ ReadUnit(c) \/ ReadRecord(c)
             \/ ReadTimesOut(c) \/ ReadEnds(c)
      PROVE  /\ at[c] \in Held
             /\ UNCHANGED <<at, result>> \/ \E r \in Results \ {None} : Return(c, r)
             /\ UNCHANGED <<readBy, writeBy>>
  BY <1>3, Returns DEF WriteExpires, WriteFails, ReadUnit, ReadRecord, ReadTimesOut, ReadEnds
<1> QED BY <1>1, <1>2, <1>3 DEF ConnNext, Proceed

\* Every step keeps exMu: one call at most writes or reads (transport/tcp.go:242).
LEMMA MutexStep ==
    ASSUME ConnTypeOK, UnitsOK, MutexInv, [ConnNext]_connVars PROVE MutexInv'
<1> USE DEF ConnTypeOK, MutexInv, Held
<1>1. CASE UNCHANGED <<at, result>>
  BY <1>1
<1>2. ASSUME NEW c \in Callers, UNCHANGED result,
             \/ at[c] = "idle" /\ at' = [at EXCEPT ![c] = "waiting"]
             \/ at[c] = "waiting" /\ at' = [at EXCEPT ![c] = "write"] /\ Lock(c)
             \/ at[c] = "write" /\ at' = [at EXCEPT ![c] = "read"]
      PROVE  MutexInv'
  <2>1. Lock(c) => \A d \in Callers : at[d] \notin Held
    BY DEF Lock, MutexFree
  <2> QED BY <1>2, <2>1
<1>3. ASSUME NEW c \in Callers, NEW r \in Results \ {None}, at[c] \in Held, Return(c, r)
      PROVE  MutexInv'
  BY <1>3 DEF Return
<1> QED BY <1>1, <1>2, <1>3, Moves

\* Every step keeps what is known of the deadlines set: whose they are, and when.
LEMMA DeadlineStep ==
    ASSUME ConnTypeOK, UnitsOK, MutexInv, DeadlineInv, [ConnNext]_connVars
    PROVE  DeadlineInv'
<1> USE DEF ConnTypeOK, DeadlineInv, Held, netVars, readVars
<1>0. writeBy # None => writeBy \in Callers
  BY TimedAreCallers
<1>1. CASE UNCHANGED <<at, result>>
  <2>1. UNCHANGED <<readBy, writeBy, kind>>
    BY <1>1 DEF ConnNext, connVars, Proceed, Exchange, Lock, WritePacket, WriteExpires,
                WriteFails, ReadUnit, ReadRecord, ReadTimesOut, ReadEnds, Expire, Close,
                PeerAnswers, PeerIgnores, PeerStalls, PeerCloses
  <2> QED BY <1>1, <2>1
<1>2. UNCHANGED kind
  BY DEF ConnNext, connVars, Proceed, Exchange, Lock, WritePacket, WriteExpires,
         WriteFails, ReadUnit, ReadRecord, ReadTimesOut, ReadEnds, Expire, Close,
         PeerAnswers, PeerIgnores, PeerStalls, PeerCloses
<1>3. ASSUME NEW c \in Callers, at[c] = "idle", at' = [at EXCEPT ![c] = "waiting"],
             Exchange(c)
      PROVE  DeadlineInv'
  BY <1>0, <1>2, <1>3 DEF Exchange
<1>4. ASSUME NEW c \in Callers, at[c] = "waiting", at' = [at EXCEPT ![c] = "write"], Lock(c)
      PROVE  DeadlineInv'
  <2>1. /\ readBy' = readBy
        /\ writeBy' = IF kind = "tcp" /\ c \in Timed THEN c ELSE writeBy
    BY <1>4 DEF Lock
  <2> QED BY <1>0, <1>2, <1>4, <2>1
<1>5. ASSUME NEW c \in Callers, at[c] = "write", at' = [at EXCEPT ![c] = "read"],
             WritePacket(c)
      PROVE  DeadlineInv'
  <2>1. readBy' = (IF c \in Timed THEN c ELSE None) /\ writeBy' = writeBy
    BY <1>5 DEF WritePacket, ApplyReadDeadline
  <2>2. \A d \in Callers : at[d] = "read" => d = c
    BY <1>5 DEF MutexInv
  <2> QED BY <1>0, <1>2, <1>5, <2>1, <2>2
<1>6. ASSUME NEW c \in Callers, NEW r \in Results \ {None}, at[c] \in Held, Return(c, r),
             UNCHANGED <<readBy, writeBy>>
      PROVE  DeadlineInv'
  BY <1>0, <1>2, <1>6 DEF Return
<1> QED BY <1>1, <1>3, <1>4, <1>5, <1>6, Moves

\* A read ends with "timeout" only by the reader's own deadline, a write with
\* "deadline" only by that of a call that has had the mutex.
LEMMA UntimedStep ==
    ASSUME ConnTypeOK, UnitsOK, MutexInv, DeadlineInv,
           UntimedCallFailsOnlyByAStaleDeadline, [ConnNext]_connVars
    PROVE  UntimedCallFailsOnlyByAStaleDeadline'
<1> USE DEF netVars, readVars
<1>0. /\ result \in [Callers -> Results] /\ at \in [Callers -> Places]
      /\ expired \subseteq Timed /\ Timed \subseteq Callers
  BY TimedAreCallers DEF ConnTypeOK, Results, Places
<1>1. UNCHANGED kind /\ expired \subseteq expired'
  BY DEF ConnNext, connVars, Proceed, Exchange, Lock, WritePacket, WriteExpires,
         WriteFails, ReadUnit, ReadRecord, ReadTimesOut, ReadEnds, Expire, Close,
         PeerAnswers, PeerIgnores, PeerStalls, PeerCloses
<1>2. \A d \in Callers : at[d] = "done" => at'[d] = "done"
  BY <1>0, Moves DEF Return, Held
<1> SUFFICES ASSUME NEW c \in Callers \ Timed,
                    result'[c] = "timeout" \/ result'[c] = "deadline"
             PROVE  /\ result'[c] # "timeout"
                    /\ result'[c] = "deadline"
                       => kind' = "tcp" /\ \E d \in expired' : at'[d] = "done"
  BY DEF UntimedCallFailsOnlyByAStaleDeadline
<1>3. CASE result'[c] = result[c]
  <2>1. /\ result[c] # "timeout"
        /\ result[c] = "deadline" => kind = "tcp" /\ \E d \in expired : at[d] = "done"
    BY DEF UntimedCallFailsOnlyByAStaleDeadline
  <2> QED BY <1>0, <1>1, <1>2, <1>3, <2>1
<1>4. CASE result'[c] # result[c]
  <2>1. WriteExpires(c) \/ ReadTimesOut(c)
    <3>1. "timeout" \notin Answers /\ "deadline" \notin Answers
      BY ResultsTellApart DEF Answers, Failures
    <3>2. PICK d \in Callers : Proceed(d)
      BY <1>4 DEF ConnNext, connVars, Exchange, Expire, Close, PeerAnswers, PeerIgnores,
                  PeerStalls, PeerCloses
    <3>3. ~Lock(d) /\ ~WritePacket(d)
      BY <1>4 DEF Lock, WritePacket
    <3>4. ~WriteFails(d) /\ ~ReadEnds(d)
      BY <1>0, <1>4 DEF WriteFails, ReadEnds, Return
    <3>5. ~ReadUnit(d)
      <4> SUFFICES ASSUME ReadUnit(d) PROVE FALSE
        OBVIOUS
      <4>1. Return(d, "malformed") \/ \E r \in Answers : Return(d, r)
        BY <1>4, ReadUnitType
      <4> QED BY <1>0, <1>4, <3>1, <4>1 DEF Return
    <3>6. ~ReadRecord(d)
      <4> SUFFICES ASSUME ReadRecord(d) PROVE FALSE
        OBVIOUS
      <4>1. PICK i \in DOMAIN stream : Return(d, stream[i].of) \/ Return(d, "buffer too small")
        BY DEF ReadRecord
      <4>2. kind = "dtls"
        BY DEF ReadRecord
      <4>3. stream[i].of \in Answers
        BY <4>2, RecordAt DEF Answers
      <4> QED BY <1>0, <1>4, <3>1, <4>1, <4>3 DEF Return
    <3>7. d = c
      BY <1>0, <1>4, <3>2, <3>3, <3>4, <3>5, <3>6 DEF Proceed, WriteExpires, ReadTimesOut, Return
    <3> QED BY <3>2, <3>3, <3>4, <3>5, <3>6, <3>7 DEF Proceed
  <2>2. CASE WriteExpires(c)
    <3>1. /\ at[c] = "write" /\ writeBy \in expired /\ result' = [result EXCEPT ![c] = "deadline"]
      BY <2>2 DEF WriteExpires, Return
    <3>2. writeBy \in Timed /\ writeBy # c /\ writeBy # None
      BY <1>0, <3>1, NoneIsNoCaller
    <3>3. kind = "tcp" /\ at[writeBy] \in Held \cup {"done"}
      BY <3>2 DEF DeadlineInv
    <3>4. at[writeBy] = "done"
      BY <1>0, <3>1, <3>2, <3>3 DEF MutexInv, Held
    <3> QED BY <1>0, <1>1, <1>2, <3>1, <3>2, <3>3, <3>4
  <2>3. CASE ReadTimesOut(c)
    <3>1. at[c] = "read" /\ readBy \in expired
      BY <2>3 DEF ReadTimesOut
    <3>2. readBy = None
      BY <3>1 DEF DeadlineInv
    <3> QED BY <1>0, <3>1, <3>2, NoneIsNoCaller
  <2> QED BY <2>1, <2>2, <2>3
<1> QED BY <1>3, <1>4

-----------------------------------------------------------------------------
(* In step                                                                 *)

\* No result is taken back, so a connection that is clean was clean before.
LEMMA CleanBefore ==
    ASSUME ConnTypeOK, UnitsOK, MutexInv, [ConnNext]_connVars
    PROVE  /\ Clean' => Clean
           /\ ended' # "self" => ended # "self"
           /\ kind' = kind
<1>1. UNCHANGED kind /\ (ended' # "self" => ended # "self")
  BY DEF ConnNext, connVars, netVars, readVars, Proceed, Exchange, Lock, WritePacket,
         WriteExpires, WriteFails, ReadUnit, ReadRecord, ReadTimesOut, ReadEnds, Expire,
         Close, PeerAnswers, PeerIgnores, PeerStalls, PeerCloses
<1>2. \A d \in Callers : result[d] # None => result'[d] = result[d]
  BY Moves DEF ConnTypeOK, MutexInv, Return, Held
<1>3. None # "timeout" /\ None # "deadline" /\ None # "buffer too small"
  BY ResultsTellApart DEF Failures
<1> QED BY <1>1, <1>2, <1>3 DEF Clean

\* A deadline on writes is set over TCP only.
LEMMA DeadlineIsTCP ==
    ASSUME ConnTypeOK, DeadlineInv, NEW c \in Callers, WriteExpires(c)
    PROVE  kind = "tcp"
BY TimedAreCallers, NoneIsNoCaller DEF ConnTypeOK, DeadlineInv, WriteExpires

\* Every step keeps the peer's framing, until a deadline ends a write over TCP.
LEMMA TearStep ==
    ASSUME ConnTypeOK, UnitsOK, TearInv, MutexInv, DeadlineInv, [ConnNext]_connVars
    PROVE  TearInv'
<1> USE DEF netVars, readVars
<1>0. result \in [Callers -> Results] /\ kind' = kind
  BY CleanBefore DEF ConnTypeOK, Results
<1>1. CASE kind = "tcp" /\ \E d \in Callers : result[d] = "deadline"
  <2>1. PICK d \in Callers : result[d] = "deadline"
    BY <1>1
  <2>2. result'[d] = "deadline"
    <3>1. result[d] # None
      BY <2>1, ResultsTellApart DEF Failures
    <3> QED BY <2>1, <3>1, Moves DEF MutexInv, ConnTypeOK, Return, Held
  <2> QED BY <1>0, <1>1, <2>2 DEF TearInv
<1>2. CASE ~torn /\ inbox \in Seq(Callers)
  <2>1. ASSUME NEW c \in Callers, WriteExpires(c) PROVE TearInv'
    <3>1. kind' = "tcp" /\ result'[c] = "deadline"
      BY <1>0, <2>1, DeadlineIsTCP DEF WriteExpires, Return
    <3> QED BY <3>1 DEF TearInv
  <2>2. ASSUME NEW c \in Callers, WritePacket(c) PROVE TearInv'
    <3>1. torn = FALSE /\ torn' \in {torn, FALSE}
      BY <1>2, <2>2 DEF WritePacket, ConnTypeOK
    <3>2. inbox' = Append(inbox, c)
      BY <2>2, <3>1 DEF WritePacket
    <3>3. ~torn' /\ inbox' \in Seq(Callers)
      <4>1. ~torn'
        BY ONLY <3>1
      <4>2. inbox' \in Seq(Callers)
        <5>1. inbox \in Seq(Callers)
          BY <1>2
        <5> QED BY ONLY <3>2, <5>1, c \in Callers
      <4> QED BY <4>1, <4>2
    <3> QED BY <3>3 DEF TearInv
  <2>3. CASE PeerAnswers \/ PeerIgnores
    BY <1>2, <2>3 DEF PeerAnswers, PeerIgnores, TearInv
  <2>4. CASE UNCHANGED <<inbox, torn>>
    BY <1>2, <2>4 DEF TearInv
  <2> QED BY <2>1, <2>2, <2>3, <2>4 DEF ConnNext, connVars, Proceed, Exchange, Lock, WriteFails,
             ReadUnit, ReadRecord, ReadTimesOut, ReadEnds, Expire, Close, PeerStalls, PeerCloses
<1> QED BY <1>1, <1>2 DEF TearInv

\* A header in step says how long its packet is, and what is read to that
\* length is the packet.
LEMMA HeaderInStep ==
    ASSUME NEW c \in Callers, NEW units \in Seq([of : Callers \cup {None}, part : 1..PacketUnits]),
           Len(units) = HeaderUnits, \A i \in 1..Len(units) : units[i] = Unit(c, i)
    PROVE  Lengths(units) = {PacketUnits}
<1>1. units = SubSeq(Packet(c), 1, HeaderUnits)
  BY DEF Packet, HeaderUnits, PacketUnits
<1> QED BY <1>1 DEF Lengths

\* A packet read in step is the one that was sent.
LEMMA ContentInStep ==
    ASSUME NEW c \in Callers, NEW units \in Seq([of : Callers \cup {None}, part : 1..PacketUnits]),
           Len(units) = PacketUnits, \A i \in 1..Len(units) : units[i] = Unit(c, i)
    PROVE  Content(units) = c
<1>1. units = Packet(c)
  BY DEF Packet, PacketUnits
<1>2. units[1].of = c
  BY DEF Unit, PacketUnits
<1> QED BY <1>1, <1>2 DEF Content

\* One more unit of the reply to c, in step.
LEMMA ReadUnitInStep ==
    ASSUME ConnTypeOK, UnitsOK, NEW c \in Callers, ReadUnit(c), Arriving(c)
    PROVE  \/ Arriving(c)' /\ UNCHANGED <<at, result>>
           \/ stream' = <<>> /\ Return(c, c)
<1> DEFINE read == Append(got, Head(stream))
           U == [of : Callers \cup {None}, part : 1..PacketUnits]
<1>1. /\ kind # "dtls" /\ stream # <<>> /\ stream' = Tail(stream) /\ kind' = kind
      /\ stream \in Seq(U) /\ got \in Seq(U)
  BY DEF ReadUnit, UnitsOK, Units, ConnTypeOK
<1>2. /\ Len(got) < PacketUnits /\ Len(got) + Len(stream) = PacketUnits
      /\ \A i \in 1..Len(got) : got[i] = Unit(c, i)
      /\ \A i \in 1..Len(stream) : stream[i] = Unit(c, Len(got) + i)
      /\ need = IF Len(got) < HeaderUnits THEN HeaderUnits ELSE PacketUnits
  BY <1>1 DEF Arriving
<1>3. Head(stream) = stream[1] /\ stream[1] \in U /\ Len(stream) >= 1
  <2> HIDE DEF U
  <2> QED BY <1>1
<1>4. /\ read \in Seq(U) /\ Len(read) = Len(got) + 1
      /\ \A i \in 1..Len(read) : read[i] = Unit(c, i)
  <2>1. stream[1] = Unit(c, Len(got) + 1)
    BY <1>2, <1>3
  <2> HIDE DEF U
  <2> QED BY <1>1, <1>2, <1>3, <2>1
<1>5. /\ Len(stream') = Len(stream) - 1
      /\ \A i \in 1..Len(stream') : stream'[i] = Unit(c, Len(read) + i)
  <2>1. /\ Len(stream') = Len(stream) - 1
        /\ \A i \in 1..Len(stream') : stream'[i] = stream[i + 1]
    <3> HIDE DEF U
    <3> QED BY <1>1
  <2>2. Len(stream) \in Nat /\ Len(got) \in Nat
    BY <1>1
  <2> QED BY <1>2, <1>4, <2>1, <2>2
<1>6. /\ Len(got) \in Nat /\ Len(stream) \in Nat
      /\ Len(got) < PacketUnits /\ Len(got) + Len(stream) = PacketUnits
      /\ need = IF Len(got) < HeaderUnits THEN HeaderUnits ELSE PacketUnits
  <2>1. Len(got) \in Nat /\ Len(stream) \in Nat
    <3> HIDE DEF U
    <3> QED BY <1>1
  <2> QED BY <1>2, <2>1
<1>7. CASE Len(read) < need
  <2>1. got' = read /\ UNCHANGED <<at, result, need>>
    BY <1>7 DEF ReadUnit
  <2> HIDE DEF read, U
  <2>2. need' = IF Len(got') < HeaderUnits THEN HeaderUnits ELSE PacketUnits
    BY <1>2, <1>4, <1>6, <1>7, <2>1 DEF HeaderUnits, PacketUnits
  <2> QED BY <1>1, <1>2, <1>4, <1>5, <1>6, <1>7, <2>1, <2>2 DEF Arriving, PacketUnits, HeaderUnits
<1>8. CASE ~(Len(read) < need) /\ need = HeaderUnits
  <2>1. Len(read) = HeaderUnits
    BY <1>2, <1>4, <1>6, <1>8 DEF HeaderUnits, PacketUnits
  <2>2. Lengths(read) = {PacketUnits}
    <3> HIDE DEF read
    <3> QED BY <1>4, <2>1, HeaderInStep
  <2>3. got' = read /\ need' = PacketUnits /\ UNCHANGED <<at, result>>
    BY <1>8, <2>2 DEF ReadUnit, PacketUnits
  <2> HIDE DEF read, U
  <2>4. /\ Len(got') = HeaderUnits /\ Len(got') + Len(stream') = PacketUnits
        /\ need' = PacketUnits
    <3>1. Len(got') = HeaderUnits /\ Len(stream') = Len(stream) - 1 /\ Len(got) + 1 = HeaderUnits
      BY <1>4, <1>5, <2>1, <2>3
    <3> QED BY <1>6, <2>3, <3>1
  <2>5. /\ \A i \in 1..Len(got') : got'[i] = Unit(c, i)
        /\ \A i \in 1..Len(stream') : stream'[i] = Unit(c, Len(got') + i)
    BY <1>4, <1>5, <2>3
  <2> QED BY <1>1, <2>3, <2>4, <2>5 DEF Arriving, PacketUnits, HeaderUnits
<1>9. CASE ~(Len(read) < need) /\ need # HeaderUnits
  <2>1. Len(read) = PacketUnits
    BY <1>2, <1>4, <1>6, <1>9 DEF HeaderUnits, PacketUnits
  <2>2. Content(read) = c
    <3> HIDE DEF read
    <3> QED BY <1>4, <2>1, ContentInStep
  <2>3. Return(c, c)
    BY <1>9, <2>2 DEF ReadUnit
  <2>4. stream' = <<>>
    <3>1. Len(stream) = 1
      <4>1. Len(got) + 1 = PacketUnits
        BY <1>4, <2>1
      <4>2. \A g, l \in Nat : g + 1 = 4 /\ g + l = 4 => l = 1
        OBVIOUS
      <4> QED BY <1>6, <4>1, <4>2 DEF PacketUnits
    <3> HIDE DEF U
    <3> QED BY <1>1, <3>1
  <2> QED BY <2>3, <2>4
<1> QED BY <1>7, <1>8, <1>9

\* Nobody reads, before and after.
LEMMA IdleInStep ==
    ASSUME InStep, Clean, ended # "self",
           \A c \in Callers : at[c] # "read" /\ at'[c] # "read",
           stream' = stream, inbox' = inbox, ended' \in {ended, "peer"}
    PROVE  InStep'
BY DEF InStep

\* A step of the peer, or of a call that does not hold the mutex: whoever
\* reads goes on, with the same on the way.
LEMMA OthersInStep ==
    ASSUME InStep, Clean, ended # "self",
           \A c \in Callers : at'[c] = "read" <=> at[c] = "read",
           UNCHANGED <<kind, stream, got, need>>,
           inbox' \in {inbox, <<>>}, ended' \in {ended, "peer"}
    PROVE  InStep'
BY DEF InStep, Arriving

\* The peer's answer to the only request under way leaves the calls in step.
LEMMA PeerInStep ==
    ASSUME ConnTypeOK, InStep, Clean, PeerAnswers PROVE InStep'
<1>1. /\ inbox # <<>> /\ ended = "no" /\ inbox' = Tail(inbox)
      /\ UNCHANGED <<kind, at, result, ended, got, need>>
  BY DEF PeerAnswers
<1>2. PICK c \in Callers : at[c] = "read"
  BY <1>1 DEF InStep
<1> SUFFICES ASSUME NEW d \in Callers, at[d] = "read"
             PROVE  Arriving(d)' /\ inbox' = <<>>
  BY <1>1, <1>2 DEF InStep
<1>3. stream = <<>> /\ got = <<>> /\ need = HeaderUnits /\ inbox = <<d>>
  BY <1>1 DEF InStep
<1>4. CASE kind = "dtls"
  <2>1. PICK size : stream' = <<>> \o <<Record(d, size)>>
    BY <1>3, <1>4 DEF PeerAnswers, Replies
  <2> QED BY <1>1, <1>3, <1>4, <2>1 DEF Arriving, Record
<1>5. CASE kind # "dtls"
  <2>1. stream' = <<>> \o Packet(d)
    BY <1>3, <1>5, NoneIsNoCaller DEF PeerAnswers, Replies
  <2>2. Len(stream') = PacketUnits /\ \A i \in 1..Len(stream') : stream'[i] = Unit(d, i)
    BY <2>1 DEF Packet, PacketUnits
  <2>3. Len(got) = 0 /\ \A i \in 1..Len(stream') : 0 + i = i
    BY <1>3, <2>2 DEF PacketUnits
  <2> QED BY <1>1, <1>3, <1>5, <2>2, <2>3 DEF Arriving, PacketUnits, HeaderUnits
<1> QED BY <1>4, <1>5

\* There is a record to read.
LEMMA RecordIsThere ==
    ASSUME ConnTypeOK, NEW c \in Callers, ReadRecord(c)
    PROVE  stream # <<>>
<1>1. \E i \in DOMAIN stream : TRUE
  BY DEF ReadRecord
<1>2. DOMAIN stream = 1..Len(stream)
  BY DEF ConnTypeOK
<1>3. Len(stream) # 0
  <2> SUFFICES ASSUME Len(stream) = 0 PROVE FALSE
    OBVIOUS
  <2> QED BY <1>1, <1>2
<1> QED BY <1>3

\* The step of a call: to its read, on with it, or out.
LEMMA InStepStep ==
    ASSUME ConnTypeOK, UnitsOK, TearInv, MutexInv, DeadlineInv, InStep, [ConnNext]_connVars
    PROVE  InStep'
<1> SUFFICES ASSUME Clean', ended' # "self" PROVE InStep'
  BY DEF InStep
<1> USE DEF netVars, readVars
<1>0. Clean /\ ended # "self" /\ kind' = kind
  BY CleanBefore
<1>1. at \in [Callers -> Places] /\ result \in [Callers -> Results]
  BY DEF ConnTypeOK, Places, Results
<1>2. CASE UNCHANGED connVars \/ PeerStalls \/ PeerCloses
  BY <1>0, <1>2, OthersInStep DEF connVars, PeerStalls, PeerCloses
<1>3. CASE PeerIgnores
  <2>1. inbox' = Tail(inbox) /\ UNCHANGED <<kind, at, ended, stream, got, need>>
    BY <1>3 DEF PeerIgnores
  <2>2. ended = "no" => inbox' = <<>>
    BY <1>0, <1>3, <2>1 DEF InStep, PeerIgnores
  <2> QED BY <1>0, <2>1, <2>2 DEF InStep, Arriving
<1>4. CASE PeerAnswers
  BY <1>0, <1>4, PeerInStep
<1>5. CASE Close
  BY <1>5 DEF Close
<1>6. ASSUME NEW c \in Callers, Exchange(c) \/ Lock(c) \/ Expire(c) PROVE InStep'
  <2>1. \A d \in Callers : at'[d] = "read" <=> at[d] = "read"
    BY <1>1, <1>6 DEF Exchange, Lock, Expire
  <2> QED BY <1>0, <1>6, <2>1, OthersInStep DEF Exchange, Lock, Expire
<1>7. ASSUME NEW c \in Callers, WritePacket(c) PROVE InStep'
  <2>1. \A d \in Callers : at[d] # "read" /\ (at'[d] = "read" => d = c)
    BY <1>1, <1>7 DEF WritePacket, MutexInv, Held
  <2>2. stream = <<>> /\ (ended = "no" => inbox = <<>>)
    BY <1>0, <2>1 DEF InStep
  <2>3. /\ stream' = <<>> /\ got' = <<>> /\ need' = HeaderUnits /\ ended' = ended
        /\ inbox' = Append(inbox, c) /\ at'[c] = "read"
    BY <1>0, <1>1, <1>7, <2>2 DEF WritePacket, TearInv, Clean
  <2>4. ended = "no" => inbox' = <<c>>
    BY <2>2, <2>3
  <2> QED BY <2>1, <2>3, <2>4 DEF InStep
<1>8. ASSUME NEW c \in Callers, WriteExpires(c) \/ WriteFails(c) PROVE InStep'
  <2>1. \A d \in Callers : at[d] # "read" /\ at'[d] # "read"
    BY <1>1, <1>8 DEF WriteExpires, WriteFails, Return, MutexInv, Held
  <2>2. ~WriteExpires(c)
    <3> SUFFICES ASSUME WriteExpires(c) PROVE FALSE
      OBVIOUS
    <3>1. kind = "tcp" /\ result'[c] = "deadline"
      BY <1>1, DeadlineIsTCP DEF WriteExpires, Return
    <3> QED BY <1>0, <3>1 DEF Clean
  <2> QED BY <1>0, <1>8, <2>1, <2>2, IdleInStep DEF WriteFails
<1>9. ASSUME NEW c \in Callers, at[c] = "read"
      PROVE  /\ \A d \in Callers \ {c} : at[d] # "read"
             /\ \/ stream = <<>> /\ got = <<>>
                \/ Arriving(c) /\ (ended = "no" => inbox = <<>>)
  BY <1>0, <1>9 DEF InStep, MutexInv, Held
<1>10. ASSUME NEW c \in Callers, ReadUnit(c) PROVE InStep'
  <2>1. /\ at[c] = "read" /\ stream # <<>> /\ UNCHANGED <<kind, inbox, ended>>
    BY <1>10 DEF ReadUnit, CanRead
  <2>2. Arriving(c) /\ (ended = "no" => inbox = <<>>)
    BY <1>9, <2>1
  <2>3. CASE Arriving(c)' /\ UNCHANGED <<at, result>>
    BY <1>9, <2>1, <2>2, <2>3 DEF InStep
  <2>4. CASE stream' = <<>> /\ Return(c, c)
    <3>1. \A d \in Callers : at'[d] # "read"
      BY <1>1, <1>9, <2>1, <2>4 DEF Return
    <3> QED BY <2>1, <2>2, <2>4, <3>1 DEF InStep
  <2> QED BY <1>10, <2>2, <2>3, <2>4, ReadUnitInStep
<1>11. ASSUME NEW c \in Callers, ReadRecord(c) PROVE InStep'
  <2>1. /\ at[c] = "read" /\ kind = "dtls" /\ stream # <<>> /\ UNCHANGED <<inbox, ended>>
    BY <1>11, RecordIsThere DEF ReadRecord, CanRead
  <2>2. Len(stream) = 1 /\ (ended = "no" => inbox = <<>>)
    BY <1>9, <2>1 DEF Arriving
  <2>3. PICK i \in DOMAIN stream :
           IF stream[i].part = Fits
           THEN stream' = Without(i) /\ Return(c, stream[i].of)
           ELSE Return(c, "buffer too small")
    BY <1>11 DEF ReadRecord
  <2>4. ~Return(c, "buffer too small")
    BY <1>0, <1>1, <2>1 DEF Clean, Return
  <2>5. stream' = <<>>
    <3>1. i = 1 /\ stream \in Seq([of : Callers \cup {None}, part : Fits..Oversize])
      BY <2>2 DEF ConnTypeOK
    <3>2. Without(1) = <<>>
      BY <2>2, <3>1 DEF Without
    <3> QED BY <2>3, <2>4, <3>1, <3>2
  <2>6. \A d \in Callers : at'[d] # "read"
    BY <1>1, <1>9, <2>1, <2>3, <2>4 DEF Return
  <2> QED BY <2>1, <2>2, <2>5, <2>6 DEF InStep
<1>12. ASSUME NEW c \in Callers, ReadTimesOut(c) PROVE InStep'
  BY <1>1, <1>12 DEF ReadTimesOut, Return, Clean
<1>13. ASSUME NEW c \in Callers, ReadEnds(c) PROVE InStep'
  <2>1. /\ at[c] = "read" /\ stream' = <<>> /\ ended' = "peer"
        /\ at' = [at EXCEPT ![c] = "done"]
    BY <1>0, <1>13 DEF ReadEnds, Return
  <2>2. \A d \in Callers : at'[d] # "read"
    BY <1>1, <1>9, <2>1
  <2> QED BY <2>1, <2>2 DEF InStep
<1> QED BY <1>2, <1>3, <1>4, <1>5, <1>6, <1>7, <1>8, <1>10, <1>11, <1>12, <1>13
        DEF ConnNext, Proceed

-----------------------------------------------------------------------------
\* The invariant holds of every connection, over TCP, TLS and DTLS.
THEOREM ConnInvariance == ConnSpec => []ConnInv
<1>1. ConnInit => ConnInv
  BY ConnInitially
<1>2. ConnInv /\ [ConnNext]_connVars => ConnInv'
  BY ConnTypeStep, TearStep, MutexStep, DeadlineStep, UntimedStep, InStepStep DEF ConnInv
<1> QED BY <1>1, <1>2, PTL DEF ConnSpec

\* tcp.go:246: only a deadline left by an earlier Exchange can end one that has
\* none, and only while it writes over TCP.
THEOREM UntimedCallsFailByStaleDeadlines == ConnSpec => []UntimedCallFailsOnlyByAStaleDeadline
<1>1. ConnInv => UntimedCallFailsOnlyByAStaleDeadline
  BY DEF ConnInv
<1> QED BY <1>1, ConnInvariance, PTL

\* tcp.go:251, 254, framed.go:44: until an Exchange has failed by a deadline, in
\* its read or over TCP in its write, or over DTLS a record has not fitted, no
\* call returns what is not the reply to it.
THEOREM CallsStayInStep == ConnSpec => OutOfStepOnlyAfterTimeout
<1> DEFINE Lost(c) == \E d \in Callers \ {c} :
                         \/ result[d] = "timeout"
                         \/ kind = "tcp" /\ result[d] = "deadline"
                         \/ kind = "dtls" /\ result[d] = "buffer too small"
           A == \A c \in Callers : Foreign(c)' /\ ~Foreign(c) => Lost(c)
<1>1. ASSUME ConnInv, [ConnNext]_connVars, NEW c \in Callers, Foreign(c)', ~Foreign(c), ~Lost(c)
      PROVE  FALSE
  <2>1. result \in [Callers -> Results] /\ ConnTypeOK /\ UnitsOK /\ MutexInv /\ InStep
    BY <1>1 DEF ConnInv, ConnTypeOK, Results
  <2>2. /\ None \notin Answers
        /\ {None, "closed", "deadline", "timeout", "malformed", "buffer too small"}
              \cap Answers = {}
    BY NoneIsNoCaller, ResultsTellApart DEF Answers, Failures
  <2>3. PICK r \in Results \ {None} : at[c] \in Held /\ Return(c, r) /\ r \in Answers \ {c}
    <3>1. result'[c] # result[c] /\ result'[c] \in Answers \ {c}
      BY <1>1 DEF Foreign
    <3> QED BY <1>1, <2>1, <3>1, Moves DEF Return
  <2>4. Clean
    <3>1. result[c] = None
      BY <2>1, <2>3 DEF MutexInv, Held
    <3> QED BY <1>1, <2>1, <2>2, <3>1, ResultsTellApart DEF Clean, Failures
  <2>5. ReadUnit(c) \/ ReadRecord(c)
    <3>1. result' = [result EXCEPT ![c] = r] /\ at' = [at EXCEPT ![c] = "done"] /\ result[c] # r
      BY <2>1, <2>3 DEF Return, MutexInv, Held, Results
    <3>2. PICK d \in Callers : Proceed(d)
      BY <1>1, <2>1, <3>1 DEF ConnNext, connVars, netVars, readVars, Exchange, Expire, Close,
             PeerAnswers, PeerIgnores, PeerStalls, PeerCloses
    <3>3. \A s : Return(d, s) => d = c /\ s = r
      BY <2>1, <3>1 DEF Return
    <3> QED BY <2>1, <2>2, <2>3, <3>1, <3>2, <3>3 DEF Proceed, Lock, WritePacket,
               WriteExpires, WriteFails, ReadTimesOut, ReadEnds, ReadUnit, ReadRecord
  <2>6. at[c] = "read" /\ ended # "self" /\ stream # <<>>
    BY <2>1, <2>5, RecordIsThere DEF ReadUnit, ReadRecord, CanRead
  <2>7. Arriving(c)
    BY <2>1, <2>4, <2>6 DEF InStep
  <2>8. CASE ReadUnit(c)
    <3>1. Return(c, c) \/ UNCHANGED result
      BY <2>1, <2>7, <2>8, ReadUnitInStep
    <3> QED BY <1>1, <2>1, <3>1 DEF Return, Foreign
  <2>9. CASE ReadRecord(c)
    <3>1. kind = "dtls" /\ Len(stream) = 1 /\ stream[1].of = c
      BY <2>7, <2>9 DEF ReadRecord, Arriving
    <3>2. PICK i \in DOMAIN stream : Return(c, stream[i].of) \/ Return(c, "buffer too small")
      BY <2>9 DEF ReadRecord
    <3>3. i = 1
      BY <2>1, <3>1 DEF ConnTypeOK
    <3> QED BY <1>1, <2>1, <2>2, <3>1, <3>2, <3>3 DEF Return, Foreign
  <2> QED BY <2>5, <2>8, <2>9
<1>2. ConnInv /\ [ConnNext]_connVars => [A]_connVars
  BY <1>1
<1> QED BY <1>2, ConnInvariance, PTL DEF ConnSpec, OutOfStepOnlyAfterTimeout

-----------------------------------------------------------------------------
(* Accepting                                                               *)

\* Where the connection that call a's goroutine took is: with the goroutine,
\* in the channel, with the caller, closed, or lost by a cancellation.
AcceptorInv(a) ==
    /\ worker[a] \in {"none", "accepting"} => taken[a] = Nobody
    /\ worker[a] # "ended" => channel[a] = Nobody /\ returned[a] \notin Outcomes
    /\ worker[a] = "none" <=> call[a] = "idle"
    /\ worker[a] = "handshake" => taken[a] \in Peers /\ peer[taken[a]] = "taken"
    /\ call[a] # "done" => returned[a] = Nobody
    /\ call[a] = "done" => returned[a] # Nobody
    /\ channel[a] \in Peers => taken[a] = channel[a] /\ peer[channel[a]] = "up"
    /\ returned[a] \in Peers => taken[a] = returned[a] /\ peer[returned[a]] = "up"
    /\ worker[a] = "ended" /\ taken[a] \in Peers =>
          \/ peer[taken[a]] = "closed"
          \/ /\ peer[taken[a]] = "up"
             /\ call[a] = "blocked" => channel[a] = taken[a]
             /\ call[a] = "done" => returned[a] \in {taken[a], "canceled"}

ListenInv ==
    /\ ListenTypeOK
    /\ \A a \in Acceptors : AcceptorInv(a)
    /\ \A a \in Acceptors : taken[a] \in Peers => peer[taken[a]] \in {"taken", "up", "closed"}
    /\ \A a, b \in Acceptors : taken[a] \in Peers /\ taken[a] = taken[b] => a = b

\* The invariant of the listeners holds before any call of Accept.
LEMMA ListenInitially == ListenInit => ListenInv
BY NobodyElse, OutcomesTellApart
   DEF ListenInit, ListenInv, ListenTypeOK, AcceptorInv, Outcomes

\* A call of Accept starts with a goroutine that holds nothing.
LEMMA AcceptKeepsInv ==
    ASSUME ListenInv, NEW a \in Acceptors, Accept(a) PROVE ListenInv'
BY DEF ListenInv, ListenTypeOK, AcceptorInv, Accept

\* The peer a goroutine takes is no other goroutine's.
LEMMA TakePeerKeepsInv ==
    ASSUME ListenInv, NEW a \in Acceptors, TakePeer(a) PROVE ListenInv'
<1>1. PICK p \in Peers :
         /\ peer[p] = "queued" /\ peer' = [peer EXCEPT ![p] = "taken"]
         /\ taken' = [taken EXCEPT ![a] = p]
  BY DEF TakePeer
<1>2. \A b \in Acceptors : taken[b] # p
  BY <1>1 DEF ListenInv
<1>3. ListenTypeOK'
  BY <1>1 DEF ListenInv, ListenTypeOK, TakePeer
<1>4. ASSUME NEW b \in Acceptors PROVE AcceptorInv(b)'
  BY <1>1, <1>2, NobodyElse DEF ListenInv, ListenTypeOK, AcceptorInv, TakePeer
<1> QED BY <1>1, <1>2, <1>3, <1>4 DEF ListenInv, ListenTypeOK

\* The goroutine ends: it sends what it has, and closes what it does not send.
LEMMA GoroutineEndsKeepsInv ==
    ASSUME ListenInv, NEW a \in Acceptors,
           ListenerClosed(a) \/ HandshakeDone(a) \/ HandshakeFails(a)
    PROVE  ListenInv'
<1>1. /\ worker[a] \in {"accepting", "handshake"} /\ worker' = [worker EXCEPT ![a] = "ended"]
      /\ UNCHANGED <<layer, listening, canceled, call, returned, taken>>
      /\ \/ /\ worker[a] = "accepting" /\ peer' = peer
            /\ channel' = [channel EXCEPT ![a] = "error"]
         \/ /\ worker[a] = "handshake" /\ channel' = [channel EXCEPT ![a] = taken[a]]
            /\ peer' = [peer EXCEPT ![taken[a]] = "up"]
         \/ /\ worker[a] = "handshake" /\ channel' = [channel EXCEPT ![a] = "error"]
            /\ peer' = [peer EXCEPT ![taken[a]] = "closed"]
  BY DEF ListenerClosed, HandshakeDone, HandshakeFails, Send
<1>2. worker[a] = "handshake" => taken[a] \in Peers
  BY DEF ListenInv, AcceptorInv
<1>3. ListenTypeOK'
  BY <1>1, <1>2 DEF ListenInv, ListenTypeOK, Outcomes
<1>4. ASSUME NEW b \in Acceptors PROVE AcceptorInv(b)'
  <2>1. CASE b = a
    BY <1>1, <1>2, <2>1, NobodyElse, OutcomesTellApart
       DEF ListenInv, ListenTypeOK, AcceptorInv, Outcomes
  <2>2. CASE b # a
    BY <1>1, <1>2, <2>2 DEF ListenInv, ListenTypeOK, AcceptorInv
  <2> QED BY <2>1, <2>2
<1> QED BY <1>1, <1>2, <1>3, <1>4 DEF ListenInv, ListenTypeOK

\* The call returns: with what was sent, or without.
LEMMA ReturnKeepsInv ==
    ASSUME ListenInv, NEW a \in Acceptors, ReturnCanceled(a) \/ ReturnOutcome(a)
    PROVE  ListenInv'
<1>1. /\ call[a] = "blocked" /\ call' = [call EXCEPT ![a] = "done"]
      /\ UNCHANGED <<layer, listening, canceled, worker, taken, peer>>
      /\ \/ /\ returned' = [returned EXCEPT ![a] = "canceled"] /\ channel' = channel
         \/ /\ channel[a] # Nobody /\ returned' = [returned EXCEPT ![a] = channel[a]]
            /\ channel' = [channel EXCEPT ![a] = Nobody]
  BY DEF ReturnCanceled, ReturnOutcome
<1>2. ListenTypeOK'
  BY <1>1 DEF ListenInv, ListenTypeOK
<1>3. ASSUME NEW b \in Acceptors PROVE AcceptorInv(b)'
  <2>1. CASE b = a
    BY <1>1, <2>1, NobodyElse, OutcomesTellApart
       DEF ListenInv, ListenTypeOK, AcceptorInv, Outcomes
  <2>2. CASE b # a
    BY <1>1, <2>2 DEF ListenInv, ListenTypeOK, AcceptorInv
  <2> QED BY <2>1, <2>2
<1> QED BY <1>1, <1>2, <1>3 DEF ListenInv

\* The rest of the world: contexts, the listener, clients that connect.
LEMMA AroundKeepsInv ==
    ASSUME ListenInv,
           \/ UNCHANGED listenVars \/ CloseListener
           \/ \E a \in Acceptors : Cancel(a)
           \/ \E p \in Peers : Connect(p)
    PROVE  ListenInv'
<1>1. CASE UNCHANGED listenVars \/ CloseListener \/ \E a \in Acceptors : Cancel(a)
  <2>1. UNCHANGED <<layer, call, returned, worker, taken, channel, peer>>
    BY <1>1 DEF listenVars, CloseListener, Cancel
  <2>2. listening' \in BOOLEAN /\ canceled' \subseteq Acceptors
    BY <1>1 DEF listenVars, CloseListener, Cancel, ListenInv, ListenTypeOK
  <2>3. ListenTypeOK'
    BY <2>1, <2>2 DEF ListenInv, ListenTypeOK
  <2>4. ASSUME NEW b \in Acceptors PROVE AcceptorInv(b)'
    <3>1. AcceptorInv(b)
      BY DEF ListenInv
    <3> QED BY <2>1, <3>1 DEF AcceptorInv
  <2> QED BY <2>1, <2>3, <2>4 DEF ListenInv
<1>2. ASSUME NEW p \in Peers, Connect(p) PROVE ListenInv'
  BY <1>2 DEF Connect, ListenInv, ListenTypeOK, AcceptorInv
<1> QED BY <1>1, <1>2

\* The invariant holds of both listeners, for any number of concurrent calls.
THEOREM ListenInvariance == ListenSpec => []ListenInv
<1>1. ListenInit => ListenInv
  BY ListenInitially
<1>2. ListenInv /\ [ListenNext]_listenVars => ListenInv'
  BY AcceptKeepsInv, TakePeerKeepsInv, GoroutineEndsKeepsInv, ReturnKeepsInv,
     AroundKeepsInv DEF ListenNext, AcceptStep, Abandon
<1> QED BY <1>1, <1>2, PTL DEF ListenSpec

\* tls.go:82, dtls.go:73: an accepted connection is somebody's, or closed,
\* unless its call was canceled; and never two callers'.
THEOREM OnlyCancelStrands == ListenSpec => []StrandedOnlyByCancel
<1>1. ListenInv => StrandedOnlyByCancel
  <2> SUFFICES ASSUME ListenInv, NEW p \in Peers PROVE
        /\ \A a \in Acceptors :
             taken[a] = p /\ worker[a] = "ended" /\ peer[p] # "closed" /\ ~Owned(p)
               => returned[a] = "canceled"
        /\ peer[p] = "closed" => ~Owned(p)
        /\ \A a, b \in Acceptors : returned[a] = p /\ returned[b] = p => a = b
    BY DEF StrandedOnlyByCancel
  <2>1. ASSUME NEW a \in Acceptors, taken[a] = p, worker[a] = "ended", peer[p] # "closed", ~Owned(p)
        PROVE  returned[a] = "canceled"
    <3>1. AcceptorInv(a) /\ call[a] \in {"idle", "blocked", "done"}
      BY DEF ListenInv, ListenTypeOK
    <3>2. call[a] # "idle"
      BY <2>1, <3>1 DEF AcceptorInv
    <3> QED BY <2>1, <3>1, <3>2 DEF AcceptorInv, Owned
  <2>2. \A a \in Acceptors : returned[a] = p \/ channel[a] = p => peer[p] = "up" /\ taken[a] = p
    BY DEF ListenInv, AcceptorInv
  <2> QED BY <2>1, <2>2 DEF Owned, ListenInv
<1> QED BY <1>1, ListenInvariance, PTL
=============================================================================
