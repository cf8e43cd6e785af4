--------------------------- MODULE UDPServerProofs ---------------------------
(***************************************************************************)
(* Every step of the server is a step of module Deduplicator or leaves the *)
(* Deduplicator alone, so what is proved of that module holds in the       *)
(* server.  On top of it, SInv gives the two properties of the server:     *)
(* the WaitGroup counts the goroutines, and once a Shutdown has seen it at *)
(* zero the closed socket lets nothing in but the packet Serve holds.      *)
(*                                                                         *)
(* Every step of module EndToEnd is a step of the server and of the        *)
(* client, or leaves them alone, so what is proved of either holds in the  *)
(* whole.  On top of both, EndInv accounts for the datagrams and replies   *)
(* between them: what is in flight, and whose reply the client may find.   *)
(***************************************************************************)
EXTENDS EndToEnd, DeduplicatorProofs, FiniteSetTheorems

\* A new server has a new Deduplicator (WithUDPDedup).
LEMMA ServerInitImplements == ServerInit => Init
BY DEF ServerInit

\* A goroutine's step is a step of the Deduplicator or leaves it alone.
LEMMA HandleOneImplements ==
    ASSUME NEW c \in Callers, HandleOne(c) PROVE [Next]_vars
<1>1. CASE Malformed(c) \/ AnswerDuplicate(c) \/ SendReply(c)
  BY <1>1 DEF Malformed, AnswerDuplicate, SendReply
<1>2. CASE Accept(c)
  BY <1>2 DEF Accept, Next, Step
<1>3. CASE DetectDuplicate(c)
  BY <1>3 DEF DetectDuplicate, Next, Step
<1>4. CASE LookupCached(c)
  BY <1>4 DEF LookupCached, Next, Step
<1>5. CASE HandlerSilent(c)
  BY <1>5 DEF HandlerSilent, Next, Step
<1>6. CASE HandlerReplies(c)
  BY <1>6 DEF HandlerReplies, Next, Step
<1> QED BY <1>1, <1>2, <1>3, <1>4, <1>5, <1>6 DEF HandleOne

\* So is every step of the server.
LEMMA ServerStepImplements == [ServerNext]_serverVars => [Next]_vars
<1> SUFFICES ASSUME [ServerNext]_serverVars PROVE [Next]_vars
  OBVIOUS
<1>1. ASSUME NEW c \in Callers, ServeStep(c) PROVE UNCHANGED vars
  BY <1>1 DEF ServeStep, ReadPacket, UnknownClient, Dispatch, DispatchPanics
<1>2. ASSUME NEW c \in Callers, HandleOne(c) PROVE [Next]_vars
  BY <1>2, HandleOneImplements
<1>3. ASSUME NEW s \in Stoppers, Shutdown(s) PROVE UNCHANGED vars
  BY <1>3 DEF Shutdown, ShutdownCloses, WaitStarts, WaitWakes, ShutdownReturns,
              ShutdownExpires
<1>4. CASE DoneReleases \/ ReadFails \/ CancelContext \/ Close
  BY <1>4 DEF DoneReleases, ReadFails, CancelContext, Close
<1>5. CASE Clock
  BY <1>5 DEF Clock, Next
<1>6. CASE UNCHANGED serverVars
  BY <1>6 DEF serverVars
<1> QED BY <1>1, <1>2, <1>3, <1>4, <1>5, <1>6 DEF ServerNext

\* The server takes the Deduplicator's steps, so that module's invariant holds
\* in the server.
LEMMA ServerTakesItsSteps == ServerSpec => Spec
BY ServerInitImplements, ServerStepImplements, PTL DEF ServerSpec, Spec

THEOREM ServerKeepsIInv == ServerSpec => []IInv
BY ServerTakesItsSteps, Invariance, PTL

-----------------------------------------------------------------------------
RunningSet == {c \in Callers : at[c] \in Running}

\* The WaitGroup's counter is the number of goroutines not yet done.
CountInv == IsFiniteSet(RunningSet) /\ wg = Cardinality(RunningSet)

\* Serve holds one packet at most.
HeldInv ==
    /\ \A c \in Callers : at[c] = "held" => loop = "holding"
    /\ \A c, d \in Callers : at[c] = "held" /\ at[d] = "held" => c = d

\* A helper goroutine has seen the counter at zero, or somebody has for it.
SeenZero ==
    \/ \E s \in Stoppers : helper[s] \in {"woken", "returned"} \/ stop[s] = "nil"
    \/ panicked

\* A Shutdown that has begun has closed the socket; the counter at zero then
\* leaves at most the packet held.
StopInv ==
    /\ \A s \in Stoppers : stop[s] # "idle" \/ helper[s] # "none" => ~open
    /\ panicked => ~open
    /\ SeenZero => \A c, d \in Callers : Unfinished(c) /\ Unfinished(d) => c = d

\* With a Deduplicator a goroutine about to reply has stored its reply.
ReplyingInv ==
    Dedup => \A c \in Callers : at[c] = "replying" => call[c].at = "stored"

\* What was sent comes from a run of the key, or from two.
SentInv ==
    Dedup =>
    \A c \in Callers : \A r \in sent[c] :
        \/ r \in RunsFor(DedupKey(c))
        \/ r = Torn /\ \E d, e \in RunsFor(DedupKey(c)) : d # e

SInv ==
    /\ ServerTypeOK
    /\ CountInv
    /\ HeldInv
    /\ StopInv
    /\ ReplyingInv
    /\ SentInv

\* The server's invariant holds before Serve reads (NewUDPServer).
THEOREM ServerInitSInv == ServerInit => SInv
<1> SUFFICES ASSUME ServerInit PROVE SInv
  OBVIOUS
<1>1. RunningSet = {}
  BY DEF ServerInit, RunningSet, Running
<1>2. CountInv
  BY <1>1, FS_EmptySet DEF ServerInit, CountInv
<1>3. TypeOK
  BY InitIInv DEF ServerInit, IInv
<1>4. ServerTypeOK
  BY <1>3 DEF ServerInit, ServerTypeOK, Places
<1>5. HeldInv /\ StopInv /\ ReplyingInv /\ SentInv
  BY DEF ServerInit, HeldInv, StopInv, SeenZero, ReplyingInv, SentInv
<1> QED BY <1>2, <1>4, <1>5 DEF SInv

\* Moving a goroutine that runs between two running places does not change
\* the set the counter counts; starting and finishing do, by one.
LEMMA MoveCounts ==
    ASSUME CountInv, at \in [Callers -> Places], NEW c \in Callers, NEW p \in Places,
           Move(c, p)
    PROVE  /\ at[c] \in Running /\ p \in Running /\ wg' = wg => CountInv'
           /\ at[c] \notin Running /\ p \notin Running /\ wg' = wg => CountInv'
           /\ at[c] \notin Running /\ p \in Running /\ wg' = wg + 1 => CountInv'
           /\ at[c] \in Running /\ p \notin Running /\ wg' = wg - 1 => CountInv'
<1>1. at' = [at EXCEPT ![c] = p]
  BY DEF Move
<1>2. CASE (at[c] \in Running) = (p \in Running)
  <2>1. RunningSet' = RunningSet
    BY <1>1, <1>2 DEF RunningSet
  <2> QED BY <1>2, <2>1 DEF CountInv
<1>3. CASE at[c] \notin Running /\ p \in Running
  <2>1. RunningSet' = RunningSet \cup {c} /\ c \notin RunningSet
    BY <1>1, <1>3 DEF RunningSet
  <2> QED BY <1>3, <2>1, FS_AddElement DEF CountInv
<1>4. CASE at[c] \in Running /\ p \notin Running
  <2>1. RunningSet' = RunningSet \ {c} /\ c \in RunningSet
    BY <1>1, <1>4 DEF RunningSet
  <2> QED BY <1>4, <2>1, FS_RemoveElement DEF CountInv
<1> QED BY <1>2, <1>3, <1>4

\* Every step of handleOne moves its goroutine among the running places, or
\* finishes it, and leaves Serve and the Shutdown calls alone.
LEMMA HandleOneShape ==
    ASSUME SInv, NEW c \in Callers, HandleOne(c)
    PROVE  /\ at[c] \in Running
           /\ UNCHANGED <<socketVars, stopVars>>
           /\ \/ UNCHANGED <<at, wg>>
              \/ \E p \in Running : Move(c, p) /\ UNCHANGED wg
              \/ Finish(c)
<1> USE DEF Running, Finish
<1>1. CASE Malformed(c) \/ AnswerDuplicate(c) \/ SendReply(c)
  BY <1>1 DEF Malformed, AnswerDuplicate, SendReply
<1>2. CASE Accept(c)
  BY <1>2 DEF Accept
<1>3. CASE DetectDuplicate(c)
  BY <1>3 DEF DetectDuplicate
<1>4. CASE LookupCached(c)
  BY <1>4 DEF LookupCached
<1>5. CASE HandlerSilent(c) \/ HandlerReplies(c)
  BY <1>5 DEF HandlerSilent, HandlerReplies
<1> QED BY <1>1, <1>2, <1>3, <1>4, <1>5 DEF HandleOne

\* The types of the server's own variables.
OwnTypeOK ==
    /\ at \in [Callers -> Places]
    /\ loop \in {"reading", "holding", "exited"}
    /\ serveErr \in {"none", "context", "closed"}
    /\ open \in BOOLEAN
    /\ ctx \in {"live", "canceled", "expired"}
    /\ wg \in Nat
    /\ stop \in [Stoppers -> {"idle", "waiting", "nil", "gaveUp"}]
    /\ helper \in [Stoppers -> {"none", "starting", "blocked", "woken", "returned"}]
    /\ overdue \subseteq Stoppers
    /\ panicked \in BOOLEAN

SentTypeOK == sent \in [Callers -> SUBSET (Callers \cup {Torn})]

\* A step of a goroutine keeps the counter, Serve's packet, and the set of
\* unfinished requests from growing.
LEMMA HandleOneCounts ==
    ASSUME SInv, NEW c \in Callers, HandleOne(c)
    PROVE  OwnTypeOK' /\ CountInv' /\ HeldInv' /\ StopInv'
<1>0. OwnTypeOK /\ at \in [Callers -> Places]
  BY DEF SInv, ServerTypeOK, OwnTypeOK
<1>1. /\ at[c] \in Running
      /\ UNCHANGED <<loop, serveErr, open, ctx, stop, helper, overdue, panicked>>
  BY HandleOneShape DEF socketVars, stopVars
<1>2. CASE UNCHANGED <<at, wg>>
  BY <1>0, <1>1, <1>2 DEF SInv, OwnTypeOK, CountInv, HeldInv, StopInv,
                          SeenZero, RunningSet, Unfinished
<1>3. ASSUME NEW p \in Running \cup {"done"}, Move(c, p),
             CountInv', wg' \in Nat
      PROVE  OwnTypeOK' /\ CountInv' /\ HeldInv' /\ StopInv'
  <2>1. /\ p \in Places /\ p # "held"
        /\ at[c] # "held" /\ Unfinished(c)
    BY <1>1 DEF Places, Running, Unfinished
  <2>2. /\ at' \in [Callers -> Places]
        /\ at'[c] = p
        /\ \A d \in Callers \ {c} : at'[d] = at[d]
    BY <1>0, <1>3, <2>1 DEF Move
  <2>3. OwnTypeOK'
    BY <1>0, <1>1, <1>3, <2>2 DEF OwnTypeOK
  <2>4. HeldInv'
    BY <1>1, <2>1, <2>2 DEF SInv, HeldInv
  <2>5. \A d \in Callers : Unfinished(d)' => Unfinished(d)
    BY <2>1, <2>2 DEF Unfinished
  <2>6. StopInv'
    BY <1>1, <2>5 DEF SInv, StopInv, SeenZero
  <2> QED BY <1>3, <2>3, <2>4, <2>6
<1>4. ASSUME NEW p \in Running, Move(c, p), UNCHANGED wg
      PROVE  OwnTypeOK' /\ CountInv' /\ HeldInv' /\ StopInv'
  <2>1. CountInv'
    BY <1>0, <1>1, <1>4, MoveCounts DEF SInv, Places
  <2> QED BY <1>0, <1>3, <1>4, <2>1 DEF OwnTypeOK
<1>5. CASE Finish(c)
  <2>1. Move(c, "done") /\ wg' = wg - 1 /\ "done" \notin Running /\ "done" \in Places
    BY <1>5 DEF Finish, Running, Places
  <2>2. CountInv'
    BY <1>0, <1>1, <2>1, MoveCounts DEF SInv
  <2>3. wg' \in Nat
    BY <2>2, FS_CardinalityType DEF CountInv
  <2> QED BY <1>3, <2>1, <2>2, <2>3
<1> QED BY <1>2, <1>4, <1>5, HandleOneShape

\* A step that sends nothing and leaves the replying goroutines alone.
LEMMA QuietSends ==
    ASSUME SInv, IInv, [Next]_vars, UNCHANGED sent
    PROVE  SentTypeOK' /\ SentInv'
<1>1. \A c \in Callers : RunsFor(DedupKey(c)) \subseteq RunsFor(DedupKey(c))'
  BY RunsStay DEF RunsFor, DedupKey
<1>2. SentTypeOK'
  BY DEF SInv, ServerTypeOK, SentTypeOK
<1>3. SentInv'
  BY <1>1 DEF SInv, SentInv, DedupKey
<1> QED BY <1>2, <1>3

\* A reply that stems from a run of the key may be sent.
LEMMA SendKeeps ==
    ASSUME SInv, IInv, [Next]_vars, NEW c \in Callers, NEW r \in Callers \cup {Torn},
           SendPacket(c, r),
           Dedup => \/ r \in RunsFor(DedupKey(c))
                    \/ r = Torn /\ \E d, e \in RunsFor(DedupKey(c)) : d # e
    PROVE  SentTypeOK' /\ SentInv'
<1>1. \A k : RunsFor(k) \subseteq RunsFor(k)'
  BY RunsStay DEF RunsFor, DedupKey
<1>2. sent \in [Callers -> SUBSET (Callers \cup {Torn})]
  BY DEF SInv, ServerTypeOK
<1>3. sent' = sent \/ sent' = [sent EXCEPT ![c] = @ \cup {r}]
  BY DEF SendPacket
<1>4. SentTypeOK'
  BY <1>2, <1>3 DEF SentTypeOK
<1>5. \A d \in Callers : \A q \in sent'[d] : q \in sent[d] \/ (d = c /\ q = r)
  BY <1>2, <1>3
<1>6. SentInv'
  BY <1>1, <1>5 DEF SInv, SentInv, DedupKey
<1> QED BY <1>4, <1>6

\* What a goroutine sends is its own stored reply, or what Lookup found.
LEMMA HandleOneSends ==
    ASSUME SInv, IInv, NEW c \in Callers, HandleOne(c)
    PROVE  SentTypeOK' /\ SentInv' /\ ReplyingInv'
<1>0. /\ at \in [Callers -> Places]
      /\ call \in [Callers -> [at : Phases, now : Nat, ptr : Callers \cup {None},
                               got : Replies \cup {Torn}]]
  BY DEF SInv, ServerTypeOK, TypeOK
<1>1. [Next]_vars
  BY HandleOneImplements
<1>2. ASSUME NEW p \in Places, Move(c, p) \/ UNCHANGED at, p # "replying"
      PROVE  ReplyingInv'
  <2>1. \A d \in Callers : at'[d] = "replying" => at[d] = "replying"
    BY <1>0, <1>2 DEF Move
  <2> QED BY <1>1, <2>1, RunsStay DEF SInv, ReplyingInv
<1>3. CASE UNCHANGED sent /\ \E p \in Places : p # "replying" /\ (Move(c, p) \/ UNCHANGED at)
  BY <1>1, <1>2, <1>3, QuietSends
<1>4. CASE HandlerReplies(c)
  <2>1. \A d \in Callers \ {c} : at'[d] = at[d]
    BY <1>0, <1>4 DEF HandlerReplies, Move
  <2>2. Dedup => call'[c].at = "stored"
    BY <1>0, <1>4 DEF HandlerReplies, Store, Goto
  <2>3. ReplyingInv'
    BY <1>1, <2>1, <2>2, RunsStay DEF SInv, ReplyingInv
  <2> QED BY <1>1, <1>4, <2>3, QuietSends DEF HandlerReplies
<1>5. CASE AnswerDuplicate(c)
  <2>1. Move(c, "done") /\ "done" \in Places /\ at[c] = "duplicate"
    BY <1>5 DEF AnswerDuplicate, Finish, Places
  <2>2. ReplyingInv'
    BY <1>2, <2>1
  <2>3. CASE call[c].at = "hit" /\ SendPacket(c, call[c].got)
    <3>1. CASE call[c].got = Torn
      <4>1. \E d, e \in RunsFor(DedupKey(c)) : d # e
        BY <3>1 DEF IInv, TornOnlyAfterSlowHandler, AllocInv, RunsFor
      <4> QED BY <1>1, <2>2, <2>3, <3>1, <4>1, SendKeeps
    <3>2. CASE call[c].got # Torn
      <4>1. Published(call[c].got, DedupKey(c))
        BY <2>3, <3>2 DEF IInv, ReplyInv
      <4>2. call[c].got \in RunsFor(DedupKey(c))
        BY <4>1 DEF IInv, AllocInv, RunsFor, Published
      <4>3. call[c].got \in Callers
        BY <4>1 DEF Published
      <4> QED BY <1>1, <2>2, <2>3, <4>2, <4>3, SendKeeps
    <3> QED BY <3>1, <3>2
  <2>4. CASE UNCHANGED sent
    BY <1>1, <2>2, <2>4, QuietSends
  <2> QED BY <1>5, <2>3, <2>4 DEF AnswerDuplicate
<1>6. CASE SendReply(c)
  <2>1. Move(c, "done") /\ "done" \in Places /\ at[c] = "replying" /\ SendPacket(c, c)
    BY <1>6 DEF SendReply, Finish, Places
  <2>2. Dedup => c \in RunsFor(DedupKey(c))
    BY <2>1 DEF SInv, ReplyingInv, IInv, AllocInv, RunsFor
  <2> QED BY <1>1, <1>2, <2>1, <2>2, SendKeeps
<1>7. CASE Malformed(c) \/ Accept(c) \/ DetectDuplicate(c) \/ LookupCached(c) \/ HandlerSilent(c)
  <2>1. UNCHANGED sent
    BY <1>7 DEF Malformed, Accept, DetectDuplicate, LookupCached, HandlerSilent
  <2>2. \/ UNCHANGED at \/ Move(c, "done") \/ Move(c, "seen")
        \/ Move(c, "handling") \/ Move(c, "duplicate")
    BY <1>7 DEF Malformed, Accept, DetectDuplicate, LookupCached, HandlerSilent, Finish
  <2>3. {"done", "seen", "handling", "duplicate"} \subseteq Places \ {"replying"}
    BY DEF Places, Running
  <2> QED BY <1>3, <2>1, <2>2, <2>3
<1> QED BY <1>4, <1>5, <1>6, <1>7 DEF HandleOne

\* At a counter of zero only the packet that Serve holds is unfinished.
LEMMA NoneRunningAtZero ==
    ASSUME SInv, wg = 0
    PROVE  \A c, d \in Callers : Unfinished(c) /\ Unfinished(d) => c = d
<1>1. RunningSet = {}
  BY FS_EmptySet DEF SInv, CountInv
<1>2. \A c \in Callers : Unfinished(c) => at[c] = "held"
  BY <1>1 DEF RunningSet, Unfinished
<1> QED BY <1>2 DEF SInv, HeldInv

\* Serve's steps: the packet it holds, and the WaitGroup.
LEMMA ServeKeepsSInv ==
    ASSUME SInv, IInv, NEW c \in Callers, ServeStep(c)
    PROVE  OwnTypeOK' /\ CountInv' /\ HeldInv' /\ StopInv' /\ ReplyingInv'
<1>0. OwnTypeOK /\ at \in [Callers -> Places]
  BY DEF SInv, ServerTypeOK, OwnTypeOK
<1>1. /\ UNCHANGED <<vars, serveErr, open, ctx, stop, helper, overdue>>
      /\ ~DispatchPanics(c) => UNCHANGED panicked
  BY DEF ServeStep, ReadPacket, UnknownClient, Dispatch, DispatchPanics, socketVars, stopVars
<1>2. CASE ReadPacket(c)
  <2>1. /\ Move(c, "held") /\ at[c] = "net" /\ wg' = wg /\ open
        /\ loop = "reading" /\ loop' = "holding" /\ panicked' = panicked
    BY <1>0, <1>2 DEF ReadPacket, stopVars, OwnTypeOK
  <2>2. /\ at' \in [Callers -> Places] /\ at'[c] = "held"
        /\ \A d \in Callers \ {c} : at'[d] = at[d]
    BY <1>0, <2>1 DEF Move, Places
  <2>3. CountInv'
    BY <1>0, <2>1, MoveCounts DEF SInv, Places, Running
  <2>4. OwnTypeOK'
    BY <1>0, <1>1, <2>1, <2>2 DEF OwnTypeOK
  <2>5. HeldInv'
    BY <2>1, <2>2 DEF SInv, HeldInv
  <2>6. ~panicked /\ \A s \in Stoppers : stop[s] = "idle" /\ helper[s] = "none"
    BY <1>0, <2>1 DEF SInv, StopInv, OwnTypeOK
  <2>7. StopInv'
    <3>1. UNCHANGED <<stop, helper, panicked>>
      BY <1>2 DEF ReadPacket, stopVars
    <3> QED BY <2>6, <3>1 DEF StopInv, SeenZero
  <2>8. ReplyingInv'
    BY <1>1, <2>2 DEF SInv, ReplyingInv, vars
  <2> QED BY <2>3, <2>4, <2>5, <2>7, <2>8
<1>3. ASSUME NEW p \in {"done", "queued"}, Move(c, p), at[c] = "held",
             loop' = "reading", CountInv', UNCHANGED panicked
      PROVE  OwnTypeOK' /\ CountInv' /\ HeldInv' /\ StopInv' /\ ReplyingInv'
  <2>1. p \in Places /\ p # "held" /\ p # "replying" /\ Unfinished(c)
    BY <1>3 DEF Places, Running, Unfinished
  <2>2. /\ at' \in [Callers -> Places] /\ at'[c] = p
        /\ \A d \in Callers \ {c} : at'[d] = at[d]
    BY <1>0, <1>3, <2>1 DEF Move
  <2>3. wg' \in Nat
    BY <1>3, FS_CardinalityType DEF CountInv
  <2>4. OwnTypeOK'
    BY <1>0, <1>1, <1>3, <2>2, <2>3 DEF OwnTypeOK
  <2>5. HeldInv'
    BY <1>3, <2>1, <2>2 DEF SInv, HeldInv
  <2>6. \A d \in Callers : Unfinished(d)' => Unfinished(d)
    BY <2>1, <2>2 DEF Unfinished
  <2>7. StopInv'
    BY <1>1, <1>3, <2>6 DEF SInv, StopInv, SeenZero
  <2>8. ReplyingInv'
    BY <1>1, <2>1, <2>2 DEF SInv, ReplyingInv, vars
  <2> QED BY <1>3, <2>4, <2>5, <2>7, <2>8
<1>4. CASE UnknownClient(c)
  <2>1. /\ Move(c, "done") /\ at[c] = "held" /\ loop' = "reading"
        /\ wg' = wg /\ UNCHANGED panicked
    BY <1>4 DEF UnknownClient, stopVars
  <2>2. CountInv'
    BY <1>0, <2>1, MoveCounts DEF SInv, Places, Running
  <2> QED BY <1>3, <2>1, <2>2
<1>5. CASE Dispatch(c)
  <2>1. /\ Move(c, "queued") /\ at[c] = "held" /\ loop' = "reading"
        /\ wg' = wg + 1 /\ UNCHANGED panicked
    BY <1>5 DEF Dispatch, stopVars
  <2>2. CountInv'
    BY <1>0, <2>1, MoveCounts DEF SInv, Places, Running
  <2> QED BY <1>3, <2>1, <2>2
<1>6. CASE DispatchPanics(c)
  <2>1. UNCHANGED <<at, loop, wg, call>> /\ panicked' = TRUE /\ wg = 0 /\ Asleep # {}
    BY <1>6 DEF DispatchPanics, socketVars, vars
  <2>2. OwnTypeOK'
    BY <1>0, <1>1, <2>1 DEF OwnTypeOK
  <2>3. CountInv' /\ HeldInv' /\ ReplyingInv'
    BY <2>1 DEF SInv, CountInv, RunningSet, HeldInv, ReplyingInv
  <2>4. ~open
    BY <2>1 DEF Asleep, SInv, StopInv
  <2>5. \A d, e \in Callers : Unfinished(d) /\ Unfinished(e) => d = e
    BY <2>1, NoneRunningAtZero
  <2>6. StopInv'
    BY <1>1, <2>1, <2>4, <2>5 DEF SInv, StopInv, Unfinished
  <2> QED BY <2>2, <2>3, <2>6
<1> QED BY <1>2, <1>4, <1>5, <1>6 DEF ServeStep

\* Shutdown's steps, and what wg.Wait does: whoever goes on, or panics, has
\* seen the counter at zero.
LEMMA ShutdownKeepsSInv ==
    ASSUME SInv, DoneReleases \/ \E s \in Stoppers : Shutdown(s)
    PROVE  OwnTypeOK' /\ CountInv' /\ HeldInv' /\ StopInv' /\ ReplyingInv'
<1>0. OwnTypeOK
  BY DEF SInv, ServerTypeOK, OwnTypeOK
<1>1. UNCHANGED <<vars, at, loop, serveErr, ctx, wg>>
  BY DEF DoneReleases, Shutdown, ShutdownCloses, WaitStarts, WaitWakes, ShutdownReturns,
         ShutdownExpires, socketVars
<1>2. CountInv' /\ HeldInv' /\ ReplyingInv'
  BY <1>1 DEF SInv, CountInv, RunningSet, HeldInv, ReplyingInv, vars
<1>3. ASSUME OwnTypeOK', ~open',
             SeenZero' => SeenZero \/ wg = 0
      PROVE  OwnTypeOK' /\ CountInv' /\ HeldInv' /\ StopInv' /\ ReplyingInv'
  <2>1. wg = 0 => \A c, d \in Callers : Unfinished(c) /\ Unfinished(d) => c = d
    BY NoneRunningAtZero
  <2>2. StopInv'
    BY <1>1, <1>3, <2>1 DEF SInv, StopInv, Unfinished
  <2> QED BY <1>2, <1>3, <2>2
<1>4. ASSUME NEW s \in Stoppers, ShutdownCloses(s)
      PROVE  OwnTypeOK' /\ CountInv' /\ HeldInv' /\ StopInv' /\ ReplyingInv'
  <2>1. /\ stop' = [stop EXCEPT ![s] = "waiting"]
        /\ helper' = [helper EXCEPT ![s] = "starting"]
        /\ open' = FALSE /\ UNCHANGED <<overdue, panicked>>
    BY <1>4 DEF ShutdownCloses
  <2>2. OwnTypeOK'
    BY <1>0, <1>1, <2>1 DEF OwnTypeOK
  <2> QED BY <1>0, <1>3, <2>1, <2>2 DEF OwnTypeOK, SeenZero
<1>5. ASSUME NEW s \in Stoppers, WaitStarts(s)
      PROVE  OwnTypeOK' /\ CountInv' /\ HeldInv' /\ StopInv' /\ ReplyingInv'
  <2>1. /\ helper[s] = "starting"
        /\ helper' = [helper EXCEPT ![s] = IF wg = 0 THEN "returned" ELSE "blocked"]
        /\ UNCHANGED <<open, stop, overdue, panicked>>
    BY <1>5 DEF WaitStarts, socketVars
  <2>2. OwnTypeOK'
    BY <1>0, <1>1, <2>1 DEF OwnTypeOK
  <2>3. ~open'
    BY <2>1 DEF SInv, StopInv
  <2> QED BY <1>0, <1>3, <2>1, <2>2, <2>3 DEF OwnTypeOK, SeenZero
<1>6. CASE DoneReleases
  <2>1. /\ helper' = [s \in Stoppers |-> IF s \in Asleep THEN "woken" ELSE helper[s]]
        /\ wg = 0 /\ Asleep # {} /\ UNCHANGED <<open, stop, overdue, panicked>>
    BY <1>6 DEF DoneReleases, socketVars
  <2>2. OwnTypeOK'
    BY <1>0, <1>1, <2>1 DEF OwnTypeOK
  <2>3. ~open'
    BY <2>1 DEF SInv, StopInv, Asleep
  <2> QED BY <1>3, <2>1, <2>2, <2>3
<1>7. ASSUME NEW s \in Stoppers, WaitWakes(s)
      PROVE  OwnTypeOK' /\ CountInv' /\ HeldInv' /\ StopInv' /\ ReplyingInv'
  <2>1. /\ helper[s] = "woken"
        /\ helper' = helper \/ helper' = [helper EXCEPT ![s] = "returned"]
        /\ panicked' = panicked \/ panicked' = TRUE
        /\ UNCHANGED <<open, stop, overdue>>
    BY <1>7 DEF WaitWakes, socketVars
  <2>2. OwnTypeOK'
    BY <1>0, <1>1, <2>1 DEF OwnTypeOK
  <2>3. ~open' /\ SeenZero
    BY <2>1 DEF SInv, StopInv, SeenZero
  <2> QED BY <1>3, <2>2, <2>3
<1>8. ASSUME NEW s \in Stoppers, ShutdownReturns(s) \/ ShutdownExpires(s)
      PROVE  OwnTypeOK' /\ CountInv' /\ HeldInv' /\ StopInv' /\ ReplyingInv'
  <2>1. /\ \/ stop' = stop
           \/ stop[s] # "idle" /\ stop' = [stop EXCEPT ![s] = "gaveUp"]
           \/ /\ stop[s] # "idle" /\ helper[s] = "returned"
              /\ stop' = [stop EXCEPT ![s] = "nil"]
        /\ overdue' = overdue \/ overdue' = overdue \cup {s}
        /\ UNCHANGED <<open, helper, panicked>>
    BY <1>8 DEF ShutdownReturns, ShutdownExpires, socketVars
  <2>2. OwnTypeOK'
    BY <1>0, <1>1, <2>1 DEF OwnTypeOK
  <2>3. \A r \in Stoppers : stop'[r] # "idle" => stop[r] # "idle"
    BY <1>0, <2>1 DEF OwnTypeOK
  <2>4. SeenZero' => SeenZero
    BY <1>0, <2>1 DEF OwnTypeOK, SeenZero
  <2>5. StopInv'
    BY <1>1, <2>1, <2>3, <2>4 DEF SInv, StopInv, Unfinished
  <2> QED BY <1>2, <2>2, <2>5
<1> QED BY <1>4, <1>5, <1>6, <1>7, <1>8 DEF Shutdown

\* The socket fails or closes, the context ends, time passes, or nothing.
LEMMA OthersKeepSInv ==
    ASSUME SInv, IInv,
           ReadFails \/ CancelContext \/ Close \/ Clock \/ UNCHANGED serverVars
    PROVE  OwnTypeOK' /\ CountInv' /\ HeldInv' /\ StopInv' /\ ReplyingInv'
<1>0. OwnTypeOK
  BY DEF SInv, ServerTypeOK, OwnTypeOK
<1>1. /\ UNCHANGED <<at, wg, stop, helper, overdue, panicked, call>>
      /\ open' \in BOOLEAN /\ (~open => ~open')
      /\ loop' \in {loop, "exited"} /\ (loop = "holding" => loop' = "holding")
      /\ serveErr' \in {serveErr, "context", "closed"}
      /\ ctx' \in {ctx, "canceled", "expired"}
  <2>1. CASE ReadFails
    BY <1>0, <2>1 DEF ReadFails, vars, stopVars, OwnTypeOK
  <2>2. CASE CancelContext
    BY <1>0, <2>2 DEF CancelContext, vars, stopVars, OwnTypeOK
  <2>3. CASE Close
    BY <1>0, <2>3 DEF Close, vars, stopVars, OwnTypeOK
  <2>4. CASE Clock
    BY <1>0, <2>4 DEF Clock, Tick, socketVars, stopVars, OwnTypeOK
  <2>5. CASE UNCHANGED serverVars
    BY <1>0, <2>5 DEF serverVars, vars, socketVars, stopVars, OwnTypeOK
  <2> QED BY <2>1, <2>2, <2>3, <2>4, <2>5
<1>2. OwnTypeOK'
  BY <1>0, <1>1 DEF OwnTypeOK
<1>3. CountInv' /\ HeldInv' /\ StopInv' /\ ReplyingInv'
  BY <1>1 DEF SInv, CountInv, RunningSet, HeldInv, StopInv, SeenZero, Unfinished,
              ReplyingInv
<1> QED BY <1>2, <1>3

\* Every step of the server keeps its invariant.
LEMMA StepSInv == SInv /\ IInv /\ IInv' /\ [ServerNext]_serverVars => SInv'
<1> SUFFICES ASSUME SInv, IInv, IInv', [ServerNext]_serverVars PROVE SInv'
  OBVIOUS
<1>1. [Next]_vars
  BY ServerStepImplements
<1>2. ASSUME OwnTypeOK', CountInv', HeldInv', StopInv', ReplyingInv',
             SentTypeOK', SentInv'
      PROVE  SInv'
  <2>1. TypeOK'
    BY DEF IInv
  <2>2. ServerTypeOK'
    BY <1>2, <2>1 DEF OwnTypeOK, SentTypeOK, ServerTypeOK
  <2> QED BY <1>2, <2>2 DEF SInv
<1>3. ASSUME NEW c \in Callers, HandleOne(c) PROVE SInv'
  BY <1>2, <1>3, HandleOneCounts, HandleOneSends
<1>4. ASSUME NEW c \in Callers, ServeStep(c) PROVE SInv'
  <2>1. UNCHANGED sent
    BY <1>4 DEF ServeStep, ReadPacket, UnknownClient, Dispatch, DispatchPanics
  <2> QED BY <1>1, <1>2, <1>4, <2>1, ServeKeepsSInv, QuietSends
<1>5. CASE DoneReleases \/ \E s \in Stoppers : Shutdown(s)
  <2>1. UNCHANGED sent
    BY <1>5 DEF DoneReleases, Shutdown, ShutdownCloses, WaitStarts, WaitWakes,
                ShutdownReturns, ShutdownExpires
  <2> QED BY <1>1, <1>2, <1>5, <2>1, ShutdownKeepsSInv, QuietSends
<1>6. CASE ReadFails \/ CancelContext \/ Close \/ Clock \/ UNCHANGED serverVars
  <2>1. UNCHANGED sent
    BY <1>6 DEF ReadFails, CancelContext, Close, Clock, serverVars
  <2> QED BY <1>1, <1>2, <1>6, <2>1, OthersKeepSInv, QuietSends
<1> QED BY <1>3, <1>4, <1>5, <1>6 DEF ServerNext

\* The server's invariant, from the Deduplicator's.
THEOREM ServerInvariance == ServerSpec => []SInv
BY ServerInitSInv, ServerKeepsIInv, StepSInv, PTL DEF ServerSpec

\* Every variable of the server keeps its type; the counter stays natural,
\* so wg.Done never takes it below zero.
THEOREM ServerTypeCorrect == ServerSpec => []ServerTypeOK
<1>1. SInv => ServerTypeOK
  BY DEF SInv
<1> QED BY <1>1, ServerInvariance, PTL

\* However many requests and Shutdown calls there are, a nil result of
\* Shutdown leaves one request unfinished at most (UDPServer.Shutdown).
THEOREM ShutdownDrains == ServerSpec => []ShutdownLeavesAtMostOne
<1>1. SInv => ShutdownLeavesAtMostOne
  BY DEF SInv, StopInv, SeenZero, ShutdownLeavesAtMostOne
<1> QED BY <1>1, ServerInvariance, PTL

\* A duplicate is answered with the first answer or not at all, whatever
\* the number of requests, for every key that ran its handler once.
THEOREM DuplicatesAreAnsweredAlike == ServerSpec => []DuplicatesGetTheSameReply
<1>1. SInv => DuplicatesGetTheSameReply
  <2> SUFFICES ASSUME SInv, Dedup, NEW c \in Callers, NEW d \in Callers,
                      RunsFor(DedupKey(c)) = {d}, NEW r \in sent[c]
               PROVE  r = d
    BY DEF DuplicatesGetTheSameReply
  <2> QED BY DEF SInv, SentInv
<1> QED BY <1>1, ServerInvariance, PTL

-----------------------------------------------------------------------------
\* A caller that Seen told to run its handler is with the handler; without a
\* Deduplicator there is none.
HandlingInv ==
    /\ \A c \in Callers : call[c].at = "first" => at[c] = "handling"
    /\ ~Dedup => \A c \in Callers : call[c].at = "idle"

\* A step of the goroutine's own keeps it so.
LEMMA HandleOneHandles ==
    ASSUME SInv, IInv, HandlingInv, NEW c \in Callers, HandleOne(c) PROVE HandlingInv'
<1>1. /\ call \in [Callers -> [at : Phases, now : Nat, ptr : Callers \cup {None},
                               got : Replies \cup {Torn}]]
      /\ at \in [Callers -> Places]
  BY DEF SInv, ServerTypeOK, IInv, TypeOK
<1>2. /\ \A d \in Callers \ {c} : call'[d] = call[d] /\ at'[d] = at[d]
      /\ call'[c].at = "first" => at'[c] = "handling"
      /\ ~Dedup => call'[c] = call[c]
  <2>1. CASE Malformed(c) \/ AnswerDuplicate(c) \/ SendReply(c)
    BY <1>1, <2>1 DEF Malformed, AnswerDuplicate, SendReply, Finish, Move, vars, HandlingInv
  <2>2. CASE Accept(c)
    BY <1>1, <2>2 DEF Accept, SeenReadsClock, Move, vars, HandlingInv
  <2>3. CASE DetectDuplicate(c)
    <3>1. call[c].at = "seen" /\ Dedup
      BY <2>3 DEF DetectDuplicate, SeenLocked, HandlingInv
    <3>2. \A d \in Callers \ {c} : call'[d] = call[d] /\ at'[d] = at[d]
      BY <1>1, <2>3 DEF DetectDuplicate, SeenLocked, Goto, Move
    <3>3. call'[c].at = "first" => at'[c] = "handling"
      BY <1>1, <2>3 DEF DetectDuplicate, Move
    <3> QED BY <3>1, <3>2, <3>3
  <2>4. CASE LookupCached(c)
    BY <1>1, <2>4 DEF LookupCached, Lookup, LookupLocked, LookupWakes, LookupCopies, HandlingInv
  <2>5. CASE HandlerSilent(c)
    BY <1>1, <2>5 DEF HandlerSilent, Abandon, Goto, Finish, Move, vars, HandlingInv
  <2>6. CASE HandlerReplies(c)
    BY <1>1, <2>6 DEF HandlerReplies, Store, Goto, Move, vars, HandlingInv
  <2> QED BY <2>1, <2>2, <2>3, <2>4, <2>5, <2>6 DEF HandleOne
<1> QED BY <1>2 DEF HandlingInv

\* So does every other step.
LEMMA StepHandlingInv ==
    SInv /\ IInv /\ HandlingInv /\ [ServerNext]_serverVars => HandlingInv'
<1> SUFFICES ASSUME SInv, IInv, HandlingInv, [ServerNext]_serverVars PROVE HandlingInv'
  OBVIOUS
<1>1. ASSUME NEW c \in Callers, ServeStep(c) PROVE HandlingInv'
  <2>1. at \in [Callers -> Places]
    BY DEF SInv, ServerTypeOK
  <2>2. /\ call' = call /\ at[c] # "handling"
        /\ \A d \in Callers \ {c} : at'[d] = at[d]
    BY <1>1, <2>1 DEF ServeStep, ReadPacket, UnknownClient, Dispatch, DispatchPanics, Move,
                      vars
  <2> QED BY <2>2 DEF HandlingInv
<1>2. CASE \/ DoneReleases \/ \E s \in Stoppers : Shutdown(s)
           \/ ReadFails \/ CancelContext \/ Close \/ Clock \/ UNCHANGED serverVars
  <2>1. call' = call /\ at' = at
    BY <1>2 DEF DoneReleases, Shutdown, ShutdownCloses, WaitStarts, WaitWakes,
                ShutdownReturns, ShutdownExpires, ReadFails, CancelContext, Close, Clock, Tick, serverVars, vars
  <2> QED BY <2>1 DEF HandlingInv
<1> QED BY <1>1, <1>2, HandleOneHandles DEF ServerNext

\* Requests that Shutdown waits for do not wait for each other: a duplicate
\* that cannot go on has a first request whose handler can (server.go:206-300).
THEOREM CountedRequestsProgress == ServerSpec => []CountedRequestsGoOn
<1>1. ServerInit => HandlingInv
  BY DEF ServerInit, Init, HandlingInv
<1>2. SInv /\ IInv /\ OpenInv /\ HandlingInv => CountedRequestsGoOn
  <2> SUFFICES ASSUME SInv, IInv, OpenInv, HandlingInv, NoSilentHandler, wg > 0
               PROVE  \E c \in Callers : at[c] \in Running /\ ~Blocked(c)
    BY DEF CountedRequestsGoOn
  <2>1. PICK c \in Callers : at[c] \in Running
    <3>1. Cardinality(RunningSet) # 0
      BY DEF SInv, CountInv
    <3>2. RunningSet # {}
      BY <3>1, FS_EmptySet
    <3> QED BY <3>2 DEF RunningSet
  <2>2. CASE Blocked(c)
    <3> DEFINE e == call[c].ptr
    <3>1. e \in Callers /\ entry[e].done = "open"
      BY <2>2 DEF Blocked, IInv, PointerInv
    <3>2. call[e].at = "first"
      BY <3>1 DEF OpenInv, NoSilentHandler
    <3>3. at[e] = "handling" /\ ~Blocked(e)
      BY <3>1, <3>2 DEF HandlingInv, Blocked
    <3> QED BY <3>1, <3>3 DEF Running
  <2> QED BY <2>1, <2>2
<1>3. ServerSpec => []OpenInv
  BY ServerTakesItsSteps, OpenChannelsHaveCallers, PTL
<1> QED BY <1>1, <1>2, <1>3, StepHandlingInv, ServerInvariance, ServerKeepsIInv, PTL
    DEF ServerSpec

-----------------------------------------------------------------------------
(* What is sent, and when: each request is answered once at most, when its *)
(* goroutine ends, with a published reply of its key or a torn copy.       *)

\* Two handlers of the key published their replies, one too late.
SlowKey(k) ==
    \E d, e \in Callers :
        /\ d # e /\ DedupKey(d) = k /\ DedupKey(e) = k
        /\ call[d].at = "stored" /\ call[e].at = "stored"
        /\ now >= entry[d].expires

\* A reply that may be sent to a request.
Answers(r, c) ==
    IF Dedup THEN Published(r, DedupKey(c)) \/ (r = Torn /\ SlowKey(DedupKey(c)))
             ELSE r = c

AnswerInv ==
    /\ \A c \in Callers : at[c] \in {"net", "held", "queued"} => call[c].at = "idle"
    /\ \A c \in Callers : sent[c] # {} => at[c] = "done"
    /\ \A c \in Callers : \A r, q \in sent[c] : r = q
    /\ \A c \in Callers : \A r \in sent[c] : Answers(r, c)

\* Two replies that were published, one too late, remain so.
LEMMA SlowPairStays ==
    ASSUME IInv, [Next]_vars, NEW d \in Callers, NEW e \in Callers,
           call[d].at = "stored", call[e].at = "stored", now >= entry[d].expires
    PROVE  call'[d].at = "stored" /\ call'[e].at = "stored" /\ now' >= entry'[d].expires
<1>1. call'[d].at = "stored" /\ call'[e].at = "stored"
  BY RunsStay
<1>2. now' >= now /\ entry'[d].expires = entry[d].expires
  BY ExpiryStays DEF IInv, AllocInv
<1>3. now \in Nat /\ now' \in Nat /\ entry[d].expires \in Nat
  BY StepIInv DEF IInv, TypeOK
<1> QED BY <1>1, <1>2, <1>3

\* A reply that may be sent may be sent later.
LEMMA AnswersStay ==
    ASSUME IInv, [Next]_vars, NEW c \in Callers, NEW r, Answers(r, c)
    PROVE  Answers(r, c)'
<1>1. ASSUME Published(r, DedupKey(c)) PROVE Published(r, DedupKey(c))'
  <2>1. r \in Callers /\ call[r].at = "stored" /\ DedupKey(r) = DedupKey(c)
    BY <1>1 DEF Published
  <2>2. call'[r].at = "stored"
    BY <2>1, RunsStay
  <2> QED BY <2>1, <2>2 DEF Published, DedupKey
<1>2. ASSUME SlowKey(DedupKey(c)) PROVE SlowKey(DedupKey(c))'
  <2>1. PICK d \in Callers, e \in Callers :
                /\ d # e /\ DedupKey(d) = DedupKey(c) /\ DedupKey(e) = DedupKey(c)
                /\ call[d].at = "stored" /\ call[e].at = "stored"
                /\ now >= entry[d].expires
    BY <1>2 DEF SlowKey
  <2>2. /\ call'[d].at = "stored" /\ call'[e].at = "stored"
        /\ now' >= entry'[d].expires
    BY <2>1, SlowPairStays
  <2> QED BY <2>1, <2>2 DEF SlowKey, DedupKey
<1> QED BY <1>1, <1>2 DEF Answers

\* A goroutine that runs leaves the other requests alone and is not put back.
LEMMA HandleOneIsLocal ==
    ASSUME SInv, IInv, NEW c \in Callers, HandleOne(c)
    PROVE  /\ \A d \in Callers \ {c} : call'[d] = call[d] /\ at'[d] = at[d]
           /\ at'[c] \notin {"net", "held", "queued"}
<1>1. /\ call \in [Callers -> [at : Phases, now : Nat, ptr : Callers \cup {None},
                               got : Replies \cup {Torn}]]
      /\ at \in [Callers -> Places]
  BY DEF SInv, ServerTypeOK, IInv, TypeOK
<1>2. \A d \in Callers \ {c} : call'[d] = call[d]
  BY <1>1 DEF HandleOne, Malformed, AnswerDuplicate, SendReply, Accept, SeenReadsClock,
              DetectDuplicate, SeenLocked, LookupCached, Lookup, LookupLocked, LookupWakes,
              LookupCopies, HandlerSilent, Abandon, HandlerReplies, Store, Goto, vars
<1>3. \/ at' = at /\ at[c] = "duplicate"
      \/ \E p \in {"done", "seen", "handling", "duplicate", "replying"} : Move(c, p)
  BY DEF HandleOne, Malformed, AnswerDuplicate, SendReply, Accept, DetectDuplicate,
         LookupCached, HandlerSilent, HandlerReplies, Finish
<1>4. /\ \A d \in Callers \ {c} : at'[d] = at[d]
      /\ at'[c] \notin {"net", "held", "queued"}
  BY <1>1, <1>3 DEF Move
<1> QED BY <1>2, <1>4

\* A goroutine sends nothing, or its one answer as it ends.
LEMMA HandleOneAnswers ==
    ASSUME SInv, IInv, HandlingInv, AnswerInv, NEW c \in Callers, HandleOne(c)
    PROVE  \/ sent' = sent
           \/ /\ at'[c] = "done"
              /\ \E r \in Callers \cup {Torn} :
                    sent' = [sent EXCEPT ![c] = @ \cup {r}] /\ Answers(r, c)
<1>1. at \in [Callers -> Places]
  BY DEF SInv, ServerTypeOK
<1>2. CASE AnswerDuplicate(c)
  <2>1. at'[c] = "done"
    BY <1>1, <1>2 DEF AnswerDuplicate, Finish, Move
  <2>2. CASE call[c].at = "hit" /\ SendPacket(c, call[c].got)
    <3>1. Dedup
      BY <2>2 DEF HandlingInv
    <3>2. CASE call[c].got = Torn
      <4>1. SlowKey(DedupKey(c))
        BY <3>2 DEF IInv, TornOnlyAfterSlowHandler, SlowKey
      <4> QED BY <2>1, <2>2, <3>1, <3>2, <4>1 DEF SendPacket, Answers
    <3>3. CASE call[c].got # Torn
      <4>1. Published(call[c].got, DedupKey(c))
        BY <2>2, <3>3 DEF IInv, ReplyInv
      <4>2. call[c].got \in Callers
        BY <4>1 DEF Published
      <4> QED BY <2>1, <2>2, <3>1, <4>1, <4>2 DEF SendPacket, Answers
    <3> QED BY <3>2, <3>3
  <2> QED BY <1>2, <2>2 DEF AnswerDuplicate
<1>3. CASE SendReply(c)
  <2>1. at'[c] = "done" /\ SendPacket(c, c) /\ at[c] = "replying"
    BY <1>1, <1>3 DEF SendReply, Finish, Move
  <2>2. Answers(c, c)
    BY <2>1 DEF SInv, ReplyingInv, Answers, Published
  <2> QED BY <2>1, <2>2 DEF SendPacket
<1>4. CASE Malformed(c) \/ Accept(c) \/ DetectDuplicate(c) \/ LookupCached(c)
           \/ HandlerSilent(c) \/ HandlerReplies(c)
  BY <1>4 DEF Malformed, Accept, DetectDuplicate, LookupCached, HandlerSilent, HandlerReplies
<1> QED BY <1>2, <1>3, <1>4 DEF HandleOne

\* Every step of the server keeps what is said of its answers.
LEMMA StepAnswerInv ==
    SInv /\ IInv /\ HandlingInv /\ AnswerInv /\ [ServerNext]_serverVars => AnswerInv'
<1> SUFFICES ASSUME SInv, IInv, HandlingInv, AnswerInv, [ServerNext]_serverVars
             PROVE  AnswerInv'
  OBVIOUS
<1>0. at \in [Callers -> Places] /\ sent \in [Callers -> SUBSET (Callers \cup {Torn})]
  BY DEF SInv, ServerTypeOK
<1>1. \A c \in Callers : \A r : Answers(r, c) => Answers(r, c)'
  BY ServerStepImplements, AnswersStay
<1>2. ASSUME sent' = sent, NEW c \in Callers, \A d \in Callers \ {c} : at'[d] = at[d],
             at[c] # "done"
      PROVE  /\ \A d \in Callers : sent'[d] # {} => at'[d] = "done"
             /\ \A d \in Callers : \A r, q \in sent'[d] : r = q
             /\ \A d \in Callers : \A r \in sent'[d] : Answers(r, d)'
  <2>1. sent[c] = {}
    BY <1>2 DEF AnswerInv
  <2> QED BY <1>1, <1>2, <2>1 DEF AnswerInv
<1>3. ASSUME NEW c \in Callers, HandleOne(c) PROVE AnswerInv'
  <2>1. /\ \A d \in Callers \ {c} : call'[d] = call[d] /\ at'[d] = at[d]
        /\ at'[c] \notin {"net", "held", "queued"} /\ at[c] # "done"
    BY <1>3, HandleOneIsLocal, HandleOneShape DEF Running
  <2>2. \A d \in Callers : at'[d] \in {"net", "held", "queued"} => call'[d].at = "idle"
    BY <2>1 DEF AnswerInv
  <2>3. CASE sent' = sent
    BY <1>2, <2>1, <2>2, <2>3 DEF AnswerInv
  <2>4. ASSUME at'[c] = "done", NEW r \in Callers \cup {Torn},
               sent' = [sent EXCEPT ![c] = @ \cup {r}], Answers(r, c)
        PROVE  AnswerInv'
    <3>1. sent[c] = {}
      BY <2>1 DEF AnswerInv
    <3>2. sent'[c] = {r} /\ \A d \in Callers \ {c} : sent'[d] = sent[d]
      BY <1>0, <2>4, <3>1
    <3>3. \A d \in Callers : sent'[d] # {} => at'[d] = "done"
      BY <2>1, <2>4, <3>2 DEF AnswerInv
    <3>4. \A d \in Callers : \A p, q \in sent'[d] : p = q
      BY <3>2 DEF AnswerInv
    <3>5. \A d \in Callers : \A p \in sent'[d] : Answers(p, d)'
      BY <1>1, <2>4, <3>2 DEF AnswerInv
    <3> QED BY <2>2, <3>3, <3>4, <3>5 DEF AnswerInv
  <2> QED BY <1>3, <2>3, <2>4, HandleOneAnswers
<1>4. ASSUME NEW c \in Callers, ServeStep(c) PROVE AnswerInv'
  <2>1. /\ sent' = sent /\ call' = call
        /\ at[c] \in {"net", "held"} /\ \A d \in Callers \ {c} : at'[d] = at[d]
    BY <1>0, <1>4 DEF ServeStep, ReadPacket, UnknownClient, Dispatch, DispatchPanics, Move,
                      vars
  <2>2. \A d \in Callers : at'[d] \in {"net", "held", "queued"} => call'[d].at = "idle"
    BY <2>1 DEF AnswerInv
  <2> QED BY <1>2, <2>1, <2>2 DEF AnswerInv
<1>5. CASE \/ DoneReleases \/ \E s \in Stoppers : Shutdown(s)
           \/ ReadFails \/ CancelContext \/ Close \/ Clock \/ UNCHANGED serverVars
  <2>1. call' = call /\ at' = at /\ sent' = sent
    BY <1>5 DEF DoneReleases, Shutdown, ShutdownCloses, WaitStarts, WaitWakes,
                ShutdownReturns, ShutdownExpires, ReadFails, CancelContext, Close, Clock, Tick, serverVars, vars
  <2> QED BY <1>1, <2>1 DEF AnswerInv
<1> QED BY <1>3, <1>4, <1>5 DEF ServerNext

\* Before Serve reads, nothing has been sent.
LEMMA InitAnswerInv == ServerInit => AnswerInv /\ HandlingInv
BY DEF ServerInit, Init, AnswerInv, HandlingInv

-----------------------------------------------------------------------------
(* End to end: the client, the network and the server of module EndToEnd.  *)

\* What is proved of the client, of its instance here.
CP == INSTANCE ProtocolClientProofs WITH None <- NoOne, ctx <- clientCtx, open <- clientOpen

LEMMA ClientConstants ==
    CP!SeedHoldsEveryId /\ CP!NoneIsNoIdOrUser /\ CP!AttemptsAssumption /\ CP!TimedAssumption
BY Zenon, ClientAssumptions
   DEF Client!SeedHoldsEveryId, Client!NoneIsNoIdOrUser, Client!AttemptsAssumption,
       Client!TimedAssumption, CP!SeedHoldsEveryId, CP!NoneIsNoIdOrUser,
       CP!AttemptsAssumption, CP!TimedAssumption

\* The two instances of module ProtocolClient are one: the initial states ...
LEMMA ClientInitIs == Client!ClientInit => CP!ClientInit
BY Zenon DEF Client!ClientInit, CP!ClientInit, Client!PoolInit, CP!PoolInit

\* ... and the steps, group by group.
LEMMA BeginIs ==
    ASSUME NEW c \in Users
    PROVE  /\ Client!Begin(c) <=> CP!Begin(c)
           /\ Client!BeginCanceled(c) <=> CP!BeginCanceled(c)
BY Zenon
   DEF Client!Begin, CP!Begin, Client!BeginCanceled, CP!BeginCanceled,
       Client!Acquire, CP!Acquire, Client!AcquireCanceled, CP!AcquireCanceled,
       Client!Holds, CP!Holds, Client!Capacity, CP!Capacity, Client!poolVars,
       CP!poolVars, Client!netVars, CP!netVars

\* Up to the datagram that is sent.
LEMMA SendIs ==
    ASSUME NEW c \in Users
    PROVE  /\ Client!EncodeFails(c) <=> CP!EncodeFails(c)
           /\ Client!Send(c) <=> CP!Send(c)
           /\ Client!SendExpired(c) <=> CP!SendExpired(c)
BY Zenon
   DEF Client!EncodeFails, CP!EncodeFails, Client!Send, CP!Send, Client!SendExpired,
       CP!SendExpired, Client!At, CP!At, Client!LastAttempt, CP!LastAttempt,
       Client!HasDeadline, CP!HasDeadline, Client!InExchange, CP!InExchange,
       Client!Return, CP!Return, Client!NextAttempt, CP!NextAttempt,
       Client!ExchangeFails, CP!ExchangeFails, Client!Release, CP!Release,
       Client!Holds, CP!Holds, Client!Capacity, CP!Capacity, Client!poolVars,
       CP!poolVars, Client!netVars, CP!netVars

\* Reading.
LEMMA ReadIs ==
    ASSUME NEW c \in Users
    PROVE  /\ Client!StartReading(c) <=> CP!StartReading(c)
           /\ Client!ReadReply(c) <=> CP!ReadReply(c)
           /\ Client!ReadTimesOut(c) <=> CP!ReadTimesOut(c)
BY Zenon
   DEF Client!StartReading, CP!StartReading, Client!ReadReply, CP!ReadReply,
       Client!ReadTimesOut, CP!ReadTimesOut, Client!At, CP!At, Client!LastAttempt,
       CP!LastAttempt, Client!HasDeadline, CP!HasDeadline, Client!InExchange,
       CP!InExchange, Client!Return, CP!Return, Client!NextAttempt, CP!NextAttempt,
       Client!ExchangeFails, CP!ExchangeFails, Client!Release, CP!Release,
       Client!Holds, CP!Holds, Client!Capacity, CP!Capacity, Client!poolVars,
       CP!poolVars, Client!netVars, CP!netVars, Client!Verifies, CP!Verifies

\* What ends an attempt or a backoff.
LEMMA GoOnIs ==
    ASSUME NEW c \in Users
    PROVE  /\ Client!SocketClosed(c) <=> CP!SocketClosed(c)
           /\ Client!BackoffEnds(c) <=> CP!BackoffEnds(c)
           /\ Client!Refused(c) <=> CP!Refused(c)
BY Zenon
   DEF Client!SocketClosed, CP!SocketClosed, Client!BackoffEnds, CP!BackoffEnds,
       Client!Refused, CP!Refused, Client!At, CP!At, Client!LastAttempt,
       CP!LastAttempt, Client!HasDeadline, CP!HasDeadline, Client!InExchange,
       CP!InExchange, Client!Return, CP!Return, Client!NextAttempt, CP!NextAttempt,
       Client!ExchangeFails, CP!ExchangeFails, Client!Release, CP!Release,
       Client!Holds, CP!Holds, Client!Capacity, CP!Capacity, Client!poolVars,
       CP!poolVars, Client!netVars, CP!netVars

\* Contexts and their deadlines.
LEMMA TimeIs ==
    ASSUME NEW c \in Users
    PROVE  /\ Client!AttemptDeadline(c) <=> CP!AttemptDeadline(c)
           /\ Client!ContextDeadline(c) <=> CP!ContextDeadline(c)
           /\ Client!CancelContext(c) <=> CP!CancelContext(c)
BY Zenon
   DEF Client!AttemptDeadline, CP!AttemptDeadline, Client!ContextDeadline,
       CP!ContextDeadline, Client!CancelContext, CP!CancelContext,
       Client!DeadlinePasses, CP!DeadlinePasses, Client!At, CP!At,
       Client!LastAttempt, CP!LastAttempt, Client!InExchange, CP!InExchange,
       Client!poolVars, CP!poolVars, Client!netVars, CP!netVars

\* Answers and losses.
LEMMA NetworkIs ==
    ASSUME NEW c \in Users
    PROVE  /\ Client!ServerAnswers(c) <=> CP!ServerAnswers(c)
           /\ Client!Lose(c) <=> CP!Lose(c)
BY Zenon
   DEF Client!ServerAnswers, CP!ServerAnswers, Client!Lose, CP!Lose,
       Client!Answered, CP!Answered, Client!RepliesFor, CP!RepliesFor,
       Client!poolVars, CP!poolVars, Client!netVars, CP!netVars

\* Together.
LEMMA ClientStepIs ==
    [Client!ClientNext]_(Client!clientVars) => [CP!ClientNext]_(CP!clientVars)
<1>1. ASSUME NEW c \in Users PROVE Client!Work(c) <=> CP!Work(c)
  BY Zenon, BeginIs, SendIs, ReadIs, GoOnIs DEF Client!Work, CP!Work
<1>2. ASSUME NEW c \in Users PROVE Client!Environment(c) <=> CP!Environment(c)
  BY Zenon, TimeIs, NetworkIs, GoOnIs DEF Client!Environment, CP!Environment
<1>3. /\ Client!LeftoverDeadlinePasses <=> CP!LeftoverDeadlinePasses
      /\ Client!Close <=> CP!Close
  BY Zenon DEF Client!LeftoverDeadlinePasses, CP!LeftoverDeadlinePasses, Client!Close,
               CP!Close, Client!InExchange, CP!InExchange, Client!poolVars, CP!poolVars,
               Client!netVars, CP!netVars
<1>4. UNCHANGED Client!clientVars => UNCHANGED CP!clientVars
  BY Zenon DEF Client!clientVars, CP!clientVars, Client!poolVars, CP!poolVars,
               Client!netVars, CP!netVars
<1> QED BY Zenon, <1>1, <1>2, <1>3, <1>4 DEF Client!ClientNext, CP!ClientNext

-----------------------------------------------------------------------------
\* The datagrams of a call that are still to be answered or lost.
Pending(d) == net[d] = "toServer" \/ (net[d] = "server" /\ settled[d] = {})

Out(c) == {d \in Callers : CallOf[d] = c /\ Pending(d)}

\* The client's count of copies in flight is that of those datagrams; what
\* the server has of a datagram depends on where the network has put it.
LinkInv ==
    /\ net \in [Callers -> {"unsent", "toServer", "server", "gone"}]
    /\ settled \in [Callers -> SUBSET (Callers \cup {Torn})]
    /\ \A d \in Callers : net[d] \in {"unsent", "toServer"} => at[d] = "net"
    /\ \A d \in Callers : net[d] = "gone" => at[d] \in {"net", "done"} /\ sent[d] = {}
    /\ \A d \in Callers : settled[d] \subseteq sent[d]
    /\ \A c \in Users : IsFiniteSet(Out(c)) /\ inFlight[c] = Cardinality(Out(c))

\* A call has transmitted datagram d: it has had its Identifier, and is past
\* sending that attempt.
Sent(d) ==
    LET x == xchg[CallOf[d]]
    IN  /\ x.at # "new" /\ x.id = IdOf[d]
        /\ \/ x.at = "returned"
           \/ AttemptOf[d] < x.attempt
           \/ AttemptOf[d] = x.attempt /\ x.at \in {"queueing", "reading"}

FreshInv ==
    /\ \A c \in Users : xchg[c].at = "new"
                        => xchg[c].id = NoOne /\ xchg[c].result = "none" /\ xchg[c].got = NoOne
    /\ \A d \in Callers : net[d] # "unsent" => Sent(d)

\* The handler ran on a datagram of the call, and its reply was published.
Served(c) == \E d \in Callers : CallOf[d] = c /\ call[d].at = "stored"

\* What may be found in the client's socket.
Explained(m) ==
    /\ m.id \in Ids
    /\ \E c \in Users : xchg[c].id = m.id
    /\ \/ m.of \in Users /\ xchg[m.of].id = m.id /\ (Dedup => Served(m.of))
       \/ m.of = NoOne /\ Dedup /\ SlowHandler(m.id)

InboxInv == \A n \in 1..Len(inbox) : Explained(inbox[n])

\* What a call was given was served; one that has refused a reply by its
\* digest has had an Identifier.
GivenInv ==
    \A c \in Users :
        /\ xchg[c].got # NoOne => (Dedup => Served(xchg[c].got))
        /\ xchg[c].result = "badAuthenticator" => xchg[c].id \in Ids

\* The server's invariants, and those of both ends.
ServerInv == IInv /\ SInv /\ HandlingInv /\ AnswerInv

EndInv ==
    /\ CP!ClientInv
    /\ LinkInv
    /\ FreshInv
    /\ InboxInv
    /\ GivenInv
    /\ RejectionsHaveAReason

\* The types of what both ends share.
LEMMA SharedTypes ==
    ASSUME CP!ClientInv
    PROVE  /\ xchg \in [Users -> CP!CallType]
           /\ inFlight \in [Users -> Nat]
           /\ inbox \in Seq([of : Users \cup {NoOne}, id : Ids])
BY DEF CP!ClientInv, CP!CallInv, CP!NetInv

\* No call and no Identifier is NoOne, no reply is torn by a goroutine's name.
LEMMA NoOneIsNone == NoOne \notin Ids /\ NoOne \notin Users /\ Torn \notin Callers
BY ClientConstants, NoneIsNoCaller DEF CP!NoneIsNoIdOrUser

\* The server reads what the client sends, and nothing else.
LEMMA EndStepIsServers == [EndNext]_endVars => [ServerNext]_serverVars
<1> SUFFICES ASSUME [EndNext]_endVars PROVE [ServerNext]_serverVars
  OBVIOUS
<1>1. CASE ClientStep
  BY <1>1 DEF ClientStep, Transmit
<1>2. CASE ServerStep
  BY <1>2 DEF ServerStep, Receive, ServeOn, ServerNext, ServeStep
<1>3. CASE NetworkStep
  BY <1>3 DEF NetworkStep, ReplyGoes, RequestGoes, Settle
<1>4. CASE UNCHANGED endVars
  BY <1>4 DEF endVars
<1> QED BY <1>1, <1>2, <1>3, <1>4 DEF EndNext

\* The server of the whole is the server of module UDPServer, whose theorems
\* hold in it.
LEMMA EndImplementsServer == EndSpec => ServerSpec
BY EndStepIsServers, PTL DEF EndSpec, EndInit, ServerSpec

\* So do its invariants.
THEOREM EndKeepsServerInv == EndSpec => []ServerInv
<1>1. ServerSpec => []ServerInv
  BY InitAnswerInv, StepHandlingInv, StepAnswerInv, ServerInvariance, ServerKeepsIInv, PTL
     DEF ServerSpec, ServerInv
<1> QED BY <1>1, EndImplementsServer, PTL

-----------------------------------------------------------------------------
(* The client: every step is one of module ProtocolClient.                 *)

\* A local step of a call, or of the client as a whole.
LEMMA LocalIsClients ==
    ASSUME NEW c \in Users, Local(c) PROVE Client!ClientNext
BY DEF Local, Client!ClientNext, Client!Work, Client!Environment

\* It leaves what is in flight alone, and takes at most a reply off the socket.
LEMMA LocalKeepsFlight ==
    ASSUME \/ \E c \in Users : Local(c)
           \/ Client!LeftoverDeadlinePasses \/ Client!Close
    PROVE  /\ inFlight' = inFlight
           /\ inbox' = inbox \/ (inbox # <<>> /\ inbox' = Tail(inbox))
BY DEF Local, Client!Begin, Client!BeginCanceled, Client!EncodeFails, Client!SendExpired,
       Client!StartReading, Client!ReadReply, Client!ReadTimesOut, Client!SocketClosed,
       Client!BackoffEnds, Client!AttemptDeadline, Client!ContextDeadline,
       Client!CancelContext, Client!Refused, Client!LeftoverDeadlinePasses, Client!Close,
       Client!netVars

\* A datagram that is pending is counted.
LEMMA PendingIsInFlight ==
    ASSUME CP!ClientInv, LinkInv, NEW d \in Callers, Pending(d)
    PROVE  CallOf[d] \in Users /\ inFlight[CallOf[d]] > 0
<1>1. CallOf[d] \in Users
  BY DatagramsAreTransmissions
<1>2. IsFiniteSet(Out(CallOf[d])) /\ inFlight[CallOf[d]] = Cardinality(Out(CallOf[d]))
  BY <1>1 DEF LinkInv
<1>3. d \in Out(CallOf[d])
  BY DEF Out
<1>4. inFlight[CallOf[d]] # 0
  BY <1>2, <1>3, FS_EmptySet
<1>5. inFlight[CallOf[d]] \in Nat
  BY <1>1, SharedTypes
<1> QED BY <1>1, <1>4, <1>5

\* A reply on its way answers a pending datagram.
LEMMA ReplyIsToPending ==
    ASSUME ServerInv, LinkInv, NEW d \in Callers, NEW r \in sent[d] \ settled[d]
    PROVE  net[d] = "server" /\ settled[d] = {} /\ sent[d] = {r}
<1>1. at[d] = "done" /\ \A p, q \in sent[d] : p = q
  BY DEF ServerInv, AnswerInv
<1>2. settled[d] = {} /\ sent[d] = {r}
  BY <1>1 DEF LinkInv
<1>3. net[d] \notin {"unsent", "toServer", "gone"}
  BY <1>1 DEF LinkInv
<1> QED BY <1>2, <1>3 DEF LinkInv

\* A request whose handler has run was received, hence sent.
LEMMA StoredIsSent ==
    ASSUME ServerInv, LinkInv, FreshInv, NEW d \in Callers, call[d].at # "idle"
    PROVE  Sent(d)
BY DEF ServerInv, AnswerInv, LinkInv, FreshInv

\* A reply is explained: it is under the Identifier of the datagram that it
\* answers, and to a datagram of that Identifier.
LEMMA ReplyIsExplained ==
    ASSUME ServerInv, CP!ClientInv, LinkInv, FreshInv,
           NEW d \in Callers, NEW r \in sent[d] \ settled[d]
    PROVE  /\ Explained(Reply(d, r))
           /\ Reply(d, r) \in Client!RepliesFor(CallOf[d])
<1> DEFINE c == CallOf[d]
<1>1. c \in Users /\ IdOf[d] \in Ids
  BY DatagramsAreTransmissions
<1>2. xchg[c].id = IdOf[d]
  BY ReplyIsToPending DEF FreshInv, Sent
<1>3. Answers(r, d)
  BY DEF ServerInv, AnswerInv
<1>4. CASE r \in Callers
  <2>1. IdOf[r] = IdOf[d] /\ xchg[CallOf[r]].id = IdOf[r]
    <3>1. CASE Dedup
      <4>1. call[r].at = "stored" /\ DedupKey(r) = DedupKey(d)
        BY <1>3, <1>4, <3>1, NoOneIsNone DEF Answers, Published
      <4>2. Sent(r)
        BY <1>4, <4>1, StoredIsSent
      <4> QED BY <4>1, <4>2 DEF DedupKey, Sent
    <3>2. CASE ~Dedup
      BY <1>2, <1>3, <3>2 DEF Answers
    <3> QED BY <3>1, <3>2
  <2>2. CallOf[r] \in Users
    BY <1>4, DatagramsAreTransmissions
  <2>3. Dedup => Served(CallOf[r])
    BY <1>3, <1>4, NoOneIsNone DEF Answers, Published, Served
  <2>4. Reply(d, r) = [of |-> CallOf[r], id |-> xchg[c].id]
    BY <1>2, <1>4, <2>1 DEF Reply
  <2>5. Explained(Reply(d, r))
    BY <1>1, <1>2, <2>1, <2>2, <2>3, <2>4 DEF Explained
  <2> QED BY <1>2, <2>1, <2>2, <2>4, <2>5 DEF Client!RepliesFor
<1>5. CASE r \notin Callers
  <2>1. Dedup /\ r = Torn /\ SlowKey(DedupKey(d))
    BY <1>3, <1>5 DEF Answers, Published
  <2>2. SlowHandler(IdOf[d])
    BY <2>1 DEF SlowKey, SlowHandler, DedupKey
  <2>3. Reply(d, r) = [of |-> NoOne, id |-> xchg[c].id]
    BY <1>2, <1>5 DEF Reply
  <2>4. Explained(Reply(d, r))
    BY <1>1, <1>2, <2>1, <2>2, <2>3 DEF Explained
  <2> QED BY <2>3, <2>4 DEF Client!RepliesFor
<1> QED BY <1>4, <1>5

\* The network's steps are answers and losses.
LEMMA NetworkIsClients ==
    ASSUME ServerInv, CP!ClientInv, LinkInv, FreshInv, NEW d \in Callers,
           ReplyGoes(d) \/ RequestGoes(d)
    PROVE  Pending(d) /\ Client!ClientNext
<1>1. CallOf[d] \in Users
  BY DatagramsAreTransmissions
<1>2. CASE ReplyGoes(d)
  <2>1. PICK r \in sent[d] \ settled[d] :
                inbox' = Append(inbox, Reply(d, r)) \/ UNCHANGED inbox
    BY <1>2 DEF ReplyGoes
  <2>2. Pending(d)
    BY <2>1, ReplyIsToPending DEF Pending
  <2>3. inFlight[CallOf[d]] > 0
    BY <2>2, PendingIsInFlight
  <2>4. Reply(d, r) \in Client!RepliesFor(CallOf[d])
    BY <2>1, ReplyIsExplained
  <2>5. Client!ServerAnswers(CallOf[d]) \/ Client!Lose(CallOf[d])
    BY <1>2, <2>1, <2>3, <2>4 DEF ReplyGoes, Settle, callVars, Client!ServerAnswers,
                                   Client!Answered, Client!Lose, Client!poolVars
  <2> QED BY <1>1, <2>2, <2>5 DEF Client!ClientNext, Client!Environment
<1>3. CASE RequestGoes(d)
  <2>1. Pending(d)
    BY <1>3 DEF RequestGoes, Pending, LinkInv
  <2>2. inFlight[CallOf[d]] > 0
    BY <2>1, PendingIsInFlight
  <2>3. Client!Lose(CallOf[d])
    BY <1>3, <2>2 DEF RequestGoes, Settle, callVars, Client!Lose, Client!poolVars
  <2> QED BY <1>1, <2>1, <2>3 DEF Client!ClientNext, Client!Environment
<1> QED BY <1>2, <1>3

\* Every step of the whole is a step of the client or leaves it alone.
LEMMA EndStepIsClients ==
    ServerInv /\ EndInv /\ [EndNext]_endVars => [Client!ClientNext]_(Client!clientVars)
<1> SUFFICES ASSUME ServerInv, EndInv, [EndNext]_endVars
             PROVE  [Client!ClientNext]_(Client!clientVars)
  OBVIOUS
<1>1. UNCHANGED clientVars => UNCHANGED Client!clientVars
  BY DEF clientVars, callVars, Client!clientVars, Client!poolVars, Client!netVars
<1>2. CASE \E c \in Users : Transmit(c)
  BY <1>2 DEF Transmit, Client!ClientNext, Client!Work
<1>3. CASE (\E c \in Users : Local(c)) \/ Client!LeftoverDeadlinePasses \/ Client!Close
  BY <1>3, LocalIsClients DEF Client!ClientNext
<1>4. CASE ServerStep \/ UNCHANGED endVars
  BY <1>1, <1>4 DEF ServerStep, endVars
<1>5. CASE NetworkStep
  BY <1>5, NetworkIsClients DEF NetworkStep, EndInv
<1> QED BY <1>2, <1>3, <1>4, <1>5 DEF EndNext, ClientStep

-----------------------------------------------------------------------------
(* How the steps keep EndInv.                                              *)

\* A call that has begun keeps its Identifier and its Request Authenticator.
LEMMA IdStays ==
    ASSUME NEW c \in Users, CP!Advances(c), xchg[c].at # "new"
    PROVE  xchg'[c].id = xchg[c].id /\ xchg'[c].auth = xchg[c].auth
BY DEF CP!Advances

\* One that has an Identifier has begun.
LEMMA IdsStay ==
    ASSUME FreshInv, NEW c \in Users, CP!Advances(c), xchg[c].id \in Ids
    PROVE  xchg'[c].id = xchg[c].id /\ xchg'[c].auth = xchg[c].auth
BY IdStays, NoOneIsNone DEF FreshInv

\* What was sent was sent.
LEMMA SentStays ==
    ASSUME CP!ClientInv, NEW d \in Callers, CP!Advances(CallOf[d]), Sent(d)
    PROVE  Sent(d)'
<1> DEFINE c == CallOf[d]
<1>1. c \in Users /\ AttemptOf[d] \in Nat
  BY DatagramsAreTransmissions
<1>2. xchg[c].attempt \in Nat
  BY <1>1, SharedTypes DEF CP!CallType
<1>3. xchg[c].at # "new" /\ xchg[c].id = IdOf[d]
  BY DEF Sent
<1>4. CASE xchg'[c] = xchg[c]
  BY <1>4 DEF Sent
<1>5. CASE xchg'[c].at = "returned"
  BY <1>1, <1>3, <1>5, IdStays DEF Sent
<1>6. CASE /\ xchg[c].at # "returned"
           /\ xchg'[c].at = "backoff" /\ xchg'[c].attempt = xchg[c].attempt + 1
  <2>1. AttemptOf[d] <= xchg[c].attempt
    BY <1>1, <1>2, <1>6 DEF Sent
  <2> QED BY <1>1, <1>2, <1>3, <1>6, <2>1, IdStays DEF Sent
<1>7. CASE /\ xchg'[c].attempt = xchg[c].attempt
           /\ \/ xchg[c].at = "sending" /\ xchg'[c].at = "queueing"
              \/ xchg[c].at = "queueing" /\ xchg'[c].at = "reading"
              \/ xchg[c].at = "backoff" /\ xchg'[c].at = "sending"
  BY <1>1, <1>3, <1>7, IdStays DEF Sent
<1> HIDE DEF c
<1> QED BY <1>3, <1>4, <1>5, <1>6, <1>7 DEF CP!Advances, CP!Active, c

\* Handlers that were slow remain so.
LEMMA SlowStays ==
    ASSUME ServerInv, [Next]_vars, NEW i, SlowHandler(i) PROVE SlowHandler(i)'
<1>1. PICK d \in Callers, e \in Callers :
              /\ d # e /\ IdOf[d] = i /\ IdOf[e] = i
              /\ call[d].at = "stored" /\ call[e].at = "stored"
              /\ now >= entry[d].expires
  BY DEF SlowHandler
<1>2. /\ call'[d].at = "stored" /\ call'[e].at = "stored"
      /\ now' >= entry'[d].expires
  BY <1>1, SlowPairStays DEF ServerInv
<1> QED BY <1>1, <1>2 DEF SlowHandler

\* A call that was served was served.
LEMMA ServedStays ==
    ASSUME ServerInv, [Next]_vars, NEW c, Served(c) PROVE Served(c)'
<1>1. PICK d \in Callers : CallOf[d] = c /\ call[d].at = "stored"
  BY DEF Served
<1>2. call'[d].at = "stored"
  BY <1>1, RunsStay DEF ServerInv
<1> QED BY <1>1, <1>2 DEF Served

\* What is explained stays so.
LEMMA ExplainedStays ==
    ASSUME ServerInv, FreshInv, [Next]_vars, \A b \in Users : CP!Advances(b),
           NEW m, Explained(m)
    PROVE  Explained(m)'
<1>1. m.id \in Ids /\ \E c \in Users : xchg'[c].id = m.id
  BY IdsStay DEF Explained
<1>2. CASE m.of \in Users /\ xchg[m.of].id = m.id /\ (Dedup => Served(m.of))
  <2>1. xchg'[m.of].id = m.id
    BY <1>1, <1>2, IdsStay
  <2>2. Dedup => Served(m.of)'
    BY <1>2, ServedStays
  <2> QED BY <1>1, <1>2, <2>1, <2>2 DEF Explained
<1>3. CASE m.of = NoOne /\ Dedup /\ SlowHandler(m.id)
  BY <1>1, <1>3, SlowStays DEF Explained
<1> QED BY <1>2, <1>3 DEF Explained

\* A call that reads finds something explained.
LEMMA HeadIsExplained ==
    ASSUME CP!ClientInv, InboxInv, inbox # <<>>
    PROVE  Explained(Head(inbox))
<1>1. inbox \in Seq([of : Users \cup {NoOne}, id : Ids])
  BY SharedTypes
<1>2. 1 \in 1..Len(inbox) /\ Head(inbox) = inbox[1]
  BY <1>1
<1> QED BY <1>2 DEF InboxInv

\* What the calls were given, and why they refused what they refused.
LEMMA VerdictsStay ==
    ASSUME ServerInv, EndInv, [Next]_vars,
           \A b \in Users : CP!Advances(b) /\ CP!Judges(b)
    PROVE  GivenInv' /\ RejectionsHaveAReason'
<1>1. ASSUME NEW c \in Users, NEW b, b = xchg'[c].got, b # NoOne, Dedup PROVE Served(b)'
  <2>1. Served(b)
    <3>1. CASE xchg[c].got = b
      BY <1>1, <3>1 DEF EndInv, GivenInv, Served
    <3>2. CASE CP!Reads(c) /\ CP!Verifies(Head(inbox), c) /\ b = Head(inbox).of
      <4>1. Explained(Head(inbox))
        BY <3>2, HeadIsExplained DEF EndInv, CP!Reads
      <4> QED BY <1>1, <3>2, <4>1 DEF Explained, Served
    <3> QED BY <1>1, <3>1, <3>2 DEF CP!Judges
  <2> QED BY <2>1, ServedStays
<1>2. ASSUME NEW c \in Users, xchg'[c].result = "mismatch"
      PROVE  \E b \in Users : xchg'[b].id \notin {NoOne, xchg'[c].id}
  <2>1. /\ xchg[c].at # "new"
        /\ \E b \in Users : xchg[b].id \notin {NoOne, xchg[c].id}
    <3>1. CASE xchg[c].result = "mismatch"
      BY <3>1 DEF EndInv, RejectionsHaveAReason, FreshInv
    <3>2. CASE CP!Reads(c) /\ Head(inbox).id # xchg[c].id
      <4>1. Explained(Head(inbox))
        BY <3>2, HeadIsExplained DEF EndInv, CP!Reads
      <4> QED BY <3>2, <4>1, NoOneIsNone DEF Explained, CP!Reads
    <3> QED BY <1>2, <3>1, <3>2 DEF CP!Judges
  <2>2. PICK b \in Users : xchg[b].id \notin {NoOne, xchg[c].id}
    BY <2>1
  <2>3. xchg[b].at # "new"
    BY <2>2 DEF EndInv, FreshInv
  <2>4. xchg'[b].id = xchg[b].id /\ xchg'[c].id = xchg[c].id
    BY <2>1, <2>3, IdStays
  <2> QED BY <2>2, <2>4
<1>3. ASSUME NEW c \in Users, xchg'[c].result = "badAuthenticator"
      PROVE  /\ xchg'[c].id = xchg[c].id /\ xchg[c].id \in Ids
             /\ \/ \E b \in Users :
                      xchg'[b].id = xchg'[c].id /\ xchg'[b].auth # xchg'[c].auth
                \/ Dedup /\ SlowHandler(xchg[c].id)'
  <2>1. /\ xchg[c].at # "new" /\ xchg[c].id \in Ids
        /\ \/ \E b \in Users : xchg[b].id = xchg[c].id /\ xchg[b].auth # xchg[c].auth
           \/ Dedup /\ SlowHandler(xchg[c].id)
    <3>1. CASE xchg[c].result = "badAuthenticator"
      BY <3>1 DEF EndInv, RejectionsHaveAReason, FreshInv, GivenInv
    <3>2. CASE CP!Reads(c) /\ Head(inbox).id = xchg[c].id /\ ~CP!Verifies(Head(inbox), c)
      <4>1. Explained(Head(inbox))
        BY <3>2, HeadIsExplained DEF EndInv, CP!Reads
      <4> QED BY <3>2, <4>1 DEF Explained, CP!Reads, CP!Verifies
    <3> QED BY <1>3, <3>1, <3>2 DEF CP!Judges
  <2>2. xchg'[c].id = xchg[c].id /\ xchg'[c].auth = xchg[c].auth
    BY <2>1, IdStays
  <2>3. CASE \E b \in Users : xchg[b].id = xchg[c].id /\ xchg[b].auth # xchg[c].auth
    <3>1. PICK b \in Users : xchg[b].id = xchg[c].id /\ xchg[b].auth # xchg[c].auth
      BY <2>3
    <3>2. xchg'[b].id = xchg[b].id /\ xchg'[b].auth = xchg[b].auth
      BY <2>1, <3>1, IdsStay DEF EndInv
    <3> QED BY <2>1, <2>2, <3>1, <3>2
  <2>4. CASE Dedup /\ SlowHandler(xchg[c].id)
    <3>1. PICK i : i = xchg[c].id
      OBVIOUS
    <3>2. SlowHandler(i)
      BY <2>4, <3>1 DEF SlowHandler
    <3>3. SlowHandler(i)'
      BY <3>2, SlowStays
    <3>4. xchg'[c].id = i
      BY <2>2, <3>1
    <3>5. SlowHandler(xchg[c].id)'
      BY <3>3, <3>4 DEF SlowHandler
    <3> QED BY <2>1, <2>2, <2>4, <3>5
  <2> QED BY <2>1, <2>2, <2>3, <2>4
<1>4. GivenInv'
  <2>1. ASSUME NEW c \in Users, xchg'[c].got # NoOne, Dedup PROVE Served(xchg[c].got)'
    <3>1. PICK b : b = xchg'[c].got
      OBVIOUS
    <3>2. Served(b)'
      BY <1>1, <2>1, <3>1
    <3> QED BY <3>1, <3>2 DEF Served
  <2> QED BY <1>3, <2>1 DEF GivenInv
<1>5. RejectionsHaveAReason'
  BY <1>2, <1>3 DEF RejectionsHaveAReason
<1> QED BY <1>4, <1>5

\* A server's step, when it reads nothing, moves no request that is on its
\* way or done, and sends nothing to it; no step takes back a reply.
LEMMA ServerStepsAside ==
    ASSUME ServerInv, NEW d \in Callers, ServeOn
    PROVE  /\ sent[d] \subseteq sent'[d]
           /\ at[d] \in {"net", "done"} => at'[d] = at[d] /\ sent'[d] = sent[d]
<1>0. at \in [Callers -> Places] /\ sent \in [Callers -> SUBSET (Callers \cup {Torn})]
  BY DEF ServerInv, SInv, ServerTypeOK
<1>1. ASSUME NEW c \in Callers, HandleOne(c)
      PROVE  /\ sent[d] \subseteq sent'[d]
             /\ at[d] \in {"net", "done"} => at'[d] = at[d] /\ sent'[d] = sent[d]
  <2>1. /\ at[c] \notin {"net", "done"}
        /\ \A e \in Callers \ {c} : at'[e] = at[e]
    BY <1>1, HandleOneShape, HandleOneIsLocal DEF ServerInv, Running
  <2>2. sent' = sent \/ \E r \in Callers \cup {Torn} : sent' = [sent EXCEPT ![c] = @ \cup {r}]
    BY <1>1, HandleOneAnswers DEF ServerInv
  <2> QED BY <1>0, <2>1, <2>2
<1>2. ASSUME NEW c \in Callers, UnknownClient(c) \/ Dispatch(c) \/ DispatchPanics(c)
      PROVE  sent' = sent /\ (at[d] \in {"net", "done"} => at'[d] = at[d])
  BY <1>0, <1>2 DEF UnknownClient, Dispatch, DispatchPanics, Move
<1>3. CASE \/ DoneReleases \/ \E s \in Stoppers : Shutdown(s)
           \/ ReadFails \/ CancelContext \/ Close \/ Clock
  BY <1>3 DEF DoneReleases, Shutdown, ShutdownCloses, WaitStarts, WaitWakes,
              ShutdownReturns, ShutdownExpires, ReadFails, CancelContext, Close, Clock
<1> QED BY <1>1, <1>2, <1>3 DEF ServeOn

\* One datagram less is pending, and one copy less in flight.
LEMMA OneLess ==
    ASSUME CP!ClientInv, LinkInv, NEW d \in Callers, Pending(d), ~Pending(d)',
           \A e \in Callers \ {d} : Pending(e)' <=> Pending(e),
           inFlight' = [inFlight EXCEPT ![CallOf[d]] = @ - 1], NEW c \in Users
    PROVE  IsFiniteSet(Out(c)') /\ inFlight'[c] = Cardinality(Out(c)')
<1>1. IsFiniteSet(Out(c)) /\ inFlight[c] = Cardinality(Out(c)) /\ inFlight \in [Users -> Nat]
  BY SharedTypes DEF LinkInv
<1>2. CASE c = CallOf[d]
  <2>1. Out(c)' = Out(c) \ {d} /\ d \in Out(c)
    BY <1>2 DEF Out
  <2>2. inFlight'[c] = inFlight[c] - 1
    BY <1>1, <1>2
  <2> QED BY <1>1, <2>1, <2>2, FS_RemoveElement
<1>3. CASE c # CallOf[d]
  <2>1. Out(c)' = Out(c)
    BY <1>3 DEF Out
  <2>2. inFlight'[c] = inFlight[c]
    BY <1>1, <1>3
  <2> QED BY <1>1, <2>1, <2>2
<1> QED BY <1>2, <1>3

\* One more.
LEMMA OneMore ==
    ASSUME CP!ClientInv, LinkInv, NEW d \in Callers, ~Pending(d), Pending(d)',
           \A e \in Callers \ {d} : Pending(e)' <=> Pending(e),
           inFlight' = [inFlight EXCEPT ![CallOf[d]] = @ + 1], NEW c \in Users
    PROVE  IsFiniteSet(Out(c)') /\ inFlight'[c] = Cardinality(Out(c)')
<1>1. IsFiniteSet(Out(c)) /\ inFlight[c] = Cardinality(Out(c)) /\ inFlight \in [Users -> Nat]
  BY SharedTypes DEF LinkInv
<1>2. CASE c = CallOf[d]
  <2>1. Out(c)' = Out(c) \cup {d} /\ d \notin Out(c)
    BY <1>2 DEF Out
  <2>2. inFlight'[c] = inFlight[c] + 1
    BY <1>1, <1>2
  <2> QED BY <1>1, <2>1, <2>2, FS_AddElement
<1>3. CASE c # CallOf[d]
  <2>1. Out(c)' = Out(c)
    BY <1>3 DEF Out
  <2>2. inFlight'[c] = inFlight[c]
    BY <1>1, <1>3
  <2> QED BY <1>1, <2>1, <2>2
<1> QED BY <1>2, <1>3

\* A datagram sets out that had not: its call is still to send this attempt.
LEMMA TransmitKeeps ==
    ASSUME ServerInv, EndInv, NEW c \in Users, Transmit(c),
           \A b \in Users : CP!Advances(b)
    PROVE  LinkInv' /\ \A d \in Callers : net'[d] # "unsent" => Sent(d)'
<1>1. /\ xchg[c].at = "sending" /\ xchg' = [xchg EXCEPT ![c].at = "queueing"]
      /\ inFlight' = [inFlight EXCEPT ![c] = @ + 1]
      /\ UNCHANGED <<at, sent, settled>>
  BY DEF Transmit, Client!Send, Client!At, serverVars
<1>2. PICK d \in Callers :
              /\ CallOf[d] = c /\ AttemptOf[d] = xchg[c].attempt /\ IdOf[d] = xchg[c].id
              /\ net' = [net EXCEPT ![d] = "toServer"]
  BY DEF Transmit
<1>3. AttemptOf[d] \in Nat
  BY DatagramsAreTransmissions
<1>4. net[d] = "unsent"
  <2>1. ~Sent(d)
    BY <1>1, <1>2, <1>3 DEF Sent
  <2> QED BY <2>1 DEF EndInv, FreshInv
<1>5. /\ net' \in [Callers -> {"unsent", "toServer", "server", "gone"}]
      /\ net'[d] = "toServer" /\ \A e \in Callers \ {d} : net'[e] = net[e]
  BY <1>2 DEF EndInv, LinkInv
<1>6. /\ ~Pending(d) /\ Pending(d)'
      /\ \A e \in Callers \ {d} : Pending(e)' <=> Pending(e)
  BY <1>1, <1>4, <1>5 DEF Pending
<1>7. \A b \in Users : IsFiniteSet(Out(b)') /\ inFlight'[b] = Cardinality(Out(b)')
  BY <1>1, <1>2, <1>6, OneMore DEF EndInv
<1>8. LinkInv'
  BY <1>1, <1>4, <1>5, <1>7 DEF EndInv, LinkInv
<1>9. Sent(d)'
  <2>1. /\ xchg'[c].at = "queueing" /\ xchg'[c].id = xchg[c].id
        /\ xchg'[c].attempt = xchg[c].attempt
    BY <1>1, SharedTypes DEF EndInv, CP!CallType
  <2> QED BY <1>2, <2>1 DEF Sent
<1>10. ASSUME NEW e \in Callers \ {d}, net'[e] # "unsent" PROVE Sent(e)'
  <2>1. Sent(e) /\ CallOf[e] \in Users
    BY <1>5, <1>10, DatagramsAreTransmissions DEF EndInv, FreshInv
  <2> QED BY <2>1, SentStays DEF EndInv
<1> QED BY <1>8, <1>9, <1>10

\* The network takes a datagram or a reply away.
LEMMA NetworkKeepsLink ==
    ASSUME ServerInv, EndInv, NEW d \in Callers, ReplyGoes(d) \/ RequestGoes(d)
    PROVE  LinkInv' /\ \A e \in Callers : net'[e] # "unsent" => net[e] # "unsent"
<1>1. /\ UNCHANGED <<at, sent>> /\ inFlight' = [inFlight EXCEPT ![CallOf[d]] = @ - 1]
      /\ Pending(d)
  BY NetworkIsClients DEF ReplyGoes, RequestGoes, Settle, serverVars, EndInv
<1>2. CASE ReplyGoes(d)
  <2>1. PICK r \in sent[d] \ settled[d] : settled' = [settled EXCEPT ![d] = @ \cup {r}]
    BY <1>2 DEF ReplyGoes
  <2>2. /\ net' = net /\ net[d] = "server" /\ settled[d] = {}
        /\ sent \in [Callers -> SUBSET (Callers \cup {Torn})]
    <3>1. net' = net
      BY <1>2 DEF ReplyGoes
    <3>2. net[d] = "server" /\ settled[d] = {}
      BY <2>1, ReplyIsToPending DEF EndInv
    <3>3. sent \in [Callers -> SUBSET (Callers \cup {Torn})]
      BY DEF ServerInv, SInv, ServerTypeOK
    <3> QED BY <3>1, <3>2, <3>3
  <2>3. /\ settled' \in [Callers -> SUBSET (Callers \cup {Torn})]
        /\ settled'[d] = {r} /\ \A e \in Callers \ {d} : settled'[e] = settled[e]
    <3>1. settled \in [Callers -> SUBSET (Callers \cup {Torn})] /\ r \in Callers \cup {Torn}
      BY <2>1, <2>2 DEF EndInv, LinkInv
    <3> QED BY <2>1, <2>2, <3>1
  <2>4. /\ ~Pending(d)' /\ \A e \in Callers \ {d} : Pending(e)' <=> Pending(e)
    BY <2>2, <2>3 DEF Pending
  <2>5. \A b \in Users : IsFiniteSet(Out(b)') /\ inFlight'[b] = Cardinality(Out(b)')
    BY <1>1, <2>4, OneLess DEF EndInv
  <2>6. \A e \in Callers : settled'[e] \subseteq sent'[e]
    BY <1>1, <2>3 DEF EndInv, LinkInv
  <2> QED BY <1>1, <2>2, <2>3, <2>5, <2>6 DEF EndInv, LinkInv
<1>3. CASE RequestGoes(d)
  <2>1. /\ settled' = settled /\ net' = [net EXCEPT ![d] = "gone"]
        /\ net[d] = "toServer" \/ (net[d] = "server" /\ at[d] = "done" /\ sent[d] = {})
    BY <1>3 DEF RequestGoes
  <2>2. at[d] \in {"net", "done"} /\ sent[d] = {}
    BY <2>1 DEF EndInv, LinkInv, ServerInv, AnswerInv
  <2>3. /\ net' \in [Callers -> {"unsent", "toServer", "server", "gone"}]
        /\ net'[d] = "gone" /\ \A e \in Callers \ {d} : net'[e] = net[e]
    BY <2>1 DEF EndInv, LinkInv
  <2>4. /\ ~Pending(d)' /\ \A e \in Callers \ {d} : Pending(e)' <=> Pending(e)
    BY <2>1, <2>3 DEF Pending
  <2>5. \A b \in Users : IsFiniteSet(Out(b)') /\ inFlight'[b] = Cardinality(Out(b)')
    BY <1>1, <2>4, OneLess DEF EndInv
  <2>6. LinkInv'
    BY <1>1, <2>1, <2>2, <2>3, <2>5 DEF EndInv, LinkInv
  <2>7. net[d] # "unsent"
    BY <2>1
  <2> QED BY <2>3, <2>6, <2>7
<1> QED BY <1>2, <1>3

\* The server takes a datagram in, or goes on with what it has.
LEMMA ServerKeepsLink ==
    ASSUME ServerInv, EndInv, ServerStep
    PROVE  LinkInv' /\ \A d \in Callers : net'[d] # "unsent" => net[d] # "unsent"
<1>1. inFlight' = inFlight /\ settled' = settled
  BY DEF ServerStep, clientVars
<1>2. ASSUME NEW d \in Callers, Receive(d)
      PROVE  LinkInv' /\ \A e \in Callers : net'[e] # "unsent" => net[e] # "unsent"
  <2>1. /\ net[d] = "toServer" /\ net' = [net EXCEPT ![d] = "server"]
        /\ at[d] = "net" /\ at' = [at EXCEPT ![d] = "held"] /\ sent' = sent
    BY <1>2 DEF Receive, ReadPacket, Move
  <2>2. /\ net' \in [Callers -> {"unsent", "toServer", "server", "gone"}]
        /\ net'[d] = "server" /\ \A e \in Callers \ {d} : net'[e] = net[e]
        /\ \A e \in Callers \ {d} : at'[e] = at[e]
    BY <2>1 DEF EndInv, LinkInv, ServerInv, SInv, ServerTypeOK
  <2>3. settled[d] = {}
    <3>1. sent[d] = {}
      BY <2>1 DEF ServerInv, AnswerInv
    <3> QED BY <3>1 DEF EndInv, LinkInv
  <2>4. \A e \in Callers : Pending(e)' <=> Pending(e)
    BY <1>1, <2>1, <2>2, <2>3 DEF Pending
  <2>5. \A c \in Users : Out(c)' = Out(c)
    BY <2>4 DEF Out
  <2> QED BY <1>1, <2>1, <2>2, <2>5 DEF EndInv, LinkInv
<1>3. CASE ServeOn /\ UNCHANGED net
  <2>1. \A d \in Callers :
            /\ sent[d] \subseteq sent'[d]
            /\ at[d] \in {"net", "done"} => at'[d] = at[d] /\ sent'[d] = sent[d]
    BY <1>3, ServerStepsAside
  <2>2. \A c \in Users : Out(c)' = Out(c)
    BY <1>1, <1>3 DEF Out, Pending
  <2>3. \A d \in Callers : settled'[d] \subseteq sent'[d]
    BY <1>1, <2>1 DEF EndInv, LinkInv
  <2> QED BY <1>1, <1>3, <2>1, <2>2, <2>3 DEF EndInv, LinkInv
<1> QED BY <1>2, <1>3 DEF ServerStep

\* A step that leaves the network and the server alone.
LEMMA QuietKeepsLink ==
    ASSUME EndInv, UNCHANGED <<at, sent, inFlight, net, settled>> PROVE LinkInv'
<1>1. \A c \in Users : Out(c)' = Out(c)
  BY DEF Out, Pending
<1> QED BY <1>1 DEF EndInv, LinkInv

\* What is in the socket stays explained, and what arrives there is.
LEMMA InboxStaysExplained ==
    ASSUME ServerInv, EndInv, [EndNext]_endVars, [Next]_vars,
           \A b \in Users : CP!Advances(b)
    PROVE  InboxInv'
<1>1. ASSUME NEW m, Explained(m) PROVE Explained(m)'
  BY <1>1, ExplainedStays DEF EndInv
<1>2. inbox \in Seq([of : Users \cup {NoOne}, id : Ids])
  BY SharedTypes DEF EndInv
<1>3. CASE UNCHANGED inbox
  <2> SUFFICES ASSUME NEW n \in 1..Len(inbox) PROVE Explained(inbox[n])'
    BY <1>3 DEF InboxInv
  <2>1. PICK m : m = inbox[n]
    OBVIOUS
  <2>2. Explained(m)'
    BY <1>1, <2>1 DEF EndInv, InboxInv, Explained
  <2>3. inbox'[n] = m
    BY <1>3, <2>1
  <2> QED BY <2>2, <2>3 DEF Explained
<1>4. CASE inbox # <<>> /\ inbox' = Tail(inbox)
  <2> SUFFICES ASSUME NEW n \in 1..Len(inbox') PROVE Explained(inbox[n])'
    BY DEF InboxInv
  <2>1. n + 1 \in 1..Len(inbox) /\ inbox'[n] = inbox[n + 1]
    BY <1>2, <1>4
  <2>2. PICK m : m = inbox[n + 1]
    OBVIOUS
  <2>3. Explained(m)'
    BY <1>1, <2>1, <2>2 DEF EndInv, InboxInv, Explained
  <2> QED BY <2>1, <2>2, <2>3 DEF Explained
<1>5. ASSUME NEW d \in Callers, ReplyGoes(d) PROVE InboxInv'
  <2>1. PICK r \in sent[d] \ settled[d] :
                inbox' = Append(inbox, Reply(d, r)) \/ UNCHANGED inbox
    BY <1>5 DEF ReplyGoes
  <2>2. CASE inbox' = Append(inbox, Reply(d, r))
    <3> SUFFICES ASSUME NEW n \in 1..Len(inbox') PROVE Explained(inbox[n])'
      BY DEF InboxInv
    <3>1. PICK m : m = inbox'[n]
      OBVIOUS
    <3>2. Explained(Reply(d, r))
      BY ReplyIsExplained DEF EndInv
    <3>3. (n \in 1..Len(inbox) /\ m = inbox[n]) \/ m = Reply(d, r)
      BY <1>2, <2>2, <3>1
    <3>4. Explained(m)
      BY <3>2, <3>3 DEF EndInv, InboxInv, Explained
    <3>5. Explained(m)'
      BY <1>1, <3>4
    <3> QED BY <3>1, <3>5 DEF Explained
  <2> QED BY <1>3, <2>1, <2>2
<1>6. CASE ClientStep
  <2>1. \/ UNCHANGED inbox
        \/ inbox # <<>> /\ inbox' = Tail(inbox)
    BY <1>6, LocalKeepsFlight DEF ClientStep, Transmit, Client!Send
  <2> QED BY <1>3, <1>4, <2>1
<1>7. CASE ServerStep \/ UNCHANGED endVars \/ \E d \in Callers : RequestGoes(d)
  BY <1>3, <1>7 DEF ServerStep, RequestGoes, clientVars, endVars
<1> QED BY <1>5, <1>6, <1>7 DEF EndNext, NetworkStep

\* Where the datagrams are, and that they were sent.
LEMMA FlightStays ==
    ASSUME ServerInv, EndInv, [EndNext]_endVars, \A b \in Users : CP!Advances(b)
    PROVE  LinkInv' /\ FreshInv'
<1>1. ASSUME NEW c \in Users, xchg'[c].at = "new" PROVE xchg'[c] = xchg[c]
  BY <1>1 DEF CP!Advances
<1>2. ASSUME \A d \in Callers : net'[d] # "unsent" => Sent(d)' PROVE FreshInv'
  <2>1. \A c \in Users : xchg'[c].at = "new"
          => xchg'[c].id = NoOne /\ xchg'[c].result = "none" /\ xchg'[c].got = NoOne
    BY <1>1 DEF EndInv, FreshInv
  <2> QED BY <1>2, <2>1 DEF FreshInv
<1>3. ASSUME \A d \in Callers : net'[d] # "unsent" => net[d] # "unsent" PROVE FreshInv'
  <2>1. ASSUME NEW d \in Callers, net'[d] # "unsent" PROVE Sent(d)'
    <3>1. Sent(d) /\ CallOf[d] \in Users
      BY <1>3, <2>1, DatagramsAreTransmissions DEF EndInv, FreshInv
    <3> QED BY <3>1, SentStays DEF EndInv
  <2> QED BY <1>2, <2>1
<1>4. ASSUME NEW c \in Users, Transmit(c) PROVE LinkInv' /\ FreshInv'
  BY <1>2, <1>4, TransmitKeeps
<1>5. ASSUME NEW d \in Callers, ReplyGoes(d) \/ RequestGoes(d) PROVE LinkInv' /\ FreshInv'
  BY <1>3, <1>5, NetworkKeepsLink
<1>6. CASE ServerStep
  BY <1>3, <1>6, ServerKeepsLink
<1>7. CASE /\ (\E c \in Users : Local(c)) \/ Client!LeftoverDeadlinePasses \/ Client!Close
           /\ UNCHANGED <<serverVars, netVars>>
  <2>1. UNCHANGED <<at, sent, inFlight, net, settled>>
    BY <1>7, LocalKeepsFlight DEF serverVars, netVars
  <2> QED BY <1>3, <2>1, QuietKeepsLink
<1>8. CASE UNCHANGED endVars
  <2>1. UNCHANGED <<at, sent, inFlight, net, settled>>
    BY <1>8 DEF endVars, serverVars, clientVars, netVars
  <2> QED BY <1>3, <2>1, QuietKeepsLink
<1> QED BY <1>4, <1>5, <1>6, <1>7, <1>8 DEF EndNext, ClientStep, NetworkStep

\* Each step of either end or of the network keeps EndInv.
LEMMA StepEndInv == ServerInv /\ EndInv /\ [EndNext]_endVars => EndInv'
<1> SUFFICES ASSUME ServerInv, EndInv, [EndNext]_endVars PROVE EndInv'
  OBVIOUS
<1>1. [Next]_vars
  BY EndStepIsServers, ServerStepImplements
<1>2. [CP!ClientNext]_(CP!clientVars)
  BY EndStepIsClients, ClientStepIs
<1>3. CP!ClientInv'
  BY <1>2, ClientConstants, CP!StepClientInv DEF EndInv
<1>4. \A b \in Users : CP!Advances(b) /\ CP!Judges(b)
  BY <1>2, ClientConstants, CP!CallSteps DEF EndInv
<1>5. LinkInv' /\ FreshInv'
  BY <1>4, FlightStays
<1>6. InboxInv'
  BY <1>1, <1>4, InboxStaysExplained
<1>7. GivenInv' /\ RejectionsHaveAReason'
  BY <1>1, <1>4, VerdictsStay
<1> QED BY <1>3, <1>5, <1>6, <1>7 DEF EndInv

\* It holds at first: no call has begun, nothing is in flight.
LEMMA InitEndInv == EndInit => EndInv
<1> SUFFICES ASSUME EndInit PROVE EndInv
  OBVIOUS
<1>1. CP!ClientInv
  BY ClientInitIs, ClientConstants, CP!InitClientInv DEF EndInit
<1>2. /\ xchg = [c \in Users |-> [at |-> "new", attempt |-> 0, id |-> NoOne,
                                  auth |-> NoOne, result |-> "none", got |-> NoOne]]
      /\ inFlight = [c \in Users |-> 0] /\ inbox = <<>>
      /\ net = [d \in Callers |-> "unsent"] /\ settled = [d \in Callers |-> {}]
      /\ at = [d \in Callers |-> "net"] /\ sent = [d \in Callers |-> {}]
  BY DEF EndInit, Client!ClientInit, ServerInit
<1>3. \A c \in Users : Out(c) = {}
  BY <1>2 DEF Out, Pending
<1>4. LinkInv
  BY <1>2, <1>3, FS_EmptySet DEF LinkInv
<1>5. FreshInv /\ InboxInv /\ GivenInv /\ RejectionsHaveAReason
  BY <1>2 DEF FreshInv, InboxInv, GivenInv, RejectionsHaveAReason
<1> QED BY <1>1, <1>4, <1>5 DEF EndInv

\* Both ends together keep EndInv.
THEOREM EndInvariance == EndSpec => []EndInv
BY InitEndInv, StepEndInv, EndKeepsServerInv, PTL DEF EndSpec

\* The client of the whole is the client of module ProtocolClient: what that
\* module lets a server do covers what this server and network do.
THEOREM EndImplementsClient == EndSpec => ImplementsClient
<1>1. EndInit => Client!ClientInit
  BY DEF EndInit
<1> QED BY <1>1, EndStepIsClients, EndInvariance, EndKeepsServerInv, PTL
        DEF EndSpec, ImplementsClient, Client!ClientSpec

\* A call that is given a reply (protocol/client.go:467-476) gets that of a run
\* of the handler on a request with its Identifier and Request Authenticator, and
\* no two of its own were handled in one window (server/dedup.go:71-111).
THEOREM AcceptedWereServed == EndSpec => []AcceptedMeansServedOncePerWindow
<1>1. ServerInv /\ EndInv => AcceptedMeansServedOncePerWindow
  <2> SUFFICES ASSUME ServerInv, EndInv, Dedup, NEW c \in Users, xchg[c].got # NoOne
               PROVE  /\ \E d \in Callers :
                            /\ CallOf[d] = xchg[c].got /\ IdOf[d] = xchg[c].id
                            /\ call[d].at = "stored"
                      /\ xchg[xchg[c].got].auth = xchg[c].auth
                      /\ \A d, e \in Callers :
                            d # e /\ CallOf[d] = c /\ CallOf[e] = c
                            /\ Allocated(d) /\ Allocated(e)
                            => \/ entry[d].born >= entry[e].expires
                               \/ entry[e].born >= entry[d].expires
    BY DEF AcceptedMeansServedOncePerWindow
  <2>1. PICK d \in Callers : CallOf[d] = xchg[c].got /\ call[d].at = "stored"
    BY DEF EndInv, GivenInv, Served
  <2>2. /\ xchg[xchg[c].got].id = xchg[c].id
        /\ xchg[xchg[c].got].auth = xchg[c].auth
    BY DEF EndInv, CP!ClientInv, CP!CallInv, CP!RepliesStayApart
  <2>3. IdOf[d] = xchg[c].id
    <3>1. Sent(d)
      BY <2>1, StoredIsSent DEF EndInv
    <3> QED BY <2>1, <2>2, <3>1 DEF Sent
  <2>4. ASSUME NEW e \in Callers, CallOf[e] = c, Allocated(e) PROVE IdOf[e] = xchg[c].id
    <3>1. call[e].at # "idle"
      BY <2>4 DEF ServerInv, IInv, AllocInv
    <3>2. Sent(e)
      BY <3>1, StoredIsSent DEF EndInv
    <3> QED BY <2>4, <3>2 DEF Sent
  <2>5. ASSUME NEW e \in Callers, NEW f \in Callers, e # f, CallOf[e] = c, CallOf[f] = c,
               Allocated(e), Allocated(f)
        PROVE  \/ entry[e].born >= entry[f].expires
               \/ entry[f].born >= entry[e].expires
    <3>1. DedupKey(e) = DedupKey(f)
      BY <2>4, <2>5, OneAddress DEF DedupKey
    <3> QED BY <2>5, <3>1 DEF ServerInv, IInv, WindowsExclusive
  <2> QED BY <2>1, <2>5, <2>2, <2>3
<1> QED BY <1>1, EndInvariance, EndKeepsServerInv, PTL

\* A reply is refused (protocol/verify.go:45-63) only for a reason: another
\* request, or a handler that has outlived the window of its entry.
THEOREM RefusalsHaveAReason == EndSpec => []RejectionsHaveAReason
<1>1. EndInv => RejectionsHaveAReason
  BY DEF EndInv
<1> QED BY <1>1, EndInvariance, PTL

\* Every variable of both ends and of the network keeps its type.
THEOREM EndTypeCorrect == EndSpec => []EndTypeOK
<1>1. CP!ClientTypeOK => Client!ClientTypeOK
  BY Zenon DEF CP!ClientTypeOK, Client!ClientTypeOK, CP!PoolTypeOK, Client!PoolTypeOK,
               CP!Results, Client!Results
<1>2. CP!ClientInv => CP!ClientTypeOK
  BY ClientConstants, CP!InvHasTypes
<1>3. ServerInv /\ EndInv => EndTypeOK
  BY <1>1, <1>2 DEF ServerInv, SInv, EndInv, LinkInv, EndTypeOK
<1> QED BY <1>3, EndInvariance, EndKeepsServerInv, PTL
=============================================================================
