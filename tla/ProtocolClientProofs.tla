------------------------ MODULE ProtocolClientProofs ------------------------
(***************************************************************************)
(* The identifier pool keeps every Identifier exactly once, in the channel *)
(* or with one user, and so implements module IdAllocator, for every set   *)
(* of users and of Identifiers.  The argument needs that Release never     *)
(* drops a token: by the pigeonhole principle a channel that lacks one     *)
(* Identifier and holds no other twice has room for it.                    *)
(*                                                                         *)
(* However its exchange ends, a call acquires one Identifier and releases  *)
(* it once: seen from the pool, the client's calls are legal users, so all *)
(* that is proved of the pool holds in the client.  No call returns a      *)
(* reply to another one that is under way.  The argument is a              *)
(* correspondence between the call's place and the pool's: a call is under *)
(* way exactly while it holds an Identifier, the one it transmits.         *)
(***************************************************************************)
EXTENDS ProtocolClient, FiniteSetTheorems, TLAPS

PoolInv ==
    /\ PoolTypeOK
    /\ NoIdHeldTwice
    /\ NoIdLost
    /\ \A u \in Users : Holds(u) => user[u].id \in Ids

UserType == [at : {"new", "holding", "exhausted", "released"}, id : Ids \cup {None}]

\* NewIdentifierPool puts each Identifier into the channel once.
THEOREM InitPoolInv == PoolInit => PoolInv
<1> SUFFICES ASSUME PoolInit PROVE PoolInv
  OBVIOUS
<1> USE SeedHoldsEveryId DEF PoolInit, Holds
<1>1. PoolTypeOK
  BY DEF PoolTypeOK
<1>2. NoIdHeldTwice
  BY DEF NoIdHeldTwice
<1>3. NoIdLost
  BY DEF NoIdLost, InPool
<1> QED BY <1>1, <1>2, <1>3 DEF PoolInv

\* The channel has room for an Identifier it does not hold, so the default
\* case of Release's select is never taken by a legal caller.
LEMMA ReleaseHasRoom ==
    ASSUME PoolInv, NEW i \in Ids, ~InPool(i)
    PROVE  Len(tokens) < Capacity
<1>1. /\ Seed \in [1..Len(Seed) -> Ids] /\ Len(Seed) \in Nat
      /\ \A j \in Ids : \E n \in 1..Len(Seed) : Seed[n] = j
  BY SeedHoldsEveryId
<1>2. ExistsSurjection(1..Len(Seed), Ids)
  BY <1>1 DEF ExistsSurjection, Surjection
<1>3. IsFiniteSet(Ids) /\ Cardinality(Ids) <= Len(Seed)
  BY <1>1, <1>2, FS_NatSurjection, FS_SurjCardinalityBound
<1>4. /\ IsFiniteSet(Ids \ {i})
      /\ Cardinality(Ids \ {i}) = Cardinality(Ids) - 1
  BY <1>3, FS_RemoveElement
<1>5. Cardinality(Ids) \in Nat /\ Cardinality(Ids \ {i}) \in Nat
  BY <1>3, <1>4, FS_CardinalityType
<1>6. IsFiniteSet(1..Len(Seed)) /\ Cardinality(1..Len(Seed)) = Len(Seed)
  <2> DEFINE last == Len(Seed)
  <2>1. 1 \in Int /\ last \in Int /\ last >= 0
    BY <1>1
  <2> HIDE DEF last
  <2>2. /\ IsFiniteSet(1..last)
        /\ Cardinality(1..last) = IF 1 > last THEN 0 ELSE last - 1 + 1
    BY <2>1, FS_Interval
  <2>3. IsFiniteSet(1..last) /\ Cardinality(1..last) = last
    BY <2>1, <2>2
  <2> QED BY <2>3 DEF last
<1>7. ASSUME Len(tokens) >= Len(Seed) PROVE FALSE
  <2> DEFINE f == [n \in 1..Len(Seed) |-> tokens[n]]
  <2>1. tokens \in Seq(Ids)
    BY DEF PoolInv, PoolTypeOK
  <2>2. \A n \in 1..Len(Seed) : n \in 1..Len(tokens)
    BY <1>1, <1>7, <2>1
  <2>3. \A n \in 1..Len(Seed) : tokens[n] \in Ids \ {i}
    BY <2>1, <2>2 DEF InPool
  <2>4. f \in [1..Len(Seed) -> Ids \ {i}]
    BY <2>3
  <2>5. \A m, n \in 1..Len(Seed) : f[m] = f[n] => m = n
    BY <2>2 DEF PoolInv, NoIdLost
  <2> HIDE DEF f
  <2>6. \E m, n \in 1..Len(Seed) : m # n /\ f[m] = f[n]
    <3>1. Cardinality(Ids \ {i}) < Cardinality(1..Len(Seed))
      BY <1>1, <1>3, <1>4, <1>5, <1>6
    <3> QED BY <1>4, <1>6, <2>4, <3>1, FS_PigeonHole
  <2> QED BY <2>5, <2>6
<1>8. Len(tokens) \in Nat
  BY DEF PoolInv, PoolTypeOK
<1> QED BY <1>1, <1>7, <1>8 DEF Capacity

\* What a call of Acquire does to the channel.
LEMMA AcquireTakes ==
    ASSUME PoolInv, NEW u \in Users, Acquire(u)
    PROVE  /\ Head(tokens) \in Ids
           /\ tokens' \in Seq(Ids)
           /\ \A i \in Ids : InPool(i)' <=> InPool(i) /\ i # Head(tokens)
           /\ InPool(Head(tokens))
           /\ \A m, n \in 1..Len(tokens') : tokens'[m] = tokens'[n] => m = n
<1>1. /\ tokens \in Seq(Ids) /\ tokens # <<>> /\ tokens' = Tail(tokens)
      /\ \A m, n \in 1..Len(tokens) : tokens[m] = tokens[n] => m = n
  BY DEF PoolInv, PoolTypeOK, NoIdLost, Acquire
<1>2. /\ tokens' \in Seq(Ids) /\ Len(tokens') = Len(tokens) - 1
      /\ Len(tokens) \in Nat /\ Len(tokens) >= 1
      /\ \A n \in 1..Len(tokens') : tokens'[n] = tokens[n + 1]
      /\ Head(tokens) = tokens[1] /\ Head(tokens) \in Ids
  BY <1>1
<1>3. ASSUME NEW i \in Ids PROVE InPool(i)' <=> InPool(i) /\ i # Head(tokens)
  <2>1. ASSUME NEW n \in 1..Len(tokens'), tokens'[n] = i
        PROVE  InPool(i) /\ i # Head(tokens)
    <3>1. n + 1 \in 1..Len(tokens) /\ 1 \in 1..Len(tokens) /\ n + 1 # 1
      BY <1>2
    <3> QED BY <1>1, <1>2, <2>1, <3>1 DEF InPool
  <2>2. ASSUME NEW n \in 1..Len(tokens), tokens[n] = i, i # Head(tokens)
        PROVE  InPool(i)'
    <3>1. n - 1 \in 1..Len(tokens') /\ (n - 1) + 1 = n
      BY <1>2, <2>2
    <3> QED BY <1>2, <2>2, <3>1 DEF InPool
  <2> QED BY <2>1, <2>2 DEF InPool
<1>4. InPool(Head(tokens))
  BY <1>2 DEF InPool
<1>5. ASSUME NEW m \in 1..Len(tokens'), NEW n \in 1..Len(tokens'),
             tokens'[m] = tokens'[n]
      PROVE  m = n
  <2>1. m + 1 \in 1..Len(tokens) /\ n + 1 \in 1..Len(tokens)
    BY <1>2
  <2> QED BY <1>1, <1>2, <1>5, <2>1
<1> QED BY <1>2, <1>3, <1>4, <1>5

\* What a call of Release does to the channel.
LEMMA ReleaseReturns ==
    ASSUME PoolInv, NEW u \in Users, Release(u)
    PROVE  /\ user[u].id \in Ids /\ ~InPool(user[u].id)
           /\ tokens' \in Seq(Ids)
           /\ \A i \in Ids : InPool(i)' <=> InPool(i) \/ i = user[u].id
           /\ \A m, n \in 1..Len(tokens') : tokens'[m] = tokens'[n] => m = n
<1> DEFINE i == user[u].id
<1>1. i \in Ids /\ ~InPool(i)
  BY DEF PoolInv, NoIdHeldTwice, Release
<1>2. tokens' = Append(tokens, i)
  BY <1>1, ReleaseHasRoom DEF Release
<1>3. /\ tokens \in Seq(Ids)
      /\ \A m, n \in 1..Len(tokens) : tokens[m] = tokens[n] => m = n
  BY DEF PoolInv, PoolTypeOK, NoIdLost
<1> HIDE DEF i
<1>4. /\ tokens' \in Seq(Ids) /\ Len(tokens') = Len(tokens) + 1 /\ Len(tokens) \in Nat
      /\ \A n \in 1..Len(tokens) : tokens'[n] = tokens[n]
      /\ tokens'[Len(tokens) + 1] = i
  BY <1>1, <1>2, <1>3
<1>5. \A n \in 1..Len(tokens') : n \in 1..Len(tokens) \/ n = Len(tokens) + 1
  BY <1>4
<1>6. 1..Len(tokens) \subseteq 1..Len(tokens') /\ Len(tokens) + 1 \in 1..Len(tokens')
  BY <1>4
<1>7. ASSUME NEW j \in Ids PROVE InPool(j)' <=> InPool(j) \/ j = i
  BY <1>4, <1>5, <1>6 DEF InPool
<1>8. \A n \in 1..Len(tokens) : tokens[n] # i
  BY <1>1 DEF InPool
<1>9. \A m, n \in 1..Len(tokens') : tokens'[m] = tokens'[n] => m = n
  BY <1>3, <1>4, <1>5, <1>8
<1> QED BY <1>1, <1>4, <1>7, <1>9 DEF i

\* Acquire, its cancellation and Release keep the invariant.
LEMMA StepPoolInv == PoolInv /\ [PoolNext]_poolVars => PoolInv'
<1> SUFFICES ASSUME PoolInv, [PoolNext]_poolVars PROVE PoolInv'
  OBVIOUS
<1>0. user \in [Users -> UserType] /\ tokens \in Seq(Ids)
  BY DEF PoolInv, PoolTypeOK, UserType
<1>1. ASSUME NEW u \in Users, Acquire(u) PROVE PoolInv'
  <2>1. user' = [user EXCEPT ![u] = [at |-> "holding", id |-> Head(tokens)]]
    BY <1>1 DEF Acquire
  <2>2. /\ user' \in [Users -> UserType] /\ Holds(u)' /\ user'[u].id = Head(tokens)
        /\ \A v \in Users \ {u} : user'[v] = user[v]
        /\ ~Holds(u)
    BY <1>0, <1>1, <2>1, AcquireTakes DEF UserType, Holds, Acquire
  <2>3. PoolTypeOK'
    BY <1>1, <2>2, AcquireTakes DEF PoolTypeOK, UserType
  <2>4. \A v \in Users : Holds(v)' => user'[v].id \in Ids
    BY <1>1, <2>2, AcquireTakes DEF PoolInv, Holds
  <2>5. NoIdHeldTwice'
    BY <1>1, <2>2, <2>4, AcquireTakes DEF PoolInv, NoIdHeldTwice, Holds
  <2>6. ASSUME NEW i \in Ids
        PROVE  InPool(i)' \/ \E v \in Users : Holds(v)' /\ user'[v].id = i
    BY <1>1, <2>2, AcquireTakes DEF PoolInv, NoIdLost, Holds
  <2>7. NoIdLost'
    BY <1>1, <2>6, AcquireTakes DEF NoIdLost
  <2> QED BY <2>3, <2>4, <2>5, <2>7 DEF PoolInv
<1>2. ASSUME NEW u \in Users, AcquireCanceled(u) PROVE PoolInv'
  <2>1. user' = [user EXCEPT ![u].at = "exhausted"] /\ tokens' = tokens
    BY <1>2 DEF AcquireCanceled
  <2>2. /\ user' \in [Users -> UserType] /\ ~Holds(u)' /\ ~Holds(u)
        /\ \A v \in Users \ {u} : user'[v] = user[v]
    BY <1>0, <1>2, <2>1 DEF UserType, Holds, AcquireCanceled
  <2>3. PoolTypeOK'
    BY <1>0, <2>1, <2>2 DEF PoolTypeOK, UserType
  <2> QED BY <2>1, <2>2, <2>3 DEF PoolInv, NoIdHeldTwice, NoIdLost, InPool, Holds
<1>3. ASSUME NEW u \in Users, Release(u) PROVE PoolInv'
  <2>1. user' = [user EXCEPT ![u] = [at |-> "released", id |-> None]]
    BY <1>3 DEF Release
  <2>2. /\ user' \in [Users -> UserType] /\ ~Holds(u)' /\ Holds(u)
        /\ \A v \in Users \ {u} : user'[v] = user[v]
    BY <1>0, <1>3, <2>1 DEF UserType, Holds, Release
  <2>3. PoolTypeOK'
    BY <1>3, <2>2, ReleaseReturns DEF PoolTypeOK, UserType
  <2>4. \A v \in Users : Holds(v)' => v # u /\ Holds(v) /\ user'[v] = user[v]
    BY <2>2 DEF Holds
  <2>5. NoIdHeldTwice'
    BY <1>3, <2>2, <2>4, ReleaseReturns DEF PoolInv, NoIdHeldTwice
  <2>6. ASSUME NEW i \in Ids
        PROVE  InPool(i)' \/ \E v \in Users : Holds(v)' /\ user'[v].id = i
    BY <1>3, <2>2, ReleaseReturns DEF PoolInv, NoIdLost, Holds
  <2>7. NoIdLost'
    BY <1>3, <2>6, ReleaseReturns DEF NoIdLost
  <2> QED BY <2>3, <2>4, <2>5, <2>7 DEF PoolInv
<1>4. CASE UNCHANGED poolVars
  BY <1>4 DEF PoolInv, poolVars, PoolTypeOK, NoIdHeldTwice, NoIdLost, InPool, Holds
<1> QED BY <1>1, <1>2, <1>3, <1>4 DEF PoolNext

\* PoolInv holds in every state of every behavior of the pool.
THEOREM PoolInvariance == PoolSpec => []PoolInv
BY InitPoolInv, StepPoolInv, PTL DEF PoolSpec

\* The channel and the users hold Identifiers.
THEOREM PoolTypeCorrect == PoolSpec => []PoolTypeOK
<1>1. PoolInv => PoolTypeOK
  BY DEF PoolInv
<1> QED BY <1>1, PoolInvariance, PTL

\* No Identifier is in use twice (protocol/identifier.go:38-40).
THEOREM IdsAreExclusive == PoolSpec => []NoIdHeldTwice
<1>1. PoolInv => NoIdHeldTwice
  BY DEF PoolInv
<1> QED BY <1>1, PoolInvariance, PTL

\* No Identifier is lost (protocol/identifier.go:54-81).
THEOREM IdsAreKept == PoolSpec => []NoIdLost
<1>1. PoolInv => NoIdLost
  BY DEF PoolInv
<1> QED BY <1>1, PoolInvariance, PTL

-----------------------------------------------------------------------------
\* The refinement mapping says who holds an Identifier.
OwnerFacts ==
    /\ owner \in [Ids -> Users \cup {None}]
    /\ \A i \in Ids, u \in Users : owner[i] = u <=> Holds(u) /\ user[u].id = i

\* The refinement's owner of an Identifier is the user that holds it.
LEMMA OwnerIsHolder == PoolInv => OwnerFacts
<1> SUFFICES ASSUME PoolInv PROVE OwnerFacts
  OBVIOUS
<1>1. None \notin Users
  BY NoneIsNoIdOrUser
<1>2. ASSUME NEW i \in Ids, ~\E u \in Users : Holds(u) /\ user[u].id = i
      PROVE  owner[i] = None
  BY <1>2 DEF owner
<1>3. ASSUME NEW i \in Ids, NEW u \in Users, Holds(u) /\ user[u].id = i
      PROVE  owner[i] = u
  <2>1. owner[i] = CHOOSE v \in Users : Holds(v) /\ user[v].id = i
    BY <1>3 DEF owner
  <2>2. owner[i] \in Users /\ Holds(owner[i]) /\ user[owner[i]].id = i
    BY <1>3, <2>1
  <2> QED BY <1>3, <2>2 DEF PoolInv, NoIdHeldTwice
<1>4. owner = [i \in Ids |-> owner[i]]
  BY DEF owner
<1>5. \A i \in Ids : owner[i] \in Users \cup {None}
  BY <1>2, <1>3
<1>6. \A i \in Ids, u \in Users : owner[i] = u => Holds(u) /\ user[u].id = i
  BY <1>1, <1>2, <1>3
<1> QED BY <1>3, <1>4, <1>5, <1>6 DEF OwnerFacts

\* An allocated Identifier has one owner from Acquire to Release, and both
\* change the owner of one Identifier only (protocol/identifier.go:31-40).
THEOREM PoolImplementsAllocator == PoolSpec => ImplementsAllocator
<1>1. PoolInit => Allocator!AllocInit
  <2> SUFFICES ASSUME PoolInit PROVE owner = [i \in Ids |-> None]
    BY DEF Allocator!AllocInit
  <2>1. ~\E u \in Users : Holds(u)
    BY DEF PoolInit, Holds
  <2> QED BY <2>1 DEF owner
<1>2. OwnerFacts /\ OwnerFacts' /\ PoolInv /\ [PoolNext]_poolVars
      => [Allocator!AllocNext]_owner
  <2> SUFFICES ASSUME OwnerFacts, OwnerFacts', PoolInv, [PoolNext]_poolVars
               PROVE  Allocator!AllocNext \/ owner' = owner
    OBVIOUS
  <2>0. /\ None \notin Users
        /\ owner = [i \in Ids |-> owner[i]] /\ owner' = [i \in Ids |-> owner'[i]]
        /\ \A i \in Ids : owner[i] \in Users \cup {None} /\ owner'[i] \in Users \cup {None}
    BY NoneIsNoIdOrUser DEF OwnerFacts
  <2>1. ASSUME NEW u \in Users, Acquire(u) PROVE Allocator!AllocNext
    <3> DEFINE h == Head(tokens)
    <3>1. /\ h \in Ids /\ InPool(h)
          /\ Holds(u)' /\ user'[u].id = h /\ ~Holds(u)
          /\ \A v \in Users \ {u} : user'[v] = user[v]
      BY <2>1, AcquireTakes DEF Acquire, Holds, PoolInv, PoolTypeOK
    <3>2. owner[h] = None
      BY <2>0, <3>1 DEF OwnerFacts, PoolInv, NoIdHeldTwice
    <3>3. owner'[h] = u
      BY <3>1 DEF OwnerFacts
    <3>4. ASSUME NEW i \in Ids, i # h PROVE owner'[i] = owner[i]
      <4>1. \A v \in Users : owner'[i] = v <=> owner[i] = v
        BY <3>1, <3>4 DEF OwnerFacts, Holds
      <4> QED BY <2>0, <4>1
    <3>5. \A i \in Ids : owner[i] # u
      BY <3>1 DEF OwnerFacts
    <3>6. owner' = [owner EXCEPT ![h] = u]
      BY <2>0, <3>1, <3>3, <3>4
    <3> HIDE DEF h
    <3> QED BY <3>1, <3>2, <3>5, <3>6 DEF Allocator!AllocNext, Allocator!Take
  <2>2. ASSUME NEW u \in Users, AcquireCanceled(u) PROVE owner' = owner
    <3>1. /\ \A v \in Users : Holds(v)' <=> Holds(v)
          /\ \A v \in Users : user'[v].id = user[v].id
      BY <2>2 DEF AcquireCanceled, Holds, PoolInv, PoolTypeOK
    <3> QED BY <2>0, <3>1 DEF OwnerFacts
  <2>3. ASSUME NEW u \in Users, Release(u) PROVE Allocator!AllocNext
    <3> DEFINE g == user[u].id
    <3>1. /\ g \in Ids /\ Holds(u) /\ ~Holds(u)'
          /\ \A v \in Users \ {u} : user'[v] = user[v]
      BY <2>3, ReleaseReturns DEF Release, Holds, PoolInv, PoolTypeOK
    <3>2. owner[g] = u
      BY <3>1 DEF OwnerFacts
    <3>3. owner'[g] = None
      BY <2>0, <3>1 DEF OwnerFacts, PoolInv, NoIdHeldTwice, Holds
    <3>4. ASSUME NEW i \in Ids, i # g PROVE owner'[i] = owner[i]
      <4>1. \A v \in Users : owner'[i] = v <=> owner[i] = v
        BY <3>1, <3>4 DEF OwnerFacts, Holds
      <4> QED BY <2>0, <4>1
    <3>6. owner' = [owner EXCEPT ![g] = None]
      BY <2>0, <3>1, <3>3, <3>4
    <3> HIDE DEF g
    <3> QED BY <3>1, <3>2, <3>6 DEF Allocator!AllocNext, Allocator!Give
  <2>4. CASE UNCHANGED poolVars
    BY <2>4 DEF poolVars, owner, Holds
  <2> QED BY <2>1, <2>2, <2>3, <2>4 DEF PoolNext
<1> QED BY <1>1, <1>2, OwnerIsHolder, PoolInvariance, PTL
    DEF PoolSpec, ImplementsAllocator, Allocator!AllocSpec

-----------------------------------------------------------------------------
Active == {"sending", "queueing", "reading", "backoff"}

CallType == [at : {"new", "returned"} \cup Active, attempt : 0..(Attempts - 1),
             id : Ids \cup {None}, auth : Auths \cup {None}, result : Results,
             got : Users \cup {None}]

\* What a call may be given: its own reply or that of an earlier call with the
\* same Identifier and Request Authenticator.
MayGet(c, b) ==
    \/ b \in {None, c}
    \/ xchg[b].at = "returned" /\ xchg[b].id = xchg[c].id /\ xchg[b].auth = xchg[c].auth

\* What concerns a call and its Identifier.
CallInv ==
    /\ xchg \in [Users -> CallType]
    /\ CallsOwnTheirIdentifier
    /\ \A c \in Users : user[c].at = "new" <=> xchg[c].at = "new"
    /\ \A c \in Users : xchg[c].at = "new" => xchg[c].id = None
    /\ \A c \in Users : xchg[c].at # "returned" => xchg[c].got = None
    /\ RepliesStayApart

\* What concerns the contexts, the socket and the network: a request copy
\* in flight carries an Identifier, and a reply that of the request.
NetInv ==
    /\ ctx \in [Users -> {"live", "canceled", "deadline"}]
    /\ due \subseteq Users
    /\ sock \in [by : Users \cup {None}, passed : BOOLEAN]
    /\ open \in BOOLEAN
    /\ inFlight \in [Users -> Nat]
    /\ inbox \in Seq([of : Users \cup {None}, id : Ids])
    /\ \A c \in Users : inFlight[c] > 0 => xchg[c].id \in Ids
    /\ \A n \in 1..Len(inbox) : inbox[n].of # None => xchg[inbox[n].of].id = inbox[n].id

ClientInv == PoolInv /\ CallInv /\ NetInv

\* The invariant contains the types.
LEMMA InvHasTypes == ClientInv => ClientTypeOK
BY DEF ClientInv, PoolInv, CallInv, NetInv, ClientTypeOK, CallType, Active

\* The invariant holds of a new client (NewClient).
THEOREM InitClientInv == ClientInit => ClientInv
<1> SUFFICES ASSUME ClientInit PROVE ClientInv
  OBVIOUS
<1>1. PoolInv
  BY InitPoolInv DEF ClientInit
<1>2. CallInv
  <2>1. \A c \in Users : ~Holds(c) /\ user[c].at = "new"
    BY DEF ClientInit, PoolInit, Holds
  <2> QED BY <2>1, AttemptsAssumption
          DEF ClientInit, CallInv, CallType, Active, Results, CallsOwnTheirIdentifier,
              RepliesStayApart
<1>3. NetInv
  BY DEF ClientInit, NetInv
<1> QED BY <1>1, <1>2, <1>3 DEF ClientInv

-----------------------------------------------------------------------------
(* How the steps of a call keep CallInv: it goes on, or it returns.        *)

\* An element of a sequence.
LEMMA Element == ASSUME NEW S, NEW s \in Seq(S), NEW n \in 1..Len(s) PROVE s[n] \in S
OBVIOUS

\* What the other calls were given is of calls that have returned, which no
\* step touches.
LEMMA OthersKeepTheirs ==
    ASSUME ClientInv, NEW c \in Users, xchg[c].at # "returned",
           \A d \in Users \ {c} : xchg'[d] = xchg[d],
           LET b == xchg'[c].got IN
           b \notin {None, c} => /\ b \in Users /\ xchg[b].at = "returned"
                                /\ xchg[b].id = xchg'[c].id /\ xchg[b].auth = xchg'[c].auth
    PROVE  RepliesStayApart'
<1>1. ASSUME NEW d \in Users, NEW b, b = xchg'[d].got, b \notin {None, d}
      PROVE  /\ xchg'[b].at = "returned"
             /\ xchg'[b].id = xchg'[d].id /\ xchg'[b].auth = xchg'[d].auth
  <2>1. CASE d = c
    BY <1>1, <2>1
  <2>2. CASE d # c
    <3>1. /\ xchg[d].got = b /\ b \in Users
          /\ xchg[b].at = "returned" /\ xchg[b].id = xchg[d].id /\ xchg[b].auth = xchg[d].auth
      BY <1>1, <2>2 DEF ClientInv, CallInv, CallType, RepliesStayApart, At
    <3> QED BY <1>1, <2>2, <3>1
  <2> QED BY <2>1, <2>2
<1> QED BY <1>1 DEF RepliesStayApart, At


\* The call goes on with the Identifier it has.
LEMMA GoesOn ==
    ASSUME ClientInv, NEW c \in Users, NEW p \in Active, NEW n \in 0..(Attempts - 1),
           xchg[c].at \in Active,
           xchg' = [xchg EXCEPT ![c] = [@ EXCEPT !.at = p, !.attempt = n]],
           UNCHANGED poolVars
    PROVE  CallInv' /\ \A d \in Users : xchg'[d].id = xchg[d].id
<1>1. /\ xchg' \in [Users -> CallType]
      /\ xchg'[c].at = p /\ xchg'[c].id = xchg[c].id
      /\ xchg'[c].got = xchg[c].got /\ xchg[c].got = None
      /\ \A d \in Users \ {c} : xchg'[d] = xchg[d]
  BY DEF ClientInv, CallInv, CallType, Active
<1>2. user' = user
  BY DEF poolVars
<1>3. CallsOwnTheirIdentifier'
  BY <1>1, <1>2 DEF ClientInv, CallInv, CallsOwnTheirIdentifier, Active, Holds
<1>4. \A d \in Users : user'[d].at = "new" <=> xchg'[d].at = "new"
  BY <1>1, <1>2 DEF ClientInv, CallInv, Active
<1>5. RepliesStayApart'
  BY <1>1, OthersKeepTheirs DEF Active
<1>6. \A d \in Users : /\ xchg'[d].at = "new" => xchg'[d].id = None
                       /\ xchg'[d].at # "returned" => xchg'[d].got = None
  BY <1>1 DEF ClientInv, CallInv, Active
<1> QED BY <1>1, <1>3, <1>4, <1>5, <1>6 DEF CallInv

\* The call returns, with a reply that it may be given or with none.
LEMMA Returns ==
    ASSUME ClientInv, NEW c \in Users, NEW result \in Results, NEW from \in Users \cup {None},
           Return(c, result, from), xchg[c].at \in Active,
           MayGet(c, from)
    PROVE  CallInv' /\ \A d \in Users : xchg'[d].id = xchg[d].id
<1>0. 0 \in 0..(Attempts - 1)
  BY AttemptsAssumption
<1>1. xchg' = [xchg EXCEPT ![c] = [@ EXCEPT !.at = "returned", !.attempt = 0,
                                            !.result = result, !.got = from]]
  BY DEF Return
<1>2. /\ xchg' \in [Users -> CallType]
      /\ xchg'[c].at = "returned" /\ xchg'[c].id = xchg[c].id
      /\ xchg'[c].auth = xchg[c].auth /\ xchg'[c].got = from
      /\ \A d \in Users \ {c} : xchg'[d] = xchg[d]
  BY <1>0, <1>1 DEF ClientInv, CallInv, CallType
<1>3. user' = [user EXCEPT ![c] = [at |-> "released", id |-> None]]
  BY DEF Return, Release
<1>4. /\ ~Holds(c)' /\ user'[c].at = "released"
      /\ \A d \in Users \ {c} : user'[d] = user[d]
  BY <1>3 DEF ClientInv, PoolInv, PoolTypeOK, Holds
<1>5. CallsOwnTheirIdentifier'
  BY <1>2, <1>4 DEF ClientInv, CallInv, CallsOwnTheirIdentifier, Active, Holds
<1>6. \A d \in Users : user'[d].at = "new" <=> xchg'[d].at = "new"
  BY <1>2, <1>4 DEF ClientInv, CallInv
<1>7. RepliesStayApart'
  BY <1>2, OthersKeepTheirs DEF Active, MayGet
<1>8. \A d \in Users : /\ xchg'[d].at = "new" => xchg'[d].id = None
                       /\ xchg'[d].at # "returned" => xchg'[d].got = None
  BY <1>2 DEF ClientInv, CallInv
<1> QED BY <1>2, <1>5, <1>6, <1>7, <1>8 DEF CallInv

\* A failed attempt leads to the next one, or to the call's end.
LEMMA AttemptFails ==
    ASSUME ClientInv, NEW c \in Users, xchg[c].at \in Active,
           NEW err \in Results \ {"reply", "unexpectedCode"},
           NextAttempt(c, err) \/ ExchangeFails(c, err)
    PROVE  CallInv' /\ \A d \in Users : xchg'[d].id = xchg[d].id
<1>1. CASE Return(c, err, None) \/ Return(c, "context", None)
  BY <1>1, Returns DEF Results, MayGet
<1>2. CASE ~LastAttempt(c) /\ NextAttempt(c, err)
  <2>1. xchg[c] \in CallType /\ xchg[c].attempt # Attempts - 1
    BY <1>2 DEF ClientInv, CallInv, LastAttempt
  <2>2. xchg[c].attempt + 1 \in 0..(Attempts - 1)
    BY <2>1, AttemptsAssumption DEF CallType
  <2>3. xchg' = [xchg EXCEPT ![c] =
                    [@ EXCEPT !.at = "backoff", !.attempt = xchg[c].attempt + 1]]
    BY <1>2 DEF NextAttempt
  <2> QED BY <1>2, <2>2, <2>3, GoesOn DEF NextAttempt, Active
<1> QED BY <1>1, <1>2 DEF NextAttempt, ExchangeFails

\* The same, seen from the pool: a Release, or nothing.
LEMMA AttemptFailsInPool ==
    ASSUME NEW c \in Users, NEW err, NextAttempt(c, err) \/ ExchangeFails(c, err)
    PROVE  Release(c) \/ UNCHANGED poolVars
BY DEF NextAttempt, ExchangeFails, Return

\* Beginning a call is an Acquire, with which the call gets its Identifier;
\* no reply is there yet that answers it.
LEMMA BeginKeeps ==
    ASSUME ClientInv, NEW c \in Users, Begin(c)
    PROVE  CallInv' /\ NetInv'
<1> DEFINE h == Head(tokens)
<1>1. h \in Ids
  BY AcquireTakes DEF Begin, ClientInv
<1>2. /\ user[c].at = "new" /\ xchg[c].at = "new"
      /\ user' = [user EXCEPT ![c] = [at |-> "holding", id |-> h]]
      /\ \E auth \in Auths :
            xchg' = [xchg EXCEPT ![c] = [@ EXCEPT !.at = "sending", !.id = h, !.auth = auth]]
      /\ UNCHANGED <<ctx, due, sock, open, inFlight, inbox>>
  BY DEF Begin, Acquire, ClientInv, CallInv, netVars
<1> HIDE DEF h
<1>3. /\ xchg' \in [Users -> CallType]
      /\ xchg'[c].at = "sending" /\ xchg'[c].id = h
      /\ xchg'[c].got = xchg[c].got /\ xchg[c].got = None /\ xchg[c].id = None
      /\ \A d \in Users \ {c} : xchg'[d] = xchg[d]
  <2>1. PICK auth \in Auths :
           xchg' = [xchg EXCEPT ![c] = [@ EXCEPT !.at = "sending", !.id = h, !.auth = auth]]
    BY <1>2
  <2> QED BY <1>1, <1>2, <2>1 DEF ClientInv, CallInv, CallType, Active
<1>4. /\ Holds(c)' /\ user'[c].id = h /\ user'[c].at = "holding"
      /\ \A d \in Users \ {c} : user'[d] = user[d]
  BY <1>2 DEF ClientInv, PoolInv, PoolTypeOK, Holds
<1>5. CallsOwnTheirIdentifier'
  BY <1>3, <1>4 DEF ClientInv, CallInv, CallsOwnTheirIdentifier, Holds
<1>6. \A d \in Users : user'[d].at = "new" <=> xchg'[d].at = "new"
  BY <1>3, <1>4 DEF ClientInv, CallInv
<1>7. RepliesStayApart'
  BY <1>2, <1>3, OthersKeepTheirs
<1>8. \A d \in Users : /\ xchg'[d].at = "new" => xchg'[d].id = None
                       /\ xchg'[d].at # "returned" => xchg'[d].got = None
  BY <1>3 DEF ClientInv, CallInv
<1>9. \A d \in Users : inFlight'[d] > 0 => xchg'[d].id \in Ids
  BY <1>1, <1>2, <1>3 DEF ClientInv, NetInv
<1>10. ASSUME NEW n \in 1..Len(inbox), inbox[n].of # None
       PROVE  xchg'[inbox[n].of].id = inbox[n].id
  <2>1. /\ inbox[n] \in [of : Users \cup {None}, id : Ids]
        /\ xchg[inbox[n].of].id = inbox[n].id
    <3>1. inbox \in Seq([of : Users \cup {None}, id : Ids])
      BY DEF ClientInv, NetInv
    <3>2. \A m \in 1..Len(inbox) : inbox[m].of # None => xchg[inbox[m].of].id = inbox[m].id
      BY DEF ClientInv, NetInv
    <3>3. inbox[n] \in [of : Users \cup {None}, id : Ids]
      BY <3>1, Element, Zenon
    <3> QED BY <1>10, <3>2, <3>3, Zenon
  <2>2. inbox[n].of \in Users \ {c}
    BY <1>3, <1>10, <2>1, NoneIsNoIdOrUser
  <2> QED BY <1>3, <2>1, <2>2
<1>11. NetInv'
  BY <1>2, <1>9, <1>10 DEF ClientInv, NetInv
<1> QED BY <1>3, <1>5, <1>6, <1>7, <1>8, <1>11 DEF CallInv

\* A call that gets no Identifier returns without one.
LEMMA BeginCanceledKeeps ==
    ASSUME ClientInv, NEW c \in Users, BeginCanceled(c)
    PROVE  CallInv' /\ NetInv'
<1>1. /\ user[c].at = "new" /\ xchg[c].at = "new"
      /\ user' = [user EXCEPT ![c] = [@ EXCEPT !.at = "exhausted"]]
      /\ xchg' = [xchg EXCEPT ![c] = [@ EXCEPT !.at = "returned", !.result = "exhausted"]]
      /\ UNCHANGED <<ctx, due, sock, open, inFlight, inbox>>
  BY DEF BeginCanceled, AcquireCanceled, ClientInv, CallInv, netVars
<1>2. /\ xchg' \in [Users -> CallType]
      /\ xchg'[c].at = "returned" /\ xchg'[c].id = xchg[c].id
      /\ xchg'[c].got = xchg[c].got /\ xchg[c].got = None
      /\ \A d \in Users \ {c} : xchg'[d] = xchg[d]
  BY <1>1 DEF ClientInv, CallInv, CallType, Results
<1>3. /\ ~Holds(c)' /\ user'[c].at = "exhausted"
      /\ \A d \in Users \ {c} : user'[d] = user[d]
  BY <1>1 DEF ClientInv, PoolInv, PoolTypeOK, Holds
<1>4. CallsOwnTheirIdentifier'
  BY <1>2, <1>3 DEF ClientInv, CallInv, CallsOwnTheirIdentifier, Holds
<1>5. \A d \in Users : user'[d].at = "new" <=> xchg'[d].at = "new"
  BY <1>2, <1>3 DEF ClientInv, CallInv
<1>6. RepliesStayApart'
  BY <1>1, <1>2, OthersKeepTheirs
<1>7. \A d \in Users : /\ xchg'[d].at = "new" => xchg'[d].id = None
                       /\ xchg'[d].at # "returned" => xchg'[d].got = None
  BY <1>2 DEF ClientInv, CallInv
<1>8. \A d \in Users : xchg'[d].id = xchg[d].id
  BY <1>2
<1>9. NetInv'
  BY <1>1, <1>8 DEF ClientInv, NetInv
<1> QED BY <1>2, <1>4, <1>5, <1>6, <1>7, <1>9 DEF CallInv

\* The network's part is untouched when no Identifier and no copy changes.
LEMMA NetStays ==
    ASSUME ClientInv, \A d \in Users : xchg'[d].id = xchg[d].id,
           ctx' = ctx, due' \subseteq Users, open' = open, inFlight' = inFlight,
           sock' \in [by : Users \cup {None}, passed : BOOLEAN],
           inbox' \in Seq([of : Users \cup {None}, id : Ids]),
           \A n \in 1..Len(inbox') :
              inbox'[n].of # None => xchg[inbox'[n].of].id = inbox'[n].id
    PROVE  NetInv'
<1>1. \A n \in 1..Len(inbox') :
         inbox'[n].of # None => xchg'[inbox'[n].of].id = inbox'[n].id
  <2> SUFFICES ASSUME NEW n \in 1..Len(inbox'), inbox'[n].of # None
               PROVE  xchg'[inbox'[n].of].id = inbox'[n].id
    OBVIOUS
  <2>1. inbox'[n] \in [of : Users \cup {None}, id : Ids]
    BY Element, Zenon
  <2> QED BY <2>1
<1> QED BY <1>1 DEF ClientInv, NetInv

\* An attempt's steps up to its failure or its reply.
LEMMA AttemptKeeps ==
    ASSUME ClientInv, NEW c \in Users,
           \/ EncodeFails(c) \/ Send(c) \/ SendExpired(c) \/ StartReading(c)
           \/ ReadReply(c) \/ ReadTimesOut(c) \/ SocketClosed(c) \/ BackoffEnds(c)
           \/ Refused(c)
    PROVE  CallInv' /\ NetInv'
<1>0. /\ xchg[c] \in CallType
      /\ sock \in [by : Users \cup {None}, passed : BOOLEAN]
      /\ due \subseteq Users
      /\ inbox \in Seq([of : Users \cup {None}, id : Ids])
      /\ \A n \in 1..Len(inbox) : inbox[n].of # None => xchg[inbox[n].of].id = inbox[n].id
      /\ xchg[c].attempt \in 0..(Attempts - 1)
  BY DEF ClientInv, CallInv, NetInv, CallType
<1>1. CASE EncodeFails(c)
  <2>1. /\ Return(c, "encode", None) /\ xchg[c].at \in Active
        /\ UNCHANGED <<ctx, due, sock, open, inFlight, inbox>>
    BY <1>1 DEF EncodeFails, At, Active, netVars
  <2>2. CallInv' /\ \A d \in Users : xchg'[d].id = xchg[d].id
    BY <2>1, Returns DEF Results, MayGet
  <2> QED BY <1>0, <2>1, <2>2, NetStays
<1>2. CASE Send(c)
  <2>1. /\ xchg[c].at \in Active /\ UNCHANGED <<user, tokens>>
        /\ xchg' = [xchg EXCEPT ![c].at = "queueing"]
        /\ xchg[c].at = "sending"
        /\ sock' = [by |-> IF HasDeadline(c) THEN c ELSE None, passed |-> FALSE]
        /\ inFlight' = [inFlight EXCEPT ![c] = @ + 1]
        /\ UNCHANGED <<ctx, open, inbox>> /\ due' = due \ {c}
    BY <1>2 DEF Send, At, Active, poolVars
  <2>2. xchg' = [xchg EXCEPT ![c] = [@ EXCEPT !.at = "queueing", !.attempt = xchg[c].attempt]]
    BY <1>0, <2>1 DEF CallType
  <2>3. CallInv' /\ \A d \in Users : xchg'[d].id = xchg[d].id
    BY <1>0, <2>1, <2>2, GoesOn DEF Active, poolVars
  <2>4. xchg[c].id \in Ids
    BY <2>1 DEF ClientInv, PoolInv, CallInv, CallsOwnTheirIdentifier, Active
  <2>5. /\ inFlight' \in [Users -> Nat]
        /\ \A d \in Users \ {c} : inFlight'[d] = inFlight[d]
    BY <2>1 DEF ClientInv, NetInv
  <2>6. sock' \in [by : Users \cup {None}, passed : BOOLEAN]
    BY <2>1
  <2> QED BY <2>1, <2>3, <2>4, <2>5, <2>6 DEF ClientInv, NetInv
<1>3. CASE SendExpired(c)
  <2>1. /\ ExchangeFails(c, "timeout") /\ xchg[c].at \in Active
        /\ sock' = [by |-> c, passed |-> TRUE]
        /\ UNCHANGED <<ctx, due, open, inFlight, inbox>>
    BY <1>3 DEF SendExpired, At, Active, netVars
  <2>2. CallInv' /\ \A d \in Users : xchg'[d].id = xchg[d].id
    BY <2>1, AttemptFails DEF Results
  <2> QED BY <1>0, <2>1, <2>2, NetStays
<1>4. CASE StartReading(c)
  <2>1. /\ xchg[c].at \in Active /\ UNCHANGED poolVars
        /\ xchg' = [xchg EXCEPT ![c].at = "reading"]
        /\ UNCHANGED <<ctx, due, sock, open, inFlight, inbox>>
    BY <1>4 DEF StartReading, At, Active, netVars
  <2>2. xchg' = [xchg EXCEPT ![c] = [@ EXCEPT !.at = "reading", !.attempt = xchg[c].attempt]]
    BY <1>0, <2>1 DEF CallType
  <2>3. CallInv' /\ \A d \in Users : xchg'[d].id = xchg[d].id
    BY <1>0, <2>1, <2>2, GoesOn DEF Active
  <2> QED BY <1>0, <2>1, <2>3, NetStays
<1>5. CASE ReadReply(c)
  <2>1. /\ xchg[c].at \in Active /\ inbox # <<>> /\ inbox' = Tail(inbox)
        /\ UNCHANGED <<ctx, due, sock, open, inFlight>>
        /\ \/ NextAttempt(c, "mismatch")
           \/ NextAttempt(c, "badAuthenticator")
           \/ \E result \in {"reply", "unexpectedCode"} :
                 /\ Head(inbox).id = xchg[c].id /\ Verifies(Head(inbox), c)
                 /\ Return(c, result, Head(inbox).of)
    BY <1>5 DEF ReadReply, At, Active
  <2>2. /\ inbox' \in Seq([of : Users \cup {None}, id : Ids])
        /\ \A n \in 1..Len(inbox') :
              inbox'[n].of # None => xchg[inbox'[n].of].id = inbox'[n].id
    <3>1. /\ Len(inbox') = Len(inbox) - 1 /\ Len(inbox) \in Nat
          /\ \A n \in 1..Len(inbox') : n + 1 \in 1..Len(inbox) /\ inbox'[n] = inbox[n + 1]
      BY <1>0, <2>1
    <3>2. inbox' \in Seq([of : Users \cup {None}, id : Ids])
      BY <1>0, <2>1
    <3> QED BY <1>0, <3>1, <3>2
  <2>3. CallInv' /\ \A d \in Users : xchg'[d].id = xchg[d].id
    <3>1. CASE NextAttempt(c, "mismatch")
      BY <2>1, <3>1, AttemptFails DEF Results
    <3>2. CASE NextAttempt(c, "badAuthenticator")
      BY <2>1, <3>2, AttemptFails DEF Results
    <3>3. ASSUME NEW result \in {"reply", "unexpectedCode"},
                 Head(inbox).id = xchg[c].id, Verifies(Head(inbox), c),
                 Return(c, result, Head(inbox).of)
          PROVE  CallInv' /\ \A d \in Users : xchg'[d].id = xchg[d].id
      <4>1. PICK b \in Users : b = Head(inbox).of /\ xchg[b].auth = xchg[c].auth
        BY <3>3 DEF Verifies
      <4>2. 1 \in 1..Len(inbox) /\ Head(inbox) = inbox[1]
        BY <1>0, <2>1
      <4>3. xchg[b].id = xchg[c].id
        BY <1>0, <3>3, <4>1, <4>2, NoneIsNoIdOrUser
      <4>4. xchg[b].at \in Active => b = c
        BY <2>1, <4>3 DEF ClientInv, PoolInv, NoIdHeldTwice, CallInv, CallsOwnTheirIdentifier,
                          Active
      <4>5. xchg[b].at # "new"
        <5>1. xchg[c].id \in Ids
          BY <2>1 DEF ClientInv, PoolInv, CallInv, CallsOwnTheirIdentifier, Active
        <5> QED BY <4>3, <5>1, NoneIsNoIdOrUser DEF ClientInv, CallInv
      <4>6. MayGet(c, b)
        BY <4>1, <4>3, <4>4, <4>5 DEF ClientInv, CallInv, CallType, MayGet
      <4> QED BY <2>1, <3>3, <4>1, <4>6, Returns DEF Results
    <3> QED BY <2>1, <3>1, <3>2, <3>3
  <2> QED BY <1>0, <2>1, <2>2, <2>3, NetStays
<1>6. CASE ReadTimesOut(c) \/ SocketClosed(c) \/ Refused(c)
  <2>1. /\ xchg[c].at \in Active
        /\ \E err \in {"timeout", "closed", "refused"} : ExchangeFails(c, err)
        /\ \/ sock' = sock
           \/ sock' = [by |-> IF HasDeadline(c) THEN c ELSE None, passed |-> FALSE]
        /\ UNCHANGED <<ctx, due, open, inFlight, inbox>>
    BY <1>6 DEF ReadTimesOut, SocketClosed, Refused, At, InExchange, Active, netVars
  <2>2. CallInv' /\ \A d \in Users : xchg'[d].id = xchg[d].id
    BY <2>1, AttemptFails DEF Results
  <2>3. sock' \in [by : Users \cup {None}, passed : BOOLEAN]
    <3>1. CASE sock' = sock
      BY <1>0, <3>1, Zenon
    <3>2. CASE sock' = [by |-> IF HasDeadline(c) THEN c ELSE None, passed |-> FALSE]
      BY <3>2
    <3> QED BY <2>1, <3>1, <3>2
  <2> QED BY <1>0, <2>1, <2>2, <2>3, NetStays
<1>7. CASE BackoffEnds(c)
  <2>1. /\ xchg[c].at \in Active
        /\ UNCHANGED <<ctx, due, sock, open, inFlight, inbox>>
        /\ \/ xchg' = [xchg EXCEPT ![c].at = "sending"] /\ UNCHANGED poolVars
           \/ Return(c, "context", None)
    BY <1>7 DEF BackoffEnds, At, Active, netVars
  <2>2. CASE xchg' = [xchg EXCEPT ![c].at = "sending"] /\ UNCHANGED poolVars
    <3>1. xchg' = [xchg EXCEPT ![c] = [@ EXCEPT !.at = "sending", !.attempt = xchg[c].attempt]]
      BY <1>0, <2>2 DEF CallType
    <3>2. CallInv' /\ \A d \in Users : xchg'[d].id = xchg[d].id
      BY <1>0, <2>1, <2>2, <3>1, GoesOn DEF Active
    <3> QED BY <1>0, <2>1, <3>2, NetStays
  <2>3. CASE Return(c, "context", None)
    <3>1. CallInv' /\ \A d \in Users : xchg'[d].id = xchg[d].id
      BY <2>1, <2>3, Returns DEF Results, MayGet
    <3> QED BY <1>0, <2>1, <3>1, NetStays
  <2> QED BY <2>1, <2>2, <2>3
<1> QED BY <1>1, <1>2, <1>3, <1>4, <1>5, <1>6, <1>7

\* Time, contexts, the network and Close move no call.
LEMMA OthersKeep ==
    ASSUME ClientInv,
           \/ \E c \in Users : \/ AttemptDeadline(c) \/ ContextDeadline(c)
                               \/ CancelContext(c) \/ ServerAnswers(c) \/ Lose(c)
           \/ LeftoverDeadlinePasses \/ Close \/ UNCHANGED clientVars
    PROVE  CallInv' /\ NetInv' /\ UNCHANGED poolVars
<1>0. /\ ctx \in [Users -> {"live", "canceled", "deadline"}]
      /\ due \subseteq Users
      /\ sock \in [by : Users \cup {None}, passed : BOOLEAN]
      /\ open \in BOOLEAN
      /\ inFlight \in [Users -> Nat]
      /\ inbox \in Seq([of : Users \cup {None}, id : Ids])
      /\ \A d \in Users : inFlight[d] > 0 => xchg[d].id \in Ids
      /\ \A n \in 1..Len(inbox) : inbox[n].of # None => xchg[inbox[n].of].id = inbox[n].id
  BY DEF ClientInv, NetInv
<1>1. UNCHANGED <<user, tokens, xchg>>
  BY DEF AttemptDeadline, ContextDeadline, CancelContext, ServerAnswers, Answered, Lose,
         LeftoverDeadlinePasses, Close, clientVars, poolVars
<1>2. CallInv'
  BY <1>1 DEF ClientInv, CallInv, CallsOwnTheirIdentifier, RepliesStayApart, At, Holds
<1>3. ASSUME NEW c \in Users, AttemptDeadline(c) \/ ContextDeadline(c) \/ CancelContext(c)
      PROVE  NetInv'
  <2>1. /\ UNCHANGED <<open, inFlight, inbox>>
        /\ due' = due \/ due' = due \cup {c}
        /\ sock' = sock \/ sock' = [sock EXCEPT !.passed = TRUE]
        /\ \/ ctx' = ctx \/ ctx' = [ctx EXCEPT ![c] = "deadline"]
           \/ ctx' = [ctx EXCEPT ![c] = "canceled"]
    BY <1>3 DEF AttemptDeadline, ContextDeadline, CancelContext, DeadlinePasses, netVars
  <2>2. sock' \in [by : Users \cup {None}, passed : BOOLEAN]
    BY <1>0, <2>1
  <2>3. ctx' \in [Users -> {"live", "canceled", "deadline"}] /\ due' \subseteq Users
    BY <1>0, <2>1
  <2> QED BY <1>0, <1>1, <2>1, <2>2, <2>3 DEF NetInv
<1>4. ASSUME NEW c \in Users, ServerAnswers(c) \/ Lose(c) PROVE NetInv'
  <2>1. /\ UNCHANGED <<ctx, due, sock, open>> /\ inFlight[c] > 0
        /\ inFlight' = [inFlight EXCEPT ![c] = @ - 1]
        /\ inbox' = inbox \/ \E reply \in RepliesFor(c) : inbox' = Append(inbox, reply)
    BY <1>4 DEF ServerAnswers, Answered, Lose
  <2>2. /\ inFlight' \in [Users -> Nat]
        /\ \A d \in Users : inFlight'[d] > 0 => inFlight[d] > 0
    BY <1>0, <2>1
  <2>3. /\ RepliesFor(c) \subseteq [of : Users \cup {None}, id : Ids]
        /\ \A reply \in RepliesFor(c) : reply.of # None => xchg[reply.of].id = reply.id
    BY <1>0, <2>1 DEF RepliesFor
  <2>4. /\ inbox' \in Seq([of : Users \cup {None}, id : Ids])
        /\ \A n \in 1..Len(inbox') :
              inbox'[n].of # None => xchg[inbox'[n].of].id = inbox'[n].id
    <3>1. CASE inbox' = inbox
      BY <1>0, <3>1, Zenon
    <3>2. ASSUME NEW reply \in RepliesFor(c), inbox' = Append(inbox, reply)
          PROVE  /\ inbox' \in Seq([of : Users \cup {None}, id : Ids])
                 /\ \A n \in 1..Len(inbox') :
                       inbox'[n].of # None => xchg[inbox'[n].of].id = inbox'[n].id
      <4>1. inbox' \in Seq([of : Users \cup {None}, id : Ids])
        BY <1>0, <2>3, <3>2
      <4>2. \A n \in 1..Len(inbox') :
               (n \in 1..Len(inbox) /\ inbox'[n] = inbox[n]) \/ inbox'[n] = reply
        BY <1>0, <2>3, <3>2
      <4> QED BY <1>0, <2>3, <4>1, <4>2
    <3> QED BY <2>1, <3>1, <3>2
  <2> QED BY <1>0, <1>1, <2>1, <2>2, <2>4 DEF NetInv
<1>5. ASSUME LeftoverDeadlinePasses PROVE NetInv'
  <2>1. sock' \in [by : Users \cup {None}, passed : BOOLEAN]
    BY <1>0, <1>5 DEF LeftoverDeadlinePasses
  <2>2. UNCHANGED <<ctx, due, open, inFlight, inbox>>
    BY <1>5 DEF LeftoverDeadlinePasses, netVars
  <2>3. /\ due' \subseteq Users /\ inbox' \in Seq([of : Users \cup {None}, id : Ids])
        /\ \A n \in 1..Len(inbox') :
              inbox'[n].of # None => xchg[inbox'[n].of].id = inbox'[n].id
        /\ ctx' = ctx /\ open' = open /\ inFlight' = inFlight
        /\ \A d \in Users : xchg'[d].id = xchg[d].id
    BY <1>0, <1>1, <2>2, Zenon
  <2> QED BY <2>1, <2>3, NetStays
<1>6. ASSUME Close PROVE NetInv'
  <2>1. open' = FALSE /\ UNCHANGED <<ctx, due, sock, inFlight, inbox>>
    BY <1>6 DEF Close, netVars
  <2>2. \A d \in Users : inFlight'[d] > 0 => xchg'[d].id \in Ids
    BY <1>0, <1>1, <2>1
  <2>3. open' \in BOOLEAN
    BY <2>1
  <2>4. /\ ctx' = ctx /\ due' = due /\ sock' = sock
        /\ inFlight' = inFlight /\ inbox' = inbox /\ xchg' = xchg
    BY <1>1, <2>1
  <2> QED BY <1>0, <2>2, <2>3, <2>4, Zenon DEF NetInv
<1>7. ASSUME UNCHANGED clientVars PROVE NetInv'
  <2>1. UNCHANGED <<ctx, due, sock, open, inFlight, inbox>>
    BY <1>7 DEF clientVars, netVars
  <2>2. /\ due' \subseteq Users /\ inbox' \in Seq([of : Users \cup {None}, id : Ids])
        /\ \A n \in 1..Len(inbox') :
              inbox'[n].of # None => xchg[inbox'[n].of].id = inbox'[n].id
        /\ sock' \in [by : Users \cup {None}, passed : BOOLEAN]
        /\ ctx' = ctx /\ open' = open /\ inFlight' = inFlight
        /\ \A d \in Users : xchg'[d].id = xchg[d].id
    BY <1>0, <1>1, <2>1, Zenon
  <2> QED BY <2>2, NetStays
<1> QED BY <1>1, <1>2, <1>3, <1>4, <1>5, <1>6, <1>7 DEF poolVars

-----------------------------------------------------------------------------
\* Every step of the client is a step of the pool or leaves it alone.
LEMMA ClientStepImplements == ClientNext => [PoolNext]_poolVars
<1> SUFFICES ASSUME ClientNext PROVE [PoolNext]_poolVars
  OBVIOUS
<1>1. ASSUME NEW c \in Users, Work(c) PROVE [PoolNext]_poolVars
  <2>1. \/ Acquire(c) \/ AcquireCanceled(c) \/ Release(c) \/ UNCHANGED poolVars
    BY <1>1, AttemptFailsInPool
       DEF Work, Begin, BeginCanceled, EncodeFails, Send, SendExpired, StartReading,
           ReadReply, ReadTimesOut, SocketClosed, BackoffEnds, Return
  <2> QED BY <2>1 DEF PoolNext
<1>2. ASSUME NEW c \in Users, Environment(c) PROVE [PoolNext]_poolVars
  <2>1. CASE AttemptDeadline(c) \/ ContextDeadline(c) \/ CancelContext(c) \/ Lose(c)
             \/ Refused(c)
    <3>1. Release(c) \/ UNCHANGED poolVars
      BY <2>1, AttemptFailsInPool
         DEF AttemptDeadline, ContextDeadline, CancelContext, Lose, Refused
    <3> QED BY <3>1 DEF PoolNext
  <2>2. CASE ServerAnswers(c)
    BY <2>2 DEF ServerAnswers, Answered
  <2> QED BY <1>2, <2>1, <2>2 DEF Environment
<1>3. CASE LeftoverDeadlinePasses \/ Close
  BY <1>3 DEF LeftoverDeadlinePasses, Close
<1> QED BY <1>1, <1>2, <1>3 DEF ClientNext

\* Every step keeps the invariant: the pool's part as a step of the pool.
LEMMA StepClientInv == ClientInv /\ [ClientNext]_clientVars => ClientInv'
<1> SUFFICES ASSUME ClientInv, [ClientNext]_clientVars PROVE ClientInv'
  OBVIOUS
<1>1. [PoolNext]_poolVars
  BY ClientStepImplements DEF clientVars
<1>2. PoolInv'
  BY <1>1, StepPoolInv DEF ClientInv
<1>3. CallInv' /\ NetInv'
  BY BeginKeeps, BeginCanceledKeeps, AttemptKeeps, OthersKeep
     DEF ClientNext, Work, Environment
<1> QED BY <1>2, <1>3 DEF ClientInv

\* ClientInv holds in every state of every behavior of the client.
THEOREM ClientInvariance == ClientSpec => []ClientInv
BY InitClientInv, StepClientInv, PTL DEF ClientSpec

\* The client's calls use the pool in the order its contract demands
\* (protocol/client.go:248-458), so that what holds of the pool holds here.
LEMMA ClientImplementsPool == ClientSpec => PoolSpec
<1>1. ClientInit => PoolInit
  BY DEF ClientInit
<1>2. [ClientNext]_clientVars => [PoolNext]_poolVars
  BY ClientStepImplements DEF clientVars
<1> QED BY <1>1, <1>2, PTL DEF ClientSpec, PoolSpec

\* So no two calls in progress carry one Identifier, whatever the numbers.
THEOREM CallsNeverShareAnIdentifier == ClientSpec => []NoIdHeldTwice
BY ClientImplementsPool, IdsAreExclusive, PTL

\* The client's variables keep their types.
THEOREM ClientTypeCorrect == ClientSpec => []ClientTypeOK
BY ClientInvariance, InvHasTypes, PTL

\* A call holds the Identifier it transmits with until it returns.
THEOREM CallsOwnIdentifiers == ClientSpec => []CallsOwnTheirIdentifier
<1>1. ClientInv => CallsOwnTheirIdentifier
  BY DEF ClientInv, CallInv
<1> QED BY <1>1, ClientInvariance, PTL

\* However a call ends (protocol/client.go:253), no Identifier stays with it.
THEOREM IdentifiersComeBack == ClientSpec => []IdsComeBack
<1>1. ClientInv => IdsComeBack
  <2> SUFFICES ASSUME ClientInv, NEW i \in Ids, ~InPool(i)
               PROVE  \E c \in Users : xchg[c].id = i /\ ~At(c, "returned")
    BY DEF IdsComeBack
  <2>1. PICK c \in Users : Holds(c) /\ user[c].id = i
    BY DEF ClientInv, PoolInv, NoIdLost
  <2>2. xchg[c].id = i /\ xchg[c].at \in Active
    BY <2>1 DEF ClientInv, CallInv, CallsOwnTheirIdentifier, Active
  <2> QED BY <2>2 DEF At, Active
<1> QED BY <1>1, ClientInvariance, PTL

\* Although replies reach calls in any order, late, and under an Identifier
\* that was used before, and although requests may have one Request
\* Authenticator, no call returns the reply to another one that is under way.
THEOREM RepliesAreApart == ClientSpec => []RepliesStayApart
<1>1. ClientInv => RepliesStayApart
  BY DEF ClientInv, CallInv
<1> QED BY <1>1, ClientInvariance, PTL

-----------------------------------------------------------------------------
\* What the socket's deadline, the calls' own and their contexts have to do
\* with each other: the deadline of an Exchange under way that was the last
\* to set the socket's has passed on the socket when its time is up, a call
\* whose context has reached its deadline while it was in Exchange is past
\* it, and only a call without a deadline leaves the socket without one.
TimerInv ==
    /\ \A d \in Users :
          sock.by = d /\ InExchange(d) => HasDeadline(d) /\ (d \in due => sock.passed)
    /\ \A d \in Users : InExchange(d) /\ ctx[d] = "deadline" => d \in due
    /\ sock.by = None /\ (\E c \in Users : InExchange(c))
       => \E d \in Users \ Timed : ~At(d, "new")

\* Where a step of c leaves the other calls, and its own when it stays.
OthersStay(c) == \A d \in Users \ {c} : xchg'[d] = xchg[d]

\* A call that leaves Exchange, or never entered it, disturbs no timer.
LEMMA LeavingKeepsTimers ==
    ASSUME ClientInv, TimerInv, NEW c \in Users, OthersStay(c),
           xchg'[c].at \notin {"new", "queueing", "reading"},
           UNCHANGED <<due, ctx>>,
           sock' = sock \/ sock'.by = c \/ (sock'.by = None /\ c \notin Timed)
    PROVE  TimerInv'
<1>1. None \notin Users
  BY NoneIsNoIdOrUser
<1>2. \A d \in Users : InExchange(d)' => d # c /\ InExchange(d) /\ xchg'[d] = xchg[d]
  BY DEF InExchange, OthersStay
<1>3. \A d \in Users \ {c} : HasDeadline(d) => HasDeadline(d)'
  BY DEF OthersStay, HasDeadline, LastAttempt
<1>4. ASSUME NEW d \in Users, sock'.by = d, InExchange(d)'
      PROVE  HasDeadline(d)' /\ (d \in due' => sock'.passed)
  <2>1. sock' = sock
    BY <1>1, <1>2, <1>4
  <2> QED BY <1>2, <1>3, <1>4, <2>1 DEF TimerInv
<1>5. \A d \in Users : InExchange(d)' /\ ctx'[d] = "deadline" => d \in due'
  BY <1>2 DEF TimerInv
<1>6. ASSUME sock'.by = None, NEW e \in Users, InExchange(e)'
      PROVE  \E d \in Users \ Timed : ~At(d, "new")'
  <2>1. CASE sock' = sock
    <3>1. PICK d \in Users \ Timed : ~At(d, "new")
      BY <1>2, <1>6, <2>1 DEF TimerInv
    <3>2. ~At(d, "new")'
      BY <3>1 DEF At, OthersStay
    <3> QED BY <3>1, <3>2
  <2>2. CASE c \notin Timed
    BY <2>2 DEF At
  <2> QED BY <1>1, <1>6, <2>1, <2>2
<1> QED BY <1>4, <1>5, <1>6 DEF TimerInv

\* After a failed attempt, or a return, the call is not in Exchange.
LEMMA AttemptLeaves ==
    ASSUME ClientInv, NEW c \in Users, NEW err \in Results,
           NextAttempt(c, err) \/ ExchangeFails(c, err)
    PROVE  OthersStay(c) /\ xchg'[c].at \in {"backoff", "returned"}
<1>1. xchg \in [Users -> CallType]
  BY DEF ClientInv, CallInv
<1> QED BY <1>1 DEF CallType, OthersStay, NextAttempt, ExchangeFails, Return

\* The steps that send nothing, or fail to.
LEMMA WorkKeepsTimers ==
    ASSUME ClientInv, TimerInv, NEW c \in Users,
           \/ Begin(c) \/ BeginCanceled(c) \/ EncodeFails(c) \/ SendExpired(c) \/ ReadReply(c)
           \/ ReadTimesOut(c) \/ SocketClosed(c) \/ BackoffEnds(c) \/ Refused(c)
    PROVE  TimerInv'
<1>1. xchg \in [Users -> CallType]
  BY DEF ClientInv, CallInv
<1>2. UNCHANGED <<due, ctx>>
  BY DEF Begin, BeginCanceled, EncodeFails, SendExpired, ReadReply, ReadTimesOut,
         SocketClosed, BackoffEnds, Refused
<1>3. sock' = sock \/ sock'.by = c \/ (sock'.by = None /\ c \notin Timed)
  BY DEF Begin, BeginCanceled, EncodeFails, SendExpired, ReadReply, ReadTimesOut,
         SocketClosed, BackoffEnds, Refused, HasDeadline
<1>4. OthersStay(c) /\ xchg'[c].at \in {"sending", "backoff", "returned"}
  <2>1. CASE Begin(c) \/ BeginCanceled(c) \/ EncodeFails(c) \/ BackoffEnds(c)
    BY <1>1, <2>1 DEF Begin, BeginCanceled, EncodeFails, BackoffEnds, Return,
                      CallType, OthersStay
  <2>2. CASE SendExpired(c) \/ ReadTimesOut(c) \/ SocketClosed(c) \/ Refused(c)
    <3>1. \E err \in Results : ExchangeFails(c, err)
      BY <2>2 DEF SendExpired, ReadTimesOut, SocketClosed, Refused, Results
    <3> QED BY <3>1, AttemptLeaves
  <2>3. CASE ReadReply(c)
    <3>1. \/ \E err \in Results : NextAttempt(c, err)
          \/ \E result \in Results, from \in Users : Return(c, result, from)
      BY <2>3 DEF ReadReply, Verifies, Results
    <3>2. CASE \E result \in Results, from \in Users : Return(c, result, from)
      BY <1>1, <3>2 DEF Return, CallType, OthersStay
    <3> QED BY <3>1, <3>2, AttemptLeaves
  <2> QED BY <2>1, <2>2, <2>3
<1> QED BY <1>2, <1>3, <1>4, LeavingKeepsTimers

\* A send puts its own deadline on the socket, or none.
LEMMA SendKeepsTimers == ASSUME ClientInv, TimerInv, NEW c \in Users, Send(c) PROVE TimerInv'
<1>1. xchg \in [Users -> CallType] /\ None \notin Users
  BY NoneIsNoIdOrUser DEF ClientInv, CallInv
<1>2. /\ xchg' = [xchg EXCEPT ![c].at = "queueing"] /\ ctx' = ctx /\ due' = due \ {c}
      /\ sock' = [by |-> IF HasDeadline(c) THEN c ELSE None, passed |-> FALSE]
      /\ ctx[c] # "deadline"
  BY DEF Send
<1>3. /\ xchg'[c].at = "queueing" /\ xchg'[c].attempt = xchg[c].attempt
      /\ OthersStay(c) /\ HasDeadline(c)' = HasDeadline(c)
  BY <1>1, <1>2 DEF CallType, OthersStay, HasDeadline, LastAttempt
<1>4. ASSUME NEW d \in Users, sock'.by = d, InExchange(d)'
      PROVE  HasDeadline(d)' /\ (d \in due' => sock'.passed)
  <2>1. d = c /\ HasDeadline(c)
    BY <1>1, <1>2, <1>4
  <2> QED BY <1>2, <1>3, <2>1
<1>5. ASSUME NEW d \in Users, InExchange(d)', ctx'[d] = "deadline" PROVE d \in due'
  <2>1. d # c /\ InExchange(d)
    BY <1>2, <1>3, <1>5 DEF InExchange, OthersStay
  <2> QED BY <1>2, <1>5, <2>1 DEF TimerInv
<1>6. ASSUME sock'.by = None PROVE \E d \in Users \ Timed : ~At(d, "new")'
  <2>1. c \notin Timed
    BY <1>1, <1>2, <1>6 DEF HasDeadline
  <2> QED BY <1>3, <2>1 DEF At
<1> QED BY <1>4, <1>5, <1>6 DEF TimerInv

\* A call's turn to read comes.
LEMMA TurnKeepsTimers == ASSUME ClientInv, TimerInv, NEW c \in Users, StartReading(c) PROVE TimerInv'
<1>1. xchg \in [Users -> CallType]
  BY DEF ClientInv, CallInv
<1>2. /\ xchg' = [xchg EXCEPT ![c].at = "reading"] /\ At(c, "queueing")
      /\ UNCHANGED <<ctx, due, sock>>
  BY DEF StartReading
<1>3. \A d \in Users : /\ InExchange(d)' <=> InExchange(d)
                       /\ HasDeadline(d)' <=> HasDeadline(d)
                       /\ ~At(d, "new") => ~At(d, "new")'
  BY <1>1, <1>2 DEF CallType, InExchange, HasDeadline, LastAttempt, At
<1> QED BY <1>2, <1>3 DEF TimerInv

\* Time passes, contexts end, the network moves, the socket closes.
LEMMA TimeKeepsTimers ==
    ASSUME ClientInv, TimerInv,
           \/ \E c \in Users : \/ AttemptDeadline(c) \/ ContextDeadline(c)
                               \/ CancelContext(c) \/ ServerAnswers(c) \/ Lose(c)
           \/ LeftoverDeadlinePasses \/ Close \/ UNCHANGED clientVars
    PROVE  TimerInv'
<1>0. /\ sock \in [by : Users \cup {None}, passed : BOOLEAN]
      /\ ctx \in [Users -> {"live", "canceled", "deadline"}] /\ due \subseteq Users
  BY DEF ClientInv, NetInv
<1>1. xchg' = xchg
  BY DEF AttemptDeadline, ContextDeadline, CancelContext, ServerAnswers, Answered, Lose,
         LeftoverDeadlinePasses, Close, clientVars
<1>2. \A d \in Users : /\ InExchange(d)' <=> InExchange(d)
                       /\ HasDeadline(d)' <=> HasDeadline(d)
                       /\ At(d, "new")' <=> At(d, "new")
  BY <1>1 DEF InExchange, HasDeadline, LastAttempt, At
<1>3. ASSUME NEW c \in Users, AttemptDeadline(c) \/ (ContextDeadline(c) /\ InExchange(c))
      PROVE  TimerInv'
  <2>1. /\ due' = due \cup {c}
        /\ sock' = IF sock.by = c THEN [sock EXCEPT !.passed = TRUE] ELSE sock
        /\ \A d \in Users \ {c} : ctx'[d] = ctx[d]
    BY <1>0, <1>3 DEF AttemptDeadline, ContextDeadline, DeadlinePasses
  <2>2. sock'.by = sock.by /\ (sock.passed => sock'.passed) /\ (sock.by = c => sock'.passed)
    BY <1>0, <2>1
  <2> QED BY <1>2, <2>1, <2>2 DEF TimerInv
<1>4. ASSUME NEW c \in Users, (ContextDeadline(c) /\ ~InExchange(c)) \/ CancelContext(c)
      PROVE  TimerInv'
  <2>1. /\ UNCHANGED <<due, sock>>
        /\ \A d \in Users : InExchange(d) /\ ctx'[d] = "deadline" => ctx[d] = "deadline"
    BY <1>0, <1>4 DEF ContextDeadline, CancelContext
  <2> QED BY <1>2, <2>1 DEF TimerInv
<1>5. CASE LeftoverDeadlinePasses
  <2>1. UNCHANGED <<due, ctx>> /\ sock' = [sock EXCEPT !.passed = TRUE]
    BY <1>5 DEF LeftoverDeadlinePasses
  <2>2. sock'.by = sock.by /\ sock'.passed
    BY <1>0, <2>1
  <2> QED BY <1>2, <2>1, <2>2 DEF TimerInv
<1>6. CASE (\E c \in Users : ServerAnswers(c) \/ Lose(c)) \/ Close \/ UNCHANGED clientVars
  <2>1. UNCHANGED <<due, ctx, sock>>
    BY <1>6 DEF ServerAnswers, Answered, Lose, Close, clientVars
  <2> QED BY <1>2, <2>1 DEF TimerInv
<1> QED BY <1>3, <1>4, <1>5, <1>6

\* Every step keeps the timers' relation.
LEMMA StepTimerInv == ClientInv /\ TimerInv /\ [ClientNext]_clientVars => TimerInv'
<1> SUFFICES ASSUME ClientInv, TimerInv, [ClientNext]_clientVars PROVE TimerInv'
  OBVIOUS
<1> QED BY WorkKeepsTimers, SendKeepsTimers, TurnKeepsTimers, TimeKeepsTimers
        DEF ClientNext, Work, Environment

\* It holds of a new client.
LEMMA InitTimerInv == ClientInit => TimerInv
BY NoneIsNoIdOrUser DEF ClientInit, TimerInv, InExchange

\* No read is left without an end: the socket's deadline has passed or will,
\* or a call without a deadline has removed it (transport/udp.go:234-243).
THEOREM ReadsAreNeverStuck == ClientSpec => []ReadsCanEnd
<1>1. ClientInv /\ TimerInv => ReadsCanEnd
  <2> SUFFICES ASSUME ClientInv, TimerInv, NEW c \in Users, InExchange(c), ~sock.passed
               PROVE  \/ sock.by # None /\ StillToPass(sock.by)
                      \/ sock.by = None /\ \E d \in Users \ Timed : ~At(d, "new")
    BY DEF ReadsCanEnd
  <2>1. CASE sock.by = None
    BY <2>1 DEF TimerInv
  <2>2. CASE sock.by # None
    <3>1. sock.by \in Users
      BY <2>2 DEF ClientInv, NetInv
    <3>2. InExchange(sock.by)
          => HasDeadline(sock.by) /\ sock.by \notin due /\ ctx[sock.by] # "deadline"
      BY <3>1 DEF TimerInv
    <3> QED BY <2>2, <3>2 DEF StillToPass, HasDeadline
  <2> QED BY <2>1, <2>2
<1>2. ClientInv /\ TimerInv /\ [ClientNext]_clientVars => TimerInv'
  BY StepTimerInv
<1> QED BY <1>1, <1>2, InitTimerInv, ClientInvariance, PTL DEF ClientSpec

-----------------------------------------------------------------------------
(* What a step makes of each call, for those who watch the calls from      *)
(* outside (module EndToEnd).                                              *)

\* The call stays as it is, begins, goes on with its Identifier in the same
\* attempt or the next, or returns.
Advances(b) ==
    \/ xchg'[b] = xchg[b]
    \/ xchg[b].at = "new" /\ xchg'[b].at # "new"
    \/ /\ xchg[b].at \in Active
       /\ xchg'[b].id = xchg[b].id /\ xchg'[b].auth = xchg[b].auth
       /\ \/ xchg'[b].at = "returned"
          \/ xchg'[b].at = "backoff" /\ xchg'[b].attempt = xchg[b].attempt + 1
          \/ /\ xchg'[b].attempt = xchg[b].attempt
             /\ \/ xchg[b].at = "sending" /\ xchg'[b].at = "queueing"
                \/ xchg[b].at = "queueing" /\ xchg'[b].at = "reading"
                \/ xchg[b].at = "backoff" /\ xchg'[b].at = "sending"

\* A call is given, or refuses, only what it reads.
Reads(b) == xchg[b].at = "reading" /\ inbox # <<>>

Judges(b) ==
    /\ \/ xchg'[b].got \in {xchg[b].got, None}
       \/ /\ Reads(b) /\ Head(inbox).id = xchg[b].id /\ Verifies(Head(inbox), b)
          /\ xchg'[b].got = Head(inbox).of
    /\ xchg'[b].result = "mismatch"
       => xchg[b].result = "mismatch" \/ (Reads(b) /\ Head(inbox).id # xchg[b].id)
    /\ xchg'[b].result = "badAuthenticator"
       => \/ xchg[b].result = "badAuthenticator"
          \/ Reads(b) /\ Head(inbox).id = xchg[b].id /\ ~Verifies(Head(inbox), b)

\* What is in the record of a call that returns.
LEMMA ReturnMakes ==
    ASSUME ClientInv, NEW c \in Users, NEW result, NEW from, Return(c, result, from)
    PROVE  /\ OthersStay(c)
           /\ xchg'[c].at = "returned"
           /\ xchg'[c].id = xchg[c].id /\ xchg'[c].auth = xchg[c].auth
           /\ xchg'[c].result = result /\ xchg'[c].got = from
<1>1. xchg \in [Users -> CallType]
  BY DEF ClientInv, CallInv
<1>2. xchg' = [xchg EXCEPT ![c] = [@ EXCEPT !.at = "returned", !.attempt = 0,
                                            !.result = result, !.got = from]]
  BY DEF Return
<1> QED BY <1>1, <1>2 DEF CallType, OthersStay

\* A failed attempt: the call returns with its error, or backs off.
LEMMA FailureMakes ==
    ASSUME ClientInv, NEW c \in Users, NEW err, xchg[c].at \in Active,
           NextAttempt(c, err) \/ ExchangeFails(c, err)
    PROVE  /\ OthersStay(c) /\ Advances(c)
           /\ xchg'[c].got \in {xchg[c].got, None}
           /\ xchg'[c].result \in {xchg[c].result, err, "context"}
<1>1. CASE \E r \in {err, "context"} : Return(c, r, None)
  <2>1. PICK r \in {err, "context"} : Return(c, r, None)
    BY <1>1
  <2> QED BY <2>1, ReturnMakes DEF Advances
<1>2. CASE xchg' = [xchg EXCEPT ![c].at = "backoff", ![c].attempt = @ + 1]
  <2>1. xchg \in [Users -> CallType]
    BY DEF ClientInv, CallInv
  <2>2. xchg' = [xchg EXCEPT ![c] = [@ EXCEPT !.at = "backoff",
                                              !.attempt = xchg[c].attempt + 1]]
    BY <1>2, <2>1 DEF CallType
  <2>3. /\ OthersStay(c) /\ xchg'[c].at = "backoff" /\ xchg'[c].id = xchg[c].id
        /\ xchg'[c].attempt = xchg[c].attempt + 1 /\ xchg'[c].auth = xchg[c].auth
        /\ xchg'[c].result = xchg[c].result /\ xchg'[c].got = xchg[c].got
    BY <2>1, <2>2 DEF CallType, OthersStay
  <2> QED BY <2>3 DEF Advances
<1> QED BY <1>1, <1>2 DEF NextAttempt, ExchangeFails

\* A call goes on within its attempt: Send, its turn to read, the backoff's end.
LEMMA GoingOnMakes ==
    ASSUME ClientInv, NEW c \in Users, NEW p, xchg' = [xchg EXCEPT ![c].at = p],
           \/ xchg[c].at = "sending" /\ p = "queueing"
           \/ xchg[c].at = "queueing" /\ p = "reading"
           \/ xchg[c].at = "backoff" /\ p = "sending"
    PROVE  OthersStay(c) /\ Advances(c) /\ Judges(c)
<1>1. xchg \in [Users -> CallType]
  BY DEF ClientInv, CallInv
<1>2. /\ OthersStay(c) /\ xchg'[c].at = p /\ xchg'[c].id = xchg[c].id
      /\ xchg'[c].attempt = xchg[c].attempt /\ xchg'[c].auth = xchg[c].auth
      /\ xchg'[c].result = xchg[c].result /\ xchg'[c].got = xchg[c].got
  BY <1>1 DEF CallType, OthersStay
<1> QED BY <1>2 DEF Advances, Judges, Active

\* One attempt of a call.
LEMMA AttemptMakes ==
    ASSUME ClientInv, NEW c \in Users,
           \/ EncodeFails(c) \/ Send(c) \/ SendExpired(c) \/ StartReading(c)
           \/ ReadReply(c) \/ ReadTimesOut(c) \/ SocketClosed(c) \/ BackoffEnds(c)
           \/ Refused(c)
    PROVE  OthersStay(c) /\ Advances(c) /\ Judges(c)
<1>0. xchg[c].at \in Active
  BY DEF EncodeFails, Send, SendExpired, StartReading, ReadReply, ReadTimesOut, SocketClosed,
         BackoffEnds, Refused, At, InExchange, Active
<1>1. ASSUME NEW r \in Results \ {"mismatch", "badAuthenticator"}, Return(c, r, None)
      PROVE  OthersStay(c) /\ Advances(c) /\ Judges(c)
  BY <1>0, <1>1, ReturnMakes DEF Advances, Judges
<1>2. CASE Send(c) \/ StartReading(c)
  <2>1. CASE Send(c)
    BY <2>1, GoingOnMakes DEF Send, At
  <2>2. CASE StartReading(c)
    BY <2>2, GoingOnMakes DEF StartReading, At
  <2> QED BY <1>2, <2>1, <2>2
<1>3. CASE SendExpired(c) \/ ReadTimesOut(c) \/ SocketClosed(c) \/ Refused(c)
  <2>1. PICK err \in {"timeout", "closed", "refused"} : ExchangeFails(c, err)
    BY <1>3 DEF SendExpired, ReadTimesOut, SocketClosed, Refused
  <2>2. /\ OthersStay(c) /\ Advances(c)
        /\ xchg'[c].got \in {xchg[c].got, None}
        /\ xchg'[c].result \in {xchg[c].result, err, "context"}
    BY <1>0, <2>1, FailureMakes
  <2> QED BY <2>2 DEF Judges
<1>4. CASE EncodeFails(c)
  BY <1>1, <1>4 DEF EncodeFails, Results
<1>5. CASE BackoffEnds(c)
  <2>1. CASE xchg' = [xchg EXCEPT ![c].at = "sending"]
    BY <1>5, <2>1, GoingOnMakes DEF BackoffEnds, At
  <2>2. CASE Return(c, "context", None)
    BY <1>1, <2>2 DEF Results
  <2> QED BY <1>5, <2>1, <2>2 DEF BackoffEnds
<1>6. CASE ReadReply(c)
  <2>1. Reads(c)
    BY <1>6 DEF ReadReply, At, Reads
  <2>2. CASE Head(inbox).id # xchg[c].id /\ NextAttempt(c, "mismatch")
    <3>1. /\ OthersStay(c) /\ Advances(c)
          /\ xchg'[c].got \in {xchg[c].got, None}
          /\ xchg'[c].result \in {xchg[c].result, "mismatch", "context"}
      BY <1>0, <2>2, FailureMakes
    <3> QED BY <2>1, <2>2, <3>1 DEF Judges
  <2>3. CASE /\ Head(inbox).id = xchg[c].id /\ ~Verifies(Head(inbox), c)
             /\ NextAttempt(c, "badAuthenticator")
    <3>1. /\ OthersStay(c) /\ Advances(c)
          /\ xchg'[c].got \in {xchg[c].got, None}
          /\ xchg'[c].result \in {xchg[c].result, "badAuthenticator", "context"}
      BY <1>0, <2>3, FailureMakes
    <3> QED BY <2>1, <2>3, <3>1 DEF Judges
  <2>4. CASE /\ Head(inbox).id = xchg[c].id /\ Verifies(Head(inbox), c)
             /\ \E result \in {"reply", "unexpectedCode"} : Return(c, result, Head(inbox).of)
    BY <1>0, <2>1, <2>4, ReturnMakes DEF Advances, Judges
  <2> QED BY <1>6, <2>2, <2>3, <2>4 DEF ReadReply
<1> QED BY <1>2, <1>3, <1>4, <1>5, <1>6

\* Every step of the client.
LEMMA CallSteps ==
    ASSUME ClientInv, [ClientNext]_clientVars, NEW b \in Users
    PROVE  Advances(b) /\ Judges(b)
<1>1. xchg \in [Users -> CallType]
  BY DEF ClientInv, CallInv
<1>2. ASSUME xchg'[b] = xchg[b] PROVE Advances(b) /\ Judges(b)
  BY <1>2 DEF Advances, Judges
<1>3. ASSUME NEW c \in Users, Begin(c) \/ BeginCanceled(c) PROVE Advances(b) /\ Judges(b)
  <2>1. /\ xchg[c].at = "new" /\ OthersStay(c)
        /\ xchg'[c].at \in {"sending", "returned"}
        /\ xchg'[c].got = xchg[c].got
        /\ xchg'[c].result \in {xchg[c].result, "exhausted"}
    <3>1. xchg[c].at = "new"
      BY <1>3 DEF Begin, BeginCanceled, Acquire, AcquireCanceled, ClientInv, CallInv
    <3>2. CASE Begin(c)
      <4> DEFINE h == Head(tokens)
      <4>1. PICK auth \in Auths :
               xchg' = [xchg EXCEPT ![c] = [@ EXCEPT !.at = "sending", !.id = h,
                                                     !.auth = auth]]
        BY <3>2 DEF Begin
      <4> HIDE DEF h
      <4> QED BY <1>1, <3>1, <4>1 DEF CallType, OthersStay
    <3>3. CASE BeginCanceled(c)
      <4>1. xchg' = [xchg EXCEPT ![c] = [@ EXCEPT !.at = "returned", !.result = "exhausted"]]
        BY <3>3 DEF BeginCanceled
      <4> QED BY <1>1, <3>1, <4>1 DEF CallType, OthersStay
    <3> QED BY <1>3, <3>2, <3>3
  <2> QED BY <1>2, <2>1 DEF Advances, Judges, OthersStay
<1>4. ASSUME NEW c \in Users,
             \/ EncodeFails(c) \/ Send(c) \/ SendExpired(c) \/ StartReading(c)
             \/ ReadReply(c) \/ ReadTimesOut(c) \/ SocketClosed(c) \/ BackoffEnds(c)
             \/ Refused(c)
      PROVE  Advances(b) /\ Judges(b)
  BY <1>2, <1>4, AttemptMakes DEF OthersStay
<1>5. ASSUME \/ \E c \in Users : \/ AttemptDeadline(c) \/ ContextDeadline(c)
                                 \/ CancelContext(c) \/ ServerAnswers(c) \/ Lose(c)
             \/ LeftoverDeadlinePasses \/ Close \/ UNCHANGED clientVars
      PROVE  Advances(b) /\ Judges(b)
  <2>1. xchg' = xchg
    BY <1>5 DEF AttemptDeadline, ContextDeadline, CancelContext, ServerAnswers, Answered, Lose,
                LeftoverDeadlinePasses, Close, clientVars
  <2> QED BY <1>2, <2>1
<1>6. CASE \E c \in Users : Work(c)
  BY <1>3, <1>4, <1>6 DEF Work
<1>7. CASE \E c \in Users : Environment(c)
  BY <1>4, <1>5, <1>7 DEF Environment
<1> QED BY <1>5, <1>6, <1>7 DEF ClientNext
=============================================================================
