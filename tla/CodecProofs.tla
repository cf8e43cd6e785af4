----------------------------- MODULE CodecProofs -----------------------------
(***************************************************************************)
(* What goes into a packet comes out again, and the schedule that sends it *)
(* again.  One section per codec, each with the invariant that holds       *)
(* between its steps:                                                      *)
(*   HiddenInv    each block hidden or revealed so far is the one of the   *)
(*                other side under the digest of what came before it;      *)
(*   ScheduleInv  the delay of the next attempt is the base delay doubled  *)
(*                once for each that was sent;                             *)
(*   LayerInv     what is in the datagram, and what each layer's reader    *)
(*                has taken off it, is what the sender put on;             *)
(*   ExtInv       the fragments written are whole attributes, in order,    *)
(*                and the reader keeps the pieces of the last one begun;   *)
(*   ExchangeInv  what is on the way is the packet as signed, or altered,  *)
(*                and what each side keeps of it agrees.                   *)
(***************************************************************************)
EXTENDS SignedExchange, ExtendedAttr, HiddenOctets, AttributeLayers,
        RetransmitSchedule, RecursionProofs, SequenceTheorems, TLAPS

-----------------------------------------------------------------------------
(*****************************************************************************)
(* Hidden octets (crypto/crypto.go, crypto/mppe.go, crypto/tunnel.go)        *)
(*****************************************************************************)

\* What the digest for block i is taken of.
Link(party, i) == IF i = 1 THEN party.seed ELSE cipher[i - 1]

Chained ==
    /\ \A i \in 1..Len(cipher) : cipher[i] = Xor(plain[i], Digest(there.key, Link(there, i)))
    /\ \A i \in 1..Len(shown) : shown[i] = Xor(cipher[i], Digest(here.key, Link(here, i)))

LoopBounds ==
    /\ hphase = "idle" => plain = <<>>
    /\ hphase \in {"idle", "refused"} => cipher = <<>>
    /\ hphase \in {"idle", "encrypt", "refused"} => shown = <<>>
    /\ hphase \in {"decrypt", "done"} => Len(cipher) = Len(plain)
    /\ hphase = "done" => Len(shown) = Len(cipher)

HiddenInv == HiddenTypeOK /\ LoopBounds /\ Chained /\ RevealsWhatWasHidden

\* A value is hidden in whole blocks.
LEMMA ContentsAreSequences ==
    ASSUME NEW k \in {"password", "salted"}, NEW n \in Lengths
    PROVE  Contents(BlocksFor(k, n)) \subseteq Seq(Blocks)
<1>1. n \in Nat
  BY LengthsAreNat
<1>2. BlocksFor(k, n) \in Nat
  BY <1>1 DEF BlocksFor
<1>3. [1..BlocksFor(k, n) -> Blocks] \subseteq Seq(Blocks)
  BY <1>2
<1> QED BY <1>3, ContentsAreBlocks

\* What a digest is taken of, and the digest itself.
LEMMA LinksAreBlocks ==
    ASSUME HiddenTypeOK, NEW party \in [key : Keys, seed : Seeds],
           NEW i \in 1..(Len(cipher) + 1)
    PROVE  /\ Link(party, i) \in Blocks \cup Seeds
           /\ Digest(party.key, Link(party, i)) \in Blocks
<1>1. cipher \in Seq(Blocks) /\ Len(cipher) \in Nat
  BY DEF HiddenTypeOK
<1>2. i # 1 => i - 1 \in 1..Len(cipher)
  BY <1>1
<1>3. Link(party, i) \in Blocks \cup Seeds
  BY <1>1, <1>2 DEF Link
<1> QED BY <1>3, DigestIsABlock

\* The receiver recovers a block whose digest is the sender's.
LEMMA BlockComesBack ==
    ASSUME HiddenTypeOK, Chained, here.key = there.key, NEW i \in 1..Len(shown),
           i = 1 => here.seed = there.seed
    PROVE  shown[i] = plain[i]
<1>1. /\ i \in 1..Len(cipher) /\ i \in 1..Len(plain) /\ i \in 1..(Len(cipher) + 1)
      /\ plain[i] \in Blocks
  BY DEF HiddenTypeOK
<1>2. Link(here, i) = Link(there, i)
  BY DEF Link
<1>3. Digest(there.key, Link(there, i)) \in Blocks
  BY <1>1, LinksAreBlocks DEF HiddenTypeOK
<1>4. shown[i] = Xor(Xor(plain[i], Digest(there.key, Link(there, i))),
                     Digest(there.key, Link(there, i)))
  BY <1>1, <1>2 DEF Chained
<1> QED BY <1>1, <1>3, <1>4, XorInverse

\* With the right secret and seed all of them come back.
LEMMA AllComesBack ==
    ASSUME HiddenTypeOK, Chained, here = there, Len(shown) = Len(plain)
    PROVE  shown = plain
<1>1. \A i \in 1..Len(shown) : shown[i] = plain[i]
  BY BlockComesBack
<1>2. shown \in Seq(Blocks) /\ plain \in Seq(Blocks)
  BY DEF HiddenTypeOK
<1> QED BY <1>1, <1>2

-----------------------------------------------------------------------------
\* Nothing is hidden yet.
LEMMA HiddenInitially == HideInit => HiddenInv
<1> SUFFICES ASSUME HideInit PROVE HiddenInv
  OBVIOUS
<1>1. there \in [key : Keys, seed : Seeds] /\ here = there
  BY DEF HideInit
<1>2. HiddenTypeOK
  BY <1>1 DEF HideInit, HiddenTypeOK
<1>3. LoopBounds /\ Chained /\ RevealsWhatWasHidden
  BY DEF HideInit, LoopBounds, Chained, RevealsWhatWasHidden
<1> QED BY <1>2, <1>3 DEF HiddenInv

\* The value is checked and padded (crypto.go:61-80, mppe.go, tunnel.go).
LEMMA HideStartKeepsInv == ASSUME HiddenInv, HideStart PROVE HiddenInv'
<1>1. PICK k \in {"password", "salted"}, n \in Lengths, z \in {0, 1} :
         /\ kind' = k /\ hlen' = n /\ z <= n /\ nuls' = z
         /\ \/ hphase' = "refused" /\ plain' = plain
            \/ hphase' = "encrypt" /\ plain' \in Contents(BlocksFor(k, n))
  BY DEF HideStart
<1>2. /\ hphase = "idle" /\ cipher' = cipher /\ shown' = shown
      /\ there' \in [key : Keys, seed : Seeds] /\ here' \in [key : Keys, seed : Seeds]
  BY DEF HideStart
<1>3. cipher' = <<>> /\ shown' = <<>>
  BY <1>2 DEF HiddenInv, LoopBounds
<1>4. plain' \in Seq(Blocks)
  BY <1>1, ContentsAreSequences DEF HiddenInv, HiddenTypeOK
<1>5. n \in Nat /\ z \in 0..n
  BY <1>1, LengthsAreNat
<1>6. HiddenTypeOK'
  BY <1>1, <1>2, <1>3, <1>4, <1>5 DEF HiddenTypeOK
<1>7. LoopBounds' /\ Chained' /\ RevealsWhatWasHidden'
  BY <1>1, <1>3 DEF LoopBounds, Chained, RevealsWhatWasHidden
<1> QED BY <1>6, <1>7 DEF HiddenInv

\* One turn of the encrypting loop.
LEMMA EncryptBlockKeepsInv == ASSUME HiddenInv, EncryptBlock PROVE HiddenInv'
<1> DEFINE n == Len(cipher)
           block == Xor(plain[n + 1], Digest(there.key, Link(there, n + 1)))
<1>1. /\ hphase = "encrypt" /\ n < Len(plain)
      /\ UNCHANGED <<hphase, kind, hlen, nuls, plain, there, here, shown, revealed>>
  BY DEF EncryptBlock
<1>2. /\ cipher \in Seq(Blocks) /\ plain \in Seq(Blocks) /\ n \in Nat
      /\ there \in [key : Keys, seed : Seeds] /\ shown = <<>>
  BY <1>1 DEF HiddenInv, HiddenTypeOK, LoopBounds
<1>3. NextDigest(there, cipher, cipher) = Digest(there.key, Link(there, n + 1))
  BY <1>2 DEF NextDigest, Link
<1>4. cipher' = Append(cipher, block)
  BY <1>3 DEF EncryptBlock
<1>5. block \in Blocks
  <2>1. Digest(there.key, Link(there, n + 1)) \in Blocks
    BY <1>2, LinksAreBlocks DEF HiddenInv
  <2>2. plain[n + 1] \in Blocks
    BY <1>1, <1>2
  <2> QED BY <2>1, <2>2, XorInverse
<1> HIDE DEF block
<1>6. /\ cipher' \in Seq(Blocks) /\ Len(cipher') = n + 1 /\ cipher'[n + 1] = block
      /\ \A i \in 1..n : cipher'[i] = cipher[i]
  BY <1>2, <1>4, <1>5
<1>7. HiddenTypeOK' /\ LoopBounds'
  BY <1>1, <1>2, <1>6 DEF HiddenInv, HiddenTypeOK, LoopBounds
<1>8. Chained'
  <2>1. ASSUME NEW i \in 1..Len(cipher')
        PROVE  cipher'[i] = Xor(plain[i], Digest(there.key, Link(there, i)'))
    <3>1. Link(there, i)' = Link(there, i)
      BY <1>1, <1>2, <1>6 DEF Link
    <3>2. CASE i = n + 1
      BY <1>6, <3>1, <3>2 DEF block
    <3>3. CASE i \in 1..n
      BY <1>6, <3>1, <3>3 DEF HiddenInv, Chained
    <3> QED BY <1>2, <1>6, <3>2, <3>3
  <2> QED BY <1>1, <1>2, <2>1 DEF Chained
<1>9. RevealsWhatWasHidden'
  BY <1>1 DEF RevealsWhatWasHidden
<1> QED BY <1>7, <1>8, <1>9 DEF HiddenInv

\* The attribute is delivered when the loop is done.
LEMMA DeliverKeepsInv == ASSUME HiddenInv, Deliver PROVE HiddenInv'
BY DEF HiddenInv, HiddenTypeOK, LoopBounds, Chained, Link, RevealsWhatWasHidden, Deliver

\* One turn of the decrypting loop.
LEMMA DecryptBlockKeepsInv == ASSUME HiddenInv, DecryptBlock PROVE HiddenInv'
<1> DEFINE n == Len(shown)
           block == Xor(cipher[n + 1], Digest(here.key, Link(here, n + 1)))
<1>1. /\ hphase = "decrypt" /\ n < Len(cipher)
      /\ UNCHANGED <<hphase, kind, hlen, nuls, plain, there, here, cipher, revealed>>
  BY DEF DecryptBlock
<1>2. /\ cipher \in Seq(Blocks) /\ shown \in Seq(Blocks) /\ n \in Nat
      /\ here \in [key : Keys, seed : Seeds] /\ n + 1 \in 1..Len(cipher)
  BY <1>1 DEF HiddenInv, HiddenTypeOK
<1>3. NextDigest(here, shown, cipher) = Digest(here.key, Link(here, n + 1))
  BY <1>2 DEF NextDigest, Link
<1>4. shown' = Append(shown, block)
  BY <1>3 DEF DecryptBlock
<1>5. block \in Blocks
  <2>1. Digest(here.key, Link(here, n + 1)) \in Blocks
    BY <1>2, LinksAreBlocks DEF HiddenInv
  <2>2. cipher[n + 1] \in Blocks
    BY <1>2
  <2> QED BY <2>1, <2>2, XorInverse
<1> HIDE DEF block
<1>6. /\ shown' \in Seq(Blocks) /\ Len(shown') = n + 1 /\ shown'[n + 1] = block
      /\ \A i \in 1..n : shown'[i] = shown[i]
  BY <1>2, <1>4, <1>5
<1>7. HiddenTypeOK' /\ LoopBounds'
  BY <1>1, <1>2, <1>6 DEF HiddenInv, HiddenTypeOK, LoopBounds
<1>8. Chained'
  <2>1. ASSUME NEW i \in 1..Len(shown')
        PROVE  shown'[i] = Xor(cipher[i], Digest(here.key, Link(here, i)))
    <3>1. CASE i = n + 1
      BY <1>6, <3>1 DEF block
    <3>2. CASE i \in 1..n
      BY <1>6, <3>2 DEF HiddenInv, Chained
    <3> QED BY <1>2, <1>6, <3>1, <3>2
  <2>2. \A i \in 1..Len(cipher) : cipher[i] = Xor(plain[i], Digest(there.key, Link(there, i)))
    BY DEF HiddenInv, Chained
  <2> QED BY <1>1, <2>1, <2>2 DEF Chained, Link
<1>9. RevealsWhatWasHidden'
  BY <1>1 DEF RevealsWhatWasHidden
<1> QED BY <1>7, <1>8, <1>9 DEF HiddenInv

\* The result is cut to its length (crypto.go:117, tunnel.go, mppe.go).
LEMMA RevealedKeepsInv == ASSUME HiddenInv, Revealed PROVE HiddenInv'
<1>1. /\ Len(shown) = Len(cipher) /\ hphase = "decrypt" /\ hphase' = "done"
      /\ revealed' \in ReturnedLengths
      /\ UNCHANGED <<kind, hlen, nuls, plain, there, here, cipher, shown>>
  BY DEF Revealed
<1>2. HiddenTypeOK' /\ LoopBounds' /\ Chained'
  BY <1>1 DEF HiddenInv, HiddenTypeOK, LoopBounds, Chained, Link
<1>3. here = there => shown = plain
  BY <1>1, AllComesBack DEF HiddenInv, LoopBounds
<1>4. here = there => revealed' = IF kind = "password" THEN hlen - nuls ELSE hlen
  BY <1>1, <1>3 DEF ReturnedLengths
<1>5. RevealsWhatWasHidden'
  BY <1>1, <1>3, <1>4 DEF RevealsWhatWasHidden
<1> QED BY <1>2, <1>5 DEF HiddenInv

\* The loop invariant holds in every state.
THEOREM HiddenInvariance == HideSpec => []HiddenInv
<1>1. HideInit => HiddenInv
  BY HiddenInitially
<1>2. HiddenInv /\ [HideNext]_hiddenVars => HiddenInv'
  <2> SUFFICES ASSUME HiddenInv, [HideNext]_hiddenVars PROVE HiddenInv'
    OBVIOUS
  <2>1. CASE UNCHANGED hiddenVars
    BY <2>1 DEF hiddenVars, HiddenInv, HiddenTypeOK, LoopBounds, Chained, Link,
                RevealsWhatWasHidden
  <2>2. CASE HideNext
    BY <2>2, HideStartKeepsInv, EncryptBlockKeepsInv, DeliverKeepsInv,
       DecryptBlockKeepsInv, RevealedKeepsInv DEF HideNext
  <2> QED BY <2>1, <2>2
<1> QED BY <1>1, <1>2, PTL DEF HideSpec

\* With the secret and the seed that hid it, a value comes back in full
\* length (crypto.go:85-120, mppe.go, tunnel.go).
THEOREM HiddenIsRevealed == HideSpec => []RevealsWhatWasHidden
<1>1. HiddenInv => RevealsWhatWasHidden
  BY DEF HiddenInv
<1> QED BY <1>1, HiddenInvariance, PTL

\* Every block but the first comes back with the secret alone: the seed, a
\* Request Authenticator or a salt, enters the first digest only.
THEOREM SeedHidesOneBlock == HideSpec => []OnlyFirstBlockNeedsTheSeed
<1>1. HiddenInv => OnlyFirstBlockNeedsTheSeed
  <2> SUFFICES ASSUME HiddenInv, here.key = there.key, NEW i \in 2..Len(shown)
               PROVE  shown[i] = plain[i]
    BY DEF OnlyFirstBlockNeedsTheSeed
  <2>1. i \in 1..Len(shown) /\ i # 1
    BY DEF HiddenInv, HiddenTypeOK
  <2> QED BY <2>1, BlockComesBack DEF HiddenInv
<1> QED BY <1>1, HiddenInvariance, PTL

-----------------------------------------------------------------------------
(*****************************************************************************)
(* The retransmission schedule (protocol/retransmit.go)                      *)
(*****************************************************************************)

Pow2Body(p) == [n \in Nat |-> IF n = 0 THEN 1 ELSE 2 * p[n - 1]]

\* The recursive definition of the powers of two defines a function.
LEMMA Pow2Is ==
    /\ Pow2 \in [Nat -> Nat]
    /\ Pow2[0] = 1
    /\ \A n \in Nat : n > 0 => Pow2[n] = 2 * Pow2[n - 1]
<1> DEFINE T == Nat
           base == 1
           step == [n \in Nat |-> [x \in T |-> 2 * x]]
<1>1. PICK f \in Recursive(T, base, step) : TRUE
  <2>1. base \in T /\ step \in Steps(T)
    BY DEF Steps
  <2> HIDE DEF T, base, step
  <2> QED BY <2>1, RecursiveExists
<1>2. f \in [Nat -> Nat] /\ f[0] = 1 /\ \A n \in Nat : n > 0 => f[n] = 2 * f[n - 1]
  <2>1. f \in [Nat -> Nat] /\ f[0] = 1 /\ \A n \in Nat : n > 0 => f[n] = step[n][f[n - 1]]
    BY <1>1 DEF Recursive
  <2>2. ASSUME NEW n \in Nat, n > 0 PROVE f[n] = 2 * f[n - 1]
    <3>1. n - 1 \in Nat /\ f[n - 1] \in Nat
      BY <2>1, <2>2
    <3> QED BY <2>1, <2>2, <3>1
  <2> QED BY <2>1, <2>2
<1>3. f = Pow2Body(f)
  <2>1. f = [n \in Nat |-> f[n]]
    BY <1>2
  <2>2. \A n \in Nat : f[n] = IF n = 0 THEN 1 ELSE 2 * f[n - 1]
    BY <1>2
  <2>3. [n \in Nat |-> f[n]] = Pow2Body(f)
    BY <2>2 DEF Pow2Body
  <2> QED BY <2>1, <2>3
<1>4. Pow2 = Pow2Body(Pow2)
  <2> DEFINE c == CHOOSE p : p = Pow2Body(p)
  <2>1. c = Pow2Body(c)
    BY <1>3
  <2>2. Pow2 = c
    BY DEF Pow2, Pow2Body
  <2> QED BY <2>1, <2>2
<1>5. \A n \in Nat : Pow2[n] = IF n = 0 THEN 1 ELSE 2 * Pow2[n - 1]
  BY <1>4 DEF Pow2Body
<1>6. Pow2 = [n \in Nat |-> Pow2[n]]
  BY <1>4 DEF Pow2Body
<1> DEFINE S == {n \in Nat : Pow2[n] \in Nat}
<1>7. Nat \subseteq S
  <2>1. 0 \in S
    BY <1>5
  <2>2. ASSUME NEW n \in Nat, n \in S PROVE n + 1 \in S
    <3>1. n + 1 # 0 /\ n + 1 \in Nat /\ (n + 1) - 1 = n
      OBVIOUS
    <3>2. Pow2[n + 1] = 2 * Pow2[n]
      BY <1>5, <3>1
    <3> QED BY <2>2, <3>2
  <2> HIDE DEF S
  <2> QED BY <2>1, <2>2, SetInduction
<1>8. \A n \in Nat : Pow2[n] \in Nat
  BY <1>7
<1>9. Pow2 \in [Nat -> Nat]
  <2>1. [n \in Nat |-> Pow2[n]] \in [Nat -> Nat]
    BY <1>8
  <2> QED BY <1>6, <2>1
<1>10. Pow2[0] = 1 /\ \A n \in Nat : n > 0 => Pow2[n] = 2 * Pow2[n - 1]
  BY <1>5
<1> QED BY <1>9, <1>10

\* The powers of two are positive and grow.
LEMMA Pow2Grows ==
    /\ \A n \in Nat : Pow2[n] \in Nat \ {0} /\ Pow2[n + 1] = 2 * Pow2[n]
    /\ \A m, n \in Nat : m <= n => Pow2[m] <= Pow2[n]
<1>1. \A n \in Nat : Pow2[n] \in Nat /\ Pow2[n + 1] = 2 * Pow2[n]
  <2> TAKE n \in Nat
  <2>1. n + 1 \in Nat /\ n + 1 > 0 /\ (n + 1) - 1 = n
    OBVIOUS
  <2> QED BY <2>1, Pow2Is
<1>2. \A n \in Nat : Pow2[n] # 0
  <2> DEFINE S == {n \in Nat : Pow2[n] # 0}
  <2>1. 0 \in S
    BY Pow2Is
  <2>2. \A n \in Nat : n \in S => n + 1 \in S
    BY <1>1
  <2> HIDE DEF S
  <2>3. Nat \subseteq S
    BY <2>1, <2>2, SetInduction
  <2> QED BY <2>3 DEF S
<1>3. ASSUME NEW m \in Nat PROVE \A n \in Nat : m <= n => Pow2[m] <= Pow2[n]
  <2> DEFINE S == {n \in Nat : m <= n => Pow2[m] <= Pow2[n]}
  <2>1. 0 \in S
    BY <1>1
  <2>2. ASSUME NEW n \in Nat, n \in S PROVE n + 1 \in S
    <3>1. CASE m <= n
      BY <1>1, <2>2, <3>1
    <3>2. CASE ~(m <= n)
      <4>1. m <= n + 1 => m = n + 1
        BY <3>2
      <4> QED BY <1>1, <4>1
    <3> QED BY <3>1, <3>2
  <2> HIDE DEF S
  <2>3. Nat \subseteq S
    BY <2>1, <2>2, SetInduction
  <2> QED BY <2>3 DEF S
<1> QED BY <1>1, <1>2, <1>3

Policy == [n : Int, initial : Int, max : Int, jitter : Int]

\* A shift is an integer, and exact as long as the product fits a Duration.
LEMMA ShiftedIs ==
    ASSUME NEW x \in Int, NEW k \in Nat
    PROVE  /\ Shifted(x, k) \in Int
           /\ x * Pow2[k] \in 1..(Pow2[Width - 1] - 1) => Shifted(x, k) = x * Pow2[k]
<1> DEFINE M == Pow2[Width]
           H == Pow2[Width - 1]
           y == x * Pow2[k]
<1>1. Width \in Nat /\ Width - 1 \in Nat /\ Width = (Width - 1) + 1
  BY WidthIsNat
<1>2. M \in Nat \ {0} /\ H \in Nat \ {0} /\ M = 2 * H /\ Pow2[k] \in Nat \ {0}
  BY <1>1, Pow2Grows
<1>3. y \in Int
  BY <1>2
<1>4. y % M \in 0..(M - 1)
  <2> HIDE DEF M, y
  <2> QED BY <1>2, <1>3
<1>5. Wrap(y) \in Int
  <2> HIDE DEF y
  <2> QED BY <1>2, <1>4 DEF Wrap
<1>6. Shifted(x, k) = IF k >= Width THEN 0 ELSE Wrap(y)
  BY DEF Shifted
<1>7. ASSUME y \in 1..(H - 1) PROVE Shifted(x, k) = y
  <2>1. k < Width
    <3> SUFFICES ASSUME k >= Width PROVE FALSE
      BY <1>1
    <3>1. Pow2[k] >= M
      BY <1>1, Pow2Grows
    <3>2. x >= 1
      <4> SUFFICES ASSUME x <= 0 PROVE FALSE
        OBVIOUS
      <4> DEFINE p == Pow2[k]
      <4>1. p \in Nat
        BY <1>2
      <4> HIDE DEF p
      <4>2. x * p <= 0
        BY <4>1
      <4> QED BY <1>7, <1>2, <4>2 DEF p
    <3>3. x * Pow2[k] >= Pow2[k]
      <4> DEFINE p == Pow2[k]
      <4>1. p \in Nat
        BY <1>2
      <4> HIDE DEF p
      <4>2. x * p >= p
        BY <3>2, <4>1
      <4> QED BY <4>2 DEF p
    <3> HIDE DEF M, H
    <3> QED BY <1>2, <1>7, <3>1, <3>3
  <2>2. y % M = y
    <3> HIDE DEF y, M, H
    <3> QED BY <1>2, <1>3, <1>7
  <2>3. Wrap(y) = y
    <3> HIDE DEF y
    <3> QED BY <1>2, <1>3, <1>7, <2>2 DEF Wrap
  <2> QED BY <1>1, <1>6, <2>1, <2>3
<1> HIDE DEF y
<1> QED BY <1>1, <1>5, <1>6, <1>7 DEF y

\* Without jitter a delay never exceeds the policy's maximum, is positive when
\* the maximum is, and is the doubled one as long as doubling fits a Duration.
LEMMA BaseIs ==
    ASSUME NEW p \in Policy, NEW k \in Nat
    PROVE  /\ Base(p, k) \in Int
           /\ Base(p, k) <= p.max
           /\ Base(p, k) <= 0 => p.max <= 0
           /\ p.initial * Pow2[k] \in 1..MaxDuration =>
                 Base(p, k) = (IF p.initial * Pow2[k] > p.max THEN p.max
                               ELSE p.initial * Pow2[k])
<1> DEFINE base == Shifted(p.initial, k)
           y == p.initial * Pow2[k]
<1>1. p.initial \in Int /\ p.max \in Int
  BY DEF Policy
<1>2. base \in Int /\ (y \in 1..MaxDuration => base = y)
  BY <1>1, ShiftedIs DEF MaxDuration
<1>3. Base(p, k) = IF base <= 0 \/ base > p.max THEN p.max ELSE base
  BY DEF Base
<1>4. MaxDuration \in Int
  BY WidthIsNat, Pow2Grows DEF MaxDuration
<1> HIDE DEF base, y
<1>5. Base(p, k) \in Int /\ Base(p, k) <= p.max /\ (Base(p, k) <= 0 => p.max <= 0)
  BY <1>1, <1>2, <1>3
<1>6. y \in 1..MaxDuration => Base(p, k) = IF y > p.max THEN p.max ELSE y
  BY <1>1, <1>2, <1>3, <1>4
<1> QED BY <1>5, <1>6 DEF y

\* Rounding towards zero.
LEMMA HundredthIs ==
    /\ \A x \in Int : Hundredth(x) \in Int
    /\ \A x \in Int : x >= 0 =>
          100 * Hundredth(x) <= x /\ x < 100 * (Hundredth(x) + 1) /\ Hundredth(x) >= 0
BY DEF Hundredth

\* A greater delay, scaled, is greater.
LEMMA Scaled ==
    ASSUME NEW m \in Int, m >= 0, NEW x \in Int, NEW y \in Int, x <= y
    PROVE  (100 + m) * x <= (100 + m) * y
<1> DEFINE n == 100 + m
           z == y - x
<1>1. n \in Int /\ n >= 0 /\ z \in Int /\ z >= 0
  OBVIOUS
<1>2. n * z >= 0
  <2> HIDE DEF n, z
  <2> QED BY <1>1
<1>3. n * z = n * y - n * x
  <2> HIDE DEF n
  <2> QED BY <1>1
<1>4. n * x \in Int /\ n * y \in Int
  <2> HIDE DEF n
  <2> QED BY <1>1
<1> QED BY <1>2, <1>3, <1>4

\* What jitter may take from a delay and add to it.
LEMMA JitteredIs ==
    ASSUME NEW base \in Int, base > 0, NEW j \in Int, j >= 0, j <= 100
    PROVE  /\ (100 - j) * base \in Int /\ (100 + j) * base \in Int
           /\ (100 - j) * base >= 0 /\ (100 - j) * base <= (100 + j) * base
           /\ base * (100 - j) = (100 - j) * base /\ base * (100 + j) = (100 + j) * base
<1> DEFINE q == j * base
<1>1. q \in Int /\ q >= 0
  OBVIOUS
<1>2. q <= 100 * base
  <2> DEFINE r == (100 - j) * base
  <2>1. r >= 0 /\ r \in Int
    OBVIOUS
  <2>2. r = 100 * base - q
    OBVIOUS
  <2> HIDE DEF r, q
  <2> QED BY <1>1, <2>1, <2>2
<1>3. (100 - j) * base = 100 * base - q /\ (100 + j) * base = 100 * base + q
      /\ base * (100 - j) = 100 * base - q /\ base * (100 + j) = 100 * base + q
  OBVIOUS
<1> HIDE DEF q
<1> QED BY <1>1, <1>2, <1>3

\* What a delay that jitter may draw is to the delay without it.
LEMMA NextDelayIs ==
    ASSUME NEW p \in Policy, NEW k \in Nat, NEW d \in NextDelay(p, k)
    PROVE  LET j == JitterOf(p)
               base == Base(p, k)
           IN  /\ d \in Int
               /\ base > 0 /\ j <= 100 /\ (100 + j) * base <= 100 * MaxDuration =>
                     100 * d <= (100 + j) * base /\ 100 * (d + 1) > (100 - j) * base
               /\ d <= 0 => \/ base <= 0
                            \/ (100 - j) * base < 100
                            \/ (100 + j) * base > 100 * MaxDuration
<1> DEFINE j == JitterOf(p)
           base == Base(p, k)
           from == Hundredth(base * (100 - p.jitter))
           to == Hundredth(base * (100 + p.jitter))
           drawn == (from..to) \cup (to..from)
<1>1. base \in Int /\ p.jitter \in Int /\ j \in Int /\ j >= 0 /\ MaxDuration \in Nat /\ MinDuration \in Int
      /\ MinDuration <= 0 /\ (p.jitter > 0 => j = p.jitter) /\ (p.jitter <= 0 => j = 0)
  BY BaseIs, WidthIsNat, Pow2Grows DEF Policy, JitterOf, MaxDuration, MinDuration
<1>2. /\ p.jitter <= 0 => d = base
      /\ p.jitter > 0 => d \in drawn \/ d \in {MinDuration, MaxDuration}
      /\ p.jitter > 0 /\ drawn \subseteq MinDuration..MaxDuration => d \in drawn
  BY <1>1 DEF NextDelay
<1> HIDE DEF base, j
<1>3. from \in Int /\ to \in Int
  <2>1. base * (100 - p.jitter) \in Int /\ base * (100 + p.jitter) \in Int
    BY <1>1
  <2> QED BY <2>1, HundredthIs
<1>4. d \in Int
  <2> HIDE DEF from, to
  <2> QED BY <1>1, <1>2, <1>3
<1>5. ASSUME base > 0, j <= 100, (100 + j) * base <= 100 * MaxDuration
      PROVE  /\ 100 * d <= (100 + j) * base /\ 100 * (d + 1) > (100 - j) * base
             /\ (100 - j) * base >= 100 => d > 0
  <2> DEFINE down == (100 - j) * base
             up == (100 + j) * base
  <2>1. down \in Int /\ up \in Int /\ down >= 0 /\ down <= up /\ up <= 100 * MaxDuration
        /\ base * (100 - j) = down /\ base * (100 + j) = up
    BY <1>1, <1>5, JitteredIs
  <2>2. CASE p.jitter <= 0
    <3>1. j = 0 /\ d = base
      BY <1>1, <1>2, <2>2
    <3>2. down = 100 * base /\ up = 100 * base
      BY <1>1, <3>1
    <3> HIDE DEF down, up
    <3>3. 100 * d <= up /\ 100 * (d + 1) > down /\ d > 0
      BY <1>1, <1>5, <3>1, <3>2
    <3> QED BY <3>3 DEF down, up
  <2>3. CASE p.jitter > 0
    <3>1. from = Hundredth(down) /\ to = Hundredth(up)
      BY <1>1, <2>1, <2>3
    <3> HIDE DEF down, up, from, to
    <3>2. 100 * from <= down /\ down < 100 * (from + 1) /\ from >= 0 /\ 100 * to <= up /\ up < 100 * (to + 1)
      <4>1. up >= 0 /\ up \in Int /\ down >= 0 /\ down \in Int
        BY <2>1
      <4> QED BY ONLY <3>1, <4>1, HundredthIs
    <3>3. from <= to /\ to <= MaxDuration
      BY <1>1, <1>3, <2>1, <3>2
    <3>4. drawn \subseteq MinDuration..MaxDuration /\ drawn \subseteq from..to
      BY <1>1, <1>3, <3>2, <3>3
    <3>5. d \in from..to
      BY <1>2, <2>3, <3>4
    <3>6. 100 * d <= up /\ 100 * (d + 1) > down /\ (down >= 100 => d > 0)
      BY <1>3, <2>1, <3>2, <3>5
    <3> QED BY <3>6 DEF down, up
  <2> QED BY <1>1, <2>2, <2>3
<1>6. ASSUME d <= 0, base > 0, ~((100 - j) * base < 100), ~((100 + j) * base > 100 * MaxDuration)
      PROVE  FALSE
  <2>1. (100 - j) * base \in Int /\ (100 + j) * base \in Int
    BY <1>1
  <2>2. j <= 100
    <3> SUFFICES ASSUME j > 100 PROVE FALSE
      BY <1>1
    <3>1. (100 - j) * base <= 0
      BY <1>1, <1>6
    <3> QED BY <1>6, <2>1, <3>1
  <2>3. (100 - j) * base >= 100 /\ (100 + j) * base <= 100 * MaxDuration
    BY <1>1, <1>6, <2>1
  <2>4. d > 0
    BY <1>5, <1>6, <2>2, <2>3
  <2> QED BY <1>4, <1>6, <2>4
<1>7. d <= 0 => base <= 0 \/ (100 - j) * base < 100 \/ (100 + j) * base > 100 * MaxDuration
  BY <1>1, <1>6
<1> QED BY <1>4, <1>5, <1>7 DEF base, j

-----------------------------------------------------------------------------
ScheduleTypeOK ==
    /\ sphase \in {"idle", "send", "read", "last read", "backoff", "failed", "stuck"}
    /\ config \in [retransmit : Policy, timeout : Int]
    /\ policy \in Policy
    /\ attempt \in Nat /\ left \in Int /\ delay \in Int

\* The deadline a reply is awaited under is one the policy has for the
\* attempt, and a read without one is the last or follows a delay that is not
\* positive.
AttemptsOK ==
    /\ sphase \in {"read", "backoff", "last read", "stuck"} => attempt > 0
    /\ sphase = "read" => delay > 0 /\ delay \in NextDelay(policy, attempt - 1)
    /\ sphase \in {"last read", "stuck"} /\ attempt < AttemptsOf(policy) =>
          \E d \in NextDelay(policy, attempt - 1) : ~(d > 0)
    /\ sphase = "stuck" => config.timeout <= 0

ScheduleInv == ScheduleTypeOK /\ AttemptsOK

\* The policies a client can have are policies of integers.
LEMMA PoliciesAre ==
    /\ ZeroPolicy \in Policy /\ [ZeroPolicy EXCEPT !.n = 1] \in Policy
    /\ Timeouts \subseteq Int
    /\ \A p \in [n : Attempts, initial : Durations, max : Durations, jitter : Jitters] :
          RetransmitOrZero(p) \in Policy /\ p \in Policy
<1>1. Durations \subseteq Int /\ Timeouts \subseteq Int
  <2>1. MaxDuration \in Int /\ MinDuration \in Int
    BY WidthIsNat, Pow2Grows DEF MaxDuration, MinDuration
  <2> QED BY <2>1, DurationsFit
<1>2. DefaultPolicy \in Policy
  BY PoliciesAreIntegers DEF Policy
<1>3. \A p \in [n : Attempts, initial : Durations, max : Durations, jitter : Jitters] :
          RetransmitOrZero(p) \in Policy /\ p \in Policy
  BY <1>1, <1>2, PoliciesAreIntegers DEF Policy, RetransmitOrZero
<1> QED BY <1>1, <1>3 DEF ZeroPolicy, Policy

\* A call has made no attempt.
LEMMA ScheduleInitially == ScheduleInit => ScheduleInv
BY PoliciesAre DEF ScheduleInit, ScheduleInv, ScheduleTypeOK, AttemptsOK

\* A call takes the policy of its client.
LEMMA CallKeepsInv ==
    ASSUME ScheduleInv, NEW c \in [retransmit : Policy, timeout : Int], NEW p \in Policy, Call(c, p)
    PROVE  ScheduleInv'
<1>1. ScheduleTypeOK'
  BY DEF Call, ScheduleInv, ScheduleTypeOK
<1>2. AttemptsOK'
  BY DEF Call, AttemptsOK
<1> QED BY <1>1, <1>2 DEF ScheduleInv

\* NextDelay is a set of integers, and depends on the policy only.
LEMMA NextDelayStays ==
    ASSUME policy' = policy, attempt' = attempt
    PROVE  /\ NextDelay(policy, attempt - 1)' = NextDelay(policy, attempt - 1)
           /\ AttemptsOf(policy)' = AttemptsOf(policy)
BY DEF NextDelay, Base, AttemptsOf

\* An attempt is sent under a delay of the policy for it, or under none.
LEMMA TransmitKeepsInv == ASSUME ScheduleInv, Transmit PROVE ScheduleInv'
<1>1. ScheduleTypeOK /\ attempt \in Nat /\ policy \in Policy /\ delay \in Int
  BY DEF ScheduleInv, ScheduleTypeOK
<1>2. /\ attempt' = attempt + 1 /\ UNCHANGED <<config, policy, left>>
      /\ \/ \E d \in NextDelay(policy, attempt) :
               IF d > 0 THEN sphase' = "read" /\ delay' = d
               ELSE sphase' = "last read" /\ delay' = delay
         \/ attempt' >= AttemptsOf(policy) /\ sphase' = "last read" /\ delay' = delay
  BY DEF Transmit
<1>3. attempt' \in Nat /\ attempt' > 0 /\ attempt' - 1 = attempt
  <2>1. attempt' = attempt + 1
    BY <1>2
  <2> QED BY <1>1, <2>1
<1>4. /\ NextDelay(policy, attempt - 1)' = NextDelay(policy, attempt)
      /\ AttemptsOf(policy)' = AttemptsOf(policy)
  <2>1. policy' = policy
    BY <1>2
  <2>2. NextDelay(policy', attempt' - 1) = NextDelay(policy, attempt)
    BY <1>3, <2>1
  <2> QED BY <2>1, <2>2 DEF AttemptsOf
<1>5. CASE \E d \in NextDelay(policy, attempt) :
              IF d > 0 THEN sphase' = "read" /\ delay' = d
              ELSE sphase' = "last read" /\ delay' = delay
  <2>1. PICK d \in NextDelay(policy, attempt) :
           IF d > 0 THEN sphase' = "read" /\ delay' = d
           ELSE sphase' = "last read" /\ delay' = delay
    BY <1>5
  <2>2. d \in Int
    BY <1>1, NextDelayIs
  <2>3. ScheduleTypeOK'
    BY <1>1, <1>2, <1>3, <2>1, <2>2 DEF ScheduleTypeOK
  <2>4. AttemptsOK'
    BY <1>2, <1>3, <1>4, <2>1 DEF AttemptsOK
  <2> QED BY <2>3, <2>4 DEF ScheduleInv
<1>6. CASE attempt' >= AttemptsOf(policy) /\ sphase' = "last read" /\ delay' = delay
  <2>1. ScheduleTypeOK'
    BY <1>1, <1>2, <1>3, <1>6 DEF ScheduleTypeOK
  <2>2. AttemptsOf(policy) \in Int
    BY <1>1, PoliciesAreIntegers DEF AttemptsOf, Policy
  <2>3. ~(attempt' < AttemptsOf(policy)')
    <3>1. AttemptsOf(policy)' = AttemptsOf(policy) /\ attempt' \in Int
      BY <1>3, <1>4
    <3> DEFINE n == AttemptsOf(policy)
    <3>2. n \in Int /\ attempt' >= n
      BY <1>6, <2>2
    <3> HIDE DEF n
    <3>3. ~(attempt' < n)
      BY <3>1, <3>2
    <3> QED BY <3>1, <3>3 DEF n
  <2>4. AttemptsOK'
    BY <1>3, <1>6, <2>3 DEF AttemptsOK
  <2> QED BY <2>1, <2>4 DEF ScheduleInv
<1> QED BY <1>2, <1>5, <1>6

\* Waiting out an attempt, a backoff or the last read sends nothing.
LEMMA WaitKeepsInv ==
    ASSUME ScheduleInv, ReadTimesOut \/ BackOff \/ LastRead
    PROVE  ScheduleInv'
<1>1. ScheduleTypeOK /\ AttemptsOK
  BY DEF ScheduleInv
<1>2. ASSUME NEW d \in Int, NEW next \in {"backoff", "send"}, Passes(d, next), attempt > 0
      PROVE  ScheduleInv'
  <2>1. /\ UNCHANGED <<config, policy, attempt>> /\ delay' = 0
        /\ sphase' \in {"failed", "backoff", "send"}
        /\ left' = 0 \/ left' = left - d \/ left' = left
    BY <1>2 DEF Passes
  <2>2. ScheduleTypeOK'
    <3>1. config \in [retransmit : Policy, timeout : Int] /\ policy \in Policy /\ attempt \in Nat
          /\ left \in Int
      BY <1>1 DEF ScheduleTypeOK
    <3>2. left' \in Int /\ delay' \in Int
      BY <2>1, <3>1
    <3> QED BY <2>1, <3>1, <3>2 DEF ScheduleTypeOK
  <2>3. AttemptsOK'
    BY <1>2, <2>1 DEF AttemptsOK
  <2> QED BY <2>2, <2>3 DEF ScheduleInv
<1>3. CASE ReadTimesOut
  <2>1. attempt > 0 /\ delay \in Int
    BY <1>1, <1>3 DEF ReadTimesOut, AttemptsOK, ScheduleTypeOK
  <2> QED BY <1>2, <1>3, <2>1 DEF ReadTimesOut
<1>4. CASE BackOff
  <2>1. attempt > 0 /\ attempt - 1 \in Nat /\ policy \in Policy
    BY <1>1, <1>4 DEF BackOff, AttemptsOK, ScheduleTypeOK
  <2>2. PICK d \in NextDelay(policy, attempt - 1) : Passes(IF d > 0 THEN d ELSE 0, "send")
    BY <1>4 DEF BackOff
  <2>3. PICK e \in Int : Passes(e, "send")
    <3>1. d \in Int
      BY <2>1, NextDelayIs
    <3> QED BY <2>2, <3>1
  <2> QED BY <1>2, <2>1, <2>3
<1>5. CASE LastRead
  <2>1. /\ sphase = "last read" /\ UNCHANGED <<config, policy, attempt, delay>> /\ left' = 0
        /\ sphase' = "failed" \/ (sphase' = "stuck" /\ ~(config.timeout > 0))
    <3>1. CASE config.timeout > 0
      BY <1>5, <3>1 DEF LastRead
    <3>2. CASE ~(config.timeout > 0)
      BY <1>5, <3>2 DEF LastRead
    <3> QED BY <3>1, <3>2
  <2>2. ScheduleTypeOK'
    <3>1. left' \in Int
      <4>1. left' = 0
        BY <2>1
      <4> QED BY <4>1
    <3>2. sphase' \in {"failed", "stuck"}
      BY Zenon, <2>1
    <3> QED BY <1>1, <2>1, <3>1, <3>2 DEF ScheduleTypeOK
  <2>3. sphase' = "stuck" => config.timeout <= 0
    <3>1. config.timeout \in Int
      BY <1>1 DEF ScheduleTypeOK
    <3>2. ~(config.timeout > 0) => config.timeout <= 0
      BY <3>1
    <3> QED BY <2>1, <3>2
  <2>4. AttemptsOK'
    BY <1>1, <2>1, <2>3, NextDelayStays DEF AttemptsOK
  <2> QED BY <2>2, <2>4 DEF ScheduleInv
<1> QED BY <1>3, <1>4, <1>5

\* Every deadline a silent call ever waits under is one its policy has for
\* that attempt, and a read without one is the last or follows a delay that is
\* not positive.
THEOREM ScheduleInvariance == ScheduleSpec => []ScheduleInv
<1>1. ScheduleInv /\ [ScheduleNext]_scheduleVars => ScheduleInv'
  <2> SUFFICES ASSUME ScheduleInv, [ScheduleNext]_scheduleVars PROVE ScheduleInv'
    OBVIOUS
  <2>1. CASE CallUDP
    <3>1. PICK p \in [n : Attempts, initial : Durations, max : Durations, jitter : Jitters],
               t \in Timeouts :
             Call([retransmit |-> p, timeout |-> t], RetransmitOrZero(p))
      BY <2>1 DEF CallUDP
    <3>2. p \in Policy /\ RetransmitOrZero(p) \in Policy /\ t \in Int
      BY PoliciesAre
    <3> QED BY <3>1, <3>2, CallKeepsInv
  <2>2. CASE CallTCP
    <3>1. PICK t \in Timeouts :
             Call([retransmit |-> ZeroPolicy, timeout |-> t], [ZeroPolicy EXCEPT !.n = 1])
      BY <2>2 DEF CallTCP
    <3> QED BY <3>1, PoliciesAre, CallKeepsInv
  <2>3. CASE Transmit
    BY <2>3, TransmitKeepsInv
  <2>4. CASE ReadTimesOut \/ BackOff \/ LastRead
    BY <2>4, WaitKeepsInv
  <2>5. CASE UNCHANGED scheduleVars
    BY <2>5, NextDelayStays DEF scheduleVars, ScheduleInv, ScheduleTypeOK, AttemptsOK
  <2> QED BY <2>1, <2>2, <2>3, <2>4, <2>5 DEF ScheduleNext
<1> QED BY <1>1, ScheduleInitially, PTL DEF ScheduleSpec

\* The call that waits for ever is one without a timeout, after every attempt
\* of its policy or after one without a deadline: under a maximum that is not
\* positive, or where jitter can bring the delay to zero or over the greatest
\* Duration (exchangeWithRetransmit), whatever the policy and the width.
THEOREM OnlyUntimedCallsAreStuck == ScheduleSpec => []StuckOnlyWithoutTimeout
<1>1. ScheduleInv => StuckOnlyWithoutTimeout
  <2> DEFINE j == JitterOf(policy)
             base == Base(policy, attempt - 1)
  <2> SUFFICES ASSUME ScheduleInv, sphase = "stuck", attempt < AttemptsOf(policy)
               PROVE  policy.max <= 0 \/ (100 - j) * base < 100 \/ (100 + j) * policy.max > 100 * MaxDuration
    BY DEF ScheduleInv, AttemptsOK, StuckOnlyWithoutTimeout
  <2>1. attempt - 1 \in Nat /\ policy \in Policy /\ policy.max \in Int
    BY DEF ScheduleInv, ScheduleTypeOK, AttemptsOK, Policy
  <2>2. PICK d \in NextDelay(policy, attempt - 1) : ~(d > 0)
    BY DEF ScheduleInv, AttemptsOK
  <2>3. d \in Int /\ (d <= 0 => base <= 0 \/ (100 - j) * base < 100 \/ (100 + j) * base > 100 * MaxDuration)
    BY <2>1, NextDelayIs
  <2>4. base \in Int /\ base <= policy.max /\ (base <= 0 => policy.max <= 0)
    BY <2>1, BaseIs
  <2>5. j \in Int /\ j >= 0 /\ MaxDuration \in Int
    BY <2>1, WidthIsNat, Pow2Grows DEF JitterOf, Policy, MaxDuration
  <2> HIDE DEF j, base
  <2>6. (100 + j) * base <= (100 + j) * policy.max
    BY <2>1, <2>4, <2>5, Scaled
  <2>7. (100 + j) * base \in Int /\ (100 + j) * policy.max \in Int
    BY <2>1, <2>4, <2>5
  <2> DEFINE x == (100 + j) * base
             y == (100 + j) * policy.max
  <2>8. x > 100 * MaxDuration => y > 100 * MaxDuration
    <3> HIDE DEF x, y
    <3>1. x <= y /\ x \in Int /\ y \in Int
      BY <2>6, <2>7 DEF x, y
    <3> QED BY <2>5, <3>1
  <2> QED BY <2>2, <2>3, <2>4, <2>8
<1> QED BY <1>1, ScheduleInvariance, PTL

\* The deadlines of NextDelay double up to the maximum for as long as doubling
\* fits a Duration, within what jitter adds or takes, and no overflow makes one
\* longer than the jittered maximum or negative.
THEOREM EveryBackoffDoubles == ScheduleSpec => []BackoffDoubles
<1>1. ScheduleInv => BackoffDoubles
  <2> DEFINE j == JitterOf(policy)
             exact == policy.initial * Pow2[attempt - 1]
             due == IF exact > policy.max THEN policy.max ELSE exact
             jittered == (100 + j) * policy.max
             base == Base(policy, attempt - 1)
  <2> SUFFICES ASSUME ScheduleInv, sphase = "read", j <= 100, jittered \in 1..(100 * MaxDuration)
               PROVE  /\ delay > 0 /\ 100 * delay <= jittered
                      /\ exact \in 1..MaxDuration =>
                            100 * (delay + 1) > (100 - j) * due /\ 100 * delay <= (100 + j) * due
    BY DEF BackoffDoubles
  <2>1. /\ attempt - 1 \in Nat /\ policy \in Policy /\ policy.max \in Int
        /\ delay > 0 /\ delay \in NextDelay(policy, attempt - 1) /\ delay \in Int
    BY DEF ScheduleInv, ScheduleTypeOK, AttemptsOK, Policy
  <2>2. j \in Int /\ j >= 0 /\ MaxDuration \in Int
    BY <2>1, WidthIsNat, Pow2Grows DEF JitterOf, Policy, MaxDuration
  <2>3. base \in Int /\ base <= policy.max /\ (base <= 0 => policy.max <= 0)
        /\ (exact \in 1..MaxDuration => base = due)
    BY <2>1, BaseIs
  <2>4. base > 0 /\ j <= 100 /\ (100 + j) * base <= 100 * MaxDuration =>
           100 * delay <= (100 + j) * base /\ 100 * (delay + 1) > (100 - j) * base
    BY <2>1, NextDelayIs
  <2> HIDE DEF j, base, exact, due
  <2>5. policy.max > 0
    <3> SUFFICES ASSUME policy.max <= 0 PROVE FALSE
      BY <2>1
    <3>1. (100 + j) * policy.max <= 0
      BY <2>1, <2>2
    <3> QED BY <3>1
  <2>6. base > 0
    <3> HIDE DEF jittered
    <3> QED BY <2>1, <2>3, <2>5
  <2>7. (100 + j) * base <= (100 + j) * policy.max
    BY <2>1, <2>2, <2>3, Scaled
  <2> DEFINE b == (100 + j) * base
  <2>8. b \in Int /\ b <= jittered /\ jittered \in Int /\ jittered <= 100 * MaxDuration
    BY <2>2, <2>3, <2>7
  <2> HIDE DEF b, jittered
  <2>9. b <= 100 * MaxDuration
    BY <2>2, <2>8
  <2>10. 100 * delay <= b /\ 100 * (delay + 1) > (100 - j) * base
    BY <2>4, <2>6, <2>9 DEF b
  <2>11. 100 * delay <= jittered
    BY <2>1, <2>8, <2>10
  <2> QED BY <2>1, <2>3, <2>10, <2>11 DEF b
<1> QED BY <1>1, ScheduleInvariance, PTL

-----------------------------------------------------------------------------
(*****************************************************************************)
(* Layers of an attribute (crypto/tunnel.go, vendors/vendors.go)             *)
(*****************************************************************************)

\* An integer of TunnelInteger, as its sender wraps it.
IntegerMade ==
    \E tag \in Tags, high \in FirstOctets :
        /\ made = Made("integer", tag, Octs(<<high>>, 3))
        /\ attr = Wrapped(TunnelType, Tagged(tag, Octs(<<high>>, 3)))

\* An encrypted tunnel password.
PasswordMade ==
    \E tag \in Tags, salt \in SaltOctets, blocks \in 1..15 :
        /\ made = Made("password", tag, Octs(<<salt>>, 1 + 16 * blocks))
        /\ attr = Wrapped(TunnelPassword, Tagged(tag, Octs(<<salt>>, 1 + 16 * blocks)))

\* A vendor value, cut or not.
Cut(size) == IF size > 253 THEN 253 ELSE size

VendorMade ==
    \E size \in VendorSizes :
        /\ made = Made("vendor", 1, Octs(<<>>, size))
        /\ attr = Wrapped(VendorSpecific,
                     Octs(<<0, 0, 0, 9, 1, (2 + Cut(size)) % 256>>, Cut(size)))

MadeOK == IntegerMade \/ PasswordMade \/ VendorMade \/ made.what = "foreign"

\* What has been read of an attribute that fits.
LayerReadOK ==
    /\ made.what = "integer" =>
          LET u == Untagged(attr.value) IN back = IF Size(u.value) = 4 THEN u ELSE Nothing
    /\ made.what = "password" => back = Untagged(attr.value)
    /\ made.what = "vendor" => back = DecodedVSA(attr.value)

LayerInv ==
    /\ lphase \in {"idle", "made", "marshalled", "refused", "decoded"}
    /\ lphase # "idle" => MadeOK
    /\ lphase = "refused" => Size(attr.value) > 253
    /\ lphase \in {"marshalled", "decoded"} => ~(Size(attr.value) > 253)
    /\ lphase = "decoded" => LayerReadOK

\* What is sent stays what it was, while it is marshalled and read.
THEOREM LayerInvariance == LayerSpec => []LayerInv
<1>1. LayerInit => LayerInv
  BY DEF LayerInit, LayerInv
<1>2. LayerInv /\ [LayerNext]_layerVars => LayerInv'
  <2> SUFFICES ASSUME LayerInv, [LayerNext]_layerVars PROVE LayerInv'
    OBVIOUS
  <2>1. ASSUME MakeTunnelInteger PROVE LayerInv'
    <3>1. MadeOK' /\ lphase' = "made"
      BY <2>1 DEF MakeTunnelInteger, Make, MadeOK, IntegerMade
    <3> QED BY <3>1 DEF LayerInv
  <2>2. ASSUME MakeTunnelPassword PROVE LayerInv'
    <3>1. MadeOK' /\ lphase' = "made"
      BY <2>2 DEF MakeTunnelPassword, Make, MadeOK, PasswordMade
    <3> QED BY <3>1 DEF LayerInv
  <2>3. ASSUME MakeVSA PROVE LayerInv'
    <3>1. MadeOK' /\ lphase' = "made"
      BY <2>3 DEF MakeVSA, Make, MadeOK, VendorMade, Cut
    <3> QED BY <3>1 DEF LayerInv
  <2>4. ASSUME MakeForeign PROVE LayerInv'
    <3>1. made'.what = "foreign" /\ lphase' = "made"
      BY <2>4 DEF MakeForeign, Make, Made
    <3> QED BY <3>1 DEF LayerInv, MadeOK
  <2>5. ASSUME MarshalAttribute PROVE LayerInv'
    <3>1. UNCHANGED <<made, attr, back>> /\ lphase = "made"
      BY <2>5 DEF MarshalAttribute
    <3>2. MadeOK'
      <4>1. MadeOK
        BY <3>1 DEF LayerInv
      <4> QED BY <3>1, <4>1 DEF MadeOK, IntegerMade, PasswordMade, VendorMade
    <3>3. lphase' = IF Size(attr'.value) > 253 THEN "refused" ELSE "marshalled"
      BY <2>5, <3>1 DEF MarshalAttribute
    <3> QED BY <3>2, <3>3 DEF LayerInv, Size
  <2>6. ASSUME DecodeTunnelInteger \/ DecodeTunnelPassword \/ DecodeVSA PROVE LayerInv'
    <3>1. UNCHANGED <<made, attr>> /\ lphase = "marshalled" /\ lphase' = "decoded"
      BY <2>6 DEF DecodeTunnelInteger, DecodeTunnelPassword, DecodeVSA, Yields
    <3>2. MadeOK'
      <4>1. MadeOK
        BY <3>1 DEF LayerInv
      <4> QED BY <3>1, <4>1 DEF MadeOK, IntegerMade, PasswordMade, VendorMade
    <3>3. ~(Size(attr.value) > 253)'
      BY <3>1 DEF LayerInv, Size
    <3>4. LayerReadOK'
      BY <2>6, <3>1 DEF DecodeTunnelInteger, DecodeTunnelPassword, DecodeVSA, Yields, LayerReadOK
    <3> QED BY <3>1, <3>2, <3>3, <3>4 DEF LayerInv
  <2>7. ASSUME UNCHANGED layerVars PROVE LayerInv'
    BY <2>7 DEF layerVars, LayerInv, MadeOK, IntegerMade, PasswordMade, VendorMade, LayerReadOK, Size
  <2> QED BY <2>1, <2>2, <2>3, <2>4, <2>5, <2>6, <2>7 DEF LayerNext
<1> QED BY <1>1, <1>2, PTL DEF LayerSpec

\* The parts of a slice of two and of six.
LEMMA TailOfPair ==
    ASSUME NEW a, NEW b
    PROVE  SubSeq(<<a, b>>, 2, 2) = <<b>> /\ <<a>> \o <<b>> = <<a, b>> /\ Len(<<a, b>>) = 2
<1>1. <<a, b>> \in Seq({a, b}) /\ Len(<<a, b>>) = 2
  OBVIOUS
<1>2. SubSeq(<<a, b>>, 2, 2) = <<b>>
  <2> DEFINE s == <<a, b>>
             t == SubSeq(s, 2, 2)
  <2>1. t \in Seq({a, b}) /\ Len(t) = 1 /\ t[1] = s[2]
    BY <1>1, SubSeqProperties
  <2>2. t = <<s[2]>>
    <3> HIDE DEF t
    <3> QED BY <2>1
  <2> QED BY <2>2
<1>3. <<a>> \o <<b>> = <<a, b>>
  <2> DEFINE p == <<a>>
             q == <<b>>
             t == p \o q
  <2>1. p \in Seq({a, b}) /\ q \in Seq({a, b}) /\ Len(p) = 1 /\ Len(q) = 1 /\ p[1] = a /\ q[1] = b
    OBVIOUS
  <2> HIDE DEF p, q
  <2>2. /\ t \in Seq({a, b}) /\ Len(t) = Len(p) + Len(q)
        /\ \A i \in 1..Len(p) + Len(q) : t[i] = IF i <= Len(p) THEN p[i] ELSE q[i - Len(p)]
    <3> DEFINE E == {a, b}
    <3> HIDE DEF E
    <3>1. p \in Seq(E) /\ q \in Seq(E)
      BY <2>1 DEF E
    <3> QED BY ONLY <3>1, ConcatProperties DEF E
  <2> HIDE DEF t
  <2>3. t = <<a, b>>
    BY <2>1, <2>2
  <2> QED BY <2>3 DEF t, p, q
<1> QED BY <1>1, <1>2, <1>3

\* The tag that was put in front comes off.  Without one, the first octet is
\* taken for a tag if it could be one.
LEMMA TagComesOff ==
    ASSUME NEW tag, NEW x, NEW more \in Nat
    PROVE  LET v == Octs(<<x>>, more)
               u == Untagged(Tagged(tag, v))
           IN  /\ Size(v) = more + 1
               /\ Size(Tagged(tag, v)) <= more + 2
               /\ IsTag(tag) => u = Back(tag, v)
               /\ ~IsTag(tag) /\ ~IsTag(x) => u = Back(0, v)
               /\ ~IsTag(tag) /\ IsTag(x) => Size(u.value) = more
<1> DEFINE v == Octs(<<x>>, more)
           u == Untagged(Tagged(tag, v))
<1>1. Size(v) = more + 1 /\ v.octets = <<x>> /\ v.more = more
  BY DEF Octs, Size
<1>2. CASE IsTag(tag)
  <2> DEFINE w == Octs(<<tag, x>>, more)
  <2>1. Tagged(tag, v) = w
    BY <1>2, TailOfPair DEF Tagged, Octs
  <2>2. Size(w) = more + 2 /\ w.octets = <<tag, x>> /\ w.more = more /\ Size(w) > 0
    BY TailOfPair DEF Octs, Size
  <2>3. DropFirst(w, 1) = Octs(SubSeq(<<tag, x>>, 2, 2), more)
    <3>1. DropFirst(w, 1) = Octs(SubSeq(w.octets, 1 + 1, Len(w.octets)), w.more)
      BY DEF DropFirst
    <3>2. 1 + 1 = 2 /\ Len(w.octets) = 2
      BY <2>2, TailOfPair
    <3> HIDE DEF w
    <3> QED BY <2>2, <3>1, <3>2
  <2>4. DropFirst(w, 1) = v
    BY <2>3, TailOfPair
  <2>5. Untagged(w) = Back(tag, v)
    <3>1. w.octets[1] = tag
      BY <2>2
    <3> HIDE DEF v, w
    <3> QED BY <1>2, <2>2, <2>4, <3>1 DEF Untagged
  <2> HIDE DEF w
  <2>6. Size(Tagged(tag, v)) <= more + 2
    <3> HIDE DEF v
    <3> QED BY <2>1, <2>2
  <2> QED BY <1>1, <1>2, <2>1, <2>5, <2>6
<1>3. CASE ~IsTag(tag)
  <2>1. Tagged(tag, v) = v
    BY <1>3 DEF Tagged
  <2>2. v.octets[1] = x /\ Size(v) > 0
    BY <1>1
  <2>3. Untagged(v) = IF IsTag(x) THEN Back(x, DropFirst(v, 1)) ELSE Back(0, v)
    <3> HIDE DEF v
    <3> QED BY <2>2 DEF Untagged
  <2>4. Size(DropFirst(v, 1)) = more
    <3>1. SubSeq(<<x>>, 2, 1) = <<>>
      OBVIOUS
    <3>2. DropFirst(v, 1) = Octs(<<>>, more)
      <4>1. DropFirst(v, 1) = Octs(SubSeq(v.octets, 1 + 1, Len(v.octets)), v.more)
        BY DEF DropFirst
      <4>2. 1 + 1 = 2 /\ Len(v.octets) = 1
        BY <1>1
      <4> HIDE DEF v
      <4> QED BY <1>1, <3>1, <4>1, <4>2
    <3> QED BY <3>2 DEF Octs, Size
  <2>5. \A d : Back(x, d).value = d
    BY DEF Back
  <2> HIDE DEF v
  <2> QED BY <1>1, <1>3, <2>1, <2>3, <2>4, <2>5 DEF v
<1> QED BY <1>2, <1>3

\* The vendor header of a value that was not cut comes off.
LEMMA HeaderComesOff ==
    ASSUME NEW n \in 0..247
    PROVE  DecodedVSA(Octs(<<0, 0, 0, 9, 1, 2 + n>>, n)) = Back(1, Octs(<<>>, n))
<1> DEFINE s == <<0, 0, 0, 9, 1, 2 + n>>
           t == SubSeq(s, 5, 6)
           v == Octs(s, n)
<1>1. s \in Seq(Nat) /\ Len(s) = 6 /\ s[5] = 1 /\ s[6] = 2 + n
  OBVIOUS
<1>2. t \in Seq(Nat) /\ Len(t) = 2 /\ t[1] = s[5] /\ t[2] = s[6]
  <2> HIDE DEF s
  <2>1. 5 \in 1..Len(s) + 1 /\ 6 \in 5 - 1..Len(s)
    BY <1>1
  <2> QED BY <1>1, <2>1, SubSeqProperties
<1> HIDE DEF t
<1>3. DropFirst(v, 4) = Octs(t, n) /\ Size(v) = 6 + n
  BY <1>1 DEF DropFirst, Octs, Size, t
<1>4. Octs(t, n).octets = t /\ Size(Octs(t, n)) = 2 + n
  BY <1>2 DEF Octs, Size
<1> HIDE DEF s, v
<1>5. t[1] = 1 /\ t[2] = 2 + n /\ (2 + n) - 2 = n
  BY <1>1, <1>2
<1>6. DecodedVSA(v) = Back(t[1], Octs(<<>>, t[2] - 2))
  <2> DEFINE p == Octs(t, n)
  <2>1. DropFirst(v, 4) = p /\ p.octets = t /\ Size(p) = 2 + n /\ Size(v) = 6 + n
    BY <1>3, <1>4
  <2>2. ~(Size(v) < 5 \/ Size(p) < 2) /\ ~(t[2] < 2 \/ Size(p) - 2 < t[2] - 2)
    <3> HIDE DEF p
    <3> QED BY <1>5, <2>1
  <2> HIDE DEF p
  <2> QED BY <2>1, <2>2 DEF DecodedVSA
<1> QED BY <1>5, <1>6 DEF v, s

\* What the receiver of a tunnel attribute or a vendor value unwraps is what
\* the sender wrapped; what could be misread is refused (crypto/tunnel.go,
\* vendors/vendors.go), for every set of tags, octets and sizes.
THEOREM EveryLayerComesOff == LayerSpec => []UnwrapsWhatWasWrapped
<1>1. LayerInv => UnwrapsWhatWasWrapped
  <2> SUFFICES ASSUME LayerInv PROVE UnwrapsWhatWasWrapped
    OBVIOUS
  <2>1. ASSUME IntegerMade, lphase # "idle" PROVE UnwrapsWhatWasWrapped
    <3>1. PICK tag \in Tags, high \in FirstOctets :
             /\ made = Made("integer", tag, Octs(<<high>>, 3))
             /\ attr = Wrapped(TunnelType, Tagged(tag, Octs(<<high>>, 3)))
      BY <2>1 DEF IntegerMade
    <3> DEFINE v == Octs(<<high>>, 3)
               u == Untagged(Tagged(tag, v))
    <3>2. made.what = "integer" /\ made.tag = tag /\ made.value = v /\ attr.value = Tagged(tag, v)
      BY <3>1 DEF Made, Wrapped
    <3>3. /\ Size(v) = 4 /\ Size(Tagged(tag, v)) <= 5
          /\ IsTag(tag) => u = Back(tag, v)
          /\ ~IsTag(tag) /\ ~IsTag(high) => u = Back(0, v)
          /\ ~IsTag(tag) /\ IsTag(high) => Size(u.value) = 3
      BY TagComesOff
    <3>4. v.octets[1] = high
      BY DEF Octs
    <3>5. lphase # "refused"
      BY <3>2, <3>3 DEF LayerInv, Size, Tagged, Octs
    <3> HIDE DEF v, u
    <3>6. ASSUME lphase = "decoded"
          PROVE  IF back.ok THEN TagIsKept /\ back.value = made.value
                 ELSE ~IsTag(made.tag) /\ IsTag(made.value.octets[1])
      <4>1. back = IF Size(u.value) = 4 THEN u ELSE Nothing
        BY <3>2, <3>6 DEF LayerInv, LayerReadOK, u
      <4>2. CASE ~IsTag(tag) /\ IsTag(high)
        BY <3>2, <3>3, <3>4, <4>1, <4>2 DEF Nothing
      <4>3. CASE IsTag(tag)
        <5>1. u = Back(tag, v) /\ u.value = v /\ u.tag = tag /\ u.ok
          BY <3>3, <4>3 DEF Back
        <5> QED BY <3>2, <3>3, <4>1, <4>3, <5>1 DEF TagIsKept
      <4>4. CASE ~IsTag(tag) /\ ~IsTag(high)
        <5>1. u.value = v /\ u.tag = 0 /\ u.ok
          BY <3>3, <4>4 DEF Back
        <5> QED BY <3>2, <3>3, <4>1, <4>4, <5>1 DEF TagIsKept
      <4> QED BY <4>2, <4>3, <4>4
    <3> QED BY <3>2, <3>5, <3>6 DEF UnwrapsWhatWasWrapped, Sent
  <2>2. ASSUME PasswordMade, lphase # "idle" PROVE UnwrapsWhatWasWrapped
    <3>1. PICK tag \in Tags, salt \in SaltOctets, blocks \in 1..15 :
             /\ made = Made("password", tag, Octs(<<salt>>, 1 + 16 * blocks))
             /\ attr = Wrapped(TunnelPassword, Tagged(tag, Octs(<<salt>>, 1 + 16 * blocks)))
      BY <2>2 DEF PasswordMade
    <3> DEFINE more == 1 + 16 * blocks
               v == Octs(<<salt>>, more)
               u == Untagged(Tagged(tag, v))
    <3>2. made.what = "password" /\ made.tag = tag /\ made.value = v /\ attr.value = Tagged(tag, v)
      BY <3>1 DEF Made, Wrapped
    <3>3. more \in Nat /\ more <= 241
      OBVIOUS
    <3>4. ~IsTag(salt)
      BY SaltMSBIsSet DEF IsTag
    <3> HIDE DEF more
    <3>5. Size(Tagged(tag, v)) <= more + 2 /\ u = Back(IF IsTag(tag) THEN tag ELSE 0, v)
      BY <3>3, <3>4, TagComesOff
    <3>6. lphase # "refused"
      <4>1. Size(Tagged(tag, v)) \in Nat
        BY <3>3, TailOfPair DEF Size, Tagged, Octs
      <4> HIDE DEF v
      <4> QED BY <3>2, <3>3, <3>5, <4>1 DEF LayerInv
    <3> HIDE DEF v
    <3>7. ASSUME lphase = "decoded" PROVE TagIsKept /\ back.value = made.value
      BY <3>2, <3>5, <3>7 DEF LayerInv, LayerReadOK, Back, TagIsKept
    <3> QED BY <3>2, <3>6, <3>7 DEF UnwrapsWhatWasWrapped, Sent
  <2>3. ASSUME VendorMade, lphase # "idle" PROVE UnwrapsWhatWasWrapped
    <3>1. PICK size \in VendorSizes :
             /\ made = Made("vendor", 1, Octs(<<>>, size))
             /\ attr = Wrapped(VendorSpecific,
                          Octs(<<0, 0, 0, 9, 1, (2 + Cut(size)) % 256>>, Cut(size)))
      BY <2>3 DEF VendorMade
    <3>2. made.what = "vendor" /\ made.value = Octs(<<>>, size)
      BY <3>1 DEF Made
    <3>3. size \in Nat /\ Cut(size) \in Nat
      BY VendorSizesAreNat DEF Cut
    <3>4. ASSUME lphase = "decoded" PROVE back.ok /\ back.value = made.value
      <4>1. attr.value = Octs(<<0, 0, 0, 9, 1, (2 + Cut(size)) % 256>>, Cut(size))
        BY <3>1 DEF Wrapped
      <4>2. Size(attr.value) = 6 + Cut(size)
        BY <4>1 DEF Size, Octs
      <4>3. Cut(size) <= 247
        BY <3>3, <3>4, <4>2 DEF LayerInv
      <4>4. Cut(size) = size /\ size \in 0..247
        BY <3>3, <4>3 DEF Cut
      <4>5. (2 + size) % 256 = 2 + size
        BY <4>4
      <4>6. attr.value = Octs(<<0, 0, 0, 9, 1, 2 + size>>, size)
        BY <4>1, <4>4, <4>5
      <4>7. back = DecodedVSA(attr.value)
        BY <3>2, <3>4 DEF LayerInv, LayerReadOK
      <4>8. back = Back(1, Octs(<<>>, size))
        BY <4>4, <4>6, <4>7, HeaderComesOff
      <4> QED BY <3>2, <4>8 DEF Back
    <3> QED BY <3>2, <3>4 DEF UnwrapsWhatWasWrapped, Sent
  <2>4. ASSUME made.what = "foreign" PROVE UnwrapsWhatWasWrapped
    BY <2>4 DEF UnwrapsWhatWasWrapped, Sent
  <2>5. ASSUME lphase = "idle" PROVE UnwrapsWhatWasWrapped
    BY <2>5 DEF UnwrapsWhatWasWrapped, Sent
  <2> QED BY <2>1, <2>2, <2>3, <2>4, <2>5 DEF LayerInv, MadeOK
<1> QED BY <1>1, LayerInvariance, PTL

-----------------------------------------------------------------------------
(*****************************************************************************)
(* Extended attributes (packet/extended.go)                                  *)
(*****************************************************************************)

Given1 == [type : ExtTypes, ext : ExtendedTypes, size : Sizes]
Piece == [of : Nat, from : Nat, to : Nat]
Pieces == Seq(Piece)
WireFragment == [type : 241..244, ext : ExtendedTypes, length : Nat, more : BOOLEAN, piece : Piece]
ReadAttr == [type : 241..244, ext : ExtendedTypes, pieces : Pieces]

\* The attribute that the k-th fragment of w is of, and whether it goes on
\* after that fragment.
OfAt(w, k) == IF k = 0 THEN 0 ELSE w[k].piece.of
MoreAt(w, k) == k # 0 /\ w[k].more

\* No attribute was marshalled between two places of the list.
Gap(a, b) == \A m \in Marshalled : m <= a \/ m >= b

\* A fragment is an interval of its attribute's Value, and says whether the
\* Value goes on.
FragmentOK(f) ==
    LET m == f.piece.of
    IN  /\ m \in Marshalled /\ f.type = given[m].type /\ f.ext = given[m].ext
        /\ f.piece.from <= f.piece.to /\ f.piece.to <= given[m].size
        /\ f.more <=> f.piece.to < given[m].size
        /\ f.length = (Header(f.type) + f.piece.to - f.piece.from) % 256
        /\ f.piece.to - f.piece.from <= MaxValue(f.type)
        /\ ~IsLong(f.type) => f.piece.from = 0 /\ ~f.more

\* f may follow the k-th fragment of w: it continues its attribute, or begins
\* the next.
Follows(w, k, f) ==
    IF MoreAt(w, k)
    THEN f.piece.of = OfAt(w, k) /\ f.piece.from = w[k].piece.to
    ELSE f.piece.from = 0 /\ OfAt(w, k) < f.piece.of /\ Gap(OfAt(w, k), f.piece.of)

WireOK(w) ==
    /\ w \in Seq(WireFragment)
    /\ \A k \in 1..Len(w) : FragmentOK(w[k]) /\ Follows(w, k - 1, w[k])

\* The writer is at the attribute after the last one written, or inside it.
WriterOK ==
    /\ at \in 1..Len(given)
    /\ IF MoreAt(wire, Len(wire))
       THEN OfAt(wire, Len(wire)) = at /\ off = wire[Len(wire)].piece.to
       ELSE off = 0 /\ OfAt(wire, Len(wire)) < at /\ Gap(OfAt(wire, Len(wire)), at)

Written ==
    ~MoreAt(wire, Len(wire)) /\ \A m \in Marshalled : m <= OfAt(wire, Len(wire))

\* The pieces of v are the m-th attribute's Value up to end.
ValueOK(v, m, end) ==
    /\ v \in Pieces /\ v # <<>>
    /\ \A i \in 1..Len(v) : v[i].of = m
    /\ v[1].from = 0 /\ v[Len(v)].to = end
    /\ \A i \in 2..Len(v) : v[i].from = v[i - 1].to

LastOrigin == IF read = <<>> THEN 0 ELSE Origin(read[Len(read)])

\* The reader has read what came before the fragment it is at, and keeps the
\* pieces of an attribute that goes on there.
ReaderOK ==
    /\ pos \in 1..(Len(wire) + 1)
    /\ IF MoreAt(wire, pos - 1)
       THEN /\ ValueOK(value, OfAt(wire, pos - 1), wire[pos - 1].piece.to)
            /\ LastOrigin < OfAt(wire, pos - 1) /\ Gap(LastOrigin, OfAt(wire, pos - 1))
       ELSE value = <<>> /\ LastOrigin = OfAt(wire, pos - 1)

\* A short attribute whose Length does not fit its octet.
Overlong(m) == ~IsLong(given[m].type) /\ given[m].size = 253

ReadOK(r, i) ==
    /\ Origin(r[i]) \in Marshalled /\ IsWhole(r[i], Origin(r[i])) /\ ~Overlong(Origin(r[i]))
    /\ \A j \in 1..(i - 1) : Origin(r[j]) < Origin(r[i])
    /\ \A m \in Marshalled : m <= Origin(r[i]) => \E j \in 1..i : Origin(r[j]) = m

ReadsOK == read \in Seq(ReadAttr) /\ \A i \in 1..Len(read) : ReadOK(read, i)

Ended ==
    IF \E m \in Marshalled : ~IsLong(given[m].type) /\ given[m].size = 253
    THEN xerr # "none"
    ELSE xerr = "none" /\ \A m \in Marshalled : \E i \in DOMAIN read : Origin(read[i]) = m

ExtInv ==
    /\ xphase \in {"idle", "write", "read", "done"}
    /\ given \in Seq(Given1) /\ WireOK(wire) /\ ReaderOK /\ ReadsOK
    /\ xphase = "idle" => at = 1 /\ off = 0 /\ wire = <<>>
    /\ xphase \in {"idle", "write"} => pos = 1 /\ value = <<>> /\ read = <<>>
    /\ xphase = "write" => WriterOK
    /\ xphase \in {"read", "done"} => Written
    /\ xphase = "done" => Ended

-----------------------------------------------------------------------------
\* What was marshalled has an extended type and a size.
LEMMA MarshalledIs ==
    ASSUME given \in Seq(Given1), NEW m \in Marshalled
    PROVE  /\ m \in 1..Len(given) /\ m \in Nat /\ m > 0 /\ Len(given) \in Nat
           /\ given[m].type \in 241..244 /\ given[m].ext \in ExtendedTypes /\ given[m].size \in Nat
<1>1. Len(given) \in Nat /\ DOMAIN given = 1..Len(given)
  OBVIOUS
<1>2. m \in 1..Len(given) /\ ~Refused(given[m])
  BY <1>1 DEF Marshalled
<1>3. given[m] \in Given1
  BY <1>2
<1>4. given[m].ext \in ExtendedTypes /\ given[m].size \in Nat
  BY <1>3, SizesAreNat DEF Given1
<1>5. given[m].type \in 241..244
  BY <1>2 DEF Refused, IsExtended
<1>6. m \in Nat /\ m > 0
  BY <1>1, <1>2
<1> QED BY <1>1, <1>2, <1>4, <1>5, <1>6

\* A fragment that may follow is one more of the fragments written.
LEMMA WireGrows ==
    ASSUME WireOK(wire), NEW f \in WireFragment, FragmentOK(f), Follows(wire, Len(wire), f)
    PROVE  LET w == Append(wire, f)
           IN  /\ WireOK(w) /\ Len(w) = Len(wire) + 1 /\ w[Len(w)] = f
               /\ OfAt(w, Len(w)) = f.piece.of /\ (MoreAt(w, Len(w)) <=> f.more)
<1> DEFINE w == Append(wire, f)
           n == Len(wire)
<1>1. wire \in Seq(WireFragment) /\ n \in Nat
  BY DEF WireOK
<1>2. w \in Seq(WireFragment) /\ Len(w) = n + 1
  BY <1>1
<1>3. w[n + 1] = f /\ \A k \in 1..n : w[k] = wire[k]
  BY <1>1
<1> HIDE DEF w
<1>4. OfAt(w, 0) = OfAt(wire, 0) /\ (MoreAt(w, 0) <=> MoreAt(wire, 0))
  BY DEF OfAt, MoreAt
<1>5. ASSUME NEW k \in 0..n, NEW g PROVE Follows(w, k, g) <=> Follows(wire, k, g)
  <2>1. k = 0 \/ w[k] = wire[k]
    BY <1>3
  <2> QED BY <2>1 DEF Follows, OfAt, MoreAt
<1>6. ASSUME NEW k \in 1..Len(w) PROVE FragmentOK(w[k]) /\ Follows(w, k - 1, w[k])
  <2>1. k - 1 \in 0..n
    BY <1>1, <1>2
  <2>2. CASE k = n + 1
    <3>1. k - 1 = n
      BY <1>1, <2>2
    <3> QED BY <1>3, <1>5, <2>1, <2>2, <3>1
  <2>3. CASE k # n + 1
    <3>1. k \in 1..n
      BY <1>1, <1>2, <2>3
    <3> QED BY <1>3, <1>5, <2>1, <3>1 DEF WireOK
  <2> QED BY <2>2, <2>3
<1>7. WireOK(w)
  BY <1>2, <1>6 DEF WireOK
<1>8. n + 1 # 0
  BY <1>1
<1>9. OfAt(w, Len(w)) = f.piece.of /\ (MoreAt(w, Len(w)) <=> f.more) /\ w[Len(w)] = f
  BY <1>2, <1>3, <1>8 DEF OfAt, MoreAt
<1> QED BY <1>2, <1>7, <1>9 DEF w

\* The last fragment written belongs to a place of the list.
LEMMA OfAtIs ==
    ASSUME WireOK(wire), given \in Seq(Given1), NEW k \in 0..Len(wire)
    PROVE  /\ OfAt(wire, k) \in Nat
           /\ k # 0 => /\ wire[k] \in WireFragment /\ wire[k].piece \in Piece
                       /\ FragmentOK(wire[k]) /\ OfAt(wire, k) = wire[k].piece.of
<1>1. wire \in Seq(WireFragment)
  BY DEF WireOK
<1>2. k # 0 => k \in 1..Len(wire)
  OBVIOUS
<1>3. k # 0 => wire[k] \in WireFragment /\ FragmentOK(wire[k])
  BY <1>1, <1>2 DEF WireOK
<1>4. k # 0 => wire[k].piece \in Piece
  BY <1>3 DEF WireFragment
<1>5. k # 0 => wire[k].piece.of \in Nat
  BY <1>4 DEF Piece
<1> QED BY <1>3, <1>4, <1>5 DEF OfAt

\* Nothing of the reader's depends on the fragments from pos on.
LEMMA ReaderUntouched ==
    ASSUME ExtInv, xphase \in {"idle", "write"}, UNCHANGED <<pos, value, read>>,
           NEW n \in Nat, Len(wire') = n
    PROVE  ReaderOK' /\ ReadsOK'
<1>1. pos' = 1 /\ value' = <<>> /\ read' = <<>>
  BY DEF ExtInv
<1>2. LastOrigin' = 0
  BY <1>1 DEF LastOrigin
<1>3. ~MoreAt(wire', pos' - 1) /\ OfAt(wire', pos' - 1) = 0
  BY <1>1 DEF MoreAt, OfAt
<1>4. pos' \in 1..(Len(wire') + 1)
  BY <1>1
<1>5. ReaderOK'
  BY <1>1, <1>2, <1>3, <1>4 DEF ReaderOK
<1>6. ReadsOK'
  <2>1. read' \in Seq(ReadAttr) /\ Len(read') = 0
    BY <1>1
  <2> QED BY <2>1 DEF ReadsOK
<1> QED BY <1>5, <1>6

\* What is said of the list stays true while the list does.
LEMMA SameList ==
    ASSUME given' = given
    PROVE  /\ Marshalled' = Marshalled
           /\ \A a, b : Gap(a, b)' <=> Gap(a, b)
           /\ \A f : FragmentOK(f)' <=> FragmentOK(f)
           /\ \A w, k, f : Follows(w, k, f)' <=> Follows(w, k, f)
           /\ \A w : WireOK(w)' <=> WireOK(w)
           /\ \A r, i : ReadOK(r, i)' <=> ReadOK(r, i)
<1>1. Marshalled' = Marshalled
  BY DEF Marshalled
<1>2. \A a, b : Gap(a, b)' <=> Gap(a, b)
  BY <1>1 DEF Gap
<1>3. \A f : FragmentOK(f)' <=> FragmentOK(f)
  BY <1>1 DEF FragmentOK
<1>4. \A w, k, f : Follows(w, k, f)' <=> Follows(w, k, f)
  BY <1>2 DEF Follows
<1>5. \A w : WireOK(w)' <=> WireOK(w)
  BY <1>3, <1>4 DEF WireOK
<1>6. \A r, i : ReadOK(r, i)' <=> ReadOK(r, i)
  BY <1>1 DEF ReadOK, IsWhole, Overlong
<1> QED BY <1>1, <1>2, <1>3, <1>4, <1>5, <1>6

\* Nothing is marshalled of no list.
LEMMA ExtInitially == ExtInit => ExtInv
<1> SUFFICES ASSUME ExtInit PROVE ExtInv
  OBVIOUS
<1>1. /\ xphase = "idle" /\ at = 1 /\ off = 0 /\ pos = 1
      /\ given = <<>> /\ wire = <<>> /\ value = <<>> /\ read = <<>>
  BY DEF ExtInit
<1>2. given \in Seq(Given1) /\ WireOK(wire) /\ ReadsOK
  BY <1>1 DEF WireOK, ReadsOK
<1>3. Len(wire) = 0
  BY <1>1
<1>4. ReaderOK
  BY <1>1, <1>3 DEF ReaderOK, MoreAt, OfAt, LastOrigin
<1> QED BY <1>1, <1>2, <1>4 DEF ExtInv

\* The list that the caller begins with has no fragments yet.
LEMMA StartKeepsInv == ASSUME ExtInv, ExtStart PROVE ExtInv'
<1>1. /\ xphase' = "write" /\ UNCHANGED <<at, off, wire, pos, value, read, xerr>>
      /\ at = 1 /\ off = 0 /\ wire = <<>> /\ pos = 1 /\ value = <<>> /\ read = <<>> /\ xphase = "idle"
  BY DEF ExtStart, ExtInv
<1>2. PICK n \in 1..MaxGiven : given' \in [1..n -> Given1]
  BY DEF ExtStart, Given1
<1>3. n \in Nat /\ 1 \in 1..n
  BY MaxGivenIsNat
<1>4. given' \in Seq(Given1)
  BY <1>2, <1>3, SeqDef
<1>5. Len(given') = n
  BY <1>2, <1>3, <1>4
<1>6. WireOK(wire)' /\ Len(wire') = 0
  BY <1>1 DEF WireOK
<1>7. ReaderOK' /\ ReadsOK'
  BY <1>1, <1>6, ReaderUntouched
<1>8. WriterOK'
  <2>1. \A m \in Marshalled' : m >= 1
    <3>1. Marshalled' \subseteq 1..n
      BY <1>2 DEF Marshalled
    <3> QED BY <1>3, <3>1
  <2>2. Gap(0, 1)'
    BY <2>1 DEF Gap
  <2>3. ~MoreAt(wire', Len(wire')) /\ OfAt(wire', Len(wire')) = 0
    BY <1>6 DEF MoreAt, OfAt
  <2>4. at' \in 1..Len(given') /\ off' = 0 /\ at' = 1
    BY <1>1, <1>3, <1>5
  <2> QED BY <2>2, <2>3, <2>4 DEF WriterOK
<1> QED BY <1>1, <1>4, <1>6, <1>7, <1>8 DEF ExtInv

\* The writer leaves an attribute that is written whole, or was refused.
LEMMA AdvanceKeepsInv ==
    ASSUME ExtInv, xphase = "write", Advance, UNCHANGED <<given, pos, value, read, xerr>>,
           WireOK(wire'), ~MoreAt(wire', Len(wire')),
           NEW last \in Nat, OfAt(wire', Len(wire')) = last, last <= at,
           \A m \in Marshalled : m <= last \/ m > at
    PROVE  ExtInv'
<1>1. WriterOK /\ given \in Seq(Given1)
  BY DEF ExtInv
<1>2. at \in 1..Len(given) /\ Len(given) \in Nat /\ at \in Nat
  BY <1>1 DEF WriterOK
<1>3. \A m \in Marshalled : m \in 1..Len(given) /\ m \in Nat
  BY <1>1, MarshalledIs
<1>4. Marshalled' = Marshalled /\ (WireOK(wire') => WireOK(wire)')
      /\ \A a, b : Gap(a, b)' <=> Gap(a, b)
  BY SameList DEF WireOK
<1>5. WireOK(wire)'
  BY <1>4
<1>6. Len(wire') \in Nat
  BY DEF WireOK
<1>7. ReaderOK' /\ ReadsOK'
  BY <1>6, ReaderUntouched
<1>8. pos' = 1 /\ value' = <<>> /\ read' = <<>> /\ given' \in Seq(Given1)
  BY <1>1 DEF ExtInv
<1>9. CASE at = Len(given)
  <2>1. xphase' = "read"
    BY <1>9 DEF Advance
  <2>2. Written'
    <3>1. \A m \in Marshalled : m <= last
      BY <1>2, <1>3, <1>9
    <3> QED BY <1>4, <3>1 DEF Written
  <2> QED BY <1>5, <1>7, <1>8, <2>1, <2>2 DEF ExtInv
<1>10. CASE at # Len(given)
  <2>1. xphase' = "write" /\ at' = at + 1 /\ off' = 0
    BY <1>10 DEF Advance
  <2>2. at' \in 1..Len(given')
    BY <1>2, <1>10, <2>1
  <2>3. last < at' /\ Gap(last, at')
    BY <1>2, <1>3, <2>1 DEF Gap
  <2>4. WriterOK'
    <3>1. Gap(OfAt(wire, Len(wire)), at)'
      BY <2>3, <1>4 DEF Gap
    <3> QED BY <2>1, <2>2, <2>3, <3>1 DEF WriterOK
  <2> QED BY <1>5, <1>7, <1>8, <2>1, <2>4 DEF ExtInv
<1> QED BY <1>9, <1>10

\* Inside an attribute the writer is at one that is marshalled, is long and
\* goes on.
LEMMA InsideIs ==
    ASSUME ExtInv, xphase = "write", MoreAt(wire, Len(wire))
    PROVE  /\ at \in Marshalled /\ IsLong(given[at].type) /\ off = wire[Len(wire)].piece.to
           /\ off \in Nat /\ off < given[at].size /\ OfAt(wire, Len(wire)) = at
<1>1. WriterOK /\ WireOK(wire) /\ given \in Seq(Given1) /\ Len(wire) \in Nat
  BY DEF ExtInv, WireOK
<1> DEFINE n == Len(wire)
           f == wire[n]
<1>2. OfAt(wire, n) = at /\ off = f.piece.to
  BY <1>1 DEF WriterOK
<1>3. n # 0 /\ n \in 0..n
  BY <1>1 DEF MoreAt
<1>4. FragmentOK(f) /\ f.piece \in Piece /\ f.piece.of = at
  BY <1>1, <1>2, <1>3, OfAtIs
<1>5. f.more
  BY DEF MoreAt
<1> HIDE DEF f, n
<1>6. at \in Marshalled /\ f.type = given[at].type /\ f.piece.to < given[at].size /\ IsLong(f.type)
  BY <1>4, <1>5 DEF FragmentOK
<1>7. f.piece.to \in Nat
  BY <1>4 DEF Piece
<1> QED BY <1>2, <1>6, <1>7 DEF f, n

\* The fragment of the interval from..to of the attribute at hand is right.
LEMMA FragmentIsOK ==
    ASSUME given \in Seq(Given1), at \in Marshalled, NEW from \in Nat, NEW to \in Nat, NEW more \in BOOLEAN,
           from <= to, to <= given[at].size, more <=> to < given[at].size,
           to - from <= MaxValue(given[at].type),
           ~IsLong(given[at].type) => from = 0 /\ ~more
    PROVE  LET f == Fragment(given[at], from, to, more)
           IN  /\ f \in WireFragment /\ FragmentOK(f) /\ f.piece.of = at /\ f.piece.from = from
               /\ f.piece.to = to /\ f.more = more
<1> DEFINE e == given[at]
           f == Fragment(e, from, to, more)
           p == [of |-> at, from |-> from, to |-> to]
           l == (Header(e.type) + to - from) % 256
<1>1. f = [type |-> e.type, ext |-> e.ext, length |-> l, more |-> more, piece |-> p]
  BY DEF Fragment
<1>2. e.type \in 241..244 /\ e.ext \in ExtendedTypes /\ at \in Nat
  BY MarshalledIs
<1>3. p \in Piece /\ p.of = at /\ p.from = from /\ p.to = to
  BY <1>2 DEF Piece
<1>4. l \in Nat
  <2>1. Header(e.type) \in Nat
    BY DEF Header
  <2> QED BY <2>1
<1> HIDE DEF e, f, p, l
<1>5. f \in WireFragment
  BY <1>1, <1>2, <1>3, <1>4 DEF WireFragment
<1>6. f.type = e.type /\ f.ext = e.ext /\ f.length = l /\ f.more = more /\ f.piece = p
  BY <1>1
<1>7. FragmentOK(f)
  <2>1. f.piece.of = at /\ given[f.piece.of] = e
    BY <1>3, <1>6 DEF e
  <2>2. f.piece.of \in Marshalled /\ f.type = given[f.piece.of].type /\ f.ext = given[f.piece.of].ext
    BY <1>6, <2>1
  <2>3. f.piece.from <= f.piece.to /\ f.piece.to <= given[f.piece.of].size
    BY <1>3, <1>6, <2>1 DEF e
  <2>4. f.more <=> f.piece.to < given[f.piece.of].size
    BY <1>3, <1>6, <2>1 DEF e
  <2>5. f.length = (Header(f.type) + f.piece.to - f.piece.from) % 256
    BY <1>3, <1>6 DEF l
  <2>6. f.piece.to - f.piece.from <= MaxValue(f.type)
    BY <1>3, <1>6 DEF e
  <2>7. ~IsLong(f.type) => f.piece.from = 0 /\ ~f.more
    BY <1>3, <1>6 DEF e
  <2> QED BY <2>2, <2>3, <2>4, <2>5, <2>6, <2>7 DEF FragmentOK
<1> QED BY <1>3, <1>5, <1>6, <1>7 DEF f, e

\* What is refused is not marshalled and leaves no fragment.
LEMMA RefusedKeepsInv == ASSUME ExtInv, MarshalRefused PROVE ExtInv'
<1>1. xphase = "write" /\ Refused(given[at]) /\ Advance /\ UNCHANGED <<given, wire, pos, value, read, xerr>>
  BY DEF MarshalRefused
<1>2. at \notin Marshalled
  BY <1>1 DEF Marshalled
<1>3. WriterOK /\ WireOK(wire) /\ given \in Seq(Given1) /\ Len(wire) \in Nat
  BY <1>1 DEF ExtInv, WireOK
<1> DEFINE n == Len(wire)
           last == OfAt(wire, n)
<1>4. ~MoreAt(wire, n)
  BY <1>1, <1>2, InsideIs
<1>5. last < at /\ Gap(last, at) /\ at \in Nat
  <2>1. Len(given) \in Nat
    BY <1>3
  <2> QED BY <1>3, <1>4, <2>1 DEF WriterOK
<1>6. last \in Nat
  <2>1. n \in 0..n
    BY <1>3
  <2> QED BY <1>3, <2>1, OfAtIs
<1>7. wire' = wire /\ OfAt(wire', Len(wire')) = last /\ ~MoreAt(wire', Len(wire')) /\ WireOK(wire')
  BY <1>1, <1>3, <1>4
<1> HIDE DEF last
<1>8. last <= at
  BY <1>5, <1>6
<1>9. \A m \in Marshalled : m <= last \/ m > at
  <2> SUFFICES ASSUME NEW m \in Marshalled, ~(m <= last) PROVE m > at
    OBVIOUS
  <2>1. m \in Nat /\ m # at
    BY <1>2, <1>3, MarshalledIs
  <2>2. m >= at
    BY <1>5 DEF Gap
  <2> QED BY <1>5, <2>1, <2>2
<1> QED BY <1>1, <1>6, <1>7, <1>8, <1>9, AdvanceKeepsInv

\* A fragment that ends its attribute: the writer advances.
LEMMA LastFragmentKeepsInv ==
    ASSUME ExtInv, xphase = "write", NEW f \in WireFragment, FragmentOK(f), Follows(wire, Len(wire), f),
           f.piece.of = at, ~f.more, wire' = Append(wire, f), Advance,
           UNCHANGED <<given, pos, value, read, xerr>>
    PROVE  ExtInv'
<1>1. WireOK(wire) /\ given \in Seq(Given1)
  BY DEF ExtInv
<1>2. WireOK(wire') /\ OfAt(wire', Len(wire')) = at /\ ~MoreAt(wire', Len(wire'))
  BY <1>1, WireGrows
<1>3. at \in Marshalled
  BY DEF FragmentOK
<1>4. at \in Nat /\ \A m \in Marshalled : m \in Nat
  BY <1>1, <1>3, MarshalledIs
<1>5. at <= at /\ \A m \in Marshalled : m <= at \/ m > at
  BY <1>4
<1> QED BY <1>2, <1>4, <1>5, AdvanceKeepsInv

\* A short attribute or an empty one is one fragment.
LEMMA MarshalKeepsInv == ASSUME ExtInv, MarshalExtended PROVE ExtInv'
<1> DEFINE e == given[at]
           f == Fragment(e, 0, e.size, FALSE)
<1>1. /\ xphase = "write" /\ ~Refused(e) /\ (~IsLong(e.type) \/ e.size = 0)
      /\ wire' = Append(wire, f) /\ Advance /\ UNCHANGED <<given, pos, value, read, xerr>>
  BY DEF MarshalExtended
<1>2. WriterOK /\ WireOK(wire) /\ given \in Seq(Given1)
  BY <1>1 DEF ExtInv
<1>3. at \in Marshalled
  BY <1>1, <1>2 DEF Marshalled, WriterOK
<1>4. e.size \in Nat /\ e.type \in 241..244
  BY <1>2, <1>3, MarshalledIs
<1>5. ~MoreAt(wire, Len(wire))
  <2> SUFFICES ASSUME MoreAt(wire, Len(wire)) PROVE FALSE
    OBVIOUS
  <2>1. IsLong(e.type) /\ off \in Nat /\ off < e.size
    BY Zenon, <1>1, InsideIs
  <2>2. e.size = 0
    BY Zenon, <1>1, <2>1
  <2> HIDE DEF e
  <2> QED BY <2>1, <2>2
<1>6. e.size - 0 <= MaxValue(e.type)
  BY <1>1, <1>4 DEF Refused, MaxValue
<1>7. f \in WireFragment /\ FragmentOK(f) /\ f.piece.of = at /\ f.piece.from = 0 /\ ~f.more
  <2>1. 0 <= e.size /\ e.size <= e.size /\ ~(e.size < e.size)
    BY <1>4
  <2>2. \A to \in Nat : /\ 0 <= to /\ to <= e.size /\ ~(to < e.size)
                         /\ to - 0 <= MaxValue(e.type)
                         => LET g == Fragment(e, 0, to, FALSE)
                            IN  /\ g \in WireFragment /\ FragmentOK(g)
                                /\ g.piece.of = at /\ g.piece.from = 0 /\ g.more = FALSE
    <3> SUFFICES ASSUME NEW to \in Nat, 0 <= to, to <= e.size, ~(to < e.size),
                        to - 0 <= MaxValue(e.type)
                 PROVE  LET g == Fragment(e, 0, to, FALSE)
                        IN  /\ g \in WireFragment /\ FragmentOK(g)
                            /\ g.piece.of = at /\ g.piece.from = 0 /\ g.more = FALSE
      OBVIOUS
    <3>1. PICK from \in Nat : from = 0
      OBVIOUS
    <3>2. PICK more \in BOOLEAN : more = FALSE
      OBVIOUS
    <3>3. /\ from <= to /\ (more <=> to < e.size) /\ to - from <= MaxValue(e.type)
          /\ ~IsLong(e.type) => from = 0 /\ ~more
      BY <3>1, <3>2
    <3>4. LET g == Fragment(e, from, to, more)
          IN  /\ g \in WireFragment /\ FragmentOK(g)
              /\ g.piece.of = at /\ g.piece.from = from /\ g.more = more
      BY <1>2, <1>3, <3>3, FragmentIsOK
    <3> QED BY <3>1, <3>2, <3>4
  <2>3. /\ f \in WireFragment /\ FragmentOK(f)
        /\ f.piece.of = at /\ f.piece.from = 0 /\ f.more = FALSE
    <3>1. e.size \in Nat
      BY <1>4
    <3> HIDE DEF e
    <3> QED BY <1>6, <2>1, <2>2, <3>1
  <2> QED BY Zenon, <2>3
<1>8. OfAt(wire, Len(wire)) < at /\ Gap(OfAt(wire, Len(wire)), at)
  BY <1>2, <1>5 DEF WriterOK
<1> HIDE DEF f
<1>9. Follows(wire, Len(wire), f)
  BY <1>5, <1>7, <1>8 DEF Follows
<1> QED BY <1>1, <1>7, <1>9, LastFragmentKeepsInv

\* A turn of MarshalExtendedFragments goes on where the one before ended.
LEMMA FragmentKeepsInv == ASSUME ExtInv, MarshalFragment PROVE ExtInv'
<1> DEFINE e == given[at]
           end == IF off + MaxValue(e.type) < e.size THEN off + MaxValue(e.type) ELSE e.size
           more == end < e.size
           f == Fragment(e, off, end, more)
           n == Len(wire)
<1>1. /\ xphase = "write" /\ IsLong(e.type) /\ e.size > 0 /\ wire' = Append(wire, f)
      /\ IF end < e.size THEN off' = end /\ UNCHANGED <<xphase, at>> ELSE Advance
      /\ UNCHANGED <<given, pos, value, read, xerr>>
  BY DEF MarshalFragment
<1>2. WriterOK /\ WireOK(wire) /\ given \in Seq(Given1)
  BY <1>1 DEF ExtInv
<1>3. at \in Marshalled
  <2>1. ~Refused(e)
    BY <1>1 DEF Refused, IsLong, IsExtended
  <2> QED BY <1>2, <2>1 DEF Marshalled, WriterOK
<1>4. e.size \in Nat
  BY <1>2, <1>3, MarshalledIs
<1>5. off \in Nat /\ off < e.size
  <2>1. CASE MoreAt(wire, n)
    BY <1>1, <2>1, InsideIs
  <2>2. CASE ~MoreAt(wire, n)
    <3>1. off = 0
      BY <1>2, <2>2 DEF WriterOK
    <3> QED BY <1>1, <1>4, <3>1
  <2> QED BY <2>1, <2>2
<1>6. MaxValue(e.type) = 251
  BY <1>1 DEF MaxValue
<1>7. end \in Nat /\ off <= end /\ end <= e.size /\ end - off <= MaxValue(e.type)
  BY <1>4, <1>5, <1>6
<1>8. more \in BOOLEAN
  OBVIOUS
<1> HIDE DEF end
<1>9. f \in WireFragment /\ FragmentOK(f) /\ f.piece.of = at /\ f.piece.from = off /\ f.piece.to = end
      /\ f.more = more
  <2>1. more <=> end < e.size
    OBVIOUS
  <2> HIDE DEF more
  <2> QED BY <1>1, <1>2, <1>3, <1>5, <1>7, <1>8, <2>1, FragmentIsOK
<1>10. (f.more <=> end < e.size)
  BY <1>9
<1> HIDE DEF f, more
<1>11. Follows(wire, n, f)
  <2>1. CASE MoreAt(wire, n)
    BY <1>1, <1>9, <2>1, InsideIs DEF Follows
  <2>2. CASE ~MoreAt(wire, n)
    BY <1>2, <1>9, <2>2 DEF Follows, WriterOK
  <2> QED BY <2>1, <2>2
<1>12. CASE ~(end < e.size)
  BY <1>1, <1>9, <1>10, <1>11, <1>12, LastFragmentKeepsInv
<1>13. CASE end < e.size
  <2>1. WireOK(wire') /\ OfAt(wire', Len(wire')) = at /\ MoreAt(wire', Len(wire')) /\ wire'[Len(wire')] = f
    BY <1>1, <1>2, <1>9, <1>10, <1>11, <1>13, WireGrows
  <2>2. xphase' = "write" /\ off' = end /\ at' = at
    BY <1>1, <1>13
  <2>3. WriterOK'
    BY <1>1, <1>2, <1>9, <2>1, <2>2 DEF WriterOK
  <2>4. WireOK(wire)'
    BY <1>1, <2>1, SameList DEF WireOK
  <2>5. Len(wire') \in Nat
    BY <2>1 DEF WireOK
  <2>6. ReaderOK' /\ ReadsOK'
    BY <1>1, <2>5, ReaderUntouched
  <2>7. pos' = 1 /\ value' = <<>> /\ read' = <<>> /\ given' \in Seq(Given1)
    BY <1>1, <1>2 DEF ExtInv
  <2> QED BY <2>2, <2>3, <2>4, <2>6, <2>7 DEF ExtInv
<1> QED BY <1>12, <1>13

\* Pieces that end where another begins are a longer Value with it.
LEMMA ValueGrows ==
    ASSUME NEW v \in Pieces, NEW p \in Piece, NEW m, p.of = m,
           IF v = <<>> THEN p.from = 0 ELSE ValueOK(v, m, p.from)
    PROVE  ValueOK(Append(v, p), m, p.to)
<1> DEFINE u == Append(v, p)
           n == Len(v)
<1>1. v \in Seq(Piece) /\ n \in Nat
  BY DEF Pieces
<1>2. u \in Seq(Piece) /\ Len(u) = n + 1 /\ u[n + 1] = p /\ \A i \in 1..n : u[i] = v[i]
  BY <1>1
<1>3. u # <<>>
  BY <1>1, <1>2
<1>4. v = <<>> <=> n = 0
  BY <1>1
<1>5. n # 0 => /\ 1 \in 1..n /\ n \in 1..n
               /\ \A i \in 1..n : v[i].of = m
               /\ v[1].from = 0 /\ v[n].to = p.from /\ \A i \in 2..n : v[i].from = v[i - 1].to
  BY <1>1, <1>4 DEF ValueOK
<1> HIDE DEF u
<1>6. \A i \in 1..Len(u) : u[i].of = m
  <2> SUFFICES ASSUME NEW i \in 1..(n + 1) PROVE u[i].of = m
    BY <1>2
  <2>1. i = n + 1 \/ (i \in 1..n /\ n # 0)
    BY <1>1
  <2> QED BY <1>2, <1>5, <2>1
<1>7. u[1].from = 0
  <2>1. CASE n = 0
    BY <1>2, <1>4, <2>1
  <2>2. CASE n # 0
    BY <1>2, <1>5, <2>2
  <2> QED BY <2>1, <2>2
<1>8. \A i \in 2..Len(u) : u[i].from = u[i - 1].to
  <2> SUFFICES ASSUME NEW i \in 2..(n + 1) PROVE u[i].from = u[i - 1].to
    BY <1>2
  <2>1. n # 0 /\ i - 1 \in 1..n
    BY <1>1
  <2>2. CASE i = n + 1
    <3>1. i - 1 = n
      BY <1>1, <2>2
    <3> QED BY <1>2, <1>5, <2>1, <2>2, <3>1
  <2>3. CASE i # n + 1
    <3>1. i \in 1..n /\ i \in 2..n
      BY <1>1, <2>3
    <3> QED BY <1>2, <1>5, <2>1, <3>1
  <2> QED BY <2>2, <2>3
<1>9. u[Len(u)].to = p.to
  BY <1>2
<1>10. u \in Pieces
  BY <1>2 DEF Pieces
<1> QED BY <1>3, <1>6, <1>7, <1>8, <1>9, <1>10 DEF ValueOK, u

\* The fragment that the reader is at goes on with the attribute it has the
\* pieces of, or begins the one after the last it has read.
LEMMA FragmentContinues ==
    ASSUME ExtInv, pos <= Len(wire)
    PROVE  LET f == wire[pos]
           IN  /\ pos \in 1..Len(wire) /\ f \in WireFragment /\ FragmentOK(f) /\ f.piece \in Piece
               /\ OfAt(wire, pos) = f.piece.of /\ (MoreAt(wire, pos) <=> f.more)
               /\ ValueOK(Append(value, f.piece), f.piece.of, f.piece.to)
               /\ LastOrigin < f.piece.of /\ Gap(LastOrigin, f.piece.of)
               /\ ~Foreign(f)
<1> DEFINE f == wire[pos]
           k == pos - 1
<1>1. WireOK(wire) /\ given \in Seq(Given1) /\ ReaderOK /\ Len(wire) \in Nat
  BY DEF ExtInv, WireOK
<1>2. pos \in 1..Len(wire) /\ pos \in 0..Len(wire) /\ pos # 0 /\ k \in 0..Len(wire)
  BY <1>1 DEF ReaderOK
<1>3. f \in WireFragment /\ FragmentOK(f) /\ f.piece \in Piece /\ OfAt(wire, pos) = f.piece.of
  BY <1>1, <1>2, OfAtIs
<1>4. MoreAt(wire, pos) <=> f.more
  BY <1>2 DEF MoreAt
<1>5. Follows(wire, k, f)
  BY <1>1, <1>2 DEF WireOK
<1>6. CASE MoreAt(wire, k)
  <2>1. k # 0
    BY <1>6 DEF MoreAt
  <2>2. f.piece.of = OfAt(wire, k) /\ f.piece.from = wire[k].piece.to
    BY <1>5, <1>6 DEF Follows
  <2>3. ValueOK(value, OfAt(wire, k), wire[k].piece.to) /\ LastOrigin < OfAt(wire, k) /\ Gap(LastOrigin, OfAt(wire, k))
    BY <1>1, <1>6 DEF ReaderOK
  <2>4. value \in Pieces /\ value # <<>>
    BY <2>3 DEF ValueOK
  <2> HIDE DEF f
  <2>5. ValueOK(value, f.piece.of, f.piece.from)
    BY <2>2, <2>3
  <2>6. ValueOK(Append(value, f.piece), f.piece.of, f.piece.to)
    BY <1>3, <2>4, <2>5, ValueGrows
  <2>7. LastOrigin < f.piece.of /\ Gap(LastOrigin, f.piece.of)
    BY <2>2, <2>3
  <2>8. wire[k].type = given[OfAt(wire, k)].type /\ wire[k].ext = given[OfAt(wire, k)].ext
    <3>1. FragmentOK(wire[k]) /\ OfAt(wire, k) = wire[k].piece.of
      BY <1>1, <1>2, <2>1, OfAtIs
    <3> QED BY Zenon, <3>1 DEF FragmentOK
  <2>9. f.type = wire[k].type /\ f.ext = wire[k].ext
    BY <1>3, <2>2, <2>8 DEF FragmentOK
  <2>10. ~Foreign(f)
    BY <2>9 DEF Foreign
  <2> QED BY <1>2, <1>3, <1>4, <2>6, <2>7, <2>10 DEF f
<1>7. CASE ~MoreAt(wire, k)
  <2>1. f.piece.from = 0 /\ OfAt(wire, k) < f.piece.of /\ Gap(OfAt(wire, k), f.piece.of)
    BY <1>5, <1>7 DEF Follows
  <2>2. value = <<>> /\ LastOrigin = OfAt(wire, k)
    BY <1>1, <1>7 DEF ReaderOK
  <2>3. value \in Pieces
    BY <2>2 DEF Pieces
  <2> HIDE DEF f
  <2>4. ValueOK(Append(value, f.piece), f.piece.of, f.piece.to)
    BY <1>3, <2>1, <2>2, <2>3, ValueGrows
  <2>5. LastOrigin < f.piece.of /\ Gap(LastOrigin, f.piece.of)
    BY <2>1, <2>2
  <2>6. ~Foreign(f)
    BY <2>2 DEF Foreign
  <2> QED BY <1>2, <1>3, <1>4, <2>4, <2>5, <2>6 DEF f
<1> QED BY <1>6, <1>7

\* An attribute read whole, after the last one and with none between, is one
\* more of those read.
LEMMA ReadGrows ==
    ASSUME ReadsOK, given \in Seq(Given1), NEW r \in ReadAttr, Origin(r) \in Marshalled,
           IsWhole(r, Origin(r)), ~Overlong(Origin(r)),
           LastOrigin < Origin(r), Gap(LastOrigin, Origin(r))
    PROVE  LET s == Append(read, r)
           IN  /\ s \in Seq(ReadAttr) /\ s # <<>> /\ s[Len(s)] = r
               /\ \A i \in 1..Len(s) : ReadOK(s, i)
<1> DEFINE s == Append(read, r)
           n == Len(read)
<1>1. read \in Seq(ReadAttr) /\ n \in Nat
  BY DEF ReadsOK
<1>2. s \in Seq(ReadAttr) /\ Len(s) = n + 1 /\ s[n + 1] = r /\ \A i \in 1..n : s[i] = read[i]
  BY <1>1
<1>3. s # <<>>
  BY <1>1, <1>2
<1>4. \A m \in Marshalled : m \in Nat /\ m > 0
  BY MarshalledIs
<1>5. \A i \in 1..n : ReadOK(read, i)
  BY DEF ReadsOK
<1>6. n # 0 => LastOrigin = Origin(read[n]) /\ n \in 1..n
  BY <1>1 DEF LastOrigin
<1>7. n = 0 => LastOrigin = 0
  BY <1>1 DEF LastOrigin
<1> HIDE DEF s
<1>8. ASSUME NEW i \in 1..n PROVE ReadOK(s, i)
  <2>1. ReadOK(read, i) /\ s[i] = read[i]
    BY <1>2, <1>5
  <2>2. \A j \in 1..i : s[j] = read[j]
    BY <1>1, <1>2
  <2>3. \A j \in 1..(i - 1) : s[j] = read[j]
    BY <1>1, <1>2
  <2> QED BY <2>1, <2>2, <2>3 DEF ReadOK
<1>9. \A j \in 1..n : Origin(read[j]) < Origin(r)
  <2> SUFFICES ASSUME NEW j \in 1..n PROVE Origin(read[j]) < Origin(r)
    OBVIOUS
  <2>1. LastOrigin = Origin(read[n]) /\ n \in 1..n
    BY <1>1, <1>6
  <2>2. Origin(read[j]) \in Marshalled /\ Origin(read[n]) \in Marshalled
    BY <1>5, <2>1 DEF ReadOK
  <2>3. Origin(read[j]) <= Origin(read[n])
    <3>1. CASE j = n
      BY <1>4, <2>2, <3>1
    <3>2. CASE j # n
      <4>1. j \in 1..(n - 1)
        BY <1>1, <3>2
      <4>2. Origin(read[j]) < Origin(read[n])
        BY <1>5, <2>1, <4>1 DEF ReadOK
      <4> QED BY <1>4, <2>2, <4>2
    <3> QED BY <3>1, <3>2
  <2> QED BY <1>4, <2>1, <2>2, <2>3
<1>10. ASSUME NEW m \in Marshalled, m <= Origin(r) PROVE \E j \in 1..(n + 1) : Origin(s[j]) = m
  <2>1. n + 1 \in 1..(n + 1)
    BY <1>1
  <2>2. CASE m = Origin(r)
    BY <1>2, <2>1, <2>2
  <2>3. CASE m # Origin(r)
    <3>1. m <= LastOrigin
      <4>1. m <= LastOrigin \/ m >= Origin(r)
        BY DEF Gap
      <4> QED BY <1>4, <1>10, <2>3, <4>1
    <3>2. n # 0
      BY <1>4, <1>7, <3>1
    <3>3. \E j \in 1..n : Origin(read[j]) = m
      BY <1>5, <1>6, <3>1, <3>2 DEF ReadOK
    <3>4. PICK j \in 1..n : Origin(read[j]) = m
      BY <3>3
    <3>5. j \in 1..(n + 1)
      BY <1>1
    <3> QED BY <1>2, <3>4, <3>5
  <2> QED BY <2>2, <2>3
<1>11. ReadOK(s, n + 1)
  <2>1. (n + 1) - 1 = n
    BY <1>1
  <2>2. \A j \in 1..n : Origin(s[j]) < Origin(r)
    BY <1>2, <1>9
  <2>3. \A m \in Marshalled : m <= Origin(r) => \E j \in 1..(n + 1) : Origin(s[j]) = m
    BY <1>10
  <2> QED BY <1>2, <2>1, <2>2, <2>3 DEF ReadOK
<1>12. \A i \in 1..Len(s) : ReadOK(s, i)
  <2> SUFFICES ASSUME NEW i \in 1..(n + 1) PROVE ReadOK(s, i)
    BY <1>2
  <2>1. i = n + 1 \/ i \in 1..n
    BY <1>1
  <2> QED BY <1>8, <1>11, <2>1
<1> QED BY <1>2, <1>3, <1>12 DEF s

\* A byte is not truncated.
LEMMA ByteFits == ASSUME NEW n \in 0..255 PROVE n % 256 = n
OBVIOUS

\* A short attribute has a Length that fits its octet, or one below its header.
LEMMA ShortFragmentIs ==
    ASSUME given \in Seq(Given1), NEW f \in WireFragment, FragmentOK(f), ~IsLong(f.type)
    PROVE  f.piece.from = 0 /\ f.piece.to = given[f.piece.of].size /\ (Malformed(f) <=> Overlong(f.piece.of))
<1> DEFINE m == f.piece.of
           size == given[m].size
<1>1. f.piece \in Piece
  BY DEF WireFragment
<1>2. m \in Marshalled /\ f.type = given[m].type /\ f.piece.from = 0 /\ ~f.more /\ f.piece.to <= size
      /\ (f.more <=> f.piece.to < size)
      /\ f.length = (Header(f.type) + f.piece.to - f.piece.from) % 256
  BY DEF FragmentOK
<1>3. size \in Nat /\ f.piece.to \in Nat
  BY <1>1, <1>2, MarshalledIs DEF Piece
<1>4. f.piece.to = size
  BY <1>2, <1>3
<1>5. size <= 253
  <2>1. ~Refused(given[m])
    BY <1>2 DEF Marshalled
  <2> QED BY <1>2, <1>3, <2>1 DEF Refused, MaxValue
<1>6. f.length = (3 + size) % 256 /\ Header(f.type) = 3
  <2>1. Header(f.type) = 3
    BY DEF Header
  <2> HIDE DEF size
  <2>2. 3 + f.piece.to - f.piece.from = 3 + size
    BY <1>2, <1>3, <1>4
  <2> QED BY <1>2, <2>1, <2>2
<1>7. (3 + size) % 256 < 3 <=> size = 253
  <2> HIDE DEF size
  <2>1. CASE size = 253
    BY <2>1
  <2>2. CASE size # 253
    <3>1. 3 + size \in 0..255
      BY <1>3, <1>5, <2>2
    <3>2. (3 + size) % 256 = 3 + size
      BY <3>1, ByteFits
    <3> QED BY <1>3, <2>2, <3>2
  <2> QED BY <2>1, <2>2
<1>8. Malformed(f) <=> Overlong(m)
  BY <1>2, <1>6, <1>7 DEF Malformed, Overlong
<1> QED BY <1>2, <1>4, <1>8

\* A fragment of a long attribute always has a Length that fits.
LEMMA LongFragmentIs ==
    ASSUME given \in Seq(Given1), NEW f \in WireFragment, FragmentOK(f), IsLong(f.type)
    PROVE  ~Malformed(f) /\ ~Overlong(f.piece.of)
<1> DEFINE a == f.piece.from
           b == f.piece.to
           d == b - a
<1>1. a \in Nat /\ b \in Nat
  BY DEF WireFragment, Piece
<1>2. a <= b /\ b - a <= 251 /\ f.length = (4 + b - a) % 256
  BY DEF FragmentOK, MaxValue, Header
<1> HIDE DEF a, b
<1>3. d \in 0..251 /\ 4 + b - a = 4 + d /\ 4 + d \in 0..255
  BY <1>1, <1>2
<1>4. f.length = (4 + d) % 256
  BY <1>2, <1>3
<1> HIDE DEF d
<1>5. f.length = 4 + d
  BY <1>3, <1>4, ByteFits
<1>6. ~Malformed(f)
  BY <1>3, <1>5 DEF Malformed, Header
<1>7. ~Overlong(f.piece.of)
  BY DEF Overlong, FragmentOK
<1> QED BY <1>6, <1>7

\* The reader takes one fragment.
LEMMA ReadKeepsInv == ASSUME ExtInv, ReadFragment PROVE ExtInv'
<1> DEFINE f == wire[pos]
           m == f.piece.of
           pieces == Append(value, f.piece)
           r == [type |-> f.type, ext |-> f.ext, pieces |-> pieces]
<1>1. /\ xphase = "read" /\ pos <= Len(wire) /\ ~Malformed(f) /\ pos' = pos + 1
      /\ IF IsLong(f.type) /\ f.more
         THEN value' = pieces /\ UNCHANGED read
         ELSE value' = <<>> /\ read' = Append(read, r)
      /\ UNCHANGED <<xphase, given, at, off, wire, xerr>>
  BY DEF ReadFragment
<1>2. WireOK(wire) /\ given \in Seq(Given1) /\ ReadsOK /\ Written /\ Len(wire) \in Nat
  BY <1>1 DEF ExtInv, WireOK
<1>3. /\ pos \in 1..Len(wire) /\ f \in WireFragment /\ FragmentOK(f) /\ f.piece \in Piece
      /\ OfAt(wire, pos) = m /\ (MoreAt(wire, pos) <=> f.more)
      /\ ValueOK(pieces, m, f.piece.to) /\ LastOrigin < m /\ Gap(LastOrigin, m)
  BY <1>1, FragmentContinues
<1>4. /\ Marshalled' = Marshalled /\ \A a, b : Gap(a, b)' <=> Gap(a, b)
      /\ \A w : WireOK(w)' <=> WireOK(w)
      /\ \A s, i : ReadOK(s, i)' <=> ReadOK(s, i)
  BY <1>1, SameList
<1>5. WireOK(wire)' /\ Written' /\ given' \in Seq(Given1) /\ xphase' = "read"
  <2>1. WireOK(wire')
    BY <1>1, <1>2
  <2>2. Written'
    BY <1>1, <1>2, <1>4 DEF Written
  <2> QED BY <1>1, <1>2, <1>4, <2>1, <2>2
<1>6. pos' \in 1..(Len(wire') + 1) /\ pos' - 1 = pos
  BY <1>1, <1>2, <1>3
<1>7. OfAt(wire', pos' - 1) = m /\ (MoreAt(wire', pos' - 1) <=> f.more) /\ wire'[pos' - 1] = f
  BY <1>1, <1>3, <1>6
<1> HIDE DEF f, pieces, r
<1>8. CASE IsLong(f.type) /\ f.more
  <2>1. value' = pieces /\ read' = read
    BY <1>1, <1>8
  <2>2. LastOrigin' = LastOrigin
    BY <2>1 DEF LastOrigin
  <2>3. ReaderOK'
    <3>1. MoreAt(wire', pos' - 1) /\ ValueOK(value', OfAt(wire', pos' - 1), wire'[pos' - 1].piece.to)
      BY <1>3, <1>7, <1>8, <2>1
    <3>2. LastOrigin' < OfAt(wire', pos' - 1)
      BY <1>3, <1>7, <2>2
    <3>3. Gap(LastOrigin', OfAt(wire', pos' - 1))
      BY <1>3, <1>7, <2>2
    <3>4. Gap(LastOrigin, OfAt(wire, pos - 1))'
      BY <1>4, <3>3 DEF Gap
    <3> QED BY <1>6, <3>1, <3>2, <3>4 DEF ReaderOK, ValueOK
  <2>4. ReadsOK'
    BY <1>2, <1>4, <2>1 DEF ReadsOK
  <2> QED BY <1>5, <2>3, <2>4 DEF ExtInv
<1>9. CASE ~(IsLong(f.type) /\ f.more)
  <2>1. value' = <<>> /\ read' = Append(read, r)
    BY <1>1, <1>9
  <2>2. ~f.more
    BY <1>3, <1>9 DEF FragmentOK
  <2>3. f.piece.to = given[m].size /\ ~Overlong(m) /\ m \in Marshalled
    <3>1. m \in Marshalled
      BY <1>3 DEF FragmentOK, m
    <3>2. CASE IsLong(f.type)
      <4>1. ~Overlong(m)
        BY <1>2, <1>3, <3>2, LongFragmentIs
      <4>2. f.piece.to \in Nat /\ given[m].size \in Nat
        BY <1>2, <1>3, <3>1, MarshalledIs DEF Piece
      <4>3. f.piece.to <= given[m].size /\ ~(f.piece.to < given[m].size)
        BY <1>3, <2>2 DEF FragmentOK
      <4> QED BY <3>1, <4>1, <4>2, <4>3
    <3>3. CASE ~IsLong(f.type)
      BY <1>1, <1>2, <1>3, <3>1, <3>3, ShortFragmentIs
    <3> QED BY <3>2, <3>3
  <2>4. pieces \in Pieces /\ Len(pieces) \in Nat /\ Len(pieces) # 0
    BY <1>3 DEF ValueOK, Pieces
  <2>5. r \in ReadAttr /\ r.type = f.type /\ r.ext = f.ext /\ r.pieces = pieces
    BY <1>3, <2>4 DEF ReadAttr, WireFragment, r
  <2>6. 1 \in 1..Len(pieces)
    BY <2>4
  <2>7. Origin(r) = m
    BY <1>3, <2>5, <2>6 DEF Origin, ValueOK
  <2>8. IsWhole(r, m)
    <3>1. r.type = given[m].type /\ r.ext = given[m].ext
      BY <1>3, <2>5 DEF FragmentOK, m
    <3>2. DOMAIN pieces = 1..Len(pieces)
      BY <2>4 DEF Pieces
    <3> QED BY <1>3, <2>3, <2>5, <3>1, <3>2 DEF IsWhole, ValueOK
  <2>9. read' \in Seq(ReadAttr) /\ read' # <<>> /\ read'[Len(read')] = r
        /\ \A i \in 1..Len(read') : ReadOK(read', i)
    BY <1>2, <1>3, <2>1, <2>3, <2>5, <2>7, <2>8, ReadGrows
  <2>10. LastOrigin' = m
    BY <2>7, <2>9 DEF LastOrigin, Origin
  <2>11. ReaderOK'
    BY <1>6, <1>7, <2>1, <2>2, <2>10 DEF ReaderOK
  <2>12. ReadsOK'
    BY <1>4, <2>9 DEF ReadsOK
  <2> QED BY <1>5, <2>11, <2>12 DEF ExtInv
<1> QED BY <1>8, <1>9

\* An attribute whose Length does not fit is never among those read.
LEMMA OverlongIsNotRead ==
    ASSUME ExtInv, NEW m \in Marshalled, Overlong(m)
    PROVE  \A i \in DOMAIN read : Origin(read[i]) # m
<1>1. ReadsOK /\ DOMAIN read = 1..Len(read)
  BY DEF ExtInv, ReadsOK
<1> QED BY <1>1 DEF ReadsOK, ReadOK

\* The reader ends: at a Length that does not fit, or with all read.
LEMMA EndKeepsInv == ASSUME ExtInv, ReadEnds PROVE ExtInv'
<1>1. /\ xphase = "read" /\ (pos <= Len(wire) => Malformed(wire[pos]) \/ Foreign(wire[pos]))
      /\ xphase' = "done"
      /\ xerr' = IF pos > Len(wire) /\ value = <<>> THEN "none" ELSE "ErrInvalidAttribute"
      /\ UNCHANGED <<given, at, off, wire, pos, value, read>>
  BY DEF ReadEnds
<1>2. WireOK(wire) /\ given \in Seq(Given1) /\ ReaderOK /\ ReadsOK /\ Written /\ Len(wire) \in Nat
  BY <1>1 DEF ExtInv, WireOK
<1>3. /\ Marshalled' = Marshalled /\ \A a, b : Gap(a, b)' <=> Gap(a, b)
      /\ \A w : WireOK(w)' <=> WireOK(w)
      /\ \A s, i : ReadOK(s, i)' <=> ReadOK(s, i)
  BY <1>1, SameList
<1>4. WireOK(wire)'
  BY <1>1, <1>2, <1>3
<1>5. ReaderOK'
  <2>1. LastOrigin' = LastOrigin
    BY <1>1 DEF LastOrigin
  <2>2. Gap(LastOrigin, OfAt(wire, pos - 1))' <=> Gap(LastOrigin, OfAt(wire, pos - 1))
    BY <1>1, <1>3, <2>1 DEF Gap
  <2> QED BY <1>1, <1>2, <2>1, <2>2 DEF ReaderOK, ValueOK
<1>6. ReadsOK'
  BY <1>1, <1>2, <1>3 DEF ReadsOK
<1>7. Written'
  BY <1>1, <1>2, <1>3 DEF Written
<1>8. CASE pos <= Len(wire)
  <2> DEFINE f == wire[pos]
             m == f.piece.of
  <2>1. f \in WireFragment /\ FragmentOK(f) /\ ~Foreign(f)
    BY <1>8, FragmentContinues
  <2>2. Malformed(f)
    BY <1>1, <1>8, <2>1
  <2>3. m \in Marshalled
    BY <2>1 DEF FragmentOK
  <2> HIDE DEF f
  <2>4. Overlong(m)
    <3>1. ~IsLong(f.type)
      BY <1>2, <2>1, <2>2, LongFragmentIs
    <3> QED BY <1>2, <2>1, <2>2, <3>1, ShortFragmentIs
  <2>5. ~(pos > Len(wire))
    <3>1. pos \in Nat
      BY <1>2 DEF ReaderOK
    <3> QED BY <1>2, <1>8, <3>1
  <2>6. xerr' # "none"
    BY <1>1, <2>5
  <2>7. m \in Marshalled' /\ ~IsLong(given'[m].type) /\ given'[m].size = 253
    BY <1>1, <1>3, <2>3, <2>4 DEF Overlong
  <2> HIDE DEF m
  <2>8. Ended'
    BY <2>6, <2>7 DEF Ended
  <2> QED BY <1>1, <1>2, <1>4, <1>5, <1>6, <1>7, <2>8 DEF ExtInv
<1>9. CASE ~(pos <= Len(wire))
  <2> DEFINE n == Len(wire)
  <2>1. pos - 1 = n /\ pos > n
    BY <1>2, <1>9 DEF ReaderOK
  <2>2. value = <<>> /\ LastOrigin = OfAt(wire, n) /\ \A m \in Marshalled : m <= LastOrigin
    BY <1>2, <2>1 DEF ReaderOK, Written
  <2>3. xerr' = "none"
    BY <1>1, <2>1, <2>2
  <2>4. ASSUME NEW m \in Marshalled PROVE \E i \in DOMAIN read : Origin(read[i]) = m
    <3>1. m \in Nat /\ m > 0 /\ m <= LastOrigin
      BY <1>2, <2>2, MarshalledIs
    <3>2. read # <<>>
      BY <3>1 DEF LastOrigin
    <3>3. read \in Seq(ReadAttr)
      BY <1>2 DEF ReadsOK
    <3>4. Len(read) \in 1..Len(read) /\ DOMAIN read = 1..Len(read)
      BY <3>2, <3>3
    <3>5. m <= Origin(read[Len(read)])
      BY <3>1, <3>2 DEF LastOrigin
    <3> QED BY <1>2, <3>4, <3>5 DEF ReadsOK, ReadOK
  <2>5. \A m \in Marshalled : ~Overlong(m)
    BY <2>4, OverlongIsNotRead
  <2>6. \A m \in Marshalled' : ~(~IsLong(given'[m].type) /\ given'[m].size = 253)
    BY <1>1, <1>3, <2>5 DEF Overlong
  <2>7. \A m \in Marshalled' : \E i \in DOMAIN read' : Origin(read'[i]) = m
    BY <1>1, <1>3, <2>4
  <2>8. Ended'
    BY <2>3, <2>6, <2>7 DEF Ended, Origin
  <2> QED BY <1>1, <1>2, <1>4, <1>5, <1>6, <1>7, <2>8 DEF ExtInv
<1> QED BY <1>8, <1>9

\* Nothing changes, and nothing that is said.
LEMMA StillKeepsInv == ASSUME ExtInv, UNCHANGED extVars PROVE ExtInv'
<1>1. UNCHANGED <<xphase, given, at, off, wire, pos, value, read, xerr>>
  BY DEF extVars
<1>2. /\ Marshalled' = Marshalled /\ \A a, b : Gap(a, b)' <=> Gap(a, b)
      /\ \A w : WireOK(w)' <=> WireOK(w)
      /\ \A s, i : ReadOK(s, i)' <=> ReadOK(s, i)
  BY <1>1, SameList
<1>3. WireOK(wire) => WireOK(wire)'
  BY <1>1, <1>2
<1>4. LastOrigin' = LastOrigin
  BY <1>1 DEF LastOrigin
<1>5. ReaderOK => ReaderOK'
  <2>1. Gap(LastOrigin, OfAt(wire, pos - 1))' <=> Gap(LastOrigin, OfAt(wire, pos - 1))
    BY <1>1, <1>2, <1>4 DEF Gap
  <2> QED BY <1>1, <1>4, <2>1 DEF ReaderOK, ValueOK
<1>6. ReadsOK => ReadsOK'
  BY <1>1, <1>2 DEF ReadsOK
<1>7. WriterOK => WriterOK'
  <2>1. Gap(OfAt(wire, Len(wire)), at)' <=> Gap(OfAt(wire, Len(wire)), at)
    BY <1>1, <1>2 DEF Gap
  <2> QED BY <1>1, <2>1 DEF WriterOK
<1>8. Written => Written'
  BY <1>1, <1>2 DEF Written
<1>9. Ended => Ended'
  BY <1>1, <1>2 DEF Ended, Origin
<1> QED BY <1>1, <1>3, <1>5, <1>6, <1>7, <1>8, <1>9 DEF ExtInv

\* The fragments written are the Values of the attributes marshalled, each
\* whole and in the order of the list, and the reader has read the whole
\* attributes of those before the fragment it is at.
THEOREM ExtendedInvariance == ExtSpec => []ExtInv
<1>1. ExtInit => ExtInv
  BY ExtInitially
<1>2. ExtInv /\ [ExtNext]_extVars => ExtInv'
  BY StartKeepsInv, RefusedKeepsInv, MarshalKeepsInv, FragmentKeepsInv, ReadKeepsInv, EndKeepsInv, StillKeepsInv
  DEF ExtNext
<1> QED BY <1>1, <1>2, PTL DEF ExtSpec

\* The reader gives the attributes back whole, in order and without a gap,
\* and all of them unless a Length does not fit its octet.
THEOREM EveryAttributeIsReassembled == ExtSpec => []ReassemblesWhatWasSplit
<1>1. ASSUME ExtInv PROVE ReassemblesWhatWasSplit
  <2>1. ReadsOK /\ (xphase = "done" => Ended)
    BY <1>1 DEF ExtInv
  <2>2. DOMAIN read = 1..Len(read)
    BY <2>1 DEF ReadsOK
  <2>3. \A i \in DOMAIN read :
          /\ Origin(read[i]) \in Marshalled /\ IsWhole(read[i], Origin(read[i]))
          /\ \A j \in 1..(i - 1) : Origin(read[j]) < Origin(read[i])
          /\ \A m \in Marshalled : m <= Origin(read[i]) => \E j \in 1..i : Origin(read[j]) = m
    BY <2>1, <2>2 DEF ReadsOK, ReadOK
  <2> QED BY <2>1, <2>3 DEF ReassemblesWhatWasSplit, Ended
<1> QED BY <1>1, ExtendedInvariance, PTL

-----------------------------------------------------------------------------
(*****************************************************************************)
(* A request and its reply (packet/packet.go, protocol/verify.go)            *)
(*****************************************************************************)

-----------------------------------------------------------------------------
\* A list of attributes.
AttrSeq(s) == \E U : s \in Seq(U) /\ \A a \in U : IsAttribute(a)

\* What a list of attributes is, position by position.
LEMMA AttrSeqIs ==
    ASSUME NEW s, AttrSeq(s)
    PROVE  /\ Len(s) \in Nat /\ DOMAIN s = 1..Len(s)
           /\ s = [i \in 1..Len(s) |-> s[i]]
           /\ \A i \in 1..Len(s) : IsAttribute(s[i])
<1>1. PICK U : s \in Seq(U) /\ \A a \in U : IsAttribute(a)
  BY DEF AttrSeq
<1>2. Len(s) \in Nat /\ DOMAIN s = 1..Len(s) /\ \A i \in 1..Len(s) : s[i] \in U
  BY <1>1
<1>3. s = [i \in 1..Len(s) |-> s[i]]
  BY <1>1
<1> QED BY <1>1, <1>2, <1>3

\* A function from the first n positions to attributes is such a list.
LEMMA AttrSeqFrom ==
    ASSUME NEW n \in Nat, NEW s, s = [i \in 1..n |-> s[i]], \A i \in 1..n : IsAttribute(s[i])
    PROVE  AttrSeq(s) /\ Len(s) = n
<1> DEFINE U == {s[i] : i \in 1..n}
<1>1. s \in [1..n -> U]
  OBVIOUS
<1>2. \A a \in U : IsAttribute(a)
  OBVIOUS
<1> HIDE DEF U
<1>3. s \in Seq(U)
  BY <1>1, SeqDef
<1>4. Len(s) \in Nat /\ DOMAIN s = 1..Len(s) /\ DOMAIN s = 1..n
  BY <1>1, <1>3
<1>5. Len(s) = n
  BY <1>4
<1> QED BY <1>2, <1>3, <1>5 DEF AttrSeq

\* Lists with the same attributes are the same.
LEMMA SameAttrs ==
    ASSUME NEW s, NEW t, AttrSeq(s), AttrSeq(t), Len(s) = Len(t), \A i \in 1..Len(s) : s[i] = t[i]
    PROVE  s = t
<1>1. s = [i \in 1..Len(s) |-> s[i]] /\ t = [i \in 1..Len(t) |-> t[i]]
  BY AttrSeqIs
<1>2. [i \in 1..Len(s) |-> s[i]] = [i \in 1..Len(s) |-> t[i]]
  OBVIOUS
<1> QED BY <1>1, <1>2

\* Appending and prepending attributes to a list, and replacing one, leave a
\* list.
LEMMA AttrSeqEdits ==
    ASSUME NEW s, AttrSeq(s), NEW a, IsAttribute(a), NEW b, IsAttribute(b), NEW x
    PROVE  /\ AttrSeq(<<>>) /\ AttrSeq(Append(s, a))
           /\ AttrSeq(<<a>> \o s) /\ AttrSeq(s \o <<a, b>>)
           /\ AttrSeq([s EXCEPT ![x] = a])
<1>1. PICK V : s \in Seq(V) /\ \A v \in V : IsAttribute(v)
  BY DEF AttrSeq
<1> DEFINE U == V \cup {a, b}
<1>2. \A v \in U : IsAttribute(v)
  BY <1>1
<1>3. a \in U /\ b \in U /\ V \subseteq U
  OBVIOUS
<1> HIDE DEF U
<1>4. s \in Seq(U)
  <2>1. \A i \in 1..Len(s) : s[i] \in U
    BY <1>1, <1>3
  <2> QED BY <1>1, <2>1, SeqDef
<1>5. <<>> \in Seq(U) /\ <<a>> \in Seq(U) /\ <<a, b>> \in Seq(U)
  BY <1>3
<1>6. Append(s, a) \in Seq(U)
  BY <1>3, <1>4
<1>7. <<a>> \o s \in Seq(U)
  BY <1>4, <1>5, ConcatProperties
<1>8. s \o <<a, b>> \in Seq(U)
  BY <1>4, <1>5, ConcatProperties
<1>9. [s EXCEPT ![x] = a] \in Seq(U)
  <2>1. Len(s) \in Nat /\ s \in [1..Len(s) -> U]
    BY <1>4
  <2>2. [s EXCEPT ![x] = a] \in [1..Len(s) -> U]
    BY <1>3, <2>1
  <2> QED BY <2>1, <2>2, SeqDef
<1> QED BY <1>2, <1>5, <1>6, <1>7, <1>8, <1>9 DEF AttrSeq

\* The empty list is one.
LEMMA NoAttrs == AttrSeq(<<>>)
<1> DEFINE U == {}
<1>1. <<>> \in Seq(U) /\ \A a \in U : IsAttribute(a)
  OBVIOUS
<1> HIDE DEF U
<1> QED BY <1>1 DEF AttrSeq

\* What Delete and Set keep of a list is a list.
LEMMA KeptIsAttrSeq == ASSUME NEW s, AttrSeq(s), NEW S PROVE AttrSeq(Kept(s, S))
<1>1. PICK U : s \in Seq(U) /\ \A v \in U : IsAttribute(v)
  BY DEF AttrSeq
<1> DEFINE N == Len(s)
           T == Seq(U)
           base == <<>>
           Next1(n, x) == IF n \in S /\ n \in 1..N THEN Append(x, s[n]) ELSE x
           step == [n \in Nat |-> [x \in T |-> Next1(n, x)]]
           Body(k) == [n \in 0..N |-> IF n = 0 THEN <<>>
                                      ELSE IF n \in S THEN Append(k[n - 1], s[n]) ELSE k[n - 1]]
           kept == CHOOSE k : k = Body(k)
<1>2. N \in Nat /\ \A n \in 1..N : s[n] \in U
  BY <1>1
<1>3. base \in T
  OBVIOUS
<1>4. \A n, x : x \in T => Next1(n, x) \in T
  BY <1>2
<1>5. step \in Steps(T)
  <2> HIDE DEF T, Next1
  <2> QED BY <1>4 DEF Steps
<1>6. PICK f \in Recursive(T, base, step) : TRUE
  <2> HIDE DEF T, base, step
  <2> QED BY <1>3, <1>5, RecursiveExists
<1>7. f \in [Nat -> T] /\ f[0] = base /\ \A n \in Nat : n > 0 => f[n] = Next1(n, f[n - 1])
  <2> HIDE DEF Next1, base, T
  <2>1. f \in [Nat -> T] /\ f[0] = base /\ \A n \in Nat : n > 0 => f[n] = step[n][f[n - 1]]
    BY <1>6 DEF Recursive
  <2>2. ASSUME NEW n \in Nat, n > 0 PROVE f[n] = Next1(n, f[n - 1])
    <3>1. n - 1 \in Nat /\ f[n - 1] \in T
      BY <2>1, <2>2
    <3> QED BY <2>1, <2>2, <3>1
  <2> QED BY <2>1, <2>2
<1>8. \E k : k = Body(k)
  <2> DEFINE g == [n \in 0..N |-> f[n]]
  <2>1. ASSUME NEW n \in 0..N
        PROVE  g[n] = IF n = 0 THEN <<>> ELSE IF n \in S THEN Append(g[n - 1], s[n]) ELSE g[n - 1]
    <3>1. CASE n = 0
      BY <1>2, <1>7, <3>1
    <3>2. CASE n # 0
      <4>1. n \in Nat /\ n > 0 /\ n \in 1..N /\ n - 1 \in 0..N
        BY <1>2, <3>2
      <4>2. f[n] = Next1(n, f[n - 1]) /\ g[n] = f[n] /\ g[n - 1] = f[n - 1]
        BY <1>7, <4>1
      <4> HIDE DEF g
      <4> QED BY <3>2, <4>1, <4>2
    <3> QED BY <3>1, <3>2
  <2>2. g = [n \in 0..N |-> g[n]]
    OBVIOUS
  <2> HIDE DEF g
  <2>3. [n \in 0..N |-> g[n]] = Body(g)
    BY <2>1
  <2> QED BY <2>2, <2>3
<1>9. kept = Body(kept)
  <2> HIDE DEF Body
  <2> QED BY <1>8
<1>10. Kept(s, S) = kept[N]
  BY DEF Kept
<1> HIDE DEF kept
<1>11. kept[0] = <<>> /\ \A n \in 1..N : kept[n] = IF n \in S THEN Append(kept[n - 1], s[n]) ELSE kept[n - 1]
  <2>1. \A n \in 0..N : kept[n] = IF n = 0 THEN <<>>
                                   ELSE IF n \in S THEN Append(kept[n - 1], s[n]) ELSE kept[n - 1]
    BY <1>9
  <2> QED BY <1>2, <2>1
<1> DEFINE Good == {n \in 0..N : kept[n] \in T}
<1>12. 0 \in Good
  <2>1. kept[0] \in T
    BY <1>3, <1>11
  <2>2. 0 \in 0..N
    BY <1>2
  <2> HIDE DEF T, N
  <2> QED BY <2>1, <2>2
<1>13. \A n \in 1..N : n - 1 \in Good => n \in Good
  <2> SUFFICES ASSUME NEW n \in 1..N, kept[n - 1] \in T PROVE kept[n] \in T
    BY <1>2
  <2>1. s[n] \in U
    BY <1>2
  <2>2. Append(kept[n - 1], s[n]) \in T
    BY <2>1
  <2>3. kept[n] = IF n \in S THEN Append(kept[n - 1], s[n]) ELSE kept[n - 1]
    BY <1>11
  <2> HIDE DEF T
  <2> QED BY <2>2, <2>3
<1>14. 0..N \subseteq Good
  <2> HIDE DEF Good, N
  <2> QED BY <1>2, <1>12, <1>13, BoundedSetInduction
<1>15. kept[N] \in Seq(U)
  BY <1>2, <1>14
<1> QED BY <1>1, <1>10, <1>15 DEF AttrSeq

\* What Set and Delete make of a list of attributes is one.
LEMMA EditsAre ==
    ASSUME NEW s, AttrSeq(s), NEW a, IsAttribute(a), NEW type
    PROVE  AttrSeq(Add(s, a)) /\ AttrSeq(Set(s, a)) /\ AttrSeq(Delete(s, type))
<1>1. AttrSeq(Append(s, a)) /\ \A x : AttrSeq([s EXCEPT ![x] = a])
  BY AttrSeqEdits
<1>2. \A x, S : AttrSeq(Kept([s EXCEPT ![x] = a], S))
  BY <1>1, KeptIsAttrSeq
<1>3. \A S : AttrSeq(Kept(s, S))
  BY KeptIsAttrSeq
<1> QED BY <1>1, <1>2, <1>3 DEF Add, Set, Delete

-----------------------------------------------------------------------------
\* An attribute whose head is replaced keeps the rest.
Headed(a, h) == Attribute(a.type, a.size, h, a.tail)

\* Filling in one position leaves the others alone.
LEMMA FillIs ==
    ASSUME NEW s, AttrSeq(s), NEW i \in 1..Len(s), NEW h
    PROVE  /\ AttrSeq(Fill(s, i, h)) /\ Len(Fill(s, i, h)) = Len(s)
           /\ \A j \in 1..Len(s) : Fill(s, i, h)[j] = IF j = i THEN Headed(s[j], h) ELSE s[j]
<1> DEFINE t == Fill(s, i, h)
<1>1. Len(s) \in Nat /\ DOMAIN s = 1..Len(s) /\ \A j \in 1..Len(s) : IsAttribute(s[j])
  BY AttrSeqIs
<1>2. s = [j \in 1..Len(s) |-> s[j]]
  BY AttrSeqIs
<1>3. \A r : IsAttribute(r) => [r EXCEPT !.head = h] = Headed(r, h)
  BY DEF IsAttribute, Attribute, Headed
<1>4. \A j \in 1..Len(s) : t[j] = IF j = i THEN [s[j] EXCEPT !.head = h] ELSE s[j]
  BY <1>1, <1>2 DEF Fill
<1>5. t = [j \in 1..Len(s) |-> t[j]]
  BY <1>1, <1>2 DEF Fill
<1> HIDE DEF t
<1>6. \A j \in 1..Len(s) : t[j] = IF j = i THEN Headed(s[j], h) ELSE s[j]
  BY <1>1, <1>3, <1>4
<1>7. \A j \in 1..Len(s) : IsAttribute(t[j])
  BY <1>1, <1>6 DEF Headed, IsAttribute, Attribute
<1>8. AttrSeq(t) /\ Len(t) = Len(s)
  BY <1>1, <1>5, <1>7, AttrSeqFrom
<1> QED BY <1>6, <1>8 DEF t

\* Filling a position twice is filling it once.
LEMMA FillTwice ==
    ASSUME NEW s, AttrSeq(s), NEW i \in 1..Len(s), NEW g, NEW h
    PROVE  Fill(Fill(s, i, g), i, h) = Fill(s, i, h)
<1> DEFINE t == Fill(s, i, g)
           u == Fill(t, i, h)
           v == Fill(s, i, h)
<1>1. AttrSeq(t) /\ Len(t) = Len(s) /\ \A j \in 1..Len(s) : t[j] = IF j = i THEN Headed(s[j], g) ELSE s[j]
  BY FillIs
<1> HIDE DEF t
<1>2. AttrSeq(u) /\ Len(u) = Len(s) /\ \A j \in 1..Len(s) : u[j] = IF j = i THEN Headed(t[j], h) ELSE t[j]
  BY <1>1, FillIs
<1>3. AttrSeq(v) /\ Len(v) = Len(s) /\ \A j \in 1..Len(s) : v[j] = IF j = i THEN Headed(s[j], h) ELSE s[j]
  BY FillIs
<1> HIDE DEF u, v
<1>4. \A a : Headed(Headed(a, g), h) = Headed(a, h)
  BY DEF Headed, Attribute
<1>5. \A j \in 1..Len(u) : u[j] = v[j]
  BY <1>1, <1>2, <1>3, <1>4
<1>6. u = v
  BY <1>2, <1>3, <1>5, SameAttrs
<1> QED BY <1>6 DEF u, v, t

\* serializeAttributes changes the value of a password only, and only in an
\* Access-Request.
LEMMA SerializedIs ==
    ASSUME NEW p, AttrSeq(p.attrs), NEW secret
    PROVE  LET s == Serialized(p, secret)
           IN  /\ AttrSeq(s) /\ Len(s) = Len(p.attrs)
               /\ \A i \in 1..Len(s) :
                     /\ s[i].type = p.attrs[i].type
                     /\ s[i] = IF p.attrs[i].type = UserPassword /\ p.code = "Access-Request"
                               THEN Hide(p.attrs[i], p.auth, secret) ELSE p.attrs[i]
<1> DEFINE s == Serialized(p, secret)
           n == Len(p.attrs)
<1>1. n \in Nat /\ DOMAIN p.attrs = 1..n /\ \A i \in 1..n : IsAttribute(p.attrs[i])
  BY AttrSeqIs
<1>2. \A i \in 1..n : s[i] = IF p.attrs[i].type = UserPassword /\ p.code = "Access-Request"
                              THEN Hide(p.attrs[i], p.auth, secret) ELSE p.attrs[i]
  BY <1>1 DEF Serialized
<1>3. s = [i \in 1..n |-> s[i]]
  BY <1>1 DEF Serialized
<1>4. \A a, auth : Hide(a, auth, secret).type = a.type /\ IsAttribute(Hide(a, auth, secret))
  BY DEF Hide, Attribute, IsAttribute
<1> HIDE DEF s, n
<1>5. \A i \in 1..n : IsAttribute(s[i]) /\ s[i].type = p.attrs[i].type
  BY <1>1, <1>2, <1>4
<1>6. AttrSeq(s) /\ Len(s) = n
  BY <1>1, <1>3, <1>5, AttrSeqFrom
<1> QED BY <1>2, <1>5, <1>6 DEF s, n

-----------------------------------------------------------------------------
\* Terms are equal only when what they are computed from is.
LEMMA MD5Injective ==
    ASSUME NEW c1, NEW i1, NEW u1, NEW a1, NEW s1, NEW c2, NEW i2, NEW u2, NEW a2, NEW s2,
           MD5(c1, i1, u1, a1, s1) = MD5(c2, i2, u2, a2, s2)
    PROVE  c1 = c2 /\ i1 = i2 /\ u1 = u2 /\ a1 = a2 /\ s1 = s2
<1> DEFINE t1 == <<c1, i1, u1, a1, s1>>
           t2 == <<c2, i2, u2, a2, s2>>
<1>1. t1 = t2
  BY DEF MD5, Term
<1>2. t1[1] = t2[1] /\ t1[2] = t2[2] /\ t1[3] = t2[3] /\ t1[4] = t2[4] /\ t1[5] = t2[5]
  BY <1>1
<1> QED BY <1>2

\* Terms of different algorithms are different.
LEMMA TermsDiffer ==
    ASSUME NEW c, NEW i, NEW u, NEW a, NEW s, NEW pad, NEW x
    PROVE  /\ MD5(c, i, u, a, s) # Octets(x)
           /\ HMAC(c, i, u, a, pad, s) # Zeros
           /\ Octets(x) # Zeros
<1>1. "md5" # "octets" /\ "hmac" # "zeros" /\ "octets" # "zeros"
  OBVIOUS
<1>2. MD5(c, i, u, a, s).alg = "md5" /\ HMAC(c, i, u, a, pad, s).alg = "hmac"
  BY DEF MD5, HMAC, Term
<1>3. Octets(x).alg = "octets" /\ Zeros.alg = "zeros"
  BY DEF Octets, Zeros, Term
<1> QED BY <1>1, <1>2, <1>3

-----------------------------------------------------------------------------
\* What Marshal computes on the way.
Zeroed(p, secret) == ZeroAll(Serialized(p, secret), Authenticators(p.attrs))
Authed(p, secret) ==
    IF p.code \in DigestedCodes THEN MD5(p.code, p.id, Zeros, Zeroed(p, secret), secret) ELSE p.auth
Signature(p, secret) ==
    HMAC(p.code, p.id, Authed(p, secret), Zeroed(p, secret), NoOctets, secret)
Filled(p, secret) ==
    IF Authenticators(p.attrs) = {} THEN Zeroed(p, secret)
    ELSE Fill(Zeroed(p, secret), FirstOf(Authenticators(p.attrs)), Signature(p, secret))

\* Marshal in these terms.
LEMMA MarshalIs ==
    ASSUME NEW p, NEW secret
    PROVE  Marshal(p, secret) =
              Datagram(p.code, p.id,
                       IF p.code \in ReplyCodes
                       THEN MD5(p.code, p.id, Authed(p, secret), Filled(p, secret), secret)
                       ELSE Authed(p, secret),
                       Filled(p, secret))
BY DEF Marshal, Authed, Filled, Zeroed, Signature

\* The first of one position is that position.
LEMMA FirstOfOne == ASSUME NEW i \in Int PROVE FirstOf({i}) = i
<1>1. \E j \in {i} : \A k \in {i} : j <= k
  OBVIOUS
<1> QED BY <1>1 DEF FirstOf

\* Lists whose Values have the same sizes have the same Length.
LEMMA SameSizes ==
    ASSUME NEW s, NEW t, AttrSeq(s), AttrSeq(t), Len(s) = Len(t),
           \A i \in 1..Len(s) : s[i].size = t[i].size
    PROVE  PacketLength(s) = PacketLength(t)
<1>1. DOMAIN s = 1..Len(s) /\ DOMAIN t = 1..Len(s)
  BY AttrSeqIs
<1>2. [i \in DOMAIN s |-> s[i].size] = [i \in DOMAIN t |-> t[i].size]
  BY <1>1
<1> QED BY <1>2 DEF PacketLength

\* What Marshal writes is what it serialized, but for the one
\* Message-Authenticator there may be; zeroed again, that is what was signed.
LEMMA FilledIs ==
    ASSUME NEW p, AttrSeq(p.attrs), NEW secret, ~MarshalFails(p, secret)
    PROVE  LET s == Serialized(p, secret)
               ma == Authenticators(p.attrs)
               z == Zeroed(p, secret)
               f == Filled(p, secret)
           IN  /\ AttrSeq(f) /\ Len(f) = Len(p.attrs) /\ Authenticators(f) = ma
               /\ \A i \in 1..Len(f) : i \notin ma => f[i] = s[i]
               /\ \A i \in 1..Len(f) : f[i].size = s[i].size
               /\ ma = {} => f = z
               /\ \A i \in ma : /\ ma = {i} /\ FirstOf(ma) = i /\ i \in 1..Len(f)
                                /\ f[i] = Headed(p.attrs[i], Signature(p, secret))
                                /\ z[i] = Headed(p.attrs[i], Zeros)
                                /\ Fill(f, i, Zeros) = z
<1> DEFINE s == Serialized(p, secret)
           ma == Authenticators(p.attrs)
           z == Zeroed(p, secret)
           f == Filled(p, secret)
           n == Len(p.attrs)
           h == Signature(p, secret)
<1>1. n \in Nat /\ DOMAIN p.attrs = 1..n /\ \A i \in 1..n : IsAttribute(p.attrs[i])
  BY AttrSeqIs
<1>2. AttrSeq(s) /\ Len(s) = n /\ \A i \in 1..n : s[i].type = p.attrs[i].type
  BY SerializedIs
<1>3. \A i \in ma : i \in 1..n /\ p.attrs[i].type = MessageAuthenticator
  BY <1>1 DEF Authenticators
<1>4. \A i \in ma : ma = {i}
  BY DEF MarshalFails
<1>5. \A i \in ma : FirstOf(ma) = i
  <2> SUFFICES ASSUME NEW i \in ma PROVE FirstOf({i}) = i
    BY <1>4
  <2>1. i \in Int
    BY <1>1, <1>3
  <2> QED BY <2>1, FirstOfOne
<1>6. \A i \in ma : s[i] = p.attrs[i]
  <2>1. MessageAuthenticator # UserPassword
    BY DEF MessageAuthenticator, UserPassword
  <2> QED BY <1>2, <1>3, <2>1, SerializedIs
<1>7. Authenticators(s) = ma
  <2>1. DOMAIN s = 1..n
    BY <1>2, AttrSeqIs
  <2> HIDE DEF s
  <2> QED BY <1>1, <1>2, <2>1 DEF Authenticators
<1>8. ASSUME ma = {} PROVE z = s /\ f = s
  BY <1>8 DEF Zeroed, Filled, ZeroAll
<1>9. ASSUME NEW i \in ma
      PROVE  /\ AttrSeq(f) /\ Len(f) = n /\ Authenticators(f) = ma
             /\ \A j \in 1..Len(f) : j \notin ma => f[j] = s[j]
             /\ \A j \in 1..Len(f) : f[j].size = s[j].size
             /\ i \in 1..Len(f)
             /\ f[i] = Headed(p.attrs[i], h)
             /\ z[i] = Headed(p.attrs[i], Zeros)
             /\ Fill(f, i, Zeros) = z
  <2>1. z = Fill(s, i, Zeros) /\ f = Fill(z, i, h)
    BY <1>5 DEF Zeroed, Filled, ZeroAll
  <2>2. i \in 1..n /\ ma = {i}
    BY <1>3, <1>4
  <2> HIDE DEF s, z, f, h, n, ma
  <2>3. AttrSeq(z) /\ Len(z) = n /\ \A j \in 1..n : z[j] = IF j = i THEN Headed(s[j], Zeros) ELSE s[j]
    BY <1>2, <2>1, <2>2, FillIs
  <2>4. AttrSeq(f) /\ Len(f) = n /\ \A j \in 1..n : f[j] = IF j = i THEN Headed(z[j], h) ELSE z[j]
    BY <2>1, <2>2, <2>3, FillIs
  <2>5. Fill(f, i, Zeros) = z
    <3>1. Fill(f, i, Zeros) = Fill(z, i, Zeros)
      BY <2>1, <2>2, <2>3, FillTwice
    <3>2. Fill(z, i, Zeros) = Fill(s, i, Zeros)
      BY <1>2, <2>1, <2>2, FillTwice
    <3> QED BY <2>1, <3>1, <3>2
  <2>6. \A a, x : Headed(a, x).type = a.type /\ Headed(a, x).size = a.size
    BY DEF Headed, Attribute
  <2>7. \A a, x, y : Headed(Headed(a, x), y) = Headed(a, y)
    BY DEF Headed, Attribute
  <2>8. f[i] = Headed(p.attrs[i], h) /\ z[i] = Headed(p.attrs[i], Zeros)
    BY <1>6, <2>2, <2>3, <2>4, <2>7
  <2>9. \A j \in 1..n : f[j].type = s[j].type /\ f[j].size = s[j].size /\ (j # i => f[j] = s[j])
    BY <2>3, <2>4, <2>6
  <2>10. Authenticators(f) = ma
    <3>1. DOMAIN f = 1..n /\ DOMAIN s = 1..n
      BY <1>2, <2>4, AttrSeqIs
    <3>2. Authenticators(f) = Authenticators(s)
      BY <2>9, <3>1 DEF Authenticators
    <3> QED BY <1>7, <3>2
  <2> QED BY <2>2, <2>4, <2>5, <2>8, <2>9, <2>10
<1> HIDE DEF s, z, f, h, n, ma
<1>10. AttrSeq(f) /\ Len(f) = n /\ Authenticators(f) = ma
  <2>1. CASE ma = {}
    BY <1>2, <1>7, <1>8, <2>1
  <2>2. CASE ma # {}
    <3>1. PICK i \in ma : TRUE
      BY <2>2
    <3> QED BY <1>9, <3>1
  <2> QED BY <2>1, <2>2
<1>11. \A j \in 1..Len(f) : (j \notin ma => f[j] = s[j]) /\ f[j].size = s[j].size
  <2>1. CASE ma = {}
    BY <1>8, <2>1
  <2>2. CASE ma # {}
    <3>1. PICK i \in ma : TRUE
      BY <2>2
    <3> QED BY <1>9, <3>1
  <2> QED BY <2>1, <2>2
<1>12. ma = {} => f = z
  BY <1>8
<1> QED BY <1>4, <1>5, <1>9, <1>10, <1>11, <1>12 DEF s, z, f, h, n, ma

\* Zeroing the Message-Authenticator of 16 octets gives back what was signed.
LEMMA ZeroedAgain ==
    ASSUME NEW p, AttrSeq(p.attrs), NEW secret, ~MarshalFails(p, secret),
           ~LongMessageAuthenticator(p.attrs)
    PROVE  ZeroMessageAuthenticator(Filled(p, secret)) = Zeroed(p, secret)
<1> DEFINE ma == Authenticators(p.attrs)
           f == Filled(p, secret)
           z == Zeroed(p, secret)
           S == {i \in Authenticators(f) : f[i].size = 16}
<1>1. /\ Authenticators(f) = ma
      /\ ma = {} => f = z
      /\ \A i \in ma : ma = {i} /\ FirstOf(ma) = i /\ Fill(f, i, Zeros) = z
                       /\ f[i] = Headed(p.attrs[i], Signature(p, secret))
  BY Zenon, FilledIs
<1>2. \A i \in ma : p.attrs[i].size = 16
  BY DEF LongMessageAuthenticator
<1>3. \A a, x : Headed(a, x).size = a.size
  BY DEF Headed, Attribute
<1>4. ZeroMessageAuthenticator(f) = ZeroAll(f, S)
  BY DEF ZeroMessageAuthenticator
<1> HIDE DEF f, z, ma
<1>5. S = ma
  BY <1>1, <1>2, <1>3
<1> HIDE DEF S
<1>6. ZeroAll(f, ma) = z
  BY <1>1 DEF ZeroAll
<1> QED BY <1>4, <1>5, <1>6 DEF f, z

\* What the fields of a marshalled packet are.
LEMMA MarshalledFields ==
    ASSUME NEW p, NEW secret
    PROVE  LET d == Marshal(p, secret)
           IN  /\ d.code = p.code /\ d.id = p.id /\ d.attrs = Filled(p, secret)
               /\ d.pad = NoOctets /\ d.framing = "whole"
               /\ p.code \in ReplyCodes =>
                     d.auth = MD5(p.code, p.id, Authed(p, secret), Filled(p, secret), secret)
               /\ p.code \notin ReplyCodes => d.auth = Authed(p, secret)
               /\ d = [code |-> d.code, id |-> d.id, auth |-> d.auth, attrs |-> d.attrs,
                       pad |-> d.pad, framing |-> d.framing]
BY MarshalIs DEF Datagram

\* The codes of replies are no codes of requests.
LEMMA CodesAre ==
    /\ DigestedCodes \subseteq RequestCodes /\ "Access-Request" \notin DigestedCodes
    /\ \A c \in RequestCodes : c \notin ReplyCodes /\ (c \in DigestedCodes \/ c = "Access-Request")
    /\ \A c \in ValidCodes : c \in ReplyCodes \/ c \in RequestCodes
    /\ "none" \notin ValidCodes /\ "none" \notin RequestCodes /\ ReplyCodes \subseteq ValidCodes
BY DEF DigestedCodes, RequestCodes, ReplyCodes, ValidCodes, AccessCodes, AccountingCodes, DynamicCodes

\* What Marshal wrote Unmarshal reads, unless the code is digested and the
\* Message-Authenticator is longer than 16 octets.
LEMMA WholeIsRead ==
    ASSUME NEW p, AttrSeq(p.attrs), NEW secret, ~MarshalFails(p, secret),
           p.code \in DigestedCodes => ~LongMessageAuthenticator(p.attrs),
           NEW d, d.code = Marshal(p, secret).code, d.id = Marshal(p, secret).id,
           d.auth = Marshal(p, secret).auth, d.attrs = Marshal(p, secret).attrs, d.framing = "whole"
    PROVE  ~UnmarshalFails(d, secret)
<1>1. d.code = p.code /\ d.id = p.id /\ d.attrs = Filled(p, secret)
  BY MarshalledFields
<1>2. d.code \in ValidCodes
  BY <1>1 DEF MarshalFails
<1>3. PacketLength(d.attrs) = PacketLength(Serialized(p, secret))
  <2> DEFINE f == Filled(p, secret)
             s == Serialized(p, secret)
  <2>1. AttrSeq(f) /\ Len(f) = Len(p.attrs) /\ \A i \in 1..Len(f) : f[i].size = s[i].size
    BY FilledIs
  <2>2. AttrSeq(s) /\ Len(s) = Len(p.attrs)
    BY SerializedIs
  <2> HIDE DEF f, s
  <2>3. PacketLength(f) = PacketLength(s)
    BY <2>1, <2>2, SameSizes
  <2> QED BY <1>1, <2>3 DEF f, s
<1>4. ~(PacketLength(d.attrs) > MaxLengthForCode(d.code))
  BY <1>1, <1>3 DEF MarshalFails
<1>5. ASSUME d.code \in DigestedCodes
      PROVE  d.auth = MD5(d.code, d.id, Zeros, ZeroMessageAuthenticator(d.attrs), secret)
  <2>1. p.code \in DigestedCodes /\ p.code \notin ReplyCodes
    BY <1>1, <1>5, CodesAre
  <2>2. d.auth = Authed(p, secret)
    BY <2>1, MarshalledFields
  <2>3. ZeroMessageAuthenticator(d.attrs) = Zeroed(p, secret)
    BY <1>1, <2>1, ZeroedAgain
  <2> QED BY <1>1, <2>1, <2>2, <2>3 DEF Authed
<1> QED BY <1>2, <1>4, <1>5 DEF UnmarshalFails

-----------------------------------------------------------------------------
\* What may have become of the datagram o on its way.
OnTheWay(d, o, way) ==
    \/ way = "none" /\ d = o
    \/ way = "padded" /\ d = [o EXCEPT !.pad = Noise]
    \/ way = "altered" /\ d \in Altered(o) \ {o}

\* The request under construction.
BuildOK ==
    /\ req = [code |-> req.code, eap |-> req.eap, ma |-> req.ma, auth |-> req.auth, attrs |-> req.attrs]
    /\ req.code \in RequestCodes /\ req.auth \in {Zeros, Octets("supplied")} /\ AttrSeq(req.attrs)

\* What the client marshalled is what it sent.
SentOK ==
    /\ asked.code \in RequestCodes /\ AttrSeq(asked.attrs)
    /\ asked.code = "Access-Request" => asked.auth \in {Octets("random"), Octets("supplied")}
    /\ ~MarshalFails(asked, secrets.client)
    /\ sent = Marshal(asked, secrets.client)

\* What the server unmarshalled is the datagram that arrived.
GotOK ==
    \E d : /\ OnTheWay(d, sent, harm.request)
           /\ ~UnmarshalFails(d, secrets.server)
           /\ got = Unmarshal(d)

\* The handler's reply is to what the server unmarshalled.
DraftOK ==
    /\ draft = [code |-> draft.code, id |-> got.id, auth |-> got.auth, attrs |-> draft.attrs]
    /\ AttrSeq(draft.attrs)

\* The server sent the handler's reply, and that is what arrives.
AnsweredOK ==
    /\ GotOK /\ DraftOK
    /\ ~MarshalFails(draft, secrets.server)
    /\ answered = Marshal(draft, secrets.server)
    /\ OnTheWay(data, answered, harm.reply)

\* An earlier reply arrives instead.
EarlierOK ==
    /\ harm.reply = "earlier"
    /\ \E p \in EarlierReplies : data = Marshal(p, secrets.server)

Phases ==
    /\ phase \in {"build", "request", "handler", "reply", "done"}
    /\ harm = [request |-> harm.request, reply |-> harm.reply]
    /\ phase = "build" => harm.request = "none"
    /\ phase \in {"build", "request", "handler"} => harm.reply = "none"
    /\ phase \in {"build", "request"} => got = NoPacket /\ draft = NoPacket
    /\ phase # "done" => result = "none"

Ways ==
    /\ phase \in {"request", "handler", "reply"} => SentOK
    /\ phase = "request" => OnTheWay(data, sent, harm.request)
    /\ phase = "handler" => GotOK
    /\ got # NoPacket => SentOK /\ GotOK
    /\ phase = "handler" => draft = NoPacket \/ DraftOK
    /\ phase = "reply" => AnsweredOK \/ EarlierOK

ExchangeInv ==
    Phases /\ BuildOK /\ Ways /\ WhatIsSentIsRead /\ AcceptedReplyIsGenuine /\ RejectedForAReason

IsDatagram(d) ==
    d = [code |-> d.code, id |-> d.id, auth |-> d.auth, attrs |-> d.attrs,
         pad |-> d.pad, framing |-> d.framing]

\* What an altered datagram still has of the one it was.
LEMMA AlteredIs ==
    ASSUME NEW o, IsDatagram(o), AttrSeq(o.attrs), NEW d \in Altered(o)
    PROVE  /\ IsDatagram(d) /\ d.pad = o.pad /\ d.auth \in {o.auth, Noise}
           /\ DOMAIN d.attrs = DOMAIN o.attrs
           /\ \A i \in DOMAIN o.attrs : /\ d.attrs[i].head \in {o.attrs[i].head, Noise}
                                        /\ d.attrs[i].type \in {o.attrs[i].type, UserName}
                                        /\ d.attrs[i].size = o.attrs[i].size
<1>1. CASE \E c : d = [o EXCEPT !.code = c] \/ d = [o EXCEPT !.id = c] \/ d = [o EXCEPT !.framing = c]
  <2>1. IsDatagram(d) /\ d.pad = o.pad /\ d.auth = o.auth /\ d.attrs = o.attrs
    BY <1>1 DEF IsDatagram
  <2> QED BY <2>1
<1>2. CASE d = [o EXCEPT !.auth = Noise]
  <2>1. IsDatagram(d) /\ d.pad = o.pad /\ d.auth = Noise /\ d.attrs = o.attrs
    BY <1>2 DEF IsDatagram
  <2> QED BY <2>1
<1>3. CASE \E i \in DOMAIN o.attrs : d = [o EXCEPT !.attrs[i].head = Noise]
                                     \/ d = [o EXCEPT !.attrs[i].type = UserName]
  <2>1. PICK i \in DOMAIN o.attrs : d = [o EXCEPT !.attrs[i].head = Noise]
                                     \/ d = [o EXCEPT !.attrs[i].type = UserName]
    BY <1>3
  <2> DEFINE b == d.attrs
             a == o.attrs
  <2>2. IsDatagram(d) /\ d.pad = o.pad /\ d.auth = o.auth
        /\ (b = [a EXCEPT ![i].head = Noise] \/ b = [a EXCEPT ![i].type = UserName])
    BY <2>1 DEF IsDatagram
  <2>3. DOMAIN a = 1..Len(a) /\ a = [j \in 1..Len(a) |-> a[j]] /\ \A j \in 1..Len(a) : IsAttribute(a[j])
    BY AttrSeqIs
  <2> HIDE DEF a, b
  <2>4. DOMAIN b = DOMAIN a
    BY <2>2, <2>3
  <2>5. \A j \in DOMAIN a : \/ b[j] = a[j] \/ b[j] = [a[j] EXCEPT !.head = Noise]
                             \/ b[j] = [a[j] EXCEPT !.type = UserName]
    BY <2>2, <2>3
  <2>6. \A j \in DOMAIN a : /\ b[j].head \in {a[j].head, Noise}
                            /\ b[j].type \in {a[j].type, UserName}
                            /\ b[j].size = a[j].size
    <3> SUFFICES ASSUME NEW j \in DOMAIN a
                 PROVE  /\ b[j].head \in {a[j].head, Noise}
                        /\ b[j].type \in {a[j].type, UserName}
                        /\ b[j].size = a[j].size
      OBVIOUS
    <3>1. a[j] = Attribute(a[j].type, a[j].size, a[j].head, a[j].tail)
      BY <2>3 DEF IsAttribute
    <3>2. b[j] = a[j] \/ b[j] = [a[j] EXCEPT !.head = Noise] \/ b[j] = [a[j] EXCEPT !.type = UserName]
      BY <2>5
    <3>3. CASE b[j] = a[j]
      BY <3>3
    <3>4. CASE b[j] = [a[j] EXCEPT !.head = Noise]
      BY <3>1, <3>4 DEF Attribute
    <3>5. CASE b[j] = [a[j] EXCEPT !.type = UserName]
      BY <3>1, <3>5 DEF Attribute
    <3> QED BY <3>2, <3>3, <3>4, <3>5
  <2> QED BY <2>2, <2>4, <2>6 DEF a, b
<1> QED BY <1>1, <1>2, <1>3 DEF Altered

\* What a datagram on its way still has of the one that was sent.
LEMMA OnTheWayIs ==
    ASSUME NEW o, IsDatagram(o), AttrSeq(o.attrs), NEW d, NEW way, OnTheWay(d, o, way)
    PROVE  /\ way \in {"none", "padded", "altered"}
           /\ d.auth \in {o.auth, Noise}
           /\ DOMAIN d.attrs = DOMAIN o.attrs
           /\ \A i \in DOMAIN o.attrs : /\ d.attrs[i].head \in {o.attrs[i].head, Noise}
                                        /\ d.attrs[i].type \in {o.attrs[i].type, UserName}
                                        /\ d.attrs[i].size = o.attrs[i].size
           /\ way # "altered" => /\ d.code = o.code /\ d.id = o.id /\ d.auth = o.auth
                                  /\ d.attrs = o.attrs /\ d.framing = o.framing
           /\ way = "none" => d = o
           /\ way = "altered" => ~(/\ d.code = o.code /\ d.id = o.id /\ d.auth = o.auth
                                    /\ d.attrs = o.attrs /\ d.framing = o.framing)
<1>1. CASE way = "none" /\ d = o
  BY <1>1
<1>2. CASE way = "padded" /\ d = [o EXCEPT !.pad = Noise]
  <2>1. d.code = o.code /\ d.id = o.id /\ d.auth = o.auth /\ d.attrs = o.attrs /\ d.framing = o.framing
    BY <1>2 DEF IsDatagram
  <2> QED BY <1>2, <2>1
<1>3. CASE way = "altered" /\ d \in Altered(o) \ {o}
  <2>1. ASSUME d.code = o.code, d.id = o.id, d.auth = o.auth, d.attrs = o.attrs, d.framing = o.framing
        PROVE  FALSE
    <3>1. IsDatagram(d) /\ d.pad = o.pad
      BY <1>3, AlteredIs
    <3>2. d = o
      BY <2>1, <3>1 DEF IsDatagram
    <3> QED BY <1>3, <3>2
  <2> QED BY <1>3, <2>1, AlteredIs
<1> QED BY <1>1, <1>2, <1>3 DEF OnTheWay

\* What the client sent, in terms of what it was asked to.
LEMMA SentIs ==
    ASSUME SentOK
    PROVE  /\ IsDatagram(sent) /\ AttrSeq(sent.attrs) /\ Len(sent.attrs) = Len(asked.attrs)
           /\ sent.code = asked.code /\ sent.id = asked.id
           /\ sent.attrs = Filled(asked, secrets.client) /\ sent.pad = NoOctets /\ sent.framing = "whole"
           /\ sent.auth = Authed(asked, secrets.client)
           /\ sent.code \in RequestCodes /\ sent.code \notin ReplyCodes
           /\ sent.code \notin DigestedCodes => sent.auth \in {Octets("random"), Octets("supplied")}
           /\ sent.code \notin DigestedCodes => sent.auth = asked.auth
<1>1. asked.code \in RequestCodes /\ asked.code \notin ReplyCodes
      /\ (asked.code \in DigestedCodes \/ asked.code = "Access-Request")
  BY CodesAre DEF SentOK
<1>2. AttrSeq(Filled(asked, secrets.client)) /\ Len(Filled(asked, secrets.client)) = Len(asked.attrs)
  BY FilledIs DEF SentOK
<1>3. sent.auth = Authed(asked, secrets.client)
  BY <1>1, MarshalledFields DEF SentOK
<1>4. asked.code \notin DigestedCodes => /\ sent.auth \in {Octets("random"), Octets("supplied")}
                                         /\ sent.auth = asked.auth
  BY <1>1, <1>3 DEF SentOK, Authed
<1>5. /\ IsDatagram(sent) /\ sent.code = asked.code /\ sent.id = asked.id
      /\ sent.attrs = Filled(asked, secrets.client) /\ sent.pad = NoOctets /\ sent.framing = "whole"
  BY MarshalledFields DEF SentOK, IsDatagram
<1> QED BY <1>1, <1>2, <1>3, <1>4, <1>5

\* The same for what the server sent.
LEMMA AnsweredIs ==
    ASSUME AnsweredOK
    PROVE  /\ IsDatagram(answered) /\ AttrSeq(answered.attrs)
           /\ answered.code = draft.code /\ answered.id = draft.id
           /\ answered.attrs = Filled(draft, secrets.server)
           /\ answered.pad = NoOctets /\ answered.framing = "whole"
           /\ draft.code \in ReplyCodes =>
                 answered.auth = MD5(draft.code, draft.id, draft.auth, answered.attrs, secrets.server)
           /\ draft.code \notin ReplyCodes => answered.auth = Authed(draft, secrets.server)
           /\ draft.id = got.id /\ draft.auth = got.auth
<1>1. AttrSeq(Filled(draft, secrets.server)) /\ answered = Marshal(draft, secrets.server)
  BY FilledIs DEF AnsweredOK, DraftOK
<1>2. draft.code \in ReplyCodes => Authed(draft, secrets.server) = draft.auth
  BY CodesAre DEF Authed
<1>3. draft.id = got.id /\ draft.auth = got.auth
  BY DEF AnsweredOK, DraftOK
<1> QED BY <1>1, <1>2, <1>3, MarshalledFields DEF IsDatagram

-----------------------------------------------------------------------------
\* What the server unmarshalled, field by field.
LEMMA GotIs ==
    ASSUME SentOK, GotOK
    PROVE  \E d : /\ OnTheWay(d, sent, harm.request) /\ ~UnmarshalFails(d, secrets.server)
                  /\ got.code = d.code /\ got.id = d.id /\ got.auth = d.auth /\ got.attrs = d.attrs
                  /\ got.code \in ValidCodes /\ got # NoPacket
<1>1. PICK d : OnTheWay(d, sent, harm.request) /\ ~UnmarshalFails(d, secrets.server) /\ got = Unmarshal(d)
  BY DEF GotOK
<1>2. got.code = d.code /\ got.id = d.id /\ got.auth = d.auth /\ got.attrs = d.attrs
  BY <1>1 DEF Unmarshal
<1>3. d.code \in ValidCodes
  BY <1>1 DEF UnmarshalFails
<1>4. NoPacket.code = "none"
  BY DEF NoPacket
<1>5. got # NoPacket
  BY <1>2, <1>3, <1>4, CodesAre
<1> QED BY <1>1, <1>2, <1>3, <1>5

\* The server refuses what the client sent for two reasons only.
LEMMA DroppedForAReason ==
    ASSUME SentOK, OnTheWay(data, sent, harm.request), UnmarshalFails(data, secrets.server)
    PROVE  \/ harm.request = "altered"
           \/ secrets.client # secrets.server
           \/ asked.code \in DigestedCodes /\ LongMessageAuthenticator(asked.attrs)
<1> SUFFICES ASSUME harm.request # "altered", secrets.client = secrets.server,
                    asked.code \in DigestedCodes => ~LongMessageAuthenticator(asked.attrs)
             PROVE  FALSE
  OBVIOUS
<1>1. data.code = sent.code /\ data.id = sent.id /\ data.auth = sent.auth /\ data.attrs = sent.attrs
      /\ data.framing = "whole"
  BY SentIs, OnTheWayIs
<1>2. sent = Marshal(asked, secrets.client) /\ AttrSeq(asked.attrs) /\ ~MarshalFails(asked, secrets.client)
  BY DEF SentOK
<1> QED BY <1>1, <1>2, WholeIsRead

\* Whatever reaches a handler with a digested code has the Authenticator the
\* client computed for it, and so everything the Authenticator covers.
LEMMA DigestedIsIntact == ASSUME SentOK, GotOK PROVE DigestedRequestIsIntact
<1> SUFFICES ASSUME got.code \in DigestedCodes
             PROVE  /\ secrets.client = secrets.server
                    /\ <<got.code, got.id, got.auth>> = <<sent.code, sent.id, sent.auth>>
                    /\ ZeroMessageAuthenticator(got.attrs) = ZeroMessageAuthenticator(sent.attrs)
  BY DEF DigestedRequestIsIntact
<1> DEFINE z == Zeroed(asked, secrets.client)
           ma == Authenticators(asked.attrs)
<1>1. PICK d : /\ OnTheWay(d, sent, harm.request) /\ ~UnmarshalFails(d, secrets.server)
               /\ got.code = d.code /\ got.id = d.id /\ got.auth = d.auth /\ got.attrs = d.attrs
  BY GotIs
<1>2. d.auth = MD5(d.code, d.id, Zeros, ZeroMessageAuthenticator(d.attrs), secrets.server)
  BY <1>1 DEF UnmarshalFails
<1>3. d.auth = sent.auth /\ sent.code \in DigestedCodes
  <2>1. d.auth \in {sent.auth, Noise}
    BY <1>1, SentIs, OnTheWayIs
  <2>2. d.auth # Octets("noise") /\ d.auth # Octets("random") /\ d.auth # Octets("supplied")
    BY <1>2, TermsDiffer
  <2> QED BY <2>1, <2>2, SentIs DEF Noise
<1>4. sent.auth = MD5(asked.code, asked.id, Zeros, z, secrets.client) /\ sent.code = asked.code /\ sent.id = asked.id
  BY <1>3, SentIs DEF Authed
<1>5. /\ d.code = asked.code /\ d.id = asked.id /\ secrets.client = secrets.server
      /\ ZeroMessageAuthenticator(d.attrs) = z
  <2> HIDE DEF z
  <2>1. MD5(d.code, d.id, Zeros, ZeroMessageAuthenticator(d.attrs), secrets.server)
           = MD5(asked.code, asked.id, Zeros, z, secrets.client)
    BY <1>2, <1>3, <1>4
  <2> QED BY <2>1, MD5Injective
<1>6. ~LongMessageAuthenticator(asked.attrs)
  <2> SUFFICES ASSUME NEW j \in ma, asked.attrs[j].size # 16 PROVE FALSE
    BY DEF LongMessageAuthenticator
  <2> DEFINE sig == Signature(asked, secrets.client)
             S == {i \in Authenticators(d.attrs) : d.attrs[i].size = 16}
  <2>1. /\ ma = {j} /\ j \in 1..Len(sent.attrs) /\ Authenticators(sent.attrs) = ma
        /\ sent.attrs[j] = Headed(asked.attrs[j], sig) /\ z[j] = Headed(asked.attrs[j], Zeros)
    <3>1. sent.attrs = Filled(asked, secrets.client)
      BY SentIs
    <3>2. AttrSeq(asked.attrs) /\ ~MarshalFails(asked, secrets.client)
      BY DEF SentOK
    <3> DEFINE f == Filled(asked, secrets.client)
    <3>3. Authenticators(f) = ma /\ ma = {j} /\ j \in 1..Len(f)
          /\ f[j] = Headed(asked.attrs[j], sig) /\ z[j] = Headed(asked.attrs[j], Zeros)
      BY <3>2, FilledIs
    <3> HIDE DEF f, z, sig, ma
    <3> QED BY <3>1, <3>3 DEF f
  <2>2. sent.attrs[j].head = sig /\ sent.attrs[j].size # 16 /\ z[j].head = Zeros
    BY <2>1 DEF Headed, Attribute
  <2>3. DOMAIN sent.attrs = 1..Len(sent.attrs) /\ DOMAIN d.attrs = DOMAIN sent.attrs
        /\ \A i \in DOMAIN sent.attrs : /\ d.attrs[i].head \in {sent.attrs[i].head, Noise}
                                        /\ d.attrs[i].type \in {sent.attrs[i].type, UserName}
                                        /\ d.attrs[i].size = sent.attrs[i].size
    BY <1>1, SentIs, OnTheWayIs, AttrSeqIs
  <2>4. S = {}
    <3>1. Authenticators(d.attrs) \subseteq Authenticators(sent.attrs)
      BY <2>3 DEF Authenticators, UserName, MessageAuthenticator
    <3> QED BY <2>1, <2>2, <2>3, <3>1
  <2>5. d.attrs = z
    <3>1. ZeroMessageAuthenticator(d.attrs) = ZeroAll(d.attrs, S)
      BY DEF ZeroMessageAuthenticator
    <3> HIDE DEF S, z
    <3> QED BY <1>5, <2>4, <3>1 DEF ZeroAll
  <2>6. d.attrs[j].head \in {sig, Noise} /\ d.attrs[j].head = Zeros
    <3> HIDE DEF z, sig
    <3> QED BY <2>1, <2>2, <2>3, <2>5
  <2>7. sig # Zeros /\ Noise # Zeros
    BY TermsDiffer DEF Signature, Noise
  <2> HIDE DEF sig
  <2> QED BY <2>6, <2>7
<1>7. ZeroMessageAuthenticator(sent.attrs) = z
  <2>1. sent.attrs = Filled(asked, secrets.client)
    BY SentIs
  <2> QED BY <1>6, <2>1, ZeroedAgain DEF SentOK
<1> HIDE DEF z
<1> QED BY <1>1, <1>3, <1>4, <1>5, <1>7

\* What was sent signed with a secret verifies with it.
LEMMA SignedVerifies ==
    ASSUME NEW p, AttrSeq(p.attrs), NEW secret, ~MarshalFails(p, secret),
           NEW d, d.code = p.code, d.id = p.id, d.attrs = Filled(p, secret), d.pad = NoOctets,
           Authenticators(d.attrs) # {},
           NEW auth, (IF p.code \in RequestCodes THEN d.auth ELSE auth) = Authed(p, secret)
    PROVE  MessageVerifies(d, auth, secret)
<1> DEFINE ma == Authenticators(d.attrs)
           z == Zeroed(p, secret)
<1>1. ma = Authenticators(p.attrs)
  BY FilledIs
<1>2. PICK i \in ma : TRUE
  OBVIOUS
<1>3. FirstOf(ma) = i /\ d.attrs[i] = Headed(p.attrs[i], Signature(p, secret)) /\ Fill(d.attrs, i, Zeros) = z
  BY <1>1, <1>2, FilledIs
<1>4. d.attrs[i].head = Signature(p, secret)
  BY <1>3 DEF Headed, Attribute
<1>5. Signature(p, secret) = HMAC(p.code, p.id, Authed(p, secret), z, NoOctets, secret)
  BY DEF Signature
<1>6. ma # {}
  OBVIOUS
<1> HIDE DEF ma, z
<1>7. MessageVerifies(d, auth, secret) <=>
         /\ ma # {}
         /\ d.attrs[FirstOf(ma)].head =
               HMAC(d.code, d.id, IF d.code \in RequestCodes THEN d.auth ELSE auth,
                    Fill(d.attrs, FirstOf(ma), Zeros), d.pad, secret)
  BY DEF MessageVerifies, ma
<1> QED BY <1>3, <1>4, <1>5, <1>6, <1>7

\* What the client was asked to send is what the handler sees, attribute by
\* attribute.
LEMMA UnharmedIsSeen ==
    ASSUME SentOK, GotOK, harm.request # "altered", secrets.client = secrets.server
    PROVE  HandlerSeesTheRequest
<1> DEFINE Same(i) ==
              LET a == asked.attrs[i] b == got.attrs[i]
              IN  CASE a.type = MessageAuthenticator ->
                          b = [a EXCEPT !.head = b.head]
                    [] a.type = UserPassword /\ got.code = "Access-Request" ->
                          b.type = a.type /\ Reveals(b, a, got.auth, secrets.server)
                    [] OTHER -> b = a
<1>1. PICK d : /\ OnTheWay(d, sent, harm.request)
               /\ got.code = d.code /\ got.id = d.id /\ got.auth = d.auth /\ got.attrs = d.attrs
  BY GotIs
<1>2. got.code = asked.code /\ got.id = asked.id /\ got.auth = sent.auth /\ got.attrs = sent.attrs
  BY <1>1, SentIs, OnTheWayIs
<1>3. AttrSeq(asked.attrs) /\ ~MarshalFails(asked, secrets.client)
  BY DEF SentOK
<1>4. sent.attrs = Filled(asked, secrets.client) /\ Len(got.attrs) = Len(asked.attrs)
      /\ sent.auth = Authed(asked, secrets.client)
  BY <1>2, SentIs
<1>5. DOMAIN asked.attrs = 1..Len(asked.attrs) /\ \A i \in DOMAIN asked.attrs : IsAttribute(asked.attrs[i])
  BY <1>3, AttrSeqIs
<1>6. ASSUME NEW i \in DOMAIN asked.attrs PROVE Same(i)
  <2> DEFINE a == asked.attrs[i]
             b == got.attrs[i]
  <2>1. CASE a.type = MessageAuthenticator
    <3>1. i \in Authenticators(asked.attrs)
      BY <2>1 DEF Authenticators
    <3>2. b = Headed(a, Signature(asked, secrets.client))
      BY <1>2, <1>3, <1>4, <3>1, FilledIs
    <3>3. a = Attribute(a.type, a.size, a.head, a.tail)
      BY <1>5 DEF IsAttribute
    <3> HIDE DEF a, b
    <3>4. b = [a EXCEPT !.head = b.head]
      BY <3>2, <3>3 DEF Headed, Attribute
    <3>5. MessageAuthenticator # UserPassword
      BY DEF MessageAuthenticator, UserPassword
    <3> QED BY <2>1, <3>4, <3>5 DEF a, b
  <2>2. CASE a.type # MessageAuthenticator
    <3>1. i \notin Authenticators(asked.attrs) /\ i \in 1..Len(asked.attrs)
      BY <1>5, <2>2 DEF Authenticators
    <3>2. b = Serialized(asked, secrets.client)[i]
      <4>1. Len(Filled(asked, secrets.client)) = Len(asked.attrs)
        BY <1>2, <1>4
      <4> QED BY <1>2, <1>3, <1>4, <3>1, <4>1, FilledIs
    <3>3. b = IF a.type = UserPassword /\ asked.code = "Access-Request"
              THEN Hide(a, asked.auth, secrets.client) ELSE a
      BY <1>3, <3>1, <3>2, SerializedIs
    <3>4. ASSUME asked.code = "Access-Request" PROVE got.auth = asked.auth
      BY <1>2, <1>4, <3>4, CodesAre DEF Authed
    <3>5. \A x : Hide(a, x, secrets.client).type = a.type /\ Reveals(Hide(a, x, secrets.client), a, x, secrets.client)
      BY DEF Hide, Reveals, Attribute
    <3> HIDE DEF a, b
    <3>6. CASE a.type = UserPassword /\ asked.code = "Access-Request"
      <4>1. b.type = a.type /\ Reveals(b, a, got.auth, secrets.server)
        BY <3>3, <3>4, <3>5, <3>6
      <4> QED BY <1>2, <2>2, <3>6, <4>1 DEF a, b
    <3>7. CASE ~(a.type = UserPassword /\ asked.code = "Access-Request")
      <4>1. b = a
        BY <3>3, <3>7
      <4> QED BY <1>2, <2>2, <3>7, <4>1 DEF a, b
    <3> QED BY <3>6, <3>7
  <2> QED BY <2>1, <2>2
<1>7. ASSUME HasMessageAuthenticator(got.attrs) PROVE MessageVerifies(sent, sent.auth, secrets.server)
  <2>1. Authenticators(sent.attrs) # {}
    BY <1>2, <1>7 DEF HasMessageAuthenticator
  <2>2. sent.code = asked.code /\ sent.id = asked.id /\ sent.pad = NoOctets
    BY SentIs
  <2> QED BY <1>3, <1>4, <2>1, <2>2, SignedVerifies
<1> HIDE DEF Same
<1> QED BY <1>2, <1>4, <1>6, <1>7 DEF HandlerSeesTheRequest, Same

\* The Request Authenticator is random, supplied or the digest of a request.
LEMMA RequestAuthIs ==
    ASSUME SentOK, NEW code \in ReplyCodes, NEW id, NEW auth, NEW attrs, NEW secret
    PROVE  /\ sent.auth # MD5(code, id, auth, attrs, secret)
           /\ sent.auth # Octets("earlier")
<1>1. CASE sent.code \notin DigestedCodes
  <2>1. sent.auth \in {Octets("random"), Octets("supplied")}
    BY <1>1, SentIs
  <2>2. Octets("random") # Octets("earlier") /\ Octets("supplied") # Octets("earlier")
    BY DEF Octets, Term
  <2> QED BY <2>1, <2>2, TermsDiffer
<1>2. CASE sent.code \in DigestedCodes
  <2>1. sent.auth = MD5(asked.code, asked.id, Zeros, Zeroed(asked, secrets.client), secrets.client)
    BY <1>2, SentIs DEF Authed
  <2>2. asked.code # code
    BY SentIs
  <2>3. sent.auth # MD5(code, id, auth, attrs, secret)
    BY <2>1, <2>2, MD5Injective
  <2> QED BY <2>1, <2>3, TermsDiffer
<1> QED BY <1>1, <1>2

\* What the client verifies, of what the server sent for this request, is its
\* reply to it.
LEMMA VerifiedIsGenuine ==
    ASSUME SentOK, AnsweredOK,
           VerifyResponse(data, asked.id, sent.auth, secrets.client)
    PROVE  /\ secrets.client = secrets.server
           /\ harm.reply \in {"none", "padded"}
           /\ draft.auth = sent.auth
           /\ <<data.code, data.id, data.auth, data.attrs>> =
                 <<answered.code, answered.id, answered.auth, answered.attrs>>
<1>1. /\ data.code \in ReplyCodes /\ data.framing = "whole"
      /\ data.auth = MD5(data.code, data.id, sent.auth, data.attrs, secrets.client)
  BY DEF VerifyResponse, ResponseVerifies, UnmarshalFails
<1>2. GotOK /\ OnTheWay(data, answered, harm.reply)
  BY DEF AnsweredOK
<1>3. data.auth = answered.auth
  <2>1. data.auth \in {answered.auth, Noise}
    BY <1>2, AnsweredIs, OnTheWayIs
  <2> QED BY <1>1, <2>1, TermsDiffer DEF Noise
<1>4. CASE draft.code \in ReplyCodes
  <2>1. MD5(draft.code, draft.id, draft.auth, answered.attrs, secrets.server) =
           MD5(data.code, data.id, sent.auth, data.attrs, secrets.client)
    BY <1>1, <1>2, <1>3, <1>4, AnsweredIs
  <2>2. /\ draft.code = data.code /\ draft.id = data.id /\ draft.auth = sent.auth
        /\ answered.attrs = data.attrs /\ secrets.server = secrets.client
    BY <2>1, MD5Injective
  <2>3. answered.code = draft.code /\ answered.id = draft.id /\ answered.framing = "whole"
    BY <1>2, AnsweredIs
  <2>4. harm.reply \in {"none", "padded"}
    <3>1. harm.reply # "altered"
      BY <1>1, <1>2, <1>3, <2>2, <2>3, AnsweredIs, OnTheWayIs
    <3>2. harm.reply \in {"none", "padded", "altered"}
      BY <1>2, AnsweredIs, OnTheWayIs
    <3> QED BY <3>1, <3>2
  <2> QED BY <1>3, <2>2, <2>3, <2>4
<1>5. CASE draft.code \notin ReplyCodes
  <2>1. draft.code \in DigestedCodes \/ Authed(draft, secrets.server) = draft.auth
    BY DEF Authed
  <2>2. answered.auth = Authed(draft, secrets.server) /\ draft.auth = got.auth
    BY <1>2, <1>5, AnsweredIs
  <2>3. CASE draft.code \in DigestedCodes
    <3>1. answered.auth = MD5(draft.code, draft.id, Zeros, Zeroed(draft, secrets.server), secrets.server)
      BY <2>2, <2>3 DEF Authed
    <3>2. draft.code = data.code
      <4>1. MD5(draft.code, draft.id, Zeros, Zeroed(draft, secrets.server), secrets.server) =
               MD5(data.code, data.id, sent.auth, data.attrs, secrets.client)
        BY <1>1, <1>3, <3>1
      <4> QED BY <4>1, MD5Injective
    <3> QED BY <1>1, <1>5, <3>2
  <2>4. CASE Authed(draft, secrets.server) = draft.auth
    <3>1. got.auth = MD5(data.code, data.id, sent.auth, data.attrs, secrets.client)
      BY <1>1, <1>3, <2>2, <2>4
    <3>2. got.auth \in {sent.auth, Noise}
      BY <1>2, GotIs, SentIs, OnTheWayIs
    <3> QED BY <1>1, <3>1, <3>2, RequestAuthIs, TermsDiffer DEF Noise
  <2> QED BY <2>1, <2>3, <2>4
<1> QED BY <1>4, <1>5

\* What an earlier reply is.
LEMMA EarlierIs ==
    ASSUME NEW p \in EarlierReplies
    PROVE  /\ AttrSeq(p.attrs) /\ ~MarshalFails(p, secrets.server)
           /\ p.id = asked.id /\ p.auth \in EarlierAuths
<1> DEFINE lists == {<<>>} \cup {<<a>> : a \in Replied}
<1>1. p \in [code : Codes, id : {asked.id}, auth : EarlierAuths, attrs : lists]
      /\ ~MarshalFails(p, secrets.server)
  BY DEF EarlierReplies
<1>2. AttrSeq(p.attrs)
  <2>1. CASE p.attrs = <<>>
    BY <2>1, NoAttrs
  <2>2. CASE \E a \in Replied : p.attrs = <<a>>
    <3>1. PICK a \in Replied : p.attrs = <<a>>
      BY <2>2
    <3>2. IsAttribute(a)
      BY AttributesAreAttributes
    <3> DEFINE U == {a}
    <3>3. a \in U /\ \A b \in U : IsAttribute(b)
      BY <3>2
    <3> HIDE DEF U
    <3>4. p.attrs \in Seq(U)
      BY <3>1, <3>3
    <3> QED BY <3>3, <3>4 DEF AttrSeq
  <2> QED BY <1>1, <2>1, <2>2
<1> HIDE DEF lists
<1> QED BY <1>1, <1>2

\* An earlier reply the client verifies is one under the same Request
\* Authenticator.
LEMMA VerifiedIsRepeated ==
    ASSUME SentOK, EarlierOK,
           VerifyResponse(data, asked.id, sent.auth, secrets.client)
    PROVE  secrets.client = secrets.server /\ Repeatable /\ AnsweredBefore
<1>1. /\ data.code \in ReplyCodes
      /\ data.auth = MD5(data.code, data.id, sent.auth, data.attrs, secrets.client)
  BY DEF VerifyResponse, ResponseVerifies
<1>2. PICK p \in EarlierReplies : data = Marshal(p, secrets.server)
  BY DEF EarlierOK
<1>3. p.code \in ReplyCodes
  BY <1>1, <1>2, MarshalledFields
<1>4. data.auth = MD5(p.code, p.id, Authed(p, secrets.server), Filled(p, secrets.server), secrets.server)
  BY <1>2, <1>3, MarshalledFields
<1>5. Authed(p, secrets.server) = p.auth
  BY <1>3, CodesAre DEF Authed
<1>6. p.auth = sent.auth /\ secrets.server = secrets.client
  <2>1. MD5(p.code, p.id, Authed(p, secrets.server), Filled(p, secrets.server), secrets.server) =
           MD5(data.code, data.id, sent.auth, data.attrs, secrets.client)
    BY <1>1, <1>4
  <2>2. Authed(p, secrets.server) = sent.auth /\ secrets.server = secrets.client
    BY <2>1, MD5Injective
  <2> QED BY <1>5, <2>2
<1>7. Repeatable
  <2>1. p.auth \in EarlierAuths
    BY <1>2, EarlierIs
  <2>2. sent.auth # Octets("earlier")
    BY <1>3, RequestAuthIs
  <2> QED BY <1>6, <2>1, <2>2 DEF EarlierAuths
<1>8. AnsweredBefore
  BY <1>2, <1>3, <1>6 DEF AnsweredBefore, EarlierOK
<1> QED BY <1>6, <1>7, <1>8

\* What a server signs for a Request Authenticator verifies against it.
LEMMA RepliesVerify ==
    ASSUME NEW p, AttrSeq(p.attrs), NEW secret, ~MarshalFails(p, secret), p.code \in ReplyCodes,
           NEW d, d.code = Marshal(p, secret).code, d.id = Marshal(p, secret).id,
           d.auth = Marshal(p, secret).auth, d.attrs = Marshal(p, secret).attrs, d.framing = "whole",
           Authenticators(d.attrs) # {} => d.pad = NoOctets
    PROVE  VerifyResponse(d, p.id, p.auth, secret)
<1>1. p.code \notin DigestedCodes /\ p.code \notin RequestCodes
  BY CodesAre
<1>2. ~UnmarshalFails(d, secret)
  BY <1>1, WholeIsRead
<1>3. /\ d.code = p.code /\ d.id = p.id /\ d.attrs = Filled(p, secret)
      /\ d.auth = MD5(p.code, p.id, Authed(p, secret), Filled(p, secret), secret)
      /\ Authed(p, secret) = p.auth
  BY <1>1, MarshalledFields DEF Authed
<1>4. ResponseVerifies(d, p.auth, secret)
  BY <1>3 DEF ResponseVerifies
<1>5. ASSUME Authenticators(d.attrs) # {} PROVE MessageVerifies(d, p.auth, secret)
  BY <1>1, <1>3, <1>5, SignedVerifies
<1> QED BY <1>2, <1>3, <1>4, <1>5 DEF VerifyResponse

\* A reply of this server to this request verifies unless something happened
\* to it.
LEMMA UnharmedVerifies ==
    ASSUME SentOK, AnsweredOK,
           harm.reply # "altered", harm.request # "altered",
           secrets.client = secrets.server, draft.code \in ReplyCodes,
           ~(harm.reply = "padded" /\ HasMessageAuthenticator(answered.attrs))
    PROVE  VerifyResponse(data, asked.id, sent.auth, secrets.client)
<1>1. /\ ~MarshalFails(draft, secrets.server) /\ answered = Marshal(draft, secrets.server)
      /\ OnTheWay(data, answered, harm.reply) /\ AttrSeq(draft.attrs) /\ GotOK
  BY DEF AnsweredOK, DraftOK
<1>2. /\ data.code = answered.code /\ data.id = answered.id /\ data.auth = answered.auth
      /\ data.attrs = answered.attrs /\ data.framing = "whole"
  BY <1>1, AnsweredIs, OnTheWayIs
<1>3. draft.id = asked.id /\ draft.auth = sent.auth
  BY <1>1, GotIs, SentIs, OnTheWayIs, AnsweredIs
<1>4. ASSUME Authenticators(data.attrs) # {} PROVE data.pad = NoOctets
  <2>1. harm.reply = "none"
    <3>1. harm.reply \in {"none", "padded", "altered"}
      BY <1>1, AnsweredIs, OnTheWayIs
    <3> QED BY <1>2, <1>4, <3>1 DEF HasMessageAuthenticator
  <2> QED BY <1>1, <2>1, AnsweredIs, OnTheWayIs
<1> QED BY <1>1, <1>2, <1>3, <1>4, RepliesVerify

\* So does an earlier reply under the same Request Authenticator.
LEMMA RepeatedVerifies ==
    ASSUME AnsweredBefore, secrets.client = secrets.server
    PROVE  VerifyResponse(data, asked.id, sent.auth, secrets.client)
<1>1. PICK p \in EarlierReplies :
         p.auth = sent.auth /\ p.code \in ReplyCodes /\ data = Marshal(p, secrets.server)
  BY DEF AnsweredBefore
<1>2. AttrSeq(p.attrs) /\ ~MarshalFails(p, secrets.server) /\ p.id = asked.id
  BY EarlierIs
<1>3. data.framing = "whole" /\ data.pad = NoOctets
  BY <1>1, MarshalledFields
<1> QED BY <1>1, <1>2, <1>3, RepliesVerify

-----------------------------------------------------------------------------
\* SentOK, GotOK and DraftOK are about what they name.
LEMMA StableFacts ==
    /\ SentOK /\ UNCHANGED <<asked, secrets, sent>> => SentOK'
    /\ GotOK /\ UNCHANGED <<sent, secrets, got>> /\ harm'.request = harm.request => GotOK'
    /\ DraftOK /\ UNCHANGED <<draft, got>> => DraftOK'
    /\ BuildOK /\ UNCHANGED req => BuildOK'
    /\ AnsweredOK /\ UNCHANGED <<sent, secrets, harm, got, draft, answered, data>> => AnsweredOK'
    /\ EarlierOK /\ UNCHANGED <<asked, sent, secrets, harm, data>> => EarlierOK'
<1>1. SentOK /\ UNCHANGED <<asked, secrets, sent>> => SentOK'
  BY DEF SentOK
<1>2. GotOK /\ UNCHANGED <<sent, secrets, got>> /\ harm'.request = harm.request => GotOK'
  BY DEF GotOK
<1>3. DraftOK /\ UNCHANGED <<draft, got>> => DraftOK'
  BY DEF DraftOK
<1>4. BuildOK /\ UNCHANGED req => BuildOK'
  BY DEF BuildOK
<1>5. AnsweredOK /\ UNCHANGED <<sent, secrets, harm, got, draft, answered, data>> => AnsweredOK'
  BY <1>2, <1>3 DEF AnsweredOK
<1>6. EarlierOK /\ UNCHANGED <<asked, sent, secrets, harm, data>> => EarlierOK'
  BY DEF EarlierOK, EarlierReplies, EarlierAuths, Repeatable
<1> QED BY <1>1, <1>2, <1>3, <1>4, <1>5, <1>6

\* Before anything is sent, dropped or judged the properties hold.
LEMMA NothingJudged ==
    ASSUME result' \notin {"dropped", "accepted", "rejected"}
    PROVE  WhatIsSentIsRead' /\ AcceptedReplyIsGenuine' /\ RejectedForAReason'
BY DEF WhatIsSentIsRead, AcceptedReplyIsGenuine, RejectedForAReason

\* A new request has no attributes.
LEMMA ExchangeInitially == Init => ExchangeInv
<1> SUFFICES ASSUME Init PROVE ExchangeInv
  OBVIOUS
<1>1. Phases
  BY DEF Init, Phases
<1>2. BuildOK
  <2>1. AttrSeq(<<>>)
    BY NoAttrs
  <2>2. req \in [code : RequestCodes \cap Codes, eap : {FALSE}, ma : {"default"},
                 auth : {Zeros}, attrs : {<<>>}]
    BY DEF Init
  <2>3. req.attrs = <<>> /\ req.code \in RequestCodes /\ req.auth = Zeros
    BY <2>2
  <2>4. req = [code |-> req.code, eap |-> req.eap, ma |-> req.ma, auth |-> req.auth, attrs |-> req.attrs]
    BY <2>2
  <2> QED BY <2>1, <2>3, <2>4 DEF BuildOK
<1>3. Ways
  BY DEF Init, Ways
<1>4. WhatIsSentIsRead /\ AcceptedReplyIsGenuine /\ RejectedForAReason
  BY DEF Init, WhatIsSentIsRead, AcceptedReplyIsGenuine, RejectedForAReason
<1> QED BY <1>1, <1>2, <1>3, <1>4 DEF ExchangeInv

\* Building changes the request and nothing else.
LEMMA BuildKeepsInv ==
    ASSUME ExchangeInv, NEW change, Build(change),
           change = [code |-> change.code, eap |-> change.eap, ma |-> change.ma,
                     auth |-> change.auth, attrs |-> change.attrs],
           change.code \in RequestCodes, change.auth \in {Zeros, Octets("supplied")},
           AttrSeq(change.attrs)
    PROVE  ExchangeInv'
<1>1. /\ phase = "build" /\ req' = change
      /\ UNCHANGED <<phase, secrets, asked, sent, data, harm, result, got, draft, answered>>
  BY DEF Build, FromServer
<1>2. Phases'
  BY <1>1 DEF ExchangeInv, Phases
<1>3. BuildOK'
  BY <1>1 DEF BuildOK
<1>4. Ways'
  BY <1>1 DEF ExchangeInv, Phases, Ways
<1>5. WhatIsSentIsRead' /\ AcceptedReplyIsGenuine' /\ RejectedForAReason'
  BY <1>1, NothingJudged DEF ExchangeInv, Phases
<1> QED BY <1>2, <1>3, <1>4, <1>5 DEF ExchangeInv

\* What the builders leave is a request.
LEMMA BuildersKeepInv ==
    ASSUME ExchangeInv, PAP \/ EAP \/ Authenticator \/ Attr \/ Attrs \/ OverrideMA
    PROVE  ExchangeInv'
<1>1. /\ req = [code |-> req.code, eap |-> req.eap, ma |-> req.ma, auth |-> req.auth, attrs |-> req.attrs]
      /\ req.code \in RequestCodes /\ req.auth \in {Zeros, Octets("supplied")} /\ AttrSeq(req.attrs)
  BY DEF ExchangeInv, BuildOK
<1>2. ASSUME PAP PROVE ExchangeInv'
  <2> DEFINE user == Attribute(UserName, 16, Octets("user"), NoOctets)
  <2>1. PICK password \in Passwords :
           Build([req EXCEPT !.eap = FALSE, !.attrs = @ \o <<user, password>>])
    BY <1>2 DEF PAP
  <2> DEFINE list == req.attrs \o <<user, password>>
             r == [code |-> req.code, eap |-> FALSE, ma |-> req.ma, auth |-> req.auth, attrs |-> list]
  <2>2. IsAttribute(user) /\ IsAttribute(password)
    BY AttributesAreAttributes DEF IsAttribute, Attribute
  <2> HIDE DEF user
  <2>3. AttrSeq(list)
    BY <1>1, <2>2, AttrSeqEdits
  <2>4. Build([req EXCEPT !.eap = FALSE, !.attrs = list])
    BY <2>1
  <2>5. [req EXCEPT !.eap = FALSE, !.attrs = list] = r
    <3> HIDE DEF list
    <3>1. \A x, y : [req EXCEPT !.eap = x, !.attrs = y] =
             [code |-> req.code, eap |-> x, ma |-> req.ma, auth |-> req.auth, attrs |-> y]
      <4> TAKE x, y
      <4> DEFINE R == [req EXCEPT !.eap = x]
      <4>1. [req EXCEPT !.eap = x, !.attrs = y] = [R EXCEPT !.attrs = y]
        OBVIOUS
      <4>2. R = [code |-> req.code, eap |-> x, ma |-> req.ma, auth |-> req.auth, attrs |-> req.attrs]
        BY <1>1
      <4> HIDE DEF R
      <4>3. [R EXCEPT !.attrs = y] =
               [code |-> req.code, eap |-> x, ma |-> req.ma, auth |-> req.auth, attrs |-> y]
        BY <4>2
      <4> QED BY <4>1, <4>3
    <3> QED BY <3>1
  <2>6. Build(r)
    <3> HIDE DEF r
    <3> QED BY <2>4, <2>5
  <2>7. r.code = req.code /\ r.auth = req.auth /\ r.attrs = list
        /\ r = [code |-> r.code, eap |-> r.eap, ma |-> r.ma, auth |-> r.auth, attrs |-> r.attrs]
    OBVIOUS
  <2> HIDE DEF r, list
  <2> QED BY <1>1, <2>3, <2>6, <2>7, BuildKeepsInv
<1>3. ASSUME EAP PROVE ExchangeInv'
  <2> DEFINE r == [req EXCEPT !.eap = TRUE]
  <2>1. r = [code |-> req.code, eap |-> TRUE, ma |-> req.ma, auth |-> req.auth, attrs |-> req.attrs]
    <3>1. \A x : [req EXCEPT !.eap = x]
                    = [code |-> req.code, eap |-> x, ma |-> req.ma, auth |-> req.auth, attrs |-> req.attrs]
      BY <1>1
    <3> QED BY <3>1
  <2>2. Build(r)
    BY <1>3 DEF EAP
  <2> HIDE DEF r
  <2> QED BY <1>1, <2>1, <2>2, BuildKeepsInv
<1>4. ASSUME Attr PROVE ExchangeInv'
  <2>1. PICK a \in Given : Build([req EXCEPT !.attrs = Append(@, a)])
    BY <1>4 DEF Attr
  <2> DEFINE list == Append(req.attrs, a)
             r == [req EXCEPT !.attrs = list]
  <2>2. AttrSeq(list)
    BY <1>1, AttributesAreAttributes, AttrSeqEdits
  <2>3. Build(r)
    BY <2>1
  <2> HIDE DEF list
  <2>4. r = [code |-> req.code, eap |-> req.eap, ma |-> req.ma, auth |-> req.auth, attrs |-> list]
    BY <1>1
  <2> HIDE DEF r
  <2> QED BY <1>1, <2>2, <2>3, <2>4, BuildKeepsInv
<1>5. ASSUME Attrs PROVE ExchangeInv'
  <2>1. PICK list \in GivenLists : Build([req EXCEPT !.attrs = list])
    BY <1>5 DEF Attrs
  <2> DEFINE r == [req EXCEPT !.attrs = list]
             U == {list[i] : i \in DOMAIN list}
  <2>2. list \in Seq(U) /\ \A a \in U : IsAttribute(a)
    BY AttributesAreAttributes
  <2>3. AttrSeq(list)
    <3> HIDE DEF U
    <3> QED BY <2>2 DEF AttrSeq
  <2>4. r = [code |-> req.code, eap |-> req.eap, ma |-> req.ma, auth |-> req.auth, attrs |-> list]
    BY <1>1
  <2>5. Build(r)
    BY <2>1
  <2> HIDE DEF r
  <2> QED BY <1>1, <2>3, <2>4, <2>5, BuildKeepsInv
<1>6. ASSUME OverrideMA PROVE ExchangeInv'
  <2>1. PICK ma \in {"force", "omit"} : Build([req EXCEPT !.ma = ma])
    BY <1>6 DEF OverrideMA
  <2> DEFINE r == [req EXCEPT !.ma = ma]
  <2>2. r = [code |-> req.code, eap |-> req.eap, ma |-> ma, auth |-> req.auth, attrs |-> req.attrs]
    BY <1>1
  <2>3. Build(r)
    BY <2>1
  <2> HIDE DEF r
  <2> QED BY <1>1, <2>2, <2>3, BuildKeepsInv
<1>7. ASSUME Authenticator PROVE ExchangeInv'
  <2> DEFINE r == [req EXCEPT !.auth = Octets("supplied")]
  <2>1. r = [code |-> req.code, eap |-> req.eap, ma |-> req.ma, auth |-> Octets("supplied"),
             attrs |-> req.attrs]
    <3>1. \A x : [req EXCEPT !.auth = x]
                    = [code |-> req.code, eap |-> req.eap, ma |-> req.ma, auth |-> x, attrs |-> req.attrs]
      BY <1>1
    <3> QED BY <3>1
  <2>2. Build(r)
    BY <1>7 DEF Authenticator
  <2> HIDE DEF r
  <2> QED BY <1>1, <2>1, <2>2, BuildKeepsInv
<1> QED BY <1>2, <1>3, <1>4, <1>5, <1>6, <1>7

\* What is refused is not sent, and what is sent is as it was marshalled.
LEMMA SendKeepsInv == ASSUME ExchangeInv, NEW id, Send(id) PROVE ExchangeInv'
<1> DEFINE p == [code |-> req.code, id |-> id, auth |-> RequestAuth, attrs |-> Completed]
<1>1. /\ phase = "build" /\ asked' = p
      /\ UNCHANGED <<secrets, req, calls, harm, got, draft, answered>>
      /\ \/ phase' = "done" /\ result' = "refused"
         \/ /\ phase' = "request" /\ ~MarshalFails(p, secrets.client)
            /\ sent' = Marshal(p, secrets.client) /\ data' = sent' /\ result' = result
  BY DEF Send, FromServer
<1>2. AttrSeq(Completed)
  <2>1. AttrSeq(req.attrs)
    BY DEF ExchangeInv, BuildOK
  <2>2. IsAttribute(ZeroMA)
    BY DEF ZeroMA, IsAttribute, Attribute
  <2>3. AttrSeq(<<ZeroMA>> \o req.attrs)
    BY <2>1, <2>2, AttrSeqEdits
  <2> QED BY <2>1, <2>3 DEF Completed
<1>3. p.code = req.code /\ p.attrs = Completed /\ p.auth = RequestAuth
      /\ (req.code = "Access-Request" => RequestAuth \in {Octets("random"), Octets("supplied")})
  BY DEF ExchangeInv, BuildOK, RequestAuth
<1>4. req.code \in RequestCodes
  BY DEF ExchangeInv, BuildOK
<1>5. got = NoPacket /\ draft = NoPacket /\ harm.request = "none" /\ harm.reply = "none" /\ result = "none"
      /\ harm = [request |-> harm.request, reply |-> harm.reply]
  BY <1>1 DEF ExchangeInv, Phases
<1> HIDE DEF p
<1>6. Phases'
  BY <1>1, <1>5 DEF Phases
<1>7. BuildOK'
  BY <1>1 DEF ExchangeInv, BuildOK
<1>8. phase' = "request" => SentOK' /\ OnTheWay(data, sent, harm.request)'
  BY <1>1, <1>2, <1>3, <1>4, <1>5 DEF SentOK, OnTheWay
<1>9. Ways'
  BY <1>1, <1>5, <1>8 DEF Ways
<1>10. WhatIsSentIsRead' /\ AcceptedReplyIsGenuine' /\ RejectedForAReason'
  BY <1>1, <1>5, NothingJudged
<1> QED BY <1>6, <1>7, <1>9, <1>10 DEF ExchangeInv

\* The network changes the datagram in flight, and once at most.
LEMMA NetworkKeepsInv == ASSUME ExchangeInv, Pad \/ Alter PROVE ExchangeInv'
<1>1. PICK way, d :
         /\ Happens(way, d)
         /\ \/ way = "padded" /\ d = [data EXCEPT !.pad = Noise]
            \/ way = "altered" /\ d \in Altered(data) \ {data}
  BY DEF Pad, Alter
<1>2. /\ phase \in {"request", "reply"} /\ harm[phase] = "none"
      /\ harm' = [harm EXCEPT ![phase] = way] /\ data' = d
      /\ UNCHANGED <<phase, secrets, req, calls, asked, sent, result, got, draft, answered>>
  BY <1>1 DEF Happens, FromServer
<1>3. Phases /\ BuildOK /\ Ways /\ harm = [request |-> harm.request, reply |-> harm.reply] /\ result = "none"
  BY <1>2 DEF ExchangeInv, Phases
<1>4. CASE phase = "request"
  <2>1. harm' = [request |-> way, reply |-> harm.reply] /\ harm.request = "none"
    BY <1>2, <1>3, <1>4
  <2>2. data = sent
    BY <1>3, <1>4, <2>1 DEF Ways, OnTheWay
  <2>3. OnTheWay(data', sent, way)
    BY <1>1, <1>2, <1>4, <2>2 DEF OnTheWay
  <2>4. Phases'
    BY <1>2, <1>3, <1>4, <2>1 DEF Phases
  <2>5. got = NoPacket /\ SentOK
    BY <1>3, <1>4 DEF Phases, Ways
  <2>6. Ways'
    BY <1>2, <1>4, <2>1, <2>3, <2>5, StableFacts DEF Ways, OnTheWay
  <2> QED BY <1>2, <1>3, <2>4, <2>6, StableFacts, NothingJudged DEF ExchangeInv
<1>5. CASE phase = "reply"
  <2>1. harm' = [request |-> harm.request, reply |-> way] /\ harm.reply = "none"
    BY <1>2, <1>3, <1>5
  <2>2. AnsweredOK /\ SentOK
    BY <1>3, <1>5, <2>1 DEF Ways, EarlierOK
  <2>3. data = answered /\ DraftOK /\ GotOK
        /\ ~MarshalFails(draft, secrets.server) /\ answered = Marshal(draft, secrets.server)
    BY <2>1, <2>2 DEF AnsweredOK, OnTheWay
  <2>4. SentOK' /\ GotOK' /\ DraftOK'
    BY <1>2, <2>1, <2>2, <2>3, StableFacts
  <2>5. AnsweredOK'
    <3>1. OnTheWay(data', answered, way)
      BY <1>1, <1>2, <2>3 DEF OnTheWay
    <3> QED BY <1>2, <2>1, <2>3, <2>4, <3>1 DEF AnsweredOK
  <2>6. Phases'
    BY <1>2, <1>3, <1>5, <2>1 DEF Phases
  <2>7. Ways'
    BY <1>2, <1>5, <2>4, <2>5 DEF Ways
  <2> QED BY <1>2, <1>3, <2>6, <2>7, StableFacts, NothingJudged DEF ExchangeInv
<1> QED BY <1>2, <1>4, <1>5

\* An earlier reply arrives while the request is on its way.
LEMMA StaleKeepsInv == ASSUME ExchangeInv, Stale PROVE ExchangeInv'
<1>1. /\ phase = "request" /\ phase' = "reply"
      /\ harm' = [harm EXCEPT !.reply = "earlier"]
      /\ \E p \in EarlierReplies : data' = Marshal(p, secrets.server)
      /\ UNCHANGED <<secrets, req, calls, asked, sent, result, got, draft, answered>>
  BY DEF Stale, FromServer
<1>2. /\ Phases /\ BuildOK /\ SentOK /\ got = NoPacket /\ result = "none"
      /\ harm = [request |-> harm.request, reply |-> harm.reply]
  BY <1>1 DEF ExchangeInv, Phases, Ways
<1>3. harm' = [request |-> harm.request, reply |-> "earlier"]
  BY <1>1, <1>2
<1>4. EarlierOK'
  BY <1>1, <1>3 DEF EarlierOK, EarlierReplies, EarlierAuths, Repeatable
<1>5. SentOK' /\ BuildOK'
  BY <1>1, <1>2, StableFacts
<1>6. Phases'
  BY <1>1, <1>2, <1>3 DEF Phases
<1>7. Ways'
  BY <1>1, <1>2, <1>4, <1>5 DEF Ways
<1> QED BY <1>1, <1>2, <1>5, <1>6, <1>7, NothingJudged DEF ExchangeInv

\* The server unmarshals the datagram that arrived, or drops it for a reason.
LEMMA ServerReadsKeepsInv == ASSUME ExchangeInv, ServerReads PROVE ExchangeInv'
<1>1. /\ phase = "request" /\ UNCHANGED <<secrets, req, asked, sent, data, harm, draft, answered>>
      /\ \/ /\ UnmarshalFails(data, secrets.server)
            /\ phase' = "done" /\ result' = "dropped" /\ got' = got
         \/ /\ ~UnmarshalFails(data, secrets.server)
            /\ phase' = "handler" /\ got' = Unmarshal(data) /\ result' = result
  BY DEF ServerReads
<1>2. SentOK /\ OnTheWay(data, sent, harm.request) /\ got = NoPacket /\ draft = NoPacket
      /\ harm.reply = "none" /\ result = "none" /\ harm = [request |-> harm.request, reply |-> harm.reply]
  BY <1>1 DEF ExchangeInv, Phases, Ways
<1>3. Phases'
  BY <1>1, <1>2 DEF Phases
<1>4. BuildOK' /\ SentOK'
  BY <1>1, <1>2, StableFacts DEF ExchangeInv
<1>5. CASE phase' = "done"
  <2>1. Ways'
    BY <1>1, <1>2, <1>5 DEF Ways
  <2>2. WhatIsSentIsRead'
    BY <1>1, <1>2, <1>5, DroppedForAReason DEF WhatIsSentIsRead
  <2>3. AcceptedReplyIsGenuine' /\ RejectedForAReason'
    BY <1>1, <1>5 DEF AcceptedReplyIsGenuine, RejectedForAReason
  <2> QED BY <1>3, <1>4, <2>1, <2>2, <2>3 DEF ExchangeInv
<1>6. CASE phase' = "handler"
  <2>1. GotOK'
    BY <1>1, <1>2, <1>6 DEF GotOK
  <2>2. Ways'
    BY <1>1, <1>2, <1>4, <1>6, <2>1 DEF Ways
  <2> QED BY <1>1, <1>2, <1>3, <1>4, <1>6, <2>2, NothingJudged DEF ExchangeInv
<1> QED BY <1>1, <1>5, <1>6

\* The handler changes its reply, or stays silent.
LEMMA HandlerKeepsInv ==
    ASSUME ExchangeInv, HandlerSilent \/ (\E code \in Codes : Reply(code)) \/ Edit
    PROVE  ExchangeInv'
<1>1. ASSUME HandlerSilent PROVE ExchangeInv'
  <2>1. /\ phase = "handler" /\ phase' = "done" /\ result' = "silent"
        /\ UNCHANGED <<secrets, req, calls, asked, sent, data, harm, got, draft, answered>>
    BY <1>1 DEF HandlerSilent, FromServer
  <2>2. SentOK /\ GotOK
    BY <2>1 DEF ExchangeInv, Ways
  <2>3. SentOK' /\ GotOK' /\ BuildOK'
    BY <2>1, <2>2, StableFacts DEF ExchangeInv
  <2>4. Phases'
    BY <2>1 DEF ExchangeInv, Phases
  <2>5. Ways'
    BY <2>1, <2>3 DEF Ways
  <2> QED BY <2>1, <2>3, <2>4, <2>5, NothingJudged DEF ExchangeInv
<1>2. ASSUME NEW p, Compose(p), p = [code |-> p.code, id |-> got.id, auth |-> got.auth, attrs |-> p.attrs],
             AttrSeq(p.attrs)
      PROVE  ExchangeInv'
  <2>1. /\ phase = "handler" /\ draft' = p
        /\ UNCHANGED <<phase, secrets, req, asked, sent, data, harm, got, answered, result>>
    BY <1>2 DEF Compose
  <2>2. DraftOK'
    BY <1>2, <2>1 DEF DraftOK
  <2>3. SentOK /\ GotOK
    BY <2>1 DEF ExchangeInv, Ways
  <2>4. SentOK' /\ GotOK' /\ BuildOK'
    BY <2>1, <2>3, StableFacts DEF ExchangeInv
  <2>5. Phases' /\ result' = "none"
    BY <2>1 DEF ExchangeInv, Phases
  <2>6. Ways'
    BY <2>1, <2>2, <2>4 DEF Ways
  <2> QED BY <2>4, <2>5, <2>6, NothingJudged DEF ExchangeInv
<1>3. ASSUME NEW code \in Codes, Reply(code) PROVE ExchangeInv'
  <2> DEFINE p == [code |-> code, id |-> got.id, auth |-> got.auth, attrs |-> <<>>]
  <2>1. Compose(p)
    BY <1>3 DEF Reply
  <2>2. AttrSeq(<<>>)
    BY NoAttrs
  <2>3. p.code = code /\ p.attrs = <<>>
    OBVIOUS
  <2>4. p = [code |-> p.code, id |-> got.id, auth |-> got.auth, attrs |-> p.attrs]
    OBVIOUS
  <2> HIDE DEF p
  <2> QED BY <1>2, <2>1, <2>2, <2>3, <2>4
<1>4. ASSUME Edit PROVE ExchangeInv'
  <2>1. draft # NoPacket /\ phase = "handler"
    BY <1>4 DEF Edit, Compose
  <2>2. /\ draft = [code |-> draft.code, id |-> got.id, auth |-> got.auth, attrs |-> draft.attrs]
        /\ AttrSeq(draft.attrs)
    BY <2>1 DEF ExchangeInv, Ways, DraftOK
  <2>3. PICK list : Compose([draft EXCEPT !.attrs = list]) /\ AttrSeq(list)
    <3>1. PICK a \in Replied : \/ Compose([draft EXCEPT !.attrs = Add(@, a)])
                               \/ Compose([draft EXCEPT !.attrs = Set(@, a)])
                               \/ Compose([draft EXCEPT !.attrs = Delete(@, a.type)])
      BY <1>4 DEF Edit
    <3>2. IsAttribute(a)
      BY AttributesAreAttributes
    <3>3. AttrSeq(Add(draft.attrs, a)) /\ AttrSeq(Set(draft.attrs, a)) /\ AttrSeq(Delete(draft.attrs, a.type))
      BY <2>2, <3>2, EditsAre
    <3> QED BY <3>1, <3>3
  <2> DEFINE p == [draft EXCEPT !.attrs = list]
  <2>4. p = [code |-> draft.code, id |-> got.id, auth |-> got.auth, attrs |-> list]
    BY <2>2
  <2>5. Compose(p)
    BY <2>3
  <2> HIDE DEF p
  <2> QED BY <1>2, <2>3, <2>4, <2>5
<1> QED BY <1>1, <1>3, <1>4

\* The server sends what the handler composed, or nothing.
LEMMA ServerRepliesKeepsInv == ASSUME ExchangeInv, ServerReplies PROVE ExchangeInv'
<1>1. /\ phase = "handler" /\ draft # NoPacket
      /\ UNCHANGED <<secrets, req, calls, asked, sent, harm, got, draft>>
      /\ \/ phase' = "done" /\ result' = "unsent"
         \/ /\ phase' = "reply" /\ ~MarshalFails(draft, secrets.server)
            /\ answered' = Marshal(draft, secrets.server) /\ data' = answered' /\ result' = result
  BY DEF ServerReplies
<1>2. SentOK /\ GotOK /\ DraftOK /\ result = "none" /\ harm.reply = "none"
  BY <1>1 DEF ExchangeInv, Phases, Ways
<1>3. SentOK' /\ GotOK' /\ DraftOK' /\ BuildOK'
  BY <1>1, <1>2, StableFacts DEF ExchangeInv
<1>4. Phases'
  BY <1>1, <1>2 DEF ExchangeInv, Phases
<1>5. phase' = "reply" => AnsweredOK'
  BY <1>1, <1>2, <1>3 DEF AnsweredOK, OnTheWay
<1>6. Ways'
  BY <1>1, <1>3, <1>5 DEF Ways
<1> QED BY <1>1, <1>2, <1>3, <1>4, <1>6, NothingJudged DEF ExchangeInv

\* The client accepts what is genuine and rejects for a reason.
LEMMA ClientVerifiesKeepsInv == ASSUME ExchangeInv, ClientVerifies PROVE ExchangeInv'
<1>1. /\ phase = "reply" /\ phase' = "done"
      /\ UNCHANGED <<secrets, req, calls, asked, sent, data, harm, got, draft, answered>>
      /\ result' \in {"rejected", "unexpected", "accepted"}
      /\ result' = "rejected" <=> ~VerifyResponse(data, asked.id, sent.auth, secrets.client)
  BY DEF ClientVerifies, FromServer
<1>2. SentOK /\ (AnsweredOK \/ EarlierOK) /\ (got # NoPacket => GotOK)
  BY <1>1 DEF ExchangeInv, Ways
<1>3. SentOK' /\ BuildOK' /\ (got # NoPacket => GotOK')
  BY <1>1, <1>2, StableFacts DEF ExchangeInv
<1>4. Phases'
  BY <1>1 DEF ExchangeInv, Phases
<1>5. Ways'
  BY <1>1, <1>3 DEF Ways
<1>6. WhatIsSentIsRead'
  BY <1>1 DEF WhatIsSentIsRead
<1>7. (Repeatable => Repeatable') /\ (AnsweredBefore <=> AnsweredBefore')
  BY <1>1 DEF AnsweredBefore, EarlierReplies, EarlierAuths, Repeatable
<1>8. AcceptedReplyIsGenuine'
  <2> SUFFICES ASSUME result' = "accepted" PROVE AcceptedReplyIsGenuine'
    BY DEF AcceptedReplyIsGenuine
  <2>1. VerifyResponse(data, asked.id, sent.auth, secrets.client)
    BY <1>1
  <2>2. CASE AnsweredOK
    BY <1>1, <1>2, <2>1, <2>2, VerifiedIsGenuine DEF AcceptedReplyIsGenuine
  <2>3. CASE EarlierOK
    BY <1>1, <1>2, <1>7, <2>1, <2>3, VerifiedIsRepeated DEF AcceptedReplyIsGenuine
  <2> QED BY <1>2, <2>2, <2>3
<1>9. RejectedForAReason'
  <2> SUFFICES ASSUME result' = "rejected" PROVE RejectedForAReason'
    BY DEF RejectedForAReason
  <2>1. ~VerifyResponse(data, asked.id, sent.auth, secrets.client)
    BY <1>1
  <2>2. CASE AnsweredOK
    <3>1. harm.reply # "earlier"
      BY <2>2, AnsweredIs, OnTheWayIs DEF AnsweredOK
    <3>2. \/ harm.reply = "altered"
          \/ harm.request = "altered"
          \/ secrets.client # secrets.server
          \/ draft.code \notin ReplyCodes
          \/ harm.reply = "padded" /\ HasMessageAuthenticator(answered.attrs)
      BY <1>2, <2>1, <2>2, UnharmedVerifies
    <3> QED BY <1>1, <3>1, <3>2 DEF RejectedForAReason
  <2>3. CASE EarlierOK
    <3>1. harm.reply = "earlier" /\ (secrets.client # secrets.server \/ ~AnsweredBefore)
      BY <2>1, <2>3, RepeatedVerifies DEF EarlierOK
    <3> QED BY <1>1, <1>7, <3>1 DEF RejectedForAReason
  <2> QED BY <1>2, <2>2, <2>3
<1> QED BY <1>3, <1>4, <1>5, <1>6, <1>8, <1>9 DEF ExchangeInv

\* At every moment of an exchange what is in flight is what one side
\* marshalled, but for one accident on each way at most, and what the other
\* side has is what it unmarshalled from that.
THEOREM ExchangeInvariance == Spec => []ExchangeInv
<1>1. ExchangeInv /\ [Next]_vars => ExchangeInv'
  <2> SUFFICES ASSUME ExchangeInv, [Next]_vars PROVE ExchangeInv'
    OBVIOUS
  <2>1. CASE PAP \/ EAP \/ Authenticator \/ Attr \/ Attrs \/ OverrideMA
    BY <2>1, BuildersKeepInv
  <2>2. CASE \E id \in Identifiers : Send(id)
    BY <2>2, SendKeepsInv
  <2>3. CASE Pad \/ Alter \/ Stale
    BY <2>3, NetworkKeepsInv, StaleKeepsInv
  <2>4. CASE ServerReads
    BY <2>4, ServerReadsKeepsInv
  <2>5. CASE HandlerSilent \/ (\E code \in Codes : Reply(code)) \/ Edit
    BY <2>5, HandlerKeepsInv
  <2>6. CASE ServerReplies
    BY <2>6, ServerRepliesKeepsInv
  <2>7. CASE ClientVerifies
    BY <2>7, ClientVerifiesKeepsInv
  <2>8. CASE UNCHANGED vars
    <3>1. UNCHANGED <<phase, secrets, req, calls, asked, sent, data, harm, got, draft, answered, result>>
      BY <2>8 DEF vars
    <3>2. Phases' /\ BuildOK'
      BY <3>1, StableFacts DEF ExchangeInv, Phases
    <3>3. (SentOK => SentOK') /\ (GotOK => GotOK') /\ (DraftOK => DraftOK')
      BY <3>1, StableFacts
    <3>4. (AnsweredOK => AnsweredOK') /\ (EarlierOK => EarlierOK')
      BY <3>1, StableFacts
    <3>5. Ways'
      BY <3>1, <3>3, <3>4 DEF ExchangeInv, Ways
    <3>6. WhatIsSentIsRead' /\ AcceptedReplyIsGenuine' /\ RejectedForAReason'
      BY <3>1 DEF ExchangeInv, WhatIsSentIsRead, AcceptedReplyIsGenuine, RejectedForAReason,
                  AnsweredBefore, EarlierReplies, EarlierAuths, Repeatable
    <3> QED BY <3>2, <3>5, <3>6 DEF ExchangeInv
  <2> QED BY <2>1, <2>2, <2>3, <2>4, <2>5, <2>6, <2>7, <2>8 DEF Next
<1> QED BY <1>1, ExchangeInitially, PTL DEF Spec

\* A request that arrives unaltered under the same secret is read by
\* Unmarshal, but for the digested one with a long Message-Authenticator.
THEOREM EverySentRequestIsRead == Spec => []WhatIsSentIsRead
<1>1. ExchangeInv => WhatIsSentIsRead
  BY DEF ExchangeInv
<1> QED BY <1>1, ExchangeInvariance, PTL

\* The handler sees the request the caller asked for, whatever the attributes
\* and the secret, unless a datagram was altered.
THEOREM EveryHandlerSeesTheRequest == Spec => []HandlerSeesTheRequest
<1>1. ExchangeInv => HandlerSeesTheRequest
  <2> SUFFICES ASSUME ExchangeInv, got # NoPacket, harm.request # "altered", secrets.client = secrets.server
               PROVE  HandlerSeesTheRequest
    BY DEF HandlerSeesTheRequest
  <2>1. SentOK /\ GotOK
    BY DEF ExchangeInv, Ways
  <2> QED BY <2>1, UnharmedIsSeen
<1> QED BY <1>1, ExchangeInvariance, PTL

\* No request of a digested code reaches a handler altered (packet.Unmarshal),
\* but for the Message-Authenticator's value.
THEOREM NoDigestedRequestIsAltered == Spec => []DigestedRequestIsIntact
<1>1. ExchangeInv => DigestedRequestIsIntact
  <2> SUFFICES ASSUME ExchangeInv, got.code \in DigestedCodes PROVE DigestedRequestIsIntact
    BY DEF DigestedRequestIsIntact
  <2>1. got # NoPacket
    <3>1. NoPacket.code \notin DigestedCodes
      BY CodesAre DEF NoPacket
    <3> QED BY <3>1
  <2>2. SentOK /\ GotOK
    BY <2>1 DEF ExchangeInv, Ways
  <2> QED BY <2>2, DigestedIsIntact
<1> QED BY <1>1, ExchangeInvariance, PTL

\* A reply the client accepts is the one the server sent for this request
\* (VerifyResponse), whatever happened on the network, or the one to an earlier
\* request of the same Identifier and Request Authenticator.
THEOREM EveryAcceptedReplyIsGenuine == Spec => []AcceptedReplyIsGenuine
<1>1. ExchangeInv => AcceptedReplyIsGenuine
  BY DEF ExchangeInv
<1> QED BY <1>1, ExchangeInvariance, PTL

\* And it rejects none without a reason.
THEOREM EveryRejectionHasAReason == Spec => []RejectedForAReason
<1>1. ExchangeInv => RejectedForAReason
  BY DEF ExchangeInv
<1> QED BY <1>1, ExchangeInvariance, PTL
=============================================================================
