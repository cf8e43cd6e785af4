---------------------------- MODULE HiddenOctets ----------------------------
(***************************************************************************)
(* The hiding of User-Password, Tunnel-Password and MS-MPPE keys: blocks   *)
(* of 16 octets are XORed with a chain of MD5 digests, encrypted by one    *)
(* loop and decrypted by another.  A block is an abstract value; lengths   *)
(* are the real ones.                                                      *)
(***************************************************************************)
EXTENDS Integers, Sequences

CONSTANTS
    Blocks,         \* contents of 16 octets
    Digest(_, _),   \* MD5 of the secret and what follows it
    Xor(_, _),
    Keys,           \* shared secrets
    Seeds,          \* Request Authenticators, with the salt where there is one
    Lengths,        \* of passwords and keys
    Contents(_)     \* the plaintexts of so many blocks

ASSUME XorInverse ==
    \A p, q \in Blocks : Xor(p, q) \in Blocks /\ Xor(Xor(p, q), q) = p
ASSUME DigestIsABlock ==
    \A k \in Keys : \A x \in Blocks \cup Seeds : Digest(k, x) \in Blocks
ASSUME LengthsAreNat == Lengths \subseteq Nat

\* Padding to blocks: at least one, and room for the Data-Length octet of a
\* salted value.
BlocksFor(k, n) ==
    IF k = "salted" THEN (n + 1 + 15) \div 16
    ELSE IF n = 0 THEN 1 ELSE (n + 15) \div 16

ASSUME ContentsAreBlocks ==
    \A k \in {"password", "salted"} : \A n \in Lengths :
        Contents(BlocksFor(k, n)) \subseteq [1..BlocksFor(k, n) -> Blocks]

VARIABLES
    hphase,     \* "idle", "encrypt", "decrypt", "done", "refused"
    kind,       \* "password", or "salted": a tunnel password or an MPPE key
    hlen,       \* length of what is hidden
    nuls,       \* how many NULs it ends in
    plain,      \* plaintext, padded
    there,      \* secret and seed it is hidden with
    here,       \* secret and seed it is revealed with
    cipher,     \* ciphertext produced
    shown,      \* plaintext recovered
    revealed    \* the length the receiver gives its result, or Error

hiddenVars == <<hphase, kind, hlen, nuls, plain, there, here, cipher, shown, revealed>>

Error == -1

\* UserPasswordMaxLength, tunnelPasswordMaxLen and mppeKeyMaxLen.
Limit(k) == IF k = "password" THEN 128 ELSE 239

HideInit ==
    /\ hphase = "idle" /\ kind = "password" /\ hlen = 0 /\ nuls = 0
    /\ plain = <<>> /\ cipher = <<>> /\ shown = <<>>
    /\ \E k \in Keys, s \in Seeds : there = [key |-> k, seed |-> s]
    /\ here = there /\ revealed = Error

\* EncryptUserPassword, EncryptTunnelPassword and EncryptMPPEKey up to the
\* loop; the receiver may have another secret or another authenticator.
HideStart ==
    /\ hphase = "idle"
    /\ \E k \in {"password", "salted"}, n \in Lengths, z \in {0, 1} :
          /\ kind' = k /\ hlen' = n
          /\ z <= n /\ nuls' = z
          /\ IF n > Limit(k)
             THEN hphase' = "refused" /\ plain' = plain
             ELSE hphase' = "encrypt" /\ plain' \in Contents(BlocksFor(k, n))
    /\ there' \in [key : Keys, seed : Seeds]
    /\ here' \in [key : Keys, seed : Seeds]
    /\ UNCHANGED <<cipher, shown, revealed>>

\* The digest for the next block: of the seed, then of the ciphertext block
\* before.
NextDigest(party, done, text) ==
    Digest(party.key, IF done = <<>> THEN party.seed ELSE text[Len(done)])

\* Slip: the loop keeps the first digest.
EncryptKeepsPadSlip ==
    /\ hphase = "encrypt" /\ Len(cipher) < Len(plain)
    /\ cipher' = Append(cipher, Xor(plain[Len(cipher) + 1], Digest(there.key, there.seed)))
    /\ UNCHANGED <<hphase, kind, hlen, nuls, plain, there, here, shown, revealed>>

EncryptBlock ==
    /\ hphase = "encrypt" /\ Len(cipher) < Len(plain)
    /\ cipher' = Append(cipher, Xor(plain[Len(cipher) + 1], NextDigest(there, cipher, cipher)))
    /\ UNCHANGED <<hphase, kind, hlen, nuls, plain, there, here, shown, revealed>>

\* The attribute travels; what arrives is whole blocks, so Decrypt* accepts
\* its length.
Deliver ==
    /\ hphase = "encrypt" /\ Len(cipher) = Len(plain)
    /\ hphase' = "decrypt"
    /\ UNCHANGED <<kind, hlen, nuls, plain, there, here, cipher, shown, revealed>>

DecryptBlock ==
    /\ hphase = "decrypt" /\ Len(shown) < Len(cipher)
    /\ shown' = Append(shown, Xor(cipher[Len(shown) + 1], NextDigest(here, shown, cipher)))
    /\ UNCHANGED <<hphase, kind, hlen, nuls, plain, there, here, cipher, revealed>>

\* Trailing NULs are stripped from a password, padding and its own alike;
\* a salted value is as long as its first octet says, if that can be.
ReturnedLengths ==
    IF kind = "password"
    THEN IF shown = plain THEN {hlen - nuls} ELSE 0..16 * Len(shown)
    ELSE IF shown[1] = plain[1] THEN {hlen}
         ELSE {Error} \cup {n \in 0..255 : n <= 16 * Len(shown) - 1}

Revealed ==
    /\ hphase = "decrypt" /\ Len(shown) = Len(cipher)
    /\ hphase' = "done"
    /\ revealed' \in ReturnedLengths
    /\ UNCHANGED <<kind, hlen, nuls, plain, there, here, cipher, shown>>

HideNext ==
    \/ HideStart \/ EncryptBlock \/ Deliver \/ DecryptBlock \/ Revealed

HideSpec == HideInit /\ [][HideNext]_hiddenVars
-----------------------------------------------------------------------------
\* Types of the states of one hidden value.
HiddenTypeOK ==
    /\ hphase \in {"idle", "encrypt", "decrypt", "done", "refused"}
    /\ kind \in {"password", "salted"}
    /\ hlen \in Nat /\ nuls \in 0..hlen
    /\ plain \in Seq(Blocks) /\ cipher \in Seq(Blocks) /\ shown \in Seq(Blocks)
    /\ there \in [key : Keys, seed : Seeds] /\ here \in [key : Keys, seed : Seeds]
    /\ Len(shown) <= Len(cipher) /\ Len(cipher) <= Len(plain)

\* With the secret and the authenticator it was hidden with, a value comes
\* back: a key or a tunnel password exactly, a User-Password but for the
\* NULs it ends in (crypto.go:117).
RevealsWhatWasHidden ==
    hphase = "done" /\ here = there =>
        /\ shown = plain
        /\ revealed = IF kind = "password" THEN hlen - nuls ELSE hlen

\* The chain runs over the ciphertext: whoever has the secret recovers every
\* block but the first without the right authenticator or salt.
OnlyFirstBlockNeedsTheSeed ==
    here.key = there.key => \A i \in 2..Len(shown) : shown[i] = plain[i]
=============================================================================
