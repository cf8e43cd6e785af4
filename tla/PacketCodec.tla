----------------------------- MODULE PacketCodec -----------------------------
(***************************************************************************)
(* packet.Marshal, Unmarshal and the verifications, as operators on        *)
(* symbolic octets.  An octet string is a term: a digest is equal to       *)
(* another only when algorithm, input and secret are, which is what MD5    *)
(* and HMAC-MD5 are used for here.  Lengths are the real ones, in octets;  *)
(* the Length field is the one the attributes have, and a datagram that    *)
(* does not agree with its Length is marked by its framing.                *)
(***************************************************************************)
EXTENDS Integers, Sequences

CONSTANTS
    MaxLength,      \* types.PacketMaxLengthRFC2865
    EmptySecret     \* the shared secret of no octets

ASSUME MaxLengthIsALength == MaxLength \in Nat /\ MaxLength > 20

Term(alg, of) == [alg |-> alg, of |-> of]
Octets(x) == Term("octets", <<x>>)
NoOctets == Term("empty", <<>>)
Zeros == Term("zeros", <<>>)
MD5(code, id, auth, attrs, secret) == Term("md5", <<code, id, auth, attrs, secret>>)
HMAC(code, id, auth, attrs, pad, secret) ==
    Term("hmac", <<code, id, auth, attrs, pad, secret>>)

\* A Value is its length, its first 16 octets and the rest.
Attribute(type, size, head, tail) ==
    [type |-> type, size |-> size, head |-> head, tail |-> tail]

UserName == "User-Name"
UserPassword == "User-Password"
MessageAuthenticator == "Message-Authenticator"

AccessCodes == {"Access-Request", "Access-Accept", "Access-Reject", "Access-Challenge"}
AccountingCodes == {"Accounting-Request", "Accounting-Response"}
DynamicCodes == {"CoA-Request", "CoA-ACK", "CoA-NAK",
                 "Disconnect-Request", "Disconnect-ACK", "Disconnect-NAK"}
ValidCodes == AccessCodes \cup AccountingCodes \cup DynamicCodes
RequestCodes == {"Access-Request", "Accounting-Request", "CoA-Request", "Disconnect-Request"}
ReplyCodes == ValidCodes \ RequestCodes

\* The requests whose Authenticator Marshal computes and Unmarshal verifies.
DigestedCodes == RequestCodes \ {"Access-Request"}

MaxLengthForCode(code) == IF code \in AccountingCodes THEN MaxLength - 1 ELSE MaxLength

\* The value of the Length field, from the lengths of the attributes' Values.
LengthWith(sizes) ==
    LET upTo[n \in 0..Len(sizes)] ==
            IF n = 0 THEN 20 ELSE upTo[n - 1] + 2 + sizes[n]
    IN  upTo[Len(sizes)]

PacketLength(attrs) == LengthWith([i \in DOMAIN attrs |-> attrs[i].size])

Authenticators(attrs) == {i \in DOMAIN attrs : attrs[i].type = MessageAuthenticator}
FirstOf(S) == CHOOSE i \in S : \A j \in S : i <= j

\* The attributes with the Value's first 16 octets of the i-th replaced.
Fill(attrs, i, octets) == [attrs EXCEPT ![i].head = octets]
ZeroAll(attrs, S) == IF S = {} THEN attrs ELSE Fill(attrs, FirstOf(S), Zeros)

-----------------------------------------------------------------------------
\* EncryptUserPassword and DecryptUserPassword: the password comes back under
\* the authenticator and the secret that hid it, and under no other.
HiddenSize(size) == IF size = 0 THEN 16 ELSE 16 * ((size + 15) \div 16)
Hide(a, auth, secret) ==
    Attribute(a.type, HiddenSize(a.size), Term("hidden", <<a.head, a.tail, auth, secret>>), NoOctets)
Reveals(a, plain, auth, secret) ==
    a.head = Term("hidden", <<plain.head, plain.tail, auth, secret>>)

\* Slip: a password is hidden in no packet.
NothingHiddenSlip(p, secret) == p.attrs

\* serializeAttributes.
Serialized(p, secret) ==
    [i \in DOMAIN p.attrs |->
        IF p.attrs[i].type = UserPassword /\ p.code = "Access-Request"
        THEN Hide(p.attrs[i], p.auth, secret)
        ELSE p.attrs[i]]

TooLong(p, a) ==
    a.size > (IF a.type = UserPassword /\ p.code = "Access-Request" THEN 128 ELSE 253)

\* Marshal returns an error.
MarshalFails(p, secret) ==
    \/ secret = EmptySecret
    \/ p.code \notin ValidCodes
    \/ \E i \in DOMAIN p.attrs : TooLong(p, p.attrs[i])
    \/ \E i, j \in Authenticators(p.attrs) : i # j
    \/ PacketLength(Serialized(p, secret)) > MaxLengthForCode(p.code)

Datagram(code, id, auth, attrs) ==
    [code |-> code, id |-> id, auth |-> auth, attrs |-> attrs,
     pad |-> NoOctets, framing |-> "whole"]

\* Slip: the Response Authenticator is computed before the
\* Message-Authenticator is filled in.
RespondBeforeFillSlip(p, secret) ==
    LET ma == Authenticators(p.attrs)
        zeroed == ZeroAll(Serialized(p, secret), ma)
        auth == IF p.code \in DigestedCodes
                THEN MD5(p.code, p.id, Zeros, zeroed, secret) ELSE p.auth
        filled == IF ma = {} THEN zeroed
                  ELSE Fill(zeroed, FirstOf(ma), HMAC(p.code, p.id, auth, zeroed, NoOctets, secret))
    IN  Datagram(p.code, p.id,
                 IF p.code \in ReplyCodes THEN MD5(p.code, p.id, auth, zeroed, secret) ELSE auth,
                 filled)

\* Slip: the request digest is computed after the Message-Authenticator.
DigestAfterFillSlip(p, secret) ==
    LET ma == Authenticators(p.attrs)
        zeroed == ZeroAll(Serialized(p, secret), ma)
        filled == IF ma = {} THEN zeroed
                  ELSE Fill(zeroed, FirstOf(ma), HMAC(p.code, p.id, p.auth, zeroed, NoOctets, secret))
        auth == IF p.code \in DigestedCodes
                THEN MD5(p.code, p.id, Zeros, filled, secret) ELSE p.auth
    IN  Datagram(p.code, p.id,
                 IF p.code \in ReplyCodes THEN MD5(p.code, p.id, auth, filled, secret) ELSE auth,
                 filled)

\* The datagram Marshal returns.  The request digest covers a zeroed
\* Message-Authenticator, the Message-Authenticator covers the Request
\* Authenticator, and the Response Authenticator covers both.
Marshal(p, secret) ==
    LET ma == Authenticators(p.attrs)
        zeroed == ZeroAll(Serialized(p, secret), ma)
        auth == IF p.code \in DigestedCodes
                THEN MD5(p.code, p.id, Zeros, zeroed, secret) ELSE p.auth
        filled == IF ma = {} THEN zeroed
                  ELSE Fill(zeroed, FirstOf(ma), HMAC(p.code, p.id, auth, zeroed, NoOctets, secret))
    IN  Datagram(p.code, p.id,
                 IF p.code \in ReplyCodes THEN MD5(p.code, p.id, auth, filled, secret) ELSE auth,
                 filled)

-----------------------------------------------------------------------------
\* zeroMessageAuthenticatorValueInPlace: the first Message-Authenticator of
\* 16 octets; a longer one stays as it was received.
ZeroMessageAuthenticator(attrs) ==
    ZeroAll(attrs, {i \in Authenticators(attrs) : attrs[i].size = 16})

\* Slip: the request digest is not verified.
UnmarshalTrustsSlip(d, secret) ==
    \/ d.framing # "whole"
    \/ d.code \notin ValidCodes
    \/ PacketLength(d.attrs) > MaxLengthForCode(d.code)

\* Unmarshal returns an error.  What lies beyond Length is not looked at.
UnmarshalFails(d, secret) ==
    \/ d.framing # "whole"
    \/ d.code \notin ValidCodes
    \/ PacketLength(d.attrs) > MaxLengthForCode(d.code)
    \/ /\ d.code \in DigestedCodes
       /\ d.auth # MD5(d.code, d.id, Zeros, ZeroMessageAuthenticator(d.attrs), secret)

\* The packet Unmarshal leaves.
Unmarshal(d) == [code |-> d.code, id |-> d.id, auth |-> d.auth, attrs |-> d.attrs]

\* Slip: only the code is looked at.
ResponseIgnoresRequestSlip(d, reqAuth, secret) == d.code \in ReplyCodes

\* VerifyResponseAuthenticator.
ResponseVerifies(d, reqAuth, secret) ==
    /\ d.code \in ReplyCodes
    /\ d.auth = MD5(d.code, d.id, reqAuth, d.attrs, secret)

\* VerifyMessageAuthenticator.  The HMAC covers the datagram as received,
\* with what lies beyond Length.
MessageVerifies(d, reqAuth, secret) ==
    LET ma == Authenticators(d.attrs)
        auth == IF d.code \in RequestCodes THEN d.auth ELSE reqAuth
    IN  /\ ma # {}
        /\ d.attrs[FirstOf(ma)].head =
              HMAC(d.code, d.id, auth, Fill(d.attrs, FirstOf(ma), Zeros), d.pad, secret)

\* VerifyResponse returns a packet.
VerifyResponse(d, id, reqAuth, secret) ==
    /\ ~UnmarshalFails(d, secret)
    /\ d.id = id
    /\ ResponseVerifies(d, reqAuth, secret)
    /\ Authenticators(d.attrs) # {} => MessageVerifies(d, reqAuth, secret)

-----------------------------------------------------------------------------
\* The attributes at the positions in S, one after another: the loop of
\* Delete and Set.
Kept(attrs, S) ==
    LET kept[n \in 0..Len(attrs)] ==
            IF n = 0 THEN <<>>
            ELSE IF n \in S THEN Append(kept[n - 1], attrs[n]) ELSE kept[n - 1]
    IN  kept[Len(attrs)]

\* Packet.Add, Delete and Set.
Add(attrs, a) == Append(attrs, a)
OfType(attrs, type) == {i \in DOMAIN attrs : attrs[i].type = type}
Delete(attrs, type) == Kept(attrs, DOMAIN attrs \ OfType(attrs, type))
Set(attrs, a) ==
    LET same == OfType(attrs, a.type)
        first == FirstOf(same)
    IN  IF same = {} THEN Append(attrs, a)
        ELSE Kept([attrs EXCEPT ![first] = a], (DOMAIN attrs \ same) \cup {first})

\* hasMessageAuthenticator, containsMessageAuthenticator.
HasMessageAuthenticator(attrs) == Authenticators(attrs) # {}
=============================================================================
