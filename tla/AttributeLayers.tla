--------------------------- MODULE AttributeLayers ---------------------------
(***************************************************************************)
(* What is put around a Value inside an attribute and taken off again: the *)
(* tag of crypto/tunnel.go and the vendor header of vendors/vendors.go,    *)
(* through Attribute.MarshalBinary.  Of a Value the first octets and the   *)
(* size of the rest are kept, with who it is.                              *)
(***************************************************************************)
EXTENDS Integers, Sequences

CONSTANTS
    Tags,           \* tags callers pass, 0 and invalid ones among them
    FirstOctets,    \* first octets of integers
    SaltOctets,     \* first octets of salts
    VendorSizes,    \* lengths of vendor values
    AttrTypes,      \* types of the attributes a vendor decoder is shown
    Declared        \* Vendor-Length octets other implementations write

ASSUME SaltMSBIsSet == SaltOctets \subseteq 128..255
ASSUME VendorSizesAreNat == VendorSizes \subseteq Nat

VARIABLES
    lphase,     \* "idle", "made", "marshalled", "refused", "decoded"
    made,       \* what the sender wrapped
    attr,       \* the attribute it became
    back        \* what the receiver unwrapped

layerVars == <<lphase, made, attr, back>>

VendorSpecific == 26
TunnelPassword == 69
TunnelType == 64

\* octets: the first ones; more: how many follow.
Octs(octets, more) == [octets |-> octets, more |-> more]
Size(v) == Len(v.octets) + v.more
DropFirst(v, n) == Octs(SubSeq(v.octets, n + 1, Len(v.octets)), v.more)

Wrapped(type, value) == [type |-> type, value |-> value]
Made(what, tag, value) == [what |-> what, tag |-> tag, value |-> value]
Nothing == [ok |-> FALSE, tag |-> 0, value |-> Octs(<<>>, 0)]
Back(tag, value) == [ok |-> TRUE, tag |-> tag, value |-> value]

LayerInit ==
    /\ lphase = "idle"
    /\ made = Made("nothing", 0, Octs(<<>>, 0))
    /\ attr = Wrapped(0, Octs(<<>>, 0))
    /\ back = Nothing

Make(m, a) ==
    /\ lphase = "idle" /\ lphase' = "made"
    /\ made' = m /\ attr' = a
    /\ UNCHANGED back

\* EncodeTunnelTag: 0 and what is above 0x1F is no tag.
IsTag(tag) == tag \in 1..31
Tagged(tag, v) == IF IsTag(tag) THEN Octs(<<tag>> \o v.octets, v.more) ELSE v

\* EncodeTunnelInteger.
MakeTunnelInteger ==
    \E tag \in Tags, high \in FirstOctets :
        LET n == Octs(<<high>>, 3)
        IN  Make(Made("integer", tag, n), Wrapped(TunnelType, Tagged(tag, n)))

\* EncryptTunnelPassword, of whatever password.
MakeTunnelPassword ==
    \E tag \in Tags, salt \in SaltOctets, blocks \in 1..15 :
        LET v == Octs(<<salt>>, 1 + 16 * blocks)
        IN  Make(Made("password", tag, v), Wrapped(TunnelPassword, Tagged(tag, v)))

\* NewVSA and NewVendorSpecific.  The value is cut so that Vendor-Length is
\* an octet; the attribute may still be too long.
MakeVSA ==
    \E size \in VendorSizes :
        LET cut == IF size > 253 THEN 253 ELSE size
        IN  Make(Made("vendor", 1, Octs(<<>>, size)),
                 Wrapped(VendorSpecific, Octs(<<0, 0, 0, 9, 1, (2 + cut) % 256>>, cut)))

\* An attribute of another implementation, or one that is no VSA.
MakeForeign ==
    \E type \in AttrTypes, declared \in Declared, size \in VendorSizes, n \in 4..6 :
        /\ n < 6 => size = 0
        /\ Make(Made("foreign", 0, Octs(<<>>, size)),
                Wrapped(type, Octs(SubSeq(<<0, 0, 0, 9, 1, declared>>, 1, n), size)))

\* Attribute.MarshalBinary, and UnmarshalAttribute at the other end.
MarshalAttribute ==
    /\ lphase = "made"
    /\ lphase' = IF Size(attr.value) > 253 THEN "refused" ELSE "marshalled"
    /\ UNCHANGED <<made, attr, back>>

Yields(result) ==
    /\ lphase = "marshalled" /\ lphase' = "decoded"
    /\ back' = result
    /\ UNCHANGED <<made, attr>>

\* DecodeTunnelTag.
Untagged(v) ==
    IF Size(v) > 0 /\ IsTag(v.octets[1]) THEN Back(v.octets[1], DropFirst(v, 1)) ELSE Back(0, v)

\* Slip: the length is not looked at.
DecodeAnyIntegerSlip ==
    /\ made.what = "integer"
    /\ Yields(Untagged(attr.value))

\* DecodeTunnelInteger.
DecodeTunnelInteger ==
    LET u == Untagged(attr.value)
    IN  /\ made.what = "integer"
        /\ Yields(IF Size(u.value) = 4 THEN u ELSE Nothing)

DecodeTunnelPassword ==
    /\ made.what = "password"
    /\ Yields(Untagged(attr.value))

\* Attribute.VendorSpecific, DecodeVSA and MatchVSA.  The type is not looked
\* at; what follows the declared length is left out.
DecodedVSA(v) ==
    LET payload == DropFirst(v, 4)
        declared == payload.octets[2]
    IN  IF Size(v) < 5 \/ Size(payload) < 2 THEN Nothing
        ELSE IF declared < 2 \/ Size(payload) - 2 < declared - 2 THEN Nothing
        ELSE Back(payload.octets[1], Octs(<<>>, declared - 2))

DecodeVSA ==
    /\ made.what \in {"vendor", "foreign"}
    /\ Yields(DecodedVSA(attr.value))

LayerNext ==
    \/ MakeTunnelInteger \/ MakeTunnelPassword \/ MakeVSA \/ MakeForeign
    \/ MarshalAttribute
    \/ DecodeTunnelInteger \/ DecodeTunnelPassword \/ DecodeVSA

LayerSpec == LayerInit /\ [][LayerNext]_layerVars

-----------------------------------------------------------------------------
Sent(what) == lphase = "decoded" /\ made.what = what

TagIsKept == back.tag = (IF IsTag(made.tag) THEN made.tag ELSE 0)

\* What the receiver unwraps is what the sender wrapped, tag and value: no
\* octet of a value is taken for a tag, and no value arrives cut.  What
\* cannot be told apart is refused instead: an integer sent without a tag
\* whose first octet could be one (tunnel.go:257), by the receiver, and a
\* vendor value that NewVSA cuts, by MarshalBinary (vendors.go:34).  A tunnel
\* password of whatever length is neither, for a salt's first bit is set.
UnwrapsWhatWasWrapped ==
    /\ lphase = "refused" => made.what \notin {"integer", "password"}
    /\ Sent("integer") =>
          IF back.ok THEN TagIsKept /\ back.value = made.value
          ELSE ~IsTag(made.tag) /\ IsTag(made.value.octets[1])
    /\ Sent("password") => TagIsKept /\ back.value = made.value
    /\ Sent("vendor") => back.ok /\ back.value = made.value
=============================================================================
