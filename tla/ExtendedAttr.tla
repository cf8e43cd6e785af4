---------------------------- MODULE ExtendedAttr ----------------------------
(***************************************************************************)
(* RFC 6929 attributes of packet/extended.go.  A caller marshals a list of *)
(* them one after another, a long one fragment by fragment, and a reader   *)
(* reassembles the octets.  A piece of a Value is an interval of it; sizes *)
(* and the one-octet Length field are the real ones.                       *)
(***************************************************************************)
EXTENDS Integers, Sequences

CONSTANTS
    ExtTypes,       \* outer types callers use, 241..244 and others
    ExtendedTypes,  \* inner types
    Sizes,          \* lengths of the Values
    MaxGiven        \* bound: attributes in a list

ASSUME SizesAreNat == Sizes \subseteq Nat
ASSUME MaxGivenIsNat == MaxGiven \in Nat

VARIABLES
    xphase,     \* "idle", "write", "read", "done"
    given,      \* the attributes to marshal
    at,         \* the one being marshalled
    off,        \* off of MarshalExtendedFragments
    wire,       \* the fragments written
    pos,        \* the fragment the reader is at
    value,      \* pieces read of the attribute under reassembly
    read,       \* the attributes read
    xerr        \* "none" or the reader's error

extVars == <<xphase, given, at, off, wire, pos, value, read, xerr>>

IsExtended(t) == t \in 241..244
IsLong(t) == t = 242
Header(t) == IF IsLong(t) THEN 4 ELSE 3
MaxValue(t) == IF IsLong(t) THEN 251 ELSE 253

ExtInit ==
    /\ xphase = "idle" /\ at = 1 /\ off = 0 /\ pos = 1 /\ xerr = "none"
    /\ given = <<>> /\ wire = <<>> /\ value = <<>> /\ read = <<>>

ExtStart ==
    /\ xphase = "idle"
    /\ xphase' = "write"
    /\ \E n \in 1..MaxGiven :
          given' \in [1..n -> [type : ExtTypes, ext : ExtendedTypes, size : Sizes]]
    /\ UNCHANGED <<at, off, wire, pos, value, read, xerr>>

\* The octets of one attribute.  Length is a byte.
Fragment(e, from, to, more) ==
    [type |-> e.type, ext |-> e.ext, length |-> (Header(e.type) + to - from) % 256,
     more |-> more, piece |-> [of |-> at, from |-> from, to |-> to]]

\* The caller goes on to its next attribute, or to reading.
Advance ==
    /\ IF at = Len(given) THEN xphase' = "read" /\ at' = 1 ELSE xphase' = xphase /\ at' = at + 1
    /\ off' = 0

\* Not an extended type, or a Value too long to be one attribute.
Refused(e) == ~IsExtended(e.type) \/ (~IsLong(e.type) /\ e.size > MaxValue(e.type))
MarshalRefused ==
    /\ xphase = "write" /\ Refused(given[at])
    /\ Advance
    /\ UNCHANGED <<given, wire, pos, value, read, xerr>>

\* MarshalExtended, for a short type or an empty Value.
MarshalExtended ==
    LET e == given[at]
    IN  /\ xphase = "write" /\ ~Refused(e)
        /\ ~IsLong(e.type) \/ e.size = 0
        /\ wire' = Append(wire, Fragment(e, 0, e.size, FALSE))
        /\ Advance
        /\ UNCHANGED <<given, pos, value, read, xerr>>

\* Slip: More is taken from the offset before this fragment.
MoreOfOldOffsetSlip ==
    LET e == given[at]
        end == IF off + MaxValue(e.type) < e.size THEN off + MaxValue(e.type) ELSE e.size
    IN  /\ xphase = "write" /\ IsLong(e.type) /\ e.size > 0
        /\ wire' = Append(wire, Fragment(e, off, end, off + MaxValue(e.type) <= e.size))
        /\ IF end < e.size THEN off' = end /\ UNCHANGED <<xphase, at>> ELSE Advance
        /\ UNCHANGED <<given, pos, value, read, xerr>>

\* One turn of the loop of MarshalExtendedFragments.
MarshalFragment ==
    LET e == given[at]
        end == IF off + MaxValue(e.type) < e.size THEN off + MaxValue(e.type) ELSE e.size
    IN  /\ xphase = "write" /\ IsLong(e.type) /\ e.size > 0
        /\ wire' = Append(wire, Fragment(e, off, end, end < e.size))
        /\ IF end < e.size THEN off' = end /\ UNCHANGED <<xphase, at>> ELSE Advance
        /\ UNCHANGED <<given, pos, value, read, xerr>>

\* UnmarshalExtended fails on the fragment at hand.
Malformed(f) == f.length < Header(f.type)

\* The fragment does not continue the attribute begun: it has another type,
\* outer or inner.
Foreign(f) == value # <<>> /\ (f.type # wire[pos - 1].type \/ f.ext # wire[pos - 1].ext)

\* One turn of UnmarshalExtendedReassembled.
ReadFragment ==
    LET f == wire[pos]
        pieces == Append(value, f.piece)
    IN  /\ xphase = "read" /\ pos <= Len(wire)
        /\ ~Malformed(f) /\ ~Foreign(f)
        /\ pos' = pos + 1
        /\ IF IsLong(f.type) /\ f.more
           THEN value' = pieces /\ UNCHANGED read
           ELSE /\ value' = <<>>
                /\ read' = Append(read, [type |-> f.type, ext |-> f.ext, pieces |-> pieces])
        /\ UNCHANGED <<xphase, given, at, off, wire, xerr>>

\* It returns an error, or there is nothing left to read.
ReadEnds ==
    /\ xphase = "read"
    /\ pos <= Len(wire) => Malformed(wire[pos]) \/ Foreign(wire[pos])
    /\ xphase' = "done"
    /\ xerr' = IF pos > Len(wire) /\ value = <<>> THEN "none" ELSE "ErrInvalidAttribute"
    /\ UNCHANGED <<given, at, off, wire, pos, value, read>>

ExtNext ==
    \/ ExtStart \/ MarshalRefused \/ MarshalExtended \/ MarshalFragment
    \/ ReadFragment \/ ReadEnds

ExtSpec == ExtInit /\ [][ExtNext]_extVars

-----------------------------------------------------------------------------
\* The attributes that were marshalled, by their place in the list.
Marshalled == {m \in DOMAIN given : ~Refused(given[m])}

\* The attribute that r began with.
Origin(r) == r.pieces[1].of

\* r is all of the m-th attribute's Value, in order, and nothing else.
IsWhole(r, m) ==
    /\ r.type = given[m].type /\ r.ext = given[m].ext
    /\ \A i \in DOMAIN r.pieces : r.pieces[i].of = m
    /\ r.pieces[1].from = 0 /\ r.pieces[Len(r.pieces)].to = given[m].size
    /\ \A i \in 2..Len(r.pieces) : r.pieces[i].from = r.pieces[i - 1].to

\* The reader gives back the attributes as marshalled, each whole and with
\* nothing of its neighbour's, although neighbours may have the same types,
\* in the order of the list and without a gap; and it gives back all of them,
\* unless a short one has a Value of 253 octets, whose Length, 256, does not
\* fit its octet (extended.go:108).
ReassemblesWhatWasSplit ==
    /\ \A i \in DOMAIN read :
          /\ Origin(read[i]) \in Marshalled /\ IsWhole(read[i], Origin(read[i]))
          /\ \A j \in 1..(i - 1) : Origin(read[j]) < Origin(read[i])
          /\ \A m \in Marshalled :
                m <= Origin(read[i]) => \E j \in 1..i : Origin(read[j]) = m
    /\ xphase = "done" =>
          IF \E m \in Marshalled : ~IsLong(given[m].type) /\ given[m].size = 253
          THEN xerr # "none"
          ELSE xerr = "none" /\ \A m \in Marshalled : \E i \in DOMAIN read : Origin(read[i]) = m
=============================================================================
