-------------------------- MODULE DictionaryCodec --------------------------
(***************************************************************************)
(* Attributes made and read through a dictionary (packet/dict_helper.go):  *)
(* NewByName looks a name up, converts a value and makes an attribute;     *)
(* Decode looks the attribute's type up and reads the octets back.  Other  *)
(* goroutines register between the two.  Of octets are kept how they were  *)
(* encoded, what they mean and how many they are.                          *)
(***************************************************************************)
EXTENDS Dictionary

CONSTANTS
    Values,             \* values callers pass: a Go type, a meaning, a length as text
    MaxRegistrations    \* bound: the length of the log

ASSUME ValuesAreValues ==
    \A v \in Values :
        /\ v.form \in {"string", "[]byte", "Stringer", "net.IP", "uint32", "uint", "int", "bool"}
        /\ v.is \in {"text", "number", "negative", "too big", "IPv4", "IPv6"}
        /\ v.size \in Nat

VARIABLES
    named,      \* what NewByName was last called with and made
    answer      \* what was last asked of that attribute, and the answer

codecVars == <<dictVars, named, answer>>

NoAttribute == [as |-> "nothing", is |-> "nothing", size |-> 0]
NoAnswer == [by |-> "nobody", ok |-> FALSE, is |-> "nothing"]

CodecInit ==
    /\ DictInit
    /\ named = [ok |-> FALSE, def |-> <<>>, value |-> <<>>, attr |-> NoAttribute]
    /\ answer = NoAnswer

-----------------------------------------------------------------------------
TextKinds == {"string", "octets", "raw"}

Encoding(kind) ==
    CASE kind \in TextKinds -> "text"
      [] kind = "integer" -> "integer"
      [] kind = "ipaddr" -> "4 octets"
      [] kind = "ipv6addr" -> "16 octets"
      [] OTHER -> "none"

\* toStringBytes takes any Stringer, a net.IP among them.  toUint32 takes
\* numbers of 32 bits.  toIPv4 and toIPv6 take strings and net.IP, and an
\* IPv4 address has 16 octets too.
Converts(kind, v) ==
    CASE kind \in TextKinds -> v.form \in {"string", "[]byte", "Stringer", "net.IP"}
      [] kind = "integer" -> v.form \in {"uint32", "uint", "int", "string"} /\ v.is = "number"
      [] kind = "ipaddr" -> v.form \in {"net.IP", "string"} /\ v.is = "IPv4"
      [] kind = "ipv6addr" -> v.form \in {"net.IP", "string"} /\ v.is \in {"IPv4", "IPv6"}
      [] OTHER -> FALSE

Encoded(kind, v) ==
    [as |-> Encoding(kind), is |-> v.is,
     size |-> CASE kind \in TextKinds -> v.size
                [] kind = "ipv6addr" -> 16
                [] OTHER -> 4]

\* NewByName of a name that is registered.
NewByName(name, v) ==
    /\ byName[name] # Nil
    /\ LET def == log[byName[name]]
       IN  named' = [ok |-> Converts(def.kind, v), def |-> def, value |-> v,
                     attr |-> IF Converts(def.kind, v) THEN Encoded(def.kind, v)
                              ELSE NoAttribute]
    /\ answer' = NoAnswer
    /\ UNCHANGED dictVars

Answer(by, ok, is) ==
    /\ named.ok
    /\ answer' = [by |-> by, ok |-> ok, is |-> is]
    /\ UNCHANGED <<dictVars, named>>

\* Octets read under a kind: octets encoded another way have another meaning.
Fits(kind, attr) ==
    CASE kind \in TextKinds -> TRUE
      [] kind \in {"integer", "ipaddr"} -> attr.size = 4
      [] kind = "ipv6addr" -> attr.size = 16
      [] kind = "vsa" -> attr.size >= 5
      [] OTHER -> FALSE
Meaning(kind, attr) ==
    IF ~Fits(kind, attr) THEN "nothing"
    ELSE IF Encoding(kind) = attr.as THEN attr.is ELSE "something else"

\* Decode, DecodeString and DecodeInteger look the attribute's type up.
Decodes(by, kinds) ==
    LET e == byType[named.def.type]
    IN  IF e = Nil \/ (e # Nil /\ log[e].kind \notin kinds)
        THEN Answer(by, FALSE, "nothing")
        ELSE Answer(by, Fits(log[e].kind, named.attr), Meaning(log[e].kind, named.attr))
Decode == named.ok /\ Decodes("Decode", Kinds)
DecodeString == named.ok /\ Decodes("DecodeString", {"string"})
DecodeInteger == named.ok /\ Decodes("DecodeInteger", {"integer"})

\* GetByName and GetOneByName, on a packet that holds the attribute.
GetByName ==
    /\ named.ok
    /\ LET e == byName[named.def.name]
       IN  Answer("GetByName", HasType(e, named.def.type), named.attr.is)

\* Another goroutine's Register or ResetForTest.
OtherGoroutine ==
    /\ \/ ResetForTest
       \/ Len(log) < MaxRegistrations /\ \E def \in Defs : Register(def)
    /\ UNCHANGED <<named, answer>>

CodecNext ==
    \/ \E name \in Names, v \in Values : NewByName(name, v)
    \/ Decode \/ DecodeString \/ DecodeInteger \/ GetByName
    \/ OtherGoroutine

CodecSpec == CodecInit /\ [][CodecNext]_codecVars

-----------------------------------------------------------------------------
\* The name still stands for the definition it was looked up with.
StillMeant ==
    LET e == byName[named.def.name] IN e # Nil /\ log[e] = named.def

\* For as long as an attribute's name stands for what it did when the
\* attribute was made, whoever registers what meanwhile: it is found under
\* the name, and it decodes, by its type, to the value it was made of
\* (dict_helper.go:37, :120).
AnswersAsNamed ==
    LET asked == answer'.by IN
    asked # "nobody" /\ StillMeant =>
        /\ asked \in {"Decode", "GetByName"} => answer'.ok
        /\ asked = "DecodeString" => answer'.ok = (named.def.kind = "string")
        /\ asked = "DecodeInteger" => answer'.ok = (named.def.kind = "integer")
        /\ answer'.ok => answer'.is = named.value.is

DecodesWhatItNamed == [][UNCHANGED <<dictVars, named>> => AnswersAsNamed]_codecVars
=============================================================================
