--------------------------- MODULE DictionaryLoad ---------------------------
(***************************************************************************)
(* RegisterFromDict of dictionary/register.go: a Dict, read from files by  *)
(* the parser or built by the caller, is registered attribute by           *)
(* attribute in a dictionary that other goroutines register in meanwhile.  *)
(***************************************************************************)
EXTENDS Dictionary, DictionaryParser

CONSTANTS
    Built,      \* Dicts that callers build by hand
    MaxCalls    \* bound: operations of other goroutines

ASSUME MaxCallsIsNat == MaxCalls \in Nat

\* mapValueType knows the value types of the runtime, and the empty one,
\* which it takes for raw.
KnownKinds ==
    {"string", "integer", "ipaddr", "ipv6addr", "octets", "vsa", "extended", "raw", ""}

ValueType(kind) == IF kind = "" THEN "raw" ELSE kind

ASSUME KindsAreTheRuntimes == {ValueType(kind) : kind \in KnownKinds} \subseteq Kinds

\* A line's fields are what is between white space: no name is empty.
ASSUME AttributesAreNamed ==
    \A line \in Lines :
        line.is = "ATTRIBUTE" => line.type \in Types /\ line.name \in Names

\* Callers may leave the name out or invent a value type.
ASSUME BuiltAreDicts ==
    \A entries \in Built : \A i \in 1..Len(entries) :
        entries[i].is = "ATTRIBUTE" =>
            entries[i].type \in Types /\ entries[i].name \in Names \cup {NoName}

VARIABLES
    built,      \* was the Dict built by hand?
    next,       \* the entry that RegisterFromDict is at
    load,       \* "waiting" for the parser, "loading", or what it returned
    calls       \* how often other goroutines have called

loadVars == <<dictVars, parserVars, built, next, load, calls>>

LoadInit ==
    /\ DictInit
    /\ \/ built = FALSE /\ ParserInit
       \/ /\ built = TRUE
          /\ disk \in Disks /\ paths = <<>> /\ reader = FALSE /\ read = 0
          /\ stack = <<>> /\ visited = {} /\ outcome = "none"
          /\ dict \in Built
    /\ next = 1
    /\ load = "waiting"
    /\ calls = 0

\* The caller of the parser: an error is the end of it.
Parse ==
    /\ ParserNext
    /\ UNCHANGED <<dictVars, built, next, load, calls>>

StartLoad ==
    /\ load = "waiting"
    /\ built \/ outcome = "parsed"
    /\ load' = "loading"
    /\ UNCHANGED <<dictVars, parserVars, built, next, calls>>

Loading == load = "loading" /\ next <= Len(dict)

\* Values and vendors do not enter the dictionary.
SkipEntry ==
    /\ Loading /\ dict[next].is # "ATTRIBUTE"
    /\ next' = next + 1
    /\ UNCHANGED <<dictVars, parserVars, built, load, calls>>

DefOf(attr) == [type |-> attr.type, name |-> attr.name, kind |-> ValueType(attr.kind)]

\* Slip: only the base attributes are registered.
RegisterBaseSlip ==
    /\ Loading /\ dict[next].is = "ATTRIBUTE"
    /\ dict[next].kind \in KnownKinds
    /\ IF dict[next].vendor = NoVendor
       THEN Register(DefOf(dict[next])) ELSE UNCHANGED dictVars
    /\ next' = next + 1
    /\ UNCHANGED <<parserVars, built, load, calls>>

\* The attribute is registered, whatever vendor it belongs to.
RegisterAttribute ==
    /\ Loading /\ dict[next].is = "ATTRIBUTE"
    /\ dict[next].kind \in KnownKinds
    /\ Register(DefOf(dict[next]))
    /\ next' = next + 1
    /\ UNCHANGED <<parserVars, built, load, calls>>

\* mapValueType or Register reports an error.
RegisterFails ==
    /\ Loading /\ dict[next].is = "ATTRIBUTE"
    /\ dict[next].kind \notin KnownKinds \/ dict[next].name = NoName
    /\ load' = "failed"
    /\ UNCHANGED <<dictVars, parserVars, built, next, calls>>

LoadReturns ==
    /\ load = "loading" /\ next > Len(dict)
    /\ load' = "loaded"
    /\ UNCHANGED <<dictVars, parserVars, built, next, calls>>

\* Another goroutine registers or resets.
OtherCalls ==
    /\ load = "loading" /\ calls < MaxCalls
    /\ calls' = calls + 1
    /\ ResetForTest \/ \E def \in Defs : Register(def)
    /\ UNCHANGED <<parserVars, built, next, load>>

LoadNext ==
    \/ Parse \/ StartLoad \/ SkipEntry \/ RegisterAttribute \/ RegisterFails
    \/ LoadReturns \/ OtherCalls

LoadSpec == LoadInit /\ [][LoadNext]_loadVars

-----------------------------------------------------------------------------
\* A Dict that the parser returned is registered to its end: the parser
\* passes on no value type that RegisterFromDict rejects, and no empty name.
ParsedDictsLoad == load = "failed" => built

\* An attribute that has been registered from the Dict and that no attribute
\* after it has displaced.
Stands(i) ==
    /\ dict[i].is = "ATTRIBUTE"
    /\ \A j \in (i + 1)..(next - 1) :
          dict[j].is = "ATTRIBUTE" => dict[j].type # dict[i].type /\ dict[j].name # dict[i].name

\* A dictionary that nobody else has touched holds what RegisterFromDict has
\* passed of the Dict and nothing else, wherever it returns: an attribute is
\* found under its type and under its name, as the same entry, unless a later
\* attribute has taken one of the two, and whatever is found is such an
\* attribute.
HoldsWhatTheDictSays ==
    calls = 0 =>
        /\ \A i \in 1..(next - 1) : Stands(i) =>
              /\ byType[dict[i].type] # Nil
              /\ byName[dict[i].name] = byType[dict[i].type]
              /\ log[byType[dict[i].type]] = DefOf(dict[i])
        /\ \A t \in Types : byType[t] # Nil =>
              \E i \in 1..(next - 1) : Stands(i) /\ dict[i].type = t
        /\ \A n \in Names : byName[n] # Nil =>
              \E i \in 1..(next - 1) : Stands(i) /\ dict[i].name = n
=============================================================================
