----------------------------- MODULE Dictionary -----------------------------
(***************************************************************************)
(* The two maps of dictionary/dictionary.go over one set of attribute      *)
(* definitions.  An entry, the heap object that Register allocates, is     *)
(* named by its position in the log of registrations, so two entries with  *)
(* equal contents are two objects and the maps can be asked whether they   *)
(* hold the same one.  The mutex makes each operation one step; Lookup,    *)
(* LookupName and Size only read.                                          *)
(***************************************************************************)
EXTENDS Naturals, Sequences

CONSTANTS
    Types,      \* attribute type numbers
    Names,      \* attribute names
    NoName,     \* the empty name
    Kinds       \* what else a definition says: its value type

ASSUME NoNameIsNoName == NoName \notin Names

\* A map's zero value: no entry.
Nil == 0

Defs == [type : Types, name : Names \cup {NoName}, kind : Kinds]

VARIABLES
    byType,     \* Dictionary.byType
    byName,     \* Dictionary.byName
    log         \* the definitions registered since the maps were made

dictVars == <<byType, byName, log>>

\* New: two empty maps.
DictInit ==
    /\ byType = [t \in Types |-> Nil]
    /\ byName = [n \in Names |-> Nil]
    /\ log = <<>>

\* The name an entry, or none, is registered under; likewise its type.
NameOf(e) == IF e = Nil THEN NoName ELSE log[e].name
HasType(e, t) == e # Nil /\ log[e].type = t

\* Slip: the other name of the type stays bound.
RegisterKeepsNameSlip(def) ==
    LET new == Len(log) + 1
    IN  /\ def.name # NoName
        /\ byName' = [byName EXCEPT ![def.name] = new]
        /\ byType' = [t \in Types |->
                         IF t = def.type THEN new
                         ELSE IF HasType(byName[def.name], t) THEN Nil ELSE byType[t]]
        /\ log' = Append(log, def)

\* Register: unbind the name that the type had and the type that the name
\* had, then bind both.
Register(def) ==
    LET new == Len(log) + 1
    IN  /\ def.name # NoName
        /\ byName' = [n \in Names |->
                         IF n = def.name THEN new
                         ELSE IF n = NameOf(byType[def.type]) THEN Nil ELSE byName[n]]
        /\ byType' = [t \in Types |->
                         IF t = def.type THEN new
                         ELSE IF HasType(byName[def.name], t) THEN Nil ELSE byType[t]]
        /\ log' = Append(log, def)

ResetForTest ==
    /\ byType' = [t \in Types |-> Nil]
    /\ byName' = [n \in Names |-> Nil]
    /\ log' = <<>>

DictNext == ResetForTest \/ \E def \in Defs : Register(def)

DictSpec == DictInit /\ [][DictNext]_dictVars

-----------------------------------------------------------------------------
\* The maps hold entries.
DictTypeOK ==
    /\ byType \in [Types -> 0..Len(log)]
    /\ byName \in [Names -> 0..Len(log)]
    /\ log \in Seq([type : Types, name : Names, kind : Kinds])

\* The two maps index the same objects: what Lookup finds under a type,
\* LookupName finds under that entry's name, and conversely.  Neither map
\* holds an entry under a key that is not the entry's own.
IndexesAgree ==
    /\ \A t \in Types :
          byType[t] # Nil => /\ log[byType[t]].type = t
                             /\ byName[log[byType[t]].name] = byType[t]
    /\ \A n \in Names :
          byName[n] # Nil => /\ log[byName[n]].name = n
                             /\ byType[log[byName[n]].type] = byName[n]

\* No later registration has the type or the name of registration i.
Survives(i) ==
    \A j \in (i + 1)..Len(log) : log[j].type # log[i].type /\ log[j].name # log[i].name

\* Last write wins, on a collision of types or of names, and nothing else is
\* lost: a registration is found exactly when no later one collides with it,
\* even if that later one has itself been displaced.
LastWriteWins ==
    \A i \in 1..Len(log) :
        /\ byType[log[i].type] = i <=> Survives(i)
        /\ byName[log[i].name] = i <=> Survives(i)
=============================================================================
