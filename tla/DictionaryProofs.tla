-------------------------- MODULE DictionaryProofs --------------------------
(***************************************************************************)
(* What dictionary/dictionary.go promises of its two maps, for every set   *)
(* of types, names and value types and any sequence of registrations and   *)
(* resets.  The three invariants are inductive together: that the maps     *)
(* hold entries, that they agree, and that the last write wins.  That they *)
(* agree is also why an attribute made by its name can be read by its type *)
(* (packet/dict_helper.go).                                                *)
(*                                                                         *)
(* What dictionary/parser/parser.go makes of its files, for every disk:    *)
(* the call succeeds exactly when the files can be read, and what it       *)
(* returns is what they say.  LoadInv holds between the parser's steps: a  *)
(* frame has the entries that its file says up to the line it is at, and   *)
(* no file is on the stack twice.  What was parsed can be registered       *)
(* (dictionary/register.go), and the registration is a run of Dictionary.  *)
(***************************************************************************)
EXTENDS DictionaryLoad, DictionaryCodec, SequenceTheorems, FiniteSetTheorems,
        RecursionProofs, TLAPS

DictIInv == DictTypeOK /\ IndexesAgree /\ LastWriteWins

\* Dictionary.New: two empty maps satisfy all three.
LEMMA DictInitial == DictInit => DictIInv
BY SMT DEF DictInit, DictIInv, DictTypeOK, IndexesAgree, LastWriteWins, Nil

\* ResetForTest: likewise, since it replaces both maps in one critical
\* section.
LEMMA ResetKeepsIInv == ResetForTest => DictIInv'
BY SMT DEF ResetForTest, DictIInv, DictTypeOK, IndexesAgree, LastWriteWins, Nil

\* Register: the log has one entry more, and an older registration survives
\* when it did so before and has neither the new type nor the new name.
LEMMA RegisterExtendsLog ==
    ASSUME DictTypeOK, NEW def \in Defs, Register(def)
    PROVE  /\ def \in [type : Types, name : Names, kind : Kinds]
           /\ log' \in Seq([type : Types, name : Names, kind : Kinds])
           /\ Len(log) \in Nat /\ Len(log') = Len(log) + 1
           /\ log'[Len(log) + 1] = def
           /\ \A i \in 1..Len(log) :
                 /\ log'[i] = log[i]
                 /\ log[i].type \in Types /\ log[i].name \in Names
                 /\ Survives(i)' <=> /\ Survives(i)
                                     /\ def.type # log[i].type /\ def.name # log[i].name
<1> DEFINE Entries == [type : Types, name : Names, kind : Kinds]
<1>1. def \in Entries
  BY DEF Defs, Register
<1>2. log \in Seq(Entries) /\ log' = Append(log, def)
  BY DEF DictTypeOK, Register
<1> HIDE DEF Entries
<1>3. /\ log' \in Seq(Entries)
      /\ Len(log) \in Nat /\ Len(log') = Len(log) + 1
      /\ log'[Len(log) + 1] = def
      /\ \A i \in 1..Len(log) : log'[i] = log[i] /\ log[i] \in Entries
  BY <1>1, <1>2, SMT
<1>4. ASSUME NEW i \in 1..Len(log)
      PROVE  Survives(i)' <=> /\ Survives(i)
                              /\ def.type # log[i].type /\ def.name # log[i].name
  <2>1. (i + 1)..Len(log') = ((i + 1)..Len(log)) \cup {Len(log) + 1}
    BY <1>3, SMT
  <2>2. \A j \in (i + 1)..Len(log) : j \in 1..Len(log) /\ log'[j] = log[j]
    <3>1. \A j \in (i + 1)..Len(log) : j \in 1..Len(log)
      BY <1>3, SMT
    <3> QED
      BY <1>3, <3>1
  <2>3. log'[i] = log[i]
    BY <1>3
  <2> QED
    BY <1>3, <2>1, <2>2, <2>3 DEF Survives
<1>5. \A i \in 1..Len(log) : log[i].type \in Types /\ log[i].name \in Names
  BY <1>3 DEF Entries
<1> QED
  BY <1>1, <1>3, <1>4, <1>5 DEF Entries

\* Register: unbinding the type's old name and the name's old type before
\* binding both keeps the three.
LEMMA RegisterKeepsIInv ==
    ASSUME DictIInv, NEW def \in Defs, Register(def)
    PROVE  DictIInv'
<1> DEFINE new == Len(log) + 1
<1>0. DictTypeOK /\ IndexesAgree /\ LastWriteWins
  BY DEF DictIInv
<1>1. /\ def.type \in Types /\ def.name \in Names
      /\ log' \in Seq([type : Types, name : Names, kind : Kinds])
      /\ Len(log) \in Nat /\ Len(log') = new
      /\ log'[new] = def
      /\ \A i \in 1..Len(log) :
            /\ log'[i] = log[i]
            /\ log[i].type \in Types /\ log[i].name \in Names
            /\ Survives(i)' <=> /\ Survives(i)
                                /\ def.type # log[i].type /\ def.name # log[i].name
  BY <1>0, RegisterExtendsLog
<1>2. /\ byType \in [Types -> 0..Len(log)]
      /\ byName \in [Names -> 0..Len(log)]
  BY <1>0 DEF DictTypeOK
\* The maps after the step, without the updates they are made of.
<1>3. \A t \in Types :
         byType'[t] = IF t = def.type THEN new
                      ELSE IF byType[t] # Nil /\ byName[def.name] = byType[t] THEN Nil
                      ELSE byType[t]
  <2> TAKE t \in Types
  <2>1. byType'[t] = IF t = def.type THEN new
                     ELSE IF HasType(byName[def.name], t) THEN Nil ELSE byType[t]
    BY DEF Register
  <2>2. HasType(byName[def.name], t) <=> byType[t] # Nil /\ byName[def.name] = byType[t]
    BY <1>0, <1>1, <1>2 DEF HasType, IndexesAgree
  <2> QED
    BY <2>1, <2>2
<1>4. \A n \in Names :
         byName'[n] = IF n = def.name THEN new
                      ELSE IF byName[n] # Nil /\ byType[def.type] = byName[n] THEN Nil
                      ELSE byName[n]
  <2> TAKE n \in Names
  <2>1. byName'[n] = IF n = def.name THEN new
                     ELSE IF n = NameOf(byType[def.type]) THEN Nil ELSE byName[n]
    BY DEF Register
  <2>2. n = NameOf(byType[def.type]) <=> byName[n] # Nil /\ byType[def.type] = byName[n]
    BY <1>0, <1>1, <1>2, NoNameIsNoName DEF NameOf, IndexesAgree
  <2> QED
    BY <2>1, <2>2
<1>5. DictTypeOK'
  <2>1. DOMAIN byType' = Types /\ byType' = [t \in Types |-> byType'[t]]
    BY DEF Register
  <2>2. DOMAIN byName' = Names /\ byName' = [n \in Names |-> byName'[n]]
    BY DEF Register
  <2>3. \A t \in Types : byType'[t] \in 0..Len(log')
    BY <1>1, <1>2, <1>3, SMT DEF Nil
  <2>4. \A n \in Names : byName'[n] \in 0..Len(log')
    BY <1>1, <1>2, <1>4, SMT DEF Nil
  <2> QED
    BY <1>1, <2>1, <2>2, <2>3, <2>4 DEF DictTypeOK
<1>6. IndexesAgree'
  <2>1. ASSUME NEW t \in Types, byType'[t] # Nil
        PROVE  /\ log'[byType'[t]].type = t
               /\ byName'[log'[byType'[t]].name] = byType'[t]
    <3>1. CASE t = def.type
      BY <1>1, <1>3, <1>4, <3>1
    <3>2. CASE t # def.type
      <4>1. /\ byType'[t] = byType[t] /\ byType[t] # Nil
            /\ byName[def.name] # byType[t]
        BY <1>3, <2>1, <3>2
      <4>2. byType[t] \in 1..Len(log)
        BY <1>1, <1>2, <4>1, SMT DEF Nil
      <4>3. log[byType[t]].type = t /\ byName[log[byType[t]].name] = byType[t]
        BY <1>0, <4>1 DEF IndexesAgree
      <4>4. byType[def.type] # byType[t]
        BY <1>0, <1>1, <3>2, <4>1, <4>3 DEF IndexesAgree
      <4>5. log[byType[t]].name # def.name
        BY <4>1, <4>3
      <4> QED
        BY <1>1, <1>4, <4>1, <4>2, <4>3, <4>4, <4>5
    <3> QED
      BY <3>1, <3>2
  <2>2. ASSUME NEW n \in Names, byName'[n] # Nil
        PROVE  /\ log'[byName'[n]].name = n
               /\ byType'[log'[byName'[n]].type] = byName'[n]
    <3>1. CASE n = def.name
      BY <1>1, <1>3, <1>4, <3>1
    <3>2. CASE n # def.name
      <4>1. /\ byName'[n] = byName[n] /\ byName[n] # Nil
            /\ byType[def.type] # byName[n]
        BY <1>4, <2>2, <3>2
      <4>2. byName[n] \in 1..Len(log)
        BY <1>1, <1>2, <4>1, SMT DEF Nil
      <4>3. log[byName[n]].name = n /\ byType[log[byName[n]].type] = byName[n]
        BY <1>0, <4>1 DEF IndexesAgree
      <4>4. byName[def.name] # byName[n]
        BY <1>0, <1>1, <3>2, <4>1, <4>3 DEF IndexesAgree
      <4>5. log[byName[n]].type # def.type
        BY <4>1, <4>3
      <4> QED
        BY <1>1, <1>3, <4>1, <4>2, <4>3, <4>4, <4>5
    <3> QED
      BY <3>1, <3>2
  <2> QED
    BY <2>1, <2>2 DEF IndexesAgree
<1>7. LastWriteWins'
  <2>1. ASSUME NEW i \in 1..Len(log)
        PROVE  /\ byType'[log'[i].type] = i <=> Survives(i)'
               /\ byName'[log'[i].name] = i <=> Survives(i)'
    <3>1. i # new /\ i # Nil
      BY <1>1, SMT DEF Nil
    <3>2. /\ byType[log[i].type] = i <=> Survives(i)
          /\ byName[log[i].name] = i <=> Survives(i)
      BY <1>0 DEF LastWriteWins
    <3>3. byType'[log[i].type] = i <=> /\ byType[log[i].type] = i
                                       /\ log[i].type # def.type
                                       /\ byName[def.name] # i
      BY <1>1, <1>3, <3>1
    <3>4. byName'[log[i].name] = i <=> /\ byName[log[i].name] = i
                                       /\ log[i].name # def.name
                                       /\ byType[def.type] # i
      BY <1>1, <1>4, <3>1
    <3>5. ASSUME Survives(i)
          PROVE  /\ byName[def.name] = i <=> def.name = log[i].name
                 /\ byType[def.type] = i <=> def.type = log[i].type
      BY <1>0, <1>1, <3>1, <3>2, <3>5 DEF IndexesAgree
    <3> QED
      BY <1>1, <3>2, <3>3, <3>4, <3>5
  <2>2. ASSUME NEW i, i = new
        PROVE  /\ byType'[log'[i].type] = i <=> Survives(i)'
               /\ byName'[log'[i].name] = i <=> Survives(i)'
    <3>1. Survives(i)'
      <4>1. (i + 1)..Len(log') = {}
        BY <1>1, <2>2, SMT
      <4> QED
        BY <4>1 DEF Survives
    <3> QED
      BY <1>1, <1>3, <1>4, <2>2, <3>1
  <2>3. 1..Len(log') = (1..Len(log)) \cup {new}
    BY <1>1, SMT
  <2> QED
    BY <2>1, <2>2, <2>3 DEF LastWriteWins
<1> QED
  BY <1>5, <1>6, <1>7 DEF DictIInv

\* The three hold of every dictionary, whatever is registered in whatever
\* order.
THEOREM DictInvariance == DictSpec => []DictIInv
<1>1. DictInit => DictIInv
  BY DictInitial
<1>2. DictIInv /\ [DictNext]_dictVars => DictIInv'
  <2> SUFFICES ASSUME DictIInv, [DictNext]_dictVars PROVE DictIInv'
    OBVIOUS
  <2>1. CASE ResetForTest
    BY <2>1, ResetKeepsIInv
  <2>2. ASSUME NEW def \in Defs, Register(def) PROVE DictIInv'
    BY <2>2, RegisterKeepsIInv
  <2>3. CASE UNCHANGED dictVars
    BY <2>3 DEF dictVars, DictIInv, DictTypeOK, IndexesAgree, LastWriteWins,
                Survives, Nil
  <2> QED
    BY <2>1, <2>2, <2>3 DEF DictNext
<1> QED
  BY <1>1, <1>2, PTL DEF DictSpec

\* Lookup and LookupName find the same objects: neither map can be left
\* with a stale entry by the deletions of Register.
THEOREM DictIndexesAgree == DictSpec => []IndexesAgree
<1>1. DictIInv => IndexesAgree
  BY DEF DictIInv
<1> QED
  BY <1>1, DictInvariance, PTL

\* A definition is found, by type and by name, exactly until a later one
\* has its type or its name.
THEOREM DictLastWriteWins == DictSpec => []LastWriteWins
<1>1. DictIInv => LastWriteWins
  BY DEF DictIInv
<1> QED
  BY <1>1, DictInvariance, PTL
-----------------------------------------------------------------------------
\* What NewByName made is what its definition makes of the value.
NamedInv ==
    named.ok => /\ named.def \in [type : Types, name : Names, kind : Kinds]
                /\ Converts(named.def.kind, named.value)
                /\ named.attr = Encoded(named.def.kind, named.value)

\* Every operation of the codec leaves the maps alone or is one of theirs.
LEMMA CodecKeepsDictIInv == DictIInv /\ [CodecNext]_codecVars => DictIInv'
<1> SUFFICES ASSUME DictIInv, [CodecNext]_codecVars PROVE DictIInv'
  OBVIOUS
<1>1. CASE UNCHANGED dictVars
  BY <1>1 DEF dictVars, DictIInv, DictTypeOK, IndexesAgree, LastWriteWins,
              Survives, Nil
<1>2. CASE OtherGoroutine
  BY <1>2, ResetKeepsIInv, RegisterKeepsIInv DEF OtherGoroutine
<1>3. CASE UNCHANGED codecVars
  BY <1>1, <1>3 DEF codecVars
<1>4. CASE \E name \in Names, v \in Values : NewByName(name, v)
  BY <1>1, <1>4 DEF NewByName
<1>5. CASE Decode \/ DecodeString \/ DecodeInteger \/ GetByName
  BY <1>1, <1>5 DEF Decode, DecodeString, DecodeInteger, GetByName, Decodes, Answer
<1> QED
  BY <1>2, <1>3, <1>4, <1>5 DEF CodecNext

\* NewByName finds a definition that was registered.
LEMMA CodecKeepsNamedInv ==
    ASSUME DictIInv, NamedInv, [CodecNext]_codecVars PROVE NamedInv'
<1>1. CASE UNCHANGED named
  BY <1>1 DEF NamedInv
<1>2. ASSUME NEW name \in Names, NEW v \in Values, NewByName(name, v)
      PROVE  NamedInv'
  <2>1. log[byName[name]] \in [type : Types, name : Names, kind : Kinds]
    <3>1. byName[name] \in 1..Len(log)
      BY <1>2 DEF NewByName, Nil, DictIInv, DictTypeOK
    <3>2. log \in Seq([type : Types, name : Names, kind : Kinds])
      BY <1>2 DEF DictIInv, DictTypeOK
    <3> QED
      BY <3>1, <3>2, ElementOfSeq
  <2>2. named'.ok => /\ named'.def = log[byName[name]] /\ named'.value = v
                     /\ Converts(named'.def.kind, v)
                     /\ named'.attr = Encoded(named'.def.kind, v)
    BY <1>2 DEF NewByName
  <2> QED
    BY <2>1, <2>2 DEF NamedInv
<1> QED
  BY <1>1, <1>2 DEF CodecNext, codecVars, OtherGoroutine, Decode, DecodeString,
                    DecodeInteger, GetByName, Decodes, Answer

\* Under its own kind an encoded value is read back.
LEMMA EncodedMeansItself ==
    ASSUME NamedInv, named.ok
    PROVE  /\ Fits(named.def.kind, named.attr)
           /\ Meaning(named.def.kind, named.attr) = named.value.is
<1> DEFINE k == named.def.kind
<1>1. k \in TextKinds \cup {"integer", "ipaddr", "ipv6addr"}
  BY DEF NamedInv, Converts, TextKinds
<1>2. /\ named.attr.as = Encoding(k) /\ named.attr.is = named.value.is
      /\ k \in {"integer", "ipaddr"} => named.attr.size = 4
      /\ k = "ipv6addr" => named.attr.size = 16
  BY DEF NamedInv, Encoded, TextKinds
<1>3. Fits(k, named.attr)
  BY <1>1, <1>2 DEF Fits, TextKinds
<1> QED
  BY <1>2, <1>3 DEF Meaning

\* As long as the name stands for its definition, the type does too, and
\* what is decoded by the type is what was encoded under the name
\* (dict_helper.go:37-60, 120-150), whoever registers or resets meanwhile.
THEOREM DictDecodesWhatItNamed == CodecSpec => DecodesWhatItNamed
<1>1. CodecInit => DictIInv /\ NamedInv
  BY DictInitial DEF CodecInit, NamedInv
<1>2. DictIInv /\ NamedInv /\ [CodecNext]_codecVars => DictIInv' /\ NamedInv'
  BY CodecKeepsDictIInv, CodecKeepsNamedInv
<1>3. ASSUME DictIInv, NamedInv, CodecNext, UNCHANGED <<dictVars, named>>,
             answer' # answer
      PROVE  AnswersAsNamed
  <2> DEFINE e == byType[named.def.type]
             kind == named.def.kind
  <2> SUFFICES ASSUME answer'.by # "nobody", StillMeant
               PROVE  /\ answer'.by \in {"Decode", "GetByName"} => answer'.ok
                      /\ answer'.by = "DecodeString" => answer'.ok = (kind = "string")
                      /\ answer'.by = "DecodeInteger" => answer'.ok = (kind = "integer")
                      /\ answer'.ok => answer'.is = named.value.is
    BY DEF AnswersAsNamed
  <2>1. Decode \/ DecodeString \/ DecodeInteger \/ GetByName
    <3>1. ~OtherGoroutine
      BY <1>3 DEF OtherGoroutine
    <3>2. \A name \in Names, v \in Values : ~NewByName(name, v)
      BY DEF NewByName, NoAnswer
    <3> QED
      BY <1>3, <3>1, <3>2 DEF CodecNext
  <2>2. named.ok
    BY <2>1 DEF Decode, DecodeString, DecodeInteger, GetByName
  <2>3. /\ named.def.name \in Names /\ named.def.type \in Types /\ kind \in Kinds
    BY <1>3, <2>2 DEF NamedInv
  <2>4. /\ e # Nil /\ log[e] = named.def
        /\ byName[named.def.name] = e
    BY <1>3, <2>3 DEF StillMeant, DictIInv, IndexesAgree
  <2>5. /\ Fits(kind, named.attr)
        /\ Meaning(kind, named.attr) = named.value.is
    BY <1>3, <2>2, EncodedMeansItself
  <2>6. ASSUME NEW by, NEW kinds, Decodes(by, kinds)
        PROVE  answer' = IF kind \in kinds
                         THEN [by |-> by, ok |-> TRUE, is |-> named.value.is]
                         ELSE [by |-> by, ok |-> FALSE, is |-> "nothing"]
    BY <2>4, <2>5, <2>6 DEF Decodes, Answer
  <2> HIDE DEF e, kind
  <2>7. CASE Decode
    BY <2>3, <2>6, <2>7 DEF Decode
  <2>8. CASE DecodeString
    <3>1. answer' = IF kind = "string"
                    THEN [by |-> "DecodeString", ok |-> TRUE, is |-> named.value.is]
                    ELSE [by |-> "DecodeString", ok |-> FALSE, is |-> "nothing"]
      BY <2>6, <2>8 DEF DecodeString
    <3>2. CASE kind = "string"
      BY <3>1, <3>2
    <3>3. CASE kind # "string"
      BY <3>1, <3>3
    <3> QED
      BY <3>2, <3>3
  <2>9. CASE DecodeInteger
    <3>1. answer' = IF kind = "integer"
                    THEN [by |-> "DecodeInteger", ok |-> TRUE, is |-> named.value.is]
                    ELSE [by |-> "DecodeInteger", ok |-> FALSE, is |-> "nothing"]
      BY <2>6, <2>9 DEF DecodeInteger
    <3>2. CASE kind = "integer"
      BY <3>1, <3>2
    <3>3. CASE kind # "integer"
      BY <3>1, <3>3
    <3> QED
      BY <3>2, <3>3
  <2>10. CASE GetByName
    <3>1. answer' = [by |-> "GetByName", ok |-> TRUE, is |-> named.attr.is]
      BY <2>4, <2>10 DEF GetByName, Answer, HasType
    <3>2. named.attr.is = named.value.is
      BY <1>3, <2>2 DEF NamedInv, Encoded
    <3> QED
      BY <3>1, <3>2
  <2> QED
    BY <2>1, <2>7, <2>8, <2>9, <2>10
<1>4. ASSUME DictIInv, NamedInv, [CodecNext]_codecVars
      PROVE  [UNCHANGED <<dictVars, named>> => AnswersAsNamed]_codecVars
  BY <1>3, <1>4 DEF codecVars
<1> QED
  BY <1>1, <1>2, <1>4, PTL DEF CodecSpec, DecodesWhatItNamed
-----------------------------------------------------------------------------
\* FlattenSeq, of the community modules, adds the sequences one by one: the
\* recursive function that defines it exists.
LEMMA FlattenRuns ==
    ASSUME NEW E, NEW seqs \in Seq(Seq(E)), seqs # <<>>
    PROVE  \E g \in [1..Len(seqs) -> Seq(E)] :
              /\ g[1] = seqs[1]
              /\ \A i \in 2..Len(seqs) : g[i] = g[i - 1] \o seqs[i]
              /\ FlattenSeq(seqs) = g[Len(seqs)]
<1> DEFINE N == Len(seqs)
           T == Seq(E)
           step == [n \in Nat |-> [x \in T |-> IF n + 1 \in 1..N THEN x \o seqs[n + 1] ELSE x]]
           Body(k) == [i \in 1..N |-> IF i = 1 THEN seqs[i] ELSE k[i - 1] \o seqs[i]]
           flatten == CHOOSE k : k = Body(k)
<1>1. N \in Nat /\ N > 0 /\ \A i \in 1..N : seqs[i] \in T
  OBVIOUS
<1>2. \A x, y \in T : x \o y \in T
  OBVIOUS
<1>3. seqs[1] \in T /\ step \in [Nat -> [T -> T]]
  <2> HIDE DEF N, T
  <2> QED BY <1>1, <1>2
<1>4. PICK f \in [Nat -> T] :
         f[0] = seqs[1] /\ \A n \in Nat : n > 0 => f[n] = step[n][f[n - 1]]
  <2>1. step \in Steps(T)
    BY <1>3 DEF Steps
  <2>2. PICK f \in Recursive(T, seqs[1], step) : TRUE
    <3> HIDE DEF T, step
    <3> QED BY <1>3, <2>1, RecursiveExists
  <2> HIDE DEF T, step
  <2> QED BY <2>2 DEF Recursive
<1> DEFINE g == [i \in 1..N |-> f[i - 1]]
<1>5. \A n \in Nat : f[n] \in T
  <2> HIDE DEF T
  <2> QED BY <1>4
<1>6. ASSUME NEW i \in 2..N PROVE f[i - 1] = f[i - 2] \o seqs[i]
  <2> HIDE DEF T, N
  <2>1. i - 1 \in Nat /\ i - 1 > 0 /\ i - 2 \in Nat /\ (i - 1) - 1 = i - 2 /\ (i - 1) + 1 = i
        /\ i \in 1..N
    BY <1>1
  <2>2. f[i - 1] = step[i - 1][f[i - 2]] /\ f[i - 2] \in T
    BY <1>4, <1>5, <2>1
  <2> QED BY <2>1, <2>2
<1>7. g = Body(g)
  <2> HIDE DEF N, T
  <2>1. ASSUME NEW i \in 1..N PROVE g[i] = Body(g)[i]
    <3>1. CASE i = 1
      BY <1>1, <1>4, <3>1
    <3>2. CASE i # 1
      <4>1. i \in 2..N /\ i - 1 \in 1..N /\ (i - 1) - 1 = i - 2
        BY <1>1, <3>2
      <4>2. g[i] = f[i - 1] /\ g[i - 1] = f[i - 2]
        BY <4>1
      <4>3. f[i - 1] = f[i - 2] \o seqs[i]
        BY <1>6, <4>1
      <4> QED BY <3>2, <4>2, <4>3
    <3> QED BY <3>1, <3>2
  <2> DEFINE b == Body(g)
  <2>2. g = [i \in 1..N |-> g[i]] /\ b = [i \in 1..N |-> b[i]]
    OBVIOUS
  <2>3. \A i \in 1..N : g[i] = b[i]
    BY <2>1
  <2> HIDE DEF g, b
  <2>4. g = b
    BY <2>2, <2>3
  <2> QED BY <2>4 DEF b
<1>8. flatten = Body(flatten)
  BY <1>7
<1>9. FlattenSeq(seqs) = flatten[N]
  BY <1>1 DEF FlattenSeq
<1> DEFINE h == [i \in 1..N |-> flatten[i]]
<1> HIDE DEF flatten, N, T
<1>10. flatten[1] = seqs[1] /\ \A i \in 2..N : flatten[i] = flatten[i - 1] \o seqs[i]
  <2>1. ASSUME NEW i \in 1..N
        PROVE  flatten[i] = IF i = 1 THEN seqs[i] ELSE flatten[i - 1] \o seqs[i]
    BY <1>8
  <2>2. 1 \in 1..N /\ \A i \in 2..N : i \in 1..N /\ i # 1
    BY <1>1
  <2> QED BY <2>1, <2>2
<1>11. \A i \in 1..N : flatten[i] \in T
  <2> DEFINE S == {i \in 0..N : i > 0 => flatten[i] \in T}
  <2>1. 0 \in S
    BY <1>1
  <2>2. ASSUME NEW i \in 1..N, i - 1 \in S PROVE i \in S
    <3>1. CASE i = 1
      BY <1>1, <1>10, <3>1
    <3>2. CASE i # 1
      <4>1. i \in 2..N /\ i - 1 > 0 /\ i \in 0..N
        BY <1>1, <3>2
      <4>2. flatten[i - 1] \in T
        BY <2>2, <4>1
      <4>3. flatten[i] \in T
        BY <1>1, <1>2, <1>10, <4>1, <4>2
      <4> QED BY <4>1, <4>3
    <3> QED BY <3>1, <3>2
  <2>3. 0..N \subseteq S
    <3> HIDE DEF S
    <3> QED BY <1>1, <2>1, <2>2, BoundedSetInduction
  <2> QED BY <1>1, <2>3
<1>12. h \in [1..N -> T] /\ h[1] = seqs[1] /\ FlattenSeq(seqs) = h[N]
       /\ \A i \in 2..N : h[i] = h[i - 1] \o seqs[i]
  <2>1. 1 \in 1..N /\ N \in 1..N /\ \A i \in 2..N : i \in 1..N /\ i - 1 \in 1..N
    BY <1>1
  <2> QED BY <1>9, <1>10, <1>11, <2>1
<1> HIDE DEF h
<1> QED BY <1>12 DEF N, T

\* Hence a further sequence is added at the end.
LEMMA FlattenAppend ==
    ASSUME NEW E, NEW seqs \in Seq(Seq(E))
    PROVE  /\ FlattenSeq(seqs) \in Seq(E)
           /\ seqs = <<>> => FlattenSeq(seqs) = <<>>
           /\ \A x \in Seq(E) : FlattenSeq(Append(seqs, x)) = FlattenSeq(seqs) \o x
<1>1. CASE seqs = <<>>
  <2>1. FlattenSeq(seqs) = <<>>
    BY <1>1 DEF FlattenSeq
  <2>2. ASSUME NEW x \in Seq(E) PROVE FlattenSeq(Append(seqs, x)) = x
    <3> DEFINE more == Append(seqs, x)
    <3>1. more \in Seq(Seq(E)) /\ Len(more) = 1 /\ more[1] = x /\ more # <<>>
      BY <1>1
    <3> HIDE DEF more
    <3>2. PICK g \in [1..Len(more) -> Seq(E)] : g[1] = more[1] /\ FlattenSeq(more) = g[Len(more)]
      BY <3>1, FlattenRuns
    <3> QED BY <3>1, <3>2 DEF more
  <2>3. \A x \in Seq(E) : <<>> \o x = x
    OBVIOUS
  <2>4. <<>> \in Seq(E)
    OBVIOUS
  <2>5. \A x \in Seq(E) : FlattenSeq(Append(seqs, x)) = FlattenSeq(seqs) \o x
    BY <2>1, <2>2, <2>3
  <2> QED BY <2>1, <2>4, <2>5
<1>2. CASE seqs # <<>>
  <2> DEFINE N == Len(seqs)
  <2>1. PICK g \in [1..N -> Seq(E)] :
              /\ g[1] = seqs[1]
              /\ \A i \in 2..N : g[i] = g[i - 1] \o seqs[i]
              /\ FlattenSeq(seqs) = g[N]
    BY <1>2, FlattenRuns
  <2>2. N \in Nat /\ N > 0
    BY <1>2
  <2>3. ASSUME NEW x \in Seq(E) PROVE FlattenSeq(Append(seqs, x)) = FlattenSeq(seqs) \o x
    <3> DEFINE more == Append(seqs, x)
    <3>1. /\ more \in Seq(Seq(E)) /\ Len(more) = N + 1 /\ more[N + 1] = x /\ more # <<>>
          /\ \A i \in 1..N : more[i] = seqs[i]
      <4>1. x \in Seq(E) /\ seqs \in Seq(Seq(E))
        OBVIOUS
      <4> DEFINE T == Seq(E)
      <4> HIDE DEF T
      <4>2. /\ more \in Seq(T) /\ Len(more) = N + 1 /\ more[N + 1] = x
            /\ \A i \in 1..N : more[i] = seqs[i]
        <5>1. x \in T /\ seqs \in Seq(T)
          BY <4>1 DEF T
        <5>2. more \in Seq(T) /\ Len(more) = N + 1 /\ more[N + 1] = x
          BY <5>1
        <5>3. \A i \in 1..N : more[i] = seqs[i]
          BY <5>1, AppendProperties
        <5> QED BY <5>2, <5>3
      <4>3. more # <<>>
        <5>1. Len(more) # 0
          BY <2>2, <4>2
        <5> QED BY <5>1
      <4> QED BY <4>2, <4>3 DEF T
    <3> HIDE DEF more, N
    <3>2. PICK h \in [1..Len(more) -> Seq(E)] :
              /\ h[1] = more[1]
              /\ \A i \in 2..Len(more) : h[i] = h[i - 1] \o more[i]
              /\ FlattenSeq(more) = h[Len(more)]
      BY <3>1, FlattenRuns
    <3> DEFINE S == {i \in 0..N : i > 0 => h[i] = g[i]}
    <3>3. 0 \in S
      BY <2>2
    <3>4. ASSUME NEW i \in 1..N, i - 1 \in S PROVE i \in S
      <4>1. CASE i = 1
        BY <2>1, <2>2, <3>1, <3>2, <4>1
      <4>2. CASE i # 1
        <5>1. i \in 2..N /\ i - 1 > 0 /\ i \in 0..N /\ i \in 2..Len(more)
          BY <2>2, <3>1, <4>2
        <5>2. h[i - 1] = g[i - 1]
          BY <3>4, <5>1
        <5>3. h[i] = g[i]
          BY <2>1, <3>1, <3>2, <5>1, <5>2
        <5> QED BY <5>1, <5>3
      <4> QED BY <4>1, <4>2
    <3>5. 0..N \subseteq S
      <4> HIDE DEF S
      <4> QED BY <2>2, <3>3, <3>4, BoundedSetInduction
    <3>6. h[N] = g[N]
      BY <2>2, <3>5
    <3>7. h[N + 1] = h[N] \o more[N + 1]
      <4>1. N + 1 \in 2..Len(more) /\ (N + 1) - 1 = N
        BY <2>2, <3>1
      <4> QED BY <3>2, <4>1
    <3> QED BY <2>1, <3>1, <3>2, <3>6, <3>7 DEF more
  <2>4. FlattenSeq(seqs) \in Seq(E)
    <3>1. N \in 1..N
      BY <2>2
    <3> HIDE DEF N
    <3> QED BY <2>1, <3>1
  <2> QED BY <1>2, <2>3, <2>4
<1> QED BY <1>1, <1>2

-----------------------------------------------------------------------------
(* What the files say.                                                     *)

Vendors == {NoVendor} \cup {line.vendor : line \in Lines}

Entries ==
    {line \in Lines : line.is \in {"VALUE", "VENDOR"}}
    \cup {AttributeOf(line, vendor) :
            line \in {l \in Lines : l.is = "ATTRIBUTE"}, vendor \in Vendors}

Readings == [ok : BOOLEAN, entries : Seq(Entries)]

\* The first n readings together.
Upto(readings, n) == Together([i \in 1..n |-> readings[i]])

\* What the lines of a file say, one by one.
LinesSay(file, says) == [i \in 1..Len(file) |-> LineSays(file, i, says)]

\* Readings together are a reading, to which the next one is added unless
\* it is bad; one bad reading makes all of them bad.
LEMMA UptoIs ==
    ASSUME NEW N \in Nat, NEW readings \in [1..N -> Readings]
    PROVE  /\ Upto(readings, 0) = Reads(<<>>)
           /\ Upto(readings, N) = Together(readings)
           /\ \A n \in 0..N : Upto(readings, n) \in Readings
           /\ \A n \in 0..(N - 1) :
                 Upto(readings, n).ok /\ readings[n + 1].ok =>
                    Upto(readings, n + 1)
                       = Reads(Upto(readings, n).entries \o readings[n + 1].entries)
           /\ \A i \in 1..N : ~readings[i].ok => Together(readings) = Bad
<1> DEFINE Some(n) == [i \in 1..n |-> readings[i]]
           Parts(n) == [i \in 1..n |-> readings[i].entries]
<1>1. \A i \in 1..N : readings[i] \in Readings
  OBVIOUS
<1>2. ASSUME NEW n \in 0..N PROVE Parts(n) \in Seq(Seq(Entries)) /\ Len(Parts(n)) = n
  <2>1. \A i \in 1..n : i \in 1..N /\ readings[i].entries \in Seq(Entries)
    BY <1>1 DEF Readings
  <2>2. n \in Nat
    OBVIOUS
  <2> QED BY <2>1, <2>2
<1>3. ASSUME NEW n \in 0..N
      PROVE  Upto(readings, n) = IF \A i \in 1..n : readings[i].ok
                                 THEN Reads(FlattenSeq(Parts(n))) ELSE Bad
  <2>1. DOMAIN Some(n) = 1..n /\ \A i \in 1..n : Some(n)[i] = readings[i]
    OBVIOUS
  <2>2. [i \in DOMAIN Some(n) |-> Some(n)[i].entries] = Parts(n)
    BY <2>1
  <2> QED BY <2>1, <2>2 DEF Upto, Together
<1>4. \A n \in 0..N : FlattenSeq(Parts(n)) \in Seq(Entries)
  <2> HIDE DEF Parts
  <2> QED BY <1>2, FlattenAppend
<1>5. Upto(readings, 0) = Reads(<<>>)
  <2>1. FlattenSeq(Parts(0)) = <<>>
    <3>1. Parts(0) \in Seq(Seq(Entries)) /\ Parts(0) = <<>>
      OBVIOUS
    <3> HIDE DEF Parts
    <3> QED BY <3>1, FlattenAppend
  <2>2. 0 \in 0..N /\ 1..0 = {}
    OBVIOUS
  <2> HIDE DEF Parts
  <2> QED BY <1>3, <2>1, <2>2
<1>6. Upto(readings, N) = Together(readings)
  <2>1. Some(N) = readings
    OBVIOUS
  <2> QED BY <2>1 DEF Upto
<1>7. ASSUME NEW n \in 0..N PROVE Upto(readings, n) \in Readings
  <2> HIDE DEF Parts
  <2>1. Reads(FlattenSeq(Parts(n))) \in Readings /\ Bad \in Readings
    BY <1>4 DEF Readings, Reads, Bad
  <2> QED BY <1>3, <2>1
<1>8. ASSUME NEW n \in 0..(N - 1), Upto(readings, n).ok, readings[n + 1].ok
      PROVE  Upto(readings, n + 1) = Reads(Upto(readings, n).entries \o readings[n + 1].entries)
  <2>1. n \in 0..N /\ n + 1 \in 0..N /\ n + 1 \in 1..N /\ n \in Nat
    OBVIOUS
  <2>2. \A i \in 1..n : readings[i].ok
    <3> HIDE DEF Parts
    <3>1. ~Bad.ok
      BY DEF Bad
    <3>2. Upto(readings, n) # Bad
      BY <1>8, <3>1
    <3> QED BY <1>3, <2>1, <3>2
  <2>3. \A i \in 1..(n + 1) : readings[i].ok
    BY <1>8, <2>1, <2>2
  <2>4. Parts(n + 1) = Append(Parts(n), readings[n + 1].entries)
    <3>1. readings[n + 1].entries \in Seq(Entries)
      BY <1>1, <2>1 DEF Readings
    <3> DEFINE a == Parts(n + 1)
               b == Append(Parts(n), readings[n + 1].entries)
    <3>2. a \in Seq(Seq(Entries)) /\ Len(a) = n + 1 /\ Parts(n) \in Seq(Seq(Entries))
          /\ Len(Parts(n)) = n
      BY <1>2, <2>1
    <3>3. /\ b \in Seq(Seq(Entries)) /\ Len(b) = n + 1
          /\ \A i \in 1..n : b[i] = Parts(n)[i]
          /\ b[n + 1] = readings[n + 1].entries
      <4> HIDE DEF Parts
      <4> QED BY <3>1, <3>2, AppendProperties
    <3>4. \A i \in 1..(n + 1) : a[i] = b[i]
      <4>1. \A i \in 1..n : a[i] = Parts(n)[i]
        BY <2>1
      <4>2. a[n + 1] = readings[n + 1].entries
        BY <2>1
      <4>3. \A i \in 1..(n + 1) : i \in 1..n \/ i = n + 1
        BY <2>1
      <4> HIDE DEF a, b
      <4> QED BY <3>3, <4>1, <4>2, <4>3
    <3> HIDE DEF a, b
    <3>5. a = b
      BY <3>2, <3>3, <3>4, SeqEqual
    <3> QED BY <3>5 DEF a, b
  <2>5. FlattenSeq(Parts(n + 1)) = FlattenSeq(Parts(n)) \o readings[n + 1].entries
    <3>1. readings[n + 1].entries \in Seq(Entries)
      BY <1>1, <2>1 DEF Readings
    <3> HIDE DEF Parts
    <3> QED BY <1>2, <2>1, <2>4, <3>1, FlattenAppend
  <2>6. Upto(readings, n + 1) = Reads(FlattenSeq(Parts(n + 1)))
    <3> HIDE DEF Parts
    <3> QED BY <1>3, <2>1, <2>3
  <2>7. Upto(readings, n) = Reads(FlattenSeq(Parts(n)))
    <3> HIDE DEF Parts
    <3> QED BY <1>3, <2>1, <2>2
  <2> HIDE DEF Parts
  <2>8. \A x : Reads(x).entries = x
    BY DEF Reads
  <2>9. Upto(readings, n).entries = FlattenSeq(Parts(n))
    BY <2>7, <2>8
  <2> QED BY <2>5, <2>6, <2>9
<1>9. ASSUME NEW i \in 1..N, ~readings[i].ok PROVE Together(readings) = Bad
  <2>1. N \in 0..N
    OBVIOUS
  <2> HIDE DEF Parts
  <2> QED BY <1>3, <1>6, <1>9, <2>1
<1> QED BY <1>5, <1>6, <1>7, <1>8, <1>9

\* A vendor block lasts to the next mark.
LEMMA VendorAtNext ==
    ASSUME NEW file \in Seq(Lines)
    PROVE  /\ VendorAt(file, 1) = NoVendor
           /\ \A i \in 1..Len(file) :
                 VendorAt(file, i + 1) =
                    IF file[i].is = "BEGIN-VENDOR" THEN file[i].vendor
                    ELSE IF file[i].is = "END-VENDOR" THEN NoVendor
                    ELSE VendorAt(file, i)
<1> DEFINE Marks(i) == {j \in 1..(i - 1) : file[j].is \in {"BEGIN-VENDOR", "END-VENDOR"}}
           Latest(i) == CHOOSE j \in Marks(i) : \A m \in Marks(i) : m <= j
<1>1. \A i \in Nat : VendorAt(file, i) =
         IF Marks(i) = {} \/ file[Latest(i)].is = "END-VENDOR"
         THEN NoVendor ELSE file[Latest(i)].vendor
  BY DEF VendorAt
<1>2. VendorAt(file, 1) = NoVendor
  <2>1. Marks(1) = {}
    OBVIOUS
  <2> HIDE DEF Marks
  <2> QED BY <1>1, <2>1
<1>3. ASSUME NEW i \in 1..Len(file), file[i].is \in {"BEGIN-VENDOR", "END-VENDOR"}
      PROVE  VendorAt(file, i + 1) = IF file[i].is = "END-VENDOR" THEN NoVendor ELSE file[i].vendor
  <2>1. i \in Nat /\ i + 1 \in Nat
    OBVIOUS
  <2>2. i \in Marks(i + 1) /\ \A m \in Marks(i + 1) : m <= i /\ m \in Nat
    BY <1>3
  <2>3. Latest(i + 1) = i
    <3> HIDE DEF Marks
    <3>1. \A j \in Marks(i + 1) : (\A m \in Marks(i + 1) : m <= j) => j = i
      BY <2>1, <2>2
    <3> QED BY <2>2, <3>1
  <2> HIDE DEF Marks, Latest
  <2> QED BY <1>1, <2>1, <2>2, <2>3
<1>4. ASSUME NEW i \in 1..Len(file), file[i].is \notin {"BEGIN-VENDOR", "END-VENDOR"}
      PROVE  VendorAt(file, i + 1) = VendorAt(file, i)
  <2>1. i \in Nat /\ i + 1 \in Nat
    OBVIOUS
  <2>2. Marks(i + 1) = Marks(i)
    BY <1>4
  <2> HIDE DEF Marks
  <2> QED BY <1>1, <2>1, <2>2
<1> QED BY <1>2, <1>3, <1>4

\* Vendors come from the files.
LEMMA VendorAtIsVendor ==
    ASSUME NEW file \in Seq(Lines)
    PROVE  \A i \in 1..(Len(file) + 1) : VendorAt(file, i) \in Vendors
<1> DEFINE N == Len(file)
           S == {i \in 0..N : VendorAt(file, i + 1) \in Vendors}
<1>1. N \in Nat /\ \A i \in 1..N : file[i] \in Lines
  OBVIOUS
<1>2. NoVendor \in Vendors /\ \A line \in Lines : line.vendor \in Vendors
  BY DEF Vendors
<1>3. 0 \in S
  <2>1. 0 \in 0..N /\ 0 + 1 = 1
    BY <1>1
  <2> QED BY <1>2, <2>1, VendorAtNext
<1>4. ASSUME NEW i \in 1..N, i - 1 \in S PROVE i \in S
  <2>1. i \in 0..N /\ (i - 1) + 1 = i
    BY <1>1
  <2>2. VendorAt(file, i) \in Vendors
    BY <1>4, <2>1
  <2>3. VendorAt(file, i + 1) \in Vendors
    BY <1>1, <1>2, <2>2, VendorAtNext
  <2> QED BY <2>1, <2>3
<1>5. 0..N \subseteq S
  <2> HIDE DEF S, N
  <2> QED BY <1>1, <1>3, <1>4, BoundedSetInduction
<1>6. ASSUME NEW i \in 1..(N + 1) PROVE VendorAt(file, i) \in Vendors
  <2>1. i - 1 \in 0..N /\ (i - 1) + 1 = i
    BY <1>1
  <2>2. i - 1 \in S
    <3> HIDE DEF S
    <3> QED BY <1>5, <2>1
  <2> QED BY <2>1, <2>2
<1> QED BY <1>6

\* What a line says is a reading.
LEMMA LineSaysReading ==
    ASSUME NEW file \in Seq(Lines), NEW i \in 1..Len(file), NEW says \in [Files -> Readings]
    PROVE  LineSays(file, i, says) \in Readings
<1> DEFINE line == file[i]
<1>1. /\ line \in Lines
      /\ line.is \in {"$INCLUDE", "ATTRIBUTE", "VALUE", "VENDOR", "BEGIN-VENDOR",
                      "END-VENDOR", "other", "malformed"}
      /\ line.is = "$INCLUDE" => line.path \in Files
  BY LinesAreDirectives
<1>2. VendorAt(file, i) \in Vendors
  <2>1. i \in 1..(Len(file) + 1)
    OBVIOUS
  <2> QED BY <2>1, VendorAtIsVendor
<1>3. \A e \in Entries : Reads(<<e>>) \in Readings
  BY DEF Reads, Readings
<1>4. Bad \in Readings /\ Reads(<<>>) \in Readings
  BY DEF Bad, Reads, Readings
<1>5. line.is = "ATTRIBUTE" => AttributeOf(line, VendorAt(file, i)) \in Entries
  BY <1>1, <1>2 DEF Entries
<1>6. line.is \in {"VALUE", "VENDOR"} => line \in Entries
  BY <1>1 DEF Entries
<1>7. line.is = "$INCLUDE" => says[line.path] \in Readings
  BY <1>1
<1> HIDE DEF line
<1>8. LineSays(file, i, says) =
         CASE line.is = "$INCLUDE" -> says[line.path]
           [] line.is = "ATTRIBUTE" -> Reads(<<AttributeOf(line, VendorAt(file, i))>>)
           [] line.is \in {"VALUE", "VENDOR"} -> Reads(<<line>>)
           [] line.is = "malformed" -> Bad
           [] OTHER -> Reads(<<>>)
  BY DEF LineSays, line
<1> QED BY <1>1, <1>3, <1>4, <1>5, <1>6, <1>7, <1>8

\* So is what a file says.
LEMMA FileSaysReading ==
    ASSUME NEW file \in {Missing} \cup Seq(Lines), NEW says \in [Files -> Readings]
    PROVE  /\ FileSays(file, says) \in Readings
           /\ file # Missing => /\ LinesSay(file, says) \in [1..Len(file) -> Readings]
                               /\ FileSays(file, says) = Together(LinesSay(file, says))
<1>1. Bad \in Readings
  BY DEF Bad, Readings
<1>2. CASE file = Missing
  BY <1>1, <1>2 DEF FileSays
<1>3. CASE file # Missing
  <2>1. file \in Seq(Lines) /\ Len(file) \in Nat
    BY <1>3
  <2>2. LinesSay(file, says) \in [1..Len(file) -> Readings]
    BY <2>1, LineSaysReading DEF LinesSay
  <2>3. FileSays(file, says) = Together(LinesSay(file, says))
    BY <1>3 DEF FileSays, LinesSay
  <2> DEFINE readings == LinesSay(file, says)
  <2>4. Together(readings) \in Readings
    <3> HIDE DEF readings
    <3>1. Len(file) \in 0..Len(file)
      BY <2>1
    <3> QED BY <2>1, <2>2, <3>1, UptoIs DEF readings
  <2> QED BY <2>2, <2>3, <2>4
<1> QED BY <1>2, <1>3

FilesOnDisk == [Files -> {Missing} \cup Seq(Lines)]

\* To depth 0 nothing is read; to the next depth, what the files say whose
\* includes are read to this one.  The recursive function exists.
LEMMA SaysIs ==
    ASSUME NEW files \in FilesOnDisk
    PROVE  /\ \A depth \in Nat : Says(files)[depth] \in [Files -> Readings]
           /\ \A f \in Files : Says(files)[0][f] = Bad
           /\ \A depth \in Nat, f \in Files :
                 Says(files)[depth + 1][f] = FileSays(files[f], Says(files)[depth])
<1> DEFINE T == [Files -> Readings]
           base == [f \in Files |-> Bad]
           step == [n \in Nat |-> [x \in T |-> [f \in Files |-> FileSays(files[f], x)]]]
           Body(k) == [n \in Nat |->
                          [f \in Files |-> IF n = 0 THEN Bad ELSE FileSays(files[f], k[n - 1])]]
           says == CHOOSE k : k = Body(k)
<1>1. \A f \in Files : files[f] \in {Missing} \cup Seq(Lines)
  BY DEF FilesOnDisk
<1>2. \A x \in T, f \in Files : FileSays(files[f], x) \in Readings
  BY <1>1, FileSaysReading
<1>3. base \in T
  BY DEF Bad, Readings
<1>4. step \in Steps(T)
  BY <1>2 DEF Steps
<1>5. PICK g \in Recursive(T, base, step) : TRUE
  <2> HIDE DEF T, base, step
  <2> QED BY <1>3, <1>4, RecursiveExists
<1>6. /\ g \in [Nat -> T] /\ g[0] = base
      /\ \A n \in Nat : n > 0 => g[n] = step[n][g[n - 1]]
  <2> HIDE DEF T, base, step
  <2> QED BY <1>5 DEF Recursive
<1>7. \A n \in Nat : n > 0 => g[n] = [f \in Files |-> FileSays(files[f], g[n - 1])]
  <2> HIDE DEF T
  <2> SUFFICES ASSUME NEW n \in Nat, n > 0
               PROVE  g[n] = [f \in Files |-> FileSays(files[f], g[n - 1])]
    OBVIOUS
  <2>1. n - 1 \in Nat /\ g[n] = step[n][g[n - 1]]
    BY <1>6
  <2>2. g[n - 1] \in T
    BY <1>6, <2>1
  <2> QED BY <2>1, <2>2
<1>8. g = Body(g)
  <2> HIDE DEF T, step
  <2> DEFINE b == Body(g)
  <2>1. ASSUME NEW n \in Nat PROVE g[n] = b[n]
    <3>1. CASE n = 0
      BY <1>6, <3>1
    <3>2. CASE n # 0
      BY <1>7, <3>2
    <3> QED BY <3>1, <3>2
  <2>2. g = [n \in Nat |-> g[n]] /\ b = [n \in Nat |-> b[n]]
    BY <1>6
  <2> HIDE DEF b
  <2>3. g = b
    BY <2>1, <2>2
  <2> QED BY <2>3 DEF b
<1>9. says = Body(says)
  BY <1>8
<1>10. Says(files) = says
  BY DEF Says
<1> HIDE DEF says
<1>11. \A n \in Nat : says[n] =
          [f \in Files |-> IF n = 0 THEN Bad ELSE FileSays(files[f], says[n - 1])]
  BY <1>9
<1>12. \A f \in Files : says[0][f] = Bad
  BY <1>11
<1>13. \A n \in Nat, f \in Files : says[n + 1][f] = FileSays(files[f], says[n])
  <2> SUFFICES ASSUME NEW n \in Nat PROVE says[n + 1] = [f \in Files |-> FileSays(files[f], says[n])]
    OBVIOUS
  <2>1. n + 1 \in Nat /\ n + 1 # 0 /\ (n + 1) - 1 = n
    OBVIOUS
  <2> QED BY <1>11, <2>1
<1>14. \A n \in Nat : says[n] \in T
  <2> DEFINE S == {n \in Nat : says[n] \in T}
  <2>1. 0 \in S
    BY <1>3, <1>11
  <2>2. ASSUME NEW n \in Nat, n \in S PROVE n + 1 \in S
    <3>1. says[n] \in T /\ n + 1 \in Nat
      BY <2>2
    <3>2. says[n + 1] = [f \in Files |-> says[n + 1][f]]
      BY <1>11, <3>1
    <3>3. \A f \in Files : says[n + 1][f] \in Readings
      BY <1>2, <1>13, <3>1
    <3> QED BY <3>1, <3>2, <3>3
  <2>3. Nat \subseteq S
    <3> HIDE DEF S
    <3> QED BY <2>1, <2>2, SetInduction
  <2> QED BY <2>3
<1> QED BY <1>10, <1>12, <1>13, <1>14

-----------------------------------------------------------------------------
(* The invariant of the parser: an activation of parse has collected what  *)
(* the lines that it is done with say, read to the depth that is left.     *)

Frames == [file : Files, lines : Seq(Lines), vendor : Vendors, entries : Seq(Entries)]

ParserTypeOK ==
    /\ disk \in FilesOnDisk
    /\ paths \in Seq(Files)
    /\ reader \in BOOLEAN
    /\ read \in 0..Len(paths)
    /\ stack \in Seq(Frames)
    /\ visited \subseteq Files
    /\ dict \in Seq(Entries)
    /\ outcome \in {"parsing", "parsed", "failed"}

\* Parse has one activation and one argument, open already.  Of ParseFiles,
\* visited holds the files of the stack, all different.  The outermost is
\* the argument.
VisitedOK ==
    /\ reader => Len(stack) <= 1 /\ Len(paths) = 1 /\ disk[paths[1]] # Missing
    /\ ~reader => /\ visited = {stack[k].file : k \in 1..Len(stack)}
                  /\ Cardinality(visited) = Len(stack)
                  /\ \A j, k \in 1..Len(stack) : stack[j].file = stack[k].file => j = k
    /\ stack # <<>> => read < Len(paths) /\ stack[1].file = paths[read + 1]

\* How many lines an activation has taken.
Taken(files, frame) == Len(files[frame.file]) - Len(frame.lines)

\* The rest of the file is left, and the vendor block is that of the next
\* line.
FrameAt(files, frame, n) ==
    LET file == files[frame.file]
    IN  /\ file # Missing
        /\ n \in 0..Len(file)
        /\ Len(frame.lines) = Len(file) - n
        /\ \A j \in 1..Len(frame.lines) : frame.lines[j] = file[n + j]
        /\ frame.vendor = VendorAt(file, n + 1)

\* The entries of the first n lines are collected.
HasRead(files, frame, n, depth) ==
    Upto(LinesSay(files[frame.file], Says(files)[depth]), n) = Reads(frame.entries)

\* Line n includes a file.
Includes(files, frame, n, f) ==
    /\ n > 0
    /\ files[frame.file][n].is = "$INCLUDE"
    /\ files[frame.file][n].path = f

\* The innermost activation is done with every line it has taken; another
\* is still at the directive that includes the next one's file.
ActivationOK(files, frames, k, depth) ==
    LET frame == frames[k]
        n == Taken(files, frame)
    IN  /\ FrameAt(files, frame, n)
        /\ IF k = Len(frames) THEN HasRead(files, frame, n, depth - k)
           ELSE /\ Includes(files, frame, n, frames[k + 1].file)
                /\ HasRead(files, frame, n - 1, depth - k)

OutcomeOK ==
    /\ outcome \in {"parsing", "parsed"} => Upto(PathsSay, read) = Reads(dict)
    /\ outcome = "parsed" => read = Len(paths)
    /\ outcome = "failed" => FilesSay = Bad

ParserInv ==
    /\ ParserTypeOK
    /\ VisitedOK
    /\ Len(stack) <= Depth
    /\ \A k \in 1..Len(stack) : ActivationOK(disk, stack, k, Depth)
    /\ OutcomeOK

\* The bound on the recursion is a number.
LEMMA DepthIsNat == Depth \in Nat
BY FilesAreFinite, FS_CardinalityType DEF Depth

\* What the arguments say are readings; together they are the answer.
LEMMA PathsSayReadings ==
    ASSUME disk \in FilesOnDisk, paths \in Seq(Files)
    PROVE  /\ PathsSay \in [1..Len(paths) -> Readings]
           /\ FilesSay = Together(PathsSay)
           /\ Len(paths) \in Nat
<1>1. Says(disk)[Depth] \in [Files -> Readings]
  BY DepthIsNat, SaysIs
<1>2. \A i \in 1..Len(paths) : paths[i] \in Files
  OBVIOUS
<1>3. PathsSay \in [1..Len(paths) -> Readings]
  BY <1>1, <1>2 DEF PathsSay
<1>4. FilesSay = Together(PathsSay)
  BY DEF FilesSay
<1>5. Len(paths) \in Nat
  OBVIOUS
<1> QED BY <1>3, <1>4, <1>5

\* The invariant says what the property does.
LEMMA InvAnswers == ParserInv => ParsesWhatFilesSay
<1> SUFFICES ASSUME ParserInv PROVE ParsesWhatFilesSay
  OBVIOUS
<1>0. OutcomeOK
  BY DEF ParserInv
<1> SUFFICES ASSUME outcome = "parsed" PROVE FilesSay = Reads(dict)
  BY <1>0 DEF OutcomeOK, ParsesWhatFilesSay
<1>1. Upto(PathsSay, Len(paths)) = Reads(dict) /\ disk \in FilesOnDisk /\ paths \in Seq(Files)
  BY DEF ParserInv, OutcomeOK, ParserTypeOK
<1>2. Upto(PathsSay, Len(paths)) = Together(PathsSay)
  BY <1>1, PathsSayReadings, UptoIs
<1> QED BY <1>1, <1>2, PathsSayReadings

\* Nothing is read yet.
LEMMA ParserInitInv == ParserInit => ParserInv
<1> SUFFICES ASSUME ParserInit PROVE ParserInv
  OBVIOUS
<1>1. disk \in FilesOnDisk /\ paths \in Seq(Files)
  BY DisksHoldLines, CallsAreFiles DEF ParserInit, FilesOnDisk
<1>2. stack = <<>> /\ Len(stack) = 0 /\ stack \in Seq(Frames) /\ 1..Len(stack) = {}
      /\ dict = <<>> /\ dict \in Seq(Entries) /\ read = 0 /\ Len(paths) \in Nat
      /\ visited = {} /\ outcome = "parsing" /\ reader \in BOOLEAN
      /\ (reader => Len(paths) = 1 /\ disk[paths[1]] # Missing)
  BY <1>1 DEF ParserInit
<1>3. ParserTypeOK
  BY <1>1, <1>2 DEF ParserTypeOK
<1>4. VisitedOK
  <2>1. {stack[k].file : k \in 1..Len(stack)} = {}
    BY <1>2
  <2> QED BY <1>2, <2>1, FS_EmptySet DEF VisitedOK
<1>5. Len(stack) <= Depth
  BY <1>2, DepthIsNat
<1>6. OutcomeOK
  BY <1>1, <1>2, PathsSayReadings, UptoIs DEF OutcomeOK
<1> QED BY <1>2, <1>3, <1>4, <1>5, <1>6 DEF ParserInv

\* The last frame of a stack is replaced.
LEMMA ReplaceTop ==
    ASSUME NEW S, NEW s \in Seq(S), s # <<>>, NEW x \in S
    PROVE  /\ Append(Front(s), x) \in Seq(S)
           /\ Len(Append(Front(s), x)) = Len(s)
           /\ Append(Front(s), x)[Len(s)] = x
           /\ \A i \in 1..(Len(s) - 1) : Append(Front(s), x)[i] = s[i]
<1> DEFINE front == SubSeq(s, 1, Len(s) - 1)
<1>1. Len(s) \in Nat /\ Len(s) > 0
  OBVIOUS
<1>2. /\ front \in Seq(S) /\ Len(front) = Len(s) - 1
      /\ \A i \in 1..(Len(s) - 1) : front[i] = s[i]
  <2>1. \A i \in 1..(Len(s) - 1) : s[i] \in S
    BY <1>1
  <2>2. 1 \in Int /\ Len(s) - 1 \in Int /\ (Len(s) - 1) - 1 + 1 = Len(s) - 1
        /\ \A i \in 1..(Len(s) - 1) : 1 + i - 1 = i
    BY <1>1
  <2>3. Len(front) = IF 1 <= Len(s) - 1 THEN (Len(s) - 1) - 1 + 1 ELSE 0
    BY <2>1, <2>2, SubSeqProperties
  <2> QED BY <1>1, <2>1, <2>2, <2>3, SubSeqProperties
<1>3. Front(s) = front
  BY DEF Front
<1> HIDE DEF front
<1> QED BY <1>1, <1>2, <1>3, AppendProperties

\* The innermost activation, its file and the line it is at.
LEMMA TopIs ==
    ASSUME ParserInv, stack # <<>>
    PROVE  LET K == Len(stack)
               file == disk[Top.file]
               n == Taken(disk, Top)
           IN  /\ K \in Nat /\ K > 0 /\ Depth - K \in Nat
               /\ Top = stack[K] /\ Top \in Frames /\ Top.file \in Files
               /\ file \in Seq(Lines) /\ Len(file) \in Nat /\ n \in 0..Len(file)
               /\ FrameAt(disk, Top, n) /\ HasRead(disk, Top, n, Depth - K)
               /\ Top.lines # <<>> =>
                     n < Len(file) /\ Head(Top.lines) = file[n + 1] /\ file[n + 1] \in Lines
               /\ Top.lines = <<>> => n = Len(file)
<1> DEFINE K == Len(stack)
           file == disk[Top.file]
           n == Taken(disk, Top)
<1>1. K \in Nat /\ K > 0 /\ K <= Depth /\ stack[K] \in Frames /\ disk \in FilesOnDisk
  BY DEF ParserInv, ParserTypeOK
<1>2. Depth - K \in Nat
  BY <1>1, DepthIsNat
<1>3. Top = stack[K] /\ Top \in Frames /\ Top.file \in Files /\ Top.lines \in Seq(Lines)
  BY <1>1 DEF Top, Last, Frames
<1>4. FrameAt(disk, Top, n) /\ HasRead(disk, Top, n, Depth - K)
  <2>1. ActivationOK(disk, stack, K, Depth)
    BY <1>1 DEF ParserInv
  <2> QED BY <1>3, <2>1 DEF ActivationOK
<1>5. /\ file # Missing /\ n \in 0..Len(file) /\ Len(Top.lines) = Len(file) - n
      /\ \A j \in 1..Len(Top.lines) : Top.lines[j] = file[n + j]
  <2> HIDE DEF n
  <2> QED BY <1>4 DEF FrameAt
<1>6. file \in Seq(Lines) /\ Len(file) \in Nat
  BY <1>1, <1>3, <1>5 DEF FilesOnDisk
<1> HIDE DEF n, file
<1>7. Top.lines # <<>> => n < Len(file) /\ Head(Top.lines) = file[n + 1] /\ file[n + 1] \in Lines
  <2> SUFFICES ASSUME Top.lines # <<>>
               PROVE  n < Len(file) /\ Head(Top.lines) = file[n + 1] /\ file[n + 1] \in Lines
    OBVIOUS
  <2>1. Len(Top.lines) \in Nat /\ Len(Top.lines) > 0 /\ Head(Top.lines) = Top.lines[1]
        /\ Head(Top.lines) \in Lines
    BY <1>3
  <2> QED BY <1>5, <1>6, <2>1
<1>8. Top.lines = <<>> => n = Len(file)
  BY <1>5, <1>6
<1> QED BY <1>1, <1>2, <1>3, <1>4, <1>5, <1>6, <1>7, <1>8 DEF n, file

\* What the line about to be interpreted is.
LEMMA LineIs ==
    ASSUME ParserInv, stack # <<>>, Top.lines # <<>>
    PROVE  LET file == disk[Top.file]
               n == Taken(disk, Top)
           IN  /\ disk \in FilesOnDisk /\ Top.file \in Files /\ Top \in Frames
               /\ file # Missing /\ file \in Seq(Lines)
               /\ n \in Nat /\ n + 1 \in 1..Len(file) /\ (n + 1) + 1 = n + 2
               /\ Head(Top.lines) = file[n + 1] /\ file[n + 1] \in Lines
               /\ Top.vendor = VendorAt(file, n + 1)
<1> DEFINE file == disk[Top.file]
           n == Taken(disk, Top)
           L == Len(file)
<1>1. disk \in FilesOnDisk
  BY Zenon DEF ParserInv, ParserTypeOK
<1>2. /\ Top.file \in Files /\ Top \in Frames /\ file \in Seq(Lines) /\ L \in Nat
      /\ n \in 0..L /\ n < L /\ Head(Top.lines) = file[n + 1] /\ file[n + 1] \in Lines
      /\ FrameAt(disk, Top, n)
  BY Zenon, TopIs
<1>3. file # Missing /\ Top.vendor = VendorAt(file, n + 1)
  BY Zenon, <1>2 DEF FrameAt
<1>4. n \in Nat /\ n + 1 \in 1..L /\ (n + 1) + 1 = n + 2
  <2> HIDE DEF n, L
  <2> QED BY <1>2
<1> QED BY Zenon, <1>1, <1>2, <1>3, <1>4

\* A frame keeps its file when a line is done.
LEMMA NextLineIs ==
    ASSUME ParserInv, stack # <<>>, Top.lines # <<>>,
           NEW vendor \in Vendors, NEW entries \in Seq(Entries)
    PROVE  LET frame == NextLine(vendor, entries)
           IN  /\ frame \in Frames
               /\ frame.file = Top.file
               /\ frame.lines = Tail(Top.lines)
               /\ frame.vendor = vendor
               /\ frame.entries = Top.entries \o entries
               /\ Taken(disk, frame) = Taken(disk, Top) + 1
<1> DEFINE frame == NextLine(vendor, entries)
<1>1. Top \in Frames /\ Top.lines \in Seq(Lines) /\ Top.entries \in Seq(Entries)
  BY TopIs DEF Frames
<1>2. /\ Tail(Top.lines) \in Seq(Lines) /\ Len(Tail(Top.lines)) = Len(Top.lines) - 1
      /\ Len(Top.lines) \in Nat /\ Top.entries \o entries \in Seq(Entries)
  BY <1>1
<1>3. /\ frame \in Frames
      /\ frame.file = Top.file
      /\ frame.lines = Tail(Top.lines)
      /\ frame.vendor = vendor
      /\ frame.entries = Top.entries \o entries
  BY <1>1, <1>2 DEF NextLine, Frames
<1>4. Len(disk[Top.file]) \in Nat
  BY TopIs
<1> HIDE DEF frame
<1>5. Taken(disk, frame) = Taken(disk, Top) + 1
  <2>0. Len(frame.lines) = Len(Top.lines) - 1
    BY <1>2, <1>3
  <2>1. Taken(disk, frame) = Len(disk[Top.file]) - Len(frame.lines)
    BY <1>3 DEF Taken
  <2>2. Taken(disk, Top) = Len(disk[Top.file]) - Len(Top.lines)
    BY DEF Taken
  <2> QED BY <1>2, <1>4, <2>0, <2>1, <2>2
<1> QED BY <1>3, <1>5 DEF frame

\* The frame is at the next line, if it has that line's vendor block.
LEMMA NextLineAt ==
    ASSUME ParserInv, stack # <<>>, Top.lines # <<>>,
           NEW vendor \in Vendors, NEW entries \in Seq(Entries),
           vendor = VendorAt(disk[Top.file], Taken(disk, Top) + 2)
    PROVE  FrameAt(disk, NextLine(vendor, entries), Taken(disk, Top) + 1)
<1> DEFINE frame == NextLine(vendor, entries)
           file == disk[Top.file]
           n == Taken(disk, Top)
<1>1. /\ FrameAt(disk, Top, n) /\ n < Len(file) /\ Len(file) \in Nat /\ n \in 0..Len(file)
      /\ Top.lines \in Seq(Lines)
  BY TopIs DEF Frames
<1>2. frame.file = Top.file /\ frame.lines = Tail(Top.lines) /\ frame.vendor = vendor
  BY NextLineIs
<1>3. /\ Len(Tail(Top.lines)) = Len(Top.lines) - 1 /\ Len(Top.lines) \in Nat
      /\ \A j \in 1..(Len(Top.lines) - 1) : Tail(Top.lines)[j] = Top.lines[j + 1]
  BY <1>1
<1>4. file # Missing /\ Len(Top.lines) = Len(file) - n
      /\ \A j \in 1..Len(Top.lines) : Top.lines[j] = file[n + j]
  <2> HIDE DEF n
  <2> QED BY <1>1 DEF FrameAt
<1> HIDE DEF frame, file, n
<1>5. n + 1 \in 0..Len(file) /\ Len(frame.lines) = Len(file) - (n + 1)
  BY <1>1, <1>2, <1>3, <1>4
<1>6. ASSUME NEW j \in 1..Len(frame.lines) PROVE frame.lines[j] = file[(n + 1) + j]
  <2>1. j \in 1..(Len(Top.lines) - 1) /\ j + 1 \in 1..Len(Top.lines) /\ n + (j + 1) = (n + 1) + j
    BY <1>1, <1>2, <1>3
  <2>2. frame.lines[j] = Top.lines[j + 1]
    BY <1>2, <1>3, <2>1
  <2>3. Top.lines[j + 1] = file[n + (j + 1)]
    BY <1>4, <2>1
  <2> QED BY <2>1, <2>2, <2>3
<1>7. frame.vendor = VendorAt(file, (n + 1) + 1)
  <2>1. (n + 1) + 1 = n + 2
    BY <1>1
  <2> QED BY <1>2, <2>1 DEF file, n
<1>8. disk[frame.file] = file
  BY <1>2 DEF file
<1> QED BY <1>4, <1>5, <1>6, <1>7, <1>8 DEF FrameAt, frame, n

\* What a file's first lines say is a reading, to any depth.
LEMMA LinesSayReadings ==
    ASSUME NEW files \in FilesOnDisk, NEW f \in Files, files[f] # Missing, NEW depth \in Nat
    PROVE  LET file == files[f]
               says == Says(files)[depth]
               lines == LinesSay(file, says)
           IN  /\ says \in [Files -> Readings]
               /\ Len(file) \in Nat
               /\ lines \in [1..Len(file) -> Readings]
               /\ \A i \in 1..Len(file) : lines[i] = LineSays(file, i, says)
               /\ Upto(lines, 0) = Reads(<<>>)
               /\ Upto(lines, Len(file)) = FileSays(file, says)
<1>1. files[f] \in Seq(Lines) /\ Len(files[f]) \in Nat
  BY DEF FilesOnDisk
<1>2. Says(files)[depth] \in [Files -> Readings]
  BY SaysIs
<1>3. /\ LinesSay(files[f], Says(files)[depth]) \in [1..Len(files[f]) -> Readings]
      /\ FileSays(files[f], Says(files)[depth]) = Together(LinesSay(files[f], Says(files)[depth]))
  BY <1>1, <1>2, FileSaysReading
<1>4. \A i \in 1..Len(files[f]) :
         LinesSay(files[f], Says(files)[depth])[i] = LineSays(files[f], i, Says(files)[depth])
  BY DEF LinesSay
<1> QED BY <1>1, <1>2, <1>3, <1>4, UptoIs

\* The entries of one more line are collected.
LEMMA HasReadNext ==
    ASSUME NEW files \in FilesOnDisk, NEW frame \in Frames, NEW next2 \in Frames,
           files[frame.file] # Missing, NEW depth \in Nat,
           NEW n \in 0..(Len(files[frame.file]) - 1), NEW entries \in Seq(Entries),
           HasRead(files, frame, n, depth),
           LineSays(files[frame.file], n + 1, Says(files)[depth]) = Reads(entries),
           next2.file = frame.file, next2.entries = frame.entries \o entries
    PROVE  HasRead(files, next2, n + 1, depth)
<1> DEFINE file == files[frame.file]
           lines == LinesSay(file, Says(files)[depth])
<1>1. frame.file \in Files
  BY DEF Frames
<1>2. Len(file) \in Nat /\ lines \in [1..Len(file) -> Readings]
      /\ \A i \in 1..Len(file) : lines[i] = LineSays(file, i, Says(files)[depth])
  BY <1>1, LinesSayReadings
<1>3. n + 1 \in 1..Len(file) /\ n \in 0..(Len(file) - 1)
  BY <1>2
<1>4. Upto(lines, n) = Reads(frame.entries)
  BY DEF HasRead
<1>5. lines[n + 1] = Reads(entries)
  BY <1>2, <1>3
<1>6. \A x : Reads(x).ok /\ Reads(x).entries = x
  BY DEF Reads
<1> HIDE DEF lines, file
<1>7. Upto(lines, n + 1) = Reads(Upto(lines, n).entries \o lines[n + 1].entries)
  <2>1. Upto(lines, n).ok /\ lines[n + 1].ok
    BY <1>4, <1>5, <1>6
  <2> QED BY <1>2, <1>3, <2>1, UptoIs
<1>8. Upto(lines, n + 1) = Reads(next2.entries)
  BY <1>4, <1>5, <1>6, <1>7
<1> QED BY <1>8 DEF HasRead, lines, file

\* An activation below the innermost is as it was, when its frame is and
\* the next one has the same file.
LEMMA BelowIsSame ==
    ASSUME NEW files, NEW frames, NEW frames2, NEW k, NEW depth,
           k # Len(frames), k # Len(frames2), frames2[k] = frames[k],
           frames2[k + 1].file = frames[k + 1].file,
           ActivationOK(files, frames, k, depth)
    PROVE  ActivationOK(files, frames2, k, depth)
BY DEF ActivationOK

\* What the files say does not change while they are read.
LEMMA SameSays ==
    ASSUME UNCHANGED <<disk, paths, reader>>
    PROVE  Depth' = Depth /\ PathsSay' = PathsSay /\ FilesSay' = FilesSay
<1>1. Depth' = Depth
  BY DEF Depth
<1>2. PathsSay' = PathsSay
  BY <1>1 DEF PathsSay
<1> QED BY <1>1, <1>2 DEF FilesSay

\* A line is done that is not an include.
LEMMA ReadLineKeepsInv ==
    ASSUME ParserInv, outcome = "parsing", stack # <<>>, Top.lines # <<>>,
           NEW vendor \in Vendors, NEW entries \in Seq(Entries),
           vendor = VendorAt(disk[Top.file], Taken(disk, Top) + 2),
           \A says : LineSays(disk[Top.file], Taken(disk, Top) + 1, says) = Reads(entries),
           Goes(Append(Front(stack), NextLine(vendor, entries)))
    PROVE  ParserInv'
<1> DEFINE K == Len(stack)
           n == Taken(disk, Top)
           frame == NextLine(vendor, entries)
<1>1. /\ K \in Nat /\ K > 0 /\ Depth - K \in Nat
      /\ Top = stack[K] /\ Top \in Frames /\ Top.file \in Files /\ disk \in FilesOnDisk
      /\ disk[Top.file] \in Seq(Lines) /\ Len(disk[Top.file]) \in Nat
      /\ n \in 0..(Len(disk[Top.file]) - 1)
      /\ FrameAt(disk, Top, n) /\ HasRead(disk, Top, n, Depth - K)
  BY TopIs DEF ParserInv, ParserTypeOK
<1>2. /\ frame \in Frames /\ frame.file = Top.file
      /\ frame.entries = Top.entries \o entries /\ Taken(disk, frame) = n + 1
  BY NextLineIs
<1>3. /\ stack' \in Seq(Frames) /\ Len(stack') = K /\ stack'[K] = frame
      /\ \A k \in 1..(K - 1) : stack'[k] = stack[k]
  BY <1>2, ReplaceTop DEF Goes, ParserInv, ParserTypeOK
<1>4. UNCHANGED <<disk, paths, reader, read, visited, dict, outcome>>
  BY DEF Goes
<1>5. \A k \in 1..K : stack'[k].file = stack[k].file
  <2>1. \A k \in 1..K : k = K \/ k \in 1..(K - 1)
    BY <1>1
  <2> HIDE DEF frame, K
  <2> QED BY <1>1, <1>2, <1>3, <2>1
<1>6. FrameAt(disk, frame, n + 1)
  BY NextLineAt
<1>7. HasRead(disk, frame, n + 1, Depth - K)
  <2>1. disk[Top.file] # Missing
    BY <1>1 DEF FrameAt
  <2>2. LineSays(disk[Top.file], n + 1, Says(disk)[Depth - K]) = Reads(entries)
    OBVIOUS
  <2> HIDE DEF frame, K, n
  <2> QED BY <1>1, <1>2, <2>1, <2>2, HasReadNext
<1> HIDE DEF frame, K, n
<1>8. ASSUME NEW k \in 1..K PROVE ActivationOK(disk, stack', k, Depth)
  <2>1. CASE k = K
    BY <1>2, <1>3, <1>6, <1>7, <2>1 DEF ActivationOK
  <2>2. CASE k # K
    <3>1. k \in 1..(K - 1) /\ k + 1 \in 1..K
      BY <1>1, <2>2
    <3>2. ActivationOK(disk, stack, k, Depth)
      BY DEF ParserInv, K
    <3> QED BY <1>3, <1>5, <2>2, <3>1, <3>2, BelowIsSame DEF K
  <2> QED BY <2>1, <2>2
<1>9. ParserTypeOK'
  BY <1>3, <1>4 DEF ParserInv, ParserTypeOK
<1>10. VisitedOK'
  <2>1. {stack'[k].file : k \in 1..K} = {stack[k].file : k \in 1..K}
    BY <1>5
  <2>2. stack'[1].file = stack[1].file /\ Len(stack') = Len(stack)
    BY <1>1, <1>3, <1>5 DEF K
  <2>3. VisitedOK
    BY DEF ParserInv
  <2>4. \A j, k \in 1..K : stack'[j].file = stack'[k].file <=> stack[j].file = stack[k].file
    BY <1>5
  <2>5. stack # <<>> /\ stack' # <<>>
    BY <1>1, <1>3 DEF K
  <2>6. reader' => Len(stack') <= 1 /\ Len(paths') = 1 /\ disk'[paths'[1]] # Missing
    BY Zenon, <1>4, <2>2, <2>3 DEF VisitedOK
  <2>7. ~reader' => /\ visited' = {stack'[k].file : k \in 1..K}
                    /\ Cardinality(visited') = K
                    /\ \A j, k \in 1..K : stack'[j].file = stack'[k].file => j = k
    BY Zenon, <1>4, <2>1, <2>3, <2>4 DEF VisitedOK, K
  <2>8. read' < Len(paths') /\ stack'[1].file = paths'[read' + 1]
    BY Zenon, <1>4, <2>2, <2>3, <2>5 DEF VisitedOK
  <2>9. K = Len(stack')
    BY Zenon, <2>2 DEF K
  <2> QED BY Zenon, <2>6, <2>7, <2>8, <2>9 DEF VisitedOK
<1>11. OutcomeOK'
  BY <1>4, SameSays DEF ParserInv, OutcomeOK
<1>12. Len(stack') <= Depth' /\ \A k \in 1..Len(stack') : ActivationOK(disk, stack, k, Depth)'
  BY <1>1, <1>3, <1>4, <1>8, DepthIsNat, SameSays
<1> QED BY Zenon, <1>9, <1>10, <1>11, <1>12 DEF ParserInv

\* The directives that add entries or change the vendor block.
LEMMA DirectiveKeepsInv ==
    ASSUME ParserInv,
           Attribute \/ ValueOrVendor \/ BeginVendor \/ EndVendor \/ Ignored
    PROVE  ParserInv'
<1> DEFINE file == disk[Top.file]
           n == Taken(disk, Top)
           line == file[n + 1]
<1>1. outcome = "parsing" /\ stack # <<>> /\ Top.lines # <<>>
  BY DEF Attribute, ValueOrVendor, BeginVendor, EndVendor, Ignored, AtLine
<1>2. /\ Head(Top.lines) = line /\ line \in Lines /\ file \in Seq(Lines) /\ n \in Nat
      /\ n + 1 \in 1..Len(file) /\ Top.vendor = VendorAt(file, n + 1)
      /\ (n + 1) + 1 = n + 2
  BY Zenon, <1>1, LineIs
<1>3. Top.vendor \in Vendors /\ line.vendor \in Vendors /\ NoVendor \in Vendors
  BY <1>1, <1>2, TopIs DEF Frames, Vendors
<1>4. VendorAt(file, n + 2) = IF line.is = "BEGIN-VENDOR" THEN line.vendor
                              ELSE IF line.is = "END-VENDOR" THEN NoVendor
                              ELSE Top.vendor
  <2> HIDE DEF file, n
  <2> QED BY <1>2, VendorAtNext
<1>10. ASSUME NEW vendor \in Vendors, NEW entries \in Seq(Entries), vendor = VendorAt(file, n + 2),
              \A says : LineSays(file, n + 1, says) = Reads(entries),
              Goes(Append(Front(stack), NextLine(vendor, entries)))
       PROVE  ParserInv'
  BY <1>1, <1>10, ReadLineKeepsInv
<1>11. <<>> \in Seq(Entries) /\ \A e \in Entries : <<e>> \in Seq(Entries)
  OBVIOUS
<1> HIDE DEF file, n, line
<1>5. CASE Attribute
  <2> DEFINE attr == AttributeOf(line, Top.vendor)
  <2>1. line.is = "ATTRIBUTE" /\ Goes(Append(Front(stack), NextLine(Top.vendor, <<attr>>)))
    BY <1>2, <1>5 DEF Attribute, AtLine
  <2>2. attr \in Entries
    BY <1>2, <1>3, <2>1 DEF Entries
  <2>3. \A says : LineSays(file, n + 1, says) = Reads(<<attr>>)
    BY <1>2, <2>1 DEF LineSays, line
  <2> HIDE DEF attr
  <2> QED BY <1>3, <1>4, <1>10, <1>11, <2>1, <2>2, <2>3
<1>6. CASE ValueOrVendor
  <2>1. line.is \in {"VALUE", "VENDOR"}
        /\ Goes(Append(Front(stack), NextLine(Top.vendor, <<line>>)))
    BY <1>2, <1>6 DEF ValueOrVendor, AtLine
  <2>2. line \in Entries
    BY <1>2, <2>1 DEF Entries
  <2>3. \A says : LineSays(file, n + 1, says) = Reads(<<line>>)
    BY <2>1 DEF LineSays, line
  <2> QED BY <1>3, <1>4, <1>10, <1>11, <2>1, <2>2, <2>3
<1>7. CASE BeginVendor
  <2>1. line.is = "BEGIN-VENDOR" /\ Goes(Append(Front(stack), NextLine(line.vendor, <<>>)))
    BY <1>2, <1>7 DEF BeginVendor, AtLine
  <2>2. \A says : LineSays(file, n + 1, says) = Reads(<<>>)
    BY <2>1 DEF LineSays, line
  <2> QED BY <1>3, <1>4, <1>10, <1>11, <2>1, <2>2
<1>8. CASE EndVendor
  <2>1. line.is = "END-VENDOR" /\ Goes(Append(Front(stack), NextLine(NoVendor, <<>>)))
    BY <1>2, <1>8 DEF EndVendor, AtLine
  <2>2. \A says : LineSays(file, n + 1, says) = Reads(<<>>)
    BY <2>1 DEF LineSays, line
  <2> QED BY <1>3, <1>4, <1>10, <1>11, <2>1, <2>2
<1>9. CASE Ignored
  <2>1. line.is = "other" /\ Goes(Append(Front(stack), NextLine(Top.vendor, <<>>)))
    BY <1>2, <1>9 DEF Ignored, AtLine
  <2>2. \A says : LineSays(file, n + 1, says) = Reads(<<>>)
    BY <2>1 DEF LineSays, line
  <2> QED BY <1>3, <1>4, <1>10, <1>11, <2>1, <2>2
<1> QED BY <1>5, <1>6, <1>7, <1>8, <1>9

\* A file that is opened has all its lines left and nothing collected.
LEMMA NewFrameIs ==
    ASSUME disk \in FilesOnDisk, NEW f \in Files, disk[f] # Missing
    PROVE  /\ Frame(f) \in Frames /\ Frame(f).file = f /\ Taken(disk, Frame(f)) = 0
           /\ FrameAt(disk, Frame(f), 0)
           /\ \A depth \in Nat : HasRead(disk, Frame(f), 0, depth)
<1>1. disk[f] \in Seq(Lines) /\ Len(disk[f]) \in Nat
  BY DEF FilesOnDisk
<1>2. /\ Frame(f).file = f /\ Frame(f).lines = disk[f] /\ Frame(f).vendor = NoVendor
      /\ Frame(f).entries = <<>>
  BY DEF Frame
<1>3. Frame(f) \in Frames
  BY <1>1 DEF Frame, Frames, Vendors
<1>4. Taken(disk, Frame(f)) = 0
  BY <1>1, <1>2 DEF Taken
<1>5. FrameAt(disk, Frame(f), 0)
  <2>1. VendorAt(disk[f], 0 + 1) = NoVendor
    BY <1>1, VendorAtNext
  <2>2. 0 \in 0..Len(disk[f]) /\ Len(disk[f]) = Len(disk[f]) - 0
        /\ \A j \in 1..Len(disk[f]) : 0 + j = j
    BY <1>1
  <2> QED BY <1>2, <2>1, <2>2 DEF FrameAt
<1>6. ASSUME NEW depth \in Nat PROVE HasRead(disk, Frame(f), 0, depth)
  <2>1. Upto(LinesSay(disk[f], Says(disk)[depth]), 0) = Reads(<<>>)
    BY LinesSayReadings
  <2> QED BY <1>2, <2>1 DEF HasRead
<1> QED BY <1>2, <1>3, <1>4, <1>5, <1>6

\* A file that is not on the stack fits on it.
LEMMA StackIsBounded ==
    ASSUME ParserInv, ~reader, NEW f \in Files, f \notin visited
    PROVE  /\ Cardinality(visited \cup {f}) = Len(stack) + 1
           /\ Len(stack) + 1 <= Depth
<1>1. visited \cup {f} \subseteq Files /\ Cardinality(visited) = Len(stack) /\ visited \subseteq Files
  BY DEF ParserInv, ParserTypeOK, VisitedOK
<1>2. IsFiniteSet(visited) /\ IsFiniteSet(visited \cup {f})
  BY <1>1, FilesAreFinite, FS_Subset
<1>3. Cardinality(visited \cup {f}) = Cardinality(visited) + 1
  BY <1>2, FS_AddElement
<1>4. Cardinality(visited \cup {f}) <= Cardinality(Files)
  BY <1>1, FilesAreFinite, FS_Subset
<1> QED BY <1>1, <1>3, <1>4 DEF Depth

\* ParseFiles and Parse open the next argument.
LEMMA OpenPathKeepsInv ==
    ASSUME ParserInv, OpenPath, reader \/ CanOpen(paths[read + 1])
    PROVE  ParserInv'
<1> DEFINE f == paths[read + 1]
<1>1. /\ outcome = "parsing" /\ stack = <<>> /\ Len(stack) = 0 /\ read < Len(paths)
      /\ Len(paths) \in Nat /\ read \in Nat /\ f \in Files /\ disk \in FilesOnDisk
  BY DEF OpenPath, ParserInv, ParserTypeOK
<1>2. disk[f] # Missing
  <2>1. CASE reader
    <3>1. VisitedOK
      BY DEF ParserInv
    <3>2. Len(paths) = 1 /\ disk[paths[1]] # Missing
      BY <2>1, <3>1 DEF VisitedOK
    <3>3. read + 1 = 1
      BY <1>1, <3>2
    <3> QED BY <3>2, <3>3
  <2>2. CASE ~reader
    BY <2>2 DEF CanOpen
  <2> QED BY <2>1, <2>2
<1>3. /\ Frame(f) \in Frames /\ Frame(f).file = f /\ Taken(disk, Frame(f)) = 0
      /\ FrameAt(disk, Frame(f), 0)
      /\ \A depth \in Nat : HasRead(disk, Frame(f), 0, depth)
  BY <1>1, <1>2, NewFrameIs
<1>4. /\ stack' = <<Frame(f)>> /\ UNCHANGED <<disk, paths, reader, read, dict, outcome>>
      /\ visited' = IF reader THEN visited ELSE visited \cup {f}
  <2>1. Append(<<>>, Frame(f)) = <<Frame(f)>>
    OBVIOUS
  <2> HIDE DEF f
  <2> QED BY <2>1 DEF OpenPath, OpenOn, Goes, f
<1> HIDE DEF f
<1>5. stack' \in Seq(Frames) /\ Len(stack') = 1 /\ stack'[1] = Frame(f)
  BY <1>3, <1>4
<1>6. 1 <= Depth /\ Depth - 1 \in Nat
  <2>1. CASE reader
    BY <2>1 DEF Depth
  <2>2. CASE ~reader
    <3>1. f \notin visited
      BY <2>2 DEF CanOpen, f
    <3>2. Len(stack) + 1 <= Depth
      BY <1>1, <2>2, <3>1, StackIsBounded
    <3>3. 0 + 1 <= Depth
      BY <1>1, <3>2
    <3> QED BY <3>3, DepthIsNat
  <2> QED BY <2>1, <2>2
<1>7. ActivationOK(disk, stack', 1, Depth)
  BY <1>3, <1>5, <1>6 DEF ActivationOK
<1>8. ParserTypeOK'
  BY <1>1, <1>4, <1>5 DEF ParserInv, ParserTypeOK
<1>9. VisitedOK'
  <2>1. VisitedOK
    BY DEF ParserInv
  <2>2. reader => Len(stack') <= 1 /\ Len(paths') = 1 /\ disk'[paths'[1]] # Missing
    BY <1>4, <1>5, <2>1 DEF VisitedOK
  <2>3. ASSUME ~reader
        PROVE  visited' = {stack'[k].file : k \in 1..Len(stack')} /\ Cardinality(visited') = Len(stack')
    <3>1. visited = {}
      BY <1>1, <2>1, <2>3 DEF VisitedOK
    <3>2. visited' = {f} /\ f \notin visited
      BY <1>4, <2>3, <3>1
    <3>3. Cardinality(visited \cup {f}) = Len(stack) + 1
      BY <1>1, <2>3, <3>2, StackIsBounded
    <3>4. {stack'[k].file : k \in 1..Len(stack')} = {f}
      <4>1. 1..Len(stack') = {1}
        BY <1>5
      <4> QED BY <1>3, <1>5, <4>1
    <3> QED BY <1>1, <1>4, <1>5, <2>3, <3>2, <3>3, <3>4
  <2>4. read' < Len(paths') /\ stack'[1].file = paths'[read' + 1]
    BY <1>1, <1>3, <1>4, <1>5 DEF f
  <2>5. \A j, k \in 1..Len(stack') : j = k
    BY <1>5
  <2> QED BY <1>4, <2>2, <2>3, <2>4, <2>5 DEF VisitedOK
<1>10. OutcomeOK'
  BY <1>4, SameSays DEF ParserInv, OutcomeOK
<1>11. \A k \in 1..Len(stack') : ActivationOK(disk, stack, k, Depth)'
  <2>1. \A k \in 1..Len(stack') : k = 1
    BY <1>5
  <2> QED BY <1>4, <1>7, <2>1, SameSays
<1>12. Len(stack') <= Depth'
  BY <1>4, <1>5, <1>6, SameSays
<1> QED BY <1>8, <1>9, <1>10, <1>11, <1>12 DEF ParserInv

\* handleInclude opens a file.
LEMMA IncludeKeepsInv ==
    ASSUME ParserInv, Include, ~reader, CanOpen(Head(Top.lines).path)
    PROVE  ParserInv'
<1> DEFINE K == Len(stack)
           n == Taken(disk, Top)
           f == Head(Top.lines).path
           frame == NextLine(Top.vendor, <<>>)
           below == Append(Front(stack), frame)
<1>1. outcome = "parsing" /\ stack # <<>> /\ Top.lines # <<>> /\ Head(Top.lines).is = "$INCLUDE"
  BY DEF Include, AtLine
<1>2. /\ K \in Nat /\ K > 0 /\ Depth - K \in Nat
      /\ Top = stack[K] /\ Top \in Frames /\ Top.file \in Files /\ disk \in FilesOnDisk
      /\ disk[Top.file] \in Seq(Lines) /\ Len(disk[Top.file]) \in Nat
      /\ n \in 0..(Len(disk[Top.file]) - 1)
      /\ FrameAt(disk, Top, n) /\ HasRead(disk, Top, n, Depth - K)
      /\ Head(Top.lines) = disk[Top.file][n + 1] /\ disk[Top.file][n + 1] \in Lines
  BY <1>1, TopIs DEF ParserInv, ParserTypeOK
<1>3. f \in Files /\ f \notin visited /\ disk[f] # Missing
  BY <1>1, <1>2, LinesAreDirectives DEF CanOpen
<1>4. /\ stack' = Append(below, Frame(f)) /\ visited' = visited \cup {f}
      /\ UNCHANGED <<disk, paths, reader, read, dict, outcome>>
  BY DEF Include, OpenOn
<1>5. Top.vendor \in Vendors /\ <<>> \in Seq(Entries) /\ Top.entries \in Seq(Entries)
  BY <1>2 DEF Frames
<1>6. /\ frame \in Frames /\ frame.file = Top.file
      /\ frame.entries = Top.entries \o <<>> /\ Taken(disk, frame) = n + 1
  BY <1>1, <1>5, NextLineIs
<1>7. frame.entries = Top.entries
  <2> HIDE DEF frame
  <2> QED BY <1>5, <1>6
<1>8. Top.vendor = VendorAt(disk[Top.file], n + 2)
  <2>1. n + 1 \in 1..Len(disk[Top.file]) /\ (n + 1) + 1 = n + 2
    BY <1>2
  <2>2. Top.vendor = VendorAt(disk[Top.file], n + 1)
    BY <1>2 DEF FrameAt
  <2>3. disk[Top.file][n + 1].is = "$INCLUDE"
    BY <1>1, <1>2
  <2> HIDE DEF n
  <2> QED BY <1>2, <2>1, <2>2, <2>3, VendorAtNext
<1>9. FrameAt(disk, frame, n + 1)
  BY <1>1, <1>5, <1>8, NextLineAt
<1>10. HasRead(disk, frame, (n + 1) - 1, Depth - K)
  <2>1. (n + 1) - 1 = n
    BY <1>2
  <2> HIDE DEF frame, n
  <2> QED BY <1>2, <1>6, <1>7, <2>1 DEF HasRead
<1>11. Includes(disk, frame, n + 1, f)
  <2>1. n + 1 > 0
    BY <1>2
  <2> HIDE DEF frame, n
  <2> QED BY <1>1, <1>2, <1>6, <2>1 DEF Includes
<1>12. /\ Frame(f) \in Frames /\ Frame(f).file = f /\ Taken(disk, Frame(f)) = 0
       /\ FrameAt(disk, Frame(f), 0)
       /\ \A depth \in Nat : HasRead(disk, Frame(f), 0, depth)
  BY <1>2, <1>3, NewFrameIs
<1> HIDE DEF frame, n, f
<1>13. /\ below \in Seq(Frames) /\ Len(below) = K /\ below[K] = frame
       /\ \A k \in 1..(K - 1) : below[k] = stack[k]
  BY <1>1, <1>6, ReplaceTop DEF ParserInv, ParserTypeOK
<1> HIDE DEF below
<1>14. /\ stack' \in Seq(Frames) /\ Len(stack') = K + 1
       /\ stack'[K + 1] = Frame(f) /\ stack'[K] = frame
       /\ \A k \in 1..(K - 1) : stack'[k] = stack[k]
  <2>1. /\ stack' \in Seq(Frames) /\ Len(stack') = Len(below) + 1
        /\ stack'[Len(below) + 1] = Frame(f)
        /\ \A k \in 1..Len(below) : stack'[k] = below[k]
    BY <1>4, <1>12, <1>13, AppendProperties
  <2>2. K \in 1..K /\ \A k \in 1..(K - 1) : k \in 1..K
    BY <1>2
  <2> HIDE DEF K
  <2> QED BY <1>13, <2>1, <2>2
<1>15. \A k \in 1..K : stack'[k].file = stack[k].file
  <2>1. \A k \in 1..K : k = K \/ k \in 1..(K - 1)
    BY <1>2
  <2> HIDE DEF K
  <2> QED BY <1>2, <1>6, <1>14, <2>1
<1>16. K + 1 <= Depth /\ Depth - (K + 1) \in Nat /\ Cardinality(visited \cup {f}) = K + 1
  <2>1. K + 1 <= Depth /\ Cardinality(visited \cup {f}) = K + 1
    BY <1>3, StackIsBounded
  <2> QED BY <1>2, <2>1, DepthIsNat
<1> HIDE DEF K
<1>17. ASSUME NEW k \in 1..(K + 1) PROVE ActivationOK(disk, stack', k, Depth)
  <2>1. CASE k = K + 1
    BY <1>12, <1>14, <1>16, <2>1 DEF ActivationOK
  <2>2. CASE k = K
    <3>1. K # Len(stack')
      BY <1>2, <1>14
    <3> QED BY <1>6, <1>9, <1>10, <1>11, <1>12, <1>14, <2>2, <3>1 DEF ActivationOK
  <2>3. CASE k \in 1..(K - 1)
    <3>1. k + 1 \in 1..K /\ k # K /\ k # K + 1 /\ k \in 1..K
      BY <1>2, <2>3
    <3>2. ActivationOK(disk, stack, k, Depth)
      BY <3>1 DEF ParserInv, K
    <3> QED BY <1>14, <1>15, <2>3, <3>1, <3>2, BelowIsSame DEF K
  <2> QED BY <1>2, <2>1, <2>2, <2>3
<1>18. ParserTypeOK'
  BY <1>3, <1>4, <1>14 DEF ParserInv, ParserTypeOK
<1>19. VisitedOK'
  <2>1. VisitedOK
    BY DEF ParserInv
  <2>2. {stack'[k].file : k \in 1..(K + 1)} = {stack[k].file : k \in 1..K} \cup {f}
    <3>1. 1..(K + 1) = 1..K \cup {K + 1}
      BY <1>2
    <3> QED BY <1>12, <1>14, <1>15, <3>1
  <2>3. stack'[1].file = stack[1].file /\ stack # <<>>
    <3>1. 1 \in 1..K
      BY <1>2
    <3> QED BY <1>1, <1>15, <3>1
  <2>4. ASSUME NEW j \in 1..(K + 1), NEW k \in 1..(K + 1), stack'[j].file = stack'[k].file
        PROVE  j = k
    <3>1. visited = {stack[i].file : i \in 1..K}
          /\ \A i, l \in 1..K : stack[i].file = stack[l].file => i = l
      BY <2>1 DEF VisitedOK, K
    <3>2. \A i \in 1..K : stack'[i].file # f
      BY <1>3, <1>15, <3>1
    <3>3. stack'[K + 1].file = f
      BY <1>12, <1>14
    <3>4. (j = K + 1 \/ j \in 1..K) /\ (k = K + 1 \/ k \in 1..K)
      BY <1>2
    <3> QED BY <1>15, <2>4, <3>1, <3>2, <3>3, <3>4
  <2> QED BY <1>4, <1>14, <1>16, <2>1, <2>2, <2>3, <2>4 DEF VisitedOK, K
<1>20. OutcomeOK'
  BY <1>4, SameSays DEF ParserInv, OutcomeOK
<1>21. Len(stack') <= Depth' /\ \A k \in 1..Len(stack') : ActivationOK(disk, stack, k, Depth)'
  BY <1>4, <1>14, <1>16, <1>17, SameSays
<1> QED BY <1>18, <1>19, <1>20, <1>21 DEF ParserInv

\* A file whose lines are all read says what its activation collected.
LEMMA TopSays ==
    ASSUME ParserInv, stack # <<>>, Top.lines = <<>>
    PROVE  /\ Depth - Len(stack) + 1 \in Nat
           /\ Says(disk)[Depth - Len(stack) + 1][Top.file] = Reads(Top.entries)
<1> DEFINE d == Depth - Len(stack)
<1>1. /\ d \in Nat /\ Top.file \in Files /\ disk \in FilesOnDisk /\ disk[Top.file] # Missing
      /\ HasRead(disk, Top, Len(disk[Top.file]), d)
  BY TopIs DEF FrameAt, ParserInv, ParserTypeOK
<1> HIDE DEF d
<1>2. Upto(LinesSay(disk[Top.file], Says(disk)[d]), Len(disk[Top.file])) = Reads(Top.entries)
  BY <1>1 DEF HasRead
<1>3. FileSays(disk[Top.file], Says(disk)[d]) = Reads(Top.entries)
  BY <1>1, <1>2, LinesSayReadings
<1>4. d + 1 \in Nat /\ Says(disk)[d + 1][Top.file] = FileSays(disk[Top.file], Says(disk)[d])
  BY <1>1, SaysIs
<1> QED BY <1>3, <1>4 DEF d

\* ParseFile returns to ParseFiles, which adds the entries.
LEMMA PathEndsKeepsInv ==
    ASSUME ParserInv, EndOfFile, Len(stack) = 1
    PROVE  ParserInv'
<1>1. /\ outcome = "parsing" /\ stack # <<>> /\ Top.lines = <<>>
      /\ stack' = <<>> /\ dict' = dict \o Top.entries /\ read' = read + 1
      /\ visited' = IF reader THEN visited ELSE visited \ {Top.file}
      /\ UNCHANGED <<disk, paths, reader, outcome>>
  BY DEF EndOfFile
<1>2. /\ Top = stack[1] /\ Top.entries \in Seq(Entries) /\ disk \in FilesOnDisk
      /\ paths \in Seq(Files) /\ dict \in Seq(Entries) /\ read \in Nat
  BY <1>1, TopIs DEF Frames, ParserInv, ParserTypeOK
<1>3. VisitedOK
  BY DEF ParserInv
<1>4. read < Len(paths) /\ Top.file = paths[read + 1] /\ Len(paths) \in Nat
  BY <1>1, <1>2, <1>3 DEF VisitedOK
<1>5. PathsSay[read + 1] = Reads(Top.entries)
  <2>1. Depth - 1 + 1 = Depth /\ read + 1 \in 1..Len(paths)
    BY <1>2, <1>4, DepthIsNat
  <2>2. Says(disk)[Depth][Top.file] = Reads(Top.entries)
    BY <1>1, <2>1, TopSays
  <2> QED BY <1>4, <2>1, <2>2 DEF PathsSay
<1>6. Upto(PathsSay, read) = Reads(dict)
  BY <1>1 DEF ParserInv, OutcomeOK
<1>7. Upto(PathsSay, read + 1) = Reads(dict \o Top.entries)
  <2>1. \A x : Reads(x).ok /\ Reads(x).entries = x
    BY DEF Reads
  <2>2. read \in 0..(Len(paths) - 1) /\ Upto(PathsSay, read).ok /\ PathsSay[read + 1].ok
    BY <1>2, <1>4, <1>5, <1>6, <2>1
  <2>3. Upto(PathsSay, read + 1) = Reads(Upto(PathsSay, read).entries \o PathsSay[read + 1].entries)
    BY <1>2, <2>2, PathsSayReadings, UptoIs
  <2> QED BY <1>5, <1>6, <2>1, <2>3
<1>8. OutcomeOK'
  BY <1>1, <1>7, SameSays DEF OutcomeOK
<1>9. stack' \in Seq(Frames) /\ Len(stack') = 0 /\ 1..Len(stack') = {}
  BY <1>1
<1>10. ParserTypeOK'
  <2>1. read + 1 \in 0..Len(paths) /\ dict \o Top.entries \in Seq(Entries)
    BY <1>2, <1>4
  <2> QED BY <1>1, <1>2, <1>9, <2>1 DEF ParserInv, ParserTypeOK
<1>11. VisitedOK'
  <2>1. ASSUME ~reader PROVE visited' = {}
    <3>1. visited = {stack[k].file : k \in 1..1}
      BY <1>3, <2>1 DEF VisitedOK
    <3>2. visited = {Top.file}
      BY <1>2, <3>1
    <3> QED BY <1>1, <2>1, <3>2
  <2>2. {stack'[k].file : k \in 1..Len(stack')} = {} /\ Cardinality({}) = 0
    BY <1>9, FS_EmptySet
  <2>3. reader => Len(paths) = 1 /\ disk[paths[1]] # Missing
    BY <1>3 DEF VisitedOK
  <2>4. reader' => Len(stack') <= 1 /\ Len(paths') = 1 /\ disk'[paths'[1]] # Missing
    BY <1>1, <1>9, <2>3
  <2>5. ~reader' => /\ visited' = {stack'[k].file : k \in 1..Len(stack')}
                    /\ Cardinality(visited') = Len(stack')
                    /\ \A j, k \in 1..Len(stack') : stack'[j].file = stack'[k].file => j = k
    <3>1. \A j, k \in 1..Len(stack') : j = k
      BY <1>9
    <3> QED BY <1>1, <1>9, <2>1, <2>2, <3>1
  <2> QED BY <1>1, <2>4, <2>5 DEF VisitedOK
<1>12. Len(stack') <= Depth'
  BY <1>1, <1>9, SameSays, DepthIsNat
<1> QED BY <1>8, <1>9, <1>10, <1>11, <1>12 DEF ParserInv

\* parse returns to handleInclude, which adds the entries to its own.
LEMMA IncludeEndsKeepsInv ==
    ASSUME ParserInv, EndOfFile, Len(stack) # 1
    PROVE  ParserInv'
<1> DEFINE K == Len(stack)
           under == stack[K - 1]
           n == Taken(disk, under)
           frame == [under EXCEPT !.entries = @ \o Top.entries]
<1>1. /\ outcome = "parsing" /\ stack # <<>> /\ Top.lines = <<>>
      /\ stack' = [Front(stack) EXCEPT ![K - 1].entries = @ \o Top.entries]
      /\ visited' = IF reader THEN visited ELSE visited \ {Top.file}
      /\ UNCHANGED <<disk, paths, reader, read, dict, outcome>>
  BY DEF EndOfFile
<1>2. /\ K \in Nat /\ K > 1 /\ Depth - K \in Nat /\ Top = stack[K] /\ Top.file \in Files
      /\ Top.entries \in Seq(Entries)
  <2>1. K \in Nat /\ K > 0 /\ Depth - K \in Nat /\ Top = stack[K] /\ Top.file \in Files
        /\ Top \in Frames
    BY <1>1, TopIs
  <2>2. K # 1
    OBVIOUS
  <2> HIDE DEF K
  <2>3. Top.entries \in Seq(Entries)
    BY <2>1 DEF Frames
  <2> QED BY <2>1, <2>2, <2>3
<1>3. /\ disk \in FilesOnDisk /\ stack \in Seq(Frames) /\ K <= Depth /\ VisitedOK
      /\ \A k \in 1..K : ActivationOK(disk, stack, k, Depth)
  BY DEF ParserInv, ParserTypeOK
<1>4. ~reader
  BY <1>2, <1>3 DEF VisitedOK
<1>5. /\ Front(stack) \in Seq(Frames) /\ Len(Front(stack)) = K - 1
      /\ \A k \in 1..(K - 1) : Front(stack)[k] = stack[k]
  <2> DEFINE front == SubSeq(stack, 1, K - 1)
  <2>1. \A k \in 1..(K - 1) : stack[k] \in Frames
    BY <1>2, <1>3
  <2>2. 1 \in Int /\ K - 1 \in Int /\ (K - 1) - 1 + 1 = K - 1 /\ 1 <= K - 1
        /\ \A i \in 1..(K - 1) : 1 + i - 1 = i
    BY <1>2
  <2>3. front \in Seq(Frames) /\ Len(front) = IF 1 <= K - 1 THEN (K - 1) - 1 + 1 ELSE 0
    BY <2>1, <2>2, SubSeqProperties
  <2>4. \A k \in 1..(K - 1) : front[k] = stack[k]
    BY <2>1, <2>2, SubSeqProperties
  <2>5. Front(stack) = front
    BY DEF Front
  <2> HIDE DEF front, K
  <2> QED BY <2>2, <2>3, <2>4, <2>5
<1>6. under \in Frames /\ under.entries \in Seq(Entries) /\ under.file \in Files
  <2>1. K - 1 \in 1..K
    BY <1>2
  <2>2. under \in Frames
    BY <1>3, <2>1
  <2> HIDE DEF under
  <2> QED BY <2>2 DEF Frames
<1>7. /\ frame \in Frames /\ frame.file = under.file /\ frame.lines = under.lines
      /\ frame.vendor = under.vendor /\ frame.entries = under.entries \o Top.entries
  <2>1. under.entries \o Top.entries \in Seq(Entries)
    BY <1>2, <1>6
  <2> HIDE DEF under
  <2> QED BY <1>6, <2>1 DEF Frames
<1> HIDE DEF frame
<1>8. /\ stack' \in Seq(Frames) /\ Len(stack') = K - 1 /\ stack'[K - 1] = frame
      /\ \A k \in 1..(K - 2) : stack'[k] = stack[k]
  <2> DEFINE front == Front(stack)
  <2>1. K - 1 \in 1..Len(front) /\ front[K - 1] = under
    BY <1>2, <1>5
  <2>2. stack' = [front EXCEPT ![K - 1] = frame]
    BY <1>1, <2>1 DEF frame
  <2>3. front \in Seq(Frames) /\ Len(front) = K - 1 /\ \A k \in 1..(K - 1) : front[k] = stack[k]
    BY <1>5
  <2>4. \A k \in 1..(K - 2) : k \in 1..(K - 1) /\ k # K - 1
    BY <1>2
  <2> HIDE DEF front, K, under
  <2>5. stack' \in Seq(Frames) /\ Len(stack') = Len(front) /\ stack'[K - 1] = frame
        /\ \A k \in 1..Len(front) : k # K - 1 => stack'[k] = front[k]
    BY <1>7, <2>1, <2>2, <2>3, ExceptSeq
  <2> QED BY <2>3, <2>4, <2>5
<1>9. /\ FrameAt(disk, under, n) /\ Includes(disk, under, n, Top.file)
      /\ HasRead(disk, under, n - 1, Depth - (K - 1))
  <2>1. K - 1 \in 1..K /\ K - 1 # K /\ (K - 1) + 1 = K
    BY <1>2
  <2>2. ActivationOK(disk, stack, K - 1, Depth)
    BY <1>3, <2>1
  <2> QED BY <1>2, <2>1, <2>2 DEF ActivationOK
<1> DEFINE file == disk[under.file]
           d == Depth - (K - 1)
<1>10. /\ file # Missing /\ file \in Seq(Lines) /\ Len(file) \in Nat /\ n \in 0..Len(file)
       /\ n > 0 /\ file[n].is = "$INCLUDE" /\ file[n].path = Top.file /\ d \in Nat
  <2>1. file # Missing /\ n \in 0..Len(file)
    BY <1>9 DEF FrameAt
  <2>2. file \in Seq(Lines)
    BY <1>3, <1>6, <2>1 DEF FilesOnDisk
  <2>3. d \in Nat
    BY <1>2, DepthIsNat
  <2> HIDE DEF n, under
  <2> QED BY <1>9, <2>1, <2>2, <2>3 DEF Includes
<1>11. LineSays(file, n, Says(disk)[d]) = Reads(Top.entries)
  <2>1. LineSays(file, n, Says(disk)[d]) = Says(disk)[d][Top.file]
    <3> HIDE DEF file, n, d
    <3> QED BY <1>10 DEF LineSays
  <2>2. d = Depth - K + 1
    BY <1>2, DepthIsNat
  <2>3. Says(disk)[d][Top.file] = Reads(Top.entries)
    BY <1>1, <2>2, TopSays
  <2> QED BY <2>1, <2>3
<1>12. HasRead(disk, frame, n, d)
  <2>1. n - 1 \in 0..(Len(file) - 1) /\ (n - 1) + 1 = n
    BY <1>10
  <2>2. HasRead(disk, frame, (n - 1) + 1, d)
    <3>1. LineSays(file, (n - 1) + 1, Says(disk)[d]) = Reads(Top.entries)
      BY <1>11, <2>1
    <3> HIDE DEF n, d, under
    <3> QED BY <1>2, <1>3, <1>6, <1>7, <1>9, <1>10, <2>1, <3>1, HasReadNext DEF d
  <2> QED BY <2>1, <2>2
<1>13. FrameAt(disk, frame, n) /\ Taken(disk, frame) = n
  BY <1>7, <1>9 DEF FrameAt, Taken
<1>14. \A k \in 1..(K - 1) : stack'[k].file = stack[k].file
  <2>1. \A k \in 1..(K - 1) : k = K - 1 \/ k \in 1..(K - 2)
    BY <1>2
  <2> HIDE DEF K
  <2> QED BY <1>7, <1>8, <2>1
<1> HIDE DEF K, n, under, file
<1>15. ASSUME NEW k \in 1..(K - 1) PROVE ActivationOK(disk, stack', k, Depth)
  <2>1. CASE k = K - 1
    BY <1>8, <1>12, <1>13, <2>1 DEF ActivationOK
  <2>2. CASE k # K - 1
    <3>1. k \in 1..(K - 2) /\ k + 1 \in 1..(K - 1) /\ k \in 1..K /\ k # K
      BY <1>2, <2>2
    <3>2. ActivationOK(disk, stack, k, Depth)
      BY <1>3, <3>1
    <3> QED BY <1>8, <1>14, <2>2, <3>1, <3>2, BelowIsSame DEF K
  <2> QED BY <2>1, <2>2
<1>16. ParserTypeOK'
  BY <1>1, <1>8 DEF ParserInv, ParserTypeOK
<1>17. VisitedOK'
  <2>1. /\ visited = {stack[k].file : k \in 1..K} /\ Cardinality(visited) = K
        /\ \A j, k \in 1..K : stack[j].file = stack[k].file => j = k
    BY <1>3, <1>4 DEF VisitedOK, K
  <2>2. visited' = visited \ {Top.file}
    BY <1>1, <1>4
  <2>3. visited' = {stack'[k].file : k \in 1..(K - 1)}
    <3>1. 1..K = 1..(K - 1) \cup {K} /\ K \notin 1..(K - 1)
      BY <1>2
    <3>2. \A k \in 1..(K - 1) : stack[k].file # Top.file
      BY <1>2, <2>1, <3>1
    <3> QED BY <1>2, <1>14, <2>1, <2>2, <3>1, <3>2
  <2>4. Cardinality(visited') = K - 1
    <3>1. IsFiniteSet(visited)
      <4>1. visited \subseteq Files
        BY DEF ParserInv, ParserTypeOK
      <4> QED BY <4>1, FilesAreFinite, FS_Subset
    <3>2. Top.file \in visited
      <4>1. K \in 1..K
        BY <1>2
      <4> QED BY <1>2, <2>1, <4>1
    <3> QED BY <2>1, <2>2, <3>1, <3>2, FS_RemoveElement
  <2>5. \A j, k \in 1..(K - 1) : stack'[j].file = stack'[k].file => j = k
    <3>1. \A k \in 1..(K - 1) : k \in 1..K
      BY <1>2
    <3> QED BY <1>14, <2>1, <3>1
  <2>6. read < Len(paths) /\ stack'[1].file = paths[read + 1]
    <3>1. 1 \in 1..(K - 1)
      BY <1>2
    <3> QED BY <1>1, <1>3, <1>14, <3>1 DEF VisitedOK
  <2> QED BY <1>1, <1>4, <1>8, <2>3, <2>4, <2>5, <2>6 DEF VisitedOK
<1>18. OutcomeOK'
  BY <1>1, SameSays DEF ParserInv, OutcomeOK
<1>19. Len(stack') <= Depth' /\ \A k \in 1..Len(stack') : ActivationOK(disk, stack, k, Depth)'
  <2>1. K - 1 <= Depth
    BY <1>2, <1>3, DepthIsNat DEF K
  <2> QED BY <1>1, <1>8, <1>15, <2>1, SameSays
<1> QED BY <1>16, <1>17, <1>18, <1>19 DEF ParserInv

-----------------------------------------------------------------------------
(* Failures: the answer is bad when the call fails.                        *)

\* A file with a bad line is bad.
LEMMA FileIsBad ==
    ASSUME NEW files \in FilesOnDisk, NEW f \in Files, NEW depth \in Nat, files[f] # Missing,
           NEW i \in 1..Len(files[f]), ~LineSays(files[f], i, Says(files)[depth]).ok
    PROVE  ~Says(files)[depth + 1][f].ok
<1> DEFINE lines == LinesSay(files[f], Says(files)[depth])
<1>1. /\ Len(files[f]) \in Nat /\ lines \in [1..Len(files[f]) -> Readings]
      /\ lines[i] = LineSays(files[f], i, Says(files)[depth])
  BY LinesSayReadings
<1>2. FileSays(files[f], Says(files)[depth]) = Together(lines)
  BY DEF FileSays, LinesSay
<1> HIDE DEF lines
<1>3. Together(lines) = Bad
  BY <1>1, UptoIs
<1>4. Says(files)[depth + 1][f] = FileSays(files[f], Says(files)[depth])
  BY SaysIs
<1> QED BY <1>2, <1>3, <1>4 DEF Bad

\* When the innermost activation is at a line that is malformed, or includes
\* a file that is not there or on the stack already, then all files on the
\* stack are bad, to every depth: each waits for the next one's file, and
\* the last for a bad line or for one of them.
LEMMA StackIsBad ==
    ASSUME ParserInv, ~reader, stack # <<>>, Top.lines # <<>>,
           \/ Head(Top.lines).is = "malformed"
           \/ Head(Top.lines).is = "$INCLUDE" /\ ~CanOpen(Head(Top.lines).path)
    PROVE  \A depth \in Nat : ~Says(disk)[depth][stack[1].file].ok
<1> DEFINE K == Len(stack)
           n == Taken(disk, Top)
           line == Head(Top.lines)
           AllBad(depth) == \A k \in 1..K : ~Says(disk)[depth][stack[k].file].ok
           S == {depth \in Nat : AllBad(depth)}
<1>1. /\ K \in Nat /\ K > 0 /\ Top = stack[K] /\ Top.file \in Files /\ disk \in FilesOnDisk
      /\ n + 1 \in 1..Len(disk[Top.file]) /\ disk[Top.file] # Missing
      /\ line = disk[Top.file][n + 1] /\ line \in Lines
  <2>1. K \in Nat /\ K > 0 /\ Top = stack[K]
    BY Zenon, TopIs
  <2> QED BY Zenon, <2>1, LineIs
<1>2. \A k \in 1..K : stack[k] \in Frames /\ ActivationOK(disk, stack, k, Depth)
  BY DEF ParserInv, ParserTypeOK
<1>3. visited = {stack[k].file : k \in 1..K}
  BY DEF ParserInv, VisitedOK
<1>4. 0 \in S
  <2>1. \A k \in 1..K : stack[k].file \in Files
    BY <1>2 DEF Frames
  <2>2. \A f \in Files : ~Says(disk)[0][f].ok
    <3>1. ~Bad.ok
      BY DEF Bad
    <3> QED BY Zenon, <1>1, <3>1, SaysIs
  <2> QED BY <2>1, <2>2
<1>5. ASSUME NEW depth \in Nat, depth \in S PROVE depth + 1 \in S
  <2>1. AllBad(depth) /\ depth + 1 \in Nat
    BY <1>5
  <2>2. ASSUME NEW k \in 1..K PROVE ~Says(disk)[depth + 1][stack[k].file].ok
    <3>1. CASE k = K
      <4>1. ~LineSays(disk[Top.file], n + 1, Says(disk)[depth]).ok
        <5>1. CASE line.is = "malformed"
          <6> HIDE DEF n, line
          <6>1. LineSays(disk[Top.file], n + 1, Says(disk)[depth]) = Bad
            BY <1>1, <5>1 DEF LineSays
          <6> QED BY <6>1 DEF Bad
        <5>2. CASE line.is = "$INCLUDE" /\ ~CanOpen(line.path)
          <6>1. LineSays(disk[Top.file], n + 1, Says(disk)[depth]) = Says(disk)[depth][line.path]
            <7> HIDE DEF n, line
            <7> QED BY <1>1, <5>2 DEF LineSays
          <6>2. line.path \in Files
            BY <1>1, <5>2, LinesAreDirectives
          <6>3. CASE line.path \in visited
            BY <1>3, <2>1, <6>1, <6>3
          <6>4. CASE disk[line.path] = Missing
            <7> HIDE DEF line
            <7>1. \A says : FileSays(disk[line.path], says) = Bad
              BY <6>4 DEF FileSays
            <7>2. CASE depth = 0
              <8>1. Says(disk)[0][line.path] = Bad
                BY <1>1, <6>2, SaysIs
              <8>2. LineSays(disk[Top.file], n + 1, Says(disk)[depth]) = Bad
                BY <6>1, <7>2, <8>1
              <8> QED BY <8>2 DEF Bad
            <7>3. CASE depth # 0
              <8>1. depth - 1 \in Nat /\ (depth - 1) + 1 = depth
                BY <7>3
              <8>2. Says(disk)[(depth - 1) + 1][line.path]
                       = FileSays(disk[line.path], Says(disk)[depth - 1])
                BY <1>1, <6>2, <8>1, SaysIs
              <8> QED BY <6>1, <7>1, <8>1, <8>2 DEF Bad
            <7> QED BY <7>2, <7>3
          <6> QED BY <5>2, <6>3, <6>4 DEF CanOpen
        <5> QED BY <5>1, <5>2
      <4> HIDE DEF n, line
      <4> QED BY <1>1, <3>1, <4>1, FileIsBad
    <3>2. CASE k # K
      <4> DEFINE f == stack[k].file
                 m == Taken(disk, stack[k])
      <4>1. k + 1 \in 1..K /\ f \in Files
        BY <1>1, <1>2, <3>2 DEF Frames
      <4>2. FrameAt(disk, stack[k], m) /\ Includes(disk, stack[k], m, stack[k + 1].file)
        BY <1>2, <3>2 DEF ActivationOK
      <4> HIDE DEF m
      <4>3. /\ disk[f] # Missing /\ m \in 1..Len(disk[f]) /\ disk[f][m].is = "$INCLUDE"
            /\ disk[f][m].path = stack[k + 1].file
        <5>1. disk[f] # Missing /\ m \in 0..Len(disk[f])
          BY <4>2 DEF FrameAt
        <5>2. m > 0 /\ disk[f][m].is = "$INCLUDE" /\ disk[f][m].path = stack[k + 1].file
          BY <4>2 DEF Includes
        <5>3. Len(disk[f]) \in Nat
          BY <1>1, <4>1, <5>1 DEF FilesOnDisk
        <5> HIDE DEF f
        <5> QED BY <5>1, <5>2, <5>3
      <4>4. LineSays(disk[f], m, Says(disk)[depth]) = Says(disk)[depth][stack[k + 1].file]
        <5> HIDE DEF f
        <5> QED BY <4>3 DEF LineSays
      <4>5. ~LineSays(disk[f], m, Says(disk)[depth]).ok
        BY <2>1, <4>1, <4>4
      <4> HIDE DEF f
      <4>6. ~Says(disk)[depth + 1][f].ok
        BY <1>1, <4>1, <4>3, <4>5, FileIsBad
      <4> QED BY <4>6 DEF f
    <3> QED BY <3>1, <3>2
  <2> QED BY <2>1, <2>2
<1>6. Nat \subseteq S
  <2> HIDE DEF S
  <2> QED BY <1>4, <1>5, SetInduction
<1>7. 1 \in 1..K
  BY <1>1
<1> HIDE DEF K
<1> QED BY <1>6, <1>7

\* Parse includes no file: its file is bad when it is at an include, or at a
\* malformed line.
LEMMA ReaderIsBad ==
    ASSUME ParserInv, reader, stack # <<>>, Top.lines # <<>>,
           Head(Top.lines).is \in {"malformed", "$INCLUDE"}
    PROVE  ~Says(disk)[Depth][stack[1].file].ok
<1> DEFINE n == Taken(disk, Top)
           line == Head(Top.lines)
<1>1. Len(stack) = 1
  <2>1. Len(stack) <= 1
    BY Zenon DEF ParserInv, VisitedOK
  <2>2. Len(stack) \in Nat /\ Len(stack) > 0
    BY Zenon, TopIs
  <2> DEFINE K == Len(stack)
  <2>3. K <= 1 /\ K \in Nat /\ K > 0
    BY Zenon, <2>1, <2>2
  <2> HIDE DEF K
  <2>4. K = 1
    BY <2>3
  <2> QED BY Zenon, <2>4 DEF K
<1>2. /\ Top = stack[1] /\ Top.file \in Files /\ disk \in FilesOnDisk
      /\ n + 1 \in 1..Len(disk[Top.file]) /\ disk[Top.file] # Missing
      /\ line = disk[Top.file][n + 1] /\ line \in Lines
  <2>1. Top = stack[Len(stack)]
    BY Zenon, TopIs
  <2> QED BY Zenon, <1>1, <2>1, LineIs
<1>3. ~Bad.ok
  BY DEF Bad
<1>4. ~LineSays(disk[Top.file], n + 1, Says(disk)[0]).ok
  <2>1. CASE line.is = "malformed"
    <3> HIDE DEF n, line
    <3> QED BY <1>2, <1>3, <2>1 DEF LineSays
  <2>2. CASE line.is = "$INCLUDE"
    <3>1. LineSays(disk[Top.file], n + 1, Says(disk)[0]) = Says(disk)[0][line.path]
      <4> HIDE DEF n, line
      <4> QED BY <1>2, <2>2 DEF LineSays
    <3>2. line.path \in Files
      BY <1>2, <2>2, LinesAreDirectives
    <3> QED BY <1>2, <1>3, <3>1, <3>2, SaysIs
  <2> QED BY <2>1, <2>2
<1> HIDE DEF n, line
<1>5. ~Says(disk)[0 + 1][Top.file].ok
  BY <1>2, <1>4, FileIsBad
<1>6. Depth = 1
  BY Zenon DEF Depth
<1>7. 1 = 0 + 1
  OBVIOUS
<1> QED BY Zenon, <1>2, <1>5, <1>6, <1>7

\* One bad argument makes the answer bad.
LEMMA ArgumentIsBad ==
    ASSUME disk \in FilesOnDisk, paths \in Seq(Files), NEW i \in 1..Len(paths),
           ~Says(disk)[Depth][paths[i]].ok
    PROVE  FilesSay = Bad
<1>1. ~PathsSay[i].ok
  BY DEF PathsSay
<1> QED BY <1>1, PathsSayReadings, UptoIs

\* The call fails.
LEMMA FailKeepsInv ==
    ASSUME ParserInv, Fail, FilesSay = Bad
    PROVE  ParserInv'
<1>1. /\ outcome' = "failed" /\ stack' = <<>> /\ visited' = {} /\ dict' = <<>>
      /\ UNCHANGED <<disk, paths, reader, read>>
  BY DEF Fail
<1>2. /\ stack' \in Seq(Frames) /\ Len(stack') = 0 /\ 1..Len(stack') = {}
      /\ dict' \in Seq(Entries)
  BY <1>1
<1>3. ParserTypeOK'
  BY <1>1, <1>2 DEF ParserInv, ParserTypeOK
<1>4. VisitedOK'
  <2>1. {stack'[k].file : k \in 1..Len(stack')} = {} /\ Cardinality({}) = 0
    BY <1>2, FS_EmptySet
  <2>2. reader => Len(paths) = 1 /\ disk[paths[1]] # Missing
    BY DEF ParserInv, VisitedOK
  <2>3. reader' => Len(stack') <= 1 /\ Len(paths') = 1 /\ disk'[paths'[1]] # Missing
    BY <1>1, <1>2, <2>2
  <2>4. ~reader' => /\ visited' = {stack'[k].file : k \in 1..Len(stack')}
                    /\ Cardinality(visited') = Len(stack')
                    /\ \A j, k \in 1..Len(stack') : stack'[j].file = stack'[k].file => j = k
    BY <1>1, <1>2, <2>1
  <2> QED BY <1>1, <2>3, <2>4 DEF VisitedOK
<1>5. OutcomeOK'
  BY <1>1, SameSays DEF OutcomeOK
<1>6. Len(stack') <= Depth'
  BY <1>1, <1>2, SameSays, DepthIsNat
<1> QED BY <1>2, <1>3, <1>4, <1>5, <1>6 DEF ParserInv

\* It fails for what is in the files: at an argument that is not there, an
\* include that cannot be followed, or a malformed line.
LEMMA FailuresKeepInv ==
    ASSUME ParserInv,
           \/ OpenPath /\ ~reader /\ ~CanOpen(paths[read + 1])
           \/ Include /\ (reader \/ ~CanOpen(Head(Top.lines).path))
           \/ Malformed
    PROVE  ParserInv'
<1>1. disk \in FilesOnDisk /\ paths \in Seq(Files) /\ read \in Nat /\ VisitedOK /\ Depth \in Nat
  BY DepthIsNat DEF ParserInv, ParserTypeOK
<1>2. CASE OpenPath /\ ~reader /\ ~CanOpen(paths[read + 1])
  <2> DEFINE f == paths[read + 1]
  <2>1. stack = <<>> /\ read < Len(paths) /\ Fail
    BY <1>2 DEF OpenPath
  <2>2. visited = {}
    <3>1. Len(stack) = 0 /\ visited = {stack[k].file : k \in 1..Len(stack)}
      BY <1>1, <1>2, <2>1 DEF VisitedOK
    <3> QED BY <3>1
  <2>3. read + 1 \in 1..Len(paths) /\ f \in Files
    BY <1>1, <2>1
  <2>4. disk[f] = Missing
    BY <1>2, <2>2 DEF CanOpen
  <2> HIDE DEF f
  <2>5. ~Bad.ok /\ \A says : FileSays(disk[f], says) = Bad
    BY <2>4 DEF Bad, FileSays
  <2>6. Says(disk)[Depth][f] = Bad
    <3>1. CASE Depth = 0
      BY <1>1, <2>3, <3>1, SaysIs
    <3>2. CASE Depth # 0
      <4>1. Depth - 1 \in Nat /\ (Depth - 1) + 1 = Depth
        BY <1>1, <3>2
      <4>2. Says(disk)[(Depth - 1) + 1][f] = FileSays(disk[f], Says(disk)[Depth - 1])
        BY <1>1, <2>3, <4>1, SaysIs
      <4> QED BY <2>5, <4>1, <4>2
    <3> QED BY <3>1, <3>2
  <2>7. FilesSay = Bad
    BY <1>1, <2>3, <2>5, <2>6, ArgumentIsBad DEF f
  <2> QED BY <2>1, <2>7, FailKeepsInv
<1>3. CASE (Include /\ (reader \/ ~CanOpen(Head(Top.lines).path))) \/ Malformed
  <2>1. stack # <<>> /\ Top.lines # <<>> /\ Fail
        /\ Head(Top.lines).is \in {"malformed", "$INCLUDE"}
        /\ (~reader => \/ Head(Top.lines).is = "malformed"
                       \/ Head(Top.lines).is = "$INCLUDE" /\ ~CanOpen(Head(Top.lines).path))
    BY <1>3 DEF Include, Malformed, AtLine
  <2>2. ~Says(disk)[Depth][stack[1].file].ok
    <3>1. CASE reader
      BY <2>1, <3>1, ReaderIsBad
    <3>2. CASE ~reader
      BY <1>1, <2>1, <3>2, StackIsBad
    <3> QED BY <3>1, <3>2
  <2>3. read < Len(paths) /\ stack[1].file = paths[read + 1]
    BY <1>1, <2>1 DEF VisitedOK
  <2>4. read + 1 \in 1..Len(paths)
    BY <1>1, <2>3
  <2>5. FilesSay = Bad
    BY <1>1, <2>2, <2>3, <2>4, ArgumentIsBad
  <2> QED BY <2>1, <2>5, FailKeepsInv
<1> QED BY <1>2, <1>3

\* Every step of the parser keeps the invariant.
LEMMA ParserNextKeepsInv == ParserInv /\ ParserNext => ParserInv'
<1> SUFFICES ASSUME ParserInv, ParserNext PROVE ParserInv'
  OBVIOUS
<1>1. CASE OpenPath
  BY <1>1, OpenPathKeepsInv, FailuresKeepInv
<1>2. CASE Include
  BY <1>2, IncludeKeepsInv, FailuresKeepInv
<1>3. CASE Malformed
  BY <1>3, FailuresKeepInv
<1>4. CASE EndOfFile
  BY <1>4, PathEndsKeepsInv, IncludeEndsKeepsInv
<1>5. CASE ParseReturns
  <2>1. /\ outcome = "parsing" /\ read = Len(paths) /\ outcome' = "parsed"
        /\ UNCHANGED <<disk, paths, reader, read, stack, visited, dict>>
    BY <1>5 DEF ParseReturns
  <2>2. Depth' = Depth /\ PathsSay' = PathsSay /\ FilesSay' = FilesSay
    BY <2>1, SameSays
  <2>3. ParserTypeOK' /\ VisitedOK'
    BY <2>1 DEF ParserInv, ParserTypeOK, VisitedOK
  <2>4. OutcomeOK'
    BY <2>1, <2>2 DEF ParserInv, OutcomeOK
  <2>5. \A k \in 1..Len(stack') : ActivationOK(disk, stack, k, Depth)'
    BY <2>1, <2>2 DEF ParserInv
  <2> QED BY <2>1, <2>2, <2>3, <2>4, <2>5 DEF ParserInv
<1>6. CASE Attribute \/ ValueOrVendor \/ BeginVendor \/ EndVendor \/ Ignored
  BY <1>6, DirectiveKeepsInv
<1> QED BY <1>1, <1>2, <1>3, <1>4, <1>5, <1>6 DEF ParserNext

-----------------------------------------------------------------------------
(* RegisterFromDict.                                                       *)

\* A Dict that was parsed is registered from its start, and none of its
\* entries is rejected.
LoadInv ==
    /\ built \in BOOLEAN
    /\ built => outcome = "none" /\ dict \in Built
    /\ ~built => ParserInv /\ load # "failed"
    /\ ~built /\ load # "waiting" => outcome = "parsed"
    /\ next \in Nat \ {0}

\* An entry that the parser passes on is one that can be registered.
LEMMA EntriesCanBeRegistered ==
    ASSUME NEW entry \in Entries, entry.is = "ATTRIBUTE"
    PROVE  entry.kind \in KnownKinds /\ entry.type \in Types /\ entry.name \in Names
<1>1. PICK line \in Lines, vendor \in Vendors :
         line.is = "ATTRIBUTE" /\ entry = AttributeOf(line, vendor)
  BY DEF Entries
<1>2. /\ entry.type = line.type /\ entry.name = line.name
      /\ entry.kind = Normalize(line.token)
  BY <1>1 DEF AttributeOf
<1>3. line.type \in Types /\ line.name \in Names
  BY <1>1, AttributesAreNamed
<1>4. Normalize(line.token) \in KnownKinds
  BY DEF Normalize, KnownKinds
<1> QED BY <1>2, <1>3, <1>4

\* Nothing has failed yet.
LEMMA LoadInitInv == LoadInit => LoadInv
<1> SUFFICES ASSUME LoadInit PROVE LoadInv
  OBVIOUS
<1>1. next \in Nat \ {0} /\ load = "waiting"
  BY DEF LoadInit
<1>2. CASE built = FALSE /\ ParserInit
  BY <1>1, <1>2, ParserInitInv DEF LoadInv
<1>3. CASE built = TRUE /\ outcome = "none" /\ dict \in Built
  BY <1>1, <1>3 DEF LoadInv
<1> QED BY <1>2, <1>3 DEF LoadInit

\* A step of the parser is taken before the Dict is loaded; the others leave
\* the parser's state alone, and RegisterFails meets no entry of a Dict that
\* was parsed.
LEMMA LoadNextKeepsInv == LoadInv /\ [LoadNext]_loadVars => LoadInv'
<1> SUFFICES ASSUME LoadInv, [LoadNext]_loadVars PROVE LoadInv'
  OBVIOUS
<1>1. CASE Parse
  <2>1. outcome = "parsing"
    BY <1>1 DEF Parse, ParserNext, OpenPath, Include, Attribute, ValueOrVendor, BeginVendor,
                EndVendor, Ignored, Malformed, EndOfFile, ParseReturns, AtLine
  <2>2. ~built /\ load = "waiting" /\ ParserInv /\ next \in Nat \ {0}
    BY <2>1 DEF LoadInv
  <2>3. ParserInv' /\ UNCHANGED <<built, load, next>>
    BY <1>1, <2>2, ParserNextKeepsInv DEF Parse
  <2> QED BY <2>2, <2>3 DEF LoadInv
<1>2. ASSUME UNCHANGED parserVars, UNCHANGED built, next' \in Nat \ {0},
             \/ load' = load
             \/ load' = "loading" /\ (built \/ outcome = "parsed")
             \/ load' = "loaded" /\ load = "loading"
             \/ load' = "failed" /\ built
      PROVE  LoadInv'
  <2>1. ParserInv => ParserInv'
    <3> SUFFICES ASSUME ParserInv PROVE ParserInv'
      OBVIOUS
    <3>1. UNCHANGED <<disk, paths, reader, read, stack, visited, dict, outcome>>
      BY <1>2 DEF parserVars
    <3>2. Depth' = Depth /\ PathsSay' = PathsSay /\ FilesSay' = FilesSay
      BY <3>1, SameSays
    <3>3. ParserTypeOK' /\ VisitedOK' /\ OutcomeOK'
      BY <3>1, <3>2 DEF ParserInv, ParserTypeOK, VisitedOK, OutcomeOK
    <3>4. \A k \in 1..Len(stack') : ActivationOK(disk, stack, k, Depth)'
      BY <3>1, <3>2 DEF ParserInv
    <3> QED BY <3>1, <3>2, <3>3, <3>4 DEF ParserInv
  <2> QED BY <1>2, <2>1 DEF LoadInv, parserVars
<1>3. next \in Nat \ {0} /\ next + 1 \in Nat \ {0}
  BY DEF LoadInv
<1>4. CASE StartLoad
  BY <1>2, <1>3, <1>4 DEF StartLoad
<1>5. CASE SkipEntry
  BY <1>2, <1>3, <1>5 DEF SkipEntry
<1>6. CASE RegisterAttribute
  BY <1>2, <1>3, <1>6 DEF RegisterAttribute
<1>7. CASE RegisterFails
  <2>1. /\ load = "loading" /\ next <= Len(dict) /\ dict[next].is = "ATTRIBUTE"
        /\ dict[next].kind \notin KnownKinds \/ dict[next].name = NoName
        /\ load' = "failed" /\ UNCHANGED <<parserVars, built, next>>
    BY <1>7 DEF RegisterFails, Loading
  <2>2. ASSUME ~built PROVE FALSE
    <3>1. dict \in Seq(Entries)
      BY <2>2 DEF LoadInv, ParserInv, ParserTypeOK
    <3>2. dict[next] \in Entries
      BY <1>3, <2>1, <3>1
    <3> QED BY <2>1, <3>2, EntriesCanBeRegistered, NoNameIsNoName
  <2> QED BY <1>2, <1>3, <2>1, <2>2
<1>8. CASE LoadReturns
  BY <1>2, <1>3, <1>8 DEF LoadReturns
<1>9. CASE OtherCalls
  BY <1>2, <1>3, <1>9 DEF OtherCalls
<1>10. CASE UNCHANGED loadVars
  BY <1>2, <1>3, <1>10 DEF loadVars
<1> QED BY <1>1, <1>4, <1>5, <1>6, <1>7, <1>8, <1>9, <1>10 DEF LoadNext

\* The invariant of parsing and loading: each activation of parse has
\* collected what the lines it is done with say, and no entry of a Dict that
\* was parsed is rejected.
THEOREM LoadInvariance == LoadSpec => []LoadInv
BY LoadInitInv, LoadNextKeepsInv, PTL DEF LoadSpec

\* Parse and ParseFiles succeed exactly when every file is there and well
\* formed and none includes itself, and return every file's entries in the
\* place where the file is included, with the vendor of its own block: for
\* any files, of any length, that include each other in any way.
THEOREM ParserReadsWhatFilesSay == LoadSpec => []ParsesWhatFilesSay
<1>1. LoadInv => ParsesWhatFilesSay
  <2> SUFFICES ASSUME LoadInv PROVE ParsesWhatFilesSay
    OBVIOUS
  <2>1. CASE built
    BY <2>1 DEF LoadInv, ParsesWhatFilesSay
  <2>2. CASE ~built
    BY <2>2, InvAnswers DEF LoadInv
  <2> QED BY <2>1, <2>2
<1> QED BY <1>1, LoadInvariance, PTL

\* RegisterFromDict rejects no entry of a Dict that was parsed.
THEOREM EveryParsedDictLoads == LoadSpec => []ParsedDictsLoad
<1>1. LoadInv => ParsedDictsLoad
  BY DEF LoadInv, ParsedDictsLoad
<1> QED BY <1>1, LoadInvariance, PTL

\* RegisterFromDict and the other goroutines use the dictionary as its
\* specification allows, so its invariants hold while a Dict is loaded.
LEMMA LoadImplementsDictionary == LoadSpec => DictSpec
<1>1. LoadInit => DictInit
  BY DEF LoadInit
<1>2. LoadInv /\ [LoadNext]_loadVars => [DictNext]_dictVars
  <2> SUFFICES ASSUME LoadInv, [LoadNext]_loadVars PROVE [DictNext]_dictVars
    OBVIOUS
  <2>1. CASE RegisterAttribute
    <3>1. /\ next <= Len(dict) /\ dict[next].is = "ATTRIBUTE" /\ dict[next].kind \in KnownKinds
          /\ Register(DefOf(dict[next])) /\ next \in Nat \ {0}
      BY <2>1 DEF RegisterAttribute, Loading, LoadInv
    <3>2. dict[next].type \in Types /\ dict[next].name \in Names \cup {NoName}
      <4>1. CASE built
        <5>1. dict \in Built
          BY <4>1 DEF LoadInv
        <5>2. next \in 1..Len(dict)
          BY <3>1
        <5> QED BY <3>1, <5>1, <5>2, BuiltAreDicts
      <4>2. CASE ~built
        <5>1. dict \in Seq(Entries)
          BY <4>2 DEF LoadInv, ParserInv, ParserTypeOK
        <5>2. dict[next] \in Entries
          BY <3>1, <5>1
        <5> QED BY <3>1, <5>2, EntriesCanBeRegistered
      <4> QED BY <4>1, <4>2
    <3>3. ValueType(dict[next].kind) \in Kinds
      BY <3>1, KindsAreTheRuntimes
    <3>4. DefOf(dict[next]) \in Defs
      BY <3>2, <3>3 DEF DefOf, Defs
    <3> QED BY <3>1, <3>4 DEF DictNext
  <2>2. CASE OtherCalls
    BY <2>2 DEF OtherCalls, DictNext
  <2>3. CASE Parse \/ StartLoad \/ SkipEntry \/ RegisterFails \/ LoadReturns
    BY <2>3 DEF Parse, StartLoad, SkipEntry, RegisterFails, LoadReturns
  <2>4. CASE UNCHANGED loadVars
    BY <2>4 DEF loadVars
  <2> QED BY <2>1, <2>2, <2>3, <2>4 DEF LoadNext
<1> QED BY <1>1, <1>2, LoadInvariance, PTL DEF LoadSpec, DictSpec

\* The two maps agree and the last write wins, then, after every step of a
\* loading that other goroutines interrupt, and of one that fails half way.
THEOREM LoadedDictionaryIsRight == LoadSpec => [](IndexesAgree /\ LastWriteWins)
BY LoadImplementsDictionary, DictIndexesAgree, DictLastWriteWins, PTL

\* Position k of the log was registered from attribute f[k] of the Dict.
LogFollows(f) ==
    /\ f \in [1..Len(log) -> 1..(next - 1)]
    /\ \A k \in 1..Len(log) : dict[f[k]].is = "ATTRIBUTE" /\ log[k] = DefOf(dict[f[k]])
    /\ \A k, l \in 1..Len(log) : k < l => f[k] < f[l]
    /\ \A i \in 1..(next - 1) : dict[i].is = "ATTRIBUTE" => \E k \in 1..Len(log) : f[k] = i

\* As long as nobody else calls, the log is what has been passed of the Dict,
\* less its values and vendors.
LogInv ==
    /\ calls \in Nat
    /\ load = "waiting" => next = 1
    /\ calls = 0 => \E f : LogFollows(f)

\* At the start nothing is passed and nothing registered.
LEMMA LoadInitLogInv == LoadInit => LogInv
<1> SUFFICES ASSUME LoadInit PROVE LogInv
  OBVIOUS
<1>1. log = <<>> /\ next = 1 /\ calls = 0
  BY DEF LoadInit, DictInit
<1>2. Len(log) = 0 /\ 1..Len(log) = {} /\ 1..(next - 1) = {}
  BY <1>1
<1>3. LogFollows([k \in 1..Len(log) |-> k])
  BY <1>2 DEF LogFollows
<1> QED BY <1>1, <1>3 DEF LogInv

\* The attribute at hand becomes the log's last position.
LEMMA LogFollowsAttribute ==
    ASSUME DictIInv, LoadInv, RegisterAttribute, NEW f, LogFollows(f)
    PROVE  \E g : LogFollows(g)'
<1> DEFINE n == Len(log)
<1>0. PICK g : g = [k \in 1..(n + 1) |-> IF k = n + 1 THEN next ELSE f[k]]
  OBVIOUS
<1>1. n \in Nat /\ next \in Nat \ {0}
  BY DEF DictIInv, DictTypeOK, LoadInv
<1>2. /\ dict[next].is = "ATTRIBUTE" /\ next' = next + 1 /\ dict' = dict
      /\ log' = Append(log, DefOf(dict[next]))
  BY DEF RegisterAttribute, Loading, Register, parserVars
<1>3. Len(log') = n + 1 /\ log'[n + 1] = DefOf(dict[next])
  BY <1>2 DEF DictIInv, DictTypeOK
<1>4. \A k \in 1..n : log'[k] = log[k]
  BY <1>2 DEF DictIInv, DictTypeOK
<1>5. f \in [1..n -> 1..(next - 1)]
  BY DEF LogFollows
<1> HIDE DEF n
<1>6. next' - 1 = next /\ 1..next = 1..(next - 1) \cup {next} /\ 1..(n + 1) = 1..n \cup {n + 1}
  BY <1>1, <1>2
<1>7. \A k \in 1..n : g[k] = f[k] /\ g[k] \in 1..(next - 1)
  BY <1>0, <1>1, <1>5
<1>8. g[n + 1] = next
  BY <1>0, <1>1
<1>9. g \in [1..(n + 1) -> 1..next]
  <2>1. g = [k \in 1..(n + 1) |-> g[k]]
    BY <1>0
  <2>2. \A k \in 1..(n + 1) : g[k] \in 1..next
    BY <1>1, <1>6, <1>7, <1>8
  <2> QED BY Zenon, <2>1, <2>2
<1>10. \A k \in 1..(n + 1) : dict[g[k]].is = "ATTRIBUTE" /\ log'[k] = DefOf(dict[g[k]])
  <2>1. \A k \in 1..n : dict[f[k]].is = "ATTRIBUTE" /\ log[k] = DefOf(dict[f[k]])
    BY DEF LogFollows, n
  <2>2. \A k \in 1..n : dict[g[k]].is = "ATTRIBUTE" /\ log'[k] = DefOf(dict[g[k]])
    BY Zenon, <1>4, <1>7, <2>1
  <2>3. dict[g[n + 1]].is = "ATTRIBUTE" /\ log'[n + 1] = DefOf(dict[g[n + 1]])
    BY Zenon, <1>2, <1>3, <1>8
  <2> QED BY <1>6, <2>2, <2>3
<1>11. \A k, l \in 1..(n + 1) : k < l => g[k] < g[l]
  <2> SUFFICES ASSUME NEW k \in 1..(n + 1), NEW l \in 1..(n + 1), k < l PROVE g[k] < g[l]
    OBVIOUS
  <2>1. k \in 1..n /\ (l \in 1..n \/ l = n + 1)
    BY <1>1
  <2>2. CASE l \in 1..n
    <3>1. f[k] < f[l]
      BY <2>1, <2>2 DEF LogFollows, n
    <3> QED BY <1>7, <2>1, <2>2, <3>1
  <2>3. CASE l = n + 1
    BY <1>1, <1>7, <1>8, <2>1, <2>3
  <2> QED BY <2>1, <2>2, <2>3
<1>12. \A i \in 1..next : dict[i].is = "ATTRIBUTE" => \E k \in 1..(n + 1) : g[k] = i
  <2> SUFFICES ASSUME NEW i \in 1..next, dict[i].is = "ATTRIBUTE"
               PROVE  \E k \in 1..(n + 1) : g[k] = i
    OBVIOUS
  <2>1. CASE i = next
    BY <1>1, <1>8, <2>1
  <2>2. CASE i \in 1..(next - 1)
    <3>1. PICK k \in 1..n : f[k] = i
      BY <2>2 DEF LogFollows, n
    <3> QED BY <1>6, <1>7, <3>1
  <2> QED BY <1>6, <2>1, <2>2
<1>13. LogFollows(g)'
  <2>1. 1..Len(log') = 1..(n + 1) /\ 1..(next' - 1) = 1..next /\ dict' = dict
    BY <1>2, <1>3, <1>6
  <2>2. \A k \in 1..(n + 1) : DefOf(dict[g[k]])' = DefOf(dict[g[k]])
    BY <2>1 DEF DefOf
  <2> QED BY Zenon, <1>9, <1>10, <1>11, <1>12, <2>1, <2>2 DEF LogFollows
<1> QED BY <1>13

\* Every step of the loading keeps the log in line with the Dict, or is a
\* call of another goroutine.
LEMMA LoadNextKeepsLogInv ==
    LoadInv /\ DictIInv /\ LogInv /\ [LoadNext]_loadVars => LogInv'
<1> SUFFICES ASSUME LoadInv, DictIInv, LogInv, [LoadNext]_loadVars PROVE LogInv'
  OBVIOUS
<1>1. ASSUME UNCHANGED <<log, dict, next, calls>>, load' = "waiting" => load = "waiting"
      PROVE  LogInv'
  BY <1>1 DEF LogInv, LogFollows
<1>2. CASE Parse
  <2>1. load = "waiting"
    <3>1. outcome = "parsing"
      BY <1>2 DEF Parse, ParserNext, OpenPath, Include, Attribute, ValueOrVendor, BeginVendor,
                  EndVendor, Ignored, Malformed, EndOfFile, ParseReturns, AtLine
    <3> QED BY <3>1 DEF LoadInv
  <2>2. next = 1 /\ UNCHANGED <<log, next, load, calls>>
    BY <1>2, <2>1 DEF LogInv, Parse, dictVars
  <2>3. ASSUME NEW f, LogFollows(f) PROVE LogFollows(f)'
    <3>1. 1..(next - 1) = {}
      BY <2>2
    <3>2. 1..Len(log) = {}
      BY <2>3, <3>1 DEF LogFollows
    <3> QED BY <2>2, <2>3, <3>1, <3>2 DEF LogFollows
  <2> QED BY <2>2, <2>3 DEF LogInv
<1>3. CASE StartLoad \/ RegisterFails \/ LoadReturns
  BY <1>1, <1>3 DEF StartLoad, RegisterFails, LoadReturns, dictVars, parserVars
<1>4. CASE UNCHANGED loadVars
  BY <1>1, <1>4 DEF loadVars, dictVars, parserVars
<1>5. CASE SkipEntry
  <2>1. /\ load = "loading" /\ dict[next].is # "ATTRIBUTE" /\ next' = next + 1
        /\ UNCHANGED <<log, dict, load, calls>> /\ next \in Nat \ {0}
    BY <1>5 DEF SkipEntry, Loading, dictVars, parserVars, LoadInv
  <2>2. 1..(next' - 1) = 1..(next - 1) \cup {next}
    BY <2>1
  <2>3. ASSUME NEW f, LogFollows(f) PROVE LogFollows(f)'
    BY <2>1, <2>2, <2>3 DEF LogFollows
  <2> QED BY <2>1, <2>3 DEF LogInv
<1>6. CASE RegisterAttribute
  <2>1. load' = "loading" /\ calls' = calls
    BY <1>6 DEF RegisterAttribute, Loading
  <2>2. ASSUME calls = 0 PROVE \E f : LogFollows(f)'
    <3>1. PICK f : LogFollows(f)
      BY <2>2 DEF LogInv
    <3> QED BY <1>6, <3>1, LogFollowsAttribute
  <2> QED BY <2>1, <2>2 DEF LogInv
<1>7. CASE OtherCalls
  BY <1>7 DEF OtherCalls, LogInv
<1> QED BY <1>2, <1>3, <1>4, <1>5, <1>6, <1>7 DEF LoadNext

\* Attribute f[k] stands exactly when its registration survives.
LEMMA StandsIsSurvives ==
    ASSUME DictTypeOK, next \in Nat \ {0}, NEW f, LogFollows(f), NEW k \in 1..Len(log)
    PROVE  /\ f[k] \in 1..(next - 1)
           /\ dict[f[k]].type = log[k].type /\ dict[f[k]].name = log[k].name
           /\ Stands(f[k]) <=> Survives(k)
<1> DEFINE n == Len(log)
<1>1. n \in Nat
  BY DEF DictTypeOK
<1>2. /\ f \in [1..n -> 1..(next - 1)]
      /\ \A l \in 1..n : dict[f[l]].is = "ATTRIBUTE" /\ log[l] = DefOf(dict[f[l]])
      /\ \A l, m \in 1..n : l < m => f[l] < f[m]
      /\ \A i \in 1..(next - 1) : dict[i].is = "ATTRIBUTE" => \E l \in 1..n : f[l] = i
  BY DEF LogFollows
<1> HIDE DEF n
<1>3. \A l \in 1..n : dict[f[l]].type = log[l].type /\ dict[f[l]].name = log[l].name
  <2>1. \A attr : DefOf(attr).type = attr.type /\ DefOf(attr).name = attr.name
    BY DEF DefOf
  <2> QED BY Zenon, <1>2, <2>1
<1>4. k \in 1..n /\ f[k] \in 1..(next - 1)
  BY <1>2 DEF n
<1>5. ASSUME Stands(f[k]) PROVE Survives(k)
  <2> SUFFICES ASSUME NEW j \in (k + 1)..Len(log)
               PROVE  log[j].type # log[k].type /\ log[j].name # log[k].name
    BY DEF Survives
  <2>1. j \in 1..n /\ k < j
    BY <1>1, <1>4 DEF n
  <2>2. f[k] < f[j] /\ f[j] \in 1..(next - 1) /\ dict[f[j]].is = "ATTRIBUTE"
    BY <1>2, <1>4, <2>1
  <2>3. f[j] \in (f[k] + 1)..(next - 1)
    BY <1>4, <2>2
  <2>4. dict[f[j]].type # dict[f[k]].type /\ dict[f[j]].name # dict[f[k]].name
    BY <1>5, <2>2, <2>3 DEF Stands
  <2> QED BY <1>3, <1>4, <2>1, <2>4
<1>6. ASSUME Survives(k) PROVE Stands(f[k])
  <2>1. dict[f[k]].is = "ATTRIBUTE"
    BY <1>2, <1>4
  <2> SUFFICES ASSUME NEW i \in (f[k] + 1)..(next - 1), dict[i].is = "ATTRIBUTE"
               PROVE  dict[i].type # dict[f[k]].type /\ dict[i].name # dict[f[k]].name
    BY <2>1 DEF Stands
  <2>2. i \in 1..(next - 1) /\ f[k] < i
    BY <1>4
  <2>3. PICK l \in 1..n : f[l] = i
    BY <1>2, <2>2
  <2>4. k < l
    <3> SUFFICES ASSUME ~(k < l) PROVE FALSE
      OBVIOUS
    <3>1. l = k \/ l < k
      BY <1>1, <1>4, <2>3
    <3>2. f[l] = f[k] \/ f[l] < f[k]
      BY <1>2, <1>4, <2>3, <3>1
    <3> QED BY <1>4, <2>2, <2>3, <3>2
  <2>5. l \in (k + 1)..Len(log)
    BY <1>1, <1>4, <2>3, <2>4 DEF n
  <2>6. log[l].type # log[k].type /\ log[l].name # log[k].name
    BY <1>6, <2>5 DEF Survives
  <2> QED BY <1>3, <1>4, <2>3, <2>6
<1> QED BY <1>3, <1>4, <1>5, <1>6

\* What the maps hold is, entry by entry, what stands of the Dict.
LEMMA LogInvHolds ==
    ASSUME LoadInv, DictIInv, IndexesAgree, LastWriteWins, LogInv
    PROVE  HoldsWhatTheDictSays
<1> SUFFICES ASSUME calls = 0 PROVE HoldsWhatTheDictSays
  BY DEF HoldsWhatTheDictSays
<1>1. PICK f : LogFollows(f)
  BY DEF LogInv
<1>2. DictTypeOK /\ next \in Nat \ {0}
  BY DEF DictIInv, LoadInv
<1>3. \A k \in 1..Len(log) :
         /\ f[k] \in 1..(next - 1)
         /\ dict[f[k]].type = log[k].type /\ dict[f[k]].name = log[k].name
         /\ Stands(f[k]) <=> Survives(k)
  BY <1>1, <1>2, StandsIsSurvives
<1>4. \A k \in 1..Len(log) : k # Nil
  BY DEF Nil
<1>5. \A t \in Types : byType[t] # Nil => byType[t] \in 1..Len(log)
  BY <1>2 DEF DictTypeOK, Nil
<1>6. \A m \in Names : byName[m] # Nil => byName[m] \in 1..Len(log)
  BY <1>2 DEF DictTypeOK, Nil
<1>7. ASSUME NEW i \in 1..(next - 1), Stands(i)
      PROVE  /\ byType[dict[i].type] # Nil
             /\ byName[dict[i].name] = byType[dict[i].type]
             /\ log[byType[dict[i].type]] = DefOf(dict[i])
  <2>1. PICK k \in 1..Len(log) : f[k] = i
    BY <1>1, <1>7 DEF LogFollows, Stands
  <2>2. Survives(k) /\ dict[i].type = log[k].type /\ dict[i].name = log[k].name
    BY <1>3, <1>7, <2>1
  <2>3. byType[log[k].type] = k /\ byName[log[k].name] = k
    BY <2>1, <2>2 DEF LastWriteWins
  <2>4. log[k] = DefOf(dict[i])
    BY <1>1, <2>1 DEF LogFollows
  <2> QED BY <1>4, <2>1, <2>2, <2>3, <2>4
<1>8. ASSUME NEW t \in Types, byType[t] # Nil
      PROVE  \E i \in 1..(next - 1) : Stands(i) /\ dict[i].type = t
  <2>1. byType[t] \in 1..Len(log) /\ log[byType[t]].type = t
    BY <1>5, <1>8 DEF IndexesAgree
  <2>2. Survives(byType[t])
    BY <2>1 DEF LastWriteWins
  <2> QED BY <1>3, <2>1, <2>2
<1>9. ASSUME NEW m \in Names, byName[m] # Nil
      PROVE  \E i \in 1..(next - 1) : Stands(i) /\ dict[i].name = m
  <2>1. byName[m] \in 1..Len(log) /\ log[byName[m]].name = m
    BY <1>6, <1>9 DEF IndexesAgree
  <2>2. Survives(byName[m])
    BY <2>1 DEF LastWriteWins
  <2> QED BY <1>3, <2>1, <2>2
<1> QED BY <1>7, <1>8, <1>9 DEF HoldsWhatTheDictSays

\* A dictionary that nobody else touches holds, at every step of the loading
\* and wherever it returns, exactly the attributes of the Dict that no later
\* attribute has displaced: for a Dict of any length, parsed or built.
THEOREM LoadedDictionaryIsTheDict == LoadSpec => []HoldsWhatTheDictSays
<1>1. LoadSpec => []DictIInv
  BY LoadImplementsDictionary, DictInvariance, PTL
<1>2. LoadSpec => []LogInv
  BY <1>1, LoadInvariance, LoadInitLogInv, LoadNextKeepsLogInv, PTL DEF LoadSpec
<1>3. LoadInv /\ DictIInv /\ IndexesAgree /\ LastWriteWins /\ LogInv => HoldsWhatTheDictSays
  BY LogInvHolds
<1> QED BY <1>1, <1>2, <1>3, LoadInvariance, LoadedDictionaryIsRight, PTL
=============================================================================
