-------------------------- MODULE MCDictionaryLoad --------------------------
(* Every disk with three small files, the first of which is read alone or  *)
(* followed by the second.                                                 *)
EXTENDS DictionaryLoad, TLC

CONSTANTS f1, f2, f3, a, b, acme

Attr(type, name, token) ==
    [is |-> "ATTRIBUTE", type |-> type, name |-> name, token |-> token]
Inc(f) == [is |-> "$INCLUDE", path |-> f]
Begin == [is |-> "BEGIN-VENDOR", vendor |-> acme]
Mark(is) == [is |-> is]

Lines1 == {Attr(1, a, "text"), Inc(f1), Inc(f2), Inc(f3), Begin,
           Mark("END-VENDOR"), Mark("VALUE"), Mark("other"), Mark("malformed")}
Lines2 == {Attr(2, a, "ifid"), Inc(f1), Inc(f3), Begin, Mark("END-VENDOR")}
Lines3 == {Attr(1, b, "abinary"), Inc(f1), Mark("malformed")}

MCLines == Lines1 \cup Lines2 \cup Lines3

MCDisks ==
    {(f1 :> x) @@ (f2 :> y) @@ (f3 :> z) :
        x \in {<<l, m>> : l, m \in Lines1}, y \in {<<l, m>> : l, m \in Lines2},
        z \in {<<l>> : l \in Lines3} \cup {Missing}}

MCCalls == {<<f1>>, <<f1, f2>>}

Entry(type, name, kind) ==
    [is |-> "ATTRIBUTE", type |-> type, name |-> name, kind |-> kind, vendor |-> NoVendor]

MCBuilt ==
    {<<Entry(1, a, "string"), Entry(2, a, ""), Entry(2, NoName, "raw")>>,
     <<Entry(1, a, "string"), Entry(1, b, "date"), Entry(2, b, "raw")>>}
=============================================================================
