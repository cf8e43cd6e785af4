--------------------------- MODULE MCDeduplicator ---------------------------
(* Requests of one client: all share an Identifier but the last.  Callers  *)
(* of one key are interchangeable.                                         *)
EXTENDS Deduplicator, TLC

CONSTANTS other, client, Same

MCCallers == Same \cup {other}
MCAddrOf == [c \in MCCallers |-> client]
MCIdOf == [c \in MCCallers |-> IF c = other THEN 2 ELSE 1]
MCSymmetry == Permutations(Same)
=============================================================================
