---------------------------- MODULE MCKeySegment ----------------------------
(* Bounds: two programs, one owner more than the table has slots (so that it *)
(* fills up and refuses), two keys and one key number.                       *)
EXTENDS KeySegment, TLC

CONSTANTS p1, p2, a, b, c, k1, k2

MCProcs   == {p1, p2}
MCOwners  == {a, b, c}
MCSecKeys == {k1, k2}
MCKeyIDs  == {1}
MCMaxNode == 2

Sym == Permutations(MCProcs) \cup Permutations(MCOwners) \cup Permutations(MCSecKeys)

=============================================================================
