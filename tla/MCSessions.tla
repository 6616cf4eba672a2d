----------------------------- MODULE MCSessions -----------------------------
(* Bounds: two descriptors, the second of them the number of EMFILE, so that *)
(* they are reused and run out; two workers; three connections.              *)
EXTENDS Sessions, TLC

CONSTANTS c1, c2, c3, w1, w2

MCConns   == {c1, c2, c3}
MCWorkers == {w1, w2}
MCFDs     == {23, 24}

AllOutcomes == {"answer", "drop", "refuse"}
AnswerOrRefuse == {"answer", "refuse"}
AllMishaps  == {"fragment", "hangup", "sendfails"}
NoMishaps   == {}

Sym == Permutations(MCConns) \cup Permutations(MCWorkers)
=============================================================================
