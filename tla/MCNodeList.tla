----------------------------- MODULE MCNodeList -----------------------------
(***************************************************************************)
(* Two administrators and two numbers: one to create, rename to or delete  *)
(* while the other still shows it.                                         *)
(***************************************************************************)
EXTENDS NodeList, TLC

Symmetry == Permutations(Admins) \union Permutations(Numbers) \union Permutations(Names)
=============================================================================
