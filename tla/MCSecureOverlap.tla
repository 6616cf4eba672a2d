-------------------------- MODULE MCSecureOverlap --------------------------
(***************************************************************************)
(* A third negotiation, so that two Consults can overlap, under one number *)
(* too, while a client has a key to lose.                                  *)
(***************************************************************************)
EXTENDS MCSecureData

Keys3 == Keys2 \o <<Listed(16, LAMBDA i : 50)>>

\* Texts of every length up to two blocks and a byte, the empty one first, come back whole.
ASSUME TextsRoundTrip ==
    \A n \in 0..33 : DecryptionAES(EncryptionAES(Text(n), Keys2[1]), Keys2[1]) = Text(n)
=============================================================================
