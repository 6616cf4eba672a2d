----------------------------- MODULE MCExchange -----------------------------
(* One exchange.  Every array is told from every other by its letters, and the *)
(* requests and answers are chosen by the length of what they encode to:       *)
(* strings up to the whole width of their arrays, frames with a short and with *)
(* a long length field, key numbers at every boundary of IntToChar.            *)
EXTENDS Exchange

\* A string of n letters from x on, in an array of width w.
Letters(x, n, w) == [i \in 1..w |-> IF i <= n THEN x + (i % 7) ELSE 0]

Id(n)      == Letters(97, n, 12)
Code(n)    == Letters(48, n, 65)
Random(n)  == Letters(65, n, 64)

RequestOf(cmd, id, auth, r1) ==
    [cmdType |-> cmd, clientId |-> Id(id), authCode |-> Code(auth),
     serverId |-> Letters(105, 5, 12), r1 |-> Random(r1)]

\* A consult with names as long as their arrays, a check, a cancellation.
MCRequests == {RequestOf(0, 11, 64, 63), RequestOf(1, 3, 64, 5), RequestOf(2, 11, 5, 3)}
MCServerId == Letters(105, 5, 12)
MCR2s      == {Random(63)}

\* -1: the database did not answer.
MCNumbers  == {-1, 0, 127, 128, 255, 256, 32767, 32768, 65535, 65536, 8388608, 2147483647}

\* Inside the head of the frame, behind it, and inside the message.
MCCuts     == {3, 4, 100}
=============================================================================
