------------------------------ MODULE Delivery ------------------------------
(***************************************************************************)
(* What one connection promises: the server's handler hears the request    *)
(* the client asked, or nothing; the client is told the answer the handler *)
(* gave to it, or nothing.                                                 *)
(***************************************************************************)
CONSTANTS
    Requests,   \* what the client may ask
    Answers,    \* Answers[q]: what the handler may answer to q
    NoMsg       \* nothing yet

VARIABLES asked, heard, answered, told

vars == <<asked, heard, answered, told>>

Init == asked = NoMsg /\ heard = NoMsg /\ answered = NoMsg /\ told = NoMsg

Ask == /\ asked = NoMsg /\ asked' \in Requests
       /\ UNCHANGED <<heard, answered, told>>

Hear == /\ asked # NoMsg /\ heard = NoMsg /\ heard' = asked
        /\ UNCHANGED <<asked, answered, told>>

Reply == /\ heard # NoMsg /\ answered = NoMsg
         /\ answered' \in Answers[heard]
         /\ UNCHANGED <<asked, heard, told>>

Tell == /\ answered # NoMsg /\ told = NoMsg /\ told' = answered
        /\ UNCHANGED <<asked, heard, answered>>

Next == Ask \/ Hear \/ Reply \/ Tell

Spec == Init /\ [][Next]_vars
=============================================================================
