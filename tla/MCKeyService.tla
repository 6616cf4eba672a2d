---------------------------- MODULE MCKeyService ----------------------------
(* Small instances of the key service.  Two clients and two workers are enough *)
(* for every race of two requests; the commands and requests per client are    *)
(* chosen per run.                                                             *)
EXTENDS KeyService, TLC

CONSTANTS c1, c2, w1, w2

MCClients == {c1, c2}
MCWorkers == {w1, w2}
OneWorker == {w1}

\* Menu: what each client's user asks for.
OneConsults == (c1 :> {"consult", "check", "cancel"}) @@ (c2 :> {"consult"})
ConsultOnly == [c \in MCClients |-> {"consult"}]

\* MaxConns: requests of c1 and of c2.
Once        == [c \in MCClients |-> 1]
TwiceOnce   == (c1 :> 2) @@ (c2 :> 1)
Thrice      == (c1 :> 3) @@ (c2 :> 0)

\* Mishaps.
Nothing     == {}
AllMishaps  == {"damage", "loss", "restart"}

WorkerSym   == Permutations(MCWorkers)
=============================================================================
