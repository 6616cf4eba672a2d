---------------------------- MODULE MCThreadPool ----------------------------
(* Bounds: three workers, so that two can race for the list while one sleeps; *)
(* one request more than the list may hold, so that append finds it full.     *)
EXTENDS ThreadPool

CONSTANTS w1, w2, w3

MCWorkers  == {w1, w2, w3}
MCRequests == 1..4
MCMaxQueue == 3
=============================================================================
