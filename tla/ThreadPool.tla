----------------------------- MODULE ThreadPool -----------------------------
(***************************************************************************)
(* threadpool.h: the reactor (main's epoll loop) appends requests to a     *)
(* list, worker threads sleep on a condition variable and take them, and   *)
(* one mutex guards the list -- until the list is full.  Every step is one *)
(* operation on the mutex, the condition variable or the list.             *)
(*                                                                         *)
(* The mutex is a default pthread mutex: unlocking one that another thread *)
(* holds, or that nobody holds, leaves it free.  m_stop is never set while *)
(* main runs, and the busy and idle counters are only printed: both are    *)
(* left out.  A request is a connection handed over once; that a session   *)
(* object may be handed over again is the subject of module Sessions.      *)
(***************************************************************************)
EXTENDS Integers, Sequences, FiniteSets

CONSTANTS Workers,    \* the m_thread_number threads
          Requests,   \* bound: what the reactor appends, each once
          MaxQueue,   \* m_queue_number
          Reactor,    \* main's thread
          NoOne       \* nobody holds the mutex; no request

ASSUME WorkersAssumption == IsFiniteSet(Workers) /\ Reactor \notin Workers
ASSUME MaxQueueAssumption == MaxQueue \in Nat
ASSUME NoOneAssumption == NoOne \notin Workers \cup {Reactor} /\ NoOne \notin Requests

VARIABLES lock,      \* m_queuelock: the thread that holds it, or NoOne
          queue,     \* m_workqueue
          rpc,       \* the reactor's next step in append
          item,      \* append's argument
          todo,      \* requests not appended yet
          pc,        \* each worker's next step in run; "asleep" in the condition variable
          got,       \* the request a worker took off the list
          done,      \* requests processed
          overrun    \* history: append has found the list full

vars == <<lock, queue, rpc, item, todo, pc, got, done, overrun>>

Init == /\ lock = NoOne
        /\ queue = <<>>
        /\ rpc = "idle" /\ item = NoOne /\ todo = Requests
        /\ pc = [w \in Workers |-> "lock"]
        /\ got = [w \in Workers |-> NoOne]
        /\ done = {}
        /\ overrun = FALSE
-----------------------------------------------------------------------------
(* append, called by the reactor. *)

AppendCall(r) == /\ rpc = "idle" /\ r \in todo
                 /\ rpc' = "lock"
                 /\ item' = r
                 /\ todo' = todo \ {r}
                 /\ UNCHANGED <<lock, queue, pc, got, done, overrun>>

LockAppend == /\ rpc = "lock" /\ lock = NoOne
              /\ lock' = Reactor
              /\ rpc' = "size"
              /\ UNCHANGED <<queue, item, todo, pc, got, done, overrun>>

SizeCheck == /\ rpc = "size"
             /\ rpc' = IF Len(queue) >= MaxQueue THEN "full" ELSE "push"
             /\ UNCHANGED <<lock, queue, item, todo, pc, got, done, overrun>>

\* A full list: the mutex is released, and the request pushed all the same.
UnlockFull == /\ rpc = "full"
              /\ lock' = NoOne
              /\ rpc' = "push"
              /\ overrun' = TRUE
              /\ UNCHANGED <<queue, item, todo, pc, got, done>>

\* Mutant: the argument is given away before append is done with it.
PushAndForget == /\ rpc = "push"
                 /\ queue' = Append(queue, item)
                 /\ item' = NoOne
                 /\ rpc' = "signal"
                 /\ UNCHANGED <<lock, todo, pc, got, done, overrun>>

Push == /\ rpc = "push"
        /\ queue' = Append(queue, item)
        /\ rpc' = "signal"
        /\ UNCHANGED <<lock, item, todo, pc, got, done, overrun>>

Asleep == {w \in Workers : pc[w] = "asleep"}

\* Mutant: the condition is signalled only when the list was empty.
SignalFirst == /\ rpc = "signal"
               /\ \/ \E w \in Asleep : Len(queue) = 1 /\ pc' = [pc EXCEPT ![w] = "lock"]
                  \/ (Asleep = {} \/ Len(queue) # 1) /\ UNCHANGED pc
               /\ rpc' = "unlock"
               /\ UNCHANGED <<lock, queue, item, todo, got, done, overrun>>

\* Mutant: nobody is woken.
SignalNobody == /\ rpc = "signal"
                /\ rpc' = "unlock"
                /\ UNCHANGED <<lock, queue, item, todo, pc, got, done, overrun>>

Signal == /\ rpc = "signal"
          /\ \/ \E w \in Asleep : pc' = [pc EXCEPT ![w] = "lock"]
             \/ Asleep = {} /\ UNCHANGED pc
          /\ rpc' = "unlock"
          /\ UNCHANGED <<lock, queue, item, todo, got, done, overrun>>

UnlockAppend == /\ rpc = "unlock"
                /\ lock' = NoOne
                /\ rpc' = "idle"
                /\ item' = NoOne
                /\ UNCHANGED <<queue, todo, pc, got, done, overrun>>
-----------------------------------------------------------------------------
(* run, in every worker. *)

\* lock(), or the end of wait(), which takes the mutex again before it returns.
LockRun(w) == /\ pc[w] = "lock" /\ lock = NoOne
              /\ lock' = w
              /\ pc' = [pc EXCEPT ![w] = "test"]
              /\ UNCHANGED <<queue, rpc, item, todo, got, done, overrun>>

\* Mutant: the mutex is released as soon as the list was seen not to be empty.
TestAndUnlock(w) ==
    /\ pc[w] = "test"
    /\ lock' = NoOne
    /\ pc' = [pc EXCEPT ![w] = IF queue = <<>> THEN "asleep" ELSE "take"]
    /\ UNCHANGED <<queue, rpc, item, todo, got, done, overrun>>

\* while(empty()) wait(): falling asleep and releasing the mutex are one step.
Test(w) ==
    /\ pc[w] = "test"
    /\ \/ /\ queue = <<>>
          /\ lock' = NoOne
          /\ pc' = [pc EXCEPT ![w] = "asleep"]
       \/ /\ queue # <<>>
          /\ pc' = [pc EXCEPT ![w] = "take"]
          /\ UNCHANGED lock
    /\ UNCHANGED <<queue, rpc, item, todo, got, done, overrun>>

\* A wakeup nobody signalled, which pthread_cond_wait may have.
WakeUp(w) == /\ pc[w] = "asleep"
             /\ pc' = [pc EXCEPT ![w] = "lock"]
             /\ UNCHANGED <<lock, queue, rpc, item, todo, got, done, overrun>>

\* front and pop_front.  On an empty list, which only an overrun leads to, they
\* are undefined, and the model stops there.
Take(w) == /\ pc[w] = "take" /\ queue # <<>>
           /\ got' = [got EXCEPT ![w] = Head(queue)]
           /\ queue' = Tail(queue)
           /\ pc' = [pc EXCEPT ![w] = "unlock"]
           /\ UNCHANGED <<lock, rpc, item, todo, done, overrun>>

UnlockRun(w) == /\ pc[w] = "unlock"
                /\ lock' = NoOne
                /\ pc' = [pc EXCEPT ![w] = "process"]
                /\ UNCHANGED <<queue, rpc, item, todo, got, done, overrun>>

Process(w) == /\ pc[w] = "process"
              /\ done' = done \cup {got[w]}
              /\ got' = [got EXCEPT ![w] = NoOne]
              /\ pc' = [pc EXCEPT ![w] = "lock"]
              /\ UNCHANGED <<lock, queue, rpc, item, todo, overrun>>

ReactorStep == LockAppend \/ SizeCheck \/ UnlockFull \/ Push \/ Signal \/ UnlockAppend
WorkerStep(w) == LockRun(w) \/ Test(w) \/ Take(w) \/ UnlockRun(w) \/ Process(w)

Next == \/ \E r \in Requests : AppendCall(r)
        \/ ReactorStep
        \/ \E w \in Workers : WorkerStep(w) \/ WakeUp(w)

Spec == Init /\ [][Next]_vars

\* Threads keep running; new requests and unsolicited wakeups owe nothing.
Fairness == WF_vars(ReactorStep) /\ \A w \in Workers : WF_vars(WorkerStep(w))
FairSpec == Spec /\ Fairness
-----------------------------------------------------------------------------
(* Properties. *)

\* Type invariant.
TypeOK == /\ lock \in Workers \cup {Reactor, NoOne}
          /\ queue \in Seq(Requests)
          /\ rpc \in {"idle", "lock", "size", "full", "push", "signal", "unlock"}
          /\ item \in Requests \cup {NoOne}
          /\ rpc # "idle" => item \in Requests
          /\ todo \subseteq Requests
          /\ pc \in [Workers -> {"lock", "test", "asleep", "take", "unlock", "process"}]
          /\ got \in [Workers -> Requests \cup {NoOne}]
          /\ done \subseteq Requests \cup {NoOne}
          /\ overrun \in BOOLEAN

\* Threads inside empty(), front(), pop_front(), size() or push_back().
OnList == {w \in Workers : pc[w] \in {"test", "take"}}
          \cup (IF rpc \in {"size", "push"} THEN {Reactor} ELSE {})

\* m_queuelock protects the list (threadpool.h:21): two threads are never in it.
ListLocked == \A s, t \in OnList : s = t

\* As long as append has not found the list full, the list is protected, through
\* every wait, wakeup and relock (run and append).
ListLockedBelowCapacity == ~overrun => ListLocked

\* While a worker sleeps, as many others are on their way to the list as requests
\* wait in it, but for the one append is about to signal: no wakeup is lost, and no
\* request waits behind a sleeping thread.
Coming == {w \in Workers : pc[w] \in {"lock", "test", "take"}}
NoLostWakeup ==
    ~overrun /\ Asleep # {} =>
        Len(queue) <= Cardinality(Coming) + (IF rpc = "signal" THEN 1 ELSE 0)

\* Every request on the list is processed in the end.
InQueue(r) == \E i \in DOMAIN queue : queue[i] = r
EveryRequestServed == \A r \in Requests : InQueue(r) ~> (r \in done \/ overrun)
=============================================================================
