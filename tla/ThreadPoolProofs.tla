-------------------------- MODULE ThreadPoolProofs --------------------------
(***************************************************************************)
(* The theorems about the thread pool, for every number of threads and     *)
(* requests and every capacity of the list.                                *)
(***************************************************************************)
EXTENDS ThreadPool, FiniteSetTheorems, TLAPS

(* Who is between lock and unlock holds the mutex, until an overrun.           *)
HoldersInv ==
    ~overrun => /\ \A w \in Workers : pc[w] \in {"test", "take", "unlock"} => lock = w
                /\ rpc \in {"size", "full", "push", "signal", "unlock"} => lock = Reactor

PoolInv == TypeOK /\ HoldersInv

(* The inductive invariant of the pool: types, and who holds the mutex.        *)
THEOREM PoolInvariant == Spec => []PoolInv
<1>1. Init => PoolInv
  <2> SUFFICES ASSUME Init PROVE PoolInv
    OBVIOUS
  <2>1. queue \in Seq(Requests) /\ got \in [Workers -> Requests \cup {NoOne}]
    BY DEF Init
  <2>2. TypeOK
    BY <2>1 DEF Init, TypeOK
  <2>3. HoldersInv
    BY DEF Init, HoldersInv
  <2>4. QED
    BY <2>2, <2>3 DEF PoolInv
<1>2. PoolInv /\ [Next]_vars => PoolInv'
  <2> SUFFICES ASSUME PoolInv, [Next]_vars PROVE PoolInv'
    OBVIOUS
  <2> USE WorkersAssumption, NoOneAssumption DEF PoolInv, HoldersInv
  <2>1. ASSUME NEW r \in Requests, AppendCall(r) PROVE PoolInv'
    BY <2>1 DEF AppendCall, TypeOK
  <2>2. CASE LockAppend
    BY <2>2 DEF LockAppend, TypeOK
  <2>3. CASE SizeCheck
    BY <2>3 DEF SizeCheck, TypeOK
  <2>4. CASE UnlockFull
    BY <2>4 DEF UnlockFull, TypeOK
  <2>5. CASE Push
    <3>1. queue' \in Seq(Requests)
      BY <2>5 DEF Push, TypeOK
    <3>2. QED
      BY <2>5, <3>1 DEF Push, TypeOK
  <2>6. CASE Signal
    <3>1. CASE Asleep = {} /\ UNCHANGED pc
      BY <2>6, <3>1 DEF Signal, TypeOK
    <3>2. ASSUME NEW w \in Asleep, pc' = [pc EXCEPT ![w] = "lock"] PROVE PoolInv'
      BY <2>6, <3>2 DEF Signal, TypeOK, Asleep
    <3>3. QED
      BY <2>6, <3>1, <3>2 DEF Signal
  <2>7. CASE UnlockAppend
    BY <2>7 DEF UnlockAppend, TypeOK
  <2>8. ASSUME NEW w \in Workers, LockRun(w) PROVE PoolInv'
    BY <2>8 DEF LockRun, TypeOK
  <2>9. ASSUME NEW w \in Workers, Test(w) PROVE PoolInv'
    BY <2>9 DEF Test, TypeOK
  <2>10. ASSUME NEW w \in Workers, WakeUp(w) PROVE PoolInv'
    BY <2>10 DEF WakeUp, TypeOK
  <2>11. ASSUME NEW w \in Workers, Take(w) PROVE PoolInv'
    <3>1. queue' \in Seq(Requests) /\ Head(queue) \in Requests
      BY <2>11 DEF Take, TypeOK
    <3>2. QED
      BY <2>11, <3>1 DEF Take, TypeOK
  <2>12. ASSUME NEW w \in Workers, UnlockRun(w) PROVE PoolInv'
    BY <2>12 DEF UnlockRun, TypeOK
  <2>13. ASSUME NEW w \in Workers, Process(w) PROVE PoolInv'
    BY <2>13 DEF Process, TypeOK
  <2>14. CASE UNCHANGED vars
    BY <2>14 DEF vars, TypeOK
  <2>15. QED
    BY <2>1, <2>2, <2>3, <2>4, <2>5, <2>6, <2>7, <2>8, <2>9, <2>10, <2>11, <2>12, <2>13,
       <2>14 DEF Next, ReactorStep, WorkerStep
<1>3. QED
  BY <1>1, <1>2, PTL DEF Spec

(* Mutual exclusion of the list (threadpool.h:21), for every pool whose list   *)
(* append has not found full.                                                  *)
THEOREM PoolListLocked == Spec => []ListLockedBelowCapacity
<1>1. PoolInv => ListLockedBelowCapacity
  BY WorkersAssumption
     DEF PoolInv, HoldersInv, ListLockedBelowCapacity, ListLocked, OnList
<1>2. QED
  BY <1>1, PoolInvariant, PTL

-----------------------------------------------------------------------------
(* Sets of workers are finite, and one more or one less worker counts as one.  *)
LEMMA CountWorkers ==
    ASSUME NEW S \in SUBSET Workers
    PROVE  /\ Cardinality(S) \in Nat
           /\ \A T \in SUBSET S : Cardinality(T) <= Cardinality(S)
           /\ \A w \in Workers \ S : Cardinality(S \cup {w}) = Cardinality(S) + 1
           /\ \A w \in S : Cardinality(S \ {w}) = Cardinality(S) - 1
<1>1. IsFiniteSet(S)
  BY WorkersAssumption, FS_Subset
<1>2. Cardinality(S) \in Nat
  BY <1>1, FS_CardinalityType
<1>3. \A T \in SUBSET S : Cardinality(T) <= Cardinality(S)
  BY <1>1, FS_Subset
<1>4. \A w \in Workers \ S : Cardinality(S \cup {w}) = Cardinality(S) + 1
  BY <1>1, FS_AddElement
<1>5. \A w \in S : Cardinality(S \ {w}) = Cardinality(S) - 1
  BY <1>1, FS_RemoveElement
<1>6. QED
  BY <1>2, <1>3, <1>4, <1>5

(* No wakeup is lost: while a worker sleeps, the workers on their way to the   *)
(* list, with the one append is about to wake, are as many as the requests     *)
(* in it.  A worker that leaves the list takes a request with it, and one that *)
(* falls asleep has seen the list empty.                                       *)
THEOREM PoolNoLostWakeup == Spec => []NoLostWakeup
<1> DEFINE Promised == IF rpc = "signal" THEN 1 ELSE 0
<1>1. Init => NoLostWakeup
  BY DEF Init, NoLostWakeup, Asleep
<1>2. PoolInv /\ NoLostWakeup /\ [Next]_vars => NoLostWakeup'
  <2> SUFFICES ASSUME PoolInv, NoLostWakeup, [Next]_vars, ~overrun', Asleep' # {}
               PROVE  Len(queue') <= Cardinality(Coming') + Promised'
    BY DEF NoLostWakeup
  <2>1. /\ pc \in [Workers -> {"lock", "test", "asleep", "take", "unlock", "process"}]
        /\ queue \in Seq(Requests)
        /\ Len(queue) \in Nat
    BY DEF PoolInv, TypeOK
  <2>2. Coming \in SUBSET Workers /\ Coming' \in SUBSET Workers
    BY DEF Coming
  <2>3. Cardinality(Coming) \in Nat /\ Cardinality(Coming') \in Nat
    BY <2>2, CountWorkers
  <2>4. ASSUME ~overrun, Asleep # {}, Len(queue') = Len(queue), Coming \subseteq Coming',
               rpc = "signal" => rpc' = "signal"
        PROVE  Len(queue') <= Cardinality(Coming') + Promised'
    <3>1. Len(queue) <= Cardinality(Coming) + Promised
      BY <2>4 DEF NoLostWakeup
    <3>2. Cardinality(Coming) <= Cardinality(Coming')
      BY <2>2, <2>4, CountWorkers
    <3>3. QED
      BY <2>1, <2>3, <2>4, <3>1, <3>2
  <2>5. ASSUME NEW r \in Requests, AppendCall(r)
        PROVE  Len(queue') <= Cardinality(Coming') + Promised'
    BY <2>4, <2>5 DEF AppendCall, Asleep, Coming
  <2>6. CASE LockAppend \/ SizeCheck \/ UnlockFull \/ UnlockAppend
    BY <2>4, <2>6 DEF LockAppend, SizeCheck, UnlockFull, UnlockAppend, Asleep, Coming
  <2>7. CASE Push
    <3>1. Len(queue') = Len(queue) + 1 /\ Coming' = Coming
      BY <2>1, <2>7 DEF Push, Coming, PoolInv, TypeOK
    <3>2. Len(queue) <= Cardinality(Coming) + Promised
      BY <2>7 DEF Push, NoLostWakeup, Asleep
    <3>3. QED
      BY <2>1, <2>3, <2>7, <3>1, <3>2 DEF Push
  <2>8. CASE Signal
    <3>1. PICK w \in Asleep : pc' = [pc EXCEPT ![w] = "lock"]
      BY <2>8 DEF Signal, Asleep
    <3>2. w \in Workers \ Coming /\ Coming' = Coming \cup {w}
      BY <2>1, <3>1 DEF Asleep, Coming
    <3>3. Cardinality(Coming') = Cardinality(Coming) + 1
      BY <2>2, <3>2, CountWorkers
    <3>4. Len(queue) <= Cardinality(Coming) + 1
      BY <2>8, <3>1 DEF Signal, NoLostWakeup
    <3>5. QED
      BY <2>1, <2>3, <2>8, <3>3, <3>4 DEF Signal
  <2>9. ASSUME NEW w \in Workers, LockRun(w)
        PROVE  Len(queue') <= Cardinality(Coming') + Promised'
    BY <2>1, <2>4, <2>9 DEF LockRun, Asleep, Coming
  <2>10. ASSUME NEW w \in Workers, Test(w)
         PROVE  Len(queue') <= Cardinality(Coming') + Promised'
    <3>1. CASE queue = <<>>
      BY <2>3, <2>10, <3>1 DEF Test
    <3>2. CASE queue # <<>>
      BY <2>1, <2>4, <2>10, <3>2 DEF Test, Asleep, Coming
    <3>3. QED
      BY <3>1, <3>2
  <2>11. ASSUME NEW w \in Workers, WakeUp(w)
         PROVE  Len(queue') <= Cardinality(Coming') + Promised'
    BY <2>1, <2>4, <2>11 DEF WakeUp, Asleep, Coming
  <2>12. ASSUME NEW w \in Workers, Take(w)
         PROVE  Len(queue') <= Cardinality(Coming') + Promised'
    <3>1. w \in Coming /\ Coming' = Coming \ {w}
      BY <2>1, <2>12 DEF Take, Coming
    <3>2. Cardinality(Coming') = Cardinality(Coming) - 1
      BY <2>2, <3>1, CountWorkers
    <3>3. Len(queue') = Len(queue) - 1
      BY <2>1, <2>12 DEF Take
    <3>4. Len(queue) <= Cardinality(Coming) + Promised
      BY <2>1, <2>12 DEF Take, NoLostWakeup, Asleep
    <3>5. QED
      BY <2>1, <2>3, <2>12, <3>2, <3>3, <3>4 DEF Take
  <2>13. ASSUME NEW w \in Workers, UnlockRun(w) \/ Process(w)
         PROVE  Len(queue') <= Cardinality(Coming') + Promised'
    BY <2>1, <2>4, <2>13 DEF UnlockRun, Process, Asleep, Coming
  <2>14. CASE UNCHANGED vars
    BY <2>4, <2>14 DEF vars, Asleep, Coming
  <2>15. QED
    BY <2>5, <2>6, <2>7, <2>8, <2>9, <2>10, <2>11, <2>12, <2>13, <2>14
       DEF Next, ReactorStep, WorkerStep
<1>3. QED
  BY <1>1, <1>2, PoolInvariant, PTL DEF Spec

(* Lock, list and threads keep their kinds; a reactor that is in append has a  *)
(* request in hand.                                                            *)
THEOREM PoolTypes == Spec => []TypeOK
BY PoolInvariant, PTL DEF PoolInv
=============================================================================
