--------------------------- MODULE KeyTableProofs ---------------------------
(***************************************************************************)
(* Lemmas about the scans of a key table, for the modules that prove       *)
(* theorems about programs which have one.                                 *)
(***************************************************************************)
EXTENDS KeyTable, TLAPS, FiniteSetTheorems

(* A scan that has a hit stops at one, and no hit precedes it (every scan of   *)
(* Sec_Key_Memtory.cpp).  The intervals 0..i of the hits i are finite sets, so *)
(* one of them is minimal under strict inclusion: its bound is the first hit.  *)
LEMMA FirstOfHit ==
    ASSUME NEW S \in SUBSET Nat, S # {}
    PROVE  /\ FirstOf(S) \in S
           /\ \A j \in S : FirstOf(S) <= j
<1> DEFINE Below == {0..i : i \in S}
<1>1. IsWellFoundedOn(StrictSubsetOrdering(Nat), FiniteSubsetsOf(Nat))
  BY FS_StrictSubsetOrderingWellFounded
<1>2. Below \subseteq FiniteSubsetsOf(Nat) /\ Below # {}
  <2>1. ASSUME NEW i \in S PROVE 0..i \in FiniteSubsetsOf(Nat)
    BY FS_Interval, 0..i \subseteq Nat DEF FiniteSubsetsOf
  <2>2. QED
    BY <2>1
<1>3. PICK T \in Below : \A U \in Below : ~(<<U, T>> \in StrictSubsetOrdering(Nat))
  <2> HIDE DEF Below
  <2>1. QED
    BY <1>1, <1>2, WFMin
<1>4. PICK i \in S : T = 0..i
  OBVIOUS
<1>5. ASSUME NEW j \in S PROVE i <= j
  <2>1. SUFFICES ASSUME j < i PROVE FALSE
    OBVIOUS
  <2>2. 0..j \subseteq 0..i /\ i \notin 0..j /\ i \in 0..i
    BY <2>1
  <2>3. <<0..j, 0..i>> \in StrictSubsetOrdering(Nat)
    BY <2>2, 0..j \in SUBSET Nat, 0..i \in SUBSET Nat DEF StrictSubsetOrdering
  <2>4. QED
    BY <2>3, <1>3, <1>4
<1>6. QED
  BY <1>5 DEF FirstOf

(* The slot Write_Memory stores to, if there is one, is a slot of the table.   *)
LEMMA WriteInTable ==
    ASSUME NEW S \in SUBSET Nat, NEW V, NEW t \in [S -> V], NEW n \in V
    PROVE  WriteMemory(t, n) \in [S -> V]
<1>1. WriteSlots(t, n.owner) \subseteq S
  BY DEF WriteSlots, MatchSlots, FreeSlots
<1>2. WriteSlots(t, n.owner) # {} => FirstOf(WriteSlots(t, n.owner)) \in S
  BY <1>1, FirstOfHit
<1>3. QED
  BY <1>2 DEF WriteMemory

(* What Read_Memory finds is a node of the table, or the zeroes it was given.  *)
LEMMA EntryInTable ==
    ASSUME NEW S \in SUBSET Nat, NEW V, NEW t \in [S -> V], NEW o
    PROVE  Entry(t, o) \in V \cup {ZeroNode}
<1>1. MatchSlots(t, o) \subseteq S
  BY DEF MatchSlots
<1>2. Holds(t, o) => FirstOf(MatchSlots(t, o)) \in S
  BY <1>1, FirstOfHit DEF Holds
<1>3. QED
  BY <1>2 DEF Entry
=============================================================================
