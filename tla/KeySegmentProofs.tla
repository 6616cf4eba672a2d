-------------------------- MODULE KeySegmentProofs --------------------------
(***************************************************************************)
(* The theorems about one key segment, for every number of slots, owners,  *)
(* keys and programs.                                                      *)
(***************************************************************************)
EXTENDS KeySegment, KeyTableProofs, TLAPS, FiniteSetTheorems

-----------------------------------------------------------------------------
Inv == TypeOK /\ OneSlotPerOwner /\ NoHoles

(* Zeroes are no node, and zeroed slots satisfy the invariant's table part.    *)
LEMMA ZeroNodeFacts == /\ ZeroNode.owner = NoOwner
                       /\ ZeroNode \notin Nodes
                       /\ \A n \in Nodes : n.owner \in Owners /\ n.owner # NoOwner
BY OwnerAssumption DEF ZeroNode, Nodes

(* Where Write_Memory stores a node: a slot of the table that held the owner's *)
(* old node, or the first free slot when the owner has none.                   *)
LEMMA WriteTarget ==
    ASSUME table \in [Slots -> Nodes \cup {ZeroNode}], NEW n \in Nodes,
           WriteSlots(table, n.owner) # {}
    PROVE  LET i == FirstOf(WriteSlots(table, n.owner)) IN
           /\ i \in Slots
           /\ WriteMemory(table, n) = [table EXCEPT ![i] = n]
           /\ IF Holds(table, n.owner) THEN table[i].owner = n.owner
              ELSE table[i] = ZeroNode /\ \A j \in Slots : table[j] = ZeroNode => i <= j
<1>1. WriteSlots(table, n.owner) \subseteq Slots
  BY DEF WriteSlots, MatchSlots, FreeSlots
<1>2. Slots \subseteq Nat
  BY MaxNodeAssumption DEF Slots
<1>3. /\ FirstOf(WriteSlots(table, n.owner)) \in WriteSlots(table, n.owner)
      /\ \A j \in WriteSlots(table, n.owner) : FirstOf(WriteSlots(table, n.owner)) <= j
  BY <1>1, <1>2, FirstOfHit
<1>4. QED
  BY <1>1, <1>3 DEF WriteMemory, WriteSlots, MatchSlots, FreeSlots

LEMMA MatchTarget ==
    ASSUME NEW t \in [Slots -> Nodes \cup {ZeroNode}], NEW o, Holds(t, o)
    PROVE  /\ FirstOf(MatchSlots(t, o)) \in Slots
           /\ t[FirstOf(MatchSlots(t, o))].owner = o
<1>1. MatchSlots(t, o) \subseteq Slots /\ Slots \subseteq Nat
  BY MaxNodeAssumption DEF MatchSlots, Slots
<1>2. FirstOf(MatchSlots(t, o)) \in MatchSlots(t, o)
  BY <1>1, FirstOfHit DEF Holds
<1>3. QED
  BY <1>1, <1>2 DEF MatchSlots

(* The invariant survives Write_Memory, which overwrites in place or fills the *)
(* first free slot with an owner no slot has.                                  *)
LEMMA WriteKeepsInv ==
    ASSUME Inv, NEW p \in Procs, NEW n \in Nodes, Write(p, n)
    PROVE  Inv'
<1> DEFINE i == FirstOf(WriteSlots(table, n.owner))
<1>1. table \in [Slots -> Nodes \cup {ZeroNode}]
  BY DEF Inv, TypeOK
<1>2. CASE WriteSlots(table, n.owner) = {}
  BY <1>2, ZeroNodeFacts
     DEF Inv, TypeOK, OneSlotPerOwner, NoHoles, Write, WriteMemory, Returned
<1>3. CASE WriteSlots(table, n.owner) # {}
  <2>1. /\ i \in Slots
        /\ table' = [table EXCEPT ![i] = n]
        /\ IF Holds(table, n.owner) THEN table[i].owner = n.owner
           ELSE table[i] = ZeroNode /\ \A j \in Slots : table[j] = ZeroNode => i <= j
    BY <1>1, <1>3, WriteTarget DEF Write
  <2> HIDE DEF i
  <2>2. TypeOK'
    BY <1>3, <2>1, ZeroNodeFacts DEF Inv, TypeOK, Write, Returned
  <2>3. table[i].owner = n.owner => table[i] # ZeroNode
    BY ZeroNodeFacts
  <2>4. ~Holds(table, n.owner) => \A j \in Slots : table[j].owner # n.owner
    BY <1>1 DEF Holds, MatchSlots
  <2>5. OneSlotPerOwner'
    BY <1>1, <2>1, <2>3, <2>4, ZeroNodeFacts DEF Inv, OneSlotPerOwner
  <2>6. NoHoles'
    BY <1>1, <2>1, <2>3, ZeroNodeFacts, MaxNodeAssumption DEF Inv, NoHoles, Slots
  <2>7. QED
    BY <2>2, <2>5, <2>6 DEF Inv
<1>4. QED
  BY <1>2, <1>3

(* Check_Memory changes a status, never an owner or whether a slot is free.    *)
LEMMA CheckKeepsInv ==
    ASSUME Inv, NEW p \in Procs, NEW o \in Owners, Check(p, o)
    PROVE  Inv'
<1> DEFINE i == FirstOf(MatchSlots(table, o))
<1>1. table \in [Slots -> Nodes \cup {ZeroNode}]
  BY DEF Inv, TypeOK
<1>2. CASE ~Holds(table, o)
  BY <1>2 DEF Inv, TypeOK, OneSlotPerOwner, NoHoles, Check, CheckMemory, Returned
<1>3. CASE Holds(table, o)
  <2>1. /\ i \in Slots
        /\ table[i].owner = o
        /\ table' = [table EXCEPT ![i].status = 1]
    BY <1>1, <1>3, MatchTarget DEF Check, CheckMemory
  <2> HIDE DEF i
  <2>2. table[i] \in Nodes
    BY <1>1, <2>1, ZeroNodeFacts, OwnerAssumption
  <2>3. table'[i] \in Nodes /\ table'[i].owner = o
    BY <1>1, <2>1, <2>2 DEF Nodes
  <2>4. /\ table' \in [Slots -> Nodes \cup {ZeroNode}]
        /\ \A j \in Slots : /\ table'[j].owner = table[j].owner
                            /\ table'[j] = ZeroNode <=> table[j] = ZeroNode
    BY <1>1, <2>1, <2>2, <2>3, ZeroNodeFacts
  <2>5. TypeOK'
    BY <2>4 DEF Inv, TypeOK, Check, Returned
  <2>6. OneSlotPerOwner' /\ NoHoles'
    BY <2>4 DEF Inv, OneSlotPerOwner, NoHoles
  <2>7. QED
    BY <2>5, <2>6 DEF Inv
<1>4. QED
  BY <1>2, <1>3

LEMMA ZeroKeepsTable ==
    /\ ZeroTable(Slots) \in [Slots -> Nodes \cup {ZeroNode}]
    /\ \A i \in Slots : ZeroTable(Slots)[i] = ZeroNode
BY DEF ZeroTable

(* The three invariants of the segment, for every program mix (constructor,    *)
(* Write_Memory, Read_Memory, Check_Memory, exits and reboots).                *)
THEOREM SegmentInv == Spec => []Inv
<1>1. Init => Inv
  <2> SUFFICES ASSUME Init PROVE Inv
    OBVIOUS
  <2>1. ret \in [call : {"none", "write", "read", "check"},
                 owner : Owners \cup {NoOwner}, rv : {0, -1}]
    BY DEF Init, NothingReturned, Returned
  <2>2. TypeOK
    BY <2>1, ZeroKeepsTable DEF Init, TypeOK
  <2>3. OneSlotPerOwner /\ NoHoles
    BY ZeroKeepsTable DEF Init, OneSlotPerOwner, NoHoles
  <2>4. QED
    BY <2>2, <2>3 DEF Inv
<1>2. Inv /\ [Next]_segVars => Inv'
  <2> SUFFICES ASSUME Inv, [Next]_segVars PROVE Inv'
    OBVIOUS
  <2>1. ASSUME NEW p \in Procs, Open(p) \/ Exit(p) PROVE Inv'
    <3>1. CASE Open(p)
      BY <3>1 DEF Inv, TypeOK, OneSlotPerOwner, NoHoles, Open
    <3>2. CASE Exit(p)
      BY <3>2 DEF Inv, TypeOK, OneSlotPerOwner, NoHoles, Exit
    <3>3. QED
      BY <2>1, <3>1, <3>2
  <2>2. ASSUME NEW p \in Procs, Zero(p) PROVE Inv'
    <3>1. TypeOK'
      BY <2>2, ZeroKeepsTable DEF Zero, Inv, TypeOK
    <3>2. OneSlotPerOwner' /\ NoHoles'
      BY <2>2, ZeroKeepsTable DEF Zero, OneSlotPerOwner, NoHoles
    <3>3. QED
      BY <3>1, <3>2 DEF Inv
  <2>3. ASSUME NEW p \in Procs, NEW n \in Nodes, Write(p, n) PROVE Inv'
    BY <2>3, WriteKeepsInv
  <2>4. ASSUME NEW p \in Procs, NEW o \in Owners, Read(p, o) PROVE Inv'
    <3>1. Holds(table, o) => Entry(table, o) \in Nodes \cup {ZeroNode}
      BY MatchTarget DEF Entry, Inv, TypeOK
    <3>2. QED
      BY <2>4, <3>1 DEF Inv, TypeOK, OneSlotPerOwner, NoHoles, Read, Returned
  <2>5. ASSUME NEW p \in Procs, NEW o \in Owners, Check(p, o) PROVE Inv'
    BY <2>5, CheckKeepsInv
  <2>6. CASE Reboot
    <3>1. TypeOK'
      BY <2>6, ZeroKeepsTable DEF Reboot, Inv, TypeOK
    <3>2. OneSlotPerOwner' /\ NoHoles'
      BY <2>6, ZeroKeepsTable DEF Reboot, OneSlotPerOwner, NoHoles
    <3>3. QED
      BY <3>1, <3>2 DEF Inv
  <2>7. CASE UNCHANGED segVars
    BY <2>7 DEF segVars, Inv, TypeOK, OneSlotPerOwner, NoHoles
  <2>8. QED
    BY <2>1, <2>2, <2>3, <2>4, <2>5, <2>6, <2>7 DEF Next
<1>3. QED
  BY <1>1, <1>2, PTL DEF Spec

-----------------------------------------------------------------------------
(* What the abstract map holds, in terms of the slots.                         *)
LEMMA EntryOfSlot ==
    ASSUME NEW t \in [Slots -> Nodes \cup {ZeroNode}],
           \A i, j \in Slots : t[i].owner = t[j].owner /\ t[i] # ZeroNode => i = j,
           NEW o \in Owners
    PROVE  /\ Entry(t, o) # ZeroNode <=> Holds(t, o)
           /\ \A i \in Slots : t[i].owner = o => Entry(t, o) = t[i]
<1>1. o # NoOwner
  BY OwnerAssumption
<1>2. Holds(t, o) => /\ FirstOf(MatchSlots(t, o)) \in Slots
                     /\ t[FirstOf(MatchSlots(t, o))].owner = o
  BY MatchTarget
<1>3. Entry(t, o) # ZeroNode <=> Holds(t, o)
  BY <1>1, <1>2, ZeroNodeFacts DEF Entry
<1>4. ASSUME NEW i \in Slots, t[i].owner = o PROVE Entry(t, o) = t[i]
  <2>1. Holds(t, o)
    BY <1>4 DEF Holds, MatchSlots
  <2>2. t[i] # ZeroNode
    BY <1>1, <1>4, ZeroNodeFacts
  <2>3. FirstOf(MatchSlots(t, o)) = i
    BY <1>2, <1>4, <2>1, <2>2
  <2>4. QED
    BY <2>1, <2>3 DEF Entry
<1>5. QED
  BY <1>3, <1>4

(* The instance's copies of the library operators are the library's.           *)
LEMMA MapCardinality == \A S : Map!Cardinality(S) = Cardinality(S)
BY DEF Map!Cardinality, Cardinality, Map!IsFiniteSet, IsFiniteSet

(* The map is full exactly when no slot is free: used slots and kept owners    *)
(* correspond one to one.                                                      *)
LEMMA KeptCount ==
    ASSUME Inv
    PROVE  /\ Cardinality(Map!Kept) \in 0..MaxNode
           /\ Cardinality(Map!Kept) = MaxNode <=> FreeSlots(table) = {}
<1> DEFINE Used == {i \in Slots : table[i] # ZeroNode}
           f == [i \in Used |-> table[i].owner]
<1>1. table \in [Slots -> Nodes \cup {ZeroNode}]
  BY DEF Inv, TypeOK
<1>2. Map!Kept = {o \in Owners : Holds(table, o)}
  BY <1>1, EntryOfSlot DEF Inv, OneSlotPerOwner, Map!Kept, Map!ZeroNode, ZeroNode
<1>3. f \in [Used -> Map!Kept]
  BY <1>1, <1>2, ZeroNodeFacts DEF Holds, MatchSlots
<1>4. \A i, j \in Used : f[i] = f[j] => i = j
  BY DEF Inv, OneSlotPerOwner
<1>5. \A o \in Map!Kept : \E i \in Used : f[i] = o
  BY <1>1, <1>2, ZeroNodeFacts, OwnerAssumption DEF Holds, MatchSlots
<1>6. ExistsBijection(Used, Map!Kept)
  <2>1. f \in Bijection(Used, Map!Kept)
    BY <1>3, <1>4, <1>5 DEF Bijection, Injection, Surjection, IsInjective
  <2>2. QED
    BY <2>1 DEF ExistsBijection
<1>7. /\ IsFiniteSet(Slots)
      /\ Cardinality(Slots) = MaxNode
  BY FS_Interval, MaxNodeAssumption DEF Slots
<1>8. /\ IsFiniteSet(Used)
      /\ Cardinality(Used) <= MaxNode
      /\ Cardinality(Used) = MaxNode => Used = Slots
  BY <1>7, FS_Subset
<1>9. Cardinality(Map!Kept) = Cardinality(Used)
  BY <1>6, <1>8, FS_Bijection
<1>10. Cardinality(Used) \in Nat
  BY <1>8, FS_CardinalityType
<1>11. FreeSlots(table) = {} <=> Used = Slots
  BY <1>1 DEF FreeSlots
<1>12. QED
  BY <1>7, <1>8, <1>9, <1>10, <1>11, MaxNodeAssumption

(* Write_Memory is Put where the map has the owner or room, else Refuse.       *)
LEMMA WriteIsPutOrRefuse ==
    ASSUME Inv, Inv', NEW p \in Procs, NEW n \in Nodes, Write(p, n)
    PROVE  Map!Put(n) \/ Map!Refuse(n)
<1> DEFINE i == FirstOf(WriteSlots(table, n.owner))
<1>1. table \in [Slots -> Nodes \cup {ZeroNode}]
  BY DEF Inv, TypeOK
<1>2. n.owner \in Owners /\ n.owner # NoOwner
  BY ZeroNodeFacts
<1>3. n.owner \in Map!Kept <=> Holds(table, n.owner)
  BY <1>1, <1>2, EntryOfSlot DEF Inv, OneSlotPerOwner, Map!Kept, Map!ZeroNode, ZeroNode
<1>4. CASE WriteSlots(table, n.owner) = {}
  <2>1. ~Holds(table, n.owner) /\ FreeSlots(table) = {}
    BY <1>4 DEF WriteSlots, Holds
  <2>2. table' = table /\ ret' = Returned("write", n.owner, -1) /\ info' = info
    BY <1>4 DEF Write, WriteMemory
  <2>3. QED
    BY <1>3, <2>1, <2>2, KeptCount, MapCardinality DEF Map!Refuse, Returned, Map!Returned
<1>5. CASE WriteSlots(table, n.owner) # {}
  <2>1. /\ i \in Slots
        /\ table' = [table EXCEPT ![i] = n]
        /\ IF Holds(table, n.owner) THEN table[i].owner = n.owner
           ELSE table[i] = ZeroNode /\ \A j \in Slots : table[j] = ZeroNode => i <= j
    BY <1>1, <1>5, WriteTarget DEF Write
  <2> HIDE DEF i
  <2>2. table'[i] = n /\ \A j \in Slots \ {i} : table'[j] = table[j]
    BY <1>1, <2>1
  <2>3. ret' = Returned("write", n.owner, 0) /\ info' = info
    BY <1>5 DEF Write
  <2>4. n.owner \in Map!Kept \/ Cardinality(Map!Kept) < MaxNode
    <3>1. CASE Holds(table, n.owner)
      BY <1>3, <3>1
    <3>2. CASE ~Holds(table, n.owner)
      BY <1>5, <3>2, KeptCount, MaxNodeAssumption DEF WriteSlots
    <3>3. QED
      BY <3>1, <3>2
  <2>5. ASSUME NEW o \in Owners
        PROVE  Entry(table', o) = IF o = n.owner THEN n ELSE Entry(table, o)
    <3>1. CASE o = n.owner
      <4>1. Entry(table', o) = table'[i]
        <5>1. /\ table' \in [Slots -> Nodes \cup {ZeroNode}]
              /\ \A j, k \in Slots : table'[j].owner = table'[k].owner
                                     /\ table'[j] # ZeroNode => j = k
          BY DEF Inv, TypeOK, OneSlotPerOwner
        <5>2. QED
          BY <2>1, <2>2, <3>1, <5>1, EntryOfSlot
      <4>2. QED
        BY <2>2, <3>1, <4>1
    <3>2. CASE o # n.owner
      <4>1. table[i].owner # o
        BY <2>1, <3>2, ZeroNodeFacts, OwnerAssumption
      <4>2. MatchSlots(table', o) = MatchSlots(table, o)
        BY <1>1, <2>1, <2>2, <3>2, <4>1 DEF MatchSlots
      <4>3. Holds(table, o) => /\ FirstOf(MatchSlots(table, o)) \in Slots
                               /\ table[FirstOf(MatchSlots(table, o))].owner = o
        BY <1>1, MatchTarget
      <4>4. QED
        BY <2>2, <3>2, <4>1, <4>2, <4>3 DEF Entry, Holds
    <3>3. QED
      BY <3>1, <3>2
  <2>6. [o \in Owners |-> Entry(table', o)]
           = [[o \in Owners |-> Entry(table, o)] EXCEPT ![n.owner] = n]
    BY <1>2, <2>5
  <2>7. QED
    BY <2>3, <2>4, <2>6, MapCardinality DEF Map!Put, Returned, Map!Returned
<1>6. QED
  BY <1>4, <1>5

(* Check_Memory is Revoke: one owner's status, found or not.                   *)
LEMMA CheckIsRevoke ==
    ASSUME Inv, NEW p \in Procs, NEW o \in Owners, Check(p, o)
    PROVE  Map!Revoke(o)
<1> DEFINE i == FirstOf(MatchSlots(table, o))
<1>1. table \in [Slots -> Nodes \cup {ZeroNode}]
  BY DEF Inv, TypeOK
<1>2. o \in Map!Kept <=> Holds(table, o)
  BY <1>1, EntryOfSlot DEF Inv, OneSlotPerOwner, Map!Kept, Map!ZeroNode, ZeroNode
<1>3. info' = info /\ ret' = Returned("check", o, IF Holds(table, o) THEN 0 ELSE -1)
  BY DEF Check
<1>4. CASE ~Holds(table, o)
  <2>1. table' = table
    BY <1>4 DEF Check, CheckMemory
  <2>2. QED
    BY <1>2, <1>3, <1>4, <2>1 DEF Map!Revoke, Returned, Map!Returned
<1>5. CASE Holds(table, o)
  <2>1. /\ i \in Slots
        /\ table[i].owner = o
        /\ table' = [table EXCEPT ![i].status = 1]
    BY <1>1, <1>5, MatchTarget DEF Check, CheckMemory
  <2>2. Entry(table, o) = table[i]
    BY <1>5 DEF Entry
  <2> HIDE DEF i
  <2>3. table[i] \in Nodes
    BY <1>1, <2>1, ZeroNodeFacts, OwnerAssumption
  <2>4. table'[i] = [table[i] EXCEPT !.status = 1] /\ table'[i].owner = o
    BY <1>1, <2>1, <2>3 DEF Nodes
  <2>5. \A j \in Slots : j # i => table'[j] = table[j]
    BY <1>1, <2>1
  <2>6. DOMAIN table' = Slots
    BY <1>1, <2>1
  <2>7. \A q \in Owners : MatchSlots(table', q) = MatchSlots(table, q)
    BY <1>1, <2>1, <2>4, <2>5, <2>6 DEF MatchSlots
  <2>8. ASSUME NEW q \in Owners
        PROVE  Entry(table', q) = IF q = o THEN [table[i] EXCEPT !.status = 1]
                                           ELSE Entry(table, q)
    <3>1. Holds(table, q) => /\ FirstOf(MatchSlots(table, q)) \in Slots
                             /\ table[FirstOf(MatchSlots(table, q))].owner = q
      BY <1>1, MatchTarget
    <3>2. CASE q = o
      BY <1>5, <2>4, <2>7, <3>2 DEF Entry, Holds, i
    <3>3. CASE q # o
      BY <2>1, <2>5, <2>7, <3>1, <3>3 DEF Entry, Holds
    <3>4. QED
      BY <3>2, <3>3
  <2>9. [q \in Owners |-> Entry(table', q)]
           = [[q \in Owners |-> Entry(table, q)] EXCEPT ![o].status = 1]
    BY <2>2, <2>8
  <2>10. QED
    BY <1>2, <1>3, <1>5, <2>9 DEF Map!Revoke, Returned, Map!Returned
<1>6. QED
  BY <1>4, <1>5

(* The array of slots with its scans implements the bounded key map: every     *)
(* call of Sec_Key_Memtory is one map operation with the same result, and only *)
(* the creator's memset or a reboot loses keys.                                *)
THEOREM SegmentImplementsMap == Spec => ImplementsKeyMap
<1>1. Init => Map!MapInit
  <2> SUFFICES ASSUME Init PROVE Map!MapInit
    OBVIOUS
  <2>1. \A o \in Owners : Entry(table, o) = ZeroNode
    BY ZeroKeepsTable, OwnerAssumption, ZeroNodeFacts
       DEF Init, Entry, Holds, MatchSlots, ZeroTable
  <2>2. QED
    BY <2>1 DEF Init, Map!MapInit, Map!ZeroNode, ZeroNode, NothingReturned,
                       Map!NothingReturned, Returned, Map!Returned
<1>2. Inv /\ Inv' /\ [Next]_segVars => [Map!MapNext]_(Map!mapVars)
  <2> SUFFICES ASSUME Inv, Inv', [Next]_segVars
               PROVE  Map!MapNext \/ UNCHANGED Map!mapVars
    OBVIOUS
  <2>1. ASSUME table' = table, ret' = ret, info' = info PROVE UNCHANGED Map!mapVars
    BY <2>1 DEF Map!mapVars
  <2>2. ASSUME table' = ZeroTable(Slots), ret' = ret, info' = info PROVE Map!LoseAll
    <3>1. \A o \in Owners : Entry(table', o) = ZeroNode
      BY <2>2, OwnerAssumption, ZeroNodeFacts DEF Entry, Holds, MatchSlots, ZeroTable
    <3>2. QED
      BY <2>2, <3>1 DEF Map!LoseAll, Map!ZeroNode, ZeroNode
  <2>3. ASSUME NEW p \in Procs, Open(p) \/ Exit(p) PROVE UNCHANGED Map!mapVars
    BY <2>1, <2>3 DEF Open, Exit
  <2>4. ASSUME NEW p \in Procs, Zero(p) PROVE Map!LoseAll
    BY <2>2, <2>4 DEF Zero
  <2>5. ASSUME NEW p \in Procs, NEW n \in Nodes, Write(p, n)
        PROVE  Map!Put(n) \/ Map!Refuse(n)
    BY <2>5, WriteIsPutOrRefuse
  <2>6. ASSUME NEW p \in Procs, NEW o \in Owners, Read(p, o) PROVE Map!Get(o)
    <3>1. o \in Map!Kept <=> Holds(table, o)
      BY EntryOfSlot DEF Inv, TypeOK, OneSlotPerOwner, Map!Kept, Map!ZeroNode, ZeroNode
    <3>2. QED
      BY <2>6, <3>1 DEF Read, Map!Get, Returned, Map!Returned
  <2>7. ASSUME NEW p \in Procs, NEW o \in Owners, Check(p, o) PROVE Map!Revoke(o)
    BY <2>7, CheckIsRevoke
  <2>8. CASE Reboot
    BY <2>2, <2>8 DEF Reboot, Map!MapNext
  <2>9. CASE UNCHANGED segVars
    BY <2>1, <2>9 DEF segVars
  <2>10. QED
    BY <2>3, <2>4, <2>5, <2>6, <2>7, <2>8, <2>9 DEF Next, Map!MapNext
<1>3. QED
  BY <1>1, <1>2, SegmentInv, PTL DEF Spec, ImplementsKeyMap, Map!MapSpec

-----------------------------------------------------------------------------
(* The creator's memset happens at most once in a segment's life: the segment  *)
(* exists while a program is attached, one program at most is in the rest of   *)
(* its creating constructor, and it has not zeroed the segment yet.            *)
CreatorInv ==
    /\ \A p \in Procs : stage[p] # "out" => exists
    /\ \A p \in Procs : stage[p] = "zero" => ~zeroed
    /\ \A p, q \in Procs : stage[p] = "zero" /\ stage[q] = "zero" => p = q

LEMMA SegmentCreator == Spec => [](Inv /\ CreatorInv)
<1>1. Init => CreatorInv
  BY DEF Init, CreatorInv
<1>2. Inv /\ CreatorInv /\ [Next]_segVars => CreatorInv'
  <2> SUFFICES ASSUME Inv, CreatorInv, [Next]_segVars PROVE CreatorInv'
    OBVIOUS
  <2>1. stage \in [Procs -> {"out", "zero", "in"}] /\ zeroed \in BOOLEAN /\ exists \in BOOLEAN
    BY DEF Inv, TypeOK
  <2>2. ASSUME NEW p \in Procs, Open(p) PROVE CreatorInv'
    <3>1. CASE exists
      BY <2>1, <2>2, <3>1 DEF CreatorInv, Open
    <3>2. CASE ~exists
      BY <2>1, <2>2, <3>2 DEF CreatorInv, Open
    <3>3. QED
      BY <3>1, <3>2
  <2>3. ASSUME NEW p \in Procs, Zero(p) PROVE CreatorInv'
    BY <2>1, <2>3 DEF CreatorInv, Zero
  <2>4. ASSUME NEW p \in Procs, Exit(p) PROVE CreatorInv'
    BY <2>1, <2>4 DEF CreatorInv, Exit
  <2>5. ASSUME NEW p \in Procs, NEW n \in Nodes, Write(p, n) PROVE CreatorInv'
    BY <2>5 DEF CreatorInv, Write
  <2>6. ASSUME NEW p \in Procs, NEW o \in Owners, Read(p, o) \/ Check(p, o) PROVE CreatorInv'
    BY <2>6 DEF CreatorInv, Read, Check
  <2>7. CASE Reboot
    BY <2>7 DEF CreatorInv, Reboot
  <2>8. CASE UNCHANGED segVars
    BY <2>8 DEF CreatorInv, segVars
  <2>9. QED
    BY <2>2, <2>3, <2>4, <2>5, <2>6, <2>7, <2>8 DEF Next
<1>3. QED
  BY <1>1, <1>2, SegmentInv, PTL DEF Spec

(* An owner's entry after a call, read off the map operation the call is.      *)
LEMMA OnlyOneEntry ==
    ASSUME Inv, Inv', NEW o \in Owners, NEW n \in Nodes \cup {ZeroNode},
           [q \in Owners |-> Entry(table', q)]
             = [[q \in Owners |-> Entry(table, q)] EXCEPT ![o] = n],
           Holds(table, o) => n # ZeroNode
    PROVE  \A q, r \in Owners :
              /\ Holds(table, q) => Holds(table', q)
              /\ Entry(table, q) # Entry(table', q) /\ Entry(table, r) # Entry(table', r)
                 => q = r
<1>1. \A q \in Owners : Entry(table', q) = IF q = o THEN n ELSE Entry(table, q)
  <2> DEFINE before == [q \in Owners |-> Entry(table, q)]
             after  == [q \in Owners |-> Entry(table', q)]
  <2>1. ASSUME NEW q \in Owners PROVE Entry(table', q) = IF q = o THEN n ELSE Entry(table, q)
    <3>1. after[q] = [before EXCEPT ![o] = n][q]
      OBVIOUS
    <3>2. QED
      BY <3>1
  <2>2. QED
    BY <2>1
<1>2. \A q \in Owners : Entry(table, q) # ZeroNode <=> Holds(table, q)
  BY EntryOfSlot DEF Inv, TypeOK, OneSlotPerOwner
<1>3. \A q \in Owners : Entry(table', q) # ZeroNode <=> Holds(table', q)
  <2>1. /\ table' \in [Slots -> Nodes \cup {ZeroNode}]
        /\ \A j, k \in Slots : table'[j].owner = table'[k].owner
                               /\ table'[j] # ZeroNode => j = k
    BY DEF Inv, TypeOK, OneSlotPerOwner
  <2>2. QED
    BY <2>1, EntryOfSlot
<1>4. QED
  BY <1>1, <1>2, <1>3

(* Programs that start, stop, read or store leave the keys of other owners     *)
(* alone, and the one memset of the creator is the only step that drops keys   *)
(* while the segment exists (the m_falg protocol of the constructors).         *)
THEOREM SegmentKeysSurvive == Spec => KeysSurvive
<1> DEFINE Same(q, r) ==
      /\ Holds(table, q) => Holds(table', q)
      /\ Entry(table, q) # Entry(table', q) /\ Entry(table, r) # Entry(table', r) => q = r
<1>1. Inv /\ Inv' /\ CreatorInv /\ [Next]_segVars
      => [ exists' /\ (zeroed' => zeroed)
           => \A o, q \in Owners :
                 /\ Holds(table, o) => Holds(table', o)
                 /\ Entry(table, o) # Entry(table', o) /\ Entry(table, q) # Entry(table', q)
                    => o = q ]_segVars
  <2> SUFFICES ASSUME Inv, Inv', CreatorInv, [Next]_segVars, exists', zeroed' => zeroed
               PROVE  \A q, r \in Owners : Same(q, r)
    OBVIOUS
  <2>1. ASSUME table' = table PROVE \A q, r \in Owners : Same(q, r)
    BY <2>1
  <2>2. ASSUME NEW p \in Procs, Open(p) \/ Exit(p) PROVE \A q, r \in Owners : Same(q, r)
    BY <2>1, <2>2 DEF Open, Exit
  <2>3. ASSUME NEW p \in Procs, Zero(p) PROVE FALSE
    BY <2>3 DEF Zero, CreatorInv
  <2>4. ASSUME NEW p \in Procs, NEW n \in Nodes, Write(p, n)
        PROVE  \A q, r \in Owners : Same(q, r)
    <3>1. CASE Map!Put(n)
      BY <3>1, OnlyOneEntry, ZeroNodeFacts DEF Map!Put
    <3>2. CASE Map!Refuse(n)
      <4>1. WriteSlots(table, n.owner) = {}
        BY <2>4, <3>2 DEF Map!Refuse, Write, Returned, Map!Returned
      <4>2. QED
        BY <2>1, <2>4, <4>1 DEF Write, WriteMemory
    <3>3. QED
      BY <2>4, <3>1, <3>2, WriteIsPutOrRefuse
  <2>5. ASSUME NEW p \in Procs, NEW o \in Owners, Read(p, o)
        PROVE  \A q, r \in Owners : Same(q, r)
    BY <2>1, <2>5 DEF Read
  <2>6. ASSUME NEW p \in Procs, NEW o \in Owners, Check(p, o)
        PROVE  \A q, r \in Owners : Same(q, r)
    <3>1. CASE ~Holds(table, o)
      BY <2>1, <2>6, <3>1 DEF Check, CheckMemory
    <3>2. CASE Holds(table, o)
      <4>1. Entry(table, o) # ZeroNode /\ Entry(table, o) \in Nodes
        <5>1. Entry(table, o) = table[FirstOf(MatchSlots(table, o))]
          BY <3>2 DEF Entry
        <5>2. table \in [Slots -> Nodes \cup {ZeroNode}]
          BY DEF Inv, TypeOK
        <5>3. /\ FirstOf(MatchSlots(table, o)) \in Slots
              /\ table[FirstOf(MatchSlots(table, o))].owner = o
          BY <3>2, <5>2, MatchTarget
        <5>4. QED
          BY <5>1, <5>2, <5>3, ZeroNodeFacts, OwnerAssumption
      <4>2. o \in Map!Kept
        BY <4>1 DEF Map!Kept, Map!ZeroNode, ZeroNode
      <4>3. DEFINE n == [Entry(table, o) EXCEPT !.status = 1]
      <4>4. n \in Nodes
        BY <4>1 DEF Nodes
      <4>5. [q \in Owners |-> Entry(table', q)]
              = [[q \in Owners |-> Entry(table, q)] EXCEPT ![o] = n]
        BY <2>6, <4>2, CheckIsRevoke DEF Map!Revoke
      <4> HIDE DEF n
      <4>6. QED
        BY <4>4, <4>5, OnlyOneEntry, ZeroNodeFacts
    <3>3. QED
      BY <3>1, <3>2
  <2>7. CASE Reboot
    BY <2>7 DEF Reboot
  <2>8. CASE UNCHANGED segVars
    BY <2>1, <2>8 DEF segVars
  <2>9. QED
    BY <2>2, <2>3, <2>4, <2>5, <2>6, <2>7, <2>8 DEF Next
<1>2. QED
  BY <1>1, SegmentInv, SegmentCreator, PTL DEF Spec, KeysSurvive

(* The two invariants a reader asks for by name: no owner has two slots, and   *)
(* no free slot precedes a used one, after any sequence of calls.              *)
THEOREM SegmentOneSlot == Spec => []OneSlotPerOwner
BY SegmentInv, PTL DEF Inv

(* See SegmentOneSlot: Read_Frist_Memory finds a key whenever there is one.    *)
THEOREM SegmentNoHoles == Spec => []NoHoles
BY SegmentInv, PTL DEF Inv

(* A slot holds a node or zeroes, and so does the node a call hands back,      *)
(* whoever attaches, initialises or removes the segment meanwhile.             *)
THEOREM SegmentTypes == Spec => []TypeOK
BY SegmentInv, PTL DEF Inv
=============================================================================
