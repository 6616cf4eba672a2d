------------------------------ MODULE KeyTable ------------------------------
(***************************************************************************)
(* The key table every program of SecKeySystem keeps in a SysV segment     *)
(* (class Sec_Key_Memtory): a fixed array of NodeSHMInfo slots, searched   *)
(* by linear scans.  A table is a function from slot numbers to nodes; the *)
(* operators below are the scans.  A node names its client and its server  *)
(* together, as `owner': the code never compares one without the other.    *)
(***************************************************************************)
EXTENDS Integers

CONSTANTS NoOwner, \* clientID and serverID of an all-zero slot: two empty strings
          NoKey    \* seckey of an all-zero slot: the empty string

\* A call, the owner it was for, and its result.
Returned(call, o, rv) == [call |-> call, owner |-> o, rv |-> rv]
NothingReturned == Returned("none", NoOwner, 0)

\* What memset leaves in a slot; the scan for a free slot looks for exactly this.
ZeroNode == [status |-> 0, seckeyID |-> 0, owner |-> NoOwner, seckey |-> NoKey]

ZeroTable(slots) == [i \in slots |-> ZeroNode]

MatchSlots(t, o) == {i \in DOMAIN t : t[i].owner = o}
FreeSlots(t)     == {i \in DOMAIN t : t[i] = ZeroNode}

\* Mutant: the scan does not break, and its last hit counts.
LastOf(S) == CHOOSE i \in S : \A j \in S : i >= j

\* A for loop that breaks at its first hit.
FirstOf(S) == CHOOSE i \in S : \A j \in S : i <= j

Holds(t, o) == MatchSlots(t, o) # {}
Entry(t, o) == IF Holds(t, o) THEN t[FirstOf(MatchSlots(t, o))] ELSE ZeroNode

\* Mutant: the reader takes whatever the first slot holds.
NumberSlotsFirst(t, n) == {FirstOf(DOMAIN t)}

\* Read_Memory of the Encryption API looks for a key number, with no regard to owner or
\* status; number 0 is the number of every free slot.
NumberSlots(t, n) == {i \in DOMAIN t : t[i].seckeyID = n}

\* Read_Frist_Memory: the number in the first slot, 0 when nobody wrote it.
FirstNumber(t) == t[FirstOf(DOMAIN t)].seckeyID

\* Mutant: Write_Memory looks for a free slot before the owner's.
WriteSlotsFreeFirst(t, o) == IF FreeSlots(t) # {} THEN FreeSlots(t) ELSE MatchSlots(t, o)

\* Mutant: a slot in use is taken whoever owns it.
WriteSlotsAnyOwner(t, o) == IF \E i \in DOMAIN t : t[i] # ZeroNode
                            THEN {i \in DOMAIN t : t[i] # ZeroNode} ELSE FreeSlots(t)

\* Where Write_Memory puts a node: the slot of its owner, else the first free
\* slot, else nowhere.
WriteSlots(t, o) == IF Holds(t, o) THEN MatchSlots(t, o) ELSE FreeSlots(t)

\* Mutant: an owner that has a slot keeps its old key.
WriteMemoryOnce(t, n) ==
    IF Holds(t, n.owner) \/ FreeSlots(t) = {} THEN t
    ELSE [t EXCEPT ![FirstOf(FreeSlots(t))] = n]

WriteMemory(t, n) ==
    IF WriteSlots(t, n.owner) = {} THEN t
    ELSE [t EXCEPT ![FirstOf(WriteSlots(t, n.owner))] = n]

\* Mutant: status++ instead of status = 1.
CheckMemoryCounts(t, o) ==
    IF Holds(t, o) THEN [t EXCEPT ![FirstOf(MatchSlots(t, o))].status = @ + 1] ELSE t

\* Check_Memory: the owner's key becomes unusable, and nothing else changes.
CheckMemory(t, o) ==
    IF Holds(t, o) THEN [t EXCEPT ![FirstOf(MatchSlots(t, o))].status = 1] ELSE t
=============================================================================
