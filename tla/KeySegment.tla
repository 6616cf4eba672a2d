----------------------------- MODULE KeySegment -----------------------------
(***************************************************************************)
(* One shared segment and the programs of its host that attach to it (the  *)
(* server; or a client and the applications that use the API library).     *)
(* Calls are atomic here: one program at a time is inside a call.  The     *)
(* unlocked calls of the server's worker threads are module KeyService.    *)
(*                                                                         *)
(* The header that holds maxnode is not a variable: the constructor every  *)
(* program calls before its first operation writes it.                     *)
(***************************************************************************)
EXTENDS Integers, FiniteSets, KeyTable

CONSTANTS Procs,    \* programs of this host
          Owners,   \* (clientID, serverID) pairs
          SecKeys,  \* negotiated keys
          KeyIDs,   \* key numbers
          MaxNode   \* slots of the segment, "maxnode" of the JSON file

ASSUME MaxNodeAssumption == MaxNode \in Nat
ASSUME OwnerAssumption == NoOwner \notin Owners
ASSUME KeyIDAssumption == KeyIDs \subseteq Int

Slots == 1..MaxNode
Nodes == [status : {0, 1}, seckeyID : KeyIDs, owner : Owners, seckey : SecKeys]

VARIABLES exists,  \* the segment exists in the kernel
          stage,   \* per program: "out", in the constructor before "zero", or "in"
          table,   \* the slots
          ret,     \* the last call and its result, 0 or -1
          info,    \* the out-parameter of Read_Memory
          zeroed   \* history: this segment's creator has zeroed it

segVars == <<exists, stage, table, ret, info, zeroed>>

Init == /\ exists = FALSE
        /\ stage = [p \in Procs |-> "out"]
        /\ table = ZeroTable(Slots)
        /\ ret = NothingReturned
        /\ info = ZeroNode
        /\ zeroed = FALSE
-----------------------------------------------------------------------------
\* Mutant: a program that finds the segment zeroes it too (m_falg stays true).
OpenAndZero(p) ==
    /\ stage[p] = "out"
    /\ exists' = TRUE
    /\ stage' = [stage EXCEPT ![p] = "zero"]
    /\ zeroed' = (exists /\ zeroed)
    /\ UNCHANGED <<table, ret, info>>

\* The constructor up to shmget(IPC_CREAT|IPC_EXCL): a program that finds the
\* segment clears m_falg and will not zero it; a new segment is zero-filled.
Open(p) ==
    /\ stage[p] = "out"
    /\ exists' = TRUE
    /\ stage' = [stage EXCEPT ![p] = IF exists THEN "in" ELSE "zero"]
    /\ zeroed' = (exists /\ zeroed)
    /\ UNCHANGED <<table, ret, info>>

\* The rest of the constructor of the program that created the segment.
Zero(p) ==
    /\ stage[p] = "zero"
    /\ stage' = [stage EXCEPT ![p] = "in"]
    /\ table' = ZeroTable(Slots)
    /\ zeroed' = TRUE
    /\ UNCHANGED <<exists, ret, info>>

\* Mutant: a full table is not reported.
WriteSilently(p, n) ==
    /\ stage[p] = "in"
    /\ table' = WriteMemory(table, n)
    /\ ret' = Returned("write", n.owner, 0)
    /\ UNCHANGED <<exists, stage, info, zeroed>>

Write(p, n) ==
    /\ stage[p] = "in"
    /\ table' = WriteMemory(table, n)
    /\ ret' = Returned("write", n.owner, IF WriteSlots(table, n.owner) = {} THEN -1 ELSE 0)
    /\ UNCHANGED <<exists, stage, info, zeroed>>

Read(p, o) ==
    /\ stage[p] = "in"
    /\ info' = IF Holds(table, o) THEN Entry(table, o) ELSE info
    /\ ret' = Returned("read", o, IF Holds(table, o) THEN 0 ELSE -1)
    /\ UNCHANGED <<exists, stage, table, zeroed>>

Check(p, o) ==
    /\ stage[p] = "in"
    /\ table' = CheckMemory(table, o)
    /\ ret' = Returned("check", o, IF Holds(table, o) THEN 0 ELSE -1)
    /\ UNCHANGED <<exists, stage, info, zeroed>>

\* The program ends, or is killed inside its constructor; a SysV segment stays.
Exit(p) ==
    /\ stage[p] # "out"
    /\ stage' = [stage EXCEPT ![p] = "out"]
    /\ UNCHANGED <<exists, table, ret, info, zeroed>>

\* The host restarts: the segment and every program are gone.
Reboot ==
    /\ exists
    /\ exists' = FALSE
    /\ stage' = [p \in Procs |-> "out"]
    /\ table' = ZeroTable(Slots)
    /\ zeroed' = FALSE
    /\ UNCHANGED <<ret, info>>

Next == \/ \E p \in Procs :
             \/ Open(p) \/ Zero(p) \/ Exit(p)
             \/ \E n \in Nodes : Write(p, n)
             \/ \E o \in Owners : Read(p, o) \/ Check(p, o)
        \/ Reboot

Spec == Init /\ [][Next]_segVars
-----------------------------------------------------------------------------
\* Type invariant: slots hold zeroes or whole nodes (Sec_Key_Memtory.h).
TypeOK == /\ exists \in BOOLEAN
          /\ stage \in [Procs -> {"out", "zero", "in"}]
          /\ table \in [Slots -> Nodes \cup {ZeroNode}]
          /\ ret \in [call : {"none", "write", "read", "check"},
                     owner : Owners \cup {NoOwner}, rv : {0, -1}]
          /\ info \in Nodes \cup {ZeroNode}
          /\ zeroed \in BOOLEAN

\* An owner never has two slots, so the first-hit scans of Read_Memory and
\* Check_Memory cannot meet a stale copy of the key Write_Memory replaced.
OneSlotPerOwner ==
    \A i, j \in Slots : table[i].owner = table[j].owner /\ table[i] # ZeroNode => i = j

\* No free slot precedes a used one: print_Memory and Read_Frist_Memory, which
\* looks at slot 0 alone, see a key whenever the table has one.
NoHoles ==
    \A i, j \in Slots : i < j /\ table[j] # ZeroNode => table[i] # ZeroNode

\* A program that starts, stops, reads, or writes another owner's key leaves an
\* owner's key alone, and no call ever drops a key.  The exceptions are a restart of
\* the host and one memset in the segment's life, that of its creator's constructor,
\* which may come after other programs have stored keys.
KeysSurvive ==
    [][ exists' /\ (zeroed' => zeroed)
        => \A o, q \in Owners :
              /\ Holds(table, o) => Holds(table', o)
              /\ Entry(table, o) # Entry(table', o) /\ Entry(table, q) # Entry(table', q)
                 => o = q ]_segVars

\* The array of slots implements the bounded map (WriteMemory, Read_Memory,
\* Check_Memory with their return codes).
Map == INSTANCE KeyMap WITH map <- [o \in Owners |-> Entry(table, o)]
ImplementsKeyMap == Map!MapSpec
=============================================================================
