------------------------------- MODULE KeyMap -------------------------------
(***************************************************************************)
(* What a key table promises the programs that share it: a map from owners *)
(* to key nodes that holds at most MaxNode of them.  Module KeySegment     *)
(* shows that the array of slots and its scans implement this map.         *)
(***************************************************************************)
EXTENDS Integers, FiniteSets, KeyTable

CONSTANTS Owners, Nodes, MaxNode

VARIABLES map,   \* the node of each owner, ZeroNode when it has none
          ret,   \* the last call and its result, 0 or -1
          info   \* the out-parameter of Read_Memory

mapVars == <<map, ret, info>>

Kept == {o \in Owners : map[o] # ZeroNode}

MapInit == /\ map = [o \in Owners |-> ZeroNode]
           /\ ret = NothingReturned
           /\ info = ZeroNode

Put(n) == /\ n.owner \in Kept \/ Cardinality(Kept) < MaxNode
          /\ map' = [map EXCEPT ![n.owner] = n]
          /\ ret' = Returned("write", n.owner, 0)
          /\ UNCHANGED info

\* A newcomer is refused, and only when the map is full.
Refuse(n) == /\ n.owner \notin Kept
             /\ Cardinality(Kept) = MaxNode
             /\ ret' = Returned("write", n.owner, -1)
             /\ UNCHANGED <<map, info>>

Get(o) == /\ UNCHANGED map
          /\ info' = IF o \in Kept THEN map[o] ELSE info
          /\ ret' = Returned("read", o, IF o \in Kept THEN 0 ELSE -1)

Revoke(o) == /\ map' = IF o \in Kept THEN [map EXCEPT ![o].status = 1] ELSE map
             /\ ret' = Returned("check", o, IF o \in Kept THEN 0 ELSE -1)
             /\ UNCHANGED info

\* The segment is gone, or a creator zeroes it: every key is lost at once.
LoseAll == /\ map' = [o \in Owners |-> ZeroNode]
           /\ UNCHANGED <<ret, info>>

MapNext == \/ \E n \in Nodes : Put(n) \/ Refuse(n)
           \/ \E o \in Owners : Get(o) \/ Revoke(o)
           \/ LoseAll

MapSpec == MapInit /\ [][MapNext]_mapVars
=============================================================================
