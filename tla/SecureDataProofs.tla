-------------------------- MODULE SecureDataProofs --------------------------
(***************************************************************************)
(* The theorems about programs that seal and open texts while keys are     *)
(* negotiated, for every number of clients, workers, negotiations and      *)
(* texts: who keeps the order OrderedIsUnderstood speaks of is understood. *)
(* They rest on the tables, on the counter and on what the workers are     *)
(* busy with; of cipher and Base64 they use only RoundTrip and             *)
(* CipherTypes, and say so.                                                *)
(***************************************************************************)
EXTENDS SecureData, KeyTableProofs

Messages == [id : Numbers, body : {Sealed[kt] : kt \in Keys \X Texts}, text : Texts, key : Keys,
             ordered : BOOLEAN]
Holders  == {"server", "client", "object"}

(* TypeOK without what the cipher computes.  A number in use is one the        *)
(* negotiations so far can have brought the counter to.                        *)
StateTypes ==
    /\ table \in [Programs -> [Slots -> Nodes]]
    /\ number \in [Programs -> MaybeNothing(Numbers)]
    /\ drawn \in 0..Len(NewKeys) /\ keysn \in 0..drawn + 1 /\ sent \in 0..MaxSent
    /\ job \in [Workers -> MaybeNothing(Jobs)]
    /\ \A w \in Busy : job[w].node.seckeyID <= drawn
    /\ offered \in [Clients -> MaybeNothing(Nodes)]
    /\ made \in [Clients -> MaybeNothing(Nodes)]
    /\ mail \in [Clients -> MaybeNothing(Messages)]
    /\ answer \in [Clients -> MaybeNothing(Messages)]
    /\ knows \in [Clients -> SUBSET Holders]
    /\ owed \subseteq Clients /\ caller \in MaybeNothing(Clients)

Honest(m) == m.body = Sealed[<<m.key, m.text>>]

(* Messages are what endataAES made, a client's nodes are its own, and a       *)
(* server that owes an answer has an object.                                   *)
MailInv == /\ \A c \in Clients : \A m \in {mail[c], answer[c]} : m # Nothing => Honest(m)
           /\ \A c \in Clients : \A n \in {offered[c], made[c]} : n # Nothing => n.owner = c
           /\ owed # {} => number[Server] \in Numbers

FirstSlot == FirstOf(Slots)
First(c)  == table[c][FirstSlot]

(* A client's table has its own key only, and that in the first slot.          *)
TablesInv == \A c \in Clients, i \in Slots :
                table[c][i] # ZeroNode => i = FirstSlot /\ table[c][i].owner = c

(* Slot i is the first the server has for c, and the slots with number k are   *)
(* all c's.                                                                    *)
FirstFor(i, c) == \A j \in Slots : table[Server][j].owner = c => i <= j
Proper(k, c)   == \A j \in Slots : table[Server][j].seckeyID = k => table[Server][j].owner = c

(* Worker w does nothing to slot i, if that is c's and has number k: it is     *)
(* busy for another client, under a later number or none, and with other slots.*)
Harmless(w, i, c, k) == /\ job[w].node.owner # c
                        /\ job[w].node.seckeyID # -1 => job[w].node.seckeyID > k
                        /\ job[w].step = "copy" => job[w].slot # i

(* What "server" \in knows[c] means.                                           *)
Kept(c, i, k) ==
    /\ made[c] # Nothing /\ table[Server][i] = made[c] /\ k = made[c].seckeyID
    /\ FirstFor(i, c) /\ Proper(k, c)
    /\ 0 <= k /\ k < keysn
    /\ \A w \in Busy : Harmless(w, i, c, k)
ServerInv == \A c \in Clients :
                "server" \in knows[c] => \E i \in Slots, k \in Numbers : Kept(c, i, k)

(* What a Consult comes to that no other meets: at its end the server has its  *)
(* node where it will look for it.                                             *)
Alone(w) ==
    LET n == job[w].node
        c == n.owner
    IN /\ Busy \subseteq {w} /\ c \in Clients
       /\ made[c] # Nothing /\ made[c] = n /\ n.seckeyID >= 0 /\ Proper(n.seckeyID, c)
       /\ job[w].step = "copy" => job[w].slot \in Slots /\ FirstFor(job[w].slot, c)
       /\ job[w].step = "count" => \E i \in Slots : table[Server][i] = n /\ FirstFor(i, c)
SoleInv == \A w \in Busy : job[w].sole => Alone(w)

InOrder(m) == m # Nothing /\ m.ordered
Fits(m, c) == m.id = made[c].seckeyID /\ m.key = made[c].seckey

(* What the other two marks mean, and which messages are sealed under the      *)
(* number of c's last negotiation.                                             *)
OrderOf(c) ==
    /\ "client" \in knows[c] => /\ made[c] # Nothing /\ First(c) = made[c]
                                /\ offered[c] = Nothing
    /\ "object" \in knows[c] => "client" \in knows[c] /\ number[c] = made[c].seckeyID
    /\ \A m \in {mail[c], answer[c]} : InOrder(m) => "client" \in knows[c] /\ Fits(m, c)
    /\ caller = c => /\ {"server", "client"} \subseteq knows[c]
                     /\ number[Server] = made[c].seckeyID

OrderInv == \A c \in Clients : OrderOf(c)

(* What was opened is one of the texts, sealed and opened with two keys of     *)
(* the instance.                                                               *)
LastHeard ==
    last = Listening \/ \E k, l \in Keys, t \in Texts :
                           /\ last.said = t /\ last.heard = Opened[<<l, Sealed[<<k, t>>]>>]
                           /\ last.sameKey = (l = k)

LastOrdered == last.ordered => last.sameKey

(* The part that holds whatever is negotiated, and all of it.                  *)
SoundInv  == StateTypes /\ MailInv /\ LastHeard
SecureInv == SoundInv /\ TablesInv /\ ServerInv /\ SoleInv /\ OrderInv /\ LastOrdered
-----------------------------------------------------------------------------
(* Facts about the constants.                                                  *)
LEMMA Constants ==
    /\ Len(NewKeys) \in Nat /\ \A n \in 1..Len(NewKeys) : NewKeys[n] \in Keys
    /\ FirstSlot \in Slots /\ \A i \in Slots : FirstSlot <= i
    /\ NoKey \in Keys /\ Junk \in Keys
    /\ ZeroNode \in Nodes
    /\ Server \in Programs /\ Clients \subseteq Programs
<1>1. Len(NewKeys) \in Nat /\ DOMAIN NewKeys = 1..Len(NewKeys)
  BY SecureDataAssumption
<1>2. FirstSlot \in Slots /\ \A i \in Slots : FirstSlot <= i
  <2>1. Slots \in SUBSET Nat /\ Slots # {}
    BY SecureDataAssumption
  <2>2. QED
    BY <2>1, FirstOfHit DEF FirstSlot
<1>3. NoKey \in Keys /\ Junk \in Keys
  BY DEF Keys
<1>4. \A n \in 1..Len(NewKeys) : NewKeys[n] \in Keys
  BY <1>1 DEF Keys
<1>5. ZeroNode \in Nodes
  BY <1>1, <1>3 DEF ZeroNode, Nodes, Numbers
<1>6. QED
  BY <1>1, <1>2, <1>3, <1>4, <1>5 DEF Programs

(* A free slot's node is nobody's and has number 0.                            *)
LEMMA ZeroFacts ==
    ZeroNode.owner = NoOwner /\ ZeroNode.owner \notin Clients /\ ZeroNode.seckeyID = 0
BY SecureDataAssumption DEF ZeroNode

(* A scan whose hits are among slots, of which it has the first.               *)
LEMMA FirstHit ==
    ASSUME NEW S \in SUBSET Slots, NEW i \in S, \A j \in S : i <= j
    PROVE  FirstOf(S) = i
<1> DEFINE f == FirstOf(S)
<1>1. S \in SUBSET Nat /\ S # {}
  BY SecureDataAssumption
<1>2. f \in S /\ \A j \in S : f <= j
  BY <1>1, FirstOfHit
<1> HIDE DEF f
<1>3. f \in Nat /\ i \in Nat /\ f <= i /\ i <= f
  BY <1>1, <1>2
<1>4. f = i
  BY <1>3
<1>5. QED
  BY <1>4 DEF f

(* Read_Memory by number takes the key of the first slot that has the number.  *)
LEMMA NumberRead ==
    ASSUME StateTypes, NEW p \in Programs, NEW i \in Slots,
           \A j \in Slots : table[p][j].seckeyID = table[p][i].seckeyID => i <= j
    PROVE  KeysRead(p, table[p][i].seckeyID) = {table[p][i].seckey}
<1> DEFINE S == NumberSlots(table[p], table[p][i].seckeyID)
<1>1. DOMAIN table[p] = Slots
  BY DEF StateTypes
<1>2. S \in SUBSET Slots /\ i \in S /\ \A j \in S : i <= j
  BY <1>1 DEF NumberSlots
<1>3. FirstOf(S) = i
  BY <1>2, FirstHit
<1>4. QED
  BY <1>2, <1>3 DEF KeysRead

(* So each side reads the key of c's last negotiation, as long as it has it.   *)
LEMMA ClientReads ==
    ASSUME StateTypes, OrderInv, NEW c \in Clients, "client" \in knows[c]
    PROVE  KeysRead(c, made[c].seckeyID) = {made[c].seckey}
<1>1. table[c][FirstSlot] = made[c]
  BY DEF OrderInv, OrderOf, First
<1>2. QED
  BY <1>1, NumberRead, Constants

LEMMA ServerReads ==
    ASSUME StateTypes, ServerInv, NEW c \in Clients, "server" \in knows[c]
    PROVE  KeysRead(Server, made[c].seckeyID) = {made[c].seckey}
<1>1. PICK i \in Slots, k \in Numbers : Kept(c, i, k)
  BY DEF ServerInv
<1>2. table[Server][i] = made[c] /\ k = made[c].seckeyID
  BY <1>1 DEF Kept
<1>3. \A j \in Slots : table[Server][j].seckeyID = table[Server][i].seckeyID => i <= j
  BY <1>1, <1>2 DEF Kept, Proper, FirstFor
<1>4. Server \in Programs
  BY Constants
<1>5. KeysRead(Server, table[Server][i].seckeyID) = {table[Server][i].seckey}
  BY <1>3, <1>4, NumberRead
<1>6. QED
  BY <1>2, <1>5

(* A client's table keeps its only node in the first slot.                     *)
LEMMA ClientWrites ==
    ASSUME StateTypes, TablesInv, NEW c \in Clients, NEW n \in Nodes, n.owner = c
    PROVE  WriteMemory(table[c], n) = [table[c] EXCEPT ![FirstSlot] = n]
<1> DEFINE t == table[c]
<1>1. DOMAIN t = Slots /\ c \in Programs
  BY Constants DEF StateTypes
<1>2. \A i \in Slots : t[i] # ZeroNode => i = FirstSlot /\ t[i].owner = c
  BY DEF TablesInv
<1>3. CASE Holds(t, c)
  <2>1. MatchSlots(t, c) = {FirstSlot}
    BY <1>1, <1>2, <1>3, ZeroFacts DEF Holds, MatchSlots
  <2>2. FirstOf({FirstSlot}) = FirstSlot
    <3>1. {FirstSlot} \in SUBSET Nat /\ {FirstSlot} # {}
      BY Constants, SecureDataAssumption
    <3>2. FirstOf({FirstSlot}) \in {FirstSlot}
      BY <3>1, FirstOfHit
    <3>3. QED
      BY <3>2
  <2>3. QED
    BY <1>3, <2>1, <2>2 DEF WriteMemory, WriteSlots
<1>4. CASE ~Holds(t, c)
  <2>1. FreeSlots(t) = Slots
    BY <1>1, <1>2, <1>4 DEF Holds, MatchSlots, FreeSlots
  <2>2. QED
    BY <1>4, <2>1, Constants DEF WriteMemory, WriteSlots, FirstSlot
<1>5. QED
  BY <1>3, <1>4

(* A key that is read is one of the instance's.                                *)
LEMMA KeysReadTypes ==
    ASSUME StateTypes, NEW p \in Programs, NEW n
    PROVE  KeysRead(p, n) \subseteq Keys
<1>1. DOMAIN table[p] = Slots /\ \A i \in Slots : table[p][i].seckey \in Keys
  BY DEF StateTypes, Nodes
<1>2. NumberSlots(table[p], n) \in SUBSET Slots
  BY <1>1 DEF NumberSlots
<1>3. NumberSlots(table[p], n) # {} => FirstOf(NumberSlots(table[p], n)) \in Slots
  BY <1>2, FirstOfHit, SecureDataAssumption
<1>4. QED
  BY <1>1, <1>3, Constants DEF KeysRead

(* What endataAES makes is a message.                                          *)
LEMMA Sealing ==
    ASSUME StateTypes, NEW p \in Programs, number[p] \in Numbers, NEW t \in TextsOf[p],
           NEW key \in KeysRead(p, number[p]), NEW b \in BOOLEAN
    PROVE  LET m == endataAES(p, t, key, b)
           IN /\ m \in Messages /\ Honest(m)
              /\ m.id = number[p] /\ m.key = key /\ m.ordered = b
<1>1. number[p] \in Numbers /\ t \in Texts /\ key \in Keys
  BY KeysReadTypes DEF Texts
<1>2. Sealed[<<key, t>>] \in {Sealed[kt] : kt \in Keys \X Texts}
  BY <1>1
<1>3. QED
  BY <1>1, <1>2 DEF endataAES, Message, Messages, Honest

(* A message that is disturbed stays what it is, out of order.                 *)
LEMMA Disturbing ==
    ASSUME NEW m \in MaybeNothing(Messages)
    PROVE  /\ Disturbed(m) \in MaybeNothing(Messages)
           /\ Disturbed(m) # Nothing => /\ Disturbed(m).ordered = FALSE
                                        /\ m # Nothing /\ (Honest(m) => Honest(Disturbed(m)))
BY DEF Disturbed, MaybeNothing, Messages, Honest

(* The object's WriteMemory keeps a table a table.                             *)
LEMMA TableTypes ==
    ASSUME StateTypes, NEW p \in Programs, NEW n \in Nodes
    PROVE  [table EXCEPT ![p] = WriteMemory(@, n)] \in [Programs -> [Slots -> Nodes]]
<1>1. WriteMemory(table[p], n) \in [Slots -> Nodes]
  BY WriteInTable, SecureDataAssumption DEF StateTypes
<1>2. QED
  BY <1>1 DEF StateTypes

LEMMA InitiallySecure == Init => SecureInv
<1> SUFFICES ASSUME Init PROVE SecureInv
  OBVIOUS
<1>1. \A p \in Programs : table[p] = ZeroTable(Slots)
  BY DEF Init
<1>2. \A p \in Programs, i \in Slots : table[p][i] = ZeroNode
  BY <1>1 DEF ZeroTable
<1>3. Busy = {}
  BY DEF Init, Busy
<1>4. StateTypes
  <2>1. table \in [Programs -> [Slots -> Nodes]]
    BY Constants DEF Init, ZeroTable
  <2>2. /\ number \in [Programs -> MaybeNothing(Numbers)]
        /\ job \in [Workers -> MaybeNothing(Jobs)]
        /\ offered \in [Clients -> MaybeNothing(Nodes)]
        /\ made \in [Clients -> MaybeNothing(Nodes)]
        /\ mail \in [Clients -> MaybeNothing(Messages)]
        /\ answer \in [Clients -> MaybeNothing(Messages)]
        /\ knows \in [Clients -> SUBSET Holders]
    BY DEF Init, MaybeNothing
  <2>3. drawn \in 0..Len(NewKeys) /\ keysn \in 0..drawn + 1 /\ sent \in 0..MaxSent
    BY Constants, SecureDataAssumption DEF Init
  <2>4. QED
    BY <1>3, <2>1, <2>2, <2>3 DEF Init, StateTypes, MaybeNothing
<1>5. MailInv
  BY DEF Init, MailInv
<1>6. TablesInv
  BY <1>2, Constants DEF TablesInv
<1>7. ServerInv /\ SoleInv
  BY <1>3 DEF Init, ServerInv, SoleInv
<1>8. OrderInv
  BY SecureDataAssumption DEF Init, OrderInv, OrderOf, InOrder
<1>9. LastHeard /\ LastOrdered
  BY DEF Init, LastHeard, LastOrdered, Listening
<1>10. QED
  BY <1>4, <1>5, <1>6, <1>7, <1>8, <1>9 DEF SecureInv, SoundInv

(* What Respond does.  The Consult it begins has no other beside it if it is   *)
(* sole, and the others are not sole any longer.                               *)
LEMMA Responding ==
    ASSUME StateTypes, NEW w \in Workers, NEW c \in Clients, Respond(w, c)
    PROVE  /\ drawn < Len(NewKeys) /\ drawn' = drawn + 1
           /\ \E node \in Nodes :
                /\ node.owner = c /\ node.seckeyID \in {keysn, -1}
                /\ made' = [made EXCEPT ![c] = node]
                /\ offered' = [offered EXCEPT ![c] = node] \/ UNCHANGED offered
                /\ job' \in [Workers -> MaybeNothing(Jobs)]
                /\ \A x \in Workers : \/ job'[x] = Nothing
                                      \/ /\ x \in Busy /\ ~job'[x].sole
                                         /\ job'[x].node = job[x].node
                                         /\ job'[x].step = job[x].step
                                         /\ job'[x].slot = job[x].slot
                                      \/ /\ x = w /\ job'[x].node = node
                                         /\ job'[x].step = "scan"
                                         /\ job'[x].sole => /\ Busy = {} /\ node.seckeyID # -1
                                                            /\ Proper(node.seckeyID, c)
<1>1. drawn < Len(NewKeys) /\ drawn' = drawn + 1 /\ w \notin Busy
  BY DEF Respond
<1> DEFINE Node(n) == [status |-> 0, seckeyID |-> n, owner |-> c, seckey |-> NewKeys[drawn + 1]]
           Sole(n) == n # -1 /\ Busy = {} /\ Proper(n, c)
           Others  == [x \in Workers |-> IF x \in Busy THEN [job[x] EXCEPT !.sole = FALSE]
                                         ELSE Nothing]
           New(n)  == [node |-> Node(n), step |-> "scan", slot |-> 0, sole |-> Sole(n)]
<1>2. PICK n \in {keysn} \union (IF "number" \in Mishaps THEN {-1} ELSE {}) :
         /\ \/ n # -1 /\ job' = [Others EXCEPT ![w] = New(n)]
                      /\ offered' = [offered EXCEPT ![c] = Node(n)]
            \/ (n = -1 \/ "answer" \in Mishaps)
                      /\ job' \in {[Others EXCEPT ![w] = New(n)], Others} /\ UNCHANGED offered
         /\ made' = [made EXCEPT ![c] = Node(n)]
  BY DEF Respond, Proper
<1>3. n \in {keysn, -1} /\ n \in Numbers
  BY <1>1, <1>2, Constants DEF StateTypes, Numbers
<1>4. Node(n) \in Nodes /\ Node(n).owner = c /\ Node(n).seckeyID = n
  <2>1. NewKeys[drawn + 1] \in Keys
    <3>1. Len(NewKeys) \in Nat /\ \A k \in 1..Len(NewKeys) : NewKeys[k] \in Keys
      BY Constants
    <3>2. drawn + 1 \in 1..Len(NewKeys)
      BY <1>1, <3>1 DEF StateTypes
    <3>3. QED
      BY <3>1, <3>2
  <2>2. QED
    BY <1>3, <2>1 DEF Nodes
<1>5. Sole(n) => Busy = {} /\ n # -1 /\ Proper(n, c)
  OBVIOUS
<1>6. \A x \in Busy : job[x] \in Jobs /\ x \in Workers
  BY DEF StateTypes, Busy, MaybeNothing
<1>7. /\ New(n) \in Jobs /\ New(n).node = Node(n) /\ New(n).step = "scan"
      /\ New(n).sole = Sole(n)
  BY <1>4 DEF Jobs
<1>8. \A x \in Busy : LET j == [job[x] EXCEPT !.sole = FALSE]
                      IN /\ j \in Jobs /\ ~j.sole /\ j.node = job[x].node
                         /\ j.step = job[x].step /\ j.slot = job[x].slot
  BY <1>6 DEF Jobs
<1> HIDE DEF Sole, New, Node
<1>9. Others \in [Workers -> MaybeNothing(Jobs)]
  BY <1>8 DEF MaybeNothing
<1>10. \A x \in Workers :
          Others[x] = Nothing \/ (x \in Busy /\ Others[x] = [job[x] EXCEPT !.sole = FALSE])
  OBVIOUS
<1>11. job' = [Others EXCEPT ![w] = New(n)] \/ job' = Others
  BY <1>2
<1> HIDE DEF Others
<1>12. job' \in [Workers -> MaybeNothing(Jobs)]
  BY <1>7, <1>9, <1>11 DEF MaybeNothing
<1>13. \A x \in Workers : job'[x] = Others[x] \/ (x = w /\ job'[x] = New(n))
  BY <1>9, <1>11
<1>14. ASSUME NEW x \in Workers
       PROVE  \/ job'[x] = Nothing
              \/ /\ x \in Busy /\ ~job'[x].sole
                 /\ job'[x].node = job[x].node
                 /\ job'[x].step = job[x].step
                 /\ job'[x].slot = job[x].slot
              \/ /\ x = w /\ job'[x].node = Node(n)
                 /\ job'[x].step = "scan"
                 /\ job'[x].sole => /\ Busy = {} /\ Node(n).seckeyID # -1
                                    /\ Proper(Node(n).seckeyID, c)
  <2>1. CASE x = w /\ job'[x] = New(n)
    BY <1>4, <1>5, <1>7, <2>1
  <2>2. CASE job'[x] = Others[x]
    <3>1. CASE Others[x] = Nothing
      BY <2>2, <3>1
    <3>2. CASE x \in Busy /\ Others[x] = [job[x] EXCEPT !.sole = FALSE]
      BY <1>8, <2>2, <3>2
    <3>3. QED
      BY <1>10, <3>1, <3>2
  <2>3. QED
    BY <1>13, <2>1, <2>2
<1>15. offered' = [offered EXCEPT ![c] = Node(n)] \/ UNCHANGED offered
  BY <1>2
<1>16. QED
  BY <1>1, <1>2, <1>3, <1>4, <1>12, <1>14, <1>15

(* The slot that Scan finds.                                                   *)
LEMMA Scanning ==
    ASSUME StateTypes, NEW w \in Workers, Scan(w)
    PROVE  /\ w \in Busy /\ job[w] \in Jobs /\ job[w].step = "scan"
           /\ \/ job' = [job EXCEPT ![w].step = "count", ![w].sole = FALSE]
              \/ \E i \in Slots :
                    /\ job' = [job EXCEPT ![w].step = "copy", ![w].slot = i]
                    /\ FirstFor(i, job[w].node.owner)
                    /\ table[Server][i].owner \in {job[w].node.owner, NoOwner}
<1>1. w \in Busy /\ job[w] \in Jobs /\ job[w].step = "scan"
  BY DEF Scan, At, Busy, StateTypes, MaybeNothing
<1> DEFINE o == job[w].node.owner
           S == WriteSlots(table[Server], o)
<1>2. DOMAIN table[Server] = Slots
  BY Constants DEF StateTypes
<1>3. IF S = {} THEN job' = [job EXCEPT ![w].step = "count", ![w].sole = FALSE]
      ELSE job' = [job EXCEPT ![w].step = "copy", ![w].slot = FirstOf(S)]
  BY DEF Scan
<1>4. CASE S = {}
  BY <1>1, <1>3, <1>4
<1>5. CASE S # {}
  <2> DEFINE i == FirstOf(S)
  <2>1. S \in SUBSET Slots
    BY <1>2 DEF WriteSlots, MatchSlots, FreeSlots
  <2>2. i \in S /\ \A j \in S : i <= j
    BY <1>5, <2>1, FirstOfHit, SecureDataAssumption
  <2>3. job' = [job EXCEPT ![w].step = "copy", ![w].slot = i]
    BY <1>3, <1>5
  <2> HIDE DEF i
  <2>4. CASE Holds(table[Server], o)
    BY <1>1, <1>2, <2>1, <2>2, <2>3, <2>4 DEF WriteSlots, MatchSlots, FirstFor
  <2>5. CASE ~Holds(table[Server], o)
    <3>1. \A j \in Slots : table[Server][j].owner # o
      BY <1>2, <2>5 DEF Holds, MatchSlots
    <3>2. table[Server][i] = ZeroNode
      BY <2>2, <2>5 DEF WriteSlots, FreeSlots
    <3>3. QED
      BY <1>1, <2>1, <2>2, <2>3, <3>1, <3>2, ZeroFacts DEF FirstFor
  <2>6. QED
    BY <2>4, <2>5
<1>6. QED
  BY <1>4, <1>5

(* What Copy and Count do to the tables, and to what the workers are busy with.*)
LEMMA Copying ==
    ASSUME StateTypes, NEW w \in Workers, Copy(w)
    PROVE  /\ w \in Busy /\ job[w] \in Jobs /\ job[w].step = "copy"
           /\ job' = [job EXCEPT ![w].step = "count", ![w].slot = 0]
           /\ \A p \in Programs \ {Server} : table'[p] = table[p]
           /\ \A i \in Slots : table'[Server][i] = IF i = job[w].slot THEN job[w].node
                                                  ELSE table[Server][i]
           /\ table' \in [Programs -> [Slots -> Nodes]]
<1>1. w \in Busy /\ job[w] \in Jobs /\ job[w].step = "copy"
  BY DEF Copy, At, Busy, StateTypes, MaybeNothing
<1>2. job[w].node \in Nodes
  BY <1>1 DEF Jobs
<1>3. /\ table' = [table EXCEPT ![Server][job[w].slot] = job[w].node]
      /\ job' = [job EXCEPT ![w].step = "count", ![w].slot = 0]
  BY DEF Copy
<1>4. table \in [Programs -> [Slots -> Nodes]] /\ Server \in Programs
  BY Constants DEF StateTypes
<1>5. QED
  BY <1>1, <1>2, <1>3, <1>4

LEMMA Counting ==
    ASSUME StateTypes, NEW w \in Workers, Count(w)
    PROVE  /\ w \in Busy /\ job[w] \in Jobs /\ job[w].step = "count"
           /\ job' = [job EXCEPT ![w] = Nothing]
           /\ \/ /\ keysn' = job[w].node.seckeyID + 1
                 /\ \A c \in Clients :
                       knows'[c] = IF keysn' = 0 THEN knows[c] \ {"server"}
                                   ELSE IF c = job[w].node.owner /\ job[w].sole
                                        THEN knows[c] \union {"server"} ELSE knows[c]
                 /\ caller' = IF keysn' = 0 THEN Nothing ELSE caller
              \/ UNCHANGED <<keysn, knows, caller>>
           /\ knows' \in [Clients -> SUBSET Holders]
           /\ UNCHANGED <<table, number, drawn, made, offered, posts>>
<1>1. w \in Busy /\ job[w] \in Jobs /\ job[w].step = "count"
  BY DEF Count, At, Busy, StateTypes, MaybeNothing
<1>2. knows \in [Clients -> SUBSET Holders]
  BY DEF StateTypes
<1>3. \/ /\ keysn' = job[w].node.seckeyID + 1
         /\ knows' = [c \in Clients |->
                        IF keysn' = 0 THEN knows[c] \ {"server"}
                        ELSE IF c = job[w].node.owner /\ job[w].sole
                             THEN knows[c] \union {"server"} ELSE knows[c]]
         /\ caller' = IF keysn' = 0 THEN Nothing ELSE caller
      \/ UNCHANGED <<keysn, knows, caller>>
  BY DEF Count
<1>4. knows' \in [Clients -> SUBSET Holders]
  BY <1>2, <1>3 DEF Holders
<1>5. QED
  BY <1>1, <1>3, <1>4 DEF Count

(* Who is busy after a step of w, and with what.                               *)
LEMMA BusyAfter ==
    ASSUME StateTypes, NEW w \in Workers, w \in Busy, job[w] \in Jobs,
           NEW j \in MaybeNothing(Jobs), job' = [job EXCEPT ![w] = j]
    PROVE  /\ job' \in [Workers -> MaybeNothing(Jobs)]
           /\ job'[w] = j /\ \A x \in Workers \ {w} : job'[x] = job[x]
           /\ Busy' \subseteq Busy /\ \A x \in Busy' : x = w \/ (x \in Busy /\ job'[x] = job[x])
<1>1. job \in [Workers -> MaybeNothing(Jobs)]
  BY DEF StateTypes
<1>2. job' \in [Workers -> MaybeNothing(Jobs)] /\ job'[w] = j
      /\ \A x \in Workers \ {w} : job'[x] = job[x]
  BY <1>1
<1>3. QED
  BY <1>2 DEF Busy

LEMMA TypesKept == StateTypes /\ MailInv /\ [Next]_vars => StateTypes' /\ MailInv'
<1> SUFFICES ASSUME StateTypes, MailInv, [Next]_vars PROVE StateTypes' /\ MailInv'
  OBVIOUS
<1> USE DEF MaybeNothing
<1>1. ASSUME NEW w \in Workers, NEW c \in Clients, Respond(w, c) PROVE StateTypes' /\ MailInv'
  <2>1. drawn < Len(NewKeys) /\ drawn' = drawn + 1
    BY <1>1, Responding
  <2>2. PICK node \in Nodes :
           /\ node.owner = c /\ node.seckeyID \in {keysn, -1}
           /\ made' = [made EXCEPT ![c] = node]
           /\ offered' = [offered EXCEPT ![c] = node] \/ UNCHANGED offered
           /\ job' \in [Workers -> MaybeNothing(Jobs)]
           /\ \A x \in Workers : \/ job'[x] = Nothing
                                 \/ x \in Busy /\ job'[x].node = job[x].node
                                 \/ job'[x].node = node
    BY <1>1, Responding
  <2>3. /\ mail' = [mail EXCEPT ![c] = Disturbed(@)]
        /\ answer' = [answer EXCEPT ![c] = Disturbed(@)]
        /\ knows' = [knows EXCEPT ![c] = {}]
        /\ caller' \in {caller, Nothing}
        /\ UNCHANGED <<table, number, keysn, sent, owed>>
    BY <1>1 DEF Respond
  <2>4. /\ mail' \in [Clients -> MaybeNothing(Messages)]
        /\ answer' \in [Clients -> MaybeNothing(Messages)]
    BY <2>3, Disturbing DEF StateTypes
  <2>5. drawn' \in 0..Len(NewKeys) /\ keysn' \in 0..drawn' + 1
    BY <2>1, <2>3, Constants DEF StateTypes
  <2>6. \A w2 \in Busy' : job'[w2].node.seckeyID <= drawn'
    <3> SUFFICES ASSUME NEW x \in Workers, job'[x] # Nothing
                 PROVE  job'[x].node.seckeyID <= drawn'
      BY DEF Busy
    <3>1. CASE x \in Busy /\ job'[x].node = job[x].node
      <4>1. job[x].node.seckeyID <= drawn /\ job[x].node.seckeyID \in Int
        BY <3>1, Constants DEF StateTypes, Busy, Jobs, Nodes, Numbers
      <4>2. QED
        BY <2>1, <3>1, <4>1 DEF StateTypes
    <3>2. CASE job'[x].node = node
      BY <2>1, <2>2, <3>2 DEF StateTypes
    <3>3. QED
      BY <2>2, <3>1, <3>2
  <2>7. /\ offered' \in [Clients -> MaybeNothing(Nodes)]
        /\ made' \in [Clients -> MaybeNothing(Nodes)]
        /\ knows' \in [Clients -> SUBSET Holders]
    BY <2>2, <2>3 DEF StateTypes
  <2>8. StateTypes'
    BY <2>2, <2>3, <2>4, <2>5, <2>6, <2>7 DEF StateTypes
  <2>9. MailInv'
    <3>1. ASSUME NEW d \in Clients, mail'[d] # Nothing PROVE Honest(mail'[d])
      BY <2>3, <3>1, Disturbing DEF StateTypes, MailInv
    <3>2. ASSUME NEW d \in Clients, answer'[d] # Nothing PROVE Honest(answer'[d])
      BY <2>3, <3>2, Disturbing DEF StateTypes, MailInv
    <3>3. owed' # {} => number'[Server] \in Numbers
      BY <2>3 DEF MailInv
    <3>4. ASSUME NEW d \in Clients PROVE offered'[d] # Nothing => offered'[d].owner = d
      BY <2>2 DEF StateTypes, MailInv
    <3>5. ASSUME NEW d \in Clients PROVE made'[d] # Nothing => made'[d].owner = d
      BY <2>2 DEF StateTypes, MailInv
    <3>6. QED
      BY <3>1, <3>2, <3>3, <3>4, <3>5 DEF MailInv, Honest
  <2>10. QED
    BY <2>8, <2>9
<1>2. ASSUME NEW w \in Workers, Scan(w) PROVE StateTypes' /\ MailInv'
  <2>1. w \in Busy /\ job[w] \in Jobs
    BY <1>2, Scanning
  <2>2. PICK j \in Jobs : j.node = job[w].node /\ job' = [job EXCEPT ![w] = j]
    <3>1. \/ job' = [job EXCEPT ![w].step = "count", ![w].sole = FALSE]
          \/ \E i \in Slots : job' = [job EXCEPT ![w].step = "copy", ![w].slot = i]
      BY <1>2, Scanning
    <3>2. CASE job' = [job EXCEPT ![w].step = "count", ![w].sole = FALSE]
      <4> DEFINE j == [job[w] EXCEPT !.step = "count", !.sole = FALSE]
      <4>1. j \in Jobs /\ j.node = job[w].node /\ job' = [job EXCEPT ![w] = j]
        BY <2>1, <3>2 DEF Jobs, StateTypes
      <4>2. QED
        BY <4>1
    <3>3. ASSUME NEW i \in Slots, job' = [job EXCEPT ![w].step = "copy", ![w].slot = i]
          PROVE  \E j \in Jobs : j.node = job[w].node /\ job' = [job EXCEPT ![w] = j]
      <4> DEFINE j == [job[w] EXCEPT !.step = "copy", !.slot = i]
      <4>1. j \in Jobs /\ j.node = job[w].node /\ job' = [job EXCEPT ![w] = j]
        BY <2>1, <3>3 DEF Jobs, StateTypes
      <4>2. QED
        BY <4>1
    <3>4. QED
      BY <3>1, <3>2, <3>3
  <2>3. /\ job' \in [Workers -> MaybeNothing(Jobs)]
        /\ \A x \in Busy' : x \in Busy /\ job'[x].node = job[x].node
    BY <2>1, <2>2, BusyAfter
  <2>4. UNCHANGED <<table, number, keysn, drawn, made, offered, posts, knows, caller>>
    BY <1>2 DEF Scan
  <2>5. QED
    BY <2>3, <2>4 DEF StateTypes, MailInv, Honest, posts
<1>3. ASSUME NEW w \in Workers, Copy(w) PROVE StateTypes' /\ MailInv'
  <2>1. /\ w \in Busy /\ job[w] \in Jobs
        /\ job' = [job EXCEPT ![w].step = "count", ![w].slot = 0]
        /\ table' \in [Programs -> [Slots -> Nodes]]
    BY <1>3, Copying
  <2> DEFINE j == [job[w] EXCEPT !.step = "count", !.slot = 0]
  <2>2. j \in Jobs /\ j.node = job[w].node /\ job' = [job EXCEPT ![w] = j]
    BY <2>1 DEF Jobs, StateTypes
  <2> HIDE DEF j
  <2>3. /\ job' \in [Workers -> MaybeNothing(Jobs)] /\ job'[w] = j
        /\ \A x \in Busy' : x = w \/ (x \in Busy /\ job'[x] = job[x])
    <3>1. j \in MaybeNothing(Jobs)
      BY <2>2
    <3>2. QED
      BY <2>1, <2>2, <3>1, BusyAfter
  <2>4. \A x \in Busy' : x \in Busy /\ job'[x].node = job[x].node
    BY <2>1, <2>2, <2>3
  <2>5. UNCHANGED <<number, keysn, drawn, made, offered, posts, knows, caller>>
    BY <1>3 DEF Copy
  <2>6. /\ UNCHANGED <<number, keysn, drawn, made, offered, sent, mail, answer, owed>>
        /\ UNCHANGED <<knows, caller>>
    BY <2>5 DEF posts
  <2>7. \A x \in Busy' : job'[x].node.seckeyID <= drawn'
    BY <2>4, <2>6 DEF StateTypes
  <2>8. StateTypes'
    BY <2>1, <2>3, <2>6, <2>7 DEF StateTypes
  <2>9. MailInv'
    BY <2>6 DEF MailInv, Honest
  <2>10. QED
    BY <2>8, <2>9
<1>4. ASSUME NEW w \in Workers, Count(w) PROVE StateTypes' /\ MailInv'
  <2>1. /\ w \in Busy /\ job[w] \in Jobs /\ job' = [job EXCEPT ![w] = Nothing]
        /\ keysn' = job[w].node.seckeyID + 1 \/ keysn' = keysn
        /\ knows' \in [Clients -> SUBSET Holders]
        /\ caller' \in {caller, Nothing}
        /\ UNCHANGED <<table, number, drawn, made, offered, posts>>
    BY <1>4, Counting
  <2>2. /\ job' \in [Workers -> MaybeNothing(Jobs)]
        /\ job'[w] = Nothing /\ \A x \in Busy' : x = w \/ (x \in Busy /\ job'[x] = job[x])
    BY <2>1, BusyAfter
  <2>3. \A x \in Busy' : x \in Busy /\ job'[x] = job[x]
    BY <2>2 DEF Busy
  <2>4. keysn' \in 0..drawn' + 1
    <3>1. job[w].node.seckeyID \in -1..Len(NewKeys) /\ job[w].node.seckeyID <= drawn
      BY <2>1 DEF StateTypes, Jobs, Nodes, Numbers
    <3>2. QED
      BY <2>1, <3>1, Constants DEF StateTypes
  <2>5. QED
    BY <2>1, <2>2, <2>3, <2>4 DEF StateTypes, MailInv, Honest, posts
<1>5. ASSUME KillServer PROVE StateTypes' /\ MailInv'
  <2>1. job' \in [Workers -> MaybeNothing(Jobs)] /\ Busy' = {}
    BY <1>5 DEF KillServer, Busy
  <2>2. UNCHANGED <<table, number, keysn, drawn, made, offered, posts, knows, caller>>
    BY <1>5 DEF KillServer
  <2>3. QED
    BY <2>1, <2>2 DEF StateTypes, MailInv, Honest, posts
<1>6. ASSUME NEW c \in Clients, ClientStores(c) PROVE StateTypes' /\ MailInv'
  <2>1. offered[c] \in Nodes /\ table' = [table EXCEPT ![c] = WriteMemory(@, offered[c])]
    BY <1>6 DEF ClientStores, StateTypes
  <2>2. table' \in [Programs -> [Slots -> Nodes]]
    BY <2>1, TableTypes, Constants
  <2>3. /\ offered' = [offered EXCEPT ![c] = Nothing]
        /\ knows' \in {knows, [knows EXCEPT ![c] = @ \union {"client"}]}
        /\ UNCHANGED <<number, keys, posts, caller>>
    BY <1>6 DEF ClientStores
  <2>4. /\ offered' \in [Clients -> MaybeNothing(Nodes)]
        /\ knows' \in [Clients -> SUBSET Holders]
        /\ \A d \in Clients : offered'[d] \in {offered[d], Nothing}
    BY <2>3 DEF StateTypes, Holders
  <2>5. StateTypes'
    BY <2>2, <2>3, <2>4 DEF StateTypes, keys, posts, Busy
  <2>6. MailInv'
    BY <2>3, <2>4 DEF MailInv, Honest, keys, posts
  <2>7. QED
    BY <2>5, <2>6
<1>7. ASSUME NEW c \in Clients, AnswerLost(c) PROVE StateTypes' /\ MailInv'
  <2>1. /\ offered' = [offered EXCEPT ![c] = Nothing]
        /\ UNCHANGED <<table, number, keys, posts, knows, caller>>
    BY <1>7 DEF AnswerLost
  <2>2. /\ offered' \in [Clients -> MaybeNothing(Nodes)]
        /\ \A d \in Clients : offered'[d] \in {offered[d], Nothing}
    BY <2>1 DEF StateTypes
  <2>3. StateTypes'
    BY <2>1, <2>2 DEF StateTypes, keys, posts, Busy
  <2>4. MailInv'
    BY <2>1, <2>2 DEF MailInv, Honest, keys, posts
  <2>5. QED
    BY <2>3, <2>4
<1>8. ASSUME NEW p \in Programs, SecKey(p) PROVE StateTypes' /\ MailInv'
  <2>1. FirstNumber(table[p]) \in Numbers
    BY Constants DEF FirstNumber, FirstSlot, StateTypes, Nodes
  <2>2. /\ number' = [number EXCEPT ![p] = FirstNumber(table[p])]
        /\ knows' \in {knows, [knows EXCEPT ![p] = @ \union {"object"}]}
        /\ caller' \in {caller, Nothing}
        /\ UNCHANGED <<table, keys, offered, posts>>
    BY <1>8 DEF SecKey
  <2>3. knows' \in [Clients -> SUBSET Holders]
    BY <2>2 DEF StateTypes, Holders
  <2>4. StateTypes'
    BY <2>1, <2>2, <2>3 DEF StateTypes, keys, posts, Busy
  <2>5. owed # {} => number'[Server] \in Numbers
    BY <2>1, <2>2 DEF MailInv, StateTypes
  <2>6. MailInv'
    BY <2>2, <2>5 DEF MailInv, Honest, keys, posts
  <2>7. QED
    BY <2>4, <2>6
<1>9. ASSUME NEW c \in Clients, Send(c) PROVE StateTypes' /\ MailInv'
  <2> DEFINE b == {"client", "object"} \subseteq knows[c]
  <2>1. PICK t \in TextsOf[c], key \in KeysRead(c, number[c]) :
           mail' = [mail EXCEPT ![c] = endataAES(c, t, key, b)]
    BY <1>9 DEF Send
  <2>2. number[c] \in Numbers /\ b \in BOOLEAN
    BY <1>9, Constants DEF Send, StateTypes
  <2> HIDE DEF b
  <2> DEFINE m == endataAES(c, t, key, b)
  <2>3. m \in Messages /\ Honest(m)
    BY <2>1, <2>2, Sealing, Constants
  <2>4. mail' = [mail EXCEPT ![c] = m]
    BY <2>1
  <2> HIDE DEF m
  <2>5. /\ sent' \in 0..MaxSent
        /\ UNCHANGED <<table, number, keys, offered, answer, owed, knows, caller>>
    BY <1>9, SecureDataAssumption DEF Send, StateTypes
  <2>6. StateTypes'
    BY <2>3, <2>4, <2>5 DEF StateTypes, keys, Busy
  <2>7. MailInv'
    BY <2>3, <2>4, <2>5 DEF MailInv, Honest, keys, StateTypes
  <2>8. QED
    BY <2>6, <2>7
<1>10. ASSUME NEW c \in Clients, Receive(c) PROVE StateTypes' /\ MailInv'
  <2>1. mail[c] \in Messages /\ mail[c].id \in Numbers
    BY <1>10 DEF Receive, StateTypes, Messages
  <2>2. /\ number' = [number EXCEPT ![Server] = mail[c].id]
        /\ mail' = [mail EXCEPT ![c] = Nothing]
        /\ owed' = owed \union {c}
        /\ caller' \in {c, Nothing}
        /\ UNCHANGED <<table, keys, offered, sent, answer, knows>>
    BY <1>10 DEF Receive, dedataAES
  <2>3. StateTypes' /\ number'[Server] = mail[c].id
    BY <2>1, <2>2, Constants DEF StateTypes, keys, Busy
  <2>4. \A d \in Clients : mail'[d] \in {mail[d], Nothing} /\ answer'[d] = answer[d]
    BY <2>2 DEF StateTypes
  <2>5. \A d \in Clients : \A m \in {mail'[d], answer'[d]} : m # Nothing => Honest(m)
    BY <2>4 DEF MailInv
  <2>6. MailInv'
    BY <2>1, <2>2, <2>3, <2>5 DEF MailInv, Honest, keys
  <2>7. QED
    BY <2>3, <2>6
<1>11. ASSUME NEW c \in Clients, Answer(c) PROVE StateTypes' /\ MailInv'
  <2> DEFINE b == caller = c
  <2>1. PICK t \in TextsOf[Server], key \in KeysRead(Server, number[Server]) :
           answer' = [answer EXCEPT ![c] = endataAES(Server, t, key, b)]
    BY <1>11 DEF Answer
  <2>2. number[Server] \in Numbers /\ b \in BOOLEAN
    BY <1>11 DEF Answer, MailInv
  <2> HIDE DEF b
  <2> DEFINE m == endataAES(Server, t, key, b)
  <2>3. m \in Messages /\ Honest(m)
    BY <2>1, <2>2, Sealing, Constants
  <2>4. answer' = [answer EXCEPT ![c] = m]
    BY <2>1
  <2> HIDE DEF m
  <2>5. /\ owed' = owed \ {c}
        /\ UNCHANGED <<table, number, keys, offered, sent, mail, knows, caller>>
    BY <1>11 DEF Answer
  <2>6. StateTypes'
    BY <2>3, <2>4, <2>5 DEF StateTypes, keys, Busy
  <2>7. MailInv'
    BY <2>3, <2>4, <2>5 DEF MailInv, Honest, keys, StateTypes
  <2>8. QED
    BY <2>6, <2>7
<1>12. ASSUME NEW c \in Clients, Read(c) PROVE StateTypes' /\ MailInv'
  <2>1. answer[c] \in Messages /\ answer[c].id \in Numbers
    BY <1>12 DEF Read, StateTypes, Messages
  <2>2. /\ number' = [number EXCEPT ![c] = answer[c].id]
        /\ answer' = [answer EXCEPT ![c] = Nothing]
        /\ knows' \in {knows, [knows EXCEPT ![c] = @ \ {"object"}]}
        /\ UNCHANGED <<table, keys, offered, sent, mail, owed, caller>>
    BY <1>12 DEF Read, dedataAES
  <2>3. knows' \in [Clients -> SUBSET Holders]
    BY <2>2 DEF StateTypes
  <2>4. StateTypes'
    BY <2>1, <2>2, <2>3 DEF StateTypes, keys, Busy
  <2>5. number'[Server] = number[Server]
    BY <2>2, Constants, SecureDataAssumption DEF StateTypes
  <2>6. \A d \in Clients : answer'[d] \in {answer[d], Nothing} /\ mail'[d] = mail[d]
    BY <2>2 DEF StateTypes
  <2>7. \A d \in Clients : \A m \in {mail'[d], answer'[d]} : m # Nothing => Honest(m)
    BY <2>6 DEF MailInv
  <2>8. MailInv'
    BY <2>2, <2>5, <2>7 DEF MailInv, Honest, keys
  <2>9. QED
    BY <2>4, <2>8
<1>13. CASE UNCHANGED vars
  BY <1>13 DEF vars, keys, posts, Busy, StateTypes, MailInv, Honest
<1>14. QED
  BY <1>1, <1>2, <1>3, <1>4, <1>5, <1>6, <1>7, <1>8, <1>9, <1>10, <1>11, <1>12, <1>13
     DEF Next, Consult

(* What the storing of an answer does to the tables.                           *)
LEMMA ClientWritesSlot ==
    ASSUME StateTypes, MailInv, TablesInv, NEW c \in Clients, ClientStores(c)
    PROVE  /\ table'[c][FirstSlot] = offered[c]
           /\ \A i \in Slots \ {FirstSlot} : table'[c][i] = table[c][i]
           /\ \A p \in Programs \ {c} : table'[p] = table[p]
<1>1. offered[c] \in Nodes /\ offered[c].owner = c
  BY DEF ClientStores, StateTypes, MaybeNothing, MailInv
<1>2. table' = [table EXCEPT ![c] = [table[c] EXCEPT ![FirstSlot] = offered[c]]]
  BY <1>1, ClientWrites DEF ClientStores
<1>3. QED
  BY <1>2, Constants DEF StateTypes

LEMMA TablesKept == StateTypes /\ MailInv /\ TablesInv /\ [Next]_vars => TablesInv'
<1> SUFFICES ASSUME StateTypes, MailInv, TablesInv, [Next]_vars PROVE TablesInv'
  OBVIOUS
<1>1. ASSUME NEW w \in Workers, Copy(w) PROVE TablesInv'
  <2>1. \A p \in Programs \ {Server} : table'[p] = table[p]
    BY <1>1, Copying
  <2>2. \A c \in Clients : table'[c] = table[c]
    BY <2>1, Constants, SecureDataAssumption
  <2>3. QED
    BY <2>2 DEF TablesInv
<1>2. ASSUME NEW c \in Clients, ClientStores(c) PROVE TablesInv'
  <2>1. /\ table'[c][FirstSlot] = offered[c]
        /\ \A i \in Slots \ {FirstSlot} : table'[c][i] = table[c][i]
        /\ \A p \in Programs \ {c} : table'[p] = table[p]
    BY <1>2, ClientWritesSlot
  <2>2. offered[c].owner = c
    BY <1>2 DEF ClientStores, MailInv
  <2>3. ASSUME NEW d \in Clients, NEW i \in Slots, table'[d][i] # ZeroNode
        PROVE  i = FirstSlot /\ table'[d][i].owner = d
    <3>1. CASE d = c /\ i = FirstSlot
      BY <2>1, <2>2, <3>1
    <3>2. CASE d # c \/ i # FirstSlot
      <4>1. table'[d][i] = table[d][i]
        BY <2>1, <3>2, Constants
      <4>2. QED
        BY <2>3, <4>1 DEF TablesInv
    <3>3. QED
      BY <3>1, <3>2
  <2>4. QED
    BY <2>3 DEF TablesInv
<1>3. CASE UNCHANGED table
  BY <1>3 DEF TablesInv
<1>4. (\E w \in Workers : Copy(w)) \/ (\E c \in Clients : ClientStores(c)) \/ UNCHANGED table
  BY DEF Next, Consult, Respond, Scan, Count, KillServer, AnswerLost, SecKey, Send, Receive,
         Answer, Read, vars
<1>5. QED
  BY <1>1, <1>2, <1>3, <1>4

(* The steps that are not a worker's, nor the end of all of them, leave what   *)
(* the server has and what is under way alone, and no client thinks better of  *)
(* the server's table for it.                                                  *)
Aside == /\ table'[Server] = table[Server] /\ UNCHANGED <<keysn, job, made>>
         /\ \A c \in Clients : "server" \in knows'[c] => "server" \in knows[c]

LEMMA WhatSteps ==
    ASSUME StateTypes, MailInv, TablesInv, [Next]_vars
    PROVE  Aside \/ KillServer \/ \E w \in Workers : Consult(w)
<1>1. ASSUME NEW c \in Clients, ClientStores(c) PROVE Aside
  <2>1. table'[Server] = table[Server]
    <3>1. \A p \in Programs \ {c} : table'[p] = table[p]
      BY <1>1, ClientWritesSlot
    <3>2. QED
      BY <3>1, Constants, SecureDataAssumption
  <2>2. UNCHANGED keys /\ knows' \in {knows, [knows EXCEPT ![c] = @ \union {"client"}]}
    BY <1>1 DEF ClientStores
  <2>3. QED
    BY <2>1, <2>2 DEF Aside, keys, StateTypes
<1>2. ASSUME NEW p \in Programs, SecKey(p) PROVE Aside
  <2>1. /\ UNCHANGED <<table, keys>>
        /\ knows' \in {knows, [knows EXCEPT ![p] = @ \union {"object"}]}
    BY <1>2 DEF SecKey
  <2>2. QED
    BY <2>1 DEF Aside, keys, StateTypes
<1>3. ASSUME NEW c \in Clients, Read(c) PROVE Aside
  <2>1. /\ UNCHANGED <<table, keys>>
        /\ knows' \in {knows, [knows EXCEPT ![c] = @ \ {"object"}]}
    BY <1>3 DEF Read
  <2>2. QED
    BY <2>1 DEF Aside, keys, StateTypes
<1>4. ASSUME NEW c \in Clients, AnswerLost(c) \/ Send(c) \/ Receive(c) \/ Answer(c) PROVE Aside
  BY <1>4 DEF AnswerLost, Send, Receive, Answer, Aside, keys
<1>5. CASE UNCHANGED vars
  BY <1>5 DEF vars, keys, Aside
<1>6. QED
  BY <1>1, <1>2, <1>3, <1>4, <1>5 DEF Next

(* A key stays with the server as long as its table and the counter stay, and  *)
(* who comes to be busy or does the next step does it no harm.                 *)
Same(x) == /\ x \in Busy /\ job'[x].node = job[x].node
           /\ job'[x].step = job[x].step /\ job'[x].slot = job[x].slot

LEMMA KeptStays ==
    ASSUME NEW c \in Clients, NEW i \in Slots, NEW k \in Numbers, Kept(c, i, k),
           table'[Server] = table[Server], made'[c] = made[c], keysn' = keysn,
           \A x \in Busy' : Same(x) \/ Harmless(x, i, c, k)'
    PROVE  Kept(c, i, k)'
<1>1. FirstFor(i, c)' /\ Proper(k, c)'
  BY DEF Kept, FirstFor, Proper
<1>2. ASSUME NEW x \in Busy' PROVE Harmless(x, i, c, k)'
  <2>1. CASE Same(x)
    BY <2>1 DEF Kept, Same, Harmless
  <2>2. QED
    BY <2>1
<1>3. QED
  BY <1>1, <1>2 DEF Kept

LEMMA ServerKept ==
    StateTypes /\ MailInv /\ TablesInv /\ ServerInv /\ SoleInv /\ [Next]_vars => ServerInv'
<1> SUFFICES ASSUME StateTypes, MailInv, TablesInv, ServerInv, SoleInv, [Next]_vars,
                    NEW d \in Clients, "server" \in knows'[d]
             PROVE  \E i \in Slots, k \in Numbers : Kept(d, i, k)'
  BY DEF ServerInv
<1>1. ASSUME NEW w \in Workers, NEW c \in Clients, Respond(w, c)
      PROVE  \E i \in Slots, k \in Numbers : Kept(d, i, k)'
  <2>1. knows' = [knows EXCEPT ![c] = {}] /\ UNCHANGED <<table, keysn>>
    BY <1>1 DEF Respond
  <2>2. d # c /\ "server" \in knows[d]
    BY <2>1 DEF StateTypes
  <2>3. PICK i \in Slots, k \in Numbers : Kept(d, i, k)
    BY <2>2 DEF ServerInv
  <2>4. PICK node \in Nodes :
           /\ node.owner = c /\ node.seckeyID \in {keysn, -1}
           /\ made' = [made EXCEPT ![c] = node]
           /\ \A x \in Workers : \/ job'[x] = Nothing \/ Same(x)
                                 \/ job'[x].node = node /\ job'[x].step = "scan"
    BY <1>1, Responding DEF Same
  <2>5. ASSUME NEW x \in Busy' PROVE Same(x) \/ Harmless(x, i, d, k)'
    <3>1. CASE job'[x].node = node /\ job'[x].step = "scan"
      BY <2>2, <2>3, <2>4, <3>1 DEF Kept, Harmless
    <3>2. QED
      BY <2>4, <3>1 DEF Busy
  <2>6. made'[d] = made[d]
    BY <2>2, <2>4 DEF StateTypes
  <2>7. QED
    BY <2>1, <2>3, <2>5, <2>6, KeptStays
<1>2. ASSUME NEW w \in Workers, Scan(w)
      PROVE  \E i \in Slots, k \in Numbers : Kept(d, i, k)'
  <2>1. UNCHANGED <<table, keysn, made, knows>>
    BY <1>2 DEF Scan
  <2>2. PICK i \in Slots, k \in Numbers : Kept(d, i, k)
    BY <2>1 DEF ServerInv
  <2>3. Harmless(w, i, d, k) /\ table[Server][i] = made[d] /\ made[d] # Nothing
    BY <1>2, Scanning, <2>2 DEF Kept
  <2>4. table[Server][i].owner = d /\ d # NoOwner
    BY <2>3, SecureDataAssumption DEF MailInv
  <2>5. w \in Busy /\ job[w] \in Jobs /\ job \in [Workers -> MaybeNothing(Jobs)]
    BY <1>2, Scanning DEF StateTypes
  <2>6. /\ \A x \in Workers \ {w} : job'[x] = job[x]
        /\ job'[w].node = job[w].node
        /\ job'[w].step = "copy" => job'[w].slot # i
    <3>1. CASE job' = [job EXCEPT ![w].step = "count", ![w].sole = FALSE]
      BY <2>5, <3>1 DEF Jobs
    <3>2. CASE \E j \in Slots : /\ job' = [job EXCEPT ![w].step = "copy", ![w].slot = j]
                                /\ table[Server][j].owner \in {job[w].node.owner, NoOwner}
      <4>1. PICK j \in Slots : /\ job' = [job EXCEPT ![w].step = "copy", ![w].slot = j]
                               /\ table[Server][j].owner \in {job[w].node.owner, NoOwner}
        BY <3>2
      <4>2. j # i
        BY <2>3, <2>4, <4>1 DEF Harmless
      <4>3. QED
        BY <2>5, <4>1, <4>2 DEF Jobs
    <3>3. QED
      BY <1>2, <3>1, <3>2, Scanning
  <2>7. ASSUME NEW x \in Busy' PROVE Same(x) \/ Harmless(x, i, d, k)'
    <3>1. CASE x = w
      BY <2>3, <2>6, <3>1 DEF Harmless
    <3>2. CASE x # w
      BY <2>6, <3>2 DEF Same, Busy
    <3>3. QED
      BY <3>1, <3>2
  <2>8. QED
    BY <2>1, <2>2, <2>7, KeptStays
<1>3. ASSUME NEW w \in Workers, Copy(w)
      PROVE  \E i \in Slots, k \in Numbers : Kept(d, i, k)'
  <2>1. UNCHANGED <<keysn, made, knows>>
    BY <1>3 DEF Copy
  <2>2. PICK i \in Slots, k \in Numbers : Kept(d, i, k)
    BY <2>1 DEF ServerInv
  <2>3. /\ w \in Busy /\ job[w] \in Jobs /\ job[w].step = "copy"
        /\ job' = [job EXCEPT ![w].step = "count", ![w].slot = 0]
        /\ \A j \in Slots : table'[Server][j] = IF j = job[w].slot THEN job[w].node
                                               ELSE table[Server][j]
    BY <1>3, Copying
  <2>4. Harmless(w, i, d, k)
    BY <2>2, <2>3 DEF Kept
  <2>5. job[w].slot # i /\ job[w].node.owner # d /\ job[w].node.seckeyID # k
    BY <2>2, <2>3, <2>4 DEF Harmless, Kept, Numbers, Jobs, Nodes
  <2>6. table'[Server][i] = made[d] /\ FirstFor(i, d)' /\ Proper(k, d)'
    BY <2>2, <2>3, <2>5 DEF Kept, FirstFor, Proper
  <2>7. /\ \A x \in Workers \ {w} : job'[x] = job[x]
        /\ job'[w].node = job[w].node /\ job'[w].step = "count"
    BY <2>3 DEF StateTypes, Jobs
  <2>8. ASSUME NEW x \in Busy' PROVE Harmless(x, i, d, k)'
    <3>1. CASE x = w
      BY <2>4, <2>7, <3>1 DEF Harmless
    <3>2. CASE x # w
      BY <2>2, <2>7, <3>2 DEF Harmless, Kept, Busy
    <3>3. QED
      BY <3>1, <3>2
  <2>9. QED
    BY <2>1, <2>2, <2>6, <2>8 DEF Kept
<1>4. ASSUME NEW w \in Workers, Count(w)
      PROVE  \E i \in Slots, k \in Numbers : Kept(d, i, k)'
  <2>1. /\ w \in Busy /\ job[w] \in Jobs /\ job[w].step = "count"
        /\ job' = [job EXCEPT ![w] = Nothing]
        /\ UNCHANGED <<table, made>>
    BY <1>4, Counting
  <2>2. \A x \in Busy' : x \in Busy /\ x # w /\ job'[x] = job[x]
    <3>1. job'[w] = Nothing /\ \A x \in Busy' : x = w \/ (x \in Busy /\ job'[x] = job[x])
      BY <2>1, BusyAfter DEF MaybeNothing
    <3>2. QED
      BY <3>1 DEF Busy
  <2>3. \A x \in Busy' : Same(x)
    BY <2>2 DEF Same
  <2>4. job[w].node \in Nodes /\ job[w].node.seckeyID \in Numbers
    BY <2>1 DEF Jobs, Nodes
  <2>5. CASE "server" \in knows[d]
    <3>1. PICK i \in Slots, k \in Numbers : Kept(d, i, k)
      BY <2>5 DEF ServerInv
    <3>2. keysn' = keysn \/ (keysn' = job[w].node.seckeyID + 1 /\ keysn' # 0)
      BY <1>4, Counting
    <3>3. Harmless(w, i, d, k)
      BY <2>1, <3>1 DEF Kept
    <3>4. k < keysn'
      BY <2>4, <3>1, <3>2, <3>3 DEF Kept, Harmless, Numbers
    <3>5. \A x \in Busy' : Harmless(x, i, d, k)'
      BY <2>3, <3>1 DEF Same, Kept, Harmless
    <3>6. FirstFor(i, d)' /\ Proper(k, d)'
      BY <2>1, <3>1 DEF Kept, FirstFor, Proper
    <3>7. Kept(d, i, k)'
      BY <2>1, <3>1, <3>4, <3>5, <3>6 DEF Kept
    <3>8. QED
      BY <3>7
  <2>6. CASE "server" \notin knows[d]
    <3>1. keysn' = job[w].node.seckeyID + 1 /\ d = job[w].node.owner /\ job[w].sole
      BY <1>4, <2>6, Counting
    <3>2. Alone(w)
      BY <2>1, <3>1 DEF SoleInv
    <3>k. PICK k \in Numbers : k = job[w].node.seckeyID
      BY <2>4
    <3>3. PICK i \in Slots : table[Server][i] = job[w].node /\ FirstFor(i, d)
      BY <2>1, <3>1, <3>2 DEF Alone
    <3>4. Busy' = {}
      BY <2>2, <3>2 DEF Alone
    <3>5. /\ made[d] # Nothing /\ made[d] = job[w].node
          /\ k >= 0 /\ Proper(k, d)
      BY <3>1, <3>2, <3>k DEF Alone
    <3>6. k < keysn'
      BY <3>1, <3>k DEF Numbers
    <3>7. FirstFor(i, d)' /\ Proper(k, d)'
      BY <2>1, <3>3, <3>5 DEF FirstFor, Proper
    <3>8. Kept(d, i, k)'
      BY <2>1, <3>k, <3>3, <3>4, <3>5, <3>6, <3>7 DEF Kept, Numbers
    <3>9. QED
      BY <3>8
  <2>7. QED
    BY <2>5, <2>6
<1>5. ASSUME KillServer PROVE \E i \in Slots, k \in Numbers : Kept(d, i, k)'
  <2>1. Busy' = {} /\ UNCHANGED <<table, keysn, made, knows>>
    BY <1>5 DEF KillServer, Busy
  <2>2. QED
    BY <2>1, KeptStays DEF ServerInv
<1>6. ASSUME Aside PROVE \E i \in Slots, k \in Numbers : Kept(d, i, k)'
  <2>1. \A x \in Busy' : Same(x)
    BY <1>6 DEF Aside, Busy, Same
  <2>2. QED
    BY <1>6, <2>1, KeptStays DEF Aside, ServerInv
<1>7. QED
  BY <1>1, <1>2, <1>3, <1>4, <1>5, <1>6, WhatSteps DEF Consult

(* A Consult that no other meets stays one until its end.                      *)
LEMMA SoleKept ==
    StateTypes /\ MailInv /\ TablesInv /\ SoleInv /\ [Next]_vars => SoleInv'
<1> SUFFICES ASSUME StateTypes, MailInv, TablesInv, SoleInv, [Next]_vars,
                    NEW x \in Busy', job'[x].sole
             PROVE  Alone(x)'
  BY DEF SoleInv
<1>1. ASSUME NEW w \in Workers, NEW c \in Clients, Respond(w, c) PROVE Alone(x)'
  <2>1. PICK node \in Nodes :
           /\ node.owner = c /\ node.seckeyID \in {keysn, -1}
           /\ made' = [made EXCEPT ![c] = node]
           /\ \A y \in Workers : \/ job'[y] = Nothing
                                 \/ /\ y \in Busy /\ ~job'[y].sole
                                    /\ job'[y].node = job[y].node
                                    /\ job'[y].step = job[y].step
                                    /\ job'[y].slot = job[y].slot
                                 \/ /\ y = w /\ job'[y].node = node
                                    /\ job'[y].step = "scan"
                                    /\ job'[y].sole => /\ Busy = {} /\ node.seckeyID # -1
                                                       /\ Proper(node.seckeyID, c)
    BY <1>1, Responding
  <2>2. /\ x = w /\ job'[x].node = node /\ job'[x].step = "scan"
        /\ Busy = {} /\ node.seckeyID # -1 /\ Proper(node.seckeyID, c)
    BY <2>1 DEF Busy
  <2>3. Busy' \subseteq {x}
    BY <2>1, <2>2 DEF Busy
  <2>4. made'[c] = node /\ node # Nothing /\ node.seckeyID >= 0
    <3>1. node # Nothing
      BY NothingAssumption
    <3>2. QED
      BY <2>1, <2>2, <3>1 DEF StateTypes
  <2>5. UNCHANGED table
    BY <1>1 DEF Respond
  <2>6. Proper(node.seckeyID, c)'
    BY <2>2, <2>5 DEF Proper
  <2>7. QED
    BY <2>1, <2>2, <2>3, <2>4, <2>6 DEF Alone
<1>2. ASSUME NEW w \in Workers, Scan(w) PROVE Alone(x)'
  <2>1. /\ w \in Busy /\ job[w] \in Jobs /\ job[w].step = "scan"
        /\ job \in [Workers -> MaybeNothing(Jobs)]
        /\ UNCHANGED <<table, made>>
    BY <1>2, Scanning DEF Scan, StateTypes
  <2>2. PICK i \in Slots : /\ job' = [job EXCEPT ![w].step = "copy", ![w].slot = i]
                           /\ FirstFor(i, job[w].node.owner)
                           /\ Busy' \subseteq Busy /\ x = w /\ job[w].sole
    <3>1. CASE job' = [job EXCEPT ![w].step = "count", ![w].sole = FALSE]
      <4>1. ~job'[w].sole /\ \A y \in Workers \ {w} : job'[y] = job[y]
        BY <2>1, <3>1 DEF Jobs
      <4>2. x # w /\ x \in Busy /\ job[x].sole
        BY <4>1 DEF Busy
      <4>3. QED
        BY <2>1, <4>2 DEF SoleInv, Alone
    <3>2. ASSUME NEW i \in Slots, job' = [job EXCEPT ![w].step = "copy", ![w].slot = i]
          PROVE  Busy' \subseteq Busy /\ x = w /\ job[w].sole
      <4>1. job'[w].sole = job[w].sole /\ \A y \in Workers \ {w} : job'[y] = job[y]
        BY <2>1, <3>2 DEF Jobs
      <4>2. Busy' \subseteq Busy
        BY <2>1, <4>1 DEF Busy
      <4>3. x \in Busy /\ job[x].sole
        BY <4>1, <4>2 DEF Busy
      <4>4. QED
        BY <2>1, <4>1, <4>2, <4>3 DEF SoleInv, Alone
    <3>3. QED
      BY <1>2, <3>1, <3>2, Scanning
  <2>3. Alone(w)
    BY <2>1, <2>2 DEF SoleInv
  <2>4. job'[w].node = job[w].node /\ job'[w].step = "copy" /\ job'[w].slot = i
    BY <2>1, <2>2 DEF Jobs
  <2>5. FirstFor(i, job[w].node.owner)'
        <=> \A j \in Slots : table'[Server][j].owner = job'[w].node.owner => i <= j
    BY DEF FirstFor
  <2>6. QED
    BY <2>1, <2>2, <2>3, <2>4, <2>5 DEF Alone, FirstFor, Proper
<1>3. ASSUME NEW w \in Workers, Copy(w) PROVE Alone(x)'
  <2>1. /\ w \in Busy /\ job[w] \in Jobs /\ job[w].step = "copy"
        /\ job' = [job EXCEPT ![w].step = "count", ![w].slot = 0]
        /\ \A j \in Slots : table'[Server][j] = IF j = job[w].slot THEN job[w].node
                                               ELSE table[Server][j]
        /\ UNCHANGED made
    BY <1>3, Copying DEF Copy
  <2>2. /\ job'[w].sole = job[w].sole /\ job'[w].node = job[w].node /\ job'[w].step = "count"
        /\ \A y \in Workers \ {w} : job'[y] = job[y]
    BY <2>1 DEF StateTypes, Jobs
  <2>3. Busy' \subseteq Busy
    BY <2>1, <2>2 DEF Busy
  <2>4. x \in Busy /\ job[x].sole
    BY <2>2, <2>3 DEF Busy
  <2>5. Alone(x) /\ x = w
    BY <2>1, <2>4 DEF SoleInv, Alone
  <2>6. PICK n, c : n = job[w].node /\ c = n.owner
    OBVIOUS
  <2>7. /\ Busy \subseteq {w} /\ c \in Clients
        /\ made[c] # Nothing /\ made[c] = n /\ n.seckeyID >= 0 /\ Proper(n.seckeyID, c)
        /\ job[w].slot \in Slots /\ FirstFor(job[w].slot, c)
    BY <2>1, <2>5, <2>6 DEF Alone
  <2>8. Proper(n.seckeyID, c)'
    BY <2>1, <2>6, <2>7 DEF Proper
  <2>9. \E i \in Slots : table'[Server][i] = n /\ FirstFor(i, c)'
    <3>1. PICK i \in Slots : i = job[w].slot
      BY <2>7
    <3>2. i <= i
      BY SecureDataAssumption
    <3>3. table'[Server][i] = n /\ FirstFor(i, c)'
      BY <2>1, <2>6, <2>7, <3>1, <3>2 DEF FirstFor
    <3>4. QED
      BY <3>3
  <2>10. job'[x].node = n /\ job'[x].step = "count" /\ made' = made
    BY <2>1, <2>2, <2>5, <2>6
  <2>11. Busy' \subseteq {x}
    BY <2>3, <2>5, <2>7
  <2>12. QED
    BY <2>6, <2>7, <2>8, <2>9, <2>10, <2>11 DEF Alone
<1>4. ASSUME NEW w \in Workers, Count(w) PROVE Alone(x)'
  <2>1. w \in Busy /\ job[w] \in Jobs /\ job' = [job EXCEPT ![w] = Nothing]
    BY <1>4, Counting
  <2>2. job'[w] = Nothing /\ (x = w \/ (x \in Busy /\ job'[x] = job[x]))
    BY <2>1, BusyAfter DEF MaybeNothing
  <2>3. x # w /\ x \in Busy /\ job[x].sole
    BY <2>2 DEF Busy
  <2>4. QED
    BY <2>1, <2>3 DEF SoleInv, Alone
<1>5. ASSUME KillServer PROVE Alone(x)'
  BY <1>5 DEF KillServer, Busy
<1>6. ASSUME Aside PROVE Alone(x)'
  <2>1. Busy' = Busy /\ job'[x] = job[x] /\ Alone(x)
    BY <1>6 DEF Aside, Busy, SoleInv
  <2>2. QED
    BY <1>6, <2>1 DEF Aside, Alone, FirstFor, Proper
<1>7. QED
  BY <1>1, <1>2, <1>3, <1>4, <1>5, <1>6, WhatSteps DEF Consult

(* A client whose table, object and marks stay, and that gets no new message   *)
(* in good order, is where it was.                                             *)
LEMMA OrderStays ==
    ASSUME NEW c \in Clients, OrderOf(c),
           /\ table'[c] = table[c] /\ made'[c] = made[c] /\ number'[c] = number[c]
           /\ offered'[c] \in {offered[c], Nothing},
           /\ "client" \in knows'[c] <=> "client" \in knows[c]
           /\ "object" \in knows'[c] => "object" \in knows[c],
           \A m \in {mail'[c], answer'[c]} : InOrder(m) => m \in {mail[c], answer[c]},
           caller' = c => /\ caller = c /\ number'[Server] = number[Server]
                          /\ "server" \in knows[c] => "server" \in knows'[c]
    PROVE  OrderOf(c)'
<1>1. First(c)' = First(c)
  BY DEF First
<1>2. "client" \in knows'[c] => /\ made'[c] # Nothing /\ First(c)' = made'[c]
                                /\ offered'[c] = Nothing
  BY <1>1 DEF OrderOf
<1>3. "object" \in knows'[c] => "client" \in knows'[c] /\ number'[c] = made'[c].seckeyID
  BY DEF OrderOf
<1>4. \A m \in {mail'[c], answer'[c]} : InOrder(m) => "client" \in knows'[c] /\ Fits(m, c)'
  BY DEF OrderOf, Fits
<1>5. caller' = c => /\ {"server", "client"} \subseteq knows'[c]
                     /\ number'[Server] = made'[c].seckeyID
  BY DEF OrderOf
<1>6. QED
  BY <1>2, <1>3, <1>4, <1>5 DEF OrderOf, InOrder, Fits

LEMMA OrderKept ==
    StateTypes /\ MailInv /\ TablesInv /\ ServerInv /\ OrderInv /\ [Next]_vars => OrderInv'
<1> SUFFICES ASSUME StateTypes, MailInv, TablesInv, ServerInv, OrderInv, [Next]_vars,
                    NEW d \in Clients
             PROVE  OrderOf(d)'
  BY DEF OrderInv
<1>o. OrderOf(d)
  BY DEF OrderInv
<1>d. d \in Programs /\ d # Server /\ d # Nothing
  BY Constants, SecureDataAssumption
<1>1. ASSUME NEW w \in Workers, NEW c \in Clients, Respond(w, c) PROVE OrderOf(d)'
  <2>1. /\ mail' = [mail EXCEPT ![c] = Disturbed(@)]
        /\ answer' = [answer EXCEPT ![c] = Disturbed(@)]
        /\ knows' = [knows EXCEPT ![c] = {}]
        /\ caller' = IF caller = c THEN Nothing ELSE caller
        /\ UNCHANGED <<table, number>>
    BY <1>1 DEF Respond
  <2>2. PICK node \in Nodes : /\ made' = [made EXCEPT ![c] = node]
                              /\ offered' = [offered EXCEPT ![c] = node] \/ UNCHANGED offered
    BY <1>1, Responding
  <2>3. CASE d = c
    <3>1. knows'[d] = {} /\ caller' # d
      BY <1>d, <2>1, <2>3 DEF StateTypes
    <3>2. mail[d] \in MaybeNothing(Messages) /\ answer[d] \in MaybeNothing(Messages)
      BY DEF StateTypes
    <3>3. mail'[d] = Disturbed(mail[d]) /\ answer'[d] = Disturbed(answer[d])
      BY <2>1, <2>3 DEF StateTypes
    <3>4. ~InOrder(mail'[d]) /\ ~InOrder(answer'[d])
      BY <3>2, <3>3, Disturbing DEF InOrder
    <3>5. QED
      BY <3>1, <3>4 DEF OrderOf, InOrder
  <2>4. CASE d # c
    <3>1. /\ table'[d] = table[d] /\ made'[d] = made[d] /\ number' = number
          /\ offered'[d] = offered[d] /\ knows'[d] = knows[d]
          /\ mail'[d] = mail[d] /\ answer'[d] = answer[d]
      BY <2>1, <2>2, <2>4 DEF StateTypes
    <3>2. caller' = d => caller = d
      BY <1>d, <2>1
    <3>3. QED
      BY <1>o, <3>1, <3>2, OrderStays
  <2>5. QED
    BY <2>3, <2>4
<1>2. ASSUME NEW w \in Workers, Copy(w) PROVE OrderOf(d)'
  <2>1. table'[d] = table[d]
    BY <1>2, <1>d, Copying
  <2>2. UNCHANGED <<number, made, offered, posts, knows, caller>>
    BY <1>2 DEF Copy
  <2>3. QED
    BY <1>o, <2>1, <2>2, OrderStays DEF posts
<1>3. ASSUME NEW w \in Workers, Count(w) PROVE OrderOf(d)'
  <2>1. /\ UNCHANGED <<table, number, made, offered, posts>>
        /\ \/ /\ knows'[d] = IF keysn' = 0 THEN knows[d] \ {"server"}
                             ELSE IF d = job[w].node.owner /\ job[w].sole
                                  THEN knows[d] \union {"server"} ELSE knows[d]
              /\ caller' = IF keysn' = 0 THEN Nothing ELSE caller
           \/ UNCHANGED <<knows, caller>>
    BY <1>3, Counting
  <2>2. /\ "client" \in knows'[d] <=> "client" \in knows[d]
        /\ "object" \in knows'[d] => "object" \in knows[d]
        /\ caller' = d => caller = d /\ ("server" \in knows[d] => "server" \in knows'[d])
    BY <1>d, <2>1
  <2>3. QED
    BY <1>o, <2>1, <2>2, OrderStays DEF posts
<1>4. ASSUME NEW w \in Workers, Scan(w) PROVE OrderOf(d)'
  <2>1. UNCHANGED <<table, number, made, offered, posts, knows, caller>>
    BY <1>4 DEF Scan
  <2>2. QED
    BY <1>o, <2>1, OrderStays DEF posts
<1>5. ASSUME KillServer PROVE OrderOf(d)'
  <2>1. UNCHANGED <<table, number, made, offered, posts, knows, caller>>
    BY <1>5 DEF KillServer
  <2>2. QED
    BY <1>o, <2>1, OrderStays DEF posts
<1>6. ASSUME NEW c \in Clients, ClientStores(c) PROVE OrderOf(d)'
  <2>1. /\ table'[c][FirstSlot] = offered[c]
        /\ \A p \in Programs \ {c} : table'[p] = table[p]
    BY <1>6, ClientWritesSlot
  <2>2. /\ offered' = [offered EXCEPT ![c] = Nothing]
        /\ knows' = IF offered[c] = made[c] THEN [knows EXCEPT ![c] = @ \union {"client"}]
                    ELSE knows
        /\ offered[c] # Nothing
        /\ UNCHANGED <<number, keys, posts, caller>>
    BY <1>6 DEF ClientStores
  <2>3. CASE d = c
    <3>1. "client" \notin knows[d] /\ "object" \notin knows[d] /\ caller' # d
      BY <1>o, <2>2, <2>3 DEF OrderOf
    <3>2. \A m \in {mail'[d], answer'[d]} : ~InOrder(m)
      BY <1>o, <2>2, <3>1 DEF OrderOf, posts
    <3>3. offered'[d] = Nothing /\ First(d)' = offered[d] /\ made'[d] = made[d]
      BY <2>1, <2>2, <2>3 DEF StateTypes, First, keys
    <3>4. "object" \notin knows'[d]
          /\ ("client" \in knows'[d] => made'[d] # Nothing /\ First(d)' = made'[d])
      BY <2>2, <2>3, <3>1, <3>3 DEF StateTypes
    <3>5. QED
      BY <3>1, <3>2, <3>3, <3>4 DEF OrderOf, InOrder
  <2>4. CASE d # c
    <3>1. /\ table'[d] = table[d] /\ offered'[d] = offered[d] /\ knows'[d] = knows[d]
      BY <1>d, <2>1, <2>2, <2>4 DEF StateTypes
    <3>2. QED
      BY <1>o, <2>2, <3>1, OrderStays DEF keys, posts
  <2>5. QED
    BY <2>3, <2>4
<1>7. ASSUME NEW c \in Clients, AnswerLost(c) PROVE OrderOf(d)'
  <2>1. offered'[d] \in {offered[d], Nothing}
    BY <1>7 DEF AnswerLost, StateTypes
  <2>2. UNCHANGED <<table, number, keys, posts, knows, caller>>
    BY <1>7 DEF AnswerLost
  <2>3. QED
    BY <1>o, <2>1, <2>2, OrderStays DEF keys, posts
<1>8. ASSUME NEW p \in Programs, SecKey(p) PROVE OrderOf(d)'
  <2>1. /\ number' = [number EXCEPT ![p] = FirstNumber(table[p])]
        /\ knows' = IF p \in Clients /\ "client" \in knows[p]
                    THEN [knows EXCEPT ![p] = @ \union {"object"}] ELSE knows
        /\ caller' = IF p = Server THEN Nothing ELSE caller
        /\ UNCHANGED <<table, keys, offered, posts>>
    BY <1>8 DEF SecKey
  <2>2. CASE p = d
    <3>1. DOMAIN table[d] = Slots
      BY <1>d DEF StateTypes
    <3>2. number'[d] = First(d).seckeyID /\ number'[Server] = number[Server]
      BY <1>d, <2>1, <2>2, <3>1, Constants DEF FirstNumber, First, FirstSlot, StateTypes
    <3>3. /\ "client" \in knows'[d] <=> "client" \in knows[d]
          /\ "server" \in knows'[d] <=> "server" \in knows[d]
          /\ "object" \in knows'[d] => "client" \in knows[d]
      BY <1>o, <2>1, <2>2 DEF StateTypes, OrderOf
    <3>4. /\ "client" \in knows'[d] => made'[d] # Nothing /\ First(d)' = made'[d]
                                       /\ offered'[d] = Nothing
          /\ "object" \in knows'[d] => number'[d] = made'[d].seckeyID
      BY <1>o, <2>1, <3>2, <3>3 DEF OrderOf, First, keys
    <3>5. \A m \in {mail'[d], answer'[d]} : InOrder(m) => "client" \in knows'[d] /\ Fits(m, d)'
      BY <1>o, <2>1, <3>3 DEF OrderOf, Fits, keys, posts
    <3>6. caller' = d => /\ {"server", "client"} \subseteq knows'[d]
                         /\ number'[Server] = made'[d].seckeyID
      BY <1>d, <1>o, <2>1, <3>2, <3>3 DEF OrderOf, keys
    <3>7. QED
      BY <3>3, <3>4, <3>5, <3>6 DEF OrderOf, InOrder, Fits
  <2>3. CASE p # d
    <3>1. number'[d] = number[d] /\ knows'[d] = knows[d]
      BY <1>d, <2>1, <2>3 DEF StateTypes
    <3>2. caller' = d => caller = d /\ number'[Server] = number[Server]
      BY <1>d, <2>1, Constants DEF StateTypes
    <3>3. QED
      BY <1>o, <2>1, <3>1, <3>2, OrderStays DEF keys, posts
  <2>4. QED
    BY <2>2, <2>3
<1>9. ASSUME NEW c \in Clients, Send(c) PROVE OrderOf(d)'
  <2> DEFINE b == {"client", "object"} \subseteq knows[c]
  <2>1. PICK t \in TextsOf[c], key \in KeysRead(c, number[c]) :
           mail' = [mail EXCEPT ![c] = endataAES(c, t, key, b)]
    BY <1>9 DEF Send
  <2> DEFINE m == endataAES(c, t, key, b)
  <2>2. mail' = [mail EXCEPT ![c] = m]
    BY <2>1
  <2>3. number[c] \in Numbers /\ b \in BOOLEAN
    BY <1>9, Constants DEF Send, StateTypes, MaybeNothing
  <2> HIDE DEF b
  <2>4. m \in Messages /\ m.id = number[c] /\ m.key = key /\ m.ordered = b
    BY <2>1, <2>3, Sealing, Constants
  <2> HIDE DEF m
  <2>5. UNCHANGED <<table, number, keys, offered, answer, owed, knows, caller>>
    BY <1>9 DEF Send
  <2>6. CASE d = c
    <3>1. mail'[d] = m
      BY <2>2, <2>6 DEF StateTypes
    <3>2. ASSUME InOrder(m) PROVE "client" \in knows[d] /\ Fits(m, d)
      <4>1. {"client", "object"} \subseteq knows[d]
        BY <2>4, <2>6, <3>2 DEF InOrder, b
      <4>2. number[d] = made[d].seckeyID
        BY <1>o, <4>1 DEF OrderOf
      <4>3. key \in {made[d].seckey}
        BY <2>1, <2>6, <4>1, <4>2, ClientReads
      <4>4. QED
        BY <2>4, <2>6, <4>1, <4>2, <4>3 DEF Fits
    <3>3. QED
      BY <1>o, <2>5, <3>1, <3>2 DEF OrderOf, First, Fits, InOrder, keys
  <2>7. CASE d # c
    <3>1. mail'[d] = mail[d]
      BY <2>2, <2>7 DEF StateTypes
    <3>2. QED
      BY <1>o, <2>5, <3>1, OrderStays DEF keys
  <2>8. QED
    BY <2>6, <2>7
<1>10. ASSUME NEW c \in Clients, Receive(c) PROVE OrderOf(d)'
  <2>1. mail[c] \in Messages /\ mail[c] # Nothing
    BY <1>10 DEF Receive, StateTypes, MaybeNothing
  <2> DEFINE m == [mail[c] EXCEPT !.ordered = @ /\ "server" \in knows[c]]
  <2>2. /\ m.id = mail[c].id /\ m.key = mail[c].key
        /\ m.ordered = (mail[c].ordered /\ "server" \in knows[c])
    BY <2>1 DEF Messages
  <2>3. /\ number' = [number EXCEPT ![Server] = m.id]
        /\ mail' = [mail EXCEPT ![c] = Nothing]
        /\ caller' = IF m.ordered THEN c ELSE Nothing
        /\ UNCHANGED <<table, keys, offered, sent, answer, knows>>
    BY <1>10 DEF Receive, dedataAES
  <2> HIDE DEF m
  <2>4. /\ table'[d] = table[d] /\ made'[d] = made[d] /\ number'[d] = number[d]
        /\ offered'[d] = offered[d] /\ knows'[d] = knows[d]
        /\ mail'[d] \in {mail[d], Nothing} /\ answer'[d] = answer[d]
        /\ number'[Server] = m.id
    BY <1>d, <2>3, Constants DEF StateTypes, keys
  <2>5. caller' = d => /\ {"server", "client"} \subseteq knows[d]
                       /\ number'[Server] = made[d].seckeyID
    <3>1. SUFFICES ASSUME caller' = d
                   PROVE  /\ {"server", "client"} \subseteq knows[d]
                          /\ number'[Server] = made[d].seckeyID
      OBVIOUS
    <3>2. c = d /\ InOrder(mail[d]) /\ "server" \in knows[d]
      BY <1>d, <2>1, <2>2, <2>3, <3>1 DEF InOrder
    <3>3. QED
      BY <1>o, <2>2, <2>4, <3>2 DEF OrderOf, Fits
  <2>6. \A n \in {mail'[d], answer'[d]} : InOrder(n) => n \in {mail[d], answer[d]}
    BY <2>4 DEF InOrder
  <2>7. QED
    BY <1>o, <2>4, <2>5, <2>6 DEF OrderOf, First, Fits, InOrder
<1>11. ASSUME NEW c \in Clients, Answer(c) PROVE OrderOf(d)'
  <2> DEFINE b == caller = c
  <2>1. PICK t \in TextsOf[Server], key \in KeysRead(Server, number[Server]) :
           answer' = [answer EXCEPT ![c] = endataAES(Server, t, key, b)]
    BY <1>11 DEF Answer
  <2> DEFINE m == endataAES(Server, t, key, b)
  <2>2. answer' = [answer EXCEPT ![c] = m]
    BY <2>1
  <2>3. number[Server] \in Numbers /\ b \in BOOLEAN
    BY <1>11 DEF Answer, MailInv
  <2> HIDE DEF b
  <2>4. m \in Messages /\ m.id = number[Server] /\ m.key = key /\ m.ordered = b
    BY <2>1, <2>3, Sealing, Constants
  <2> HIDE DEF m
  <2>5. UNCHANGED <<table, number, keys, offered, sent, mail, knows, caller>>
    BY <1>11 DEF Answer
  <2>6. CASE d = c
    <3>1. answer'[d] = m
      BY <2>2, <2>6 DEF StateTypes
    <3>2. ASSUME InOrder(m) PROVE "client" \in knows[d] /\ Fits(m, d)
      <4>1. caller = d
        BY <2>4, <2>6, <3>2 DEF InOrder, b
      <4>2. {"server", "client"} \subseteq knows[d] /\ number[Server] = made[d].seckeyID
        BY <1>o, <4>1 DEF OrderOf
      <4>3. key \in {made[d].seckey}
        BY <2>1, <4>2, ServerReads
      <4>4. QED
        BY <2>4, <4>2, <4>3 DEF Fits
    <3>3. QED
      BY <1>o, <2>5, <3>1, <3>2 DEF OrderOf, First, Fits, InOrder, keys
  <2>7. CASE d # c
    <3>1. answer'[d] = answer[d]
      BY <2>2, <2>7 DEF StateTypes
    <3>2. QED
      BY <1>o, <2>5, <3>1, OrderStays DEF keys
  <2>8. QED
    BY <2>6, <2>7
<1>12. ASSUME NEW c \in Clients, Read(c) PROVE OrderOf(d)'
  <2>1. /\ number' = [number EXCEPT ![c] = answer[c].id]
        /\ answer' = [answer EXCEPT ![c] = Nothing]
        /\ knows' = IF answer[c].ordered THEN knows ELSE [knows EXCEPT ![c] = @ \ {"object"}]
        /\ answer[c] # Nothing
        /\ UNCHANGED <<table, keys, offered, mail, caller>>
    BY <1>12 DEF Read, dedataAES
  <2>2. c # Server /\ number'[Server] = number[Server]
    BY <2>1, Constants, SecureDataAssumption DEF StateTypes
  <2>3. CASE d = c
    <3>1. number'[d] = answer[d].id /\ answer'[d] = Nothing
      BY <1>d, <2>1, <2>3 DEF StateTypes
    <3>2. /\ "client" \in knows'[d] <=> "client" \in knows[d]
          /\ "server" \in knows'[d] <=> "server" \in knows[d]
          /\ "object" \in knows'[d] => "object" \in knows[d] /\ InOrder(answer[d])
      BY <2>1, <2>3 DEF StateTypes, InOrder
    <3>3. "object" \in knows'[d] => "client" \in knows[d] /\ number'[d] = made[d].seckeyID
      BY <1>o, <3>1, <3>2 DEF OrderOf, Fits
    <3>4. ~InOrder(answer'[d]) /\ mail'[d] = mail[d] /\ offered'[d] = offered[d]
          /\ made'[d] = made[d] /\ First(d)' = First(d)
      BY <2>1, <3>1 DEF InOrder, keys, First
    <3>5. QED
      BY <1>o, <2>1, <2>2, <3>2, <3>3, <3>4 DEF OrderOf, Fits, InOrder
  <2>4. CASE d # c
    <3>1. number'[d] = number[d] /\ answer'[d] = answer[d] /\ knows'[d] = knows[d]
      BY <1>d, <2>1, <2>4 DEF StateTypes
    <3>2. QED
      BY <1>o, <2>1, <2>2, <3>1, OrderStays DEF keys
  <2>5. QED
    BY <2>3, <2>4
<1>13. CASE UNCHANGED vars
  BY <1>13, <1>o, OrderStays DEF vars, keys, posts
<1>14. QED
  BY <1>1, <1>2, <1>3, <1>4, <1>5, <1>6, <1>7, <1>8, <1>9, <1>10, <1>11, <1>12, <1>13
     DEF Next, Consult

(* What a program opens is an honest message, under a key it read.             *)
LEMMA Opening ==
    ASSUME StateTypes, NEW p \in Programs, NEW m \in Messages, Honest(m),
           NEW key \in KeysRead(p, m.id),
           last' = [said |-> m.text, heard |-> Opened[<<key, m.body>>],
                    sameKey |-> key = m.key, ordered |-> m.ordered]
    PROVE  LastHeard'
<1>1. key \in Keys /\ m.key \in Keys /\ m.text \in Texts
  BY KeysReadTypes DEF Messages
<1>2. last'.said = m.text /\ last'.heard = Opened[<<key, Sealed[<<m.key, m.text>>]>>]
  BY DEF Honest
<1>3. last'.sameKey = (key = m.key)
  BY Zenon
<1>4. QED
  BY <1>1, <1>2, <1>3, Zenon DEF LastHeard

(* Program p opens message m under key.                                        *)
Opens(p, m, key) ==
    /\ m \in Messages /\ Honest(m) /\ key \in KeysRead(p, m.id)
    /\ last' = [said |-> m.text, heard |-> Opened[<<key, m.body>>],
                sameKey |-> key = m.key, ordered |-> m.ordered]

(* The two actions that open a message, and all the others.  The server takes  *)
(* a message for what it was sent as, or for less.                             *)
AtServer(m, c) == /\ m.id = mail[c].id /\ m.key = mail[c].key
                  /\ m.ordered => InOrder(mail[c]) /\ "server" \in knows[c]

LEMMA WhatOpens ==
    ASSUME StateTypes, MailInv, [Next]_vars
    PROVE  \/ last' \in {last, Listening}
           \/ \E c \in Clients, m \in Messages : \E key :
                 \/ Opens(Server, m, key) /\ AtServer(m, c)
                 \/ Opens(c, m, key) /\ m = answer[c] /\ m # Nothing
<1>1. ASSUME NEW c \in Clients, Receive(c)
      PROVE  \E m \in Messages : \E key : Opens(Server, m, key) /\ AtServer(m, c)
  <2>1. mail[c] # Nothing /\ mail[c] \in Messages /\ Honest(mail[c])
    BY <1>1 DEF Receive, StateTypes, MailInv, MaybeNothing
  <2> DEFINE m == [mail[c] EXCEPT !.ordered = @ /\ "server" \in knows[c]]
  <2>2. /\ m \in Messages /\ m.id = mail[c].id /\ m.key = mail[c].key
        /\ m.text = mail[c].text /\ m.body = mail[c].body
        /\ m.ordered = (mail[c].ordered /\ "server" \in knows[c])
    BY <2>1 DEF Messages
  <2>3. PICK key \in KeysRead(Server, m.id) : dedataAES(Server, m, key)
    BY <1>1 DEF Receive
  <2> HIDE DEF m
  <2>4. Honest(m) /\ AtServer(m, c)
    BY <2>1, <2>2 DEF Honest, AtServer, InOrder
  <2>5. Opens(Server, m, key)
    BY <2>2, <2>3, <2>4, Zenon DEF dedataAES, Opens
  <2>6. QED
    BY <2>2, <2>4, <2>5, Zenon
<1>2. ASSUME NEW c \in Clients, Read(c)
      PROVE  \E m \in Messages : \E key : Opens(c, m, key) /\ m = answer[c] /\ m # Nothing
  <2>1. answer[c] # Nothing /\ answer[c] \in Messages /\ Honest(answer[c])
    BY <1>2 DEF Read, StateTypes, MailInv, MaybeNothing
  <2>2. PICK key \in KeysRead(c, answer[c].id) : dedataAES(c, answer[c], key)
    BY <1>2 DEF Read
  <2>3. QED
    BY <2>1, <2>2, Zenon DEF dedataAES, Opens
<1>3. CASE last' \in {last, Listening}
  BY <1>3, Zenon
<1>4. (\E c \in Clients : Receive(c) \/ Read(c)) \/ last' \in {last, Listening}
  BY DEF Next, Consult, Respond, Scan, Copy, Count, KillServer, ClientStores, AnswerLost,
         SecKey, Send, Answer, vars
<1>5. QED
  BY <1>1, <1>2, <1>3, <1>4, Zenon

LEMMA HeardKept == StateTypes /\ MailInv /\ LastHeard /\ [Next]_vars => LastHeard'
<1> SUFFICES ASSUME StateTypes, MailInv, LastHeard, [Next]_vars PROVE LastHeard'
  OBVIOUS
<1>1. CASE last' = Listening
  BY <1>1 DEF LastHeard, Listening
<1>2. CASE last' = last
  BY <1>2, Zenon DEF LastHeard
<1>3. CASE last' \notin {last, Listening}
  <2>1. PICK c \in Clients, m \in Messages :
                \E key : \/ Opens(Server, m, key) /\ AtServer(m, c)
                         \/ Opens(c, m, key) /\ m = answer[c] /\ m # Nothing
    BY <1>3, WhatOpens, Zenon
  <2>2. PICK key : Opens(Server, m, key) \/ Opens(c, m, key)
    BY <2>1, Zenon
  <2>3. Server \in Programs /\ c \in Programs
    BY Constants
  <2>4. QED
    BY <2>2, <2>3, Opening, Zenon DEF Opens
<1>4. QED
  BY <1>1, <1>2, <1>3

LEMMA SoundKept == SoundInv /\ [Next]_vars => SoundInv'
BY TypesKept, HeardKept DEF SoundInv

LEMMA OrderedKept ==
    StateTypes /\ MailInv /\ ServerInv /\ OrderInv /\ LastOrdered /\ [Next]_vars => LastOrdered'
<1> SUFFICES ASSUME StateTypes, MailInv, ServerInv, OrderInv, LastOrdered, [Next]_vars
             PROVE  LastOrdered'
  OBVIOUS
<1>1. CASE last' \in {last, Listening}
  BY <1>1 DEF LastOrdered, Listening
<1>2. CASE last' \notin {last, Listening}
  <2>1. PICK c \in Clients, m \in Messages :
                \E key : \/ Opens(Server, m, key) /\ AtServer(m, c)
                         \/ Opens(c, m, key) /\ m = answer[c] /\ m # Nothing
    BY <1>2, WhatOpens, Zenon
  <2>2. PICK key : \/ Opens(Server, m, key) /\ AtServer(m, c)
                   \/ Opens(c, m, key) /\ m = answer[c] /\ m # Nothing
    BY <2>1, Zenon
  <2>3. CASE Opens(Server, m, key) /\ AtServer(m, c)
    <3>1. ASSUME m.ordered PROVE key = m.key
      <4>1. "server" \in knows[c] /\ m.id = made[c].seckeyID /\ m.key = made[c].seckey
        BY <2>3, <3>1 DEF AtServer, OrderInv, OrderOf, Fits
      <4>2. KeysRead(Server, m.id) = {m.key}
        BY <4>1, ServerReads
      <4>3. QED
        BY <2>3, <4>2 DEF Opens
    <3>2. last'.ordered = m.ordered /\ last'.sameKey = (key = m.key)
      BY <2>3, Zenon DEF Opens
    <3>3. QED
      BY <3>1, <3>2, Zenon DEF LastOrdered
  <2>4. CASE Opens(c, m, key) /\ m = answer[c] /\ m # Nothing
    <3>1. ASSUME m.ordered PROVE key = m.key
      <4>1. "client" \in knows[c] /\ m.id = made[c].seckeyID /\ m.key = made[c].seckey
        BY <2>4, <3>1 DEF Opens, InOrder, OrderInv, OrderOf, Fits
      <4>2. KeysRead(c, m.id) = {m.key}
        BY <4>1, ClientReads
      <4>3. QED
        BY <2>4, <4>2 DEF Opens
    <3>2. last'.ordered = m.ordered /\ last'.sameKey = (key = m.key)
      BY <2>4, Zenon DEF Opens
    <3>3. QED
      BY <3>1, <3>2, Zenon DEF LastOrdered
  <2>5. QED
    BY <2>2, <2>3, <2>4
<1>3. QED
  BY <1>1, <1>2
-----------------------------------------------------------------------------
(* The tables, the counter, the workers, the objects and the messages in good  *)
(* order agree, however Consults overlap, fail in the middle or are cut off.   *)
THEOREM SecureDataInvariant == Spec => []SecureInv
<1>1. Init => SecureInv
  BY InitiallySecure
<1>2. SecureInv /\ [Next]_vars => SecureInv'
  BY SoundKept, TablesKept, ServerKept, SoleKept, OrderKept, OrderedKept
     DEF SecureInv, SoundInv
<1>3. QED
  BY <1>1, <1>2, PTL DEF Spec

LEMMA SoundInvariant == Spec => []SoundInv
<1>1. Init => SoundInv
  BY InitiallySecure DEF SecureInv
<1>2. QED
  BY <1>1, SoundKept, PTL DEF Spec

(* A message in good order is sealed under the key of its client's last        *)
(* negotiation and carries that number; and from the end of an undisturbed     *)
(* Consult on the server's table has its node for the client, whatever         *)
(* Consults of other clients write to that table since.                        *)
THEOREM SealedByNumber == Spec => []SealedUnderItsNumber
<1>1. SecureInv => SealedUnderItsNumber
  <2> SUFFICES ASSUME SecureInv, NEW c \in Clients, NEW m \in {mail[c], answer[c]},
                      m # Nothing, m.ordered
               PROVE  /\ made[c] # Nothing
                      /\ m.id = made[c].seckeyID /\ m.key = made[c].seckey
                      /\ "server" \in knows[c] => Entry(table[Server], c) = made[c]
    BY DEF SealedUnderItsNumber
  <2>1. StateTypes /\ MailInv /\ ServerInv /\ OrderInv
    BY DEF SecureInv, SoundInv
  <2>2. "client" \in knows[c] /\ Fits(m, c) /\ made[c] # Nothing
    BY <2>1 DEF OrderInv, OrderOf, InOrder
  <2>3. ASSUME "server" \in knows[c] PROVE Entry(table[Server], c) = made[c]
    <3>1. PICK i \in Slots, k \in Numbers : Kept(c, i, k)
      BY <2>1, <2>3 DEF ServerInv
    <3>2. table[Server][i] = made[c] /\ table[Server][i].owner = c
      BY <2>1, <3>1 DEF Kept, MailInv
    <3> DEFINE S == MatchSlots(table[Server], c)
    <3>3. S \in SUBSET Slots /\ i \in S /\ \A j \in S : i <= j
      <4>1. DOMAIN table[Server] = Slots
        BY <2>1, Constants DEF StateTypes
      <4>2. QED
        BY <3>1, <3>2, <4>1 DEF MatchSlots, Kept, FirstFor
    <3>4. FirstOf(S) = i
      BY <3>3, FirstHit
    <3>5. QED
      BY <3>2, <3>3, <3>4 DEF Entry, Holds
  <2>4. QED
    BY <2>2, <2>3 DEF Fits
<1>2. QED
  BY <1>1, SecureDataInvariant, PTL

(* Opening with the key of the sealing gives the text back: nothing that is    *)
(* opened is a text sealed by somebody else or changed on its way.             *)
THEOREM SameKeyUnderstands == ASSUME RoundTrip PROVE Spec => []SameKeyGivesText
<1>1. SoundInv => SameKeyGivesText
  <2> SUFFICES ASSUME SoundInv, last.sameKey PROVE last.heard = CString(last.said)
    BY DEF SameKeyGivesText
  <2>1. last # Listening
    BY DEF Listening
  <2>2. PICK k, l \in Keys, t \in Texts :
           /\ last.said = t /\ last.heard = Opened[<<l, Sealed[<<k, t>>]>>]
           /\ last.sameKey = (l = k)
    BY <2>1, Zenon DEF SoundInv, LastHeard
  <2>3. l = k
    BY <2>2, Zenon
  <2>4. Opened[<<k, Sealed[<<k, t>>]>>] = CString(t)
    BY DEF RoundTrip
  <2>5. QED
    BY <2>2, <2>3, <2>4
<1>2. QED
  BY <1>1, SoundInvariant, PTL

(* Who keeps the order is understood: a client that opened its object after    *)
(* the answer to its last Consult, and the server that opens the message after *)
(* that Consult's end, if no other Consult was under way with it and no other  *)
(* client's slot had its number.  What other clients negotiate before and      *)
(* after, overlapping and under shared numbers too, does not matter, unless it *)
(* sets the counter back to 0.                                                 *)
THEOREM OrderedUnderstood == ASSUME RoundTrip PROVE Spec => []OrderedIsUnderstood
<1>1. SecureInv /\ SameKeyGivesText => OrderedIsUnderstood
  BY DEF SecureInv, LastOrdered, SameKeyGivesText, OrderedIsUnderstood
<1>2. QED
  BY <1>1, SecureDataInvariant, SameKeyUnderstands, PTL

(* Tables hold negotiated keys, a message is a number and Base64 digits, and   *)
(* what is opened is a sequence of bytes.                                      *)
THEOREM SecureDataTypes == ASSUME CipherTypes PROVE Spec => []TypeOK
<1>1. SoundInv => TypeOK
  <2> SUFFICES ASSUME SoundInv PROVE TypeOK
    OBVIOUS
  <2>1. StateTypes /\ MailInv /\ LastHeard
    BY DEF SoundInv
  <2>2. \A m \in Messages : IsMessage(m)
    <3> SUFFICES ASSUME NEW m \in Messages PROVE IsMessage(m)
      OBVIOUS
    <3>1. PICK k \in Keys, t \in Texts : m.body = Sealed[<<k, t>>]
      BY DEF Messages
    <3>2. \A i \in DOMAIN m.body : m.body[i] \in Digit
      BY <3>1 DEF CipherTypes
    <3>3. QED
      BY <3>2 DEF Messages, IsMessage, Numbers
  <2>3. \A i \in DOMAIN last.heard : last.heard[i] \in Byte
    <3>1. CASE last = Listening
      BY <3>1 DEF Listening
    <3>2. CASE last # Listening
      <4>1. PICK k, l \in Keys, t \in Texts : last.heard = Opened[<<l, Sealed[<<k, t>>]>>]
        BY <2>1, <3>2 DEF LastHeard
      <4>2. QED
        BY <4>1 DEF CipherTypes
    <3>3. QED
      BY <3>1, <3>2
  <2>4. \A c \in Clients :
           /\ \A n \in {offered[c], made[c]} : n # Nothing => n \in Nodes /\ n.owner = c
           /\ \A m \in {mail[c], answer[c]} : m # Nothing => IsMessage(m)
    BY <2>1, <2>2 DEF MailInv, StateTypes, MaybeNothing
  <2>5. keysn \in 0..Len(NewKeys) + 1
    BY <2>1, Constants DEF StateTypes
  <2>6. QED
    BY <2>1, <2>3, <2>4, <2>5 DEF TypeOK, StateTypes, Holders
<1>2. QED
  BY <1>1, SoundInvariant, PTL
=============================================================================
