-------------------------- MODULE KeyServiceProofs --------------------------
(***************************************************************************)
(* Theorems about the key service, in five parts: its types; consults      *)
(* which had the key counter to themselves record different numbers; a     *)
(* settled key is kept; client and server agree about it; a check of it    *)
(* decides right.                                                          *)
(***************************************************************************)
EXTENDS KeyService, KeyTableProofs

USE MaxNodeAssumption

(* What a client sends and a worker works on.                                  *)
Requests == {j \in Jobs : j.client \in Clients /\ j.cmd # "none"}

OnlyConsult == {"getid", "consultreply", "free", "copy", "copyids", "copykey", "bump", "insert"}
AtASlot     == {"match", "free", "copy", "copyids", "copykey", "load", "mark"}

(* A worker has a request, of the kind its step belongs to, and the scans stay *)
(* inside the table.                                                           *)
StepInv == \A w \in Workers :
    /\ pc[w] # "idle" => job[w] \in Requests
    /\ pc[w] \in OnlyConsult => job[w].cmd = "consult"
    /\ pc[w] = "mark" => job[w].cmd = "cancel"
    /\ pc[w] \in AtASlot => slot[w] \in Slots

TypeInv == TypeOK /\ queue \in Seq(Requests) /\ StepInv
-----------------------------------------------------------------------------
(* Types, action by action.  The sets of the history are subsets by definition. *)

LEMMA ZeroTyped == ZeroNode \in TableNodes /\ ZeroJob \in Jobs /\ NoReply \in Msgs
                   /\ Closed \in Msgs /\ Unsettled \in Promises /\ NoKey \in Keys
BY DEF ZeroNode, TableNodes, Keys, ZeroJob, Jobs, NoReply, Closed, Msgs, Promises

(* Send keeps the types when the request is well-formed and nonce keeps its.   *)
LEMMA SendTyped ==
    ASSUME TypeInv, clean' \subseteq Workers, solo' \subseteq Workers,
           NEW c \in Clients, NEW request \in Requests, Send(c, request),
           nonce' \in [Clients -> Nat]
    PROVE  TypeInv'
<1> USE DEF TypeInv, TypeOK, StepInv, Send, workerVars, dbVars, boundVars, keyVars
<1>1. Requests \subseteq Jobs
  BY DEF Requests
<1>2. phase' \in [Clients -> {"idle", "wait"}] /\ ask' \in [Clients -> Jobs]
  BY <1>1
<1>3. inbox' \in [Clients -> Msgs]
  BY ZeroTyped
<1>4. queue' \in Seq(Requests) /\ queue' \in Seq(Jobs)
  <2>1. queue \in Seq(Requests) /\ queue \in Seq(Jobs) /\ request \in Jobs
    BY <1>1
  <2>2. queue' = queue \/ queue' = Append(queue, request)
    OBVIOUS
  <2> HIDE DEF TypeInv, TypeOK, StepInv, Send, workerVars, dbVars, boundVars, keyVars
  <2>3. Append(queue, request) \in Seq(Requests) /\ Append(queue, request) \in Seq(Jobs)
    BY <2>1
  <2>4. QED
    BY <2>1, <2>2, <2>3
<1>5. QED
  BY <1>2, <1>3, <1>4

(* The client's requests are well-formed.                                      *)
LEMMA RequestTyped ==
    ASSUME TypeInv, NEW c \in Clients, NEW cmd \in {"consult", "check", "cancel"}
    PROVE  Request(c, cmd) \in Requests
<1>1. ask[c].conn + 1 \in Nat
  BY DEF TypeInv, TypeOK, Jobs
<1>2. QED
  BY <1>1, ZeroTyped DEF Request, Requests, ZeroJob, Jobs

LEMMA SendConsultTyped ==
    ASSUME TypeInv, clean' \subseteq Workers, solo' \subseteq Workers,
           NEW c \in Clients, SendConsult(c)
    PROVE  TypeInv'
<1>1. nonce[c] + 1 \in Nat /\ nonce' \in [Clients -> Nat]
  BY DEF TypeInv, TypeOK, SendConsult
<1>2. PICK intact \in BOOLEAN :
          Send(c, [Request(c, "consult") EXCEPT !.r1 = nonce[c] + 1, !.intact = intact])
  BY DEF SendConsult
<1>3. [Request(c, "consult") EXCEPT !.r1 = nonce[c] + 1, !.intact = intact] \in Requests
  <2>1. Request(c, "consult") \in Requests
    BY RequestTyped
  <2>2. QED
    BY <1>1, <2>1 DEF Requests, Jobs
<1>4. QED
  BY <1>1, <1>2, <1>3, SendTyped

LEMMA SendCheckTyped ==
    ASSUME TypeInv, clean' \subseteq Workers, solo' \subseteq Workers,
           NEW c \in Clients, SendCheck(c)
    PROVE  TypeInv'
<1>1. nonce' \in [Clients -> Nat]
  BY DEF TypeInv, TypeOK, SendCheck
<1>2. Entry(own[c], c) \in TableNodes
  <2>1. own[c] \in [ClientSlots -> TableNodes] /\ ClientSlots \in SUBSET Nat
    BY DEF TypeInv, TypeOK, ClientSlots
  <2>2. QED
    BY <2>1, EntryInTable, ZeroTyped
<1>3. Entry(own[c], c).seckey \in Keys
  BY <1>2 DEF TableNodes
<1>4. [Request(c, "check") EXCEPT !.auth = Entry(own[c], c).seckey] \in Requests
  <2>1. Request(c, "check") \in Requests
    BY RequestTyped
  <2>2. QED
    BY <1>3, <2>1 DEF Requests, Jobs
<1>5. QED
  BY <1>1, <1>4, SendTyped DEF SendCheck

LEMMA SendCancelTyped ==
    ASSUME TypeInv, clean' \subseteq Workers, solo' \subseteq Workers,
           NEW c \in Clients, SendCancel(c)
    PROVE  TypeInv'
<1>1. nonce' \in [Clients -> Nat]
  BY DEF TypeInv, TypeOK, SendCancel
<1>2. QED
  BY <1>1, RequestTyped, SendTyped DEF SendCancel

LEMMA ReceiveTyped ==
    ASSUME TypeInv, clean' \subseteq Workers, solo' \subseteq Workers,
           NEW c \in Clients, Receive(c)
    PROVE  TypeInv'
<1> DEFINE new == [status |-> 0, seckeyID |-> inbox[c].id, owner |-> c, seckey |-> ClientKey(c)]
<1>1. inbox[c] \in Msgs /\ ask[c] \in Jobs
  BY DEF TypeInv, TypeOK
<1>2. new \in TableNodes
  BY <1>1 DEF Msgs, Jobs, TableNodes, Keys, ClientKey
<1>3. own[c] \in [ClientSlots -> TableNodes] /\ ClientSlots \in SUBSET Nat
  BY DEF TypeInv, TypeOK, ClientSlots
<1>4. WriteMemory(own[c], new) \in [ClientSlots -> TableNodes]
  <2> HIDE DEF new
  <2>1. QED
    BY <1>2, <1>3, WriteInTable
<1>5. own' \in [Clients -> [ClientSlots -> TableNodes]]
  <2>1. own \in [Clients -> [ClientSlots -> TableNodes]]
    BY DEF TypeInv, TypeOK
  <2>2. own' = own \/ own' = [own EXCEPT ![c] = WriteMemory(own[c], new)]
    BY DEF Receive
  <2>3. QED
    BY <1>4, <2>1, <2>2
<1>6. /\ phase' \in [Clients -> {"idle", "wait"}]
      /\ inbox' \in [Clients -> Msgs]
  BY ZeroTyped DEF Receive, TypeInv, TypeOK
<1>7. nonce' \in [Clients -> Nat] /\ ownConn' \in [Clients -> Nat]
  <2>1. ask[c].conn \in Nat
    BY <1>1 DEF Jobs
  <2>2. nonce \in [Clients -> Nat] /\ ownConn \in [Clients -> Nat]
    BY DEF TypeInv, TypeOK
  <2>3. /\ nonce' = nonce \/ nonce' = [nonce EXCEPT ![c] = 0]
        /\ ownConn' = ownConn \/ ownConn' = [ownConn EXCEPT ![c] = ask[c].conn]
    BY DEF Receive
  <2>4. QED
    BY <2>1, <2>2, <2>3
<1>8. QED
  BY <1>5, <1>6, <1>7 DEF Receive, TypeInv, TypeOK, StepInv, workerVars, dbVars, boundVars, keyVars

(* Fail, GiveUp and RestartClient only end the wait.                           *)
LEMMA ReturnTyped ==
    ASSUME TypeInv, clean' \subseteq Workers, solo' \subseteq Workers,
           NEW c \in Clients, Fail(c) \/ GiveUp(c) \/ RestartClient(c)
    PROVE  TypeInv'
<1>1. /\ phase' \in [Clients -> {"idle", "wait"}]
      /\ inbox' \in [Clients -> Msgs]
      /\ nonce' \in [Clients -> Nat]
  <2>1. /\ phase \in [Clients -> {"idle", "wait"}] /\ inbox \in [Clients -> Msgs]
        /\ nonce \in [Clients -> Nat]
    BY DEF TypeInv, TypeOK
  <2>2. /\ phase' = [phase EXCEPT ![c] = "idle"] /\ inbox' = [inbox EXCEPT ![c] = NoReply]
        /\ nonce' = nonce \/ nonce' = [nonce EXCEPT ![c] = 0]
    BY DEF Fail, GiveUp, RestartClient
  <2>3. QED
    BY <2>1, <2>2, ZeroTyped
<1>2. UNCHANGED <<ask, own, ownConn, up, queue, r2s, workerVars, table, dbVars, boundVars,
                  keyVars>>
  BY DEF Fail, GiveUp, RestartClient
<1>3. QED
  BY <1>1, <1>2 DEF TypeInv, TypeOK, StepInv, workerVars, dbVars, boundVars, keyVars

LEMMA EditTyped ==
    ASSUME TypeInv, clean' \subseteq Workers, solo' \subseteq Workers,
           NEW c \in Clients, EditClients(c)
    PROVE  TypeInv'
BY DEF EditClients, TypeInv, TypeOK, StepInv, clientVars, workerVars, keyVars
-----------------------------------------------------------------------------
(* What the worker's steps have in common. *)

(* Deliver puts a message into one inbox at most.                              *)
LEMMA DeliverTyped ==
    ASSUME TypeInv, NEW w \in Workers, NEW msg \in Msgs, Deliver(w, msg)
    PROVE  inbox' \in [Clients -> Msgs]
BY DEF TypeInv, TypeOK, Deliver

(* One step of w's program counter, to a step its request and slot allow.      *)
LEMMA GotoTyped ==
    ASSUME TypeInv, NEW w \in Workers, NEW l \in Steps, Goto(w, l), UNCHANGED job,
           l # "idle" => job[w] \in Requests,
           l \in OnlyConsult => job[w].cmd = "consult",
           l = "mark" => job[w].cmd = "cancel",
           slot' \in [Workers -> 0..MaxNode],
           \A v \in Workers \ {w} : slot'[v] = slot[v],
           l \in AtASlot => slot'[w] \in Slots
    PROVE  /\ pc' \in [Workers -> Steps]
           /\ StepInv'
BY DEF TypeInv, TypeOK, StepInv, Goto

LEMMA TakeTyped ==
    ASSUME TypeInv, clean' \subseteq Workers, solo' \subseteq Workers,
           NEW w \in Workers, Take(w)
    PROVE  TypeInv'
<1>1. Head(queue) \in Requests /\ queue' \in Seq(Requests) /\ queue' \in Seq(Jobs)
  BY DEF Take, TypeInv, TypeOK
<1>2. Head(queue) \in Jobs
  BY <1>1 DEF Requests
<1>3. job' \in [Workers -> Jobs] /\ pc' \in [Workers -> Steps]
  BY <1>2 DEF Take, Goto, TypeInv, TypeOK, Steps
<1>4. StepInv'
  BY <1>1 DEF Take, Goto, TypeInv, TypeOK, StepInv, OnlyConsult, AtASlot
<1>5. QED
  BY <1>1, <1>3, <1>4 DEF Take, TypeInv, TypeOK, clientVars, dbVars, boundVars, keyVars

LEMMA DieTyped ==
    ASSUME TypeInv, clean' \subseteq Workers, solo' \subseteq Workers, Die
    PROVE  TypeInv'
<1>1. /\ pc' \in [Workers -> Steps] /\ job' \in [Workers -> Jobs]
      /\ slot' \in [Workers -> 0..MaxNode] /\ node' \in [Workers -> TableNodes]
      /\ seen' \in [Workers -> Promises] /\ inbox' \in [Clients -> Msgs]
  BY ZeroTyped DEF Die, TypeInv, TypeOK, Steps
<1>2. StepInv'
  BY DEF Die, StepInv, OnlyConsult, AtASlot
<1>3. up' \in BOOLEAN /\ queue' \in Seq(Jobs) /\ queue' \in Seq(Requests) /\ r2s' \in Nat
  <2>1. <<>> \in Seq(Jobs) /\ <<>> \in Seq(Requests)
    OBVIOUS
  <2>2. QED
    BY <2>1 DEF Die
<1>4. QED
  BY <1>1, <1>2, <1>3 DEF Die, TypeInv, TypeOK, dbVars, boundVars
LEMMA CheckClientTyped ==
    ASSUME TypeInv, clean' \subseteq Workers, solo' \subseteq Workers,
           NEW w \in Workers, CheckClient(w)
    PROVE  TypeInv'
<1>1. PICK l \in {"close", "getid", "match"} :
        /\ Goto(w, l) /\ UNCHANGED job
        /\ l = "getid" => job[w].cmd = "consult"
        /\ l = "match" => slot' = [slot EXCEPT ![w] = 1]
        /\ l # "match" => UNCHANGED slot
  BY DEF CheckClient
<1>2. slot' \in [Workers -> 0..MaxNode]
      /\ (\A v \in Workers \ {w} : slot'[v] = slot[v])
      /\ (l = "match" => slot'[w] \in Slots)
  BY <1>1 DEF TypeInv, TypeOK, Slots
<1>3. job[w] \in Requests
  BY DEF CheckClient, TypeInv, StepInv
<1>4. pc' \in [Workers -> Steps] /\ StepInv'
  <2>1. l \in Steps /\ (l \in OnlyConsult => l = "getid") /\ (l \in AtASlot => l = "match")
    BY DEF Steps, OnlyConsult, AtASlot
  <2>2. QED
    BY <1>1, <1>2, <1>3, <2>1, GotoTyped
<1>5. settled' \in [Clients -> Promises] /\ seen' \in [Workers -> Promises] /\ faults' \in Nat
  <2>1. Owner(w) \in Clients
    BY <1>3 DEF Owner, Requests
  <2>2. settled \in [Clients -> Promises] /\ seen \in [Workers -> Promises] /\ faults \in Nat
    BY DEF TypeInv, TypeOK
  <2>3. /\ settled' = settled \/ settled' = [settled EXCEPT ![Owner(w)] = Unsettled]
        /\ seen' = seen \/ seen' = [seen EXCEPT ![w] = settled[Owner(w)]]
        /\ faults' = faults \/ faults' = faults + 1
    BY DEF CheckClient, SqlFail, SqlOk
  <2>4. settled[Owner(w)] \in Promises /\ Unsettled \in Promises
    BY <2>1, <2>2, ZeroTyped
  <2>5. settled' \in [Clients -> Promises]
    BY <2>2, <2>3, <2>4
  <2>6. seen' \in [Workers -> Promises]
    BY <2>2, <2>3, <2>4
  <2>7. QED
    BY <2>2, <2>3, <2>5, <2>6
<1>6. UNCHANGED <<clientVars, up, queue, r2s, job, node, table, dbVars, restarts, edits, soloIds>>
  BY DEF CheckClient
<1>7. QED
  BY <1>2, <1>4, <1>5, <1>6 DEF TypeInv, TypeOK, clientVars, dbVars

LEMMA GetKeyIDTyped ==
    ASSUME TypeInv, clean' \subseteq Workers, solo' \subseteq Workers,
           NEW w \in Workers, GetKeyID(w)
    PROVE  TypeInv'
<1>1. job[w] \in Requests /\ job[w].cmd = "consult"
  BY DEF GetKeyID, TypeInv, StepInv, OnlyConsult
<1>2. Owner(w) \in Clients
  BY <1>1 DEF Owner, Requests
<1>3. pc' \in [Workers -> Steps] /\ StepInv'
  <2>1. Goto(w, "consultreply") /\ UNCHANGED <<job, slot>>
    BY DEF GetKeyID
  <2>2. "consultreply" \in Steps /\ "consultreply" \notin AtASlot
    BY DEF Steps, AtASlot
  <2>3. slot' \in [Workers -> 0..MaxNode]
    BY <2>1 DEF TypeInv, TypeOK
  <2>4. QED
    BY <1>1, <2>1, <2>2, <2>3, GotoTyped
<1>4. node' \in [Workers -> TableNodes] /\ faults' \in Nat
  <2>1. PICK id \in {keysn, -1} :
           /\ node' = [node EXCEPT ![w] = [status |-> 0, seckeyID |-> id,
                                           owner |-> Owner(w), seckey |-> NoKey]]
           /\ faults' = faults \/ faults' = faults + 1
    BY DEF GetKeyID, SqlOk, SqlFail
  <2>2. node \in [Workers -> TableNodes] /\ faults \in Nat /\ id \in Int
    BY DEF TypeInv, TypeOK
  <2>3. [status |-> 0, seckeyID |-> id, owner |-> Owner(w), seckey |-> NoKey] \in TableNodes
    BY <1>2, <2>2, ZeroTyped DEF TableNodes
  <2>4. QED
    BY <2>1, <2>2, <2>3
<1>5. settled' \in [Clients -> Promises]
  <2>1. settled \in [Clients -> Promises]
    BY DEF TypeInv, TypeOK
  <2>2. settled' = [settled EXCEPT ![Owner(w)] = Unsettled]
    BY DEF GetKeyID
  <2>3. QED
    BY <1>2, <2>1, <2>2, ZeroTyped
<1>6. QED
  BY <1>3, <1>4, <1>5 DEF GetKeyID, TypeInv, TypeOK, clientVars, dbVars

LEMMA ConsultReplyTyped ==
    ASSUME TypeInv, clean' \subseteq Workers, solo' \subseteq Workers,
           NEW w \in Workers, ConsultReply(w)
    PROVE  TypeInv'
<1>1. job[w] \in Requests /\ job[w].cmd = "consult" /\ job[w].r1 \in Nat
  BY DEF ConsultReply, TypeInv, TypeOK, StepInv, OnlyConsult, Requests, Jobs
<1>2. r2s' \in Nat
  BY DEF ConsultReply, TypeInv, TypeOK
<1>3. node' \in [Workers -> TableNodes]
  <2>1. node \in [Workers -> TableNodes] /\ <<job[w].r1, r2s'>> \in Keys
    BY <1>1, <1>2 DEF TypeInv, TypeOK, Keys
  <2>2. [node[w] EXCEPT !.seckey = <<job[w].r1, r2s'>>] \in TableNodes
    BY <2>1 DEF TableNodes
  <2>3. node' = [node EXCEPT ![w].seckey = <<job[w].r1, r2s'>>]
    BY DEF ConsultReply
  <2>4. QED
    BY <2>1, <2>2, <2>3
<1>4. inbox' \in [Clients -> Msgs]
  <2>1. inbox \in [Clients -> Msgs] /\ node[w].seckeyID \in Int
    BY DEF TypeInv, TypeOK, TableNodes
  <2> DEFINE msg == [kind |-> "reply", rv |-> 0, id |-> node[w].seckeyID, r2 |-> r2s']
  <2>2. msg \in Msgs
    BY <1>2, <2>1 DEF Msgs
  <2>3. inbox' = inbox \/ Deliver(w, msg)
    BY DEF ConsultReply
  <2> HIDE DEF msg
  <2>4. QED
    BY <2>1, <2>2, <2>3, DeliverTyped
<1>5. /\ slot' \in [Workers -> 0..MaxNode]
      /\ pc' \in [Workers -> Steps] /\ StepInv'
  <2>1. CASE Goto(w, "match") /\ slot' = [slot EXCEPT ![w] = 1]
    <3>1. /\ slot' \in [Workers -> 0..MaxNode]
          /\ slot'[w] \in Slots /\ \A v \in Workers \ {w} : slot'[v] = slot[v]
      BY <2>1 DEF TypeInv, TypeOK, Slots
    <3>2. "match" \in Steps /\ UNCHANGED job
      BY DEF Steps, ConsultReply
    <3>3. QED
      BY <1>1, <2>1, <3>1, <3>2, GotoTyped
  <2>2. CASE Goto(w, "close") /\ UNCHANGED slot
    <3>1. "close" \in Steps /\ "close" \notin AtASlot /\ UNCHANGED job
      BY DEF Steps, AtASlot, ConsultReply
    <3>2. slot' \in [Workers -> 0..MaxNode]
      BY <2>2 DEF TypeInv, TypeOK
    <3>3. QED
      BY <1>1, <2>2, <3>1, <3>2, GotoTyped
  <2>3. QED
    BY <2>1, <2>2 DEF ConsultReply
<1>6. QED
  BY <1>2, <1>3, <1>4, <1>5 DEF ConsultReply, TypeInv, TypeOK, dbVars, boundVars, keyVars

(* A scan goes on to the next slot, or leaves the loop.                        *)
LEMMA ScanTyped ==
    ASSUME TypeInv, clean' \subseteq Workers, solo' \subseteq Workers,
           NEW w \in Workers, MatchSlot(w) \/ FreeSlot(w)
    PROVE  TypeInv'
<1>1. slot[w] \in Slots /\ job[w] \in Requests /\ slot \in [Workers -> 0..MaxNode]
  BY DEF MatchSlot, FreeSlot, TypeInv, TypeOK, StepInv, AtASlot
<1>2. job[w].cmd \in {"consult", "check", "cancel"} /\ (pc[w] = "free" => job[w].cmd = "consult")
  BY <1>1 DEF TypeInv, StepInv, OnlyConsult, Requests, Jobs
<1>3. PICK l \in {"copy", "load", "mark", "free", "match", "close", "retire"},
           i \in 0..MaxNode :
         /\ Goto(w, l) /\ slot' = [slot EXCEPT ![w] = i] /\ UNCHANGED job
         /\ l \in {"copy", "free"} => job[w].cmd = "consult"
         /\ l = "mark" => job[w].cmd = "cancel"
         /\ l # "retire" => i \in Slots
  <2>1. 1 \in Slots /\ Slots \subseteq 0..MaxNode /\ slot = [slot EXCEPT ![w] = slot[w]]
    BY <1>1 DEF Slots
  <2>2. slot[w] < LastSlot => slot[w] + 1 \in Slots
    BY <1>1 DEF Slots, LastSlot
  <2>3. pc = [pc EXCEPT ![w] = pc[w]]
    BY DEF TypeInv, TypeOK
  <2>4. CASE MatchSlot(w)
    <3>1. CASE table[slot[w]].owner = Owner(w)
      BY <1>1, <1>2, <2>1, <2>4, <3>1 DEF MatchSlot, Goto
    <3>2. CASE table[slot[w]].owner # Owner(w) /\ slot[w] < LastSlot
      BY <1>1, <1>2, <2>1, <2>2, <2>3, <2>4, <3>2 DEF MatchSlot, Goto
    <3>3. CASE table[slot[w]].owner # Owner(w) /\ slot[w] = LastSlot
      BY <1>1, <1>2, <2>1, <2>4, <3>3 DEF MatchSlot, Goto, LastSlot
    <3>4. QED
      BY <2>4, <3>1, <3>2, <3>3 DEF MatchSlot
  <2>5. CASE FreeSlot(w)
    <3>1. CASE table[slot[w]] = ZeroNode
      BY <1>1, <1>2, <2>1, <2>5, <3>1 DEF FreeSlot, Goto
    <3>2. CASE table[slot[w]] # ZeroNode /\ slot[w] < LastSlot
      BY <1>1, <1>2, <2>1, <2>2, <2>3, <2>5, <3>2 DEF FreeSlot, Goto
    <3>3. CASE table[slot[w]] # ZeroNode /\ slot[w] = LastSlot
      BY <1>1, <1>2, <2>1, <2>5, <3>3 DEF FreeSlot, Goto, LastSlot
    <3>4. QED
      BY <2>5, <3>1, <3>2, <3>3 DEF FreeSlot
  <2>6. QED
    BY <2>4, <2>5
<1>4. /\ slot' \in [Workers -> 0..MaxNode] /\ slot'[w] = i
      /\ \A v \in Workers \ {w} : slot'[v] = slot[v]
  BY <1>1, <1>3
<1>5. pc' \in [Workers -> Steps] /\ StepInv'
  <2>1. /\ l \in Steps /\ (l \in OnlyConsult => l \in {"copy", "free"})
        /\ (l \in AtASlot => l # "retire")
    BY DEF Steps, OnlyConsult, AtASlot
  <2>2. QED
    BY <1>1, <1>3, <1>4, <2>1, GotoTyped
<1>6. QED
  BY <1>4, <1>5 DEF MatchSlot, FreeSlot, TypeInv, TypeOK, clientVars, dbVars, boundVars, keyVars

(* Between the scans and the end a worker's slot no longer changes.            *)
LEMMA StayTyped ==
    ASSUME TypeInv, NEW w \in Workers, NEW l \in Steps, Goto(w, l), UNCHANGED <<job, slot>>,
           job[w] \in Requests,
           l \in OnlyConsult => job[w].cmd = "consult",
           l = "mark" => job[w].cmd = "cancel",
           l \in AtASlot => slot[w] \in Slots
    PROVE  /\ slot' \in [Workers -> 0..MaxNode]
           /\ pc' \in [Workers -> Steps]
           /\ StepInv'
<1>1. slot' \in [Workers -> 0..MaxNode]
  BY DEF TypeInv, TypeOK
<1>2. QED
  BY <1>1, GotoTyped

LEMMA CopyIdsTyped ==
    ASSUME TypeInv, clean' \subseteq Workers, solo' \subseteq Workers,
           NEW w \in Workers, CopyIds(w)
    PROVE  TypeInv'
<1>1. job[w] \in Requests /\ job[w].cmd = "consult" /\ slot[w] \in Slots
  BY DEF CopyIds, TypeInv, StepInv, OnlyConsult, AtASlot
<1>2. table' \in [Slots -> TableNodes]
  <2>1. table \in [Slots -> TableNodes] /\ node[w] \in TableNodes /\ table[slot[w]] \in TableNodes
    BY <1>1 DEF TypeInv, TypeOK
  <2>2. [node[w] EXCEPT !.seckey = table[slot[w]].seckey] \in TableNodes
    BY <2>1 DEF TableNodes
  <2>3. table' = [table EXCEPT ![slot[w]] = [node[w] EXCEPT !.seckey = table[slot[w]].seckey]]
    BY DEF CopyIds
  <2>4. QED
    BY <1>1, <2>1, <2>2, <2>3
<1>3. /\ slot' \in [Workers -> 0..MaxNode]
      /\ pc' \in [Workers -> Steps] /\ StepInv'
  <2>1. PICK l \in {"copykey", "retire"} : Goto(w, l)
    BY DEF CopyIds
  <2>2. l \in Steps /\ UNCHANGED <<job, slot>>
    BY DEF Steps, CopyIds
  <2>3. QED
    BY <1>1, <2>1, <2>2, StayTyped
<1>4. QED
  BY <1>2, <1>3 DEF CopyIds, TypeInv, TypeOK, clientVars, dbVars, boundVars, keyVars

LEMMA CopyKeyTyped ==
    ASSUME TypeInv, clean' \subseteq Workers, solo' \subseteq Workers,
           NEW w \in Workers, CopyKey(w)
    PROVE  TypeInv'
<1>1. job[w] \in Requests /\ job[w].cmd = "consult" /\ slot[w] \in Slots
  BY DEF CopyKey, TypeInv, StepInv, OnlyConsult, AtASlot
<1>2. table' \in [Slots -> TableNodes]
  <2>1. table \in [Slots -> TableNodes] /\ node[w] \in TableNodes /\ table[slot[w]] \in TableNodes
    BY <1>1 DEF TypeInv, TypeOK
  <2>2. [table[slot[w]] EXCEPT !.seckey = node[w].seckey] \in TableNodes
    BY <2>1 DEF TableNodes
  <2>3. table' = [table EXCEPT ![slot[w]].seckey = node[w].seckey]
    BY DEF CopyKey
  <2>4. QED
    BY <1>1, <2>1, <2>2, <2>3
<1>3. /\ slot' \in [Workers -> 0..MaxNode]
      /\ pc' \in [Workers -> Steps] /\ StepInv'
  <2>1. PICK l \in {"copyids", "retire"} : Goto(w, l)
    BY DEF CopyKey
  <2>2. l \in Steps /\ UNCHANGED <<job, slot>>
    BY DEF Steps, CopyKey
  <2>3. QED
    BY <1>1, <2>1, <2>2, StayTyped
<1>4. QED
  BY <1>2, <1>3 DEF CopyKey, TypeInv, TypeOK, clientVars, dbVars, boundVars, keyVars

LEMMA LoadKeyTyped ==
    ASSUME TypeInv, clean' \subseteq Workers, solo' \subseteq Workers,
           NEW w \in Workers, LoadKey(w)
    PROVE  TypeInv'
<1>1. job[w] \in Requests
  BY DEF LoadKey, TypeInv, StepInv
<1>2. /\ slot' \in [Workers -> 0..MaxNode]
      /\ pc' \in [Workers -> Steps] /\ StepInv'
  <2>1. PICK l \in {"answer", "close"} : Goto(w, l)
    BY DEF LoadKey
  <2>2. l \in Steps /\ l \notin OnlyConsult /\ l \notin AtASlot /\ UNCHANGED <<job, slot>>
    BY DEF Steps, OnlyConsult, AtASlot, LoadKey
  <2>3. QED
    BY <1>1, <2>1, <2>2, StayTyped
<1>3. QED
  BY <1>2 DEF LoadKey, TypeInv, TypeOK, clientVars, dbVars, boundVars, keyVars

LEMMA MarkRevokedTyped ==
    ASSUME TypeInv, clean' \subseteq Workers, solo' \subseteq Workers,
           NEW w \in Workers, MarkRevoked(w)
    PROVE  TypeInv'
<1>1. job[w] \in Requests /\ slot[w] \in Slots
  BY DEF MarkRevoked, TypeInv, StepInv, AtASlot
<1>2. table' \in [Slots -> TableNodes]
  <2>1. table \in [Slots -> TableNodes] /\ table[slot[w]] \in TableNodes
    BY <1>1 DEF TypeInv, TypeOK
  <2>2. [table[slot[w]] EXCEPT !.status = 1] \in TableNodes
    BY <2>1 DEF TableNodes
  <2>3. table' = [table EXCEPT ![slot[w]].status = 1]
    BY DEF MarkRevoked
  <2>4. QED
    BY <1>1, <2>1, <2>2, <2>3
<1>3. /\ slot' \in [Workers -> 0..MaxNode]
      /\ pc' \in [Workers -> Steps] /\ StepInv'
  <2>1. Goto(w, "retire") /\ UNCHANGED <<job, slot>>
    BY DEF MarkRevoked
  <2>2. "retire" \in Steps /\ "retire" \notin OnlyConsult /\ "retire" \notin AtASlot
    BY DEF Steps, OnlyConsult, AtASlot
  <2>3. QED
    BY <1>1, <2>1, <2>2, StayTyped
<1>4. QED
  BY <1>2, <1>3 DEF MarkRevoked, TypeInv, TypeOK, clientVars, dbVars, boundVars, keyVars

LEMMA RetireTyped ==
    ASSUME TypeInv, clean' \subseteq Workers, solo' \subseteq Workers,
           NEW w \in Workers, Retire(w)
    PROVE  TypeInv'
<1>1. job[w] \in Requests
  BY DEF Retire, TypeInv, StepInv
<1>2. Owner(w) \in Clients
  BY <1>1 DEF Owner, Requests
<1>3. rows' \subseteq [owner : Clients, id : Int, state : {0, 1}, key : Keys] /\ faults' \in Nat
  <2>1. rows \subseteq [owner : Clients, id : Int, state : {0, 1}, key : Keys] /\ faults \in Nat
    BY DEF TypeInv, TypeOK
  <2>2. Retired(Owner(w)) \subseteq [owner : Clients, id : Int, state : {0, 1}, key : Keys]
    BY <2>1 DEF Retired
  <2>3. (rows' = rows \/ rows' = Retired(Owner(w))) /\ (faults' = faults \/ faults' = faults + 1)
    BY DEF Retire, SqlOk, SqlFail
  <2>4. QED
    BY <2>1, <2>2, <2>3
<1>4. settled' \in [Clients -> Promises]
  <2>1. settled \in [Clients -> Promises] /\ seen[w] \in Promises
    BY DEF TypeInv, TypeOK
  <2>2. CASE UNCHANGED settled
    BY <2>1, <2>2
  <2>3. CASE /\ seen[w] # Unsettled
             /\ settled' = [settled EXCEPT ![Owner(w)] = [seen[w] EXCEPT !.valid = FALSE]]
    <3>1. [seen[w] EXCEPT !.valid = FALSE] \in Promises
      BY <2>1, <2>3 DEF Promises
    <3>2. QED
      BY <1>2, <2>1, <2>3, <3>1
  <2>4. QED
    BY <2>2, <2>3 DEF Retire
<1>5. /\ slot' \in [Workers -> 0..MaxNode]
      /\ pc' \in [Workers -> Steps] /\ StepInv'
  <2>1. PICK l \in {"bump", "answer", "close"} :
           Goto(w, l) /\ (l = "bump" => job[w].cmd = "consult")
    BY DEF Retire
  <2>2. l \in Steps /\ l \notin AtASlot /\ (l \in OnlyConsult => l = "bump")
        /\ UNCHANGED <<job, slot>>
    BY DEF Steps, OnlyConsult, AtASlot, Retire
  <2>3. QED
    BY <1>1, <2>1, <2>2, StayTyped
<1>6. QED
  BY <1>3, <1>4, <1>5 DEF Retire, TypeInv, TypeOK, clientVars

LEMMA BumpTyped ==
    ASSUME TypeInv, clean' \subseteq Workers, solo' \subseteq Workers,
           NEW w \in Workers, Bump(w)
    PROVE  TypeInv'
<1>1. job[w] \in Requests /\ job[w].cmd = "consult"
  BY DEF Bump, TypeInv, StepInv, OnlyConsult
<1>2. keysn' \in Int /\ faults' \in Nat /\ soloIds' \subseteq Int
  <2>1. keysn \in Int /\ faults \in Nat /\ soloIds \subseteq Int /\ node[w].seckeyID \in Int
    BY DEF TypeInv, TypeOK, TableNodes
  <2>2. /\ keysn' = keysn \/ keysn' = node[w].seckeyID + 1
        /\ faults' = faults \/ faults' = faults + 1
        /\ soloIds' = soloIds \/ soloIds' = {}
    BY DEF Bump, SqlOk, SqlFail, NextNumber
  <2>3. keysn' \in Int
    BY <2>1, <2>2
  <2>4. faults' \in Nat
    BY <2>1, <2>2
  <2>5. soloIds' \subseteq Int
    BY <2>1, <2>2
  <2>6. QED
    BY <2>3, <2>4, <2>5
<1>3. /\ slot' \in [Workers -> 0..MaxNode]
      /\ pc' \in [Workers -> Steps] /\ StepInv'
  <2>1. Goto(w, "insert") /\ UNCHANGED <<job, slot>>
    BY DEF Bump
  <2>2. "insert" \in Steps /\ "insert" \notin AtASlot
    BY DEF Steps, AtASlot
  <2>3. QED
    BY <1>1, <2>1, <2>2, StayTyped
<1>4. QED
  BY <1>2, <1>3 DEF Bump, TypeInv, TypeOK, clientVars

LEMMA InsertTyped ==
    ASSUME TypeInv, clean' \subseteq Workers, solo' \subseteq Workers,
           NEW w \in Workers, Insert(w)
    PROVE  TypeInv'
<1>1. job[w] \in Requests /\ node[w] \in TableNodes
  BY DEF Insert, TypeInv, TypeOK, StepInv
<1>2. /\ Owner(w) \in Clients /\ job[w].conn \in Nat
      /\ node[w].seckeyID \in Int /\ node[w].seckey \in Keys
  BY <1>1 DEF Owner, Requests, Jobs, TableNodes
<1>3. rows' \subseteq [owner : Clients, id : Int, state : {0, 1}, key : Keys] /\ faults' \in Nat
  <2>1. rows \subseteq [owner : Clients, id : Int, state : {0, 1}, key : Keys] /\ faults \in Nat
    BY DEF TypeInv, TypeOK
  <2>2. /\ \/ rows' = rows
           \/ rows' = rows \cup {[owner |-> Owner(w), id |-> node[w].seckeyID,
                                  state |-> 0, key |-> node[w].seckey]}
        /\ faults' = faults \/ faults' = faults + 1
    BY DEF Insert, SqlOk, SqlFail
  <2>3. QED
    BY <1>2, <2>1, <2>2
<1>4. settled' \in [Clients -> Promises]
  <2> DEFINE promise == [conn |-> job[w].conn, valid |-> TRUE,
                         id |-> node[w].seckeyID, key |-> node[w].seckey]
  <2>1. settled \in [Clients -> Promises] /\ promise \in Promises
    BY <1>2 DEF TypeInv, TypeOK, Promises
  <2>2. settled' = settled \/ settled' = [settled EXCEPT ![Owner(w)] = promise]
    BY DEF Insert
  <2> HIDE DEF promise
  <2>3. QED
    BY <1>2, <2>1, <2>2
<1>5. soloIds' \subseteq Int
  BY <1>2 DEF Insert, TypeInv, TypeOK
<1>6. /\ slot' \in [Workers -> 0..MaxNode]
      /\ pc' \in [Workers -> Steps] /\ StepInv'
  <2>1. Goto(w, "close") /\ UNCHANGED <<job, slot>>
    BY DEF Insert
  <2>2. "close" \in Steps /\ "close" \notin OnlyConsult /\ "close" \notin AtASlot
    BY DEF Steps, OnlyConsult, AtASlot
  <2>3. QED
    BY <1>1, <2>1, <2>2, StayTyped
<1>7. QED
  BY <1>3, <1>4, <1>5, <1>6 DEF Insert, TypeInv, TypeOK, clientVars

LEMMA AnswerTyped ==
    ASSUME TypeInv, clean' \subseteq Workers, solo' \subseteq Workers,
           NEW w \in Workers, Answer(w)
    PROVE  TypeInv'
<1>1. job[w] \in Requests
  BY DEF Answer, TypeInv, StepInv
<1>2. inbox' \in [Clients -> Msgs]
  <2> DEFINE msg == [kind |-> "reply", rv |-> IF job[w].cmd = "check" THEN 0 ELSE 1,
                     id |-> 0, r2 |-> 0]
  <2>1. msg \in Msgs /\ inbox \in [Clients -> Msgs]
    BY DEF Msgs, TypeInv, TypeOK
  <2>2. inbox' = inbox \/ Deliver(w, msg)
    BY DEF Answer
  <2> HIDE DEF msg
  <2>3. QED
    BY <2>1, <2>2, DeliverTyped
<1>3. /\ slot' \in [Workers -> 0..MaxNode]
      /\ pc' \in [Workers -> Steps] /\ StepInv'
  <2>1. Goto(w, "close") /\ UNCHANGED <<job, slot>>
    BY DEF Answer
  <2>2. "close" \in Steps /\ "close" \notin OnlyConsult /\ "close" \notin AtASlot
    BY DEF Steps, OnlyConsult, AtASlot
  <2>3. QED
    BY <1>1, <2>1, <2>2, StayTyped
<1>4. QED
  BY <1>2, <1>3 DEF Answer, TypeInv, TypeOK, dbVars, boundVars, keyVars

LEMMA CloseTyped ==
    ASSUME TypeInv, clean' \subseteq Workers, solo' \subseteq Workers,
           NEW w \in Workers, Close(w)
    PROVE  TypeInv'
<1>1. /\ pc' \in [Workers -> Steps] /\ job' \in [Workers -> Jobs]
      /\ slot' \in [Workers -> 0..MaxNode] /\ node' \in [Workers -> TableNodes]
      /\ seen' \in [Workers -> Promises]
  <2>1. /\ pc \in [Workers -> Steps] /\ job \in [Workers -> Jobs]
        /\ slot \in [Workers -> 0..MaxNode] /\ node \in [Workers -> TableNodes]
        /\ seen \in [Workers -> Promises]
    BY DEF TypeInv, TypeOK
  <2>2. /\ pc' = [pc EXCEPT ![w] = "idle"] /\ job' = [job EXCEPT ![w] = ZeroJob]
        /\ slot' = [slot EXCEPT ![w] = 0] /\ node' = [node EXCEPT ![w] = ZeroNode]
        /\ seen' = [seen EXCEPT ![w] = Unsettled]
    BY DEF Close, Goto
  <2>3. "idle" \in Steps /\ 0 \in 0..MaxNode
    BY DEF Steps
  <2>4. QED
    BY <2>1, <2>2, <2>3, ZeroTyped
<1>2. inbox' \in [Clients -> Msgs]
  BY DeliverTyped, ZeroTyped DEF Close
<1>3. StepInv'
  BY DEF Close, Goto, TypeInv, TypeOK, StepInv, OnlyConsult, AtASlot
<1>4. QED
  BY <1>1, <1>2, <1>3 DEF Close, TypeInv, TypeOK, dbVars, boundVars

LEMMA RestartTyped ==
    ASSUME TypeInv, clean' \subseteq Workers, solo' \subseteq Workers, Restart
    PROVE  TypeInv'
BY DEF Restart, TypeInv, TypeOK, StepInv, clientVars, workerVars, dbVars, keyVars

(* The types of all variables hold in every state of the key service, and so   *)
(* does what each step of a worker relies on: a request, and a slot in range.  *)
THEOREM KeyServiceTyped == Spec => []TypeInv
<1>1. Init => TypeInv
  <2> SUFFICES ASSUME Init PROVE TypeInv
    OBVIOUS
  <2>1. ZeroTable(Slots) \in [Slots -> TableNodes] /\ ZeroTable(ClientSlots) \in [ClientSlots -> TableNodes]
    BY ZeroTyped DEF ZeroTable
  <2>2. \A c \in Clients : [ZeroJob EXCEPT !.client = c] \in Jobs
    BY ZeroTyped DEF Jobs
  <2>3. StepInv
    BY DEF Init, StepInv, OnlyConsult, AtASlot
  <2>4. /\ phase \in [Clients -> {"idle", "wait"}] /\ ask \in [Clients -> Jobs]
        /\ nonce \in [Clients -> Nat] /\ inbox \in [Clients -> Msgs]
        /\ own \in [Clients -> [ClientSlots -> TableNodes]] /\ ownConn \in [Clients -> Nat]
        /\ settled \in [Clients -> Promises]
    BY <2>1, <2>2, ZeroTyped DEF Init
  <2>5. /\ pc \in [Workers -> Steps] /\ job \in [Workers -> Jobs]
        /\ slot \in [Workers -> 0..MaxNode] /\ node \in [Workers -> TableNodes]
        /\ seen \in [Workers -> Promises]
    BY ZeroTyped DEF Init, Steps
  <2>6. queue \in Seq(Jobs) /\ queue \in Seq(Requests)
    <3>1. <<>> \in Seq(Jobs) /\ <<>> \in Seq(Requests)
      OBVIOUS
    <3>2. QED
      BY <3>1 DEF Init
  <2>7. QED
    BY <2>1, <2>3, <2>4, <2>5, <2>6 DEF Init, TypeInv, TypeOK
<1>2. TypeInv /\ [Next]_vars => TypeInv'
  <2> SUFFICES ASSUME TypeInv, [Next]_vars PROVE TypeInv'
    OBVIOUS
  <2>1. CASE UNCHANGED vars
    BY <2>1 DEF TypeInv, TypeOK, StepInv, vars, clientVars, workerVars, dbVars, boundVars, keyVars
  <2>2. CASE Next
    <3>1. clean' \subseteq Workers /\ solo' \subseteq Workers /\ Step
      BY <2>2 DEF Next, CleanNext, SoloNext
    <3>2. CASE \E c \in Clients : ClientStep(c) \/ EditClients(c)
      BY <3>1, <3>2, SendConsultTyped, SendCheckTyped, SendCancelTyped, ReceiveTyped, ReturnTyped,
         EditTyped DEF ClientStep
    <3>3. CASE \E w \in Workers : Take(w) \/ WorkerStep(w)
      BY <3>1, <3>3, TakeTyped, DieTyped, CheckClientTyped, GetKeyIDTyped, ConsultReplyTyped,
         ScanTyped, CopyIdsTyped, CopyKeyTyped, LoadKeyTyped, MarkRevokedTyped, RetireTyped,
         BumpTyped, InsertTyped, AnswerTyped, CloseTyped DEF WorkerStep, CheckUnknownClient
    <3>4. CASE Crash \/ Restart
      BY <3>1, <3>4, DieTyped, RestartTyped DEF Crash
    <3>5. QED
      BY <3>1, <3>2, <3>3, <3>4 DEF Step
  <2>3. QED
    BY <2>1, <2>2
<1>3. QED
  BY <1>1, <1>2, PTL DEF Spec

-----------------------------------------------------------------------------
(* The numbers of consults that had the key counter to themselves. *)

Id(w)        == node[w].seckeyID
Recording(w) == w \in solo /\ pc[w] = "insert"

(* Recorded numbers are behind the counter, and so is the number of a solo     *)
(* worker that has written the counter back; no two such workers have the same *)
(* one.  A worker that read the counter after them has a higher number, or -1, *)
(* so when it writes back, late or not, it does not reach below theirs.  The   *)
(* counter falls back to 0 behind a -1 alone, and that ends every promise.     *)
CounterInv  == keysn \in Nat /\ \A n \in soloIds : n \in Nat /\ n < keysn
NumberInv   == \A v \in Workers : Numbering(v) =>
                  \/ Id(v) = -1
                  \/ /\ Id(v) \in Nat
                     /\ \A n \in soloIds : n < Id(v)
                     /\ \A w \in Workers : Recording(w) => Id(w) < Id(v)
AloneInv    == \A w \in solo : Numbering(w) =>
                  Id(w) = keysn /\ \A v \in Workers : Numbering(v) => v = w
RecordInv   == \A w \in Workers : Recording(w) =>
                  /\ Id(w) \in Nat /\ Id(w) < keysn /\ Id(w) \notin soloIds
                  /\ \A v \in Workers : Recording(v) /\ Id(v) = Id(w) => v = w

SoloInv == CounterInv /\ NumberInv /\ AloneInv /\ RecordInv

(* What becomes of a solo worker in a step.                                    *)
LEMMA SoloMember ==
    ASSUME SoloNext, NEW w \in solo'
    PROVE  /\ w \in Workers
           /\ Numbering(w)' \/ pc'[w] = "insert"
           /\ w \in solo \/ pc[w] = "getid"
           /\ ~(pc'[w] # pc[w] /\ faults' # faults)
           /\ ~(keysn' = 0 /\ keysn # 0)
           /\ Numbering(w)' => \A v \in Workers : Numbering(v)' => v = w
BY DEF SoloNext, Faulted

LEMMA NumberingSteps ==
    ASSUME NEW w, Numbering(w) PROVE pc[w] # "getid" /\ pc[w] # "insert" /\ pc[w] # "idle"
BY DEF Numbering

(* A step that leaves the counter and the recorded numbers alone, and in which *)
(* no worker starts to number or to record.                                    *)
LEMMA QuietSolo ==
    ASSUME TypeInv, SoloInv, SoloNext, UNCHANGED <<keysn, soloIds>>,
           \A w \in Workers : /\ Numbering(w)' => Numbering(w) /\ Id(w)' = Id(w)
                              /\ pc'[w] = "insert" => pc[w] = "insert" /\ Id(w)' = Id(w)
    PROVE  SoloInv'
<1>1. solo' \subseteq Workers
  BY SoloMember
<1>2. \A w \in solo' : Numbering(w)' => w \in solo
  BY SoloMember, NumberingSteps
<1>3. \A w \in Workers : Recording(w)' => Recording(w) /\ Id(w)' = Id(w)
  BY SoloMember DEF Recording
<1>4. CounterInv'
  BY DEF SoloInv, CounterInv
<1>5. NumberInv'
  BY <1>3 DEF SoloInv, NumberInv
<1>6. AloneInv'
  BY <1>1, <1>2, SoloMember DEF SoloInv, AloneInv
<1>7. RecordInv'
  BY <1>3 DEF SoloInv, RecordInv
<1>8. QED
  BY <1>4, <1>5, <1>6, <1>7 DEF SoloInv

(* getKeyID: the number read is the counter, above all that were recorded, or  *)
(* -1 of a failed statement.                                                   *)
LEMMA GetKeyIDSolo ==
    ASSUME TypeInv, SoloInv, SoloNext, NEW v \in Workers, GetKeyID(v)
    PROVE  SoloInv'
<1>1. PICK id \in {keysn, -1} :
         /\ node' = [node EXCEPT ![v] = [status |-> 0, seckeyID |-> id,
                                         owner |-> Owner(v), seckey |-> NoKey]]
         /\ id = -1 => faults' # faults
  <2>1. faults \in Nat
    BY DEF TypeInv, TypeOK
  <2>2. PICK id \in {keysn, -1} :
           /\ node' = [node EXCEPT ![v] = [status |-> 0, seckeyID |-> id,
                                           owner |-> Owner(v), seckey |-> NoKey]]
           /\ id = -1 => faults' = faults + 1
    BY DEF GetKeyID, SqlFail
  <2>3. id = -1 => faults' # faults
    BY <2>1, <2>2
  <2>4. QED
    BY <2>2, <2>3
<1>2. /\ UNCHANGED <<keysn, soloIds, job>> /\ pc[v] = "getid"
      /\ pc' = [pc EXCEPT ![v] = "consultreply"]
      /\ pc \in [Workers -> Steps] /\ node \in [Workers -> TableNodes]
  BY DEF GetKeyID, Goto, dbVars, TypeInv, TypeOK
<1>3. Id(v)' = id /\ \A w \in Workers \ {v} : Id(w)' = Id(w) /\ pc'[w] = pc[w]
  BY <1>1, <1>2 DEF Id
<1>4. /\ Numbering(v)' /\ ~Recording(v)'
      /\ \A w \in Workers \ {v} : Numbering(w)' <=> Numbering(w)
  <2>1. job[v].cmd = "consult"
    BY <1>2 DEF TypeInv, StepInv, OnlyConsult
  <2>2. QED
    BY <1>2, <2>1 DEF Numbering, Recording
<1>5. \A w \in Workers : Recording(w)' => w # v /\ Recording(w) /\ Id(w)' = Id(w)
  BY <1>2, <1>3, <1>4, SoloMember DEF Recording
<1>6. CounterInv'
  BY <1>2 DEF SoloInv, CounterInv
<1>7. NumberInv'
  <2>1. id = -1 \/ (id = keysn /\ keysn \in Nat)
    BY DEF SoloInv, CounterInv
  <2>2. (\A n \in soloIds : n < keysn) /\ \A w \in Workers : Recording(w) => Id(w) < keysn
    BY DEF SoloInv, CounterInv, RecordInv
  <2>3. \/ Id(v)' = -1
        \/ /\ Id(v)' \in Nat
           /\ \A n \in soloIds' : n < Id(v)'
           /\ \A w \in Workers : Recording(w)' => Id(w)' < Id(v)'
    BY <1>2, <1>3, <1>5, <2>1, <2>2
  <2>4. \A u \in Workers \ {v} : Numbering(u)' =>
          \/ Id(u)' = -1
          \/ /\ Id(u)' \in Nat
             /\ \A n \in soloIds' : n < Id(u)'
             /\ \A w \in Workers : Recording(w)' => Id(w)' < Id(u)'
    BY <1>2, <1>3, <1>4, <1>5 DEF SoloInv, NumberInv
  <2>5. QED
    BY <2>3, <2>4 DEF NumberInv
<1>8. AloneInv'
  <2>1. \A w \in solo' : Numbering(w)' => w = v
    BY <1>4, SoloMember
  <2>2. v \in solo' => id # -1
    BY <1>1, <1>2, SoloMember
  <2>3. v \in solo' => \A w \in Workers : Numbering(w)' => w = v
    BY <1>4, SoloMember
  <2>4. QED
    BY <1>2, <1>3, <2>1, <2>2, <2>3 DEF AloneInv
<1>9. RecordInv'
  BY <1>2, <1>5 DEF SoloInv, RecordInv
<1>10. QED
  BY <1>6, <1>7, <1>8, <1>9 DEF SoloInv

(* updataKeyID: a solo worker moves the counter past its own number.  Another  *)
(* one may set it back, but not below the numbers of solo workers.             *)
LEMMA BumpSolo ==
    ASSUME TypeInv, SoloInv, SoloNext, NEW v \in Workers, Bump(v)
    PROVE  SoloInv'
<1>1. /\ pc[v] = "bump" /\ pc' = [pc EXCEPT ![v] = "insert"] /\ UNCHANGED <<node, job>>
      /\ pc \in [Workers -> Steps] /\ faults \in Nat
      /\ soloIds' = IF keysn' = 0 /\ keysn # 0 THEN {} ELSE soloIds
  BY DEF Bump, Goto, TypeInv, TypeOK
<1>2. \/ faults' = faults /\ keysn' = Id(v) + 1
      \/ faults' # faults /\ keysn' = keysn
  <2>1. \/ faults' = faults /\ keysn' = Id(v) + 1
        \/ faults' = faults + 1 /\ keysn' = keysn
    BY DEF Bump, SqlOk, SqlFail, NextNumber, Id
  <2>2. QED
    BY <1>1, <2>1
<1>3. Numbering(v) /\ pc'[v] = "insert" /\ ~Numbering(v)'
  <2>1. job[v].cmd = "consult"
    BY <1>1 DEF TypeInv, StepInv, OnlyConsult
  <2>2. QED
    BY <1>1, <2>1 DEF Numbering
<1>4. \A w \in Workers : Id(w)' = Id(w) /\ (w # v => pc'[w] = pc[w] /\ (Numbering(w)' <=> Numbering(w)))
  BY <1>1 DEF Id, Numbering
<1>5. solo' \subseteq Workers /\ \A w \in solo' : w \in solo \/ pc[w] = "getid"
  BY SoloMember
<1>6. \A w \in Workers :
         Recording(w)' => \/ w = v /\ v \in solo /\ faults' = faults
                          \/ w # v /\ Recording(w)
  BY <1>1, <1>3, <1>4, SoloMember DEF Recording
<1>7. \A w \in solo' : Numbering(w)' => w \in solo /\ w # v /\ Numbering(w)
  BY <1>3, <1>4, <1>5, NumberingSteps
<1>8. \A w \in solo' : ~Numbering(w)'
  BY <1>3, <1>5, <1>7 DEF SoloInv, AloneInv
<1>9. AloneInv'
  BY <1>8 DEF AloneInv
<1>10. CASE keysn' = 0 /\ keysn # 0
  <2>1. solo' = {} /\ soloIds' = {}
    BY <1>1, <1>10, SoloMember
  <2>2. \A u \in Workers : Numbering(u)' => Id(u)' = -1 \/ Id(u)' \in Nat
    BY <1>3, <1>4 DEF SoloInv, NumberInv
  <2>3. QED
    BY <1>9, <1>10, <2>1, <2>2 DEF SoloInv, CounterInv, NumberInv, RecordInv, Recording
<1>11. CASE ~(keysn' = 0 /\ keysn # 0) /\ v \in solo /\ faults' = faults
  <2>1. Id(v) = keysn /\ keysn' = keysn + 1 /\ keysn \in Nat /\ soloIds' = soloIds
    BY <1>1, <1>2, <1>3, <1>11 DEF SoloInv, AloneInv, CounterInv
  <2>2. \A u \in Workers : ~Numbering(u)'
    BY <1>3, <1>4, <1>11 DEF SoloInv, AloneInv
  <2>3. CounterInv' /\ NumberInv'
    BY <2>1, <2>2 DEF SoloInv, CounterInv, NumberInv
  <2>4. RecordInv'
    <3>1. \A w \in Workers : Recording(w) => Id(w) < keysn
      BY DEF SoloInv, RecordInv
    <3>2. \A n \in soloIds : n < keysn
      BY DEF SoloInv, CounterInv
    <3>3. ASSUME NEW w \in Workers, Recording(w)'
          PROVE  Id(w)' \in Nat /\ Id(w)' < keysn' /\ Id(w)' \notin soloIds'
      BY <1>4, <1>6, <2>1, <3>2, <3>3 DEF SoloInv, RecordInv
    <3>4. ASSUME NEW w \in Workers, NEW u \in Workers, Recording(w)', Recording(u)', Id(u)' = Id(w)'
          PROVE  u = w
      BY <1>4, <1>6, <2>1, <3>1, <3>4 DEF SoloInv, RecordInv
    <3>5. QED
      BY <3>3, <3>4 DEF RecordInv
  <2>5. QED
    BY <1>9, <2>3, <2>4 DEF SoloInv
<1>12. CASE ~(keysn' = 0 /\ keysn # 0) /\ ~(v \in solo /\ faults' = faults)
  <2>1. \A w \in Workers : Recording(w)' => w # v /\ Recording(w)
    BY <1>6, <1>12
  <2>2. /\ keysn' \in Nat
        /\ \A n \in soloIds : n < keysn'
        /\ \A w \in Workers : Recording(w)' => Id(w) < keysn'
    <3>1. CASE keysn' = keysn
      BY <2>1, <3>1 DEF SoloInv, CounterInv, RecordInv
    <3>2. CASE Id(v) = -1 /\ keysn' = Id(v) + 1
      <4>1. keysn' = 0 /\ keysn = 0
        BY <1>12, <3>2
      <4>2. QED
        BY <3>1, <4>1
    <3>3. CASE Id(v) # -1 /\ keysn' = Id(v) + 1
      <4>1. /\ Id(v) \in Nat
            /\ \A n \in soloIds : n < Id(v)
            /\ \A w \in Workers : Recording(w) => Id(w) < Id(v)
        BY <1>3, <3>3 DEF SoloInv, NumberInv
      <4>2. (\A n \in soloIds : n \in Nat) /\ \A w \in Workers : Recording(w) => Id(w) \in Nat
        BY DEF SoloInv, CounterInv, RecordInv
      <4>3. QED
        BY <2>1, <3>3, <4>1, <4>2
    <3>4. QED
      BY <1>2, <3>1, <3>2, <3>3
  <2>3. soloIds' = soloIds
    BY <1>1, <1>12
  <2>4. CounterInv'
    BY <2>2, <2>3 DEF SoloInv, CounterInv
  <2>5. NumberInv'
    BY <1>3, <1>4, <2>1, <2>3 DEF SoloInv, NumberInv
  <2>6. RecordInv'
    BY <1>4, <2>1, <2>2, <2>3 DEF SoloInv, RecordInv
  <2>7. QED
    BY <1>9, <2>4, <2>5, <2>6 DEF SoloInv
<1>13. QED
  BY <1>10, <1>11, <1>12

(* writeSecKey: a solo worker's number is recorded.                            *)
LEMMA InsertSolo ==
    ASSUME TypeInv, SoloInv, SoloNext, NEW v \in Workers, Insert(v)
    PROVE  SoloInv'
<1>1. /\ pc[v] = "insert" /\ pc' = [pc EXCEPT ![v] = "close"] /\ UNCHANGED <<node, job, keysn>>
      /\ pc \in [Workers -> Steps]
      /\ soloIds' = soloIds \/ (Recording(v) /\ soloIds' = soloIds \cup {Id(v)})
  <2>1. soloIds' = IF v \in solo /\ faults' = faults THEN soloIds \cup {node[v].seckeyID}
                                                     ELSE soloIds
    BY DEF Insert
  <2>2. /\ pc[v] = "insert" /\ pc' = [pc EXCEPT ![v] = "close"] /\ UNCHANGED <<node, job, keysn>>
    BY DEF Insert, Goto
  <2>3. pc \in [Workers -> Steps]
    BY DEF TypeInv, TypeOK
  <2>4. soloIds' = soloIds \/ (Recording(v) /\ soloIds' = soloIds \cup {Id(v)})
    <3>1. CASE v \in solo /\ faults' = faults
      BY <2>1, <2>2, <3>1 DEF Recording, Id
    <3>2. CASE ~(v \in solo /\ faults' = faults)
      <4>1. soloIds' = soloIds
        BY <2>1, <3>2
      <4>2. QED
        BY <4>1
    <3>3. QED
      BY <3>1, <3>2
  <2>5. QED
    BY <2>2, <2>3, <2>4
<1>2. \A w \in Workers : Id(w)' = Id(w) /\ (Numbering(w)' <=> Numbering(w))
  BY <1>1 DEF Id, Numbering
<1>3. \A w \in Workers : Recording(w)' => w # v /\ Recording(w)
  BY <1>1, SoloMember DEF Recording
<1>4. \A w \in solo' : Numbering(w)' => w \in solo
  BY <1>2, SoloMember, NumberingSteps
<1>5. CounterInv'
  BY <1>1 DEF SoloInv, CounterInv, RecordInv
<1>6. NumberInv'
  BY <1>1, <1>2, <1>3 DEF SoloInv, NumberInv
<1>7. AloneInv'
  BY <1>1, <1>2, <1>4, SoloMember DEF SoloInv, AloneInv
<1>8. RecordInv'
  BY <1>1, <1>2, <1>3 DEF SoloInv, RecordInv
<1>9. QED
  BY <1>5, <1>6, <1>7, <1>8 DEF SoloInv

(* All other steps of a worker: they neither enter the numbering nor record.   *)
LEMMA MoveSolo ==
    ASSUME TypeInv, SoloInv, SoloNext, UNCHANGED <<keysn, soloIds, job>>,
           NEW v \in Workers, NEW l, l # "insert", Goto(v, l),
           \A w \in Workers \ {v} : Id(w)' = Id(w),
           Numbering(v)' => Numbering(v) /\ Id(v)' = Id(v)
    PROVE  SoloInv'
<1>1. pc'[v] = l /\ \A w \in Workers \ {v} : pc'[w] = pc[w]
  BY DEF Goto, TypeInv, TypeOK
<1>2. \A w \in Workers \ {v} : Numbering(w)' => Numbering(w)
  BY <1>1 DEF Numbering
<1>3. \A w \in Workers : pc'[w] = "insert" => pc[w] = "insert" /\ Id(w)' = Id(w)
  BY <1>1
<1>4. \A w \in Workers : Numbering(w)' => Numbering(w) /\ Id(w)' = Id(w)
  BY <1>2
<1>5. QED
  BY <1>3, <1>4, QuietSolo

(* The steps of a scan, a copy and an answer do not touch the number.          *)
LEMMA ScanSolo ==
    ASSUME TypeInv, SoloInv, SoloNext, NEW v \in Workers,
           \/ CheckClient(v) \/ MatchSlot(v) \/ FreeSlot(v) \/ CopyIds(v) \/ CopyKey(v)
           \/ LoadKey(v) \/ MarkRevoked(v) \/ Retire(v) \/ Answer(v)
    PROVE  SoloInv'
<1>1. UNCHANGED <<keysn, soloIds, job, node>>
  BY DEF CheckClient, MatchSlot, FreeSlot, CopyIds, CopyKey, LoadKey, MarkRevoked, Retire, Answer,
         dbVars, keyVars
<1>2. \A w \in Workers : Id(w)' = Id(w)
  BY <1>1 DEF Id
<1>3. PICK l \in Steps : Goto(v, l) /\ l # "insert" /\ (Numbering(v)' => Numbering(v))
  <2>1. pc \in [Workers -> Steps]
    BY DEF TypeInv, TypeOK
  <2>2. CASE CheckClient(v)
    BY <1>1, <2>1, <2>2 DEF CheckClient, Goto, Steps, Numbering
  <2>3. CASE MatchSlot(v)
    <3>1. PICK l \in {"copy", "load", "mark", "match", "free", "close"} :
             pc' = [pc EXCEPT ![v] = l] /\ (l = "copy" => job[v].cmd = "consult")
      <4>1. pc = [pc EXCEPT ![v] = pc[v]]
        BY <2>1
      <4>2. CASE table[slot[v]].owner = Owner(v)
        <5>1. job[v].cmd \in {"consult", "check", "cancel"}
          BY <2>3 DEF MatchSlot, TypeInv, StepInv, Requests, Jobs
        <5>2. QED
          BY <2>3, <4>2, <5>1 DEF MatchSlot, Goto
      <4>3. CASE table[slot[v]].owner # Owner(v)
        BY <2>3, <4>1, <4>3 DEF MatchSlot, Goto
      <4>4. QED
        BY <4>2, <4>3
    <3>2. pc[v] = "match"
      BY <2>3 DEF MatchSlot
    <3>3. QED
      BY <1>1, <2>1, <3>1, <3>2 DEF Goto, Steps, Numbering
  <2>4. CASE FreeSlot(v)
    BY <1>1, <2>1, <2>4 DEF FreeSlot, Goto, Steps, Numbering
  <2>5. CASE CopyIds(v) \/ CopyKey(v)
    BY <1>1, <2>1, <2>5 DEF CopyIds, CopyKey, Goto, Steps, Numbering
  <2>6. CASE LoadKey(v) \/ Answer(v)
    BY <1>1, <2>1, <2>6 DEF LoadKey, Answer, Goto, Steps, Numbering
  <2>7. CASE MarkRevoked(v)
    <3>1. Goto(v, "retire")
      BY <2>7 DEF MarkRevoked
    <3>2. job[v].cmd = "cancel"
      BY <2>7 DEF MarkRevoked, TypeInv, StepInv
    <3>3. QED
      BY <1>1, <2>1, <3>1, <3>2 DEF Goto, Steps, Numbering
  <2>8. CASE Retire(v)
    BY <1>1, <2>1, <2>8 DEF Retire, Goto, Steps, Numbering
  <2>9. QED
    BY <2>2, <2>3, <2>4, <2>5, <2>6, <2>7, <2>8
<1>4. QED
  BY <1>1, <1>2, <1>3, MoveSolo

LEMMA ConsultReplySolo ==
    ASSUME TypeInv, SoloInv, SoloNext, NEW v \in Workers, ConsultReply(v)
    PROVE  SoloInv'
<1>1. UNCHANGED <<keysn, soloIds, job>>
  BY DEF ConsultReply, dbVars, keyVars
<1>2. \A w \in Workers : Id(w)' = Id(w)
  <2>1. node \in [Workers -> TableNodes] /\ node' = [node EXCEPT ![v].seckey = <<job[v].r1, r2s'>>]
    BY DEF ConsultReply, TypeInv, TypeOK
  <2>2. QED
    BY <2>1 DEF Id, TableNodes
<1>3. Numbering(v)
  BY DEF ConsultReply, Numbering, TypeInv, StepInv, OnlyConsult
<1>4. PICK l \in {"match", "close"} : Goto(v, l)
  BY DEF ConsultReply
<1>5. QED
  BY <1>1, <1>2, <1>3, <1>4, MoveSolo

(* A worker that goes idle, or takes its next request.                         *)
LEMMA CloseSolo ==
    ASSUME TypeInv, SoloInv, SoloNext, NEW v \in Workers, Close(v) \/ Take(v)
    PROVE  SoloInv'
<1>1. /\ UNCHANGED <<keysn, soloIds>> /\ pc'[v] \in {"idle", "client"}
      /\ \A w \in Workers \ {v} : pc'[w] = pc[w] /\ job'[w] = job[w] /\ node'[w] = node[w]
  BY DEF Close, Take, Goto, dbVars, keyVars, TypeInv, TypeOK
<1>2. \A w \in Workers : /\ Numbering(w)' => Numbering(w) /\ Id(w)' = Id(w)
                         /\ pc'[w] = "insert" => pc[w] = "insert" /\ Id(w)' = Id(w)
  BY <1>1 DEF Numbering, Id
<1>3. QED
  BY <1>1, <1>2, QuietSolo

LEMMA DieSolo ==
    ASSUME TypeInv, SoloInv, SoloNext, Die
    PROVE  SoloInv'
<1>1. UNCHANGED <<keysn, soloIds>> /\ \A w \in Workers : pc'[w] = "idle"
  BY DEF Die, dbVars
<1>2. QED
  BY <1>1, NumberingSteps, QuietSolo DEF Numbering

(* Steps of the clients, the administrator and of starting the server.         *)
LEMMA OutsideSolo ==
    ASSUME TypeInv, SoloInv, SoloNext, UNCHANGED <<workerVars, keysn, soloIds>>
    PROVE  SoloInv'
BY QuietSolo DEF workerVars, Numbering, Id

LEMMA ClientSolo ==
    ASSUME NEW c \in Clients, ClientStep(c) \/ EditClients(c)
    PROVE  UNCHANGED <<workerVars, keysn, soloIds>>
<1>1. CASE SendConsult(c) \/ SendCheck(c) \/ SendCancel(c)
  BY <1>1 DEF SendConsult, SendCheck, SendCancel, Send, dbVars, keyVars
<1>2. CASE Receive(c)
  BY <1>2 DEF Receive, dbVars, keyVars
<1>3. CASE Fail(c) \/ GiveUp(c) \/ RestartClient(c)
  BY <1>3 DEF Fail, GiveUp, RestartClient, dbVars, keyVars
<1>4. CASE EditClients(c)
  BY <1>4 DEF EditClients, keyVars
<1>5. QED
  BY <1>1, <1>2, <1>3, <1>4 DEF ClientStep

(* Consults that had the key number to themselves from getKeyID to updataKeyID *)
(* record pairwise different numbers, for any number of clients, workers,      *)
(* crashes, restarts and failed statements.                                    *)
THEOREM KeyServiceNumbers == Spec => []SoloNumbersUnique
<1>1. Init => SoloInv
  BY DEF Init, SoloInv, CounterInv, NumberInv, AloneInv, RecordInv, Numbering, Recording
<1>2. TypeInv /\ SoloInv /\ [Next]_vars => SoloInv'
  <2> SUFFICES ASSUME TypeInv, SoloInv, [Next]_vars PROVE SoloInv'
    OBVIOUS
  <2>1. CASE UNCHANGED vars
    <3>1. UNCHANGED <<pc, job, node, keysn, solo, soloIds>>
      BY <2>1 DEF vars, workerVars, dbVars, keyVars
    <3>2. \A w \in Workers : /\ Numbering(w)' <=> Numbering(w)
                             /\ Recording(w)' <=> Recording(w)
                             /\ Id(w)' = Id(w)
      BY <3>1 DEF Numbering, Recording, Id
    <3>3. solo \subseteq Workers
      BY DEF TypeInv, TypeOK
    <3>4. CounterInv' /\ NumberInv' /\ RecordInv'
      BY <3>1, <3>2 DEF SoloInv, CounterInv, NumberInv, RecordInv
    <3>5. AloneInv'
      BY <3>1, <3>2, <3>3 DEF SoloInv, AloneInv
    <3>6. QED
      BY <3>4, <3>5 DEF SoloInv
  <2>2. CASE Next
    <3>1. Step /\ SoloNext
      BY <2>2 DEF Next
    <3>2. CASE \E c \in Clients : ClientStep(c) \/ EditClients(c)
      BY <3>1, <3>2, ClientSolo, OutsideSolo
    <3>3. CASE \E w \in Workers : Take(w) \/ WorkerStep(w)
      BY <3>1, <3>3, ScanSolo, CloseSolo, DieSolo, ConsultReplySolo, GetKeyIDSolo, BumpSolo,
         InsertSolo DEF WorkerStep, CheckUnknownClient
    <3>4. CASE Crash
      BY <3>1, <3>4, DieSolo DEF Crash
    <3>5. CASE Restart
      <4>1. UNCHANGED <<workerVars, keysn, soloIds>>
        BY <3>5 DEF Restart, dbVars, keyVars
      <4>2. QED
        BY <3>1, <4>1, OutsideSolo
    <3>6. QED
      BY <3>1, <3>2, <3>3, <3>4, <3>5 DEF Step
  <2>3. QED
    BY <2>1, <2>2
<1>3. TypeInv /\ SoloInv => SoloNumbersUnique
  BY DEF TypeInv, TypeOK, SoloInv, CounterInv, RecordInv, Recording, Id, SoloNumbersUnique
<1>4. QED
  BY <1>1, <1>2, <1>3, KeyServiceTyped, PTL DEF Spec

(* Requests, answers, table, database and every worker's variables keep their  *)
(* kinds, whatever is refused, fails or restarts.                              *)
THEOREM KeyServiceTypes == Spec => []TypeOK
BY KeyServiceTyped, PTL DEF TypeInv
-----------------------------------------------------------------------------
(* A settled key is kept: what a request without conflict and failure leaves   *)
(* in the table and in the database stays there, until a later request of the  *)
(* same client withdraws the promise.                                          *)

(* The steps of a worker which has nothing under way that could disturb a      *)
(* settled key of its client.                                                  *)
Resting == {"idle", "client", "getid", "answer", "close"}

(* Slot i is where every scan for client c ends.                               *)
NoneBefore(i, c) == \A j \in Slots : j < i => table[j].owner # c
IsFirst(i, c)    == i \in Slots /\ table[i].owner = c /\ NoneBefore(i, c)

(* A clean request has no conflict, at any of its steps.                       *)
CleanInv == \A w \in clean, v \in Workers : ~Conflict(w, v)

(* What a consult stores is its client's, and a check never comes to a store.  *)
NodeInv == \A w \in Workers :
    /\ job[w].cmd = "consult" /\ pc[w] \notin Resting => node[w].owner = Owner(w) /\ node[w].status = 0
    /\ pc[w] = "retire" => job[w].cmd # "check"

(* How far a clean consult has come: no earlier slot is its client's, what is  *)
(* copied stays, and after updata_status no row of its client is in use.       *)
ConsultAt(w) ==
    /\ pc[w] \in {"match", "copy", "copyids", "copykey"} => NoneBefore(slot[w], Owner(w))
    /\ pc[w] = "free" => \A j \in Slots : table[j].owner # Owner(w)
    /\ pc[w] = "copyids" => table[slot[w]].seckey = node[w].seckey
    /\ pc[w] = "copykey" => table[slot[w]] = [node[w] EXCEPT !.seckey = table[slot[w]].seckey]
    /\ pc[w] \in {"retire", "bump", "insert"} /\ slot[w] # 0 =>
          NoneBefore(slot[w], Owner(w)) /\ table[slot[w]] = node[w]
    /\ pc[w] \in {"bump", "insert"} => Active(Owner(w)) = {}

(* How far a clean cancellation of a settled key has come: the key is still in *)
(* its slot, the scan not past it, and nobody else is about to write there.    *)
CancelAt(w) ==
    pc[w] \in {"match", "mark", "retire"} /\ seen[w] # Unsettled => \E i \in Slots :
      /\ IsFirst(i, Owner(w))
      /\ table[i].seckeyID = seen[w].id /\ table[i].seckey = seen[w].key
      /\ pc[w] = "match" => slot[w] <= i /\ \A v \in Workers : i \notin Aims(v)
      /\ pc[w] # "match" => slot[w] = i
      /\ pc[w] = "retire" => table[i].status = 1

(* The node and the rows that a promise about client c's key is about.         *)
PromisedNode(c, s) == [status |-> IF s.valid THEN 0 ELSE 1, seckeyID |-> s.id, owner |-> c,
                       seckey |-> s.key]
PromisedRows(c, s) == IF s.valid THEN {[owner |-> c, id |-> s.id, state |-> 0, key |-> s.key]}
                      ELSE {}

(* A settled key is where scans find it, nobody is about to write there, and   *)
(* no request of its client is past the step that withdraws the promise.       *)
SettledFor(c) == settled[c] # Unsettled =>
    /\ \E i \in Slots : /\ IsFirst(i, c) /\ table[i] = PromisedNode(c, settled[c])
                        /\ \A v \in Workers : i \notin Aims(v)
    /\ Active(c) = PromisedRows(c, settled[c])
    /\ \A v \in Workers : Owner(v) = c /\ job[v].cmd # "check" => pc[v] \in Resting

ConsultInv == \A w \in clean : job[w].cmd = "consult" => ConsultAt(w)
CancelInv  == \A w \in clean : job[w].cmd = "cancel" => CancelAt(w)
SettledInv == \A c \in Clients : SettledFor(c)

KeptInv == CleanInv /\ NodeInv /\ ConsultInv /\ CancelInv /\ SettledInv
-----------------------------------------------------------------------------
(* What a step of worker v does to everything but v. *)

Busy(v)   == pc[v] # "idle" /\ job[v].cmd # "check"
SameOf(u) == /\ pc'[u] = pc[u] /\ job'[u] = job[u] /\ slot'[u] = slot[u]
             /\ node'[u] = node[u] /\ seen'[u] = seen[u]

(* The table changes only where v aims, and for nobody but its own client; so  *)
(* do rows and promises; and v comes to aim only at its client's slot or at a  *)
(* free one.                                                                   *)
Frame(v) ==
    /\ \A u \in Workers \ {v} : SameOf(u)
    /\ job'[v] = job[v] \/ pc'[v] \in {"client", "idle"}
    /\ \A j \in Slots : \/ table'[j] = table[j]
                        \/ /\ Busy(v) /\ j \in Aims(v)
                           /\ table'[j].owner \in {table[j].owner, Owner(v)}
    /\ \A c \in Clients : Active(c)' = Active(c) \/ (Busy(v) /\ c = Owner(v))
    /\ \A c \in Clients : settled'[c] = settled[c] \/ (Busy(v) /\ c = Owner(v))
    /\ \A k \in Aims(v)' : \/ k \in Aims(v)
                           \/ /\ Busy(v) /\ k \in Slots
                              /\ table[k].owner \in {Owner(v), NoOwner}

(* Every action of a worker but the death of the process changes that worker   *)
(* alone.                                                                      *)
LEMMA OthersSame ==
    ASSUME TypeInv, NEW v \in Workers,
           \/ Take(v) \/ CheckClient(v) \/ GetKeyID(v) \/ ConsultReply(v)
           \/ MatchSlot(v) \/ FreeSlot(v) \/ CopyIds(v) \/ CopyKey(v)
           \/ Retire(v) \/ Bump(v) \/ Insert(v)
           \/ LoadKey(v) \/ MarkRevoked(v) \/ Answer(v) \/ Close(v)
    PROVE  \A u \in Workers \ {v} : SameOf(u)
<1>1. /\ pc \in [Workers -> Steps] /\ job \in [Workers -> Jobs] /\ slot \in [Workers -> 0..MaxNode]
      /\ node \in [Workers -> TableNodes] /\ seen \in [Workers -> Promises]
  BY DEF TypeInv, TypeOK
<1>2. CASE Take(v) \/ CheckClient(v) \/ Answer(v) \/ Close(v)
  BY <1>1, <1>2 DEF Take, CheckClient, Answer, Close, Goto, SameOf, keyVars
<1>3. CASE GetKeyID(v) \/ ConsultReply(v)
  BY <1>1, <1>3 DEF GetKeyID, ConsultReply, Goto, SameOf, keyVars
<1>4. CASE MatchSlot(v) \/ FreeSlot(v)
  BY <1>1, <1>4 DEF MatchSlot, FreeSlot, Goto, SameOf, keyVars
<1>5. CASE CopyIds(v) \/ CopyKey(v) \/ LoadKey(v) \/ MarkRevoked(v)
  BY <1>1, <1>5 DEF CopyIds, CopyKey, LoadKey, MarkRevoked, Goto, SameOf, keyVars
<1>6. CASE Retire(v) \/ Bump(v) \/ Insert(v)
  BY <1>1, <1>6 DEF Retire, Bump, Insert, Goto, SameOf, keyVars
<1>7. QED
  BY <1>2, <1>3, <1>4, <1>5, <1>6

(* A worker whose step a check cannot come to is busy, and no check aims.      *)
LEMMA ActorBusy ==
    ASSUME TypeInv, NodeInv, NEW v \in Workers, pc[v] # "idle"
    PROVE  /\ Owner(v) \in Clients /\ Owner(v) # NoOwner
           /\ pc[v] \in OnlyConsult \cup {"mark", "retire"} => Busy(v)
           /\ Aims(v) # {} => Busy(v) /\ slot[v] \in Slots /\ Aims(v) = {slot[v]}
<1>1. job[v] \in Requests /\ slot[v] \in 0..MaxNode
  BY DEF TypeInv, TypeOK, StepInv
<1>2. pc[v] \in OnlyConsult \cup {"mark", "retire"} => Busy(v)
  BY DEF TypeInv, StepInv, NodeInv, Busy
<1>3. Aims(v) # {} => pc[v] \in OnlyConsult \cup {"mark", "retire"} /\ slot[v] # 0 /\ Aims(v) = {slot[v]}
  BY DEF Aims, OnlyConsult
<1>4. QED
  BY <1>1, <1>2, <1>3, NamesAssumption DEF Requests, Owner, Slots

(* Steps that touch neither table nor rows, and at most withdraw their         *)
(* client's promise.                                                           *)
LEMMA StartFrame ==
    ASSUME TypeInv, NodeInv, NEW v \in Workers,
           \/ Take(v) \/ CheckClient(v) \/ GetKeyID(v) \/ ConsultReply(v) \/ LoadKey(v)
           \/ Answer(v) \/ Close(v)
    PROVE  Frame(v)
<1>1. \A u \in Workers \ {v} : SameOf(u)
  BY OthersSame
<1>2. UNCHANGED <<table, rows>>
  BY DEF Take, CheckClient, GetKeyID, ConsultReply, LoadKey, Answer, Close, dbVars
<1>3. pc'[v] \in {"client", "getid", "consultreply", "match", "answer", "close", "idle"}
  BY DEF Take, CheckClient, GetKeyID, ConsultReply, LoadKey, Answer, Close, Goto, TypeInv, TypeOK
<1>4. Aims(v)' = {}
  BY <1>3 DEF Aims
<1>5. job'[v] = job[v] \/ pc'[v] \in {"client", "idle"}
  BY DEF Take, CheckClient, GetKeyID, ConsultReply, LoadKey, Answer, Close, Goto, TypeInv, TypeOK
<1>6. \A c \in Clients : settled'[c] = settled[c] \/ (Busy(v) /\ c = Owner(v))
  <2>1. settled \in [Clients -> Promises]
    BY DEF TypeInv, TypeOK
  <2>2. CASE CheckClient(v)
    BY <2>1, <2>2 DEF CheckClient, Busy, Owner
  <2>3. CASE GetKeyID(v)
    <3>1. Busy(v)
      BY <2>3, ActorBusy DEF GetKeyID, OnlyConsult
    <3>2. QED
      BY <2>1, <2>3, <3>1 DEF GetKeyID
  <2>4. CASE Take(v) \/ ConsultReply(v) \/ LoadKey(v) \/ Answer(v) \/ Close(v)
    BY <2>4 DEF Take, ConsultReply, LoadKey, Answer, Close, keyVars
  <2>5. QED
    BY <2>2, <2>3, <2>4
<1>7. \A c \in Clients : Active(c)' = Active(c)
  BY <1>2 DEF Active
<1>8. QED
  BY <1>1, <1>2, <1>4, <1>5, <1>6, <1>7 DEF Frame

(* A scan comes to aim at its client's slot, or at a free one.                 *)
LEMMA ScanFrame ==
    ASSUME TypeInv, NodeInv, NEW v \in Workers, MatchSlot(v) \/ FreeSlot(v)
    PROVE  Frame(v)
<1>1. \A u \in Workers \ {v} : SameOf(u)
  BY OthersSame
<1>2. UNCHANGED <<table, rows, settled>> /\ job'[v] = job[v]
  BY DEF MatchSlot, FreeSlot, dbVars, keyVars
<1>3. \A c \in Clients : Active(c)' = Active(c)
  BY <1>2 DEF Active
<1>4. pc \in [Workers -> Steps] /\ slot \in [Workers -> 0..MaxNode] /\ slot[v] \in Slots
  BY DEF MatchSlot, FreeSlot, TypeInv, TypeOK, StepInv, AtASlot
<1>5. \A k \in Aims(v)' : Busy(v) /\ k \in Slots /\ table[k].owner \in {Owner(v), NoOwner}
  <2>1. CASE MatchSlot(v)
    <3>1. CASE table[slot[v]].owner = Owner(v)
      <4>1. job[v].cmd \in {"consult", "check", "cancel"}
        BY <2>1 DEF MatchSlot, TypeInv, StepInv, Requests, Jobs
      <4>2. slot'[v] = slot[v] /\ (job[v].cmd = "check" => pc'[v] = "load")
        BY <1>4, <2>1, <3>1, <4>1 DEF MatchSlot, Goto
      <4>3. Aims(v)' \subseteq {slot[v]} /\ (job[v].cmd = "check" => Aims(v)' = {})
        BY <4>2 DEF Aims
      <4>4. QED
        BY <1>4, <2>1, <3>1, <4>3 DEF MatchSlot, Busy
    <3>2. CASE table[slot[v]].owner # Owner(v)
      <4>1. pc'[v] \in {"match", "free", "close"}
        BY <1>4, <2>1, <3>2 DEF MatchSlot, Goto
      <4>2. Aims(v)' = {}
        BY <4>1 DEF Aims
      <4>3. QED
        BY <4>2
    <3>3. QED
      BY <3>1, <3>2
  <2>2. CASE FreeSlot(v)
    <3>1. pc[v] = "free"
      BY <2>2 DEF FreeSlot
    <3>2. Busy(v)
      BY <3>1, ActorBusy DEF OnlyConsult
    <3>3. CASE table[slot[v]] = ZeroNode
      <4>1. slot'[v] = slot[v]
        BY <2>2, <3>3 DEF FreeSlot
      <4>2. Aims(v)' \subseteq {slot[v]}
        BY <4>1 DEF Aims
      <4>3. table[slot[v]].owner = NoOwner
        BY <3>3 DEF ZeroNode
      <4>4. QED
        BY <1>4, <3>2, <4>2, <4>3
    <3>4. CASE table[slot[v]] # ZeroNode
      <4>1. pc'[v] = "free" \/ slot'[v] = 0
        BY <1>4, <2>2, <3>1, <3>4 DEF FreeSlot, Goto
      <4>2. Aims(v)' = {}
        BY <4>1 DEF Aims
      <4>3. QED
        BY <4>2
    <3>5. QED
      BY <3>3, <3>4
  <2>3. QED
    BY <2>1, <2>2
<1>6. QED
  BY <1>1, <1>2, <1>3, <1>5 DEF Frame

(* The stores of a worker: into the slot it aims at.                           *)
LEMMA StoreFrame ==
    ASSUME TypeInv, NodeInv, NEW v \in Workers, CopyIds(v) \/ CopyKey(v) \/ MarkRevoked(v)
    PROVE  Frame(v)
<1>1. \A u \in Workers \ {v} : SameOf(u)
  BY OthersSame
<1>2. UNCHANGED <<rows, settled, slot>> /\ job'[v] = job[v]
  BY DEF CopyIds, CopyKey, MarkRevoked, dbVars, keyVars
<1>3. \A c \in Clients : Active(c)' = Active(c)
  BY <1>2 DEF Active
<1>4. pc[v] \in {"copy", "copyids", "copykey", "mark"} /\ slot[v] \in Slots
  BY DEF CopyIds, CopyKey, MarkRevoked, TypeInv, StepInv, AtASlot
<1>5. Busy(v) /\ slot[v] # 0
  BY <1>4, ActorBusy DEF OnlyConsult, Slots
<1>6. Aims(v) = {slot[v]} /\ Aims(v)' \subseteq {slot[v]}
  BY <1>2, <1>4, <1>5 DEF Aims
<1>7. table \in [Slots -> TableNodes] /\ table[slot[v]] \in TableNodes /\ node[v] \in TableNodes
  BY <1>4 DEF TypeInv, TypeOK
<1>8. \A j \in Slots \ {slot[v]} : table'[j] = table[j]
  BY <1>7 DEF CopyIds, CopyKey, MarkRevoked
<1>9. table'[slot[v]].owner \in {table[slot[v]].owner, Owner(v)}
  <2>1. CASE CopyIds(v)
    <3>1. table'[slot[v]] = [node[v] EXCEPT !.seckey = table[slot[v]].seckey]
      BY <1>4, <1>7, <2>1 DEF CopyIds
    <3>2. node[v].owner = Owner(v)
      BY <2>1 DEF CopyIds, NodeInv, TypeInv, StepInv, OnlyConsult, Resting
    <3>3. QED
      BY <1>7, <3>1, <3>2 DEF TableNodes
  <2>2. CASE CopyKey(v) \/ MarkRevoked(v)
    <3>1. table'[slot[v]].owner = table[slot[v]].owner
      BY <1>4, <1>7, <2>2 DEF CopyKey, MarkRevoked, TableNodes
    <3>2. QED
      BY <3>1
  <2>3. QED
    BY <2>1, <2>2
<1>10. QED
  BY <1>1, <1>2, <1>3, <1>5, <1>6, <1>8, <1>9 DEF Frame

(* The SQL statements of a worker.                                             *)
LEMMA StatementFrame ==
    ASSUME TypeInv, NodeInv, NEW v \in Workers, Retire(v) \/ Bump(v) \/ Insert(v)
    PROVE  Frame(v)
<1>1. \A u \in Workers \ {v} : SameOf(u)
  BY OthersSame
<1>2. UNCHANGED <<table, slot>> /\ job'[v] = job[v]
  BY DEF Retire, Bump, Insert
<1>3. pc[v] \in {"retire", "bump", "insert"}
  BY DEF Retire, Bump, Insert
<1>4. Busy(v) /\ Owner(v) \in Clients
  BY <1>3, ActorBusy DEF OnlyConsult
<1>5. Aims(v)' \subseteq Aims(v)
  BY <1>2, <1>3 DEF Aims
<1>6. \A c \in Clients : settled'[c] = settled[c] \/ c = Owner(v)
  BY DEF Retire, Bump, Insert, TypeInv, TypeOK
<1>7. ASSUME NEW c \in Clients, c # Owner(v) PROVE Active(c)' = Active(c)
  <2>1. CASE Retire(v)
    <3>1. rows' = rows \/ rows' = Retired(Owner(v))
      BY <2>1 DEF Retire
    <3>2. CASE rows' = Retired(Owner(v))
      <4>1. \A r \in rows : [r EXCEPT !.state = 1].owner = r.owner
        BY DEF TypeInv, TypeOK
      <4>2. QED
        BY <1>7, <3>2, <4>1 DEF Active, Retired
    <3>3. QED
      BY <3>1, <3>2 DEF Active
  <2>2. CASE Bump(v)
    BY <2>2 DEF Bump, Active
  <2>3. CASE Insert(v)
    BY <1>7, <2>3 DEF Insert, Active
  <2>4. QED
    BY <2>1, <2>2, <2>3
<1>8. QED
  BY <1>1, <1>2, <1>4, <1>5, <1>6, <1>7 DEF Frame
-----------------------------------------------------------------------------
(* What a frame keeps. *)

(* A busy worker serves another client than a clean one, and another slot.      *)
LEMMA CleanApart ==
    ASSUME TypeInv, KeptInv, NEW w \in clean, NEW v \in Workers \ {w}, Busy(v)
    PROVE  Owner(v) # Owner(w) /\ Aims(v) \cap Aims(w) = {}
BY DEF KeptInv, CleanInv, Conflict, Busy

(* Slots before i are still not c's, unless v works for c.                     *)
LEMMA NoneBeforeKept ==
    ASSUME NEW v \in Workers, Frame(v), NEW i, NEW c, NoneBefore(i, c), Busy(v) => Owner(v) # c
    PROVE  NoneBefore(i, c)'
BY DEF Frame, NoneBefore

(* A step of one worker leaves what the other clean workers have come to.      *)
LEMMA ConsultOthers ==
    ASSUME TypeInv, KeptInv, NEW v \in Workers, Frame(v), NEW w \in clean \ {v},
           job[w].cmd = "consult"
    PROVE  ConsultAt(w)'
<1>1. w \in Workers /\ SameOf(w) /\ ConsultAt(w)
  BY DEF Frame, TypeInv, TypeOK, KeptInv, ConsultInv
<1>2. Busy(v) => Owner(v) # Owner(w) /\ Aims(v) \cap Aims(w) = {}
  BY CleanApart
<1>3. Owner(w)' = Owner(w)
  BY <1>1 DEF SameOf, Owner
<1>4. ASSUME NEW i, NoneBefore(i, Owner(w)) PROVE NoneBefore(i, Owner(w))'
  BY <1>2, <1>3, <1>4, NoneBeforeKept DEF NoneBefore
<1>5. ASSUME slot[w] \in Slots, pc[w] \in {"copyids", "copykey", "retire", "bump", "insert"}
      PROVE  table'[slot[w]] = table[slot[w]]
  <2>1. slot[w] \in Aims(w)
    BY <1>5 DEF Aims, Slots
  <2>2. QED
    BY <1>2, <1>5, <2>1 DEF Frame
<1>6. slot[w] \in 0..MaxNode /\ (slot[w] # 0 => slot[w] \in Slots)
  BY <1>1 DEF TypeInv, TypeOK, Slots
<1>7. pc[w] \in {"copyids", "copykey"} => slot[w] \in Slots
  BY <1>1 DEF TypeInv, StepInv, AtASlot
<1>8. Owner(w) \in Clients \/ pc[w] = "idle"
  BY <1>1 DEF TypeInv, StepInv, Requests, Owner
<1>9. pc[w] \in {"bump", "insert"} => Active(Owner(w))' = {}
  BY <1>1, <1>2, <1>3, <1>8 DEF Frame, ConsultAt, Active
<1>10. pc[w] = "free" => \A j \in Slots : table'[j].owner # Owner(w)
  BY <1>1, <1>2 DEF Frame, ConsultAt
<1>11. QED
  BY <1>1, <1>3, <1>4, <1>5, <1>6, <1>7, <1>9, <1>10 DEF ConsultAt, SameOf

(* Nor the cancellations.                                                      *)
LEMMA CancelOthers ==
    ASSUME TypeInv, KeptInv, NEW v \in Workers, Frame(v), NEW w \in clean \ {v},
           job[w].cmd = "cancel"
    PROVE  CancelAt(w)'
<1>1. w \in Workers /\ SameOf(w) /\ CancelAt(w)
  BY DEF Frame, TypeInv, TypeOK, KeptInv, CancelInv
<1>2. Busy(v) => Owner(v) # Owner(w) /\ Aims(v) \cap Aims(w) = {}
  BY CleanApart
<1>3. Owner(w)' = Owner(w)
  BY <1>1 DEF SameOf, Owner
<1>4. SUFFICES ASSUME pc[w] \in {"match", "mark", "retire"}, seen[w] # Unsettled
               PROVE  CancelAt(w)'
  BY <1>1 DEF CancelAt, SameOf
<1>5. PICK i \in Slots :
         /\ IsFirst(i, Owner(w))
         /\ table[i].seckeyID = seen[w].id /\ table[i].seckey = seen[w].key
         /\ pc[w] = "match" => slot[w] <= i /\ \A u \in Workers : i \notin Aims(u)
         /\ pc[w] # "match" => slot[w] = i
         /\ pc[w] = "retire" => table[i].status = 1
  BY <1>1, <1>4 DEF CancelAt
<1>6. Busy(v) => i \notin Aims(v)
  <2>1. pc[w] # "match" => i \in Aims(w)
    BY <1>4, <1>5 DEF Aims, Slots
  <2>2. QED
    BY <1>2, <1>5, <2>1
<1>7. table'[i] = table[i]
  BY <1>6 DEF Frame
<1>8. NoneBefore(i, Owner(w))'
  BY <1>2, <1>3, <1>5, NoneBeforeKept DEF IsFirst, NoneBefore
<1>9. ASSUME pc[w] = "match", NEW u \in Workers PROVE i \notin Aims(u)'
  <2>1. i \notin Aims(u)
    BY <1>5, <1>9
  <2>2. CASE u = v
    <3>1. Owner(w) \in Clients
      BY <1>1, <1>4 DEF TypeInv, StepInv, Requests, Owner
    <3>2. QED
      BY <1>2, <1>5, <2>1, <2>2, <3>1, NamesAssumption DEF Frame, IsFirst
  <2>3. CASE u # v
    BY <2>1, <2>3 DEF Frame, SameOf, Aims
  <2>4. QED
    BY <2>2, <2>3
<1>10. IsFirst(i, Owner(w))'
  BY <1>3, <1>5, <1>7, <1>8 DEF IsFirst
<1>11. QED
  BY <1>1, <1>5, <1>7, <1>9, <1>10 DEF CancelAt, SameOf

(* A promise to a client for whom v does not work is kept.                     *)
LEMMA SettledOthers ==
    ASSUME TypeInv, KeptInv, NEW v \in Workers, Frame(v), NEW c \in Clients,
           Busy(v) => Owner(v) # c, pc[v] = "idle" => pc'[v] \in Resting
    PROVE  SettledFor(c)'
<1> SUFFICES ASSUME settled'[c] # Unsettled
             PROVE  /\ \E i \in Slots : /\ IsFirst(i, c)' /\ table'[i] = PromisedNode(c, settled'[c])
                                        /\ \A u \in Workers : i \notin Aims(u)'
                    /\ Active(c)' = PromisedRows(c, settled'[c])
                    /\ \A u \in Workers : Owner(u)' = c /\ job'[u].cmd # "check" => pc'[u] \in Resting
  BY DEF SettledFor
<1>1. settled'[c] = settled[c] /\ Active(c)' = Active(c)
  BY DEF Frame
<1>2. SettledFor(c)
  BY DEF KeptInv, SettledInv
<1>3. PICK i \in Slots : /\ IsFirst(i, c) /\ table[i] = PromisedNode(c, settled[c])
                         /\ \A u \in Workers : i \notin Aims(u)
  BY <1>1, <1>2 DEF SettledFor
<1>4. table'[i] = table[i]
  BY <1>3 DEF Frame
<1>5. IsFirst(i, c)'
  BY <1>3, <1>4, NoneBeforeKept DEF IsFirst
<1>6. \A u \in Workers : i \notin Aims(u)'
  <2>1. ASSUME NEW u \in Workers \ {v} PROVE i \notin Aims(u)'
    BY <1>3, <2>1 DEF Frame, SameOf, Aims
  <2>2. i \notin Aims(v)'
    BY <1>3, NamesAssumption DEF Frame, IsFirst
  <2>3. QED
    BY <2>1, <2>2
<1>7. ASSUME NEW u \in Workers, Owner(u)' = c, job'[u].cmd # "check" PROVE pc'[u] \in Resting
  <2>1. CASE u # v
    BY <1>1, <1>2, <1>7, <2>1 DEF Frame, SameOf, Owner, SettledFor
  <2>2. CASE u = v
    <3>1. CASE pc'[v] \in {"client", "idle"}
      BY <2>2, <3>1 DEF Resting
    <3>2. CASE job'[v] = job[v]
      <4>1. pc[v] = "idle"
        BY <1>7, <2>2, <3>2 DEF Busy, Owner
      <4>2. QED
        BY <2>2, <4>1
    <3>3. QED
      BY <3>1, <3>2 DEF Frame
  <2>3. QED
    BY <2>1, <2>2
<1>8. QED
  BY <1>1, <1>2, <1>3, <1>4, <1>5, <1>6, <1>7 DEF SettledFor
-----------------------------------------------------------------------------
(* What a worker's step does to itself. *)

(* A worker is clean after its step if it was before, or was idle, and if no   *)
(* statement failed.                                                           *)
LEMMA CleanMember ==
    ASSUME CleanNext, NEW w \in clean'
    PROVE  /\ w \in Workers /\ pc'[w] # "idle" /\ (w \in clean \/ pc[w] = "idle")
           /\ pc'[w] # pc[w] => faults' = faults
           /\ \A v \in Workers : ~Conflict(w, v)'
BY DEF CleanNext, Faulted

(* The node of a consult is made for its client, and a check never comes to    *)
(* updata_status.                                                              *)
LEMMA NodeOwn ==
    ASSUME TypeInv, NodeInv, NEW v \in Workers,
           \/ Take(v) \/ CheckClient(v) \/ GetKeyID(v) \/ ConsultReply(v)
           \/ MatchSlot(v) \/ FreeSlot(v) \/ CopyIds(v) \/ CopyKey(v)
           \/ Retire(v) \/ Bump(v) \/ Insert(v)
           \/ LoadKey(v) \/ MarkRevoked(v) \/ Answer(v) \/ Close(v)
    PROVE  NodeInv'
<1> DEFINE Mine(w) == /\ job[w].cmd = "consult" /\ pc[w] \notin Resting =>
                           node[w].owner = Owner(w) /\ node[w].status = 0
                      /\ pc[w] = "retire" => job[w].cmd # "check"
<1>1. \A u \in Workers \ {v} : SameOf(u)
  BY OthersSame
<1>2. Mine(v)
  BY DEF NodeInv
<1>3. /\ pc \in [Workers -> Steps] /\ node \in [Workers -> TableNodes] /\ node[v] \in TableNodes
      /\ job \in [Workers -> Jobs]
  BY DEF TypeInv, TypeOK
<1>4. Mine(v)'
  <2>1. CASE Take(v)
    BY <1>3, <2>1 DEF Take, Goto, Resting
  <2>2. CASE CheckClient(v)
    BY <1>2, <1>3, <2>2 DEF CheckClient, Goto, Resting, Owner
  <2>3. CASE GetKeyID(v)
    BY <1>3, <2>3 DEF GetKeyID, Goto, Owner
  <2>4. CASE ConsultReply(v)
    <3>1. /\ pc[v] = "consultreply" /\ job' = job /\ pc'[v] # "retire"
          /\ node' = [node EXCEPT ![v].seckey = <<job[v].r1, r2s'>>]
      BY <1>3, <2>4 DEF ConsultReply, Goto
    <3>2. node'[v].owner = node[v].owner /\ node'[v].status = node[v].status
      BY <1>3, <3>1 DEF TableNodes
    <3>3. QED
      BY <1>2, <3>1, <3>2 DEF Resting, Owner
  <2>5. CASE MatchSlot(v)
    <3>1. pc[v] = "match" /\ UNCHANGED <<job, node>>
      BY <2>5 DEF MatchSlot
    <3>2. job[v].cmd \in {"consult", "check", "cancel"}
      BY <3>1 DEF TypeInv, StepInv, Requests, Jobs
    <3>3. pc'[v] # "retire"
      BY <1>3, <2>5, <3>1, <3>2 DEF MatchSlot, Goto
    <3>4. QED
      BY <1>2, <3>1, <3>3 DEF Resting, Owner
  <2>6. CASE FreeSlot(v) \/ CopyIds(v) \/ CopyKey(v)
    <3>1. pc[v] \in {"free", "copy", "copyids", "copykey"} /\ UNCHANGED <<job, node>>
      BY <2>6 DEF FreeSlot, CopyIds, CopyKey
    <3>2. job[v].cmd = "consult"
      BY <3>1 DEF TypeInv, StepInv, OnlyConsult
    <3>3. QED
      BY <1>2, <3>1, <3>2 DEF Resting, Owner
  <2>7. CASE MarkRevoked(v)
    <3>1. pc[v] = "mark" /\ UNCHANGED <<job, node>>
      BY <2>7 DEF MarkRevoked
    <3>2. job[v].cmd = "cancel"
      BY <3>1 DEF TypeInv, StepInv
    <3>3. QED
      BY <3>1, <3>2
  <2>8. CASE Retire(v) \/ Bump(v) \/ Insert(v)
    <3>1. pc[v] \in {"retire", "bump", "insert"} /\ UNCHANGED <<job, node>> /\ pc'[v] # "retire"
      BY <1>3, <2>8 DEF Retire, Bump, Insert, Goto
    <3>2. QED
      BY <1>2, <3>1 DEF Resting, Owner
  <2>9. CASE LoadKey(v) \/ Answer(v) \/ Close(v)
    BY <1>3, <2>9 DEF LoadKey, Answer, Close, Goto, Resting
  <2>10. QED
    BY <2>1, <2>2, <2>3, <2>4, <2>5, <2>6, <2>7, <2>8, <2>9
<1>5. \A w \in Workers : Mine(w)'
  BY <1>1, <1>4 DEF NodeInv, SameOf, Owner
<1>6. QED
  BY <1>5 DEF NodeInv

(* The first steps and the last ones promise nothing.                          *)
LEMMA StartOwn ==
    ASSUME TypeInv, KeptInv, CleanNext, NEW v \in clean',
           \/ Take(v) \/ GetKeyID(v) \/ ConsultReply(v) \/ LoadKey(v) \/ Answer(v) \/ Close(v)
    PROVE  /\ job'[v].cmd = "consult" => ConsultAt(v)'
           /\ job'[v].cmd = "cancel" => CancelAt(v)'
<1>1. v \in Workers /\ pc \in [Workers -> Steps] /\ slot \in [Workers -> 0..MaxNode]
  BY CleanMember DEF TypeInv, TypeOK
<1>2. \/ pc'[v] \in {"client", "consultreply", "answer", "close", "idle"}
      \/ pc'[v] = "match" /\ slot'[v] = 1 /\ job'[v].cmd = "consult"
  BY <1>1 DEF Take, GetKeyID, ConsultReply, LoadKey, Answer, Close, Goto, TypeInv, StepInv, OnlyConsult
<1>3. CASE pc'[v] \in {"client", "consultreply", "answer", "close", "idle"}
  BY <1>3 DEF ConsultAt, CancelAt
<1>4. CASE pc'[v] = "match" /\ slot'[v] = 1 /\ job'[v].cmd = "consult"
  <2>1. NoneBefore(slot[v], Owner(v))'
    BY <1>4 DEF NoneBefore, Slots
  <2>2. QED
    BY <1>4, <2>1 DEF ConsultAt
<1>5. QED
  BY <1>2, <1>3, <1>4

(* A cancellation starts from the promise it withdraws.                        *)
LEMMA CheckClientOwn ==
    ASSUME TypeInv, KeptInv, CleanNext, NEW v \in clean', CheckClient(v)
    PROVE  /\ job'[v].cmd = "consult" => ConsultAt(v)'
           /\ job'[v].cmd = "cancel" => CancelAt(v)'
<1>1. v \in Workers /\ pc \in [Workers -> Steps] /\ slot \in [Workers -> 0..MaxNode]
      /\ seen \in [Workers -> Promises] /\ pc[v] = "client" /\ Owner(v) \in Clients
  BY CleanMember DEF TypeInv, TypeOK, CheckClient, StepInv, Requests, Owner
<1>2. UNCHANGED <<job, table>> /\ Frame(v)
  BY <1>1, StartFrame DEF CheckClient, KeptInv
<1>3. job[v].cmd = "consult" => pc'[v] \in {"getid", "close"}
  BY <1>1 DEF CheckClient, Goto
<1>4. CASE job[v].cmd = "cancel"
  <2>1. SUFFICES ASSUME pc'[v] \in {"match", "mark", "retire"}, seen'[v] # Unsettled
                 PROVE  CancelAt(v)'
    BY <1>2, <1>4 DEF CancelAt
  <2>2. pc'[v] = "match" /\ slot'[v] = 1 /\ seen'[v] = settled[Owner(v)]
    BY <1>1, <1>4, <2>1 DEF CheckClient, Goto
  <2>3. PICK i \in Slots : /\ IsFirst(i, Owner(v)) /\ table[i] = PromisedNode(Owner(v), seen'[v])
                           /\ \A u \in Workers : i \notin Aims(u)
    BY <1>1, <2>1, <2>2 DEF KeptInv, SettledInv, SettledFor
  <2>4. IsFirst(i, Owner(v))'
    BY <1>2, <2>3 DEF IsFirst, NoneBefore, Owner
  <2>5. ASSUME NEW u \in Workers PROVE i \notin Aims(u)'
    <3>1. CASE u = v
      BY <2>2, <3>1 DEF Aims
    <3>2. CASE u # v
      BY <1>2, <2>3, <3>2 DEF Frame, SameOf, Aims
    <3>3. QED
      BY <3>1, <3>2
  <2>6. slot'[v] <= i
    BY <2>2 DEF Slots
  <2>7. table'[i].seckeyID = seen'[v].id /\ table'[i].seckey = seen'[v].key
    BY <1>2, <2>3 DEF PromisedNode
  <2>8. QED
    BY <2>2, <2>4, <2>5, <2>6, <2>7 DEF CancelAt
<1>5. QED
  BY <1>2, <1>3, <1>4 DEF ConsultAt

(* The scans.                                                                  *)
LEMMA MatchOwn ==
    ASSUME TypeInv, KeptInv, CleanNext, NEW v \in clean', MatchSlot(v)
    PROVE  /\ job'[v].cmd = "consult" => ConsultAt(v)'
           /\ job'[v].cmd = "cancel" => CancelAt(v)'
<1>1. /\ v \in Workers /\ v \in clean /\ pc \in [Workers -> Steps] /\ slot \in [Workers -> 0..MaxNode]
      /\ pc[v] = "match" /\ slot[v] \in Slots
  BY CleanMember DEF TypeInv, TypeOK, StepInv, AtASlot, MatchSlot
<1>2. UNCHANGED <<job, table, node, seen>> /\ Owner(v)' = Owner(v)
  BY DEF MatchSlot, keyVars, Owner
<1>3. ASSUME job[v].cmd = "consult" PROVE ConsultAt(v)'
  <2>1. NoneBefore(slot[v], Owner(v))
    BY <1>1, <1>3 DEF KeptInv, ConsultInv, ConsultAt
  <2>2. CASE table[slot[v]].owner = Owner(v)
    <3>1. pc'[v] = "copy" /\ slot'[v] = slot[v]
      BY <1>1, <1>3, <2>2 DEF MatchSlot, Goto
    <3>2. QED
      BY <1>2, <2>1, <3>1 DEF ConsultAt, NoneBefore
  <2>3. CASE table[slot[v]].owner # Owner(v) /\ slot[v] < LastSlot
    <3>1. pc'[v] = "match" /\ slot'[v] = slot[v] + 1
      BY <1>1, <2>3 DEF MatchSlot
    <3>2. \A j \in Slots : j < slot[v] + 1 => j < slot[v] \/ j = slot[v]
      BY <1>1 DEF Slots
    <3>3. NoneBefore(slot[v], Owner(v))'
      BY <1>2, <2>1, <2>3, <3>1, <3>2 DEF NoneBefore
    <3>4. QED
      BY <3>1, <3>3 DEF ConsultAt
  <2>4. CASE table[slot[v]].owner # Owner(v) /\ slot[v] = LastSlot
    <3>1. pc'[v] = "free"
      BY <1>1, <1>3, <2>4 DEF MatchSlot, Goto
    <3>2. \A j \in Slots : j < slot[v] \/ j = slot[v]
      BY <2>4, MaxNodeAssumption DEF Slots, LastSlot
    <3>3. \A j \in Slots : table'[j].owner # Owner(v)'
      BY <1>2, <2>1, <2>4, <3>2 DEF NoneBefore
    <3>4. QED
      BY <3>1, <3>3 DEF ConsultAt
  <2>5. QED
    BY <2>2, <2>3, <2>4 DEF MatchSlot
<1>4. ASSUME job[v].cmd = "cancel" PROVE CancelAt(v)'
  <2>1. SUFFICES ASSUME pc'[v] \in {"match", "mark", "retire"}, seen[v] # Unsettled
                 PROVE  CancelAt(v)'
    BY <1>2 DEF CancelAt
  <2>2. PICK i \in Slots :
           /\ IsFirst(i, Owner(v))
           /\ table[i].seckeyID = seen[v].id /\ table[i].seckey = seen[v].key
           /\ slot[v] <= i /\ \A u \in Workers : i \notin Aims(u)
    BY <1>1, <1>4, <2>1 DEF KeptInv, CancelInv, CancelAt
  <2>3. IsFirst(i, Owner(v))'
    BY <1>2, <2>2 DEF IsFirst, NoneBefore
  <2>4. CASE table[slot[v]].owner = Owner(v)
    <3>1. slot[v] = i
      BY <1>1, <2>2, <2>4 DEF IsFirst, NoneBefore, Slots
    <3>2. pc'[v] = "mark" /\ slot'[v] = i
      BY <1>1, <1>4, <2>4, <3>1 DEF MatchSlot, Goto
    <3>3. QED
      BY <1>2, <2>2, <2>3, <3>2 DEF CancelAt
  <2>5. CASE table[slot[v]].owner # Owner(v)
    <3>1. slot[v] # i /\ slot[v] < i
      BY <1>1, <2>2, <2>5 DEF IsFirst, Slots
    <3>2. slot[v] < LastSlot
      BY <1>1, <3>1, MaxNodeAssumption DEF Slots, LastSlot
    <3>3. pc' = pc /\ slot'[v] = slot[v] + 1
      BY <1>1, <2>5, <3>2 DEF MatchSlot
    <3>4. slot'[v] <= i
      BY <1>1, <3>1, <3>3 DEF Slots
    <3>5. ASSUME NEW u \in Workers PROVE i \notin Aims(u)'
      <4>1. CASE u = v
        BY <1>1, <3>3, <4>1 DEF Aims
      <4>2. CASE u # v
        BY <1>1, <2>2, <4>2, OthersSame DEF SameOf, Aims
      <4>3. QED
        BY <4>1, <4>2
    <3>6. QED
      BY <1>1, <1>2, <2>2, <2>3, <3>3, <3>4, <3>5 DEF CancelAt
  <2>6. QED
    BY <2>4, <2>5
<1>5. QED
  BY <1>2, <1>3, <1>4

(* The second scan starts when no slot is the client's, and ends at a free     *)
(* one.                                                                        *)
LEMMA FreeOwn ==
    ASSUME TypeInv, KeptInv, CleanNext, NEW v \in clean', FreeSlot(v)
    PROVE  job'[v].cmd = "consult" /\ ConsultAt(v)'
<1>1. /\ v \in Workers /\ v \in clean /\ pc \in [Workers -> Steps] /\ slot \in [Workers -> 0..MaxNode]
      /\ pc[v] = "free" /\ slot[v] \in Slots /\ job[v].cmd = "consult"
  BY CleanMember DEF TypeInv, TypeOK, StepInv, AtASlot, OnlyConsult, FreeSlot
<1>2. UNCHANGED <<job, table, node>> /\ Owner(v)' = Owner(v)
  BY DEF FreeSlot, Owner
<1>3. \A j \in Slots : table[j].owner # Owner(v)
  BY <1>1 DEF KeptInv, ConsultInv, ConsultAt
<1>4. CASE pc'[v] = "copy"
  BY <1>1, <1>2, <1>3, <1>4 DEF ConsultAt, NoneBefore
<1>5. CASE pc'[v] = "free"
  BY <1>1, <1>2, <1>3, <1>5 DEF ConsultAt
<1>6. CASE pc'[v] = "retire" /\ slot'[v] = 0
  BY <1>1, <1>2, <1>6 DEF ConsultAt
<1>7. QED
  BY <1>1, <1>2, <1>4, <1>5, <1>6 DEF FreeSlot, Goto

(* The two halves of memcpy, in either order, make up the node.                *)
LEMMA CopyOwn ==
    ASSUME TypeInv, KeptInv, CleanNext, NEW v \in clean', CopyIds(v) \/ CopyKey(v)
    PROVE  job'[v].cmd = "consult" /\ ConsultAt(v)'
<1> DEFINE s == slot[v]
<1>1. /\ v \in Workers /\ v \in clean /\ pc \in [Workers -> Steps] /\ s \in Slots
      /\ pc[v] \in {"copy", "copyids", "copykey"} /\ job[v].cmd = "consult"
  BY CleanMember DEF TypeInv, TypeOK, StepInv, AtASlot, OnlyConsult, CopyIds, CopyKey
<1>2. UNCHANGED <<job, node, slot>> /\ Owner(v)' = Owner(v)
  BY DEF CopyIds, CopyKey, Owner
<1>3. table \in [Slots -> TableNodes] /\ table[s] \in TableNodes /\ node[v] \in TableNodes
  BY <1>1 DEF TypeInv, TypeOK
<1>4. ConsultAt(v)
  BY <1>1 DEF KeptInv, ConsultInv
<1>5. NoneBefore(s, Owner(v))'
  <2>1. \A j \in Slots : j # s => table'[j] = table[j]
    BY <1>3 DEF CopyIds, CopyKey
  <2>2. \A j \in Slots : j < s => j # s
    BY DEF Slots
  <2>3. NoneBefore(s, Owner(v))
    BY <1>1, <1>4 DEF ConsultAt
  <2>4. QED
    BY <1>2, <2>1, <2>2, <2>3 DEF NoneBefore
<1>6. CASE CopyIds(v)
  <2>1. table'[s] = [node[v] EXCEPT !.seckey = table[s].seckey]
    BY <1>1, <1>3, <1>6 DEF CopyIds
  <2>2. CASE pc[v] = "copy"
    <3>1. pc'[v] = "copykey"
      BY <1>1, <1>6, <2>2 DEF CopyIds, Goto
    <3>2. table'[s] = [node'[v] EXCEPT !.seckey = table'[s].seckey]
      BY <1>2, <1>3, <2>1 DEF TableNodes
    <3>3. QED
      BY <1>1, <1>2, <1>5, <3>1, <3>2 DEF ConsultAt
  <2>3. CASE pc[v] = "copyids"
    <3>1. pc'[v] = "retire"
      BY <1>1, <1>6, <2>3 DEF CopyIds, Goto
    <3>2. table[s].seckey = node[v].seckey
      BY <1>4, <2>3 DEF ConsultAt
    <3>3. table'[s] = node'[v]
      BY <1>2, <1>3, <2>1, <3>2 DEF TableNodes
    <3>4. QED
      BY <1>1, <1>2, <1>5, <3>1, <3>3 DEF ConsultAt
  <2>4. QED
    BY <1>6, <2>2, <2>3 DEF CopyIds
<1>7. CASE CopyKey(v)
  <2>1. table'[s] = [table[s] EXCEPT !.seckey = node[v].seckey]
    BY <1>1, <1>3, <1>7 DEF CopyKey
  <2>2. CASE pc[v] = "copy"
    <3>1. pc'[v] = "copyids"
      BY <1>1, <1>7, <2>2 DEF CopyKey, Goto
    <3>2. table'[s].seckey = node'[v].seckey
      BY <1>2, <1>3, <2>1 DEF TableNodes
    <3>3. QED
      BY <1>1, <1>2, <1>5, <3>1, <3>2 DEF ConsultAt
  <2>3. CASE pc[v] = "copykey"
    <3>1. pc'[v] = "retire"
      BY <1>1, <1>7, <2>3 DEF CopyKey, Goto
    <3>2. table[s] = [node[v] EXCEPT !.seckey = table[s].seckey]
      BY <1>4, <2>3 DEF ConsultAt
    <3>3. table'[s] = node'[v]
      BY <1>2, <1>3, <2>1, <3>2 DEF TableNodes
    <3>4. QED
      BY <1>1, <1>2, <1>5, <3>1, <3>3 DEF ConsultAt
  <2>4. QED
    BY <1>7, <2>2, <2>3 DEF CopyKey
<1>8. QED
  BY <1>1, <1>2, <1>6, <1>7

(* The status is set in the slot where the key still is.                       *)
LEMMA MarkOwn ==
    ASSUME TypeInv, KeptInv, CleanNext, NEW v \in clean', MarkRevoked(v)
    PROVE  job'[v].cmd = "cancel" /\ CancelAt(v)'
<1>1. /\ v \in Workers /\ v \in clean /\ pc \in [Workers -> Steps] /\ slot[v] \in Slots
      /\ pc[v] = "mark" /\ job[v].cmd = "cancel" /\ table \in [Slots -> TableNodes]
  BY CleanMember DEF TypeInv, TypeOK, StepInv, AtASlot, MarkRevoked
<1>2. UNCHANGED <<job, slot, seen>> /\ Owner(v)' = Owner(v) /\ pc'[v] = "retire"
  BY <1>1 DEF MarkRevoked, Owner, Goto, keyVars
<1>3. SUFFICES ASSUME seen[v] # Unsettled PROVE CancelAt(v)'
  BY <1>1, <1>2 DEF CancelAt
<1>4. PICK i \in Slots :
         /\ IsFirst(i, Owner(v))
         /\ table[i].seckeyID = seen[v].id /\ table[i].seckey = seen[v].key /\ slot[v] = i
  BY <1>1, <1>3 DEF KeptInv, CancelInv, CancelAt
<1>5. table' = [table EXCEPT ![i] = [table[i] EXCEPT !.status = 1]]
  BY <1>4 DEF MarkRevoked
<1>6. /\ table'[i].owner = table[i].owner /\ table'[i].seckeyID = table[i].seckeyID
      /\ table'[i].seckey = table[i].seckey /\ table'[i].status = 1
  BY <1>1, <1>5 DEF TableNodes
<1>7. IsFirst(i, Owner(v))'
  <2>1. \A j \in Slots : j < i => table'[j] = table[j]
    BY <1>1, <1>5 DEF Slots
  <2>2. QED
    BY <1>2, <1>4, <1>6, <2>1 DEF IsFirst, NoneBefore
<1>8. QED
  BY <1>2, <1>4, <1>6, <1>7 DEF CancelAt

(* After updata_status no row of the owner is in use.                          *)
LEMMA RetiredAll ==
    ASSUME TypeInv, NEW o \in Clients, rows' = Retired(o)
    PROVE  Active(o)' = {}
<1>1. \A r \in rows : [r EXCEPT !.state = 1].state = 1
  BY DEF TypeInv, TypeOK
<1>2. \A r \in Retired(o) : r.owner # o \/ r.state = 1
  BY <1>1 DEF Retired
<1>3. QED
  BY <1>2 DEF Active

(* The three statements leave what is in the slot, and updata_status the rows  *)
(* unused.                                                                     *)
LEMMA StatementOwn ==
    ASSUME TypeInv, KeptInv, CleanNext, NEW v \in clean', Retire(v) \/ Bump(v) \/ Insert(v)
    PROVE  /\ job'[v].cmd = "consult" => ConsultAt(v)'
           /\ job'[v].cmd = "cancel" => CancelAt(v)'
<1>1. /\ v \in Workers /\ v \in clean /\ pc \in [Workers -> Steps] /\ Owner(v) \in Clients
      /\ pc[v] \in {"retire", "bump", "insert"}
  BY CleanMember DEF TypeInv, TypeOK, StepInv, Requests, Owner, Retire, Bump, Insert
<1>2. UNCHANGED <<job, table, node, slot>> /\ Owner(v)' = Owner(v)
  BY DEF Retire, Bump, Insert, Owner
<1>3. faults' = faults
  <2>1. pc'[v] # pc[v]
    BY <1>1 DEF Retire, Bump, Insert, Goto
  <2>2. QED
    BY <2>1, CleanMember
<1>4. pc'[v] \in {"bump", "insert", "answer", "close"} /\ (job[v].cmd = "cancel" => pc'[v] \in {"answer", "close"})
  BY <1>1 DEF Retire, Bump, Insert, Goto, TypeInv, StepInv, OnlyConsult
<1>5. ASSUME job[v].cmd = "consult" PROVE ConsultAt(v)'
  <2>1. ConsultAt(v)
    BY <1>1, <1>5 DEF KeptInv, ConsultInv
  <2>2. slot[v] # 0 => NoneBefore(slot[v], Owner(v))' /\ table'[slot[v]] = node'[v]
    BY <1>1, <1>2, <2>1 DEF ConsultAt, NoneBefore
  <2>3. pc'[v] \in {"bump", "insert"} => Active(Owner(v))' = {}
    <3>1. CASE Retire(v)
      <4>1. rows' = Retired(Owner(v))
        BY <1>3, <3>1 DEF Retire, SqlFail, TypeInv, TypeOK
      <4>2. QED
        BY <1>1, <1>2, <4>1, RetiredAll DEF Active
    <3>2. CASE Bump(v)
      BY <1>2, <2>1, <3>2 DEF Bump, ConsultAt, Active
    <3>3. CASE Insert(v)
      BY <1>1, <3>3 DEF Insert, Goto
    <3>4. QED
      BY <3>1, <3>2, <3>3
  <2>4. QED
    BY <1>2, <1>4, <2>2, <2>3 DEF ConsultAt
<1>6. QED
  BY <1>2, <1>4, <1>5 DEF CancelAt
-----------------------------------------------------------------------------
(* What a worker's step does to the promise to its own client. *)

(* While it is past its first steps there is no promise.                       *)
LEMMA NoPromise ==
    ASSUME KeptInv, NEW v \in Workers, Busy(v), Owner(v) \in Clients, pc[v] \notin Resting
    PROVE  settled[Owner(v)] = Unsettled
BY DEF KeptInv, SettledInv, SettledFor, Busy

(* A clean consult that has stored everything makes the promise.               *)
LEMMA InsertSettles ==
    ASSUME TypeInv, KeptInv, NEW v \in Workers, NEW c \in Clients, c = Owner(v), Insert(v)
    PROVE  SettledFor(c)'
<1>1. /\ pc[v] = "insert" /\ job[v].cmd = "consult" /\ pc \in [Workers -> Steps]
      /\ settled \in [Clients -> Promises] /\ node[v] \in TableNodes
      /\ table \in [Slots -> TableNodes]
  BY DEF Insert, TypeInv, TypeOK, StepInv, OnlyConsult, Requests, Owner
<1>2. settled[c] = Unsettled
  BY <1>1, NoPromise DEF Busy, Resting
<1>3. UNCHANGED <<table, job, slot, node>> /\ pc'[v] = "close" /\ Owner(v)' = c
  BY <1>1 DEF Insert, Goto, Owner
<1>4. SUFFICES ASSUME settled'[c] # Unsettled PROVE SettledFor(c)'
  BY DEF SettledFor
<1>5. /\ v \in clean /\ slot[v] # 0 /\ faults' = faults
      /\ settled'[c] = [conn |-> job[v].conn, valid |-> TRUE, id |-> node[v].seckeyID,
                        key |-> node[v].seckey]
  BY <1>1, <1>2, <1>4 DEF Insert
<1>6. /\ slot[v] \in Slots /\ NoneBefore(slot[v], c) /\ table[slot[v]] = node[v] /\ Active(c) = {}
  <2>1. slot[v] \in 0..MaxNode
    BY DEF TypeInv, TypeOK
  <2>2. slot[v] \in Slots
    BY <1>5, <2>1, MaxNodeAssumption DEF Slots
  <2>3. ConsultAt(v)
    BY <1>1, <1>5 DEF KeptInv, ConsultInv
  <2>4. QED
    BY <1>1, <1>5, <2>2, <2>3 DEF ConsultAt
<1>7. node[v].owner = c /\ node[v].status = 0
  BY <1>1 DEF KeptInv, NodeInv, Resting
<1>8. IsFirst(slot[v], c)'
  BY <1>3, <1>6, <1>7 DEF IsFirst, NoneBefore
<1>9. table'[slot[v]] = PromisedNode(c, settled'[c])
  BY <1>1, <1>3, <1>5, <1>6, <1>7 DEF PromisedNode, TableNodes
<1>10. Active(c)' = PromisedRows(c, settled'[c])
  <2>1. rows' = rows \cup {[owner |-> c, id |-> node[v].seckeyID, state |-> 0, key |-> node[v].seckey]}
    BY <1>5 DEF Insert, SqlFail, TypeInv, TypeOK
  <2>2. QED
    BY <1>5, <1>6, <2>1 DEF Active, PromisedRows
<1>11. ASSUME NEW u \in Workers \ {v}
       PROVE  /\ slot[v] \notin Aims(u)'
              /\ Owner(u)' = c /\ job'[u].cmd # "check" => pc'[u] \in Resting
  <2>1. SameOf(u)
    BY OthersSame
  <2>2. ~Conflict(v, u)
    BY <1>5 DEF KeptInv, CleanInv
  <2>3. slot[v] \in Aims(v)
    BY <1>1, <1>5 DEF Aims
  <2>4. Aims(u)' = Aims(u)
    BY <2>1 DEF SameOf, Aims
  <2>5. CASE pc[u] = "idle"
    BY <2>1, <2>4, <2>5 DEF SameOf, Aims, Resting
  <2>6. CASE pc[u] # "idle" /\ job[u].cmd = "check"
    <3>1. Aims(u) = {}
      BY <2>6, ActorBusy DEF KeptInv, Busy
    <3>2. QED
      BY <2>1, <2>4, <2>6, <3>1 DEF SameOf
  <2>7. CASE pc[u] # "idle" /\ job[u].cmd # "check"
    BY <2>1, <2>2, <2>3, <2>4, <2>7 DEF Conflict, SameOf, Owner
  <2>8. QED
    BY <2>5, <2>6, <2>7
<1>12. slot[v] \notin Aims(v)' /\ pc'[v] \in Resting
  BY <1>3 DEF Aims, Resting
<1>13. QED
  BY <1>3, <1>6, <1>8, <1>9, <1>10, <1>11, <1>12 DEF SettledFor

(* A clean cancellation of a settled key renews the promise.                   *)
LEMMA RetireSettles ==
    ASSUME TypeInv, KeptInv, NEW v \in Workers, NEW c \in Clients, c = Owner(v), Retire(v)
    PROVE  SettledFor(c)'
<1>1. /\ pc[v] = "retire" /\ pc \in [Workers -> Steps] /\ settled \in [Clients -> Promises]
      /\ seen[v] \in Promises /\ table \in [Slots -> TableNodes]
  BY DEF Retire, TypeInv, TypeOK
<1>2. settled[c] = Unsettled
  BY <1>1, NoPromise, ActorBusy DEF Resting, KeptInv
<1>3. UNCHANGED <<table, job, slot, node>> /\ Owner(v)' = c
  BY DEF Retire, Owner
<1>4. SUFFICES ASSUME settled'[c] # Unsettled PROVE SettledFor(c)'
  BY DEF SettledFor
<1>5. /\ v \in clean /\ job[v].cmd = "cancel" /\ seen[v] # Unsettled /\ faults' = faults
      /\ settled'[c] = [seen[v] EXCEPT !.valid = FALSE]
  BY <1>1, <1>2, <1>4 DEF Retire
<1>6. /\ settled'[c].valid = FALSE /\ settled'[c].id = seen[v].id /\ settled'[c].key = seen[v].key
  BY <1>1, <1>5 DEF Promises
<1>7. PICK i \in Slots :
         /\ IsFirst(i, c) /\ table[i].seckeyID = seen[v].id /\ table[i].seckey = seen[v].key
         /\ slot[v] = i /\ table[i].status = 1
  BY <1>1, <1>5 DEF KeptInv, CancelInv, CancelAt
<1>8. IsFirst(i, c)'
  BY <1>3, <1>7 DEF IsFirst, NoneBefore
<1>9. table'[i] = PromisedNode(c, settled'[c])
  BY <1>1, <1>3, <1>6, <1>7 DEF PromisedNode, TableNodes, IsFirst
<1>10. Active(c)' = PromisedRows(c, settled'[c])
  <2>1. rows' = Retired(c)
    BY <1>5 DEF Retire, SqlFail, TypeInv, TypeOK
  <2>2. QED
    BY <1>6, <2>1, RetiredAll DEF PromisedRows
<1>11. ASSUME NEW u \in Workers \ {v}
       PROVE  /\ i \notin Aims(u)'
              /\ Owner(u)' = c /\ job'[u].cmd # "check" => pc'[u] \in Resting
  <2>1. SameOf(u)
    BY OthersSame
  <2>2. ~Conflict(v, u)
    BY <1>5 DEF KeptInv, CleanInv
  <2>3. i \in Aims(v)
    BY <1>1, <1>7 DEF Aims, Slots
  <2>4. Aims(u)' = Aims(u)
    BY <2>1 DEF SameOf, Aims
  <2>5. CASE pc[u] = "idle"
    BY <2>1, <2>4, <2>5 DEF SameOf, Aims, Resting
  <2>6. CASE pc[u] # "idle" /\ job[u].cmd = "check"
    <3>1. Aims(u) = {}
      BY <2>6, ActorBusy DEF KeptInv, Busy
    <3>2. QED
      BY <2>1, <2>4, <2>6, <3>1 DEF SameOf
  <2>7. CASE pc[u] # "idle" /\ job[u].cmd # "check"
    BY <2>1, <2>2, <2>3, <2>4, <2>7 DEF Conflict, SameOf, Owner
  <2>8. QED
    BY <2>5, <2>6, <2>7
<1>12. pc'[v] = "answer"
  BY <1>1, <1>5 DEF Retire, Goto
<1>13. i \notin Aims(v)' /\ pc'[v] \in Resting
  BY <1>12 DEF Aims, Resting
<1>14. QED
  BY <1>3, <1>8, <1>9, <1>10, <1>11, <1>13 DEF SettledFor

(* The other steps withdraw the promise, come when there is none, or leave the *)
(* worker where it disturbs none.                                              *)
LEMMA SettledOwn ==
    ASSUME TypeInv, KeptInv, NEW v \in Workers, Busy(v), NEW c \in Clients, c = Owner(v),
           \/ CheckClient(v) \/ GetKeyID(v) \/ ConsultReply(v)
           \/ MatchSlot(v) \/ FreeSlot(v) \/ CopyIds(v) \/ CopyKey(v) \/ Bump(v)
           \/ LoadKey(v) \/ MarkRevoked(v) \/ Answer(v) \/ Close(v)
    PROVE  SettledFor(c)'
<1>1. settled \in [Clients -> Promises] /\ pc \in [Workers -> Steps]
  BY DEF TypeInv, TypeOK
<1>2. SUFFICES ASSUME settled'[c] # Unsettled PROVE SettledFor(c)'
  BY DEF SettledFor
<1>3. ~GetKeyID(v)
  BY <1>1, <1>2 DEF GetKeyID
<1>4. ~(ConsultReply(v) \/ MatchSlot(v) \/ FreeSlot(v) \/ CopyIds(v) \/ CopyKey(v) \/ Bump(v)
        \/ LoadKey(v) \/ MarkRevoked(v))
  <2>1. SUFFICES ASSUME ConsultReply(v) \/ MatchSlot(v) \/ FreeSlot(v) \/ CopyIds(v) \/ CopyKey(v)
                        \/ Bump(v) \/ LoadKey(v) \/ MarkRevoked(v)
                 PROVE  FALSE
    OBVIOUS
  <2>2. settled' = settled /\ pc[v] \notin Resting
    BY <2>1 DEF ConsultReply, MatchSlot, FreeSlot, CopyIds, CopyKey, Bump, LoadKey, MarkRevoked,
       keyVars, Resting
  <2>3. QED
    BY <1>2, <2>2, NoPromise
<1>5. CASE CheckClient(v) \/ Answer(v) \/ Close(v)
  <2>1. /\ UNCHANGED <<table, rows>> /\ settled'[c] = settled[c]
        /\ pc'[v] \in Resting /\ (pc'[v] = "idle" \/ Owner(v)' = c)
    BY <1>1, <1>2, <1>5 DEF CheckClient, Answer, Close, Goto, dbVars, keyVars, Resting, Busy, Owner,
       TypeInv, StepInv, Requests, Jobs
  <2>2. Aims(v)' = {}
    BY <2>1 DEF Aims, Resting
  <2>3. \A u \in Workers \ {v} : SameOf(u)
    BY <1>5, OthersSame
  <2>4. \A u \in Workers : Aims(u)' \subseteq Aims(u)
    BY <2>2, <2>3 DEF SameOf, Aims
  <2>5. SettledFor(c)
    BY DEF KeptInv, SettledInv
  <2>6. \A u \in Workers : Owner(u)' = c /\ job'[u].cmd # "check" => pc'[u] \in Resting
    BY <1>2, <2>1, <2>3, <2>5 DEF SettledFor, SameOf, Owner
  <2>7. QED
    BY <1>2, <2>1, <2>4, <2>5, <2>6 DEF SettledFor, IsFirst, NoneBefore, Active
<1>6. QED
  BY <1>3, <1>4, <1>5
-----------------------------------------------------------------------------
(* The invariant. *)

(* Every step of a worker keeps the invariant.                                 *)
LEMMA WorkerKept ==
    ASSUME TypeInv, KeptInv, CleanNext, NEW v \in Workers,
           \/ Take(v) \/ CheckClient(v) \/ GetKeyID(v) \/ ConsultReply(v)
           \/ MatchSlot(v) \/ FreeSlot(v) \/ CopyIds(v) \/ CopyKey(v)
           \/ Retire(v) \/ Bump(v) \/ Insert(v)
           \/ LoadKey(v) \/ MarkRevoked(v) \/ Answer(v) \/ Close(v)
    PROVE  KeptInv'
<1>1. Frame(v)
  BY StartFrame, ScanFrame, StoreFrame, StatementFrame DEF KeptInv
<1>2. CleanInv'
  BY CleanMember DEF CleanInv
<1>3. NodeInv'
  BY NodeOwn DEF KeptInv
<1>4. ASSUME NEW w \in clean'
      PROVE  /\ job'[w].cmd = "consult" => ConsultAt(w)'
             /\ job'[w].cmd = "cancel" => CancelAt(w)'
  <2>1. CASE w = v
    <3>1. CASE Take(v) \/ GetKeyID(v) \/ ConsultReply(v) \/ LoadKey(v) \/ Answer(v) \/ Close(v)
      BY <2>1, <3>1, StartOwn
    <3>2. CASE CheckClient(v)
      BY <2>1, <3>2, CheckClientOwn
    <3>3. CASE MatchSlot(v)
      BY <2>1, <3>3, MatchOwn
    <3>4. CASE FreeSlot(v)
      BY <2>1, <3>4, FreeOwn
    <3>5. CASE CopyIds(v) \/ CopyKey(v)
      BY <2>1, <3>5, CopyOwn
    <3>6. CASE MarkRevoked(v)
      BY <2>1, <3>6, MarkOwn
    <3>7. CASE Retire(v) \/ Bump(v) \/ Insert(v)
      BY <2>1, <3>7, StatementOwn
    <3>8. QED
      BY <3>1, <3>2, <3>3, <3>4, <3>5, <3>6, <3>7
  <2>2. CASE w # v
    <3>1. w \in Workers /\ SameOf(w) /\ w \in clean
      BY <1>1, <2>2, CleanMember DEF Frame, SameOf
    <3>2. QED
      BY <1>1, <2>2, <3>1, ConsultOthers, CancelOthers DEF SameOf
  <2>3. QED
    BY <2>1, <2>2
<1>5. ASSUME NEW c \in Clients PROVE SettledFor(c)'
  <2>1. CASE Busy(v) /\ Owner(v) = c
    <3>1. ~Take(v)
      BY <2>1 DEF Take, Busy
    <3>2. QED
      BY <2>1, <3>1, InsertSettles, RetireSettles, SettledOwn
  <2>2. CASE Busy(v) => Owner(v) # c
    <3>1. pc[v] = "idle" => pc'[v] \in Resting
      BY DEF Take, CheckClient, GetKeyID, ConsultReply, MatchSlot, FreeSlot, CopyIds, CopyKey, Retire,
         Bump, Insert, LoadKey, MarkRevoked, Answer, Close, Goto, Resting, TypeInv, TypeOK
    <3>2. QED
      BY <1>1, <2>2, <3>1, SettledOthers
  <2>3. QED
    BY <2>1, <2>2
<1>6. QED
  BY <1>2, <1>3, <1>4, <1>5 DEF KeptInv, ConsultInv, CancelInv, SettledInv

(* The process dies: nobody is left to be clean, or to disturb anything.       *)
LEMMA DieKept ==
    ASSUME TypeInv, KeptInv, CleanNext, Die
    PROVE  KeptInv'
<1>1. UNCHANGED <<table, rows, settled>> /\ \A w \in Workers : pc'[w] = "idle" /\ Aims(w)' = {}
  BY DEF Die, dbVars, Aims
<1>2. clean' = {}
  BY <1>1 DEF CleanNext
<1>3. ASSUME NEW c \in Clients PROVE SettledFor(c)'
  <2>1. SettledFor(c)
    BY DEF KeptInv, SettledInv
  <2>2. QED
    BY <1>1, <2>1 DEF SettledFor, IsFirst, NoneBefore, Active, Resting
<1>4. NodeInv'
  BY <1>1 DEF NodeInv, Resting
<1>5. QED
  BY <1>2, <1>3, <1>4 DEF KeptInv, CleanInv, ConsultInv, CancelInv, SettledInv

(* Steps of the clients, the administrator and of starting the server.         *)
LEMMA OutsideKept ==
    ASSUME TypeInv, KeptInv, UNCHANGED <<workerVars, table, rows, keyVars>>, clean' \subseteq clean
    PROVE  KeptInv'
<1>1. UNCHANGED <<pc, job, slot, node, table, rows, settled, seen>>
  BY DEF workerVars, keyVars
<1>2. /\ \A w \in Workers : Aims(w)' = Aims(w) /\ Owner(w)' = Owner(w)
      /\ \A c \in Clients : Active(c)' = Active(c)
      /\ clean \subseteq Workers
  BY <1>1 DEF Aims, Owner, Active, TypeInv, TypeOK
<1>3. CleanInv' /\ NodeInv'
  BY <1>1, <1>2 DEF KeptInv, CleanInv, NodeInv, Conflict
<1>4. \A w \in clean' : /\ job'[w].cmd = "consult" => ConsultAt(w)'
                        /\ job'[w].cmd = "cancel" => CancelAt(w)'
  <2> TAKE w \in clean'
  <2>1. /\ job[w].cmd = "consult" => ConsultAt(w)
        /\ job[w].cmd = "cancel" => CancelAt(w)
    BY DEF KeptInv, ConsultInv, CancelInv
  <2>2. ConsultAt(w) => ConsultAt(w)'
    BY <1>1 DEF ConsultAt, NoneBefore, Owner, Active
  <2>3. CancelAt(w) => CancelAt(w)'
    BY <1>1 DEF CancelAt, IsFirst, NoneBefore, Owner, Aims
  <2>4. QED
    BY <1>1, <2>1, <2>2, <2>3
<1>5. \A c \in Clients : SettledFor(c)'
  BY <1>1, <1>2 DEF KeptInv, SettledInv, SettledFor, IsFirst, NoneBefore
<1>6. QED
  BY <1>3, <1>4, <1>5 DEF KeptInv, ConsultInv, CancelInv, SettledInv

(* What the clients and the administrator do leaves workers, table and rows    *)
(* alone.                                                                      *)
LEMMA ClientOutside ==
    ASSUME NEW c \in Clients, ClientStep(c) \/ EditClients(c)
    PROVE  UNCHANGED <<workerVars, table, rows, keyVars>>
<1>1. CASE SendConsult(c) \/ SendCheck(c) \/ SendCancel(c)
  BY <1>1 DEF SendConsult, SendCheck, SendCancel, Send, dbVars
<1>2. CASE Receive(c)
  BY <1>2 DEF Receive, dbVars
<1>3. CASE Fail(c) \/ GiveUp(c) \/ RestartClient(c)
  BY <1>3 DEF Fail, GiveUp, RestartClient, dbVars
<1>4. CASE EditClients(c)
  BY <1>4 DEF EditClients
<1>5. QED
  BY <1>1, <1>2, <1>3, <1>4 DEF ClientStep

(* The invariant of all that a promise about a key rests on: its slot and its  *)
(* rows, what clean requests have stored so far, and that nobody aims at it.   *)
THEOREM KeyServiceKept == Spec => []KeptInv
<1>1. Init => KeptInv
  BY DEF Init, KeptInv, CleanInv, NodeInv, ConsultInv, CancelInv, SettledInv, SettledFor, Resting
<1>2. TypeInv /\ KeptInv /\ [Next]_vars => KeptInv'
  <2> SUFFICES ASSUME TypeInv, KeptInv, [Next]_vars PROVE KeptInv'
    OBVIOUS
  <2>1. CASE UNCHANGED vars
    <3>1. UNCHANGED <<workerVars, table, rows, keyVars>> /\ clean' \subseteq clean
      BY <2>1 DEF vars, dbVars
    <3>2. QED
      BY <3>1, OutsideKept
  <2>2. CASE Next
    <3>1. Step /\ CleanNext
      BY <2>2 DEF Next
    <3>2. ASSUME UNCHANGED <<workerVars, table, rows, keyVars>> PROVE KeptInv'
      <4>1. clean' \subseteq clean
        BY <3>1, <3>2, CleanMember DEF workerVars
      <4>2. QED
        BY <3>2, <4>1, OutsideKept
    <3>3. CASE \E c \in Clients : ClientStep(c) \/ EditClients(c)
      BY <3>2, <3>3, ClientOutside
    <3>4. CASE \E w \in Workers : Take(w) \/ WorkerStep(w)
      BY <3>1, <3>4, WorkerKept, DieKept DEF WorkerStep, CheckUnknownClient
    <3>5. CASE Crash
      BY <3>1, <3>5, DieKept DEF Crash
    <3>6. CASE Restart
      BY <3>2, <3>6 DEF Restart, dbVars
    <3>7. QED
      BY <3>1, <3>3, <3>4, <3>5, <3>6 DEF Step
  <2>3. QED
    BY <2>1, <2>2
<1>3. QED
  BY <1>1, <1>2, KeyServiceTyped, PTL DEF Spec

(* Every scan for a client ends at its first slot.                             *)
LEMMA EntryIsFirst ==
    ASSUME TypeInv, NEW c, NEW i, IsFirst(i, c)
    PROVE  Entry(table, c) = table[i]
<1>1. i \in MatchSlots(table, c) /\ MatchSlots(table, c) \subseteq Slots
  BY DEF IsFirst, MatchSlots, TypeInv, TypeOK
<1>2. \A j \in MatchSlots(table, c) : ~(j < i)
  BY <1>1 DEF IsFirst, NoneBefore, MatchSlots
<1>3. FirstOf(MatchSlots(table, c)) = i
  <2>1. Slots \subseteq Nat
    BY MaxNodeAssumption DEF Slots
  <2>2. MatchSlots(table, c) \in SUBSET Nat /\ MatchSlots(table, c) # {}
    BY <1>1, <2>1
  <2>3. /\ FirstOf(MatchSlots(table, c)) \in MatchSlots(table, c)
        /\ \A j \in MatchSlots(table, c) : FirstOf(MatchSlots(table, c)) <= j
    BY <2>2, FirstOfHit
  <2>4. FirstOf(MatchSlots(table, c)) \in Nat /\ i \in Nat
    BY <1>1, <2>2, <2>3
  <2>5. QED
    BY <1>1, <1>2, <2>3, <2>4
<1>4. QED
  BY <1>1, <1>3 DEF Entry, Holds

(* What a request that met no conflict and no failure leaves in the table and  *)
(* in the database is kept, whatever other clients' requests, failed           *)
(* statements, crashes and restarts do, until its client's next request.       *)
THEOREM KeyServiceSettled == Spec => []SettledKeyKept
<1>1. TypeInv /\ KeptInv => SettledKeyKept
  <2> SUFFICES ASSUME TypeInv, KeptInv, NEW c \in Clients, settled[c] # Unsettled
               PROVE  /\ Entry(table, c) = PromisedNode(c, settled[c])
                      /\ Active(c) = PromisedRows(c, settled[c])
    BY DEF SettledKeyKept, PromisedNode, PromisedRows
  <2>1. SettledFor(c)
    BY DEF KeptInv, SettledInv
  <2>2. QED
    BY <2>1, EntryIsFirst DEF SettledFor
<1>2. QED
  BY <1>1, KeyServiceTyped, KeyServiceKept, PTL
-----------------------------------------------------------------------------
(* Client and server agree: when a client has taken the answer of the request  *)
(* its settled key comes from, its own table has the same key under the same   *)
(* number.                                                                     *)

(* Two requests are one if client and number are.                              *)
SameReq(j, k) == j.client = k.client /\ j.conn = k.conn

(* A request that was sent, and of its client's last number only if it is the  *)
(* last one.                                                                   *)
Known(j) == /\ j.conn <= ask[j.client].conn
            /\ j.conn = ask[j.client].conn => j = ask[j.client]

(* Nothing of an answer to j has reached its client.                           *)
Unanswered(j) == /\ ownConn[j.client] # j.conn
                 /\ ask[j.client].conn = j.conn => inbox[j.client].kind # "reply"

(* A request is in one place at a time: in the queue, or with one worker.      *)
OnceInv ==
    /\ \A i, k \in DOMAIN queue : i # k => ~SameReq(queue[i], queue[k])
    /\ \A i \in DOMAIN queue, w \in Workers : pc[w] # "idle" => ~SameReq(queue[i], job[w])
    /\ \A v, w \in Workers : v # w /\ pc[v] # "idle" /\ pc[w] # "idle" => ~SameReq(job[v], job[w])

KnownInv ==
    /\ \A c \in Clients : ownConn[c] <= ask[c].conn
    /\ \A i \in DOMAIN queue : Known(queue[i]) /\ Unanswered(queue[i])
    /\ \A w \in Workers : pc[w] # "idle" =>
          Known(job[w]) /\ (pc[w] \in {"client", "getid", "consultreply"} => Unanswered(job[w]))

OwnInv == \A c \in Clients : own[c][1] = ZeroNode \/ own[c][1].owner = c

(* What client c has of the answer to its request n, if it has any, is number  *)
(* id and the second half of key.                                              *)
Agree(c, n, id, key) ==
    /\ ask[c].conn = n /\ inbox[c].kind = "reply" =>
          inbox[c].id = id /\ <<ask[c].r1, inbox[c].r2>> = key
    /\ ownConn[c] = n =>
          own[c][1] = [status |-> 0, seckeyID |-> id, owner |-> c, seckey |-> key]

(* A consult that has answered agrees with what it sent.                       *)
Storing == {"match", "free", "copy", "copyids", "copykey", "retire", "bump", "insert"}
SentInv == \A w \in Workers : job[w].cmd = "consult" /\ pc[w] \in Storing =>
    Agree(Owner(w), job[w].conn, node[w].seckeyID, node[w].seckey)

(* Promise s about c's key agrees with its client, and no worker will answer   *)
(* the request it comes from again.                                            *)
Told(c, s) ==
    /\ s.conn <= ask[c].conn
    /\ Agree(c, s.conn, s.id, s.key)
    /\ \A i \in DOMAIN queue : queue[i].client = c => queue[i].conn # s.conn
    /\ \A w \in Workers : Owner(w) = c /\ job[w].conn = s.conn => pc[w] \in {"close", "idle"}

ToldInv ==
    /\ \A c \in Clients : settled[c] # Unsettled => Told(c, settled[c])
    /\ \A w \in Workers : seen[w] # Unsettled => pc[w] # "idle" /\ Told(Owner(w), seen[w])

AgreeInv == OnceInv /\ KnownInv /\ OwnInv /\ SentInv /\ ToldInv
-----------------------------------------------------------------------------
(* What a step of a worker does to requests and answers. *)

Answers(v) == pc[v] \in {"consultreply", "answer"}

Serving(v) ==
    /\ UNCHANGED <<ask, own, ownConn, queue>>
    /\ \A u \in Workers \ {v} : SameOf(u)
    /\ pc[v] # "idle"
    /\ pc'[v] # "idle" => job'[v] = job[v]
    /\ pc[v] = "close" => pc'[v] = "idle"
    /\ pc'[v] \in {"client", "getid", "consultreply"} => pc[v] = "client" \/ pc[v] = "getid"
    /\ \A c \in Clients : inbox'[c].kind = "reply" =>
          inbox'[c] = inbox[c] \/ (Answers(v) /\ Owner(v) = c /\ ask[c].conn = job[v].conn)

(* Every action of a worker but taking a request, and the death of the         *)
(* process, is such a step.                                                    *)
LEMMA ServingStep ==
    ASSUME TypeInv, NEW v \in Workers,
           \/ CheckClient(v) \/ GetKeyID(v) \/ ConsultReply(v)
           \/ MatchSlot(v) \/ FreeSlot(v) \/ CopyIds(v) \/ CopyKey(v)
           \/ Retire(v) \/ Bump(v) \/ Insert(v)
           \/ LoadKey(v) \/ MarkRevoked(v) \/ Answer(v) \/ Close(v)
    PROVE  Serving(v)
<1>1. \A u \in Workers \ {v} : SameOf(u)
  BY OthersSame
<1>2. pc \in [Workers -> Steps]
  BY DEF TypeInv, TypeOK
<1>3. ASSUME UNCHANGED <<clientVars, queue, job>>, pc[v] \notin {"idle", "close"},
             pc'[v] \in {"client", "getid", "consultreply"} => pc[v] = "client" \/ pc[v] = "getid"
      PROVE  Serving(v)
  BY <1>1, <1>3 DEF Serving, clientVars
<1>4. CASE CheckClient(v) \/ GetKeyID(v)
  BY <1>2, <1>3, <1>4 DEF CheckClient, GetKeyID, Goto
<1>5. CASE MatchSlot(v) \/ FreeSlot(v) \/ LoadKey(v)
  <2>1. UNCHANGED <<clientVars, queue, job>> /\ pc[v] \in {"match", "free", "load"}
    BY <1>5 DEF MatchSlot, FreeSlot, LoadKey
  <2>2. pc'[v] \in {"match", "free", "copy", "load", "mark", "close", "retire", "answer"}
    <3>1. job[v].cmd \in {"consult", "check", "cancel"}
      BY <2>1 DEF TypeInv, StepInv, Requests, Jobs
    <3>2. CASE MatchSlot(v)
      BY <1>2, <3>1, <3>2 DEF MatchSlot, Goto
    <3>3. CASE FreeSlot(v)
      BY <1>2, <3>3 DEF FreeSlot, Goto
    <3>4. CASE LoadKey(v)
      BY <1>2, <3>4 DEF LoadKey, Goto
    <3>5. QED
      BY <1>5, <3>2, <3>3, <3>4
  <2>3. QED
    BY <1>3, <2>1, <2>2
<1>6. CASE CopyIds(v) \/ CopyKey(v) \/ MarkRevoked(v) \/ Retire(v) \/ Bump(v) \/ Insert(v)
  <2>1. UNCHANGED <<clientVars, queue, job>> /\ pc[v] \notin {"idle", "close"}
    BY <1>6 DEF CopyIds, CopyKey, MarkRevoked, Retire, Bump, Insert
  <2>2. pc'[v] \notin {"client", "getid", "consultreply"}
    <3>1. CASE CopyIds(v) \/ CopyKey(v) \/ MarkRevoked(v)
      BY <1>2, <3>1 DEF CopyIds, CopyKey, MarkRevoked, Goto
    <3>2. CASE Retire(v)
      BY <1>2, <3>2 DEF Retire, Goto
    <3>3. CASE Bump(v) \/ Insert(v)
      BY <1>2, <3>3 DEF Bump, Insert, Goto
    <3>4. QED
      BY <1>6, <3>1, <3>2, <3>3
  <2>3. QED
    BY <1>3, <2>1, <2>2
<1>7. CASE ConsultReply(v) \/ Answer(v)
  <2>1. Answers(v) /\ UNCHANGED <<ask, own, ownConn, queue, job>>
    BY <1>7 DEF ConsultReply, Answer, Answers
  <2>2. pc'[v] \in {"match", "close"} /\ pc[v] \in {"consultreply", "answer"}
    BY <1>2, <1>7 DEF ConsultReply, Answer, Goto
  <2>3. inbox' = inbox \/ \E msg \in Msgs : Deliver(v, msg)
    <3>1. CASE ConsultReply(v)
      <4>1. node[v].seckeyID \in Int /\ r2s' \in Nat
        BY <3>1 DEF ConsultReply, TypeInv, TypeOK, TableNodes
      <4>2. QED
        BY <3>1, <4>1 DEF ConsultReply, Msgs
    <3>2. CASE Answer(v)
      BY <3>2 DEF Answer, Msgs
    <3>3. QED
      BY <1>7, <3>1, <3>2
  <2>4. \A c \in Clients : inbox'[c] = inbox[c] \/ (Owner(v) = c /\ ask[c].conn = job[v].conn)
    BY <2>3 DEF Deliver
  <2>5. QED
    BY <1>1, <2>1, <2>2, <2>4 DEF Serving
<1>8. CASE Close(v)
  <2>1. Deliver(v, Closed) /\ UNCHANGED <<ask, own, ownConn, queue>> /\ pc[v] = "close"
    BY <1>8 DEF Close
  <2>2. pc'[v] = "idle"
    BY <1>2, <1>8 DEF Close, Goto
  <2>3. \A c \in Clients : inbox'[c].kind = "reply" => inbox'[c] = inbox[c]
    <3>1. \A c \in Clients : inbox'[c] = inbox[c] \/ inbox'[c] = Closed
      BY <2>1 DEF Deliver
    <3>2. QED
      BY <3>1 DEF Closed
  <2>4. QED
    BY <1>1, <2>1, <2>2, <2>3 DEF Serving
<1>9. QED
  BY <1>4, <1>5, <1>6, <1>7, <1>8

(* A worker that does not answer request n of c does not touch what c has of   *)
(* its answer.                                                                 *)
LEMMA AgreeServed ==
    ASSUME TypeInv, NEW v \in Workers, Serving(v), NEW c \in Clients, NEW n, NEW id, NEW key,
           Agree(c, n, id, key), ~(Answers(v) /\ Owner(v) = c /\ job[v].conn = n)
    PROVE  Agree(c, n, id, key)'
<1>1. UNCHANGED <<ask, own, ownConn>>
  BY DEF Serving
<1>2. ask[c].conn = n /\ inbox'[c].kind = "reply" => inbox'[c] = inbox[c]
  BY DEF Serving
<1>3. QED
  BY <1>1, <1>2 DEF Agree

(* The same for a request nothing has reached its client of.                   *)
LEMMA UnansweredServed ==
    ASSUME TypeInv, NEW v \in Workers, Serving(v), NEW j \in Requests,
           Unanswered(j), ~(Answers(v) /\ SameReq(job[v], j))
    PROVE  Unanswered(j)'
<1>1. UNCHANGED <<ask, own, ownConn>> /\ j.client \in Clients
  BY DEF Serving, Requests
<1>2. ask[j.client].conn = j.conn /\ inbox'[j.client].kind = "reply"
      => inbox'[j.client] = inbox[j.client]
  BY <1>1 DEF Serving, SameReq, Owner
<1>3. QED
  BY <1>1, <1>2 DEF Unanswered
-----------------------------------------------------------------------------
(* Requests and answers, when a worker serves. *)

(* A worker that is not idle and an entry of the queue have a client's         *)
(* request.                                                                    *)
LEMMA BusyRequests ==
    ASSUME TypeInv
    PROVE  /\ \A w \in Workers : pc[w] # "idle" => job[w] \in Requests /\ Owner(w) \in Clients
           /\ \A i \in DOMAIN queue : queue[i] \in Requests /\ queue[i].client \in Clients
           /\ DOMAIN queue = 1..Len(queue) /\ Len(queue) \in Nat
BY DEF TypeInv, StepInv, Requests, Owner

(* A worker that serves makes no second copy of a request.                     *)
LEMMA ServedOnce ==
    ASSUME TypeInv, OnceInv, NEW v \in Workers, Serving(v)
    PROVE  OnceInv'
<1>1. \A w \in Workers : pc'[w] # "idle" => pc[w] # "idle" /\ job'[w] = job[w]
  BY DEF Serving, SameOf
<1>2. QED
  BY <1>1 DEF OnceInv, Serving

(* Only the worker that has a request answers it, and then is past its first   *)
(* steps.                                                                      *)
LEMMA ServedKnown ==
    ASSUME TypeInv, OnceInv, KnownInv, NEW v \in Workers, Serving(v)
    PROVE  KnownInv'
<1>1. UNCHANGED <<ask, own, ownConn, queue>>
  BY DEF Serving
<1>2. \A w \in Workers : pc'[w] # "idle" => pc[w] # "idle" /\ job'[w] = job[w]
  BY DEF Serving, SameOf
<1>3. ASSUME NEW i \in DOMAIN queue
      PROVE  (Known(queue[i]) /\ Unanswered(queue[i]))'
  <2>1. Known(queue[i]) /\ Unanswered(queue[i]) /\ queue[i] \in Requests
    BY BusyRequests DEF KnownInv
  <2>2. ~(Answers(v) /\ SameReq(job[v], queue[i]))
    BY DEF OnceInv, SameReq, Answers
  <2>3. Unanswered(queue[i])'
    BY <1>1, <2>1, <2>2, UnansweredServed DEF Unanswered
  <2>4. QED
    BY <1>1, <2>1, <2>3 DEF Known
<1>4. ASSUME NEW w \in Workers, pc'[w] # "idle"
      PROVE  Known(job[w])' /\ (pc'[w] \in {"client", "getid", "consultreply"} => Unanswered(job[w])')
  <2>1. Known(job[w]) /\ job'[w] = job[w] /\ pc[w] # "idle" /\ job[w] \in Requests
    BY <1>2, <1>4, BusyRequests DEF KnownInv
  <2>2. ASSUME pc'[w] \in {"client", "getid", "consultreply"} PROVE Unanswered(job[w])'
    <3>1. Unanswered(job[w]) /\ ~(Answers(v) /\ w = v)
      BY <2>1, <2>2 DEF KnownInv, Serving, SameOf, Answers
    <3>2. ~(Answers(v) /\ SameReq(job[v], job[w]))
      BY <2>1, <3>1 DEF OnceInv, Answers
    <3>3. QED
      BY <2>1, <3>1, <3>2, UnansweredServed DEF Unanswered
  <2>3. QED
    BY <1>1, <2>1, <2>2 DEF Known
<1>5. QED
  BY <1>1, <1>3, <1>4 DEF KnownInv

(* A consult has told its client what it is about to store.                    *)
LEMMA ReplySent ==
    ASSUME TypeInv, KnownInv, NEW v \in Workers, ConsultReply(v), Goto(v, "match")
    PROVE  Agree(Owner(v), job[v].conn, node[v].seckeyID, node[v].seckey)'
<1> DEFINE c == Owner(v)
<1>1. /\ job[v] \in Requests /\ c \in Clients /\ pc[v] = "consultreply"
      /\ Known(job[v]) /\ Unanswered(job[v])
  BY BusyRequests DEF ConsultReply, KnownInv
<1>2. UNCHANGED <<ask, own, ownConn, job>>
  BY DEF ConsultReply
<1>3. /\ node'[v].seckeyID = node[v].seckeyID /\ node'[v].seckey = <<job[v].r1, r2s'>>
  BY DEF ConsultReply, TypeInv, TypeOK, TableNodes
<1>4. ownConn[c] # job[v].conn
  BY <1>1 DEF Unanswered, Owner
<1>5. ASSUME ask[c].conn = job[v].conn, inbox'[c].kind = "reply"
      PROVE  inbox'[c].id = node[v].seckeyID /\ inbox'[c].r2 = r2s' /\ ask[c].r1 = job[v].r1
  <2>1. ask[c] = job[v] /\ inbox[c].kind # "reply"
    BY <1>1, <1>5 DEF Known, Unanswered, Owner
  <2>2. \/ UNCHANGED inbox
        \/ Deliver(v, [kind |-> "reply", rv |-> 0, id |-> node[v].seckeyID, r2 |-> r2s'])
    BY DEF ConsultReply
  <2>3. inbox'[c] = [kind |-> "reply", rv |-> 0, id |-> node[v].seckeyID, r2 |-> r2s']
    BY <1>1, <1>5, <2>1, <2>2 DEF Deliver
  <2>4. QED
    BY <2>1, <2>3
<1>6. Owner(v)' = c
  BY <1>2 DEF Owner
<1>7. QED
  BY <1>2, <1>3, <1>4, <1>5, <1>6 DEF Agree

(* A worker keeps the node it told its client of, until it is stored.          *)
LEMMA ServedSent ==
    ASSUME TypeInv, OnceInv, KnownInv, SentInv, NEW v \in Workers,
           \/ CheckClient(v) \/ GetKeyID(v) \/ ConsultReply(v)
           \/ MatchSlot(v) \/ FreeSlot(v) \/ CopyIds(v) \/ CopyKey(v)
           \/ Retire(v) \/ Bump(v) \/ Insert(v)
           \/ LoadKey(v) \/ MarkRevoked(v) \/ Answer(v) \/ Close(v)
    PROVE  SentInv'
<1>1. Serving(v)
  BY ServingStep
<1>2. SUFFICES ASSUME NEW w \in Workers, job'[w].cmd = "consult", pc'[w] \in Storing
               PROVE  Agree(Owner(w), job[w].conn, node[w].seckeyID, node[w].seckey)'
  BY DEF SentInv
<1>3. pc \in [Workers -> Steps]
  BY DEF TypeInv, TypeOK
<1>4. pc'[w] # "idle" /\ pc[w] # "idle" /\ job'[w] = job[w]
  BY <1>1, <1>2 DEF Storing, Serving, SameOf
<1>5. ASSUME node'[w] = node[w], pc[w] \in Storing, ~(Answers(v) /\ SameReq(job[v], job[w]))
      PROVE  Agree(Owner(w), job[w].conn, node[w].seckeyID, node[w].seckey)'
  <2>1. Agree(Owner(w), job[w].conn, node[w].seckeyID, node[w].seckey) /\ Owner(w) \in Clients
    BY <1>2, <1>4, <1>5, BusyRequests DEF SentInv
  <2>2. UNCHANGED <<ask, own, ownConn>>
    BY <1>1 DEF Serving
  <2>3. ask[Owner(w)].conn = job[w].conn /\ inbox'[Owner(w)].kind = "reply"
        => inbox'[Owner(w)] = inbox[Owner(w)]
    BY <1>1, <1>5, <2>1 DEF Serving, SameReq, Owner
  <2>4. QED
    BY <1>4, <1>5, <2>1, <2>2, <2>3 DEF Agree, Owner
<1>6. CASE w # v
  <2>1. pc[w] = pc'[w] /\ node[w] = node'[w]
    BY <1>1, <1>6 DEF Serving, SameOf
  <2>2. ~(Answers(v) /\ SameReq(job[v], job[w]))
    BY <1>4, <1>6 DEF OnceInv, Answers
  <2>3. QED
    BY <1>2, <1>5, <2>1, <2>2
<1>7. CASE w = v
  <2>1. CASE ConsultReply(v)
    <3>1. Goto(v, "match")
      <4>1. Goto(v, "match") \/ Goto(v, "close")
        BY <2>1 DEF ConsultReply
      <4>2. Goto(v, "close") => pc'[v] = "close"
        BY <1>3 DEF Goto
      <4>3. QED
        BY <1>2, <1>7, <4>1, <4>2 DEF Storing
    <3>2. QED
      BY <1>7, <2>1, <3>1, ReplySent
  <2>2. CASE CheckClient(v) \/ GetKeyID(v) \/ LoadKey(v) \/ Answer(v) \/ Close(v)
    <3>1. CASE CheckClient(v)
      BY <1>2, <1>3, <1>4, <1>7, <3>1 DEF CheckClient, Goto, Storing
    <3>2. CASE GetKeyID(v) \/ LoadKey(v)
      BY <1>2, <1>3, <1>7, <3>2 DEF GetKeyID, LoadKey, Goto, Storing
    <3>3. CASE Answer(v) \/ Close(v)
      BY <1>2, <1>3, <1>7, <3>3 DEF Answer, Close, Goto, Storing
    <3>4. QED
      BY <2>2, <3>1, <3>2, <3>3
  <2>3. CASE \/ MatchSlot(v) \/ FreeSlot(v) \/ CopyIds(v) \/ CopyKey(v)
             \/ Retire(v) \/ Bump(v) \/ Insert(v) \/ MarkRevoked(v)
    <3>1. node' = node
      BY <2>3 DEF MatchSlot, FreeSlot, CopyIds, CopyKey, Retire, Bump, Insert, MarkRevoked
    <3>2. pc[v] \in Storing /\ ~Answers(v)
      <4>1. ~MarkRevoked(v)
        BY <1>2, <1>4, <1>7 DEF MarkRevoked, TypeInv, StepInv
      <4>2. QED
        BY <2>3, <4>1 DEF MatchSlot, FreeSlot, CopyIds, CopyKey, Retire, Bump, Insert, Storing,
           Answers
    <3>3. QED
      BY <1>5, <1>7, <3>1, <3>2
  <2>4. QED
    BY <2>1, <2>2, <2>3
<1>8. QED
  BY <1>6, <1>7

(* A promise that its client was told stays told.                              *)
LEMMA ServedTold ==
    ASSUME TypeInv, NEW v \in Workers, Serving(v), NEW c \in Clients, NEW s, Told(c, s)
    PROVE  Told(c, s)'
<1>1. UNCHANGED <<ask, own, ownConn, queue>>
  BY DEF Serving
<1>2. ~(Answers(v) /\ Owner(v) = c /\ job[v].conn = s.conn)
  BY DEF Told, Answers
<1>3. Agree(c, s.conn, s.id, s.key)'
  <2>1. ask[c].conn = s.conn /\ inbox'[c].kind = "reply" => inbox'[c] = inbox[c]
    BY <1>2 DEF Serving
  <2>2. QED
    BY <1>1, <2>1 DEF Agree, Told
<1>4. ASSUME NEW w \in Workers, Owner(w)' = c, job'[w].conn = s.conn
      PROVE  pc'[w] \in {"close", "idle"}
  BY <1>4 DEF Told, Serving, SameOf, Owner
<1>5. QED
  BY <1>1, <1>3, <1>4 DEF Told

(* What a request settles, its client has been told.                           *)
LEMMA InsertTold ==
    ASSUME TypeInv, OnceInv, KnownInv, SentInv, NEW v \in Workers, Insert(v), NEW b
    PROVE  Told(Owner(v), [conn |-> job[v].conn, valid |-> b, id |-> node[v].seckeyID,
                           key |-> node[v].seckey])'
<1>1. /\ pc[v] = "insert" /\ Owner(v) \in Clients /\ Known(job[v]) /\ job[v].cmd = "consult"
  BY BusyRequests DEF Insert, KnownInv, TypeInv, StepInv, OnlyConsult
<1>2. Serving(v) /\ pc'[v] = "close" /\ UNCHANGED <<ask, own, ownConn, queue, job, node, inbox>>
  <2>1. pc \in [Workers -> Steps]
    BY DEF TypeInv, TypeOK
  <2>2. pc'[v] = "close"
    BY <2>1 DEF Insert, Goto
  <2>3. QED
    BY <2>2, ServingStep DEF Insert, clientVars
<1>3. Agree(Owner(v), job[v].conn, node[v].seckeyID, node[v].seckey)'
  <2>1. Agree(Owner(v), job[v].conn, node[v].seckeyID, node[v].seckey)
    BY <1>1 DEF SentInv, Storing
  <2>2. QED
    BY <1>2, <2>1 DEF Agree, Owner
<1>4. \A i \in DOMAIN queue : queue[i].client = Owner(v) => queue[i].conn # job[v].conn
  BY <1>1 DEF OnceInv, SameReq, Owner
<1>5. ASSUME NEW w \in Workers, Owner(w) = Owner(v), job[w].conn = job[v].conn
      PROVE  pc'[w] \in {"close", "idle"}
  <2>1. w = v \/ pc[w] = "idle"
    BY <1>1, <1>5 DEF OnceInv, SameReq, Owner
  <2>2. w # v => pc'[w] = pc[w]
    BY <1>2 DEF Serving, SameOf
  <2>3. QED
    BY <1>2, <2>1, <2>2
<1>6. job[v].conn <= ask[Owner(v)].conn
  BY <1>1 DEF Known, Owner
<1>7. UNCHANGED Owner(v) /\ \A w \in Workers : Owner(w)' = Owner(w)
  BY <1>2 DEF Owner
<1>8. QED
  BY <1>2, <1>3, <1>4, <1>5, <1>6, <1>7 DEF Told

(* A promise is made of what was told, or handed from the client to a worker   *)
(* or back.                                                                    *)
LEMMA ServedToldInv ==
    ASSUME TypeInv, OnceInv, KnownInv, SentInv, ToldInv, NEW v \in Workers,
           \/ CheckClient(v) \/ GetKeyID(v) \/ ConsultReply(v)
           \/ MatchSlot(v) \/ FreeSlot(v) \/ CopyIds(v) \/ CopyKey(v)
           \/ Retire(v) \/ Bump(v) \/ Insert(v)
           \/ LoadKey(v) \/ MarkRevoked(v) \/ Answer(v) \/ Close(v)
    PROVE  ToldInv'
<1>1. Serving(v)
  BY ServingStep
<1>2. settled \in [Clients -> Promises] /\ seen \in [Workers -> Promises]
  BY DEF TypeInv, TypeOK
<1>3. Owner(v) \in Clients
  BY <1>1, BusyRequests DEF Serving
<1>4. ASSUME NEW c \in Clients, NEW p \in Promises, p # Unsettled, Told(c, p)
      PROVE  Told(c, p)'
  BY <1>1, <1>4, ServedTold
<1>5. ASSUME NEW c \in Clients, settled'[c] # Unsettled PROVE Told(c, settled[c])'
  <2>1. CASE settled'[c] = settled[c]
    <3>1. settled[c] \in Promises /\ Told(c, settled[c])
      BY <1>2, <1>5, <2>1 DEF ToldInv
    <3>2. QED
      BY <1>4, <1>5, <2>1, <3>1 DEF Told
  <2>2. CASE Insert(v) /\ settled'[c] # settled[c]
    <3>1. c = Owner(v) /\ settled'[c] = [conn |-> job[v].conn, valid |-> TRUE,
                                         id |-> node[v].seckeyID, key |-> node[v].seckey]
      BY <1>2, <2>2 DEF Insert
    <3>2. UNCHANGED <<job, node>>
      BY <2>2 DEF Insert
    <3>3. QED
      BY <2>2, <3>1, <3>2, InsertTold DEF Told, Owner
  <2>3. CASE Retire(v) /\ settled'[c] # settled[c]
    <3>1. c = Owner(v) /\ seen[v] # Unsettled /\ settled'[c] = [seen[v] EXCEPT !.valid = FALSE]
      BY <1>2, <2>3 DEF Retire
    <3>2. seen[v] \in Promises /\ Told(c, seen[v])
      BY <1>2, <3>1 DEF ToldInv
    <3>3. /\ settled'[c].conn = seen[v].conn /\ settled'[c].id = seen[v].id
          /\ settled'[c].key = seen[v].key
      BY <3>1, <3>2 DEF Promises
    <3>4. QED
      BY <1>4, <3>1, <3>2, <3>3 DEF Told
  <2>4. CASE ~Insert(v) /\ ~Retire(v)
    <3>1. CheckClient(v) \/ GetKeyID(v) => settled'[c] \in {settled[c], Unsettled}
      BY <1>2 DEF CheckClient, GetKeyID
    <3>2. ~CheckClient(v) /\ ~GetKeyID(v) => settled' = settled
      BY <2>4 DEF ConsultReply, MatchSlot, FreeSlot, CopyIds, CopyKey, Bump, LoadKey, MarkRevoked,
         Answer, Close, keyVars
    <3>3. QED
      BY <1>5, <2>1, <2>4, <3>1, <3>2
  <2>5. QED
    BY <2>1, <2>2, <2>3, <2>4
<1>6. ASSUME NEW w \in Workers, seen'[w] # Unsettled
      PROVE  pc'[w] # "idle" /\ Told(Owner(w), seen[w])'
  <2>1. ASSUME seen'[w] = seen[w], pc'[w] # "idle" PROVE Told(Owner(w), seen[w])'
    <3>1. /\ Told(Owner(w), seen[w]) /\ Owner(w) \in Clients /\ seen[w] \in Promises
          /\ Owner(w)' = Owner(w)
      BY <1>1, <1>2, <1>6, <2>1, BusyRequests DEF ToldInv, Serving, SameOf, Owner
    <3>2. QED
      BY <1>4, <1>6, <2>1, <3>1 DEF Told
  <2>2. CASE w # v
    <3>1. seen'[w] = seen[w] /\ pc'[w] = pc[w]
      BY <1>1, <2>2 DEF Serving, SameOf
    <3>2. QED
      BY <1>6, <2>1, <3>1 DEF ToldInv
  <2>3. CASE w = v /\ CheckClient(v)
    <3>1. pc'[v] # "idle" /\ job' = job
      BY <2>3 DEF CheckClient, Goto, TypeInv, TypeOK
    <3>2. seen'[v] \in {seen[v], settled[Owner(v)]}
      BY <1>2, <2>3 DEF CheckClient
    <3>3. CASE seen'[v] = settled[Owner(v)]
      <4>1. Told(Owner(v), settled[Owner(v)]) /\ settled[Owner(v)] \in Promises
        BY <1>2, <1>3, <1>6, <2>3, <3>3 DEF ToldInv
      <4>2. Owner(v)' = Owner(v)
        BY <3>1 DEF Owner
      <4>3. QED
        BY <1>3, <1>4, <1>6, <2>3, <3>1, <3>3, <4>1, <4>2 DEF Told
    <3>4. QED
      BY <2>1, <2>3, <3>1, <3>2, <3>3
  <2>4. CASE w = v /\ Close(v)
    BY <1>2, <1>6, <2>4 DEF Close
  <2>5. CASE w = v /\ ~CheckClient(v) /\ ~Close(v)
    <3>1. seen' = seen
      BY <2>5 DEF GetKeyID, ConsultReply, MatchSlot, FreeSlot, CopyIds, CopyKey, Retire, Bump,
         Insert, LoadKey, MarkRevoked, Answer, keyVars
    <3>2. pc'[v] # "idle"
      <4>1. pc \in [Workers -> Steps] /\ pc[v] # "idle"
        BY <1>1 DEF TypeInv, TypeOK, Serving
      <4>2. CASE MatchSlot(v)
        BY <4>1, <4>2 DEF MatchSlot, Goto, TypeInv, StepInv, Requests, Jobs
      <4>3. CASE Retire(v)
        BY <4>1, <4>3 DEF Retire, Goto
      <4>4. CASE GetKeyID(v) \/ ConsultReply(v) \/ FreeSlot(v) \/ LoadKey(v)
        BY <4>1, <4>4 DEF GetKeyID, ConsultReply, FreeSlot, LoadKey, Goto
      <4>5. CASE CopyIds(v) \/ CopyKey(v) \/ Bump(v) \/ Insert(v) \/ MarkRevoked(v) \/ Answer(v)
        BY <4>1, <4>5 DEF CopyIds, CopyKey, Bump, Insert, MarkRevoked, Answer, Goto
      <4>6. QED
        BY <2>5, <4>2, <4>3, <4>4, <4>5
    <3>3. QED
      BY <2>1, <2>5, <3>1, <3>2
  <2>6. QED
    BY <2>2, <2>3, <2>4, <2>5
<1>7. QED
  BY <1>5, <1>6 DEF ToldInv
-----------------------------------------------------------------------------
(* The other steps: a request is taken, the process dies, a client acts. *)

(* The request moves from the queue to the worker.                             *)
LEMMA TakeAgree ==
    ASSUME TypeInv, AgreeInv, NEW v \in Workers, Take(v)
    PROVE  AgreeInv'
<1>1. /\ pc[v] = "idle" /\ pc'[v] = "client" /\ job'[v] = queue[1] /\ 1 \in DOMAIN queue
      /\ \A u \in Workers \ {v} : SameOf(u)
      /\ UNCHANGED <<ask, inbox, own, ownConn, node, settled, seen>>
  <2>1. pc \in [Workers -> Steps] /\ job \in [Workers -> Jobs]
    BY DEF TypeInv, TypeOK
  <2>2. queue # <<>> /\ queue \in Seq(Requests) /\ job'[v] = Head(queue) /\ pc'[v] = "client"
    BY <2>1 DEF Take, Goto, TypeInv
  <2>3. Head(queue) = queue[1] /\ 1 \in DOMAIN queue
    BY <2>2
  <2>4. \A u \in Workers \ {v} : SameOf(u)
    BY OthersSame
  <2>5. QED
    BY <2>2, <2>3, <2>4 DEF Take, clientVars, keyVars
<1>2. /\ DOMAIN queue = 1..Len(queue) /\ Len(queue) \in Nat
      /\ DOMAIN queue' = 1..(Len(queue) - 1)
      /\ \A i \in DOMAIN queue' : i + 1 \in DOMAIN queue /\ i + 1 # 1 /\ queue'[i] = queue[i + 1]
  <2>1. queue # <<>> /\ queue \in Seq(Requests) /\ queue' = Tail(queue)
    BY DEF Take, TypeInv
  <2>2. QED
    BY <2>1
<1>3. OnceInv'
  <2>1. \A i, k \in DOMAIN queue' : i # k => ~SameReq(queue'[i], queue'[k])
    BY <1>2 DEF AgreeInv, OnceInv
  <2>2. \A i \in DOMAIN queue', w \in Workers : pc'[w] # "idle" => ~SameReq(queue'[i], job'[w])
    BY <1>1, <1>2 DEF AgreeInv, OnceInv, SameOf
  <2>3. \A u, w \in Workers : u # w /\ pc'[u] # "idle" /\ pc'[w] # "idle"
                              => ~SameReq(job'[u], job'[w])
    BY <1>1 DEF AgreeInv, OnceInv, SameOf, SameReq
  <2>4. QED
    BY <2>1, <2>2, <2>3 DEF OnceInv, SameReq
<1>4. \A j : (Known(j) => Known(j)') /\ (Unanswered(j) => Unanswered(j)')
  BY <1>1 DEF Known, Unanswered
<1>5. KnownInv'
  <2>1. \A i \in DOMAIN queue' : Known(queue[i])' /\ Unanswered(queue[i])'
    BY <1>1, <1>2 DEF AgreeInv, KnownInv, Known, Unanswered
  <2>2. \A w \in Workers : pc'[w] # "idle" =>
          Known(job[w])' /\ (pc'[w] \in {"client", "getid", "consultreply"} => Unanswered(job[w])')
    BY <1>1 DEF AgreeInv, KnownInv, Known, Unanswered, SameOf
  <2>3. QED
    BY <1>1, <2>1, <2>2 DEF AgreeInv, KnownInv
<1>6. OwnInv'
  BY <1>1 DEF AgreeInv, OwnInv
<1>7. SentInv'
  BY <1>1 DEF AgreeInv, SentInv, Storing, SameOf, Agree, Owner
<1>8. ASSUME NEW c, NEW p, Told(c, p) PROVE Told(c, p)'
  <2>1. \A i \in DOMAIN queue' : queue'[i].client = c => queue'[i].conn # p.conn
    BY <1>2, <1>8 DEF Told
  <2>2. \A w \in Workers : Owner(w)' = c /\ job'[w].conn = p.conn => pc'[w] \in {"close", "idle"}
    BY <1>1, <1>8 DEF Told, SameOf, Owner
  <2>3. QED
    BY <1>1, <1>8, <2>1, <2>2 DEF Told, Agree
<1>9. ToldInv'
  <2>1. ASSUME NEW c \in Clients, settled'[c] # Unsettled PROVE Told(c, settled[c])'
    <3>1. Told(c, settled[c])
      BY <1>1, <2>1 DEF AgreeInv, ToldInv
    <3>2. \A p : Told(c, p) => Told(c, p)'
      BY <1>8
    <3>3. settled'[c] = settled[c]
      BY <1>1
    <3>4. QED
      BY <3>1, <3>2, <3>3 DEF Told
  <2>2. ASSUME NEW w \in Workers, seen'[w] # Unsettled
        PROVE  pc'[w] # "idle" /\ Told(Owner(w), seen[w])'
    <3>1. pc[w] # "idle" /\ Told(Owner(w), seen[w])
      BY <1>1, <2>2 DEF AgreeInv, ToldInv
    <3>2. w # v /\ pc'[w] = pc[w] /\ Owner(w)' = Owner(w) /\ seen'[w] = seen[w]
      BY <1>1, <3>1 DEF SameOf, Owner
    <3>3. \A c, p : Told(c, p) => Told(c, p)'
      BY <1>8
    <3>4. QED
      BY <3>1, <3>2, <3>3 DEF Told
  <2>3. QED
    BY <2>1, <2>2 DEF ToldInv
<1>10. QED
  BY <1>3, <1>5, <1>6, <1>7, <1>9 DEF AgreeInv

(* Requests and workers are gone; what clients were told is not.               *)
LEMMA DieAgree ==
    ASSUME TypeInv, AgreeInv, Die
    PROVE  AgreeInv'
<1>1. /\ \A w \in Workers : pc'[w] = "idle" /\ seen'[w] = Unsettled
      /\ queue' = <<>> /\ UNCHANGED <<ask, own, ownConn, settled>>
  BY DEF Die
<1>2. \A c \in Clients : inbox'[c].kind = "reply" => inbox'[c] = inbox[c]
  <2>1. \A c \in Clients : inbox'[c] = inbox[c] \/ inbox'[c] = Closed
    BY DEF Die
  <2>2. QED
    BY <2>1 DEF Closed
<1>3. DOMAIN queue' = {}
  BY <1>1
<1>4. OnceInv' /\ KnownInv' /\ OwnInv' /\ SentInv'
  BY <1>1, <1>3 DEF AgreeInv, OnceInv, KnownInv, OwnInv, SentInv, Storing
<1>5. \A c \in Clients : settled'[c] # Unsettled => Told(c, settled[c])'
  BY <1>1, <1>2, <1>3 DEF AgreeInv, ToldInv, Told, Agree
<1>6. QED
  BY <1>1, <1>4, <1>5 DEF AgreeInv, ToldInv

(* What a client and the administrator leave alone.                            *)
Quiet == UNCHANGED <<pc, job, slot, node, settled, seen>>

(* A new request has a number beyond all that its client used, so nothing that *)
(* is known about the earlier ones is touched.                                 *)
Sending(c, r) ==
    /\ r \in Requests /\ r.client = c /\ r.conn = ask[c].conn + 1
    /\ ask' = [ask EXCEPT ![c] = r]
    /\ \E m \in Msgs : m.kind # "reply" /\ inbox' = [inbox EXCEPT ![c] = m]
    /\ queue' = queue \/ queue' = Append(queue, r)
    /\ UNCHANGED <<own, ownConn>> /\ Quiet

(* The three requests are of that form.                                        *)
LEMMA SendStep ==
    ASSUME TypeInv, NEW c \in Clients, SendConsult(c) \/ SendCheck(c) \/ SendCancel(c)
    PROVE  \E r : Sending(c, r)
<1>1. ASSUME NEW r \in Requests, r.client = c, r.conn = ask[c].conn + 1, Send(c, r)
      PROVE  Sending(c, r)
  <2>1. NoReply.kind # "reply" /\ Closed.kind # "reply"
    BY DEF NoReply, Closed
  <2>2. QED
    BY <1>1, <2>1, ZeroTyped DEF Send, Sending, Quiet, workerVars, keyVars
<1>2. \A cmd \in {"consult", "check", "cancel"} :
          /\ Request(c, cmd) \in Requests /\ Request(c, cmd).client = c
          /\ Request(c, cmd).conn = ask[c].conn + 1
  BY RequestTyped DEF Request, ZeroJob
<1>3. CASE SendConsult(c)
  <2>1. PICK intact \in BOOLEAN :
            Send(c, [Request(c, "consult") EXCEPT !.r1 = nonce[c] + 1, !.intact = intact])
    BY <1>3 DEF SendConsult
  <2>2. nonce[c] + 1 \in Nat
    BY DEF TypeInv, TypeOK
  <2>3. QED
    BY <1>1, <1>2, <2>1, <2>2 DEF Requests, Jobs
<1>4. CASE SendCheck(c)
  <2>1. Entry(own[c], c).seckey \in Keys
    <3>1. own[c] \in [ClientSlots -> TableNodes] /\ ClientSlots \in SUBSET Nat
      BY DEF TypeInv, TypeOK, ClientSlots
    <3>2. Entry(own[c], c) \in TableNodes
      BY <3>1, EntryInTable, ZeroTyped
    <3>3. QED
      BY <3>2 DEF TableNodes
  <2>2. QED
    BY <1>1, <1>2, <1>4, <2>1 DEF SendCheck, Requests, Jobs
<1>5. CASE SendCancel(c)
  BY <1>1, <1>2, <1>5 DEF SendCancel
<1>6. QED
  BY <1>3, <1>4, <1>5

(* A new request disturbs nothing that is known about the others.              *)
LEMMA SendAgree ==
    ASSUME TypeInv, AgreeInv, NEW c \in Clients, NEW r, Sending(c, r)
    PROVE  AgreeInv'
<1>1. /\ UNCHANGED <<own, ownConn, pc, job, node, settled, seen>>
      /\ \A w \in Workers : Owner(w)' = Owner(w)
  BY DEF Sending, Quiet, Owner
<1>2. /\ \A b \in Clients : ask[b].conn \in Nat /\ ownConn[b] \in Nat
      /\ \A i \in DOMAIN queue : queue[i] \in Requests /\ queue[i].conn \in Nat
      /\ \A w \in Workers : job[w].conn \in Nat
      /\ \A b \in Clients \ {c} : ask'[b] = ask[b] /\ inbox'[b] = inbox[b]
      /\ ask'[c] = r /\ inbox'[c].kind # "reply"
  BY BusyRequests DEF Sending, TypeInv, TypeOK, Requests, Jobs
<1>3. ASSUME NEW j \in Requests, Known(j)
      PROVE  Known(j)' /\ (Unanswered(j) => Unanswered(j)') /\ ~SameReq(j, r)
  <2>1. j.conn \in Nat /\ j.client \in Clients
    BY DEF Requests, Jobs
  <2>2. QED
    BY <1>1, <1>2, <1>3, <2>1 DEF Known, Unanswered, SameReq, Sending
<1>4. Known(r)' /\ Unanswered(r)'
  BY <1>1, <1>2 DEF Known, Unanswered, Sending, AgreeInv, KnownInv
<1>5. /\ DOMAIN queue \subseteq DOMAIN queue'
      /\ \A i \in DOMAIN queue : queue'[i] = queue[i]
      /\ \A i \in DOMAIN queue' \ DOMAIN queue : queue'[i] = r /\ i = Len(queue) + 1
  <2>1. queue \in Seq(Requests) /\ (queue' = queue \/ queue' = Append(queue, r))
    BY DEF TypeInv, Sending
  <2>2. QED
    BY <2>1
<1>6. OnceInv'
  <2>1. \A i \in DOMAIN queue : ~SameReq(queue[i], r) /\ ~SameReq(r, queue[i])
    BY <1>2, <1>3 DEF AgreeInv, KnownInv, SameReq
  <2>2. \A w \in Workers : pc[w] # "idle" => ~SameReq(r, job[w])
    BY <1>3, BusyRequests DEF AgreeInv, KnownInv, SameReq
  <2>3. \A i, k \in DOMAIN queue' : i # k => ~SameReq(queue'[i], queue'[k])
    BY <1>5, <2>1 DEF AgreeInv, OnceInv
  <2>4. \A i \in DOMAIN queue', w \in Workers : pc[w] # "idle" => ~SameReq(queue'[i], job[w])
    BY <1>5, <2>2 DEF AgreeInv, OnceInv
  <2>5. QED
    BY <1>1, <2>3, <2>4 DEF AgreeInv, OnceInv, SameReq
<1>7. KnownInv'
  <2>1. \A b \in Clients : ownConn'[b] <= ask'[b].conn
    BY <1>1, <1>2 DEF AgreeInv, KnownInv, Sending
  <2>2. ASSUME NEW i \in DOMAIN queue' PROVE Known(queue[i])' /\ Unanswered(queue[i])'
    <3>1. CASE i \in DOMAIN queue
      BY <1>2, <1>3, <1>5, <3>1 DEF AgreeInv, KnownInv, Known, Unanswered
    <3>2. CASE i \notin DOMAIN queue
      BY <1>4, <1>5, <3>2 DEF Known, Unanswered
    <3>3. QED
      BY <3>1, <3>2
  <2>3. \A w \in Workers : pc[w] # "idle" =>
          Known(job[w])' /\ (pc[w] \in {"client", "getid", "consultreply"} => Unanswered(job[w])')
    BY <1>1, <1>3, BusyRequests DEF AgreeInv, KnownInv, Known, Unanswered
  <2>4. QED
    BY <1>1, <2>1, <2>2, <2>3 DEF KnownInv
<1>8. OwnInv'
  BY <1>1 DEF AgreeInv, OwnInv
<1>9. ASSUME NEW b \in Clients, NEW n \in Nat, n <= ask[b].conn, NEW id, NEW key, Agree(b, n, id, key)
      PROVE  Agree(b, n, id, key)' /\ n <= ask'[b].conn /\ (b = c => n # r.conn)
  BY <1>1, <1>2, <1>9 DEF Agree, Sending
<1>10. SentInv'
  <2>1. ASSUME NEW w \in Workers, job[w].cmd = "consult", pc[w] \in Storing
        PROVE  Agree(Owner(w), job[w].conn, node[w].seckeyID, node[w].seckey)'
    <3>1. /\ Agree(Owner(w), job[w].conn, node[w].seckeyID, node[w].seckey)
          /\ Owner(w) \in Clients /\ job[w].conn <= ask[Owner(w)].conn
      BY <2>1, BusyRequests DEF AgreeInv, SentInv, KnownInv, Known, Owner, Storing
    <3>2. job[w].conn \in Nat
      BY <1>2
    <3>3. job[w].conn # ask'[Owner(w)].conn \/ Owner(w) # c
      BY <1>2, <3>1, <3>2 DEF Sending
    <3>4. QED
      BY <1>1, <1>2, <3>1, <3>3 DEF Agree, Owner
  <2>2. QED
    BY <1>1, <2>1 DEF SentInv
<1>11. ASSUME NEW b \in Clients, NEW p \in Promises \ {Unsettled}, Told(b, p) PROVE Told(b, p)'
  <2>1. p.conn \in Nat
    BY DEF Promises
  <2>2. Agree(b, p.conn, p.id, p.key)' /\ p.conn <= ask'[b].conn /\ (b = c => p.conn # r.conn)
    BY <1>9, <1>11, <2>1 DEF Told
  <2>3. \A i \in DOMAIN queue' : queue'[i].client = b => queue'[i].conn # p.conn
    BY <1>5, <1>11, <2>2 DEF Told, Sending
  <2>4. QED
    BY <1>1, <1>11, <2>2, <2>3 DEF Told
<1>12. ToldInv'
  <2>1. settled \in [Clients -> Promises] /\ seen \in [Workers -> Promises]
    BY DEF TypeInv, TypeOK
  <2>2. \A b \in Clients : settled'[b] # Unsettled => Told(b, settled[b])'
    BY <1>1, <1>11, <2>1 DEF AgreeInv, ToldInv, Told
  <2>3. \A w \in Workers : seen'[w] # Unsettled => pc'[w] # "idle" /\ Told(Owner(w), seen[w])'
    BY <1>1, <1>11, <2>1, BusyRequests DEF AgreeInv, ToldInv, Told
  <2>4. QED
    BY <2>2, <2>3 DEF ToldInv
<1>13. QED
  BY <1>6, <1>7, <1>8, <1>10, <1>12 DEF AgreeInv

(* The wait of client c ends, and what it takes from its inbox is gone.  If    *)
(* that was the answer of a consult, its own table has the key now.            *)
Returning(c) ==
    /\ \E m \in Msgs : m.kind # "reply" /\ inbox' = [inbox EXCEPT ![c] = m]
    /\ UNCHANGED <<ask, queue>> /\ Quiet
    /\ \/ UNCHANGED <<own, ownConn>>
       \/ /\ inbox[c].kind = "reply"
          /\ own' = [own EXCEPT ![c][1] = [status |-> 0, seckeyID |-> inbox[c].id, owner |-> c,
                                          seckey |-> <<ask[c].r1, inbox[c].r2>>]]
          /\ ownConn' = [ownConn EXCEPT ![c] = ask[c].conn]

(* The client's table has one slot, which is its own or free.                  *)
LEMMA OwnWritten ==
    ASSUME TypeInv, OwnInv, NEW c \in Clients, NEW n, n.owner = c
    PROVE  WriteMemory(own[c], n) = [own[c] EXCEPT ![1] = n]
<1>1. DOMAIN own[c] = {1}
  BY DEF TypeInv, TypeOK, ClientSlots
<1>2. WriteSlots(own[c], c) = {1}
  <2>1. own[c][1] = ZeroNode \/ own[c][1].owner = c
    BY DEF OwnInv
  <2>2. CASE own[c][1].owner = c
    BY <1>1, <2>2 DEF WriteSlots, Holds, MatchSlots
  <2>3. CASE own[c][1].owner # c /\ own[c][1] = ZeroNode
    <3>1. MatchSlots(own[c], c) = {} /\ FreeSlots(own[c]) = {1}
      BY <1>1, <2>3 DEF MatchSlots, FreeSlots
    <3>2. QED
      BY <3>1 DEF WriteSlots, Holds
  <2>4. QED
    BY <2>1, <2>2, <2>3
<1>3. FirstOf({1}) = 1
  BY DEF FirstOf
<1>4. QED
  BY <1>2, <1>3 DEF WriteMemory

(* The four ends of a wait are of that form.                                   *)
LEMMA ReturnStep ==
    ASSUME TypeInv, OwnInv, NEW c \in Clients, Receive(c) \/ Fail(c) \/ GiveUp(c) \/ RestartClient(c)
    PROVE  Returning(c)
<1>1. NoReply \in Msgs /\ NoReply.kind # "reply"
  BY ZeroTyped DEF NoReply
<1>2. CASE Fail(c) \/ GiveUp(c) \/ RestartClient(c)
  BY <1>1, <1>2 DEF Fail, GiveUp, RestartClient, Returning, Quiet, workerVars, keyVars
<1>3. CASE Receive(c)
  <2>1. /\ inbox[c].kind = "reply" /\ inbox' = [inbox EXCEPT ![c] = NoReply]
        /\ UNCHANGED <<ask, queue>> /\ Quiet
    BY <1>3 DEF Receive, Quiet, workerVars, keyVars
  <2> DEFINE new == [status |-> 0, seckeyID |-> inbox[c].id, owner |-> c, seckey |-> ClientKey(c)]
  <2>2. \/ UNCHANGED <<own, ownConn>>
        \/ /\ own' = [own EXCEPT ![c] = WriteMemory(own[c], new)]
           /\ ownConn' = [ownConn EXCEPT ![c] = ask[c].conn]
    BY <1>3 DEF Receive
  <2>3. WriteMemory(own[c], new) = [own[c] EXCEPT ![1] = new]
    BY OwnWritten
  <2>4. QED
    BY <1>1, <2>1, <2>2, <2>3 DEF Returning, ClientKey
<1>4. QED
  BY <1>2, <1>3

(* What a client takes from its inbox was agreed on there, and is in its own   *)
(* table.                                                                      *)
LEMMA ReturnAgree ==
    ASSUME TypeInv, AgreeInv, NEW c \in Clients, Returning(c)
    PROVE  AgreeInv'
<1>1. /\ UNCHANGED <<ask, queue, pc, job, node, settled, seen>>
      /\ \A w \in Workers : Owner(w)' = Owner(w)
  BY DEF Returning, Quiet, Owner
<1>2. own \in [Clients -> [{1} -> TableNodes]] /\ ownConn \in [Clients -> Nat]
      /\ inbox \in [Clients -> Msgs]
  BY DEF TypeInv, TypeOK, ClientSlots
<1>3. /\ inbox'[c].kind # "reply"
      /\ \A b \in Clients \ {c} : inbox'[b] = inbox[b] /\ own'[b] = own[b] /\ ownConn'[b] = ownConn[b]
      /\ \/ own'[c] = own[c] /\ ownConn'[c] = ownConn[c]
         \/ /\ inbox[c].kind = "reply" /\ ownConn'[c] = ask[c].conn
            /\ own'[c][1] = [status |-> 0, seckeyID |-> inbox[c].id, owner |-> c,
                             seckey |-> <<ask[c].r1, inbox[c].r2>>]
  BY <1>2 DEF Returning
<1>4. OnceInv'
  BY <1>1 DEF AgreeInv, OnceInv
<1>5. ASSUME NEW j \in Requests, Known(j)
      PROVE  Known(j)' /\ (Unanswered(j) => Unanswered(j)')
  <2>1. j.client \in Clients
    BY DEF Requests, Jobs
  <2>2. QED
    BY <1>1, <1>3, <1>5, <2>1 DEF Known, Unanswered
<1>6. KnownInv'
  <2>1. \A b \in Clients : ownConn'[b] <= ask'[b].conn
    <3>1. \A b \in Clients : ask[b].conn \in Nat
      BY DEF TypeInv, TypeOK, Jobs
    <3>2. QED
      BY <1>1, <1>3, <3>1 DEF AgreeInv, KnownInv
  <2>2. \A i \in DOMAIN queue : Known(queue[i])' /\ Unanswered(queue[i])'
    BY <1>1, <1>5, BusyRequests DEF AgreeInv, KnownInv, Known, Unanswered
  <2>3. \A w \in Workers : pc[w] # "idle" =>
          Known(job[w])' /\ (pc[w] \in {"client", "getid", "consultreply"} => Unanswered(job[w])')
    BY <1>1, <1>5, BusyRequests DEF AgreeInv, KnownInv, Known, Unanswered
  <2>4. QED
    BY <1>1, <2>1, <2>2, <2>3 DEF KnownInv
<1>7. OwnInv'
  BY <1>3 DEF AgreeInv, OwnInv
<1>8. ASSUME NEW b \in Clients, NEW n, NEW id, NEW key, Agree(b, n, id, key)
      PROVE  Agree(b, n, id, key)'
  BY <1>1, <1>3, <1>8 DEF Agree
<1>9. SentInv'
  <2>1. ASSUME NEW w \in Workers, job[w].cmd = "consult", pc[w] \in Storing
        PROVE  Agree(Owner(w), job[w].conn, node[w].seckeyID, node[w].seckey)'
    <3>1. /\ Agree(Owner(w), job[w].conn, node[w].seckeyID, node[w].seckey)
          /\ Owner(w) \in Clients
      BY <2>1, BusyRequests DEF AgreeInv, SentInv, Storing
    <3>2. QED
      BY <1>1, <1>3, <3>1 DEF Agree
  <2>2. QED
    BY <1>1, <2>1 DEF SentInv
<1>10. ASSUME NEW b \in Clients, NEW p, Told(b, p) PROVE Told(b, p)'
  BY <1>1, <1>8, <1>10 DEF Told
<1>11. ToldInv'
  <2>1. \A b \in Clients : \A p : Told(b, p) => Told(b, p)'
    BY <1>10
  <2>2. \A b \in Clients : settled'[b] # Unsettled => Told(b, settled[b])'
    BY <1>1, <2>1 DEF AgreeInv, ToldInv, Told
  <2>3. \A w \in Workers : seen'[w] # Unsettled => pc'[w] # "idle" /\ Told(Owner(w), seen[w])'
    BY <1>1, <2>1, BusyRequests DEF AgreeInv, ToldInv, Told
  <2>4. QED
    BY <2>2, <2>3 DEF ToldInv
<1>12. QED
  BY <1>4, <1>6, <1>7, <1>9, <1>11 DEF AgreeInv

(* Steps of the administrator and of starting the server.                      *)
LEMMA IdleAgree ==
    ASSUME AgreeInv, UNCHANGED <<ask, inbox, own, ownConn, queue, pc, job, node, settled, seen>>
    PROVE  AgreeInv'
<1>1. OnceInv' /\ KnownInv' /\ OwnInv'
  BY DEF AgreeInv, OnceInv, SameReq, KnownInv, Known, Unanswered, OwnInv
<1>2. SentInv'
  BY DEF AgreeInv, SentInv, Agree, Owner
<1>3. ToldInv'
  BY DEF AgreeInv, ToldInv, Told, Agree, Owner
<1>4. QED
  BY <1>1, <1>2, <1>3 DEF AgreeInv

(* Every request is in one place, what was answered is what is stored, and     *)
(* what is settled was told.                                                   *)
THEOREM KeyServiceAnswers == Spec => []AgreeInv
<1>1. TypeInv /\ Init => AgreeInv
  <2> SUFFICES ASSUME TypeInv, Init PROVE AgreeInv
    OBVIOUS
  <2>1. DOMAIN queue = {} /\ \A w \in Workers : pc[w] = "idle" /\ seen[w] = Unsettled
    BY DEF Init
  <2>2. \A c \in Clients : ownConn[c] = 0 /\ ask[c].conn = 0 /\ own[c][1] = ZeroNode
    BY DEF Init, ZeroJob, ZeroTable, ClientSlots
  <2>3. \A c \in Clients : settled[c] = Unsettled
    BY DEF Init
  <2>4. QED
    BY <2>1, <2>2, <2>3 DEF AgreeInv, OnceInv, KnownInv, OwnInv, SentInv, ToldInv, Storing
<1>2. TypeInv /\ AgreeInv /\ [Next]_vars => AgreeInv'
  <2> SUFFICES ASSUME TypeInv, AgreeInv, [Next]_vars PROVE AgreeInv'
    OBVIOUS
  <2>1. ASSUME UNCHANGED <<clientVars, queue, workerVars, keyVars>> PROVE AgreeInv'
    BY <2>1, IdleAgree DEF clientVars, workerVars, keyVars
  <2>2. CASE UNCHANGED vars
    BY <2>1, <2>2 DEF vars
  <2>3. CASE \E c \in Clients : ClientStep(c) \/ EditClients(c)
    <3>1. PICK c \in Clients : ClientStep(c) \/ EditClients(c)
      BY <2>3
    <3>2. CASE SendConsult(c) \/ SendCheck(c) \/ SendCancel(c)
      BY <3>2, SendStep, SendAgree
    <3>3. CASE Receive(c) \/ Fail(c) \/ GiveUp(c) \/ RestartClient(c)
      BY <3>3, ReturnStep, ReturnAgree DEF AgreeInv
    <3>4. CASE EditClients(c)
      BY <2>1, <3>4 DEF EditClients
    <3>5. QED
      BY <3>1, <3>2, <3>3, <3>4 DEF ClientStep
  <2>4. CASE \E w \in Workers : Take(w) \/ WorkerStep(w)
    <3>1. PICK w \in Workers : Take(w) \/ WorkerStep(w)
      BY <2>4
    <3>2. CASE Take(w)
      BY <3>2, TakeAgree
    <3>3. CASE CheckUnknownClient(w)
      BY <3>3, DieAgree DEF CheckUnknownClient
    <3>4. CASE WorkerStep(w) /\ ~CheckUnknownClient(w)
      <4>1. Serving(w)
        BY <3>4, ServingStep DEF WorkerStep
      <4>2. OnceInv' /\ KnownInv'
        BY <4>1, ServedOnce, ServedKnown DEF AgreeInv
      <4>3. SentInv' /\ ToldInv'
        BY <3>4, ServedSent, ServedToldInv DEF WorkerStep, AgreeInv
      <4>4. OwnInv'
        BY <4>1 DEF AgreeInv, OwnInv, Serving
      <4>5. QED
        BY <4>2, <4>3, <4>4 DEF AgreeInv
    <3>5. QED
      BY <3>1, <3>2, <3>3, <3>4
  <2>5. CASE Crash
    BY <2>5, DieAgree DEF Crash
  <2>6. CASE Restart
    BY <2>1, <2>6 DEF Restart
  <2>7. QED
    BY <2>2, <2>3, <2>4, <2>5, <2>6 DEF Next, Step
<1>3. QED
  BY <1>1, <1>2, KeyServiceTyped, PTL DEF Spec

(* A client that took the answer of the request its settled key comes from has *)
(* the same key under the same number in its own table: ClientKey on one side  *)
(* and Sec_Key_Consult on the other computed it from the same two strings.     *)
THEOREM KeyServiceAgrees == Spec => []BothSidesAgree
<1>1. TypeInv /\ AgreeInv => BothSidesAgree
  <2> SUFFICES ASSUME TypeInv, AgreeInv, NEW c \in Clients, settled[c] # Unsettled,
                      ownConn[c] = settled[c].conn
               PROVE  Entry(own[c], c) = [status |-> 0, seckeyID |-> settled[c].id, owner |-> c,
                                          seckey |-> settled[c].key]
    BY DEF BothSidesAgree
  <2>1. own[c][1] = [status |-> 0, seckeyID |-> settled[c].id, owner |-> c, seckey |-> settled[c].key]
    BY DEF AgreeInv, ToldInv, Told, Agree
  <2>2. DOMAIN own[c] = {1}
    BY DEF TypeInv, TypeOK, ClientSlots
  <2>3. MatchSlots(own[c], c) = {1}
    BY <2>1, <2>2 DEF MatchSlots
  <2>4. FirstOf({1}) = 1
    BY DEF FirstOf
  <2>5. QED
    BY <2>1, <2>3, <2>4 DEF Entry, Holds
<1>2. QED
  BY <1>1, KeyServiceTyped, KeyServiceAnswers, PTL
-----------------------------------------------------------------------------
(* A check of a settled key decides right, whatever other workers write into   *)
(* the table while it scans.                                                   *)

(* The promise of client c's request n: still made, or in the hands of a clean *)
(* cancellation.                                                               *)
Promised(c, n) ==
    \/ settled[c] # Unsettled /\ settled[c].conn = n
    \/ \E u \in clean : /\ job[u].cmd = "cancel" /\ Owner(u) = c
                        /\ pc[u] \in {"match", "mark", "retire"}
                        /\ seen[u] # Unsettled /\ seen[u].conn = n

(* While its key is promised, the scan of a check is not past its slot.        *)
CheckInv == \A w \in Workers :
    /\ job[w].cmd = "check" /\ pc[w] \in {"match", "load"}
    /\ seen[w] # Unsettled /\ Promised(Owner(w), seen[w].conn)
    => \E i \in Slots : /\ IsFirst(i, Owner(w))
                        /\ pc[w] = "match" => slot[w] <= i
                        /\ pc[w] = "load" => slot[w] = i
-----------------------------------------------------------------------------
(* A client has one first slot.                                                *)
LEMMA FirstIsOne ==
    ASSUME NEW c, NEW i \in Slots, NEW k \in Slots, IsFirst(i, c), IsFirst(k, c)
    PROVE  i = k
<1>1. i \in Nat /\ k \in Nat
  BY MaxNodeAssumption DEF Slots
<1>2. QED
  BY <1>1 DEF IsFirst, NoneBefore

(* While a key is promised, it stays in its client's first slot: whoever       *)
(* writes there is the clean cancellation, and that leaves the owner.          *)
LEMMA PromisedStays ==
    ASSUME TypeInv, KeptInv, NEW v \in Workers, Frame(v), NEW c \in Clients, NEW n,
           Promised(c, n), NEW i \in Slots, IsFirst(i, c)
    PROVE  IsFirst(i, c)'
<1>1. ASSUME i \notin Aims(v), Busy(v) => Owner(v) # c \/ Aims(v) = {}
      PROVE  IsFirst(i, c)'
  <2>1. table'[i] = table[i]
    BY <1>1 DEF Frame
  <2>2. \A j \in Slots : table[j].owner # c => table'[j].owner # c
    BY <1>1 DEF Frame
  <2>3. QED
    BY <2>1, <2>2 DEF IsFirst, NoneBefore
<1>2. CASE settled[c] # Unsettled
  <2>1. SettledFor(c)
    BY DEF KeptInv, SettledInv
  <2>2. i \notin Aims(v)
    BY <1>2, <2>1, FirstIsOne DEF SettledFor
  <2>3. Busy(v) /\ Owner(v) = c => Aims(v) = {}
    BY <1>2, <2>1 DEF SettledFor, Busy, Resting, Aims
  <2>4. QED
    BY <1>1, <2>2, <2>3
<1>3. ASSUME NEW u \in clean, job[u].cmd = "cancel", Owner(u) = c,
             pc[u] \in {"match", "mark", "retire"}, seen[u] # Unsettled
      PROVE  IsFirst(i, c)'
  <2>1. CancelAt(u) /\ u \in Workers
    BY <1>3 DEF KeptInv, CancelInv, TypeInv, TypeOK
  <2>2. /\ pc[u] = "match" => \A w \in Workers : i \notin Aims(w)
        /\ pc[u] # "match" => slot[u] = i
    BY <1>3, <2>1, FirstIsOne DEF CancelAt
  <2>3. pc[u] # "match" => Aims(u) = {i}
    BY <1>3, <2>2 DEF Aims, Slots
  <2>4. CASE u # v
    <3>1. Busy(v) => Owner(v) # c /\ Aims(v) \cap Aims(u) = {}
      BY <1>3, <2>4, CleanApart
    <3>2. CASE Busy(v)
      BY <1>1, <2>2, <2>3, <3>1, <3>2
    <3>3. CASE ~Busy(v)
      BY <3>3 DEF Frame, IsFirst, NoneBefore
    <3>4. QED
      BY <3>2, <3>3
  <2>5. CASE u = v
    <3>1. Aims(v) \subseteq {i}
      BY <1>3, <2>2, <2>3, <2>5 DEF Aims
    <3>2. table'[i].owner = c
      BY <1>3, <2>5 DEF Frame, IsFirst
    <3>3. \A j \in Slots : j # i => table'[j] = table[j]
      BY <3>1 DEF Frame
    <3>4. i \in Nat
      BY MaxNodeAssumption DEF Slots
    <3>5. QED
      BY <3>2, <3>3, <3>4 DEF IsFirst, NoneBefore
  <2>6. QED
    BY <2>4, <2>5
<1>4. QED
  BY <1>2, <1>3 DEF Promised

(* No step makes the promise of an old request again.                          *)
LEMMA PromisedBefore ==
    ASSUME TypeInv, CleanNext, NEW v \in Workers,
           \/ Take(v) \/ CheckClient(v) \/ GetKeyID(v) \/ ConsultReply(v)
           \/ MatchSlot(v) \/ FreeSlot(v) \/ CopyIds(v) \/ CopyKey(v)
           \/ Retire(v) \/ Bump(v) \/ Insert(v)
           \/ LoadKey(v) \/ MarkRevoked(v) \/ Answer(v) \/ Close(v),
           NEW c \in Clients, NEW p, Told(c, p), Promised(c, p.conn)'
    PROVE  Promised(c, p.conn)
<1>1. settled \in [Clients -> Promises] /\ seen \in [Workers -> Promises] /\ pc \in [Workers -> Steps]
  BY DEF TypeInv, TypeOK
<1>2. CASE settled'[c] # Unsettled /\ settled'[c].conn = p.conn
  <2>1. CASE settled'[c] = settled[c]
    BY <1>2, <2>1 DEF Promised
  <2>2. CASE Insert(v) /\ settled'[c] # settled[c]
    <3>1. c = Owner(v) /\ settled'[c].conn = job[v].conn /\ pc[v] = "insert"
      BY <1>1, <2>2 DEF Insert
    <3>2. QED
      BY <1>2, <3>1 DEF Told
  <2>3. CASE Retire(v) /\ settled'[c] # settled[c]
    <3>1. /\ c = Owner(v) /\ seen[v] # Unsettled /\ settled'[c] = [seen[v] EXCEPT !.valid = FALSE]
          /\ v \in clean /\ job[v].cmd = "cancel" /\ pc[v] = "retire"
      BY <1>1, <2>3 DEF Retire
    <3>2. seen[v].conn = p.conn
      BY <1>1, <1>2, <3>1 DEF Promises
    <3>3. QED
      BY <3>1, <3>2 DEF Promised
  <2>4. CASE ~Insert(v) /\ ~Retire(v)
    <3>1. CheckClient(v) \/ GetKeyID(v) => settled'[c] \in {settled[c], Unsettled}
      BY <1>1 DEF CheckClient, GetKeyID
    <3>2. ~CheckClient(v) /\ ~GetKeyID(v) => settled' = settled
      BY <2>4 DEF Take, ConsultReply, MatchSlot, FreeSlot, CopyIds, CopyKey, Bump, LoadKey,
         MarkRevoked, Answer, Close, keyVars
    <3>3. QED
      BY <1>2, <2>1, <2>4, <3>1, <3>2
  <2>5. QED
    BY <2>1, <2>2, <2>3, <2>4
<1>3. ASSUME NEW u \in clean', job'[u].cmd = "cancel", Owner(u)' = c,
             pc'[u] \in {"match", "mark", "retire"}, seen'[u] # Unsettled, seen'[u].conn = p.conn
      PROVE  Promised(c, p.conn)
  <2>1. u \in Workers /\ (u \in clean \/ pc[u] = "idle")
    BY CleanMember
  <2>2. ASSUME UNCHANGED <<job[u], seen[u]>>, pc[u] \in {"match", "mark", "retire"}
        PROVE  Promised(c, p.conn)
    BY <1>3, <2>1, <2>2 DEF Promised, Owner
  <2>3. CASE u # v
    <3>1. SameOf(u)
      BY <2>1, <2>3, OthersSame
    <3>2. QED
      BY <1>3, <2>2, <3>1 DEF SameOf
  <2>4. CASE u = v /\ CheckClient(v)
    <3>1. job' = job /\ seen'[v] = settled[Owner(v)]
      <4>1. pc'[v] = "match"
        BY <1>1, <1>3, <2>4 DEF CheckClient, Goto
      <4>2. QED
        BY <1>1, <2>4, <4>1 DEF CheckClient, Goto
    <3>2. QED
      BY <1>3, <2>4, <3>1 DEF Promised, Owner
  <2>5. CASE u = v /\ (MatchSlot(v) \/ MarkRevoked(v))
    BY <2>2, <2>5 DEF MatchSlot, MarkRevoked, keyVars
  <2>6. CASE u = v /\ ~CheckClient(v) /\ ~MatchSlot(v) /\ ~MarkRevoked(v)
    <3>1. CASE CopyIds(v) \/ CopyKey(v) \/ FreeSlot(v)
      <4>1. job[v].cmd = "consult" /\ job' = job
        BY <3>1 DEF CopyIds, CopyKey, FreeSlot, TypeInv, StepInv, OnlyConsult
      <4>2. QED
        BY <1>3, <2>6, <4>1
    <3>2. CASE ConsultReply(v) \/ GetKeyID(v)
      <4>1. job[v].cmd = "consult" /\ job' = job
        BY <3>2 DEF ConsultReply, GetKeyID, TypeInv, StepInv, OnlyConsult
      <4>2. QED
        BY <1>3, <2>6, <4>1
    <3>3. CASE Take(v) \/ LoadKey(v) \/ Answer(v) \/ Close(v)
      BY <1>1, <1>3, <2>6, <3>3 DEF Take, LoadKey, Answer, Close, Goto
    <3>4. CASE Retire(v) \/ Bump(v) \/ Insert(v)
      BY <1>1, <1>3, <2>6, <3>4 DEF Retire, Bump, Insert, Goto
    <3>5. QED
      BY <2>6, <3>1, <3>2, <3>3, <3>4
  <2>7. QED
    BY <2>3, <2>4, <2>5, <2>6
<1>4. QED
  BY <1>2, <1>3 DEF Promised

(* The check that scans is not past the slot of a promised key, whoever moves. *)
LEMMA CheckWorker ==
    ASSUME TypeInv, KeptInv, AgreeInv, CheckInv, CleanNext, NEW v \in Workers,
           \/ Take(v) \/ CheckClient(v) \/ GetKeyID(v) \/ ConsultReply(v)
           \/ MatchSlot(v) \/ FreeSlot(v) \/ CopyIds(v) \/ CopyKey(v)
           \/ Retire(v) \/ Bump(v) \/ Insert(v)
           \/ LoadKey(v) \/ MarkRevoked(v) \/ Answer(v) \/ Close(v)
    PROVE  CheckInv'
<1>1. Frame(v)
  BY StartFrame, ScanFrame, StoreFrame, StatementFrame DEF KeptInv
<1>2. SUFFICES ASSUME NEW w \in Workers, job'[w].cmd = "check", pc'[w] \in {"match", "load"},
                      seen'[w] # Unsettled, Promised(Owner(w), seen[w].conn)'
               PROVE  \E i \in Slots : /\ IsFirst(i, Owner(w))'
                                       /\ pc'[w] = "match" => slot'[w] <= i
                                       /\ pc'[w] = "load" => slot'[w] = i
  BY DEF CheckInv
<1>3. /\ pc \in [Workers -> Steps] /\ slot \in [Workers -> 0..MaxNode]
      /\ settled \in [Clients -> Promises] /\ seen \in [Workers -> Promises]
  BY DEF TypeInv, TypeOK
<1>4. ASSUME seen'[w] = seen[w], job'[w] = job[w], pc[w] \in {"match", "load"}
      PROVE  /\ Owner(w)' = Owner(w)
             /\ \E i \in Slots : /\ IsFirst(i, Owner(w)) /\ IsFirst(i, Owner(w))'
                                 /\ pc[w] = "match" => slot[w] <= i
                                 /\ pc[w] = "load" => slot[w] = i
  <2>1. Owner(w) \in Clients /\ Owner(w)' = Owner(w) /\ Told(Owner(w), seen[w])
    BY <1>2, <1>4, BusyRequests DEF AgreeInv, ToldInv, Owner
  <2>2. Promised(Owner(w), seen[w].conn)
    <3>1. \A c \in Clients : \A p : Told(c, p) /\ Promised(c, p.conn)' => Promised(c, p.conn)
      BY PromisedBefore
    <3>2. QED
      BY <1>2, <1>4, <2>1, <3>1 DEF Promised
  <2>3. PICK i \in Slots : /\ IsFirst(i, Owner(w))
                           /\ pc[w] = "match" => slot[w] <= i
                           /\ pc[w] = "load" => slot[w] = i
    BY <1>2, <1>4, <2>2 DEF CheckInv
  <2>4. IsFirst(i, Owner(w))'
    <3>1. \A c \in Clients : \A n : Promised(c, n) /\ IsFirst(i, c) => IsFirst(i, c)'
      BY <1>1, PromisedStays
    <3>2. QED
      BY <2>1, <2>2, <2>3, <3>1 DEF IsFirst, NoneBefore
  <2>5. QED
    BY <2>1, <2>3, <2>4
<1>5. CASE w # v
  <2>1. SameOf(w)
    BY <1>5, OthersSame
  <2>2. QED
    BY <1>2, <1>4, <2>1 DEF SameOf
<1>6. CASE w = v /\ CheckClient(v)
  <2>1. /\ job' = job /\ table' = table /\ pc'[v] = "match" /\ slot'[v] = 1
        /\ seen'[v] = settled[Owner(v)]
    <3>1. pc'[v] = "match" /\ job' = job /\ table' = table
      BY <1>2, <1>3, <1>6 DEF CheckClient, Goto
    <3>2. QED
      BY <1>3, <1>6, <3>1 DEF CheckClient, Goto
  <2>2. Owner(v) \in Clients /\ Owner(v)' = Owner(v)
    BY <1>6, <2>1, BusyRequests DEF CheckClient, Owner
  <2>3. SettledFor(Owner(v)) /\ settled[Owner(v)] # Unsettled
    BY <1>2, <1>6, <2>1, <2>2 DEF KeptInv, SettledInv
  <2>4. PICK i \in Slots : IsFirst(i, Owner(v))
    BY <2>3 DEF SettledFor
  <2>5. IsFirst(i, Owner(v))' /\ 1 <= i
    BY <2>1, <2>2, <2>4, MaxNodeAssumption DEF IsFirst, NoneBefore, Slots
  <2>6. QED
    BY <1>6, <2>1, <2>5
<1>7. CASE w = v /\ MatchSlot(v)
  <2>1. /\ pc[v] = "match" /\ job' = job /\ seen' = seen /\ job[v].cmd = "check"
        /\ slot[v] \in Slots
    BY <1>2, <1>7 DEF MatchSlot, keyVars, TypeInv, StepInv, AtASlot
  <2>2. PICK i \in Slots : IsFirst(i, Owner(v)) /\ IsFirst(i, Owner(v))' /\ slot[v] <= i
    BY <1>4, <1>7, <2>1
  <2>3. slot[v] \in Nat /\ i \in Nat /\ i <= MaxNode /\ MaxNode \in Nat
    BY <2>1, MaxNodeAssumption DEF Slots
  <2>4. CASE table[slot[v]].owner = Owner(v)
    <3>1. slot[v] = i
      BY <2>1, <2>2, <2>3, <2>4 DEF IsFirst, NoneBefore
    <3>2. pc'[v] = "load" /\ slot'[v] = slot[v]
      BY <1>3, <1>7, <2>1, <2>4 DEF MatchSlot, Goto
    <3>3. QED
      BY <1>7, <2>2, <3>1, <3>2
  <2>5. CASE table[slot[v]].owner # Owner(v)
    <3>1. slot[v] # i
      BY <2>2, <2>5 DEF IsFirst
    <3>2. slot[v] < LastSlot
      BY <2>2, <2>3, <3>1 DEF LastSlot
    <3>3. pc'[v] = "match" /\ slot'[v] = slot[v] + 1
      BY <1>3, <1>7, <2>1, <2>3, <2>5, <3>2 DEF MatchSlot, Goto, LastSlot
    <3>4. QED
      BY <1>7, <2>2, <2>3, <3>1, <3>3
  <2>6. QED
    BY <2>4, <2>5
<1>8. CASE w = v /\ ~CheckClient(v) /\ ~MatchSlot(v)
  <2>1. CASE \/ FreeSlot(v) \/ GetKeyID(v) \/ ConsultReply(v)
             \/ CopyIds(v) \/ CopyKey(v) \/ MarkRevoked(v)
    <3>1. job' = job /\ job[v].cmd # "check"
      BY <2>1 DEF FreeSlot, GetKeyID, ConsultReply, CopyIds, CopyKey, MarkRevoked, TypeInv,
         StepInv, OnlyConsult
    <3>2. QED
      BY <1>2, <1>8, <3>1
  <2>2. CASE Take(v) \/ LoadKey(v) \/ Answer(v) \/ Close(v)
    BY <1>2, <1>3, <1>8, <2>2 DEF Take, LoadKey, Answer, Close, Goto
  <2>3. CASE Retire(v) \/ Bump(v) \/ Insert(v)
    BY <1>2, <1>3, <1>8, <2>3 DEF Retire, Bump, Insert, Goto
  <2>4. QED
    BY <1>8, <2>1, <2>2, <2>3
<1>9. QED
  BY <1>5, <1>6, <1>7, <1>8

(* Steps of the clients, the administrator and of starting the server.         *)
LEMMA CheckOutside ==
    ASSUME TypeInv, CheckInv, UNCHANGED <<workerVars, table, keyVars>>, clean' \subseteq clean
    PROVE  CheckInv'
<1>1. UNCHANGED <<pc, job, slot, table, settled, seen>>
  BY DEF workerVars, keyVars
<1>2. ASSUME NEW c, NEW n, Promised(c, n)' PROVE Promised(c, n)
  BY <1>1, <1>2 DEF Promised, Owner
<1>3. ASSUME NEW w \in Workers, job[w].cmd = "check", pc[w] \in {"match", "load"},
             seen[w] # Unsettled, Promised(Owner(w), seen[w].conn)'
      PROVE  \E i \in Slots : /\ IsFirst(i, Owner(w))'
                              /\ pc[w] = "match" => slot[w] <= i
                              /\ pc[w] = "load" => slot[w] = i
  <2>1. Promised(Owner(w), seen[w].conn)
    BY <1>1, <1>3 DEF Promised, Owner
  <2>2. QED
    BY <1>1, <1>3, <2>1 DEF CheckInv, IsFirst, NoneBefore, Owner
<1>4. QED
  BY <1>1, <1>3 DEF CheckInv

(* As long as a key is promised, no check of it is past its slot.              *)
THEOREM KeyServiceScans == Spec => []CheckInv
<1>1. Init => CheckInv
  BY DEF Init, CheckInv
<1>2. TypeInv /\ KeptInv /\ AgreeInv /\ CheckInv /\ [Next]_vars => CheckInv'
  <2> SUFFICES ASSUME TypeInv, KeptInv, AgreeInv, CheckInv, [Next]_vars PROVE CheckInv'
    OBVIOUS
  <2>1. CASE UNCHANGED vars
    <3>1. UNCHANGED <<workerVars, table, keyVars>> /\ clean' \subseteq clean
      BY <2>1 DEF vars
    <3>2. QED
      BY <3>1, CheckOutside
  <2>2. CASE Next
    <3>1. Step /\ CleanNext
      BY <2>2 DEF Next
    <3>2. ASSUME UNCHANGED <<workerVars, table, keyVars>> PROVE CheckInv'
      <4>1. clean' \subseteq clean
        BY <3>1, <3>2, CleanMember DEF workerVars
      <4>2. QED
        BY <3>2, <4>1, CheckOutside
    <3>3. ASSUME Die PROVE CheckInv'
      BY <3>3 DEF Die, CheckInv
    <3>4. CASE \E c \in Clients : ClientStep(c) \/ EditClients(c)
      BY <3>2, <3>4, ClientOutside
    <3>5. CASE \E w \in Workers : Take(w) \/ WorkerStep(w)
      BY <3>1, <3>3, <3>5, CheckWorker DEF WorkerStep, CheckUnknownClient
    <3>6. CASE Crash
      BY <3>3, <3>6 DEF Crash
    <3>7. CASE Restart
      BY <3>2, <3>7 DEF Restart
    <3>8. QED
      BY <3>1, <3>4, <3>5, <3>6, <3>7 DEF Step
  <2>3. QED
    BY <2>1, <2>2
<1>3. QED
  BY <1>1, <1>2, KeyServiceTyped, KeyServiceKept, KeyServiceAnswers, PTL DEF Spec

(* While a client's key is settled, Sec_key_Check accepts exactly that key:    *)
(* it neither misses the slot nor reads another's, in the middle of other      *)
(* workers' writes.                                                            *)
THEOREM KeyServiceChecksRight == Spec => CheckDecidesRight
<1>1. TypeInv /\ KeptInv /\ CheckInv /\ [Next]_vars =>
        [\A w \in Workers :
           /\ job[w].cmd = "check" /\ pc[w] \in {"match", "load"}
           /\ pc'[w] \in {"answer", "close"}
           /\ seen[w] # Unsettled /\ seen[w] = settled[Owner(w)]
           => (pc'[w] = "answer" <=> job[w].auth = seen[w].key)]_vars
  <2> SUFFICES ASSUME TypeInv, KeptInv, CheckInv, Next, NEW w \in Workers,
                      job[w].cmd = "check", pc[w] \in {"match", "load"},
                      pc'[w] \in {"answer", "close"},
                      seen[w] # Unsettled, seen[w] = settled[Owner(w)]
               PROVE  pc'[w] = "answer" <=> job[w].auth = seen[w].key
    OBVIOUS
  <2>1. pc \in [Workers -> Steps] /\ Owner(w) \in Clients /\ slot[w] \in Slots
    BY BusyRequests DEF TypeInv, TypeOK, StepInv, AtASlot
  <2>2. PICK i \in Slots : /\ IsFirst(i, Owner(w))
                           /\ pc[w] = "match" => slot[w] <= i
                           /\ pc[w] = "load" => slot[w] = i
    BY DEF CheckInv, Promised
  <2>3. table[i].seckey = seen[w].key
    <3>1. SettledFor(Owner(w))
      BY <2>1 DEF KeptInv, SettledInv
    <3>2. QED
      BY <2>2, <3>1, FirstIsOne DEF SettledFor, PromisedNode
  <2>4. MatchSlot(w) \/ LoadKey(w)
    <3>1. ASSUME NEW v \in Workers, Take(v) \/ (WorkerStep(v) /\ ~CheckUnknownClient(v)) PROVE v = w
      <4>1. v # w => SameOf(w)
        BY <3>1, OthersSame DEF WorkerStep
      <4>2. QED
        BY <4>1 DEF SameOf
    <3>2. ~Die
      BY DEF Die
    <3>3. PICK v \in Workers : Take(v) \/ (WorkerStep(v) /\ ~CheckUnknownClient(v))
      <4>1. UNCHANGED pc => FALSE
        OBVIOUS
      <4>2. ~\E c \in Clients : ClientStep(c) \/ EditClients(c)
        BY <4>1, ClientOutside DEF workerVars
      <4>3. ~Crash /\ ~Restart
        BY <3>2, <4>1 DEF Crash, Restart, workerVars
      <4>4. QED
        BY <3>2, <4>2, <4>3 DEF Next, Step, CheckUnknownClient
    <3>4. Take(w) \/ (WorkerStep(w) /\ ~CheckUnknownClient(w))
      BY <3>1, <3>3
    <3>5. QED
      BY <3>4 DEF WorkerStep, Take, CheckClient, GetKeyID, ConsultReply, FreeSlot, CopyIds, CopyKey,
         Retire, Bump, Insert, MarkRevoked, Answer, Close
  <2>5. CASE LoadKey(w)
    <3>1. slot[w] = i
      BY <2>2, <2>5 DEF LoadKey
    <3>2. pc'[w] = IF table[i].seckey = job[w].auth THEN "answer" ELSE "close"
      BY <2>1, <2>5, <3>1 DEF LoadKey, Goto
    <3>3. QED
      BY <2>3, <3>2
  <2>6. CASE MatchSlot(w)
    <3>1. slot[w] <= i /\ i \in Nat /\ slot[w] \in Nat /\ i <= MaxNode /\ MaxNode \in Nat
      BY <2>1, <2>2, <2>6, MaxNodeAssumption DEF MatchSlot, Slots
    <3>2. table[slot[w]].owner = Owner(w) => pc'[w] = "load"
      BY <2>1, <2>6 DEF MatchSlot, Goto
    <3>3. table[slot[w]].owner # Owner(w) => slot[w] < LastSlot
      BY <2>2, <3>1 DEF IsFirst, LastSlot
    <3>4. table[slot[w]].owner # Owner(w) => pc'[w] = "match"
      BY <2>1, <2>6, <3>1, <3>3 DEF MatchSlot, Goto, LastSlot
    <3>5. QED
      BY <3>2, <3>4
  <2>7. QED
    BY <2>4, <2>5, <2>6
<1>2. QED
  BY <1>1, KeyServiceTyped, KeyServiceKept, KeyServiceScans, PTL DEF Spec, CheckDecidesRight
=============================================================================
