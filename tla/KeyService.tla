----------------------------- MODULE KeyService -----------------------------
(***************************************************************************)
(* The key service end to end: clients negotiate, verify and cancel keys   *)
(* with the server, whose worker threads share one key table (a segment    *)
(* that outlives the process), one database and one rand() stream, none of *)
(* them locked.  A worker's steps are its accesses to that shared state,   *)
(* in the order of Sec_Key_Server.cpp; what it computes from its own       *)
(* request alone is part of the next step.                                 *)
(*                                                                         *)
(* Every client names the server's own serverid, so a client stands for    *)
(* the (clientID, serverID) pair of its keys.  The pool is a FIFO of       *)
(* requests; `conn' numbers a client's requests, each of which has a       *)
(* connection and a session object of its own.  That the server's session  *)
(* objects are not shared is assumed here: module Sessions is about them.  *)
(***************************************************************************)
EXTENDS Integers, Sequences, FiniteSets, KeyTable

CONSTANTS Clients, Workers,
          MaxNode,      \* slots of the server's key table
          Menu,         \* what each client's user asks for: commands per client
          NoClient,     \* owner of an idle worker's empty request
          Unsettled,    \* no promise about a client's key (see `settled')
          MaxConns,     \* bound: requests of each client
          Mishaps,      \* bound: what may happen to clients, of "damage", "loss", "restart"
          MaxRestarts,  \* bound: restarts of the server
          MaxFaults,    \* bound: failing SQL statements
          MaxEdits      \* bound: edits of the secnode table by the administrator

ASSUME MaxNodeAssumption == MaxNode \in Nat \ {0}
ASSUME MenuAssumption == Menu \in [Clients -> SUBSET {"consult", "check", "cancel"}]
ASSUME ConnsAssumption == MaxConns \in [Clients -> Nat]
ASSUME NamesAssumption == NoClient \notin Clients /\ NoOwner \notin Clients

Slots    == 1..MaxNode
ClientSlots == 1..1          \* "maxnode" of Client.json
ZeroJob  == [client |-> NoClient, conn |-> 0, cmd |-> "none", r1 |-> 0, auth |-> NoKey,
             intact |-> TRUE]
NoReply  == [kind |-> "none",   rv |-> 0, id |-> 0, r2 |-> 0]
Closed   == [kind |-> "closed", rv |-> 0, id |-> 0, r2 |-> 0]

VARIABLES
    \* the client programs
    phase,     \* "idle" at the menu, or in "wait" inside recvMsg
    ask,       \* the last request sent
    nonce,     \* strings drawn from rand(), from the start of the process
    inbox,     \* what the connection of `ask' has delivered
    own,       \* the client's own key table
    \* the server process
    up, queue, r2s,
    pc, job, slot, node,   \* per worker: next step, request, scan index, shminfo
    \* what survives the process
    table,     \* the server's key table
    keysn, rows, secnode,  \* the database: next key number, seckeyinfo, known clients
    \* bounds
    restarts, faults, edits,
    \* history, read by the properties alone
    settled,   \* per client: what the last undisturbed request left behind
    ownConn,   \* per client: the request its own key comes from
    seen,      \* per worker: settled[client] when its scan began
    clean,     \* workers whose request met no conflict and no failure so far
    solo,      \* consulting workers alone with the key number so far
    soloIds    \* key numbers recorded by solo workers

clientVars == <<phase, ask, nonce, inbox, own, ownConn>>
workerVars == <<pc, job, slot, node>>
dbVars     == <<keysn, rows, secnode>>
boundVars  == <<restarts, faults, edits>>
keyVars    == <<settled, seen, soloIds>>
vars == <<clientVars, up, queue, r2s, workerVars, table, dbVars, boundVars, keyVars,
          clean, solo>>

Init == /\ phase = [c \in Clients |-> "idle"]
        /\ ask = [c \in Clients |-> [ZeroJob EXCEPT !.client = c]]
        /\ nonce = [c \in Clients |-> 0]
        /\ inbox = [c \in Clients |-> NoReply]
        /\ own = [c \in Clients |-> ZeroTable(ClientSlots)]
        /\ ownConn = [c \in Clients |-> 0]
        /\ up = TRUE /\ queue = <<>> /\ r2s = 0
        /\ pc = [w \in Workers |-> "idle"]
        /\ job = [w \in Workers |-> ZeroJob]
        /\ slot = [w \in Workers |-> 0]
        /\ node = [w \in Workers |-> ZeroNode]
        /\ table = ZeroTable(Slots)
        /\ keysn = 1 /\ rows = {} /\ secnode = Clients
        /\ restarts = 0 /\ faults = 0 /\ edits = 0
        /\ settled = [c \in Clients |-> Unsettled]
        /\ seen = [w \in Workers |-> Unsettled]
        /\ soloIds = {} /\ clean = {} /\ solo = {}
-----------------------------------------------------------------------------
(* The client program (SecKeyClient). *)

\* Connect and send; the reactor reads the message and queues it, or closes the
\* connection when it finds the message incomplete.
Send(c, request) ==
    /\ phase[c] = "idle" /\ up
    /\ request.cmd \in Menu[c]
    /\ ask[c].conn < MaxConns[c]
    /\ phase' = [phase EXCEPT ![c] = "wait"]
    /\ ask' = [ask EXCEPT ![c] = request]
    /\ \/ /\ queue' = Append(queue, request)
          /\ inbox' = [inbox EXCEPT ![c] = NoReply]
       \/ /\ "loss" \in Mishaps
          /\ inbox' = [inbox EXCEPT ![c] = Closed]
          /\ UNCHANGED queue
    /\ UNCHANGED <<own, ownConn, up, r2s, workerVars, table, dbVars, boundVars, keyVars>>

Request(c, cmd) == [ZeroJob EXCEPT !.client = c, !.conn = ask[c].conn + 1, !.cmd = cmd]

\* authCode is computed over r1; that of a damaged message no longer matches.
SendConsult(c) ==
    /\ \E intact \in IF "damage" \in Mishaps THEN BOOLEAN ELSE {TRUE} :
          Send(c, [Request(c, "consult") EXCEPT !.r1 = nonce[c] + 1, !.intact = intact])
    /\ nonce' = [nonce EXCEPT ![c] = @ + 1]

\* authCode is computed over the client's own key, or over "" when it has none.
SendCheck(c) == /\ Send(c, [Request(c, "check") EXCEPT !.auth = Entry(own[c], c).seckey])
                /\ UNCHANGED nonce

SendCancel(c) == Send(c, Request(c, "cancel")) /\ UNCHANGED nonce

\* Mutant: the two strings are hashed in the other order.
ClientKeySwapped(c) == <<inbox[c].r2, ask[c].r1>>

\* SHA1 over the client's string and the server's.
ClientKey(c) == <<ask[c].r1, inbox[c].r2>>

\* recvMsg returned an answer.  A Consult answer without a key number (the
\* server could not read it) makes the decoder dereference a missing element.
Receive(c) ==
    /\ phase[c] = "wait" /\ inbox[c].kind = "reply"
    /\ phase' = [phase EXCEPT ![c] = "idle"]
    /\ inbox' = [inbox EXCEPT ![c] = NoReply]
    /\ \/ /\ ask[c].cmd = "consult" /\ inbox[c].id # -1
          /\ own' = [own EXCEPT ![c] = WriteMemory(own[c],
                       [status |-> 0, seckeyID |-> inbox[c].id, owner |-> c,
                        seckey |-> ClientKey(c)])]
          /\ ownConn' = [ownConn EXCEPT ![c] = ask[c].conn]
          /\ UNCHANGED nonce
       \/ /\ ask[c].cmd = "consult" /\ inbox[c].id = -1
          /\ nonce' = [nonce EXCEPT ![c] = 0]
          /\ UNCHANGED <<own, ownConn>>
       \/ /\ ask[c].cmd # "consult"
          /\ UNCHANGED <<own, ownConn, nonce>>
    /\ UNCHANGED <<ask, up, queue, r2s, workerVars, table, dbVars, boundVars, keyVars>>

\* recvMsg fails: the server closed the connection without an answer.
Fail(c) ==
    /\ phase[c] = "wait" /\ inbox[c] = Closed
    /\ phase' = [phase EXCEPT ![c] = "idle"]
    /\ inbox' = [inbox EXCEPT ![c] = NoReply]
    /\ UNCHANGED <<ask, nonce, own, ownConn, up, queue, r2s, workerVars, table, dbVars,
                   boundVars, keyVars>>

\* recvMsg times out; the client does not close its end.
GiveUp(c) ==
    /\ "loss" \in Mishaps
    /\ phase[c] = "wait"
    /\ phase' = [phase EXCEPT ![c] = "idle"]
    /\ inbox' = [inbox EXCEPT ![c] = NoReply]
    /\ UNCHANGED <<ask, nonce, own, ownConn, up, queue, r2s, workerVars, table, dbVars,
                   boundVars, keyVars>>

\* The client process is started again: srand is never called, so its strings
\* start over; its segment survives.
RestartClient(c) ==
    /\ "restart" \in Mishaps
    /\ nonce[c] > 0
    /\ phase' = [phase EXCEPT ![c] = "idle"]
    /\ nonce' = [nonce EXCEPT ![c] = 0]
    /\ inbox' = [inbox EXCEPT ![c] = NoReply]
    /\ UNCHANGED <<ask, own, ownConn, up, queue, r2s, workerVars, table, dbVars,
                   boundVars, keyVars>>
-----------------------------------------------------------------------------
(* A worker thread of the server (SecKeyServer). *)

Owner(w)   == job[w].client
Goto(w, l) == pc' = [pc EXCEPT ![w] = l]

\* One SQL statement of this worker fails; every caller goes on as the step says.
SqlOk   == UNCHANGED faults
SqlFail == faults < MaxFaults /\ faults' = faults + 1

\* What the client of w's request receives, if it still waits on that connection.
Deliver(w, msg) ==
    inbox' = [c \in Clients |->
                IF c = Owner(w) /\ phase[c] = "wait" /\ ask[c].conn = job[w].conn
                   /\ inbox[c] = NoReply
                THEN msg ELSE inbox[c]]

\* threadpool::run: wake up and take the oldest request.
Take(w) ==
    /\ pc[w] = "idle" /\ queue # <<>>
    /\ job' = [job EXCEPT ![w] = Head(queue)]
    /\ queue' = Tail(queue)
    /\ Goto(w, "client")
    /\ UNCHANGED <<clientVars, up, r2s, slot, node, table, dbVars, boundVars, keyVars>>

\* The process is gone: requests, threads and the rand() stream with it.  The
\* segment and the database stay; waiting clients see their connection closed.
Die ==
    /\ up' = FALSE
    /\ queue' = <<>>
    /\ r2s' = 0
    /\ pc' = [w \in Workers |-> "idle"]
    /\ job' = [w \in Workers |-> ZeroJob]
    /\ slot' = [w \in Workers |-> 0]
    /\ node' = [w \in Workers |-> ZeroNode]
    /\ seen' = [w \in Workers |-> Unsettled]
    /\ inbox' = [c \in Clients |-> IF phase[c] = "wait" /\ inbox[c] = NoReply
                                   THEN Closed ELSE inbox[c]]
    /\ UNCHANGED <<phase, ask, nonce, own, ownConn, table, dbVars, boundVars,
                   settled, soloIds>>

\* resolution: check_client finds the client (or its query fails), and the
\* handler starts.  Consult first verifies authCode, Check and Cancel scan.
CheckClient(w) ==
    /\ pc[w] = "client"
    /\ \/ SqlFail /\ Goto(w, "close") /\ UNCHANGED <<slot, settled, seen>>
       \/ /\ SqlOk /\ Owner(w) \in secnode
          /\ \/ /\ job[w].cmd = "consult"
                /\ Goto(w, IF job[w].intact THEN "getid" ELSE "close")
                /\ UNCHANGED <<slot, settled, seen>>
             \/ /\ job[w].cmd \in {"check", "cancel"}
                /\ Goto(w, "match")
                /\ slot' = [slot EXCEPT ![w] = 1]
                /\ seen' = [seen EXCEPT ![w] = settled[Owner(w)]]
                /\ settled' = IF job[w].cmd = "check" THEN settled
                              ELSE [settled EXCEPT ![Owner(w)] = Unsettled]
    /\ UNCHANGED <<clientVars, up, queue, r2s, job, node, table, dbVars, restarts, edits,
                   soloIds>>

\* check_client on a client that is not in secnode: the query returns no row,
\* mysql_fetch_row a null pointer, and rows[0] ends the process.
CheckUnknownClient(w) ==
    pc[w] = "client" /\ Owner(w) \notin secnode /\ Die

\* getKeyID, -1 when the query fails.
GetKeyID(w) ==
    /\ pc[w] = "getid"
    /\ \E id \in {keysn, -1} :
          /\ IF id = -1 THEN SqlFail ELSE SqlOk
          /\ node' = [node EXCEPT ![w] = [status |-> 0, seckeyID |-> id,
                                         owner |-> Owner(w), seckey |-> NoKey]]
    /\ Goto(w, "consultreply")
    /\ settled' = [settled EXCEPT ![Owner(w)] = Unsettled]
    /\ UNCHANGED <<clientVars, up, queue, r2s, job, slot, table, dbVars, restarts, edits,
                   seen, soloIds>>

\* r2 is drawn, the key computed, and the answer sent before anything is stored.
\* When sendMsg fails nothing will be.
ConsultReply(w) ==
    /\ pc[w] = "consultreply"
    /\ r2s' = r2s + 1
    /\ node' = [node EXCEPT ![w].seckey = <<job[w].r1, r2s'>>]
    /\ \/ /\ Deliver(w, [kind |-> "reply", rv |-> 0, id |-> node[w].seckeyID, r2 |-> r2s'])
          /\ Goto(w, "match")
          /\ slot' = [slot EXCEPT ![w] = 1]
       \/ Goto(w, "close") /\ UNCHANGED <<inbox, slot>>
    /\ UNCHANGED <<phase, ask, nonce, own, ownConn, up, queue, job, table, dbVars, boundVars,
                   keyVars>>

\* Mutant: the loop ends one slot late (i <= maxnode).
LastSlotPlusOne == MaxNode + 1

\* The last slot a scan looks at (i < maxnode).
LastSlot == MaxNode

\* One iteration of the scan for the owner's slot, of Write_Memory, Read_Memory
\* and Check_Memory: strcmp of both names in slot i.
MatchSlot(w) ==
    /\ pc[w] = "match"
    /\ \/ /\ table[slot[w]].owner = Owner(w)
          /\ Goto(w, CASE job[w].cmd = "consult" -> "copy"
                       [] job[w].cmd = "check"   -> "load"
                       [] job[w].cmd = "cancel"  -> "mark")
          /\ UNCHANGED slot
       \/ /\ table[slot[w]].owner # Owner(w) /\ slot[w] < LastSlot
          /\ slot' = [slot EXCEPT ![w] = @ + 1]
          /\ UNCHANGED pc
       \/ /\ table[slot[w]].owner # Owner(w) /\ slot[w] = LastSlot
          /\ Goto(w, IF job[w].cmd = "consult" THEN "free" ELSE "close")
          /\ slot' = [slot EXCEPT ![w] = 1]
    /\ UNCHANGED <<clientVars, up, queue, r2s, job, node, table, dbVars, boundVars, keyVars>>

\* One iteration of the scan for an all-zero slot.  When none is left
\* Write_Memory returns -1, and Sec_Key_Consult does not look (slot 0).
FreeSlot(w) ==
    /\ pc[w] = "free"
    /\ \/ /\ table[slot[w]] = ZeroNode
          /\ Goto(w, "copy")
          /\ UNCHANGED slot
       \/ /\ table[slot[w]] # ZeroNode /\ slot[w] < LastSlot
          /\ slot' = [slot EXCEPT ![w] = @ + 1]
          /\ UNCHANGED pc
       \/ /\ table[slot[w]] # ZeroNode /\ slot[w] = LastSlot
          /\ slot' = [slot EXCEPT ![w] = 0]
          /\ Goto(w, "retire")
    /\ UNCHANGED <<clientVars, up, queue, r2s, job, node, table, dbVars, boundVars, keyVars>>

\* memcpy of the node into the slot is not atomic: the part with status, number
\* and names and the part with the key are stored one after the other.
CopyIds(w) ==
    /\ pc[w] \in {"copy", "copyids"}
    /\ Goto(w, IF pc[w] = "copy" THEN "copykey" ELSE "retire")
    /\ table' = [table EXCEPT ![slot[w]] = [node[w] EXCEPT !.seckey = table[slot[w]].seckey]]
    /\ UNCHANGED <<clientVars, up, queue, r2s, job, slot, node, dbVars, boundVars, keyVars>>

CopyKey(w) ==
    /\ pc[w] \in {"copy", "copykey"}
    /\ Goto(w, IF pc[w] = "copy" THEN "copyids" ELSE "retire")
    /\ table' = [table EXCEPT ![slot[w]].seckey = node[w].seckey]
    /\ UNCHANGED <<clientVars, up, queue, r2s, job, slot, node, dbVars, boundVars, keyVars>>

\* Mutant: the first slot's key is compared, whoever owns it.
LoadFirstKey(w) ==
    /\ pc[w] = "load"
    /\ Goto(w, IF table[1].seckey = job[w].auth THEN "answer" ELSE "close")
    /\ UNCHANGED <<clientVars, up, queue, r2s, job, slot, node, table, dbVars, boundVars,
                   keyVars>>

\* Sec_key_Check compares the stored key with the authentication code of the
\* client's; the slot's status plays no part.
LoadKey(w) ==
    /\ pc[w] = "load"
    /\ Goto(w, IF table[slot[w]].seckey = job[w].auth THEN "answer" ELSE "close")
    /\ UNCHANGED <<clientVars, up, queue, r2s, job, slot, node, table, dbVars, boundVars,
                   keyVars>>

\* Mutant: only the database learns of a cancellation.
MarkNothing(w) ==
    /\ pc[w] = "mark"
    /\ Goto(w, "retire")
    /\ UNCHANGED <<clientVars, up, queue, r2s, job, slot, node, table, dbVars, boundVars,
                   keyVars>>

\* Check_Memory: status = 1 in the slot the scan found.
MarkRevoked(w) ==
    /\ pc[w] = "mark"
    /\ table' = [table EXCEPT ![slot[w]].status = 1]
    /\ Goto(w, "retire")
    /\ UNCHANGED <<clientVars, up, queue, r2s, job, slot, node, dbVars, boundVars, keyVars>>

\* Mutant: the old key's row stays in use.
RetiredNone(o) == rows

\* updata_status: every row of this owner becomes unusable.  Cancel stops when it
\* fails, with the slot already revoked; Consult goes on.
Retired(o) == {IF r.owner = o THEN [r EXCEPT !.state = 1] ELSE r : r \in rows}
Retire(w) ==
    /\ pc[w] = "retire"
    /\ \/ SqlOk /\ rows' = Retired(Owner(w))
       \/ SqlFail /\ UNCHANGED rows
    /\ Goto(w, IF job[w].cmd = "consult" THEN "bump"
               ELSE IF faults' = faults THEN "answer" ELSE "close")
    /\ settled' = IF /\ job[w].cmd = "cancel" /\ w \in clean
                     /\ seen[w] # Unsettled /\ faults' = faults
                  THEN [settled EXCEPT ![Owner(w)] = [seen[w] EXCEPT !.valid = FALSE]]
                  ELSE settled
    /\ UNCHANGED <<clientVars, up, queue, r2s, job, slot, node, table, keysn, secnode,
                   restarts, edits, seen, soloIds>>

\* Mutant: the number just used is written back.
SameNumber(w) == node[w].seckeyID

NextNumber(w) == node[w].seckeyID + 1

\* updataKeyID: the number after the one this worker read, whatever happened since.
Bump(w) ==
    /\ pc[w] = "bump"
    /\ \/ SqlOk /\ keysn' = NextNumber(w)
       \/ SqlFail /\ UNCHANGED keysn
    /\ soloIds' = IF keysn' = 0 /\ keysn # 0 THEN {} ELSE soloIds
    /\ Goto(w, "insert")
    /\ UNCHANGED <<clientVars, up, queue, r2s, job, slot, node, table, rows, secnode,
                   restarts, edits, settled, seen>>

\* writeSecKey: the new key's row, in use.
Insert(w) ==
    /\ pc[w] = "insert"
    /\ \/ SqlOk /\ rows' = rows \cup {[owner |-> Owner(w), id |-> node[w].seckeyID,
                                       state |-> 0, key |-> node[w].seckey]}
       \/ SqlFail /\ UNCHANGED rows
    /\ settled' = IF w \in clean /\ slot[w] # 0 /\ faults' = faults
                  THEN [settled EXCEPT ![Owner(w)] =
                          [conn |-> job[w].conn, valid |-> TRUE,
                           id |-> node[w].seckeyID, key |-> node[w].seckey]]
                  ELSE settled
    /\ soloIds' = IF w \in solo /\ faults' = faults THEN soloIds \cup {node[w].seckeyID}
                                                    ELSE soloIds
    /\ Goto(w, "close")
    /\ UNCHANGED <<clientVars, up, queue, r2s, job, slot, node, table, keysn, secnode,
                   restarts, edits, seen>>

\* The answer of a verified key (rv 0) or a cancelled one (rv 1), if it can be sent.
Answer(w) ==
    /\ pc[w] = "answer"
    /\ \/ Deliver(w, [kind |-> "reply", rv |-> IF job[w].cmd = "check" THEN 0 ELSE 1,
                      id |-> 0, r2 |-> 0])
       \/ UNCHANGED inbox
    /\ Goto(w, "close")
    /\ UNCHANGED <<phase, ask, nonce, own, ownConn, up, queue, r2s, job, slot, node, table,
                   dbVars, boundVars, keyVars>>

\* process: whatever the handler did, the connection is closed behind it.
Close(w) ==
    /\ pc[w] = "close"
    /\ Deliver(w, Closed)
    /\ Goto(w, "idle")
    /\ job' = [job EXCEPT ![w] = ZeroJob]
    /\ slot' = [slot EXCEPT ![w] = 0]
    /\ node' = [node EXCEPT ![w] = ZeroNode]
    /\ seen' = [seen EXCEPT ![w] = Unsettled]
    /\ UNCHANGED <<phase, ask, nonce, own, ownConn, up, queue, r2s, table, dbVars, boundVars,
                   settled, soloIds>>
-----------------------------------------------------------------------------
(* The process and the administrator. *)

\* The server is killed at any point of any worker.
Crash == up /\ restarts < MaxRestarts /\ Die

\* main: the segment is found and kept, the database reconnected.
Restart ==
    /\ ~up /\ restarts < MaxRestarts
    /\ up' = TRUE
    /\ restarts' = restarts + 1
    /\ UNCHANGED <<clientVars, queue, r2s, workerVars, table, dbVars, faults, edits, keyVars>>

\* SecMngAdmin inserts a client into secnode, or deletes it.
EditClients(c) ==
    /\ edits < MaxEdits /\ edits' = edits + 1
    /\ secnode' = IF c \in secnode THEN secnode \ {c} ELSE secnode \cup {c}
    /\ UNCHANGED <<clientVars, up, queue, r2s, workerVars, table, keysn, rows, restarts,
                   faults, keyVars>>

WorkerStep(w) ==
    \/ CheckClient(w) \/ CheckUnknownClient(w)
    \/ GetKeyID(w) \/ ConsultReply(w)
    \/ MatchSlot(w) \/ FreeSlot(w) \/ CopyIds(w) \/ CopyKey(w)
    \/ Retire(w) \/ Bump(w) \/ Insert(w)
    \/ LoadKey(w) \/ MarkRevoked(w) \/ Answer(w) \/ Close(w)

ClientStep(c) == SendConsult(c) \/ SendCheck(c) \/ SendCancel(c) \/ Receive(c) \/ Fail(c)
                 \/ GiveUp(c) \/ RestartClient(c)

Step == \/ \E c \in Clients : ClientStep(c) \/ EditClients(c)
        \/ \E w \in Workers : Take(w) \/ WorkerStep(w)
        \/ Crash \/ Restart
-----------------------------------------------------------------------------
(* History.  Two requests conflict while they work on the same client's key, or *)
(* while both have chosen the same slot; a check conflicts with nothing.        *)
Aims(w) == IF pc[w] \in {"copy", "copyids", "copykey", "mark", "retire", "bump", "insert"}
           THEN {slot[w]} \ {0} ELSE {}
Conflict(w, v) == /\ v # w /\ pc[v] # "idle" /\ job[v].cmd # "check"
                  /\ Owner(v) = Owner(w) \/ Aims(v) \cap Aims(w) # {}

\* From reading the key number to writing its successor back.
Numbering(w) == /\ job[w].cmd = "consult"
                /\ pc[w] \in {"consultreply", "match", "free", "copy", "copyids", "copykey",
                              "retire", "bump"}

Faulted(w) == pc'[w] # pc[w] /\ faults' # faults

CleanNext ==
    clean' = {w \in Workers : /\ pc'[w] # "idle" /\ ~Faulted(w)
                              /\ w \in clean \/ pc[w] = "idle"
                              /\ \A v \in Workers : ~Conflict(w, v)'}
SoloNext ==
    solo' = {w \in Workers :
               /\ Numbering(w)' \/ pc'[w] = "insert"
               /\ w \in solo \/ pc[w] = "getid"
               /\ ~Faulted(w) /\ ~(keysn' = 0 /\ keysn # 0)
               /\ Numbering(w)' => \A v \in Workers \ {w} : ~Numbering(v)'}

Next == Step /\ CleanNext /\ SoloNext

Spec == Init /\ [][Next]_vars
-----------------------------------------------------------------------------
(* Properties. *)

Keys     == {NoKey} \cup (Nat \X Nat)
Jobs     == [client : Clients \cup {NoClient}, conn : Nat,
             cmd : {"none", "consult", "check", "cancel"}, r1 : Nat, auth : Keys,
             intact : BOOLEAN]
Msgs     == [kind : {"none", "closed", "reply"}, rv : {0, 1}, id : Int, r2 : Nat]
TableNodes == [status : {0, 1}, seckeyID : Int, owner : Clients \cup {NoOwner}, seckey : Keys]
Steps    == {"idle", "client", "getid", "consultreply", "match", "free", "copy", "copyids",
             "copykey", "retire", "bump", "insert", "load", "mark", "answer", "close"}
Promises == {Unsettled} \cup [conn : Nat, valid : BOOLEAN, id : Int, key : Keys]

\* Type invariant.
TypeOK ==
    /\ phase \in [Clients -> {"idle", "wait"}]
    /\ ask \in [Clients -> Jobs]
    /\ nonce \in [Clients -> Nat]
    /\ inbox \in [Clients -> Msgs]
    /\ own \in [Clients -> [ClientSlots -> TableNodes]]
    /\ ownConn \in [Clients -> Nat]
    /\ up \in BOOLEAN /\ queue \in Seq(Jobs) /\ r2s \in Nat
    /\ pc \in [Workers -> Steps]
    /\ job \in [Workers -> Jobs]
    /\ slot \in [Workers -> 0..MaxNode]
    /\ node \in [Workers -> TableNodes]
    /\ table \in [Slots -> TableNodes]
    /\ keysn \in Int /\ secnode \subseteq Clients
    /\ rows \subseteq [owner : Clients, id : Int, state : {0, 1}, key : Keys]
    /\ restarts \in Nat /\ faults \in Nat /\ edits \in Nat
    /\ settled \in [Clients -> Promises]
    /\ seen \in [Workers -> Promises]
    /\ clean \subseteq Workers /\ solo \subseteq Workers /\ soloIds \subseteq Int

\* Rows of seckeyinfo that are in use.
Active(o) == {r \in rows : r.owner = o /\ r.state = 0}

\* A request that met no conflict and no failure leaves the table and the database
\* agreeing on the client's key, its number and whether it is usable; and whatever
\* the other clients, their races, SQL failures and crashes do, they still agree
\* until that client's next request begins (Write_Memory, updata_status, writeSecKey).
SettledKeyKept ==
    \A c \in Clients : settled[c] # Unsettled =>
        LET s == settled[c] IN
        /\ Entry(table, c) = [status |-> IF s.valid THEN 0 ELSE 1, seckeyID |-> s.id,
                              owner |-> c, seckey |-> s.key]
        /\ Active(c) = IF s.valid
                       THEN {[owner |-> c, id |-> s.id, state |-> 0, key |-> s.key]}
                       ELSE {}

\* A client that got the answer of the request its settled key comes from computed
\* the same key and stored it under the same number as the server.
BothSidesAgree ==
    \A c \in Clients : settled[c] # Unsettled /\ ownConn[c] = settled[c].conn =>
        Entry(own[c], c) = [status |-> 0, seckeyID |-> settled[c].id, owner |-> c,
                            seckey |-> settled[c].key]

\* While a client's key is settled, Sec_key_Check accepts exactly that key, even in
\* the middle of other workers' writes to the table.
CheckDecidesRight ==
    [][ \A w \in Workers :
          /\ job[w].cmd = "check" /\ pc[w] \in {"match", "load"}
          /\ pc'[w] \in {"answer", "close"}
          /\ seen[w] # Unsettled /\ seen[w] = settled[Owner(w)]
          => (pc'[w] = "answer" <=> job[w].auth = seen[w].key) ]_vars

\* Consults that had keysn to themselves (no other worker between getKeyID and
\* updataKeyID, no failed statement) record pairwise different key numbers, across
\* crashes at any point and whatever overlapping consults do to the counter.
SoloNumbersUnique ==
    /\ \A w \in solo : pc[w] = "insert" => node[w].seckeyID \notin soloIds
    /\ \A n \in soloIds : n < keysn

\* A cancelled key can never be verified again ("this key becomes unusable",
\* Check_Memory), in the server's table.
RevokedKeyRefused ==
    [][ \A w \in Workers : pc[w] = "load" /\ table[slot[w]].status = 1
                           => pc'[w] # "answer" ]_vars

\* rv 0 stands for success (RespondMsg): a consult that answered it, met no conflict
\* and no failure has its key in the table when the handler goes on.
SuccessMeansStored ==
    \A w \in clean : job[w].cmd = "consult" /\ pc[w] \in {"retire", "bump", "insert"}
                     => Entry(table, Owner(w)) = node[w]
=============================================================================
