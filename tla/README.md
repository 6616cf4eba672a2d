# A verification project for SecKeySystem

SecKeySystem negotiates symmetric keys between clients and a server, keeps them
in shared memory on both hosts and in a MySQL database, and lets applications
encrypt with them.  The modules here model the programs in C++ as TLA+
specifications, TLC checks them on small instances, and TLAPS proves part of
what TLC checks for every instance.  Every definition follows the source; the
file `PROJECT.json` gives for each one the lines it stands for.

Contents: the system and its components; the modules; the runs; the proofs;
what the checks found; what is not modelled; the plan.

## 1. The system

    SecKeyClient ---TCP, DER---> SecKeyServer ---SQL---> MySQL <---SQL--- SecMngAdmin
        |                          |  epoll loop, 10 workers
        v                          v
    segment "/usr"             segment "/usr/local"
    (1 slot)                   (5 slots)
        ^                          ^
        |                          |
    SecKeyAPI (linked into the applications of both hosts)

| Component | State it keeps | Operations | Talks to |
|---|---|---|---|
| Key table (`Sec_Key_Memtory`, three copies) | an array of `NodeSHMInfo` slots behind a count, in a SysV segment | constructor (creates, zeroes), `Write_Memory`, `Read_Memory`, `Read_Frist_Memory`, `Check_Memory` | everyone on the host, without a lock |
| Segment (`Share_Memory`) | the kernel's segment, `m_falg` | `shmget` with `IPC_EXCL`, attach, detach | kernel |
| Request handlers (`Sec_Key_Server`) | per request only | Consult, Check, Cancel | table, database, `rand()`, client |
| Sessions (`Sec_Key_Server`, `main`) | `user[MAX_FD]`: descriptor, data, infos; epoll set | `init`, `read_data`, `close_connect`, `process`, accept | kernel, pool |
| Thread pool (`threadpool.h`) | a list, a mutex, a condition variable | `append`, `run` | main's thread, workers |
| Database access (`Mysql_database`) | one `MYSQL` handle; tables `keysn`, `seckeyinfo`, `secnode` | five statements | MySQL |
| Client (`Client`, menu) | its segment, its `rand()` stream | Consult, Check, Cancel | server |
| TCP framing (`TcpSocket`) | -- | length-prefixed send and receive, time-outs | kernel |
| DER codec (`BaseASN1*`, `RequestCode`, `Respond_Code`) | a chain of nodes per message | encode, decode | -- |
| Encryption API (`SecKey`) | the key number it read last | constructor, `endataAES`, `dedataAES` | the host's segment |
| AES and Base64 (`AES.cpp`, in the API) | the expanded key, the chain block | `MakeKey`, `Encrypt`, `Decrypt` | -- |
| Administration (Qt) | the list on the screen, the settings | insert, update, delete clients; search | MySQL |
| Logs, JSON files | -- | -- | files |

**Protocol.**  Consult: the client draws r1, sends it with an HMAC over it; the
server draws r2, answers it with a key number, and both take SHA1(r1 r2) as the
key.  The server answers *before* it stores: first the reply, then the table,
then three SQL statements (old rows unusable, key number + 1, new row).  Check:
the client sends an HMAC under its key, the server compares with the one in its
table.  Cancel: the server sets status 1 in the table and in the database.
Whatever a handler does, `process` closes the connection behind it.  A message
is a DER sequence of integers and printable strings behind a length of four
bytes.  An application that seals a text puts the number of the key in front,
and one that opens it looks the number up.

**What is hard.**  Workers share the table, the database handle and `rand()`
without a lock; a worker closes a connection while the reactor may be giving its
descriptor to the next one; answers precede what they announce; SQL results are
ignored; the process may die anywhere and its segment outlives it; both programs
repeat their random strings after a restart, since `srand` is never called.
TCP delivers a frame in pieces, to a socket that blocks on one side and does not
on the other.  The API remembers a number while the keys behind the numbers
change.  Administrators' lists go stale behind each other's back.

**What makes each component correct.**

- Table: a bounded map from owners to keys; nobody's call harms another's key.
- Handlers: a request nobody disturbed leaves table and database agreeing, and
  nobody else undoes it; a check accepts exactly the current key; key numbers
  are not reused; both sides hold the same key.
- Sessions: an answer reaches the client that asked; nobody closes a connection
  but the thread that works for it; a request is handled once.
- Pool: one thread at a time in the list; no lost wakeup; every request served.
- Framing and codec: the other side gets the message that was sent or none, for
  any cutting of the stream; decoders stay on their chain; a command ends, unless
  the connection falls silent inside an answer.
- Encryption: opening under the key of the sealing gives the text back; a message
  sent and opened in good order, which section 2 defines, is understood, whatever
  overlapping negotiations of other clients do.
- Administration: a list nobody disturbed shows what is stored; what is reported
  as done is done.

## 2. The modules

| Module | Models | Rests on |
|---|---|---|
| `KeyTable` | nodes, tables, the scans, as constant operators | -- |
| `KeyMap` | abstract: a map of at most MaxNode keys | `KeyTable` |
| `KeySegment` | a segment and its programs; calls are atomic | `KeyTable`, implements `KeyMap` |
| `KeyService` | clients, workers, table, database, crashes; steps are single accesses | `KeyTable` |
| `Sessions` | reactor, workers, session objects, descriptors | -- |
| `ThreadPool` | `append` and `run` over mutex and condition variable | -- |
| `DerCodec` | BaseASN1's encoders and decoders, on bytes | -- |
| `MsgCodec` | the two messages and the chains of the code objects | `DerCodec` |
| `Delivery` | abstract: the message that was sent, or none | -- |
| `Exchange` | one connection: codec, framing, `select`, a stream that is cut, breaks or falls silent | `MsgCodec`, implements `Delivery` |
| `Rijndael` | class `AES` | -- |
| `SecureData` | programs that seal and open while several workers negotiate keys | `KeyTable`, `Rijndael` |
| `NodeList` | administrators, their windows and `secnode` | -- |
| `KeyTableProofs`, `KeySegmentProofs`, `ThreadPoolProofs`, `KeyServiceProofs`, `SessionsProofs`, `SecureDataProofs`, `ExchangeProofs`, `NodeListProofs` | lemmas and theorems | the modules they extend |
| `MC*` | the instances TLC checks | the modules they extend |

`KeyService`, `Sessions`, `ThreadPool` and `Exchange` look at the server from four
sides, each with a grain of its own.  `KeyService` takes the pool for a FIFO and
assumes every request has a session object of its own; `Sessions` drops that
assumption and abstracts what handlers do with keys; `ThreadPool` opens up the
FIFO; `Exchange` opens up what the others take for a message that arrives whole,
damaged or not at all.  `SecureData` keeps of a negotiation what a reader of the
tables can meet: the number, the answer, the choice of a slot, the copy and the
counter, each a step among the steps of other workers; `KeyService` has the scan slot by
slot, the copy in two halves, and the rest of the statements.  Operators marked
"Mutant:" in the modules are the plausible mistakes against which each property
was tried: with one of them in place of the definition that follows it, the
property fails.

### KeyTable, KeyMap, KeySegment

A node's clientID and serverID are one value, its `owner`: the code never compares
one without the other.  The empty names of a zeroed slot are `NoOwner`.
The three copies of the class agree on the operations they share (the client has no
`Check_Memory`, only the API reads by number); `KeyTable` cites the server's,
`KeySegment` the client's, `KeyMap` the API's.  `WriteMemory`, `Entry` and
`CheckMemory` are `Write_Memory`, `Read_Memory` and
`Check_Memory`, scans with a `break` being `FirstOf` of the hits.

In `KeySegment` a program is out, in its constructor, or in.  `Open` is the
constructor up to `shmget(IPC_CREAT|IPC_EXCL)`; `Zero` is the creator's memset,
which comes later, so that another program may have stored keys in between; `Exit`
may also kill a program inside its constructor.  The header with maxnode is not a
variable: each program's constructor writes it before the program's first call,
and the programs of one host read the same JSON value.

### KeyService

| In the module | In the code |
|---|---|
| `phase`, `ask`, `inbox`, `nonce`, `own` | the client: where it is, the message it sent, what recvMsg will find, its `rand()` position, its segment |
| `queue`, `pc`, `job`, `slot`, `node` | the pool's requests, and per worker: the next step, `m_request`, the scan's `i`, `shminfo` |
| `table`, `keysn`, `rows`, `secnode` | the server's segment, and the three tables of the database |
| `CheckClient`, `CheckUnknownClient` | `resolution` and `check_client` |
| `GetKeyID`, `ConsultReply` | `getKeyID`; drawing r2, hashing and `sendMsg` |
| `MatchSlot`, `FreeSlot`, `CopyIds`, `CopyKey` | one iteration of each scan; memcpy in two parts, in either order |
| `Retire`, `Bump`, `Insert` | `updata_status`, `updataKeyID`, `writeSecKey` |
| `LoadKey`, `MarkRevoked`, `Answer`, `Close` | the rest of Check and Cancel, and `process` |
| `Crash`, `Restart`, `EditClients` | the server killed and started again; SecMngAdmin |

Abstractions: a random string is its position in the stream of the process that
drew it, so a restarted process repeats itself; a key is the pair of the two
strings (SHA1 taken for injective), an HMAC the key or message it was computed
over; a damaged message is one whose HMAC does not match.  SQL statements are
atomic and may fail.  A CheckClient that fails takes the same way as in the code,
to closing without an answer.

The variables `settled`, `seen`, `clean`, `solo`, `soloIds`, `ownConn` are history:
no action reads them.  A worker is *clean* while its request met no conflict (a
request on the same client's key, or one that chose the same slot) and no failed
statement.  A clean consult or cancel that completes makes `settled` the promise
for its client; the next request of that client withdraws it.  The properties are
conditional on these because the code promises nothing more: two requests of one
client at once, or two newcomers that pick the same free slot, do corrupt each
other.  A worker is *solo* from `getKeyID` on while nobody else is between reading
the key number and writing it back, and no statement of its own fails.

### Sessions

`user` is the array of session objects, indexed by descriptor; `fdOf` and `epoll` are
the kernel's tables.  `close_connect` is three steps (`CloseFd`: the descriptor is
free from here on; `Forget`: init_data; `DropFd`: m_sockfd = -1), because the
reactor can accept on the freed descriptor, and initialise the same object, between
them.  `Leave(t, 2)` stands for the ways on which close_connect runs twice: a
refusing handler or a failed send followed by `process`, a failed `read_data`
followed by `main`.  `AcceptErrno` is acceptTimeout returning errno, EMFILE, as if it
were a descriptor.  `own` is history: the connection a thread works for; `twice`
says that a second close_connect for one connection has begun.

### ThreadPool

Steps are single operations on the mutex, the condition variable and the list.  The
mutex is a default pthread mutex, whose unlock by a thread that does not hold it
leaves it free.  Falling asleep and releasing the mutex are one step, as
pthread_cond_wait guarantees, and it may wake up unasked (`WakeUp`).

### DerCodec, MsgCodec, Delivery, Exchange

`DerCodec` has, on real bytes, every function of BaseASN1 the two messages reach:
tags, lengths in their four forms, whole numbers, printable strings and the
sequence around them, with the return codes and the out parameter as a pair.  Both
programs hold the same file; encoders are mapped to the client's copy, decoders to
the server's.  `MsgCodec` is the layer above: the code object's `m_header` is a
chain, its `m_next` a position in it.  `StoreInt` writes eight bytes through a
pointer to an int, as the code does: the array behind it loses its first four.
`CopyOver` is the memcpy of `Read_Next_node`, which copies as many bytes as the node
says: bytes beyond the array show as an array that has grown, which `TypeOK` refuses.

| In `Exchange` | In the code |
|---|---|
| `Ask`, `Encode`, `Pack` | `encode` of both messages, `Pack_queue`: the members one by one, a refused number left out, the chain into one buffer |
| `Connect`, `Write`, `WriteFails` | `connectToHost`, whose result nobody looks at; `writen` in parts |
| `Break`, `Silence` | a reset, which both ends notice; a host or a link that goes away without a word |
| `Select`, `HangUp`, `TimeOut` | `select` before the first byte of an answer, and its clock |
| `Read`, `ReadFails`, `Close` | `readn`, of the head and then of the body |
| `Decode`, `NullNode`, `Decoded` | `decode` of both messages, `unPack_queue`: a chain that is too short is followed into a null pointer |
| `Handle`, `Refuse`, `ServerDies` | a handler that answers, one that drops the connection, a process that dies |

The bytes of `pipe` are in the receiver's kernel.  A write makes a part of what is
left arrive; where it may end is the constant `Cuts`.  After a `Silence` nothing new
arrives from an end, its closing included, and the sender does not notice.  On the server's non-blocking
socket a read that finds a part of a frame fails (the EAGAIN is an error to
`readn`), on the client's it waits.  `Delivery` is what a caller may rely on: the
handler hears what was asked or nothing, the client is told what the handler
answered or nothing.  `Exchange` maps `asked` and `answered` to `sent`, `heard` and
`told` to `rcvd`.

### Rijndael, SecureData

`Rijndael` is class `AES`: key schedule, the three modes, keys and blocks of 16, 24
and 32 bytes.  The source has its tables as numbers; here each is the formula that
yields them (compared with the source's, entry by entry).  `SecureData` has the programs of two hosts with a key table each and
one `SecKey` object each.  `SecKey(p)` is the constructor, which
takes the first number of the table; `Send`, `Answer` are `endataAES`, `Receive`, `Read` are `dedataAES`,
with padding, the fixed chain block and Base64 in them
(digits 0..63 for the letters, 64 for '=').  `KeysRead` is what `Read_Memory` by
number leaves in the caller's struct, which is whatever was on the stack when no
slot has the number.

| In `SecureData` | In the code |
|---|---|
| `Respond` | a worker takes a Consult: `getKeyID`, which may fail with -1, and `sendMsg`, which comes before anything is stored |
| `Scan`, `Copy` | `Write_Memory`: the slot it finds, or its -1, which is ignored; then the memcpy there |
| `Count` | `updataKeyID` with the number read in `Respond`, plus one; it may fail |
| `KillServer` | the process ends; table and counter stay |
| `ClientStores`, `AnswerLost` | the answer reaches the client's table, before or after the server's has the key, or it never does |

`getKeyID` and `sendMsg` are one step because nothing another program or worker reads is
written between them.  Numbers are not unique: two Consults that overlap read the same one, and
after a failed `getKeyID` the counter starts over.

`sole` (in `job`), `made`, `knows`, `caller` and the marks `ordered` of the messages are
history: no action's effect on the tables depends on them.  A Consult is `sole` if no other
is under way between its `getKeyID` and its `updataKeyID` and no slot of another client has its number.
A message is in *good order* when its client opened its object after the answer to its last
Consult, sealed with it, and began no other Consult, and when the server opened it after that
Consult, a sole one, had finished, the counter not having been set back to 0 since.  An answer is, when the
message the server opened last was this client's and in good order.  Other clients'
Consults before and after may overlap in any way and repeat each other's numbers.  Without
these conditions the code promises nothing: the number of a message then may be that of another
client's slot (section 5).

The cipher is slow to evaluate, so an instance passes all that can be sealed and
opened in it as constants, `Sealed` and `Opened`; the assumption `CipherAssumption`,
which TLC evaluates, says that these tables are what `EncryptionAES` and
`DecryptionAES` compute.

### NodeList

An action is a slot of a window, with the dialogs it runs: `on_createNet_clicked`,
`on_modifyNet_clicked` with `on_okBtn_clicked` and `on_cancleBtn_clicked`,
`on_deleteNet_clicked` with `DeletionAnswered`, the two searches, the settings
(`on_dbTest_clicked`, `on_dbConnect_clicked`, `on_dbArgSave_clicked`, `Leave`), `main` and `ConnectionLost`.  The
modification and the question before a deletion are two actions each: other administrators act while
they are open.  `secnode` is the table, a node a number and a name, which stands for
its other columns; the number is the primary key.  `list` is what the window shows,
`asked` the node or row a dialog is about.  `synced` and `quiet` are history: nobody else changed
the table and this program modified nothing since the list was filled; nobody else
changed it since the dialog opened.

## 3. The runs

| Run | Instance | States | Shows |
|---|---|---|---|
| segment | 2 programs, 3 owners, 2 keys, 2 slots | 6,020 | `OneSlotPerOwner`, `NoHoles`, `KeysSurvive`, `ImplementsKeyMap` |
| service_races | 2 workers, client 1 two requests of any kind, client 2 one consult, 2 slots, 1 restart, 1 failed statement | 1,533,297 | `SettledKeyKept`, `BothSidesAgree`, `CheckDecidesRight`, `SoloNumbersUnique` |
| service_mishaps | 1 worker, 1 slot; damage, loss, client restarts, 1 failed statement, 1 edit of the clients | 882,743 | `SettledKeyKept`, `BothSidesAgree` |
| sessions | 3 connections, 2 workers, 2 descriptors, all outcomes and mishaps, 1 failing accept | 1,079,533 | `AnswersReachTheirClient`, `OnlyOwnConnectionCut`, `HandledOnce` |
| pool | 3 workers, 4 requests, capacity 3 | 49,636 | `ListLockedBelowCapacity`, `NoLostWakeup`, `EveryRequestServed` |
| exchange | one exchange; 3 requests, 12 key numbers, 3 offsets to cut at; a reset, a silence of either end, a dying server | 32,252 | `DecodersStayOnChain`, `CodecFaithful`, `ImplementsDelivery`, `ClientReturns` |
| secure_data | 2 clients and a server, 2 workers, 2 slots, 2 negotiations, 2 texts, 2 messages and their answers; failing `getKeyID`, lost answers, a killed server | 1,208,206 | `SameKeyGivesText`, `OrderedIsUnderstood`, `SealedUnderItsNumber` |
| secure_overlap | the same with 3 negotiations, 1 message and its answer; failing `updataKeyID` | 1,589,005 | `OrderedIsUnderstood`, `SealedUnderItsNumber` |
| node_list | 2 administrators, 2 numbers, 2 names, 3 writes | 643,562 | `SyncedListIsRight`, `CrashIsFromStaleRow`, `ReportedUpdateIsStored` |
| service_revoked, service_full, sessions_shared | the smallest that show it | | the disagreements of section 5 |

The first run of each module also checks its type invariant.

**Bounds.**  They are constants (`MaxConns`, `MaxRestarts`, `MaxFaults`, `MaxEdits`,
`MaxErrnos`, `MaxSent`, `MaxRows`, `MaxWrites`, the sets of connections and requests).  The table has fewer slots than owners
(segment) or as many as clients (races), so that it fills up, refuses, and that two
newcomers can collide on one slot.  Races in the service are between two
requests: two workers; the second request of client 1 checks, cancels or replaces
what the first left, and may overlap it, as the answer precedes the store.  One failed statement and one restart are enough for each window
between two statements, since every step is a possible place.  In `Sessions` two
descriptors, one with the number of EMFILE, force reuse by the third connection
and run out with two open.  The pool has two workers that can race while a third
sleeps, and one request more than its capacity.  In `Exchange` the strings go up to the width of their
arrays, so that lengths are on both sides of 127; the numbers are -1, those on both sides
of every boundary of the encoder, and the largest int; frames are cut inside the
head, behind it and inside the message.  In `SecureData` two workers let two
Consults overlap in every order of number, answer, store and counter, and two negotiations let a
client renew its key, or two get theirs at once.  `secure_overlap` has a third one, so that a client that
is already settled keeps its key while the other two overlap under one number, and so that a
repeated number can be put right; a counter update that fails lets numbers repeat without an
overlap.  The texts sealed in the runs are a whole block and one with a NUL inside; every length
from none to two blocks and a byte is an assumption that TLC evaluates.  In `NodeList` two numbers are enough to renumber a node onto a free and
onto a taken number, and three writes for each administrator to undo what the other
saw.  Symmetry is used in runs
without liveness only, over sets no property tells apart; model values that
CHOOSE could meet are not among them.

`MCSecureData` has TLC evaluate two more assumptions on its way: `CipherIsRijndael`, the published
example of the 128-bit cipher, and `DecryptUndoesEncrypt`, over all nine sizes and three modes;
`MCSecureOverlap` a third one, `TextsRoundTrip`, over the lengths of texts.

**Deadlock** is checked in `segment`, `pool`, `secure_data`, `secure_overlap` and `node_list`.  The pool never stops, as a sleeper can
always wake up unasked, which is why `EveryRequestServed` is checked under fairness
that does not include unasked wakeups.  The other runs may stop: clients run out
of their bounded requests, a dead server is not always started again, and an exchange is over
when both sides have closed.

**Fairness** is assumed of the pool and of an exchange.  In the pool: weak fairness of the reactor's step inside
`append` and of each worker's step, which is that the operating system
keeps running threads.  New requests and spurious wakeups are owed nothing.  Weak
fairness suffices although the mutex may be taken and released over and over by
others, because the requests of an instance are finite.  In the exchange: weak fairness of the client's steps, `select`'s
clock among them, and of the server's, its end of the socket closing when the process dies.  `ClientReturns` needs both:
behind the first byte of an answer the client waits for the rest without a time-out.  Nothing is assumed of the
network, which may break or fall silent at any time; so the property excepts the client that waits
in `readn` inside an answer whose sender has fallen silent (`Deserted`), which nothing in the code ends.  Liveness of a client's wait over
the whole service is not claimed: `Sessions` shows that an overtaken connection can be left open
and unread, until the client's own time-out.

## 4. The proofs

`KeyTableProofs` has the lemmas about scans that the two table modules share: `FirstOfHit` (a scan
with a hit stops at a first one, proved from well-foundedness of inclusion on finite intervals),
`WriteInTable`, `EntryInTable`.

`KeySegmentProofs` (for all `Procs`, `Owners`, `SecKeys`, `KeyIDs`, `MaxNode`; from
`MaxNode \in Nat`, `NoOwner \notin Owners`, `KeyIDs \subseteq Int`):

- `SegmentInv`: `Spec => []Inv`, with `Inv == TypeOK /\ OneSlotPerOwner /\ NoHoles`.
  The conjunction is inductive.  That a write goes to the first free slot
  keeps the used slots a prefix;
  that it prefers the owner's slot keeps owners unique.
- `SegmentOneSlot`, `SegmentNoHoles`: its parts.
- `SegmentKeysSurvive`: from `Inv` and `CreatorInv`: the segment exists while a program is attached,
  at most one program is in the rest of its creating constructor, and it has not zeroed the segment yet.
- `SegmentImplementsMap`: `Spec => ImplementsKeyMap`.  Initial states map to initial states,
  each call to its action of `KeyMap` or a stutter.  The heart is `KeptCount`: as owners
  have one slot each, a table without free slots holds exactly MaxNode owners, so
  -1 is returned exactly when the map is full.

`KeyServiceProofs` (for all clients, workers, menus and bounds; from `MaxNode \in Nat \ {0}` and what the module assumes of its constants):

- `KeyServiceTyped`: `TypeOK`, and `StepInv`: a worker between taking and closing has a request,
  of the kind its step belongs to, and a scan's `i` is a slot of the table.
- `KeyServiceNumbers`: `Spec => []SoloNumbersUnique`, from four invariants that are inductive together.
  `CounterInv`: recorded solo numbers are below the counter.  `NumberInv`: a worker that has read the counter
  but not written it back has -1, or a number above all recorded ones and those about to be recorded.  `AloneInv`: a solo
  worker between the two still has the counter's value, and no other is there.  `RecordInv`: solo workers
  about to record have different numbers below the counter.  They are needed because of the late ones:
  a worker overtaken between reading and writing back sets the counter back, but, by `NumberInv`, not
  below a number a solo worker used.  Only a failed `getKeyID` writes 0, and that ends every promise at once.
- The lemmas are one for each action; steps that touch neither counter nor numbers share `QuietSolo`.

`KeyServiceProofs` goes on from `KeyServiceTyped`, with the same assumptions, in three more parts.  A settled key is kept:

- `KeyServiceKept`: `Spec => []KeptInv`, inductive together with `TypeInv`.
  `CleanInv`: a worker recorded as undisturbed has no conflict at any of its steps.
  `NodeInv`: what a consult stores is its own client's.  `ConsultAt`, `CancelAt`: how far an undisturbed
  consult or cancellation has come: no slot of its client before its own, the halves it has copied are
  still there, and after `updata_status` no row of its client is in use.  `SettledInv`: a settled key is in its client's
  first slot, its rows are as promised, nobody is about to write to that slot.
- `KeyServiceSettled`: `Spec => []SettledKeyKept`.
- The argument is a frame: a worker's step changes the table only in the slot it has chosen, rows and promises only
  of its own client, and it chooses only its client's slot or a free one (`Frame`, shown once for
  each action).  Hence the steps of others keep `ConsultAt`, `CancelAt` and `SettledInv`
  (`ConsultOthers`, `CancelOthers`, `SettledOthers`), and each action is left with its own client.

Client and server agree:

- `KeyServiceAnswers`: `Spec => []AgreeInv`.  `OnceInv`: a request is in one place, in the queue or with one worker.
  `KnownInv`: a client's numbers only grow, and nothing has reached it of a request that is not answered yet.
  `SentInv`: a consult past its answer has the node its client was, or is about to be, told of.  `ToldInv`: a settled key was told, and no
  worker will answer its request again; the same for the promise a cancellation carries in `seen`.
- `KeyServiceAgrees`: `Spec => []BothSidesAgree`.

A check of a settled key decides right, from `KeptInv` and `AgreeInv`:

- `KeyServiceScans`: `Spec => []CheckInv`: the scan of a check is not past the slot of the key it saw settled.  A cancellation withdraws
  the promise and makes it again, and the key could seem to have moved in between; so the invariant also holds
  while an undisturbed cancellation has the promise in hand (`Promised`).  That no later consult makes
  the same promise again needs the request numbers of `AgreeInv`.
- `KeyServiceChecksRight`: `Spec => CheckDecidesRight`.

`ThreadPoolProofs` (for all `Workers`, finite, `Requests`, `MaxQueue`):

- `PoolInvariant`: types, and who is between lock and unlock holds the mutex, until an overrun.
- `PoolListLocked`: mutual exclusion follows.
- `PoolNoLostWakeup`: while someone sleeps, at least as many others are on their way to the list as
  requests wait in it, but for one about to be signalled; a step of a worker is a count
  of `Coming` that moves by one (`CountWorkers`).

`NodeListProofs` (for all administrators, finite sets of numbers, names, bounds):

- `NodeListInvariant`: `Spec => []Inv`, with `Inv == TypeOK /\ ListInv /\ DialogInv /\ ReportedUpdateIsStored`.
  `ListInv` is stronger than `SyncedListIsRight`: the rows of a list in step are stored as shown, and no
  number is in two rows, without which removing a row would leave another one of a deleted node.
  `DialogInv`: the node an undisturbed dialog is about is stored, without which its
  update would report success on nothing.
- `NodeListSynced`, `NodeListReports`, `NodeListCrash`: the properties of the run follow.

`SessionsProofs` (for all connections, descriptors and workers; from what `Sessions` assumes of its constants):

- `SessionsInvariant`: `Spec => []SessionsInv`, with `SessionsInv == TypeOK /\ Objects /\ Descriptors /\ Owned`.
  `Descriptors`: an object names its own descriptor or -1, the kernel watches only open descriptors, and
  no connection has two.  `Owned` is the heart and holds as long as no connection was closed twice:
  `OneHolder`: from the event that fired to `remove_fd` an object is in one place, with one thread or in the queue, and
  its descriptor stays disarmed; `HolderKnows`: who holds it works for the connection the descriptor
  names now, for a request nobody handled before; `Promises`: the three properties as facts about the past.
- A thread stops being a holder at `remove_fd`, although it is still inside `close_connect`, about to write
  `m_sockfd = -1` into an object that may be another connection's by then.  That is what makes the
  properties doubtful, and why the invariant counts holders by step and not by object:
  what such a thread still writes must not matter to the new holder.
- `SessionsAnswers`, `SessionsOwnCut`, `SessionsOnce`: the three properties of the run.
- The proof showed that the model let `addfd` register a descriptor that another thread had closed
  in between, which epoll_ctl refuses with EBADF; `AddFd` has that condition now.

`SecureDataProofs` (for all clients, workers, slots, texts, keys, mishaps and numbers of negotiations; from what the
module assumes of its constants; what a theorem supposes beyond that is in the theorem):

- `SecureDataInvariant`: `Spec => []SecureInv`, with `SecureInv == SoundInv /\ TablesInv /\ ServerInv /\ SoleInv /\ OrderInv /\ LastOrdered`.
  `SoundInv`: types, and that messages and what was opened are sealed and opened texts.  `TablesInv`: a client's
  table has its own node, in the first slot.  `SoleInv` follows a Consult that no other meets (`Alone`): nobody else is busy,
  its slot is the first its client has, and after the copy its node is there.  `ServerInv` says what its end leaves
  behind (`Kept`): the node in the client's first slot (`FirstFor`), no slot of another client with its
  number (`Proper`), the counter above that number, and no busy worker that could change this (`Harmless`: busy for
  another client, under a later number or none, with another slot).  `OrderInv`: what "client" and "object" in `knows` say of table
  and object, that a message in good order is sealed under its client's last negotiation, and that the server's
  object has its number until the answer.  `LastOrdered`: what was opened in good order was opened with the key of its sealing.
- Why the conditions of good order are needed shows in the proof.  `Proper` is lost when an overlapping Consult has read the same
  number, hence `sole`; when a slot had the number before, hence its second half; and when the counter
  goes back to 0, hence the end of all promises there.  `Harmless` carries the rest: Consults that begin later
  overlap each other as they like, share numbers among themselves, and choose each other's slots, but all above the number kept.
  A table without room needs no exception: the Consult that is not stored is not `sole` any more.
- `SealedByNumber`, `OrderedUnderstood`: the properties of the runs; the second supposes `RoundTrip`.
- `SameKeyUnderstands` and `SecureDataTypes` rest on `SoundInv` alone and suppose `RoundTrip` and `CipherTypes`: that what cipher and Base64 seal
  under a key they open under it, that sealing makes digits and opening bytes.  The proofs
  carry messages through the system; that the algorithms are right is what TLC checks, with `SameKeyGivesText`
  and `TypeOK` of the run `secure_data` and with the assumptions of the two `MC` modules.

`ExchangeProofs` (for all requests, answers, key numbers and cuts; from `ExchangeAssumption` alone: what is sent is a struct
with its arrays filled and its ints within an int, `cmdType` and `rv` are not negative, the client's arrays hold
strings, and a cut is an offset.  The code justifies it: the client clears its struct and fills it with
`strcpy`, `sprintf` and `getHmac`, which all end a string within the array for the ids of the JSON files
(`SecKeyClient/Client.cpp:28`), its commands are 0, 1 and 2, and no handler sends the rv -1, section 6):

- `CodecKeeps`: `CodecFaithful`, which speaks of constants only.  What `encode` and `Pack_queue` make of a message one of the
  programs sends, `unPack_queue` and `decode` turn into that message again, unless it is an answer whose number was
  refused, and the decoder runs off the chain; and four bytes hold the length of the frame.  In order:
  what the recursive functions `NumberOf` and `Chain` are is not given by their definitions, a CHOOSE, until some function
  is shown to satisfy them.  `LengthRecursion` builds one, for any recursion to a shorter sequence, out of the functions that
  satisfy the equation up to a length; instead of induction it uses that a set of numbers has a least member, which follows
  from a theorem of the library about finite sets (`LeastOf`).  `NumberKept` is `IntToChar` and back, the leading zero
  included, `NodeRead` one node, `ChainRead` and `QueueRead` the sequence around the nodes with its one or two bytes of length,
  `MemberDecoded` one member of a struct, with the eight bytes `StoreInt` writes into an int, and
  `DecodedChain` all of them.
- `ExchangeInvariant`: `Spec => []ExchangeInv`.  Its heart is the stream: what an end has read, what is in
  flight to it and what is still to be written make up, in this order, the one frame of the message its peer sent, until a
  reset takes bytes away or an end falls silent, after which none arrive any more (`Flow` and `ReadInv`).  `FrameInv` is the
  frame as it was packed, `EncodeInv` and `DecodeInv` say that code object and struct are where `Encoded` and `Unpacked`
  are after the members so far; `HistoryInv` what was sent and what was received at which step.
- The invariant is needed whole: that the first four bytes are the length rests on the pieces being in order, that
  the rest is the message on the length, and that a server's answer is one to what was asked on what it decoded.
- `DecodersOnChain`: `Spec => []DecodersStayOnChain`.
- `ExchangeDelivers`: `Spec => ImplementsDelivery`.  `Ask`, `Handle` and the two `Decoded` steps are the steps of `Delivery`,
  everything the wire does in between is a stutter.
- `ExchangeTypes`: `Spec => []TypeOK`, by `ExchangeTyped`: while an end encodes or decodes, its object and its struct are
  `Encoded` and `Unpacked` of a message that is sent, of which `EncodedTyped` and `DecodedTyped` say what they look like
  member by member; in every other step they stay.  `Read_Next_node` copies as many bytes as the node it reads
  says (`CopyOver`); that no member outgrows its array rests on the encoder of the peer, whose members fit, on
  the codec, which gives their lengths back, and on the stream having arrived whole and in order.

The type invariants of the other modules above are theorems as well: `SegmentTypes`, `KeyServiceTypes`, `PoolTypes`,
`NodeListTypes`, `SessionsTypes`.

Every invariant and every action property of a passing run, and both refinements, are theorems.  Only model-checked: liveness
(`EveryRequestServed`, `ClientReturns`), which is beyond this prover; the violations; and that the cipher and Base64 undo
what they do, which the theorems about `SecureData` suppose: for every block that is a computation
over a finite field, out of the provers' reach, and TLC evaluates it for the messages of the run.

## 5. What the checks found

Each is a run that TLC refutes, against a line of the repository.

1. `RevokedKeyRefused`: Check ignores the status Cancel sets; a cancelled key still passes.
2. `SuccessMeansStored`: Consult answers success before it stores, and ignores that the table is full.
3. `OneThreadPerSocket`: the second close_connect of a refused request closes whatever connection
   has been given the descriptor since.

What the modules show on their way, and no run repeats since it is the code's plain text:

- A client without a row in `secnode`, deleted by the administrator, makes check_client dereference a null row before
  it could return false (`SecKeyServer/Mysql_database.cpp:136`), and the server ends: `CheckUnknownClient`.
- A successful Cancel is answered 1, where `SecKeyServer/Respond_Code.h:5` knows 0 and -1.
- A full request list is pushed to without the mutex, and the mutex unlocked twice
  (`ListLockedBelowCapacity` stops at the first overrun for that reason).
- Two newcomers may get the same slot; overlapping consults may use the same key number, or
  set the counter back; a failed getKeyID resets it; session objects are shared for the
  length of close_connect.  The conditions of the properties say so.
- Two clients may thus have slots with one number, and `Read_Memory` by number takes the first of them:
  the API then opens one client's message, and seals the answer, with the other client's key.  `OrderedIsUnderstood` excepts a
  client whose own Consult overlapped another or got a number that was taken; it does not except the others.
- A rest of an answer that never comes, because a host or the link went away without a word, holds the client's
  command for ever: behind the first byte there is no time-out (`SecKeyClient/TcpSocket.cpp:441`).  Without the exception
  of `Deserted`, TLC refutes `ClientReturns`.
- The API never looks at a key's status, and ignores that `Read_Memory` found nothing; on a table
  without keys it takes number 0, which every free slot has.
- The administration's search by time uses Oracle's to_date, which MySQL refuses: its answer is always empty.  Its list
  is empty at start, as the window is built before the database is open.  An update of a row that is
  gone reports success.  `createtime` is written with a 12-hour clock.

## 6. What is not modelled, and why

- BaseASN1's functions that neither message reaches: bit strings, BMP strings, nulls, single characters,
  `DER_ItAsn1_GetLengthInfo`.  Failed allocations, everywhere.
- Two threads inside one MYSQL handle: the client library leaves it undefined; a statement that fails is what
  the models have of it.
- The pool's construction and destruction (main never reaches the latter), `connectDB`, `closeDB`, `setListen`,
  the copy of `ServerInfo`.
- Class `AES` without a key, and the sizes `MakeKey` refuses: `SecKey` uses neither.
- The administration's page that shows srvcfg, drawing of authorisation codes, painting.
- Logs, JSON, `testmain.cpp`, the Windows build: no behaviour of the system's own.
- Assumptions: every client names the server's own serverid (all JSON files do); rv = -1 is never sent, so the
  exits of the client on it are unreachable; a segment's programs agree on maxnode;
  `m_customer_count` never reaches MAX_FD; the number is `secnode`'s primary key.

## 7. Plan

Done: the table and its map, the segment, the service, the sessions, the pool, the exchange with its codec, the
Encryption API with its cipher, the administration; proofs about the segment, the service, the sessions, the Encryption API, the pool, the exchange and the
administration: every invariant and action property of their passing runs.

Left, extending the model:

1. Programs that disagree on maxnode, in `KeySegment`.
2. The MYSQL handle with query, store_result and fetch as separate steps, once its behaviour is known.
3. Sessions and pool composed; `m_customer_count`.

Left, proving more: `RoundTrip` from a weaker supposition, that `DecryptBlock` undoes `EncryptBlock` for one block: Base64, the
padding and the chaining of blocks around it, by the recursion lemmas of `ExchangeProofs`.  The cipher itself stays with TLC.
