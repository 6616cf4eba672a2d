----------------------------- MODULE SecureData -----------------------------
(***************************************************************************)
(* What the negotiated keys are for: class SecKey of the Encryption API.   *)
(* Client programs and one server program each have a key table and, once  *)
(* they open it, an object that remembers one key number.  endataAES seals *)
(* a text under the remembered number's key and puts the number before it; *)
(* dedataAES looks the number up again, and remembers it from then on.     *)
(*                                                                         *)
(* Meanwhile the workers of SecKeyServer negotiate keys.  A Consult takes  *)
(* the number from the database, answers the client, then looks for a slot *)
(* in the server's table, fills it, and writes the number after its own    *)
(* back; the client stores when the answer arrives, if it does.            *)
(* KeyService has the rest of a negotiation: the scan slot by slot, the    *)
(* copy in two halves, the random strings and the other statements.        *)
(*                                                                         *)
(* Texts and keys are sequences of bytes and are really encrypted.  Base64 *)
(* digits are their values 0..63, and 64 is the sign '='.                  *)
(***************************************************************************)
EXTENDS KeyTable, Rijndael

CONSTANTS Clients,     \* the client programs
          Server,      \* the server program
          Workers,     \* SecKeyServer's workers
          Slots,       \* the numbers of the slots of each table
          TextsOf,     \* the texts each program seals
          NewKeys,     \* the keys negotiated, in the order of their negotiations
          Sealed,      \* EncryptionAES and DecryptionAES as functions, SealedTexts and
          Opened,      \* OpenedTexts below
          MaxSent,     \* a bound: how many messages clients send in all
          Mishaps,     \* what may go wrong: "number" getKeyID, "answer" on its way to the
                       \* client, "count" updataKeyID, "kill" SecKeyServer as a whole
          Junk,        \* what the stack may hold where a key was not read
          Nothing      \* no message, no object, no key, no work

ASSUME SecureDataAssumption ==
    /\ Server \notin Clients /\ NoOwner \notin Clients /\ Nothing \notin Clients
    /\ Slots # {} /\ Slots \subseteq Nat
    /\ NewKeys \in Seq(Seq(Byte)) /\ MaxSent \in Nat
    /\ Mishaps \subseteq {"number", "answer", "count", "kill"}
    /\ \A n \in DOMAIN NewKeys : Len(NewKeys[n]) = 16 /\ NewKeys[n] # NoKey
    /\ Len(Junk) = 16 /\ Len(NoKey) = 16

VARIABLES table,    \* the table of each program
          number,   \* m_seckeyid of each program's object
          keysn,    \* the counter of key numbers in the database
          job,      \* the Consult each worker is busy with: the node it made, its next
                    \* step, the slot it found, and if no other Consult met it between its
                    \* two uses of the counter
          drawn,    \* how many keys were negotiated, for the bound
          offered,  \* the node of an answer the client has not taken yet
          sent,     \* how many messages clients sent, for the bound
          mail,     \* the message from each client on its way
          answer,   \* the message to each client on its way
          owed,     \* clients whose message the server opened and has not answered
          made,     \* the node of each client's last negotiation
          knows,    \* who has that node and its number for good: the "server"'s table,
                    \* the "client"'s, the client's "object"
          caller,   \* whose message the server opened last, if that was in good order
          last      \* the text last opened, and how it came about

keys  == <<keysn, job, drawn, made>>
posts == <<sent, mail, answer, owed>>
vars  == <<table, number, keys, offered, posts, knows, caller, last>>

Programs == Clients \union {Server}
Texts    == UNION {TextsOf[p] : p \in Programs}
Keys     == {NewKeys[n] : n \in DOMAIN NewKeys} \union {NoKey, Junk}
-----------------------------------------------------------------------------
(* Base64. *)

\* Mutant: the masks forgotten.
EncodeThreeUnmasked(b) == <<b[1] \div 4, b[1] * 16 + b[2] \div 16, b[2] * 4 + b[3] \div 64, b[3]>>

EncodeThree(b) == <<b[1] \div 4, (b[1] % 4) * 16 + (b[2] \div 16),
                    (b[2] % 16) * 4 + (b[3] \div 64), b[3] % 64>>
DecodeFour(d)  == <<(d[1] * 4 + (d[2] \div 16)) % 256, ((d[2] % 16) * 16 + (d[3] \div 4)) % 256,
                    ((d[3] % 4) * 64 + d[4]) % 256>>

Groups(s, n)  == Listed(Len(s) \div n, LAMBDA i : SubSeq(s, n * i - n + 1, n * i))
Rest(s, n)    == SubSeq(s, Len(s) - (Len(s) % n) + 1, Len(s))
Filled(s, n)  == SubSeq(s \o <<0, 0, 0, 0>>, 1, n)

base64_encode(s) ==
    LET whole == FoldLeft(LAMBDA t, g : t \o EncodeThree(g), <<>>, Groups(s, 3))
        i == Len(s) % 3
    IN IF i = 0 THEN whole
       ELSE whole \o SubSeq(EncodeThree(Filled(Rest(s, 3), 3)), 1, i + 1)
                  \o Listed(3 - i, LAMBDA j : 64)

\* Decoding ends at the first '='.  A find() that misses answers npos, 255 in a byte,
\* for the digits a last group lacks; the bytes they would make are not used.
base64_decode(s) ==
    LET digits == SelectSeq(s, LAMBDA d : d # 64)
        i == Len(digits) % 4
        whole == FoldLeft(LAMBDA t, g : t \o DecodeFour(g), <<>>, Groups(digits, 4))
    IN IF i = 0 THEN whole
       ELSE whole \o SubSeq(DecodeFour(Filled(Rest(digits, 4), 4)), 1, i - 1)
-----------------------------------------------------------------------------
(* One text under one key. *)

BLOCK_SIZE == 16
IV == Listed(BLOCK_SIZE, LAMBDA i : 97)

\* What a C string function sees of bytes.
CString(s) == IF \E i \in DOMAIN s : s[i] = 0
              THEN SubSeq(s, 1, FirstOf({i \in DOMAIN s : s[i] = 0}) - 1)
              ELSE s

AesOf(seckey) == MakeKey(seckey, IV, BLOCK_SIZE)

\* Mutant: no padding for a text of whole blocks.
PaddingNone(n) == (BLOCK_SIZE - (n % BLOCK_SIZE)) % BLOCK_SIZE

Padding(n) == BLOCK_SIZE - (n % BLOCK_SIZE)

\* strcpy leaves zeros from the first NUL of the text to the padding.
EncryptionAES(strSrc, seckey) ==
    LET text == CString(strSrc)
        padding == Padding(Len(strSrc))
        szDataIn == text \o Listed(Len(strSrc) - Len(text), LAMBDA i : 0)
                         \o Listed(padding, LAMBDA i : padding)
    IN base64_encode(Encrypt(AesOf(seckey), szDataIn, <<>>, CBC).result)

\* The padding test holds for every byte.  As a signed char a last byte above 127 strips
\* nothing, and so does one above the length, because the loop compares unsigned numbers;
\* equal to the length it runs on to index -1, and whatever is there all bytes end as 0.
\* No data at all is the byte at index -1 again, and no text.
Unpadded(out) ==
    LET n == Len(out)
        tmp == Last(out)
    IN IF n = 0 \/ tmp = 0 \/ tmp > 127 \/ tmp > n THEN out
       ELSE IF tmp < n /\ \A i \in n - tmp + 1..n : out[i] = tmp THEN SubSeq(out, 1, n - tmp)
       ELSE <<>>

DecryptionAES(strSrc, seckey) ==
    LET strData == base64_decode(strSrc)
    IN CString(Unpadded(Decrypt(AesOf(seckey), strData, strData, CBC).result))

\* Both for all keys and texts of the instance; with @@ TLC lists a function's values.
SealedTexts == <<>> @@ [kt \in Keys \X Texts |-> EncryptionAES(kt[2], kt[1])]
OpenedTexts == <<>> @@ [kb \in Keys \X {SealedTexts[kt] : kt \in Keys \X Texts} |->
                           DecryptionAES(kb[2], kb[1])]

ASSUME CipherAssumption == Sealed = SealedTexts /\ Opened = OpenedTexts
-----------------------------------------------------------------------------
(* The object.  Its Read_Memory leaves the node as it was, which is on the stack, when no *)
(* slot has the number; the code does not look at the result.                             *)

KeysRead(p, n) == IF NumberSlots(table[p], n) # {}
                  THEN {table[p][FirstOf(NumberSlots(table[p], n))].seckey}
                  ELSE {Junk} \union {table[p][i].seckey : i \in Slots}

\* A message, and for the properties its text, its key, and if it was sent in good order.
Message(id, body, text, key, ordered) ==
    [id |-> id, body |-> body, text |-> text, key |-> key, ordered |-> ordered]

endataAES(p, strSrc, key, ordered) ==
    Message(number[p], Sealed[<<key, strSrc>>], strSrc, key, ordered)

Listening == [said |-> <<>>, heard |-> <<>>, sameKey |-> FALSE, ordered |-> FALSE]

\* Mutant: the number in the message is used and not remembered.
dedataAESForgets(p, m, key) ==
    /\ last' = [said |-> m.text, heard |-> Opened[<<key, m.body>>],
                sameKey |-> key = m.key, ordered |-> m.ordered]
    /\ UNCHANGED number

dedataAES(p, m, key) ==
    /\ last' = [said |-> m.text, heard |-> Opened[<<key, m.body>>],
                sameKey |-> key = m.key, ordered |-> m.ordered]
    /\ number' = [number EXCEPT ![p] = m.id]
-----------------------------------------------------------------------------
Init ==
    /\ table = [p \in Programs |-> ZeroTable(Slots)]
    /\ number = [p \in Programs |-> Nothing]
    /\ keysn = 1 /\ job = [w \in Workers |-> Nothing] /\ drawn = 0
    /\ offered = [c \in Clients |-> Nothing]
    /\ sent = 0
    /\ mail = [c \in Clients |-> Nothing] /\ answer = [c \in Clients |-> Nothing]
    /\ owed = {}
    /\ made = [c \in Clients |-> Nothing] /\ knows = [c \in Clients |-> {}]
    /\ caller = Nothing
    /\ last = Listening
-----------------------------------------------------------------------------
(* Negotiations. *)

Busy == {w \in Workers : job[w] # Nothing}

\* A message under way is no longer in good order.
Disturbed(m) == IF m = Nothing THEN Nothing ELSE [m EXCEPT !.ordered = FALSE]

\* A worker takes a Consult of c: getKeyID, -1 when the statement fails, and sendMsg.  The
\* answer is on its way before anything is stored.  It may not be: c has given up since, the
\* send fails and ends the Consult, or there is no number and c's decoder dies of it.
Respond(w, c) ==
    /\ w \notin Busy /\ drawn < Len(NewKeys) /\ drawn' = drawn + 1
    /\ \E n \in {keysn} \union (IF "number" \in Mishaps THEN {-1} ELSE {}) :
         LET node == [status |-> 0, seckeyID |-> n, owner |-> c, seckey |-> NewKeys[drawn + 1]]
             sole == /\ n # -1 /\ Busy = {}
                     /\ \A i \in Slots : table[Server][i].seckeyID = n => table[Server][i].owner = c
             others == [x \in Workers |-> IF x \in Busy THEN [job[x] EXCEPT !.sole = FALSE]
                                          ELSE Nothing]
             busy == [others EXCEPT ![w] = [node |-> node, step |-> "scan", slot |-> 0,
                                            sole |-> sole]]
         IN /\ \/ n # -1 /\ job' = busy /\ offered' = [offered EXCEPT ![c] = node]
               \/ (n = -1 \/ "answer" \in Mishaps) /\ job' \in {busy, others} /\ UNCHANGED offered
            /\ made' = [made EXCEPT ![c] = node]
    /\ knows' = [knows EXCEPT ![c] = {}]
    /\ mail' = [mail EXCEPT ![c] = Disturbed(@)] /\ answer' = [answer EXCEPT ![c] = Disturbed(@)]
    /\ caller' = IF caller = c THEN Nothing ELSE caller
    /\ last' = Listening
    /\ UNCHANGED <<table, number, keysn, sent, owed>>

At(w, step) == w \in Busy /\ job[w].step = step

\* Write_Memory looks for the slot; its -1 when there is none is ignored ...
Scan(w) ==
    /\ At(w, "scan")
    /\ LET S == WriteSlots(table[Server], job[w].node.owner)
       IN job' = IF S = {} THEN [job EXCEPT ![w].step = "count", ![w].sole = FALSE]
                 ELSE [job EXCEPT ![w].step = "copy", ![w].slot = FirstOf(S)]
    /\ last' = Listening
    /\ UNCHANGED <<table, number, keysn, drawn, made, offered, posts, knows, caller>>

\* ... and copies the node there, whatever the slot holds by now.
Copy(w) ==
    /\ At(w, "copy")
    /\ table' = [table EXCEPT ![Server][job[w].slot] = job[w].node]
    /\ job' = [job EXCEPT ![w].step = "count", ![w].slot = 0]
    /\ last' = Listening
    /\ UNCHANGED <<number, keysn, drawn, made, offered, posts, knows, caller>>

\* updataKeyID: the number this Consult read, plus one; 0 after a failed getKeyID, and
\* from then on every number may come again.  The statement may fail.
Count(w) ==
    /\ At(w, "count")
    /\ job' = [job EXCEPT ![w] = Nothing]
    /\ \/ /\ keysn' = job[w].node.seckeyID + 1
          /\ knows' = [c \in Clients |->
                         IF keysn' = 0 THEN knows[c] \ {"server"}
                         ELSE IF c = job[w].node.owner /\ job[w].sole
                              THEN knows[c] \union {"server"} ELSE knows[c]]
          /\ caller' = IF keysn' = 0 THEN Nothing ELSE caller
       \/ "count" \in Mishaps /\ UNCHANGED <<keysn, knows, caller>>
    /\ last' = Listening
    /\ UNCHANGED <<table, number, drawn, made, offered, posts>>

\* SecKeyServer is killed or brought down, and started again: table and counter stay.
KillServer ==
    /\ "kill" \in Mishaps /\ Busy # {} /\ job' = [w \in Workers |-> Nothing]
    /\ last' = Listening
    /\ UNCHANGED <<table, number, keysn, drawn, made, offered, posts, knows, caller>>

\* The answer reaches c, be it before or after the server's table has the key ...
ClientStores(c) ==
    /\ offered[c] # Nothing
    /\ table' = [table EXCEPT ![c] = WriteMemory(@, offered[c])]
    /\ offered' = [offered EXCEPT ![c] = Nothing]
    /\ knows' = IF offered[c] = made[c] THEN [knows EXCEPT ![c] = @ \union {"client"}] ELSE knows
    /\ last' = Listening
    /\ UNCHANGED <<number, keys, posts, caller>>

\* ... or is lost, or c has given up.
AnswerLost(c) ==
    /\ "answer" \in Mishaps /\ offered[c] # Nothing
    /\ offered' = [offered EXCEPT ![c] = Nothing]
    /\ last' = Listening
    /\ UNCHANGED <<table, number, keys, posts, knows, caller>>
-----------------------------------------------------------------------------
(* Texts. *)

\* The constructor, at any time; a program may open an object again.
SecKey(p) ==
    /\ number' = [number EXCEPT ![p] = FirstNumber(table[p])]
    /\ knows' = IF p \in Clients /\ "client" \in knows[p]
                THEN [knows EXCEPT ![p] = @ \union {"object"}] ELSE knows
    /\ caller' = IF p = Server THEN Nothing ELSE caller
    /\ last' = Listening
    /\ UNCHANGED <<table, keys, offered, posts>>

\* A client seals a text for the server, in good order when it and its object have the
\* key of its last negotiation.
Send(c) ==
    /\ number[c] # Nothing /\ mail[c] = Nothing
    /\ sent < MaxSent /\ sent' = sent + 1
    /\ \E t \in TextsOf[c], key \in KeysRead(c, number[c]) :
          mail' = [mail EXCEPT ![c] = endataAES(c, t, key, {"client", "object"} \subseteq knows[c])]
    /\ last' = Listening
    /\ UNCHANGED <<table, number, keys, offered, answer, owed, knows, caller>>

\* The server opens it, in good order when by now its table has that key as well.
Receive(c) ==
    /\ number[Server] # Nothing /\ mail[c] # Nothing
    /\ LET m == [mail[c] EXCEPT !.ordered = @ /\ "server" \in knows[c]]
       IN /\ \E key \in KeysRead(Server, m.id) : dedataAES(Server, m, key)
          /\ caller' = IF m.ordered THEN c ELSE Nothing
    /\ mail' = [mail EXCEPT ![c] = Nothing]
    /\ owed' = owed \union {c}
    /\ UNCHANGED <<table, keys, offered, sent, answer, knows>>

\* It seals an answer, under the number it remembers.  That is in good order when the
\* message it opened last was this client's, and in good order.
Answer(c) ==
    /\ c \in owed /\ answer[c] = Nothing
    /\ \E t \in TextsOf[Server], key \in KeysRead(Server, number[Server]) :
          answer' = [answer EXCEPT ![c] = endataAES(Server, t, key, caller = c)]
    /\ owed' = owed \ {c}
    /\ last' = Listening
    /\ UNCHANGED <<table, number, keys, offered, sent, mail, knows, caller>>

\* The client opens the answer, and remembers the answer's number.
Read(c) ==
    /\ number[c] # Nothing /\ answer[c] # Nothing
    /\ \E key \in KeysRead(c, answer[c].id) : dedataAES(c, answer[c], key)
    /\ answer' = [answer EXCEPT ![c] = Nothing]
    /\ knows' = IF answer[c].ordered THEN knows ELSE [knows EXCEPT ![c] = @ \ {"object"}]
    /\ UNCHANGED <<table, keys, offered, sent, mail, owed, caller>>

Consult(w) == (\E c \in Clients : Respond(w, c)) \/ Scan(w) \/ Copy(w) \/ Count(w)

Next ==
    \/ \E w \in Workers : Consult(w)
    \/ KillServer
    \/ \E c \in Clients : \/ ClientStores(c) \/ AnswerLost(c)
                          \/ Send(c) \/ Receive(c) \/ Answer(c) \/ Read(c)
    \/ \E p \in Programs : SecKey(p)

Spec == Init /\ [][Next]_vars
-----------------------------------------------------------------------------
(* Properties. *)

MaybeNothing(S) == S \union {Nothing}

Digit   == 0..64
Numbers == -1..Len(NewKeys)
Nodes   == [status : {0}, seckeyID : Numbers, owner : Clients \union {NoOwner}, seckey : Keys]
Jobs    == [node : Nodes, step : {"scan", "copy", "count"}, slot : Slots \union {0}, sole : BOOLEAN]

ASSUME NothingAssumption == Nothing \notin Nodes

IsMessage(m) ==
    /\ m.id \in Numbers
    /\ \A i \in DOMAIN m.body : m.body[i] \in Digit
    /\ m.text \in Texts /\ m.key \in Keys /\ m.ordered \in BOOLEAN

\* Tables hold negotiated keys, a message is a number and Base64 digits, and what is opened
\* is a sequence of bytes.
TypeOK ==
    /\ \A p \in Programs, i \in Slots : table[p][i] \in Nodes
    /\ number \in [Programs -> MaybeNothing(Numbers)]
    /\ keysn \in 0..Len(NewKeys) + 1 /\ drawn \in 0..Len(NewKeys) /\ sent \in 0..MaxSent
    /\ \A w \in Workers : job[w] \in MaybeNothing(Jobs)
    /\ \A c \in Clients :
          /\ \A n \in {offered[c], made[c]} : n # Nothing => n \in Nodes /\ n.owner = c
          /\ \A m \in {mail[c], answer[c]} : m # Nothing => IsMessage(m)
    /\ knows \in [Clients -> SUBSET {"server", "client", "object"}]
    /\ owed \subseteq Clients /\ caller \in MaybeNothing(Clients)
    /\ \A i \in DOMAIN last.heard : last.heard[i] \in Byte

\* What cipher and Base64 compute for the instance's keys and texts: sealing makes digits,
\* opening makes bytes ...
CipherTypes ==
    \A k \in Keys, t \in Texts :
        LET body == Sealed[<<k, t>>]
        IN /\ \A i \in DOMAIN body : body[i] \in Digit
           /\ \A l \in Keys : LET out == Opened[<<l, body>>]
                             IN \A i \in DOMAIN out : out[i] \in Byte

\* ... and a text sealed and opened under one key comes back as far as its first NUL.
RoundTrip == \A k \in Keys, t \in Texts : Opened[<<k, Sealed[<<k, t>>]>>] = CString(t)

\* Opening with the key of the sealing gives the text back, as far as its first NUL,
\* whatever the text's length: padding, chain, cipher and Base64 undo each other.
SameKeyGivesText == last.sameKey => last.heard = CString(last.said)

\* Who keeps this order is understood: a client that opens its object after the answer to
\* its last Consult reached its table, and the server that opens the message after that
\* Consult stored its node and wrote the counter back, if no other Consult was under way
\* between that Consult's getKeyID and its updataKeyID and no other slot had its number.
\* Other clients may negotiate before and after, in any overlap, under numbers of their
\* own or shared, fail or be killed in any step, and send meanwhile.  It ends with the
\* client's next Consult and with a counter set back to 0.  The answer to such a message
\* is understood, as long as the server opened no other before it.
OrderedIsUnderstood == last.ordered => last.heard = CString(last.said)

\* A message in good order is sealed under the key of its client's last negotiation and
\* carries that number: never under the empty key of a free slot, what was on the stack,
\* another client's key, or its own old one.  The server's table has the same node for
\* the client from the end of the Consult on.
SealedUnderItsNumber ==
    \A c \in Clients : \A m \in {mail[c], answer[c]} :
        m # Nothing /\ m.ordered => /\ made[c] # Nothing
                                    /\ m.id = made[c].seckeyID /\ m.key = made[c].seckey
                                    /\ "server" \in knows[c] => Entry(table[Server], c) = made[c]
=============================================================================
