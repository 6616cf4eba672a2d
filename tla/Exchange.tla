------------------------------ MODULE Exchange ------------------------------
(***************************************************************************)
(* One connection between a client and the server: the request is encoded, *)
(* framed and written, arrives in pieces, is read, decoded and handled;    *)
(* the answer goes back the same way.  Composes the message codec with     *)
(* TcpSocket.  The client's socket blocks, the server's does not.          *)
(*                                                                         *)
(* What the handler does between decoding and answering is KeyService.     *)
(***************************************************************************)
EXTENDS MsgCodec

CONSTANTS
    Requests,       \* the requests the client may send
    ServerId,       \* the name the server answers with
    R2s, Numbers,   \* the random strings and key numbers it may answer with
    Cuts,           \* offsets in a frame at which the network may cut it
    NoMsg           \* no message yet

End     == {"client", "server"}
Peer(e) == IF e = "client" THEN "server" ELSE "client"

\* Which member list an end writes and which it reads.
Outgoing(e) == IF e = "client" THEN RequestFields ELSE RespondFields
Incoming(e) == Outgoing(Peer(e))

VARIABLES
    pc,      \* pc[e]: where e is in its part of the exchange
    msg,     \* msg[e]: m_msg of the code object e works with
    code,    \* code[e]: that object's chain
    at,      \* at[e]: the member it encodes or decodes next
    frame,   \* frame[e]: what writen writes ...
    put,     \* put[e]: ... and how much of it is written
    got,     \* got[e]: what the current readn has read ...
    want,    \* want[e]: ... of that many bytes
    pipe,    \* pipe[e]: bytes that arrived from e and were not read yet
    conn,    \* the connection: none yet, up, or broken
    silent,    \* the ends from which nothing arrives any more, unnoticed by either
    open,    \* open[e]: e has not closed its socket
    sent,    \* sent[e]: the message e has begun to encode
    rcvd     \* rcvd[e]: the message e's decoder has returned

coding == <<msg, code, at, sent, rcvd>>
wire   == <<frame, put, got, want, pipe, conn, silent, open>>
vars   == <<pc, coding, wire>>

Init ==
    /\ pc = [e \in End |-> "idle"]
    /\ msg = [e \in End |-> NoMsg] /\ code = [e \in End |-> NewCode] /\ at = [e \in End |-> 1]
    /\ frame = [e \in End |-> <<>>] /\ put = [e \in End |-> 0] /\ got = [e \in End |-> <<>>] /\ want = [e \in End |-> 0]
    /\ pipe = [e \in End |-> <<>>] /\ conn = "none" /\ silent = {} /\ open = [e \in End |-> TRUE]
    /\ sent = [e \in End |-> NoMsg] /\ rcvd = [e \in End |-> NoMsg]

Go(e, step) == pc' = [pc EXCEPT ![e] = step]
-----------------------------------------------------------------------------
(* Encoding. *)

Begin(e, m) ==
    /\ msg' = [msg EXCEPT ![e] = m] /\ sent' = [sent EXCEPT ![e] = m]
    /\ code' = [code EXCEPT ![e] = NewCode] /\ at' = [at EXCEPT ![e] = 1]
    /\ Go(e, "encode") /\ UNCHANGED rcvd

\* Client: the menu's command fills in a request.
Ask == /\ pc["client"] = "idle"
       /\ \E m \in Requests : Begin("client", m)
       /\ UNCHANGED wire

\* Member i of what e sends.
EncodeMember(e, c, m, i) == IF e = "client" THEN EncodeRequest(c, m, i) ELSE EncodeRespond(c, m, i)

Encode(e) ==
    /\ pc[e] = "encode" /\ at[e] <= Len(Outgoing(e))
    /\ code' = [code EXCEPT ![e] = EncodeMember(e, @, msg[e], at[e])]
    /\ at' = [at EXCEPT ![e] = @ + 1]
    /\ UNCHANGED <<pc, msg, sent, rcvd, wire>>

\* Pack_queue, and the frame that sendMsg puts around it: four bytes of length.
Frame(data) == BytesOf(Len(data), 4) \o data

Pack(e) ==
    /\ pc[e] = "encode" /\ at[e] > Len(Outgoing(e))
    /\ frame' = [frame EXCEPT ![e] = Frame(PackQueue(code[e]))]
    /\ Go(e, IF e = "client" THEN "connect" ELSE "write")
    /\ UNCHANGED <<coding, put, got, want, pipe, conn, silent, open>>
-----------------------------------------------------------------------------
(* TcpSocket. *)

\* connectToHost; its callers do not look at what it returns.
Connect ==
    /\ pc["client"] = "connect"
    /\ conn' \in {"up", "broken"}
    /\ Go("client", "write") /\ UNCHANGED <<coding, frame, put, got, want, pipe, silent, open>>

\* The peer's end of the connection has reached e.
Ended(e) == ~open[Peer(e)] /\ Peer(e) \notin silent

\* writen: one write, as far as one of the cuts or to the end.  Where nothing arrives any
\* more the kernel takes the bytes all the same.
Write(e) ==
    /\ pc[e] = "write" /\ conn = "up" /\ ~Ended(e)
    /\ \E n \in Cuts \cup {Len(frame[e])} :
         /\ put[e] < n /\ n <= Len(frame[e])
         /\ put' = [put EXCEPT ![e] = n]
         /\ pipe' = IF e \in silent THEN pipe
                    ELSE [pipe EXCEPT ![e] = @ \o SubSeq(frame[e], put[e] + 1, n)]
         /\ Go(e, IF n < Len(frame[e]) THEN "write"
                  ELSE IF e = "client" THEN "select" ELSE "close")
    /\ UNCHANGED <<coding, frame, got, want, conn, silent, open>>

\* write fails: the server ignores SIGPIPE, the client may die of it.
WriteFails(e) ==
    /\ pc[e] = "write" /\ (conn = "broken" \/ Ended(e))
    /\ IF e = "server" THEN Go(e, "close") /\ UNCHANGED open
       ELSE \/ Go(e, "failed") /\ UNCHANGED open
            \/ Go(e, "killed") /\ open' = [open EXCEPT ![e] = FALSE]
    /\ UNCHANGED <<coding, frame, put, got, want, pipe, conn, silent>>

\* Something to read for e: bytes, the peer's end, or an error.
Readable(e) == conn # "none" /\ (pipe[Peer(e)] # <<>> \/ Ended(e) \/ conn = "broken")

ReadN(e, step, n) ==
    /\ want' = [want EXCEPT ![e] = n] /\ got' = [got EXCEPT ![e] = <<>>] /\ Go(e, step)

\* recvMsg begins when select says so; the server enters it from EPOLLIN.
Select(e) ==
    /\ \/ e = "client" /\ pc[e] = "select" /\ Readable(e)
       \/ e = "server" /\ pc[e] = "idle" /\ pipe["client"] # <<>>
    /\ ReadN(e, "head", 4)
    /\ UNCHANGED <<coding, frame, put, pipe, conn, silent, open>>

\* EPOLLRDHUP, EPOLLHUP or EPOLLERR before anything was read.
HangUp ==
    /\ pc["server"] = "idle" /\ conn # "none" /\ (conn = "broken" \/ Ended("server"))
    /\ Go("server", "close") /\ UNCHANGED <<coding, wire>>

\* readTimeout: only before the first byte.
TimeOut ==
    /\ pc["client"] = "select" /\ ~Readable("client")
    /\ Go("client", "failed") /\ UNCHANGED <<coding, wire>>

\* readn: one read takes what has arrived, but no more than it still wants.
Read(e) ==
    LET k == Len(pipe[Peer(e)])  left == want[e] - Len(got[e])  n == IF k < left THEN k ELSE left
        g == got[e] \o SubSeq(pipe[Peer(e)], 1, n)
    IN /\ pc[e] \in {"head", "body"} /\ k > 0
       /\ pipe' = [pipe EXCEPT ![Peer(e)] = SubSeq(@, n + 1, k)]
       /\ CASE n < left -> got' = [got EXCEPT ![e] = g] /\ UNCHANGED <<pc, want, coding>>
            [] n = left /\ pc[e] = "head" -> ReadN(e, "body", NumberOf[g]) /\ UNCHANGED coding
            [] n = left /\ pc[e] = "body" ->
                 /\ code' = [code EXCEPT ![e] = UnpackQueue(g)]
                 /\ msg' = [msg EXCEPT ![e] = ZeroMsg(Incoming(e))]
                 /\ at' = [at EXCEPT ![e] = 1]
                 /\ ReadN(e, "decode", 0) /\ UNCHANGED <<sent, rcvd>>
       /\ UNCHANGED <<frame, put, conn, silent, open>>

\* Mutant: readn takes a read of no bytes, the end of the stream, for an interruption.
ReadFailsUnlessEnd(e) ==
    /\ pc[e] \in {"head", "body"} /\ pipe[Peer(e)] = <<>>
    /\ e = "server" \/ conn = "broken"
    /\ got' = [got EXCEPT ![e] = <<>>]
    /\ Go(e, IF e = "server" THEN "close" ELSE "failed")
    /\ UNCHANGED <<coding, frame, put, want, pipe, conn, silent, open>>

\* Nothing there: the end of the stream or an error, and for the socket that does
\* not block also EAGAIN, which readn takes for an error.
ReadFails(e) ==
    /\ pc[e] \in {"head", "body"} /\ pipe[Peer(e)] = <<>>
    /\ e = "server" \/ conn = "broken" \/ Ended(e)
    /\ got' = [got EXCEPT ![e] = <<>>]
    /\ Go(e, IF e = "server" THEN "close" ELSE "failed")
    /\ UNCHANGED <<coding, frame, put, want, pipe, conn, silent, open>>

\* disConnect at the end of a command, close_connect of the server.
Close(e) ==
    /\ pc[e] = "close"
    /\ open' = [open EXCEPT ![e] = FALSE]
    /\ Go(e, "done") /\ UNCHANGED <<coding, frame, put, got, want, pipe, conn, silent>>
-----------------------------------------------------------------------------
(* Decoding. *)

\* The decoder follows m_next without looking whether there is a node.
Decode(e) ==
    /\ pc[e] = "decode" /\ at[e] <= Len(Incoming(e)) /\ code[e].next # 0
    /\ msg' = [msg EXCEPT ![e] = DecodeField(code[e], @, Incoming(e), at[e])]
    /\ code' = [code EXCEPT ![e] = NextNode(@)]
    /\ at' = [at EXCEPT ![e] = @ + 1]
    /\ UNCHANGED <<pc, sent, rcvd, wire>>

NullNode(e) ==
    /\ pc[e] = "decode" /\ at[e] <= Len(Incoming(e)) /\ code[e].next = 0
    /\ open' = [open EXCEPT ![e] = FALSE]
    /\ Go(e, "crashed") /\ UNCHANGED <<coding, frame, put, got, want, pipe, conn, silent>>

Decoded(e) ==
    /\ pc[e] = "decode" /\ at[e] > Len(Incoming(e))
    /\ rcvd' = [rcvd EXCEPT ![e] = msg[e]]
    /\ Go(e, IF e = "client" THEN "close" ELSE "handle")
    /\ UNCHANGED <<msg, code, at, sent, wire>>

\* The handlers' answers: Consult's carries both names, the string and the number
\* (-1 when the number could not be read), the others' nothing but rv.
AnswersTo(request) ==
    IF request.cmdType = 0
    THEN {[rv |-> 0, clientId |-> request.clientId, serverId |-> ServerId, r2 |-> r2,
           seckeyid |-> id] : r2 \in R2s, id \in Numbers}
    ELSE {[ZeroMsg(RespondFields) EXCEPT !.rv = IF request.cmdType = 1 THEN 0 ELSE 1]}

Handle ==
    /\ pc["server"] = "handle"
    /\ \E m \in AnswersTo(rcvd["server"]) : Begin("server", m)
    /\ UNCHANGED wire

\* A handler that refuses the request closes the connection without an answer.
Refuse ==
    /\ pc["server"] = "handle"
    /\ Go("server", "close") /\ UNCHANGED <<coding, wire>>
-----------------------------------------------------------------------------
(* The world around them. *)

\* The connection is reset: what was under way is lost, in one direction or both.
Break ==
    /\ conn = "up" /\ conn' = "broken"
    /\ \E gone \in SUBSET End : pipe' = [e \in End |-> IF e \in gone THEN <<>> ELSE pipe[e]]
    /\ UNCHANGED <<pc, coding, frame, put, got, want, silent, open>>

\* A host or the network between goes away without a word: nothing that is open arrives
\* from one end or from both from now on, and nobody is told.
Silence ==
    /\ conn = "up"
    /\ \E gone \in SUBSET {e \in End : open[e]} : gone \ silent # {} /\ silent' = silent \union gone
    /\ UNCHANGED <<pc, coding, frame, put, got, want, pipe, conn, open>>

\* Another worker brings the server process down.
ServerDies ==
    /\ pc["server"] \notin {"done", "dead", "crashed"}
    /\ open' = [open EXCEPT !["server"] = FALSE]
    /\ Go("server", "dead") /\ UNCHANGED <<coding, frame, put, got, want, pipe, conn, silent>>

EndStep(e) == \/ Encode(e) \/ Pack(e) \/ Write(e) \/ WriteFails(e)
              \/ Select(e) \/ Read(e) \/ ReadFails(e)
              \/ Decode(e) \/ NullNode(e) \/ Decoded(e) \/ Close(e)

ClientStep == EndStep("client") \/ Connect \/ TimeOut
ServerStep == EndStep("server") \/ HangUp \/ Handle \/ Refuse

Next == Ask \/ ClientStep \/ ServerStep \/ Break \/ Silence \/ ServerDies

\* Both programs run on, and select's clock does.  Nothing is assumed of the network.
Spec == Init /\ [][Next]_vars /\ WF_vars(ClientStep) /\ WF_vars(ServerStep)
-----------------------------------------------------------------------------
(* Properties. *)

IntMax == 2147483647

\* A struct with all its members, its ints no larger than an int is, its arrays filled
\* with bytes.
IsMsg(m, fs) ==
    /\ DOMAIN m = Range(fs) /\ m = [f \in Range(fs) |-> m[f]]
    /\ \A f \in Range(fs) : IF IsInt(f) THEN m[f] \in Int /\ m[f] <= IntMax
                            ELSE m[f] \in Seq(Byte) /\ Len(m[f]) = Width[f]

\* A string, and zeros behind it: what strcpy leaves in an array that was cleared.
IsString(s) == \E n \in 1..Len(s) : /\ \A i \in 1..(n - 1) : s[i] # 0
                                    /\ \A i \in n..Len(s) : s[i] = 0
NoneOr(m, fs) == m = NoMsg \/ IsMsg(m, fs)

\* What each end may come to send.
SentBy(e) == IF e = "client" THEN Requests ELSE UNION {AnswersTo(q) : q \in Requests}

\* Messages are structs, none of them is NoMsg, their first member is not negative, and
\* a client's arrays hold strings; a cut is an offset.
ASSUME ExchangeAssumption ==
    /\ Cuts \subseteq Nat
    /\ \A e \in End : \A m \in SentBy(e) :
          /\ m # NoMsg /\ IsMsg(m, Outgoing(e)) /\ m[Outgoing(e)[1]] >= 0
          /\ e = "client" => \A f \in Range(Outgoing(e)) : IsInt(f) \/ IsString(m[f])

\* Type invariant: above all, what is written, in flight and read are bytes, and no
\* member of a message ever has more of them than its array.
TypeOK ==
    /\ pc \in [End -> {"idle", "encode", "connect", "write", "select", "head", "body",
                        "decode", "handle", "close", "done", "failed", "killed", "crashed",
                        "dead"}]
    /\ \A e \in End : /\ msg[e] = NoMsg \/ \E d \in End : IsMsg(msg[e], Outgoing(d))
                      /\ NoneOr(sent[e], Outgoing(e)) /\ NoneOr(rcvd[e], Incoming(e))
                      /\ \A i \in DOMAIN code[e].chain : code[e].chain[i].data \in Seq(Byte)
                      /\ code[e].next \in 0..Len(code[e].chain) /\ at[e] \in 1..6
                      /\ frame[e] \in Seq(Byte) /\ put[e] \in 0..Len(frame[e]) /\ got[e] \in Seq(Byte) /\ want[e] \in Nat
                      /\ pipe[e] \in Seq(Byte)
    /\ conn \in {"none", "up", "broken"} /\ silent \subseteq End /\ open \in [End -> BOOLEAN]

\* Refinement: whatever the wire does with the bytes, the handler hears the very
\* request that was asked or none, and the client is told the very answer or none.
D == INSTANCE Delivery WITH
       Answers <- [q \in Requests |-> AnswersTo(q)],
       asked <- sent["client"], heard <- rcvd["server"],
       answered <- sent["server"], told <- rcvd["client"]

ImplementsDelivery == D!Spec

\* The decoders follow the chain without looking (Read_Next_node).  No request, and no
\* answer but one that has no number, leads one of them past its end.
DecodersStayOnChain ==
    /\ pc["server"] # "crashed"
    /\ pc["client"] = "crashed" => sent["server"].seckeyid < 0

\* The code object of e after each member of m that it encoded, the message it packs,
\* and the code object and struct of e after each member it decoded from data.
Encoded(e, m) ==
    LET after[i \in 0..Len(Outgoing(e))] ==
            IF i = 0 THEN NewCode ELSE EncodeMember(e, after[i - 1], m, i)
    IN after

Packed(e, m) == PackQueue(Encoded(e, m)[Len(Outgoing(e))])

Unpacked(e, data) ==
    LET after[i \in 0..Len(Incoming(e))] ==
            IF i = 0 THEN [code |-> UnpackQueue(data), msg |-> ZeroMsg(Incoming(e))]
            ELSE LET s == after[i - 1]
                 IN [code |-> NextNode(s.code), msg |-> DecodeField(s.code, s.msg, Incoming(e), i)]
    IN after

\* What encode and Pack_queue make of a message that one of the programs sends, unPack_queue
\* and decode turn into that message again, unless it is an answer without a number and leads
\* the decoder off its chain; and the head of a frame says how long the frame is.
CodecFaithful ==
    \A e \in End : \A m \in SentBy(e) :
        \A data \in {Packed(e, m)} : \A step \in {Unpacked(Peer(e), data)} :
            LET last == Len(Incoming(Peer(e)))
                Lost(i) == step[i].code.next = 0
            IN /\ data \in Seq(Byte) /\ NumberOf[BytesOf(Len(data), 4)] = Len(data)
               /\ \/ (\A i \in 0..(last - 1) : ~Lost(i)) /\ step[last].msg = m
                  \/ e = "server" /\ m.seckeyid < 0 /\ \E i \in 0..(last - 1) : Lost(i)

\* The client waits in readn for the rest of an answer, and the server's side has gone
\* silent: select's clock ran for the first byte only.
Deserted == /\ pc["client"] \in {"head", "body"} /\ pipe["server"] = <<>>
            /\ conn = "up" /\ "server" \in silent

\* A command the user chose comes to an end whatever else happens to the connection and to
\* the server, unless the connection goes silent between the first and the last byte of
\* the answer (recvMsg, readn): a server that dies or refuses, a reset, a silence before
\* or behind the answer do not hold it.
ClientReturns ==
    pc["client"] # "idle" ~> \/ pc["client"] \in {"done", "failed", "killed", "crashed"}
                            \/ Deserted
=============================================================================
