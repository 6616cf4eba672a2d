------------------------------ MODULE MsgCodec ------------------------------
(***************************************************************************)
(* RequestMsg and RespondMsg on their way through a code object:           *)
(* BaseASN1Code with its chain (m_header) and the node it has come to      *)
(* (m_next), RequestCode and Respond_Code with their struct (m_msg).       *)
(* A char array of a struct is a sequence of its width in bytes.           *)
(***************************************************************************)
EXTENDS DerCodec

\* The members of the two structs, in the order they are declared, encoded and
\* decoded, and the widths of the arrays.
RequestFields == <<"cmdType", "clientId", "authCode", "serverId", "r1">>
RespondFields == <<"rv", "clientId", "serverId", "r2", "seckeyid">>

Width    == [clientId |-> 12, authCode |-> 65, serverId |-> 12, r1 |-> 64, r2 |-> 64]
IsInt(f) == f \in {"cmdType", "rv", "seckeyid"}

Zeros(n)     == [i \in 1..n |-> 0]
ZeroMsg(fs)  == [f \in Range(fs) |-> IF IsInt(f) THEN 0 ELSE Zeros(Width[f])]

\* strlen + 1 bytes of an array.
Terminated(s) == SubSeq(s, 1, SelectInSeq(s, LAMBDA b : b = 0))
-----------------------------------------------------------------------------
(* A code object while it encodes. *)

NewCode == [chain |-> <<>>, next |-> 0]

\* Write_Header_node; the first member of both structs is never negative.
WriteHeaderNode(v) == [chain |-> <<WriteInteger(v).out>>, next |-> 1]

\* Write_Next_node: a node that could not be made is left out of the chain.
WriteNextNode(code, node) ==
    IF node.rv # NoErr THEN code
    ELSE [chain |-> Append(code.chain, node.out), next |-> code.next + 1]

\* Member i of a request: strings up to their end.
EncodeRequest(code, msg, i) ==
    LET f == RequestFields[i]
    IN IF i = 1 THEN WriteHeaderNode(msg[f])
       ELSE WriteNextNode(code, EncodeChar(Terminated(msg[f])))

\* Member i of an answer: arrays in their whole width.
EncodeRespond(code, msg, i) ==
    LET f == RespondFields[i]
    IN IF i = 1 THEN WriteHeaderNode(msg[f])
       ELSE WriteNextNode(code, IF IsInt(f) THEN WriteInteger(msg[f]) ELSE EncodeChar(msg[f]))

PackQueue(code) == WriteSequence(code.chain).out.data
-----------------------------------------------------------------------------
(* A code object while it decodes. *)

\* unPack_queue: when the message is no sequence, there is no chain.
UnpackQueue(bytes) ==
    LET s == ReadSequence(StringToAnyBuf(bytes))
    IN [chain |-> s.out, next |-> IF s.out = <<>> THEN 0 ELSE 1]

NextNode(code) ==
    [code EXCEPT !.next = IF code.next < Len(code.chain) THEN code.next + 1 ELSE 0]

\* memcpy of bytes to the start of an array, all of them: nobody compares their number
\* with the width.  Those beyond it, which the code writes over the members behind, show
\* as an array that has grown.
CopyOver(s, bytes) ==
    [i \in DOMAIN s \union DOMAIN bytes |-> IF i \in DOMAIN bytes THEN bytes[i] ELSE s[i]]

\* Read_Header_node, Read_Next_node of an int: ReadInteger stores eight bytes where
\* the struct has four, and so clears the first four of the array that follows.
StoreInt(msg, fs, i, v) ==
    LET m == [msg EXCEPT ![fs[i]] = v]
    IN IF i = Len(fs) THEN m ELSE [m EXCEPT ![fs[i + 1]] = CopyOver(@, Zeros(4))]

\* Read_Next_node of a string.
StoreString(msg, fs, i, bytes) == [msg EXCEPT ![fs[i]] = CopyOver(@, bytes)]

\* Member i of a message, read from the node the object has come to.
DecodeField(code, msg, fs, i) ==
    LET node == code.chain[code.next]
    IN IF IsInt(fs[i]) THEN StoreInt(msg, fs, i, ReadInteger(node).out)
       ELSE StoreString(msg, fs, i, ReadPrintableString(node).out.data)
=============================================================================
