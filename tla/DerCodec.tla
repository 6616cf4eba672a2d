------------------------------ MODULE DerCodec ------------------------------
(***************************************************************************)
(* The DER encoder and decoder of BaseASN1, as far as the two messages use *)
(* them: whole numbers, printable strings and the sequence around them.    *)
(* The server and the client hold the same file; encoders are mapped to    *)
(* the client's copy, decoders to the server's.                            *)
(*                                                                         *)
(* A byte string is a sequence of 0..255.  A node (ITCAST_ANYBUF) has the  *)
(* type its maker gave it and its bytes; a chain linked by next is a       *)
(* sequence of nodes.  Every operation answers [rv, out] as the code       *)
(* answers a return code and an out parameter.  Failed allocations are     *)
(* left out, and so are bit strings, BMP strings and nulls, which neither  *)
(* message has.                                                            *)
(***************************************************************************)
EXTENDS Integers, Sequences, SequencesExt

Byte == 0..255

NoErr          == 0
LengthErr      == 201
LengthNotEqual == 202
DataRangeErr   == 203
InvalidTag     == 204
InputDataErr   == 106

Ok(x)   == [rv |-> NoErr, out |-> x]
Err(rv) == [rv |-> rv, out |-> <<>>]

\* The tag numbers the two messages meet.
DerTag == [INTEGER |-> 2, SEQUENCE |-> 16, STRING_PRINTABLE |-> 19]

\* The octet that stands for a tag: a sequence is marked as constructed.
DerOctet == [t \in DOMAIN DerTag |->
               IF t = "SEQUENCE" THEN 32 + DerTag[t] ELSE DerTag[t]]

AnyBuf(type, data) == [dataType |-> type, data |-> data]

HighBit(b)  == b >= 128        \* ITCAST_DER_FIRST_YES_ID_MASK
ShortId(b)  == b % 32          \* ITCAST_DER_SHORT_ID_MASK

\* Big-endian bytes: n of them for v, and the number that bytes stand for.
BytesOf(v, n)    == [i \in 1..n |-> (v \div 256^(n - i)) % 256]
NumberOf[bytes \in Seq(Byte)] ==
    IF bytes = <<>> THEN 0 ELSE NumberOf[Front(bytes)] * 256 + Last(bytes)
-----------------------------------------------------------------------------
(* Tag, length and number, the low level. *)

\* The tag's value and how many bytes it takes: one, or a chain of bytes that
\* ends with the first one whose high bit is set.
GetTagInfo(d) ==
    IF ShortId(d[1]) # 31
    THEN [value |-> IF HighBit(d[1]) THEN d[1] ELSE ShortId(d[1]), size |-> 1]
    ELSE LET n == SelectInSubSeq(d, 2, Len(d), HighBit)
         IN [value |-> NumberOf[[i \in 1..(n - 1) |-> d[i + 1] % 128] \o <<d[n]>>],
             size  |-> n]

\* Mutant: a length of one byte is written as it is.
ShortFormTooLong(n) == IF n <= 255 THEN 1 ELSE IF n < 65535 THEN 3 ELSE 4

\* How many bytes the length field takes.
LengthOfSize(n) == IF n <= 127 THEN 1
                   ELSE IF n <= 255 THEN 2
                   ELSE IF n < 65535 THEN 3
                   ELSE IF n <= 16777215 THEN 4 ELSE 5

\* The length field: the length itself, or a count of bytes and then the bytes.
WriteLength(n) == LET size == LengthOfSize(n)
                  IN IF size = 1 THEN <<n>> ELSE <<128 + size - 1>> \o BytesOf(n, size - 1)

\* The length a length field stands for, and how many bytes the field takes.
GetLengthInfo(d) ==
    LET n == d[1] % 128
    IN IF ~HighBit(d[1]) THEN Ok([value |-> n, size |-> 1])
       ELSE IF n > 4 THEN Err(LengthErr)
       ELSE Ok([value |-> NumberOf[SubSeq(d, 2, IF n = 0 THEN 2 ELSE n + 1)], size |-> n + 1])

\* Mutant: 0x10000 is still written in two bytes.
IntToCharLate(v) ==
    LET n == IF v <= 255 THEN 1 ELSE IF v <= 65536 THEN 2 ELSE IF v <= 16777215 THEN 3 ELSE 4
        bytes == BytesOf(v, n)
    IN IF v < 0 THEN Err(DataRangeErr)
       ELSE Ok(IF HighBit(bytes[1]) THEN <<0>> \o bytes ELSE bytes)

\* A whole number in as few bytes as it needs, with a zero in front when the
\* first would have its high bit set.  The parameter is an unsigned 64-bit
\* number, so that a negative int arrives as one far above 2^32 - 1.
IntToChar(v) ==
    LET n == IF v <= 255 THEN 1 ELSE IF v <= 65535 THEN 2 ELSE IF v <= 16777215 THEN 3 ELSE 4
        bytes == BytesOf(v, n)
    IN IF v < 0 THEN Err(DataRangeErr)
       ELSE Ok(IF HighBit(bytes[1]) THEN <<0>> \o bytes ELSE bytes)

CharToInt(d) == NumberOf[IF d[1] = 0 /\ Len(d) > 1 THEN Tail(d) ELSE d]

\* Tag and length of a node's data; a number whose first byte has its high bit
\* set gets a zero in front.
WriteTagAndLength(buf, tag) ==
    LET zero == tag = DerTag.INTEGER /\ HighBit(buf.data[1])
        len  == Len(buf.data) + IF zero THEN 1 ELSE 0
    IN <<tag>> \o WriteLength(len) \o IF zero THEN <<0>> ELSE <<>>

\* Mutant: the length field's last byte is taken for the first of the data.
ReadTagAndLengthEarly(buf) ==
    LET tag  == GetTagInfo(buf.data)
        len  == GetLengthInfo(SubSeq(buf.data, tag.size + 1, Len(buf.data)))
    IN IF tag.size + len.out.size + len.out.value # Len(buf.data) THEN Err(LengthNotEqual)
       ELSE Ok(AnyBuf(tag.value, SubSeq(buf.data, tag.size + len.out.size, Len(buf.data))))

\* The data behind tag and length, which have to account for the whole node.
ReadTagAndLength(buf) ==
    LET tag  == GetTagInfo(buf.data)
        len  == GetLengthInfo(SubSeq(buf.data, tag.size + 1, Len(buf.data)))
        from == tag.size + len.out.size + 1
        d    == SubSeq(buf.data, from, Len(buf.data))
    IN IF tag.size + len.out.size + len.out.value # Len(buf.data) THEN Err(LengthNotEqual)
       ELSE Ok(AnyBuf(tag.value,
                      IF tag.value = DerTag.INTEGER /\ Len(d) > 1 /\ d[1] = 0 /\ HighBit(d[2])
                      THEN Tail(d) ELSE d))
-----------------------------------------------------------------------------
(* Numbers, strings and sequences. *)

WriteInteger(v) ==
    LET c == IntToChar(v)
    IN IF c.rv # NoErr THEN c
       ELSE Ok(AnyBuf(DerTag.INTEGER, <<DerOctet.INTEGER, Len(c.out)>> \o c.out))

\* ReadInteger looks neither at the tag nor at the bytes behind the number.
ReadInteger(buf) ==
    LET tag == GetTagInfo(buf.data)
        len == GetLengthInfo(SubSeq(buf.data, tag.size + 1, Len(buf.data)))
        at  == tag.size + len.out.size
    IN IF len.rv # NoErr THEN len
       ELSE Ok(CharToInt(SubSeq(buf.data, at + 1, at + len.out.value)))

\* The bytes of a string or of an already encoded message, as a node.
StringToAnyBuf(s) == AnyBuf(DerTag.STRING_PRINTABLE, s)

WriteCharString(buf) ==
    Ok(AnyBuf(DerTag.STRING_PRINTABLE,
              WriteTagAndLength(buf, DerOctet.STRING_PRINTABLE) \o buf.data))

\* Every string here is made by StringToAnyBuf, so that none is a BMP string.
WritePrintableString(buf) == WriteCharString(buf)
ReadPrintableString(buf)  == ReadTagAndLength(buf)

\* The chain's nodes one after the other behind tag and length.
WriteSequence(chain) ==
    LET body == FlattenSeq([i \in DOMAIN chain |-> chain[i].data])
    IN Ok(AnyBuf(DerTag.SEQUENCE, <<DerOctet.SEQUENCE>> \o WriteLength(Len(body)) \o body))

\* The nodes d consists of.  One that is not within d, or that has no readable
\* length, ends the chain and spoils it.
Spoilt(rv) == <<AnyBuf(rv, <<>>)>>

Chain[d \in Seq(Byte)] ==
    IF d = <<>> THEN <<>>
    ELSE LET tag == GetTagInfo(d)
             len == GetLengthInfo(SubSeq(d, tag.size + 1, Len(d)))
             end == tag.size + len.out.size + len.out.value
         IN IF len.rv # NoErr THEN Spoilt(len.rv)
            ELSE IF end \notin 1..Len(d) THEN Spoilt(LengthErr)
            ELSE <<AnyBuf(tag.value, SubSeq(d, 1, end))>> \o Chain[SubSeq(d, end + 1, Len(d))]

ReadChain(d) ==
    LET nodes == Chain[d]
    IN IF nodes # <<>> /\ Last(nodes).data = <<>> THEN Err(Last(nodes).dataType) ELSE Ok(nodes)

ReadSequence(buf) ==
    LET tag == GetTagInfo(buf.data)
        len == GetLengthInfo(SubSeq(buf.data, tag.size + 1, Len(buf.data)))
        head == tag.size + len.out.size
    IN IF tag.value # DerTag.SEQUENCE THEN Err(InvalidTag)
       ELSE IF len.rv # NoErr THEN len
       ELSE IF Len(buf.data) # head + len.out.value THEN Err(LengthNotEqual)
       ELSE ReadChain(SubSeq(buf.data, head + 1, Len(buf.data)))

\* A string of no bytes is refused, and so is a length without a string.
EncodeChar(s) == IF s = <<>> THEN Err(InputDataErr) ELSE WritePrintableString(StringToAnyBuf(s))
=============================================================================
