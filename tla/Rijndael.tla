------------------------------ MODULE Rijndael ------------------------------
(***************************************************************************)
(* Class AES of the Encryption API: Rijndael with keys and blocks of 16,   *)
(* 24 or 32 bytes, and its ECB, CBC and CFB modes.  A 32-bit column is a   *)
(* tuple of four bytes, most significant first; a block is a tuple of      *)
(* columns; data is a sequence of bytes.                                   *)
(*                                                                         *)
(* The source has every table as numbers, and keeps the functions beside   *)
(* them (Mul, Mul4) that made most; here each is the formula that yields   *)
(* those numbers.  Entry x of a table is at x + 1.                         *)
(***************************************************************************)
EXTENDS Integers, Sequences, SequencesExt

Byte == 0..255

\* A sequence whose elements TLC computes once.
Listed(n, f(_)) == <<>> \o [i \in 1..n |-> f(i)]
Table(f(_))     == Listed(256, LAMBDA i : f(i - 1))

\* F of v: a definition of this form is a table to TLC, computed once.
Given(v, F(_)) == F(v)

Bit(x, k)     == (x \div 2^k) % 2
XorBits(x, y) == FoldLeft(LAMBDA v, k : 2 * v + ((Bit(x, k) + Bit(y, k)) % 2), 0,
                          <<7, 6, 5, 4, 3, 2, 1, 0>>)

\* The same by halves, with a table.
HalfXor       == Listed(16, LAMBDA i : Listed(16, LAMBDA j : XorBits(i - 1, j - 1)))
XorByte(x, y) == 16 * HalfXor[x \div 16 + 1][y \div 16 + 1] + HalfXor[(x % 16) + 1][(y % 16) + 1]
XorWord(v, w) == <<XorByte(v[1], w[1]), XorByte(v[2], w[2]),
                   XorByte(v[3], w[3]), XorByte(v[4], w[4])>>
Xor(s, t)     == Listed(Len(s), LAMBDA i : XorByte(s[i], t[i]))
-----------------------------------------------------------------------------
(* The field of 256 elements: polynomials modulo x^8 + x^4 + x^3 + x + 1.  *)

Double(x) == IF x < 128 THEN 2 * x ELSE XorByte(2 * x - 256, 27)

\* x times y, bit by bit from y's highest.
Times(x, y) == FoldLeft(LAMBDA v, k : XorByte(Double(v), x * Bit(y, k)), 0,
                        <<7, 6, 5, 4, 3, 2, 1, 0>>)

\* As many powers of g again.
MorePowers(t, g) == LET next == Times(g, Last(t))
                    IN t \o Listed(Len(t), LAMBDA i : Times(t[i], next))

\* Powers of 3, which run through all elements but 0, and logarithms.
sm_alog == Given(3, LAMBDA g : FoldLeft(LAMBDA t, k : MorePowers(t, g), <<1>>,
                                        <<1, 2, 3, 4, 5, 6, 7, 8>>))
sm_log  == Table(LAMBDA x : IF x = 0 THEN 0 ELSE CHOOSE i \in 0..254 : sm_alog[i + 1] = x)

Mul(x, y) == IF x = 0 \/ y = 0 THEN 0
             ELSE sm_alog[((sm_log[x + 1] + sm_log[y + 1]) % 255) + 1]

Mul4(x, b) == <<Mul(x, b[1]), Mul(x, b[2]), Mul(x, b[3]), Mul(x, b[4])>>

\* The S-box: the inverse of x, its rotations added up, and 99.
Rotated(x, k) == ((x * 2^k) % 256) + (x \div 2^(8 - k))

Inverse8(x)   == IF x = 0 THEN 0 ELSE sm_alog[((255 - sm_log[x + 1]) % 255) + 1]

sm_S  == Table(LAMBDA x : FoldLeft(LAMBDA v, k : XorByte(v, Rotated(Inverse8(x), k)), 99,
                                   <<0, 1, 2, 3, 4>>))
sm_Si == Table(LAMBDA x : CHOOSE y \in Byte : sm_S[y + 1] = x)

\* SubBytes and MixColumns in one look-up, for each of the four bytes of a column ...
sm_T1 == Table(LAMBDA x : Mul4(sm_S[x + 1], <<2, 1, 1, 3>>))
sm_T2 == Table(LAMBDA x : Mul4(sm_S[x + 1], <<3, 2, 1, 1>>))
sm_T3 == Table(LAMBDA x : Mul4(sm_S[x + 1], <<1, 3, 2, 1>>))
sm_T4 == Table(LAMBDA x : Mul4(sm_S[x + 1], <<1, 1, 3, 2>>))

\* ... their inverses ...
sm_T5 == Table(LAMBDA x : Mul4(sm_Si[x + 1], <<14, 9, 13, 11>>))
sm_T6 == Table(LAMBDA x : Mul4(sm_Si[x + 1], <<11, 14, 9, 13>>))
sm_T7 == Table(LAMBDA x : Mul4(sm_Si[x + 1], <<13, 11, 14, 9>>))
sm_T8 == Table(LAMBDA x : Mul4(sm_Si[x + 1], <<9, 13, 11, 14>>))

\* ... and inverse MixColumns alone, for the round keys.
sm_U1 == Table(LAMBDA x : Mul4(x, <<14, 9, 13, 11>>))
sm_U2 == Table(LAMBDA x : Mul4(x, <<11, 14, 9, 13>>))
sm_U3 == Table(LAMBDA x : Mul4(x, <<13, 11, 14, 9>>))
sm_U4 == Table(LAMBDA x : Mul4(x, <<9, 13, 11, 14>>))

\* Powers of 2, and 2 is the 25th power of 3.
sm_rcon == Listed(30, LAMBDA i : sm_alog[((25 * (i - 1)) % 255) + 1])

\* By how many columns the bytes of a column are shifted, in one direction and back.
sm_shifts(columns) == IF columns = 8 THEN <<0, 1, 3, 4>> ELSE <<0, 1, 2, 3>>
Back(columns)      == Listed(4, LAMBDA b : (columns - sm_shifts(columns)[b]) % columns)
-----------------------------------------------------------------------------
(* Rounds.  t is a block, k its round key, s the shifts. *)

From(t, i, s) == t[((i - 1 + s) % Len(t)) + 1]

Mixed(T, t, i, s) ==
    XorWord(XorWord(T[1][From(t, i, s[1])[1] + 1], T[2][From(t, i, s[2])[2] + 1]),
            XorWord(T[3][From(t, i, s[3])[3] + 1], T[4][From(t, i, s[4])[4] + 1]))

Round(T, t, k, s) == Listed(Len(t), LAMBDA i : XorWord(Mixed(T, t, i, s), k[i]))

LastRound(S, t, k, s) ==
    Listed(Len(t), LAMBDA i : XorWord(<<S[From(t, i, s[1])[1] + 1], S[From(t, i, s[2])[2] + 1],
                                        S[From(t, i, s[3])[3] + 1], S[From(t, i, s[4])[4] + 1]>>,
                                      k[i]))

Columns(bytes) == Listed(Len(bytes) \div 4, LAMBDA i : <<bytes[4 * i - 3], bytes[4 * i - 2],
                                                         bytes[4 * i - 1], bytes[4 * i]>>)

\* One block through all the rounds of a key; keys[1] belongs to round 0.
Crypt(keys, T, S, in, s) ==
    LET start == Listed(Len(in) \div 4, LAMBDA i : XorWord(Columns(in)[i], keys[1][i]))
        t == FoldLeft(LAMBDA b, k : Round(T, b, k, s), start, SubSeq(keys, 2, Len(keys) - 1))
    IN FlattenSeq(LastRound(S, t, Last(keys), s))

\* Both entry points have a copy of the rounds for blocks of 16 bytes.
EncryptBlock(aes, in) ==
    Crypt(aes.ke, <<sm_T1, sm_T2, sm_T3, sm_T4>>, sm_S, in, sm_shifts(Len(in) \div 4))
DecryptBlock(aes, in) ==
    Crypt(aes.kd, <<sm_T5, sm_T6, sm_T7, sm_T8>>, sm_Si, in, Back(Len(in) \div 4))
-----------------------------------------------------------------------------
(* Keys. *)

SubWord(w) == <<sm_S[w[1] + 1], sm_S[w[2] + 1], sm_S[w[3] + 1], sm_S[w[4] + 1]>>

\* The evolution function: the next columns of key material, the n-th time.
Evolved(tk, n) ==
    LET l == Last(tk)
        first == XorWord(XorWord(tk[1], SubWord(<<l[2], l[3], l[4], l[1]>>)),
                         <<sm_rcon[n], 0, 0, 0>>)
    IN FoldLeft(LAMBDA new, w : Append(new, XorWord(w, IF Len(tk) = 8 /\ Len(new) = 4
                                                       THEN SubWord(Last(new)) ELSE Last(new))),
                <<first>>, Tail(tk))

RoundsOf(keyLength, blockSize) ==
    IF keyLength = 32 \/ blockSize = 32 THEN 14
    ELSE IF keyLength = 24 \/ blockSize = 24 THEN 12 ELSE 10

\* Key material for n columns at least.
Material(tk, n) ==
    FoldLeft(LAMBDA ws, r : ws \o Evolved(SubSeq(ws, Len(ws) - Len(tk) + 1, Len(ws)), r),
             tk, Listed(n \div Len(tk), LAMBDA r : r))

InvMixed(w) == XorWord(XorWord(sm_U1[w[1] + 1], sm_U2[w[2] + 1]),
                       XorWord(sm_U3[w[3] + 1], sm_U4[w[4] + 1]))

\* MakeKey, for the sizes it accepts: the round keys of both directions, and the chain.
MakeKey(key, chain, blockSize) ==
    LET bc == blockSize \div 4
        rounds == RoundsOf(Len(key), blockSize)
        words == Material(Columns(key), (rounds + 1) * bc)
        ke == Listed(rounds + 1, LAMBDA r : SubSeq(words, (r - 1) * bc + 1, r * bc))
        kd(r) == IF r \in {1, rounds + 1} THEN ke[rounds + 2 - r]
                 ELSE Listed(bc, LAMBDA i : InvMixed(ke[rounds + 2 - r][i]))
    IN [size |-> blockSize, ke |-> ke, kd |-> Listed(rounds + 1, kd), chain |-> chain]
-----------------------------------------------------------------------------
(* Modes.  Each call answers the object, whose chain has moved on, and the result.  Data *)
(* that is not a whole number of blocks leaves the result as it was.                     *)

ECB == 0
CBC == 1
CFB == 2

\* One block: its result and the chain after it.
EncryptOne(aes, in, mode) ==
    LET out == IF mode = CBC THEN EncryptBlock(aes, Xor(aes.chain, in))
               ELSE IF mode = CFB THEN Xor(EncryptBlock(aes, aes.chain), in)
               ELSE EncryptBlock(aes, in)
    IN [out |-> out, chain |-> IF mode = ECB THEN aes.chain ELSE out]

DecryptOne(aes, in, mode) ==
    [out |-> IF mode = CBC THEN Xor(DecryptBlock(aes, in), aes.chain)
             ELSE IF mode = CFB THEN Xor(EncryptBlock(aes, aes.chain), in)
             ELSE DecryptBlock(aes, in),
     chain |-> IF mode = ECB THEN aes.chain ELSE in]

Blocks(in, size) == Listed(Len(in) \div size, LAMBDA i : SubSeq(in, (i - 1) * size + 1, i * size))

InBlocks(decrypts, aes, in, result, mode) ==
    LET step(acc, block) == LET r == IF decrypts THEN DecryptOne(acc.aes, block, mode)
                                                 ELSE EncryptOne(acc.aes, block, mode)
                            IN [aes |-> [acc.aes EXCEPT !.chain = r.chain],
                                result |-> acc.result \o r.out]
    IN IF in = <<>> \/ Len(in) % aes.size # 0 THEN [aes |-> aes, result |-> result]
       ELSE FoldLeft(step, [aes |-> aes, result |-> <<>>], Blocks(in, aes.size))

Encrypt(aes, in, result, mode) == InBlocks(FALSE, aes, in, result, mode)
Decrypt(aes, in, result, mode) == InBlocks(TRUE, aes, in, result, mode)
=============================================================================
