---------------------------- MODULE MCSecureData ----------------------------
(***************************************************************************)
(* Two clients, two workers, two negotiations, and texts at which padding  *)
(* could fail: a whole block, and a NUL in the middle.                     *)
(***************************************************************************)
EXTENDS SecureData

CONSTANTS c1, c2, w1, w2

Sym == Permutations({c1, c2}) \union Permutations({w1, w2})

ZeroKey == Listed(16, LAMBDA i : 0)
Keys2 == <<Listed(16, LAMBDA i : 47 + i), Listed(16, LAMBDA i : 96 + i)>>
JunkKey == Listed(16, LAMBDA i : 255 - i)

\* Bytes that padding could be taken for.
Text(n) == Listed(n, LAMBDA i : i)
Sayings == [p \in Programs |-> IF p = Server THEN {<<65, 0, 66>>} ELSE {Text(16)}]

\* Constants' values: all that can be sealed and opened here.
AllSealed == LET sealed == SealedTexts IN sealed
AllOpened == LET opened == OpenedTexts IN opened

\* The block cipher is Rijndael: the example of its publication for 128 bits ...
ASSUME CipherIsRijndael ==
    EncryptBlock(MakeKey(Listed(16, LAMBDA i : i - 1), ZeroKey, 16),
                 Listed(16, LAMBDA i : 17 * (i - 1)))
    = <<105, 196, 224, 216, 106, 123, 4, 48, 216, 205, 183, 128, 112, 180, 197, 90>>

\* ... and for every size of key and block, and every mode, Decrypt undoes Encrypt.
ASSUME DecryptUndoesEncrypt ==
    \A k \in {16, 24, 32}, b \in {16, 24, 32}, mode \in {ECB, CBC, CFB} :
        LET aes == MakeKey(Text(k), Text(b), b)
            data == Listed(2 * b, LAMBDA i : (37 * i) % 256)
        IN Decrypt(aes, Encrypt(aes, data, <<>>, mode).result, <<>>, mode).result = data
=============================================================================
