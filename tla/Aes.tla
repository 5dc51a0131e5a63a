---------------------------------- MODULE Aes ----------------------------------
(* The cipher of src/util/aes.c that decodes the secrets of the platform.        *)
(* A 32-bit word is the sequence of its four bytes, the lowest first, as         *)
(* GET_UINT32_LE reads it; a block is four words.  aes_decode.c is at the end.   *)
EXTENDS Integers, Sequences, SequencesExt

CONSTANTS AesTexts,    \* texts, each a sequence of bytes
          AesSecrets   \* secrets of 32 bytes

VARIABLES tables,      \* the static tables; none until aes_init_done
          aes          \* the call of utils_aes_cbc under way or done, see NoCall
aesVars == <<tables, aes>>

Byte == 0 .. 255
\* Exclusive or, of bytes by halves of a byte, and of words.
XorTable == [x \in 0 .. 15 |-> [y \in 0 .. 15 |->
   LET bit(v, k) == (v \div 2^k) % 2
   IN  ((bit(x, 0) + bit(y, 0)) % 2) + 2 * ((bit(x, 1) + bit(y, 1)) % 2)
       + 4 * ((bit(x, 2) + bit(y, 2)) % 2) + 8 * ((bit(x, 3) + bit(y, 3)) % 2)]]
Xor(x, y) == 16 * XorTable[x \div 16][y \div 16] + XorTable[x % 16][y % 16]
Four(f(_)) == <<f(1), f(2), f(3), f(4)>>
XorW(v, w) == Four(LAMBDA b : Xor(v[b], w[b]))
XorAll(ws) == XorW(XorW(ws[1], ws[2]), XorW(ws[3], ws[4]))

-----------------------------------------------------------------------------
(* aes_gen_tables: a table is a sequence, entry i at place i + 1.             *)

XTIME(x) == Xor((2 * x) % 256, IF x >= 128 THEN 27 ELSE 0)
Table(f(_)) == <<>> \o [i \in 1 .. 256 |-> f(i - 1)]

\* x = (x ^ XTIME(x)) & 0xFF, n times; the powers in 16 rows of 16
Times3(x, n) == FoldLeft(LAMBDA y, i : Xor(y, XTIME(y)), x, [i \in 1 .. n |-> i])
PowTable == LET rows == FoldLeft(LAMBDA s, i : Append(s, Times3(Last(s), 16)), <<1>>, [i \in 1 .. 15 |-> i])
            IN  Table(LAMBDA i : Times3(rows[(i \div 16) + 1], i % 16))
\* log[0] is not set; the last assignment to log[1] is that of i = 255.
LogTable(pow) == Table(LAMBDA x : IF x = 0 THEN 0 ELSE CHOOSE i \in 1 .. 255 : pow[i + 1] = x)
RCON == FoldLeft(LAMBDA s, i : Append(s, XTIME(Last(s))), <<1>>, [i \in 1 .. 9 |-> i])

RotateByte(y) == ((2 * y) % 256) + (y \div 128)
ForwardBox(pow, log) == Table(LAMBDA i :
  IF i = 0 THEN 99
  ELSE LET x == pow[255 - log[i + 1] + 1]
           y1 == RotateByte(x)
           y2 == RotateByte(y1)
           y3 == RotateByte(y2)
           y4 == RotateByte(y3)
       IN  Xor(Xor(Xor(Xor(x, y1), y2), y3), Xor(y4, 99)))
ReverseBox(fsb) == Table(LAMBDA x : CHOOSE i \in Byte : fsb[i + 1] = x)

\* A word and its rotations by ROTL8: FT0 to FT3 and RT0 to RT3
Rotations(a, b, c, d) == <<<<a, b, c, d>>, <<d, a, b, c>>, <<c, d, a, b>>, <<b, c, d, a>>>>
aes_gen_tables ==
  LET pow == PowTable
      log == LogTable(pow)
      fsb == ForwardBox(pow, log)
      rsb == ReverseBox(fsb)
      mul(x, y) == IF x # 0 /\ y # 0 THEN pow[((log[x + 1] + log[y + 1]) % 255) + 1] ELSE 0
  IN  [fsb |-> fsb, rsb |-> rsb, rcon |-> RCON,
       ft |-> Table(LAMBDA i : LET x == fsb[i + 1] IN Rotations(XTIME(x), x, x, Xor(XTIME(x), x))),
       rt |-> Table(LAMBDA i : LET x == rsb[i + 1] IN Rotations(mul(14, x), mul(9, x), mul(13, x), mul(11, x)))]
NoTables == [fsb |-> <<>>]
FSb(x) == tables.fsb[x + 1]

-----------------------------------------------------------------------------
(* The key schedules.                                                         *)

KeyWords(bits) == bits \div 32
Rounds(bits) == KeyWords(bits) + 6
SubWord(w) == Four(LAMBDA b : FSb(w[b]))
\* FSb of the word rotated by a byte, with the round constant
SubRotated(w, i) == XorW(SubWord(<<w[2], w[3], w[4], w[1]>>), <<tables.rcon[i], 0, 0, 0>>)

\* Mutant: the extra substitution of a 256-bit key is left out.
NextRowNoExtra(row, i) ==
  LET w[k \in DOMAIN row] ==
        IF k = 1 THEN XorW(row[1], SubRotated(Last(row), i)) ELSE XorW(row[k], w[k - 1])
  IN  <<>> \o w
\* A turn of the loop: as many words as the key has, from the ones before them.
NextRow(row, i) ==
  LET w[k \in DOMAIN row] ==
        CASE k = 1                   -> XorW(row[1], SubRotated(Last(row), i))
          [] k = 5 /\ Len(row) = 8   -> XorW(row[5], SubWord(w[4]))
          [] OTHER                   -> XorW(row[k], w[k - 1])
  IN  <<>> \o w
Turns(bits) == CASE bits = 128 -> 10 [] bits = 192 -> 8 [] bits = 256 -> 7

\* utils_aes_setkey_dec: the rounds backwards, the inner ones through RT of FSb.
Inverted(sk, nr) ==
  <<>> \o [k \in 1 .. 4 * (nr + 1) |->
     LET i == k - 1
         w == sk[4 * (nr - (i \div 4)) + (i % 4) + 1]
     IN  IF i \div 4 \in {0, nr} THEN w ELSE XorAll(Four(LAMBDA b : tables.rt[FSb(w[b]) + 1][b]))]

-----------------------------------------------------------------------------
(* Blocks: a sequence of four words.                                          *)

\* Column j of AES_FROUND takes byte b from column j + b, AES_RROUND from j - b.
Source(j, b) == (((j - 1) + (IF aes.mode = "encrypt" THEN b - 1 ELSE 1 - b)) % 4) + 1
Round(y, r, T) ==
  Four(LAMBDA j : XorW(aes.rk[4 * r + j], XorAll(Four(LAMBDA b : T[y[Source(j, b)][b] + 1][b]))))
\* The last round looks the bytes up in a substitution box instead.
LastRound(y, r, S) ==
  Four(LAMBDA j : XorW(aes.rk[4 * r + j], Four(LAMBDA b : S[y[Source(j, b)][b] + 1])))
\* utils_aes_crypt_ecb takes the tables of the mode.
utils_aes_crypt_ecb == IF aes.mode = "encrypt" THEN [table |-> tables.ft, box |-> tables.fsb]
                       ELSE [table |-> tables.rt, box |-> tables.rsb]
XorBlock(x, y) == Four(LAMBDA j : XorW(x[j], y[j]))

Block(bytes) == Four(LAMBDA j : SubSeq(bytes, 4 * j - 3, 4 * j))
ToBlocks(bytes) == <<>> \o [i \in 1 .. Len(bytes) \div 16 |-> Block(SubSeq(bytes, 16 * i - 15, 16 * i))]
ToBytes(blocks) == <<>> \o [k \in 1 .. 16 * Len(blocks) |->
                     blocks[((k - 1) \div 16) + 1][(((k - 1) \div 4) % 4) + 1][((k - 1) % 4) + 1]]

-----------------------------------------------------------------------------
(* A call of utils_aes_cbc, in steps: the key, the blocks, their rounds.      *)

NoCall == [stage |-> "idle", ret |-> 0, mode |-> "encrypt", bits |-> 128, secret |-> <<>>, text |-> <<>>,
           pad |-> "zero", turn |-> 0, row |-> <<>>, rk |-> <<>>, iv |-> <<>>, todo |-> <<>>, out |-> <<>>,
           y |-> <<>>, round |-> 0]
\* Key and vector are the first bytes of the secret, as in aes_decode.
Called(c, mode, data, ret) ==
  LET n == KeyWords(c.bits)
      given == [i \in 1 .. n |-> SubSeq(c.secret, 4 * i - 3, 4 * i)]
  IN  [c EXCEPT !.stage = "key", !.mode = mode, !.turn = 0, !.row = given, !.rk = given, !.out = <<>>,
                !.iv = Block(SubSeq(c.secret, 1, 16)), !.todo = ToBlocks(data), !.ret = ret]
MakeTables == tables' = IF tables = NoTables THEN aes_gen_tables ELSE tables

\* To encrypt, the text is copied to the output and padded there with zeroes, but
\* then the input is read, the bytes behind it included: with the two in one buffer
\* that is the padded text.  The output needs room for a block more than the text.
\* The platform, with the same cipher, pads with the count.
Padding(n) == 16 - (n % 16)
Padded(c) == LET p == Padding(Len(c.text))
             IN  c.text \o [i \in 1 .. p |-> IF c.pad = "zero" THEN 0 ELSE p]
Encrypt ==
  /\ aes.stage = "idle"
  /\ MakeTables
  /\ \E bits \in {128, 192, 256}, pad \in {"zero", "count"}, secret \in AesSecrets, text \in AesTexts,
        room \in {15, 16} :
       LET c == [NoCall EXCEPT !.bits = bits, !.pad = pad, !.secret = secret, !.text = text]
       IN  aes' = Called(c, "encrypt", Padded(c), IF room < 16 THEN -1 ELSE 0)
\* What was encrypted is decrypted, whole or with a byte too many, which
\* utils_aes_crypt_cbc refuses.
Decrypt ==
  /\ aes.stage = "done" /\ aes.mode = "encrypt" /\ aes.ret = 0
  /\ MakeTables
  /\ \E more \in {<<>>, <<0>>} :
       aes' = Called(aes, "decrypt", ToBytes(aes.out) \o more, IF more = <<>> THEN 0 ELSE -1)

\* A turn of utils_aes_setkey_enc
ExpandKey ==
  /\ aes.stage = "key" /\ aes.turn < Turns(aes.bits)
  /\ LET row == NextRow(aes.row, aes.turn + 1)
     IN  aes' = [aes EXCEPT !.turn = @ + 1, !.row = row, !.rk = @ \o row]
  /\ UNCHANGED tables
\* The schedule is complete; the lengths are checked.
KeySet ==
  /\ aes.stage = "key" /\ aes.turn = Turns(aes.bits)
  /\ aes' = [aes EXCEPT !.stage = IF aes.ret = 0 THEN "blocks" ELSE "done",
                        !.rk = IF aes.mode = "encrypt" THEN @ ELSE Inverted(@, Rounds(aes.bits))]
  /\ UNCHANGED tables
\* The next block enters utils_aes_crypt_ecb, chained before encryption.
StartBlock ==
  /\ aes.stage = "blocks" /\ aes.todo # <<>>
  /\ LET in == IF aes.mode = "encrypt" THEN XorBlock(Head(aes.todo), aes.iv) ELSE Head(aes.todo)
     IN  aes' = [aes EXCEPT !.stage = "rounds", !.round = 1, !.y = XorBlock(in, SubSeq(aes.rk, 1, 4))]
  /\ UNCHANGED tables
InnerRound ==
  /\ aes.stage = "rounds" /\ aes.round < Rounds(aes.bits)
  /\ aes' = [aes EXCEPT !.round = @ + 1, !.y = Round(@, aes.round, utils_aes_crypt_ecb.table)]
  /\ UNCHANGED tables
\* Mutant: a decrypted block is chained to the block before it as decrypted.
ChainOutput(out, block) == [out |-> IF aes.mode = "decrypt" THEN XorBlock(out, aes.iv) ELSE out,
                            iv |-> IF aes.mode = "decrypt" THEN XorBlock(out, aes.iv) ELSE out]
\* utils_aes_crypt_cbc: the next vector is the ciphertext of this block.
Chain(out, block) == [out |-> IF aes.mode = "decrypt" THEN XorBlock(out, aes.iv) ELSE out,
                      iv |-> IF aes.mode = "decrypt" THEN block ELSE out]
EndBlock ==
  /\ aes.stage = "rounds" /\ aes.round = Rounds(aes.bits)
  /\ LET y == LastRound(aes.y, aes.round, utils_aes_crypt_ecb.box)
         c == Chain(y, Head(aes.todo))
     IN  aes' = [aes EXCEPT !.stage = "blocks", !.todo = Tail(@), !.out = Append(@, c.out), !.iv = c.iv]
  /\ UNCHANGED tables
Return == /\ aes.stage = "blocks" /\ aes.todo = <<>>
          /\ aes' = [aes EXCEPT !.stage = "done"]
          /\ UNCHANGED tables

AesInit == tables = NoTables /\ aes = NoCall
AesNext == Encrypt \/ Decrypt \/ ExpandKey \/ KeySet \/ StartBlock \/ InnerRound \/ EndBlock \/ Return

-----------------------------------------------------------------------------
\* url_trim: blanks and control characters
url_trim(ch) == ch < 32 \/ ch = 32
\* aes_decode, behind the Base64 and utils_aes_cbc: the text up to its first zero
\* byte, without the blanks at its end; 1 to 16, a padding byte, counts as one.
CString(bytes) == LET zeros == {i \in DOMAIN bytes : bytes[i] = 0}
                  IN  IF zeros = {} THEN bytes ELSE SubSeq(bytes, 1, (CHOOSE i \in zeros : \A j \in zeros : i <= j) - 1)
Trimmed(s) == LET ends == {i \in DOMAIN s : ~url_trim(s[i])}
              IN  IF ends = {} THEN <<>> ELSE SubSeq(s, 1, CHOOSE i \in ends : \A j \in ends : j <= i)
aes_decode == IF aes.ret # 0 THEN <<-1>> ELSE Trimmed(CString(ToBytes(aes.out)))

\* The examples of FIPS 197, chained to the first half of their key.
CountingKey == [i \in 1 .. 32 |-> i - 1]
CountingText == [i \in 1 .. 16 |-> 16 * (i - 1)]
Standard(bits) ==
  CASE bits = 128 -> <<105, 196, 224, 216, 106, 123, 4, 48, 216, 205, 183, 128, 112, 180, 197, 90>>
    [] bits = 192 -> <<221, 169, 124, 164, 134, 76, 223, 224, 110, 175, 112, 160, 236, 13, 113, 145>>
    [] bits = 256 -> <<142, 162, 183, 202, 81, 103, 69, 191, 234, 252, 73, 144, 75, 73, 96, 137>>

\* aes.c:395 and :800, aes_decode.c:57.  The generated tables and key schedules are
\* those of the standard for every key length; a text of any length, chained over
\* several blocks, is read back; a secret of the platform is decoded to its text
\* without blanks and padding; anything but whole blocks gives no answer.
SecretsReadBack ==
  LET whole == Padded(aes)
  IN  aes.stage = "done" =>
        /\ aes.mode = "encrypt" => Len(aes.out) = (IF aes.ret = 0 THEN Len(whole) \div 16 ELSE 0)
        /\ (aes.mode = "encrypt" /\ aes.ret = 0 /\ aes.secret = CountingKey /\ aes.text = CountingText)
             => ToBytes(<<aes.out[1]>>) = Standard(aes.bits)
        /\ aes.mode = "decrypt" =>
             \/ /\ ToBytes(aes.out) = whole
                /\ (\A i \in DOMAIN aes.text : aes.text[i] # 0) => aes_decode = Trimmed(aes.text)
             \/ aes.ret = -1 /\ aes.out = <<>> /\ aes_decode = <<-1>>
===============================================================================
