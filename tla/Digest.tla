-------------------------------- MODULE Digest --------------------------------
(* The digests of src/util: md5.c (OTA files), sha256.c and hmac_sha256.c (every *)
(* signature).  A message comes in pieces of any length; what a digest depends   *)
(* on are the blocks handed to the compression function, which is left out.      *)
(* A byte is a kind and a number: byte i of the message, padding, the length.    *)
EXTENDS Integers, Sequences, SequencesExt

CONSTANTS
  DgPieces,   \* lengths of the pieces
  DgMax,      \* bound: bytes of a message
  DgWord      \* 2^32, the range of a word of total

VARIABLE dg   \* the algorithm, its context and the bytes it was given
dgVars == <<dg>>

Block == 64
MsgByte(i) == <<"byte", i>>
One == <<"0x80", 0>>
Zero == <<"zero", 0>>
Zeros(n) == [i \in 1 .. n |-> Zero]
Message(a, n) == [i \in 1 .. n |-> MsgByte(a + i)]
Over(mem, at, bytes) == [i \in DOMAIN mem |-> IF i - at \in DOMAIN bytes THEN bytes[i - at] ELSE mem[i]]

-----------------------------------------------------------------------------
(* md5.c                                                                     *)

utils_md5_starts == [total |-> <<0, 0>>, buffer |-> Zeros(Block), blocks |-> <<>>]

\* utils_md5_update: a block that was begun is filled up, whole ones are processed
\* where they are, the rest is kept.
utils_md5_update(c, input) ==
  LET n == Len(input)
      left == c.total[1] % Block
      fill == Block - left
      low == (c.total[1] + n) % DgWord
      first == left > 0 /\ n >= fill
      from == IF first THEN fill ELSE 0
      whole == (n - from) \div Block
      rest == SubSeq(input, from + whole * Block + 1, n)
      filled == Over(c.buffer, left, SubSeq(input, 1, fill))
  IN  IF n = 0 THEN c
      ELSE [total |-> <<low, IF low < n % DgWord THEN c.total[2] + 1 ELSE c.total[2]>>,
            blocks |-> c.blocks \o (IF first THEN <<filled>> ELSE <<>>)
                       \o [i \in 1 .. whole |-> SubSeq(input, from + (i - 1) * Block + 1, from + i * Block)],
            buffer |-> Over(IF first THEN filled ELSE c.buffer, IF first THEN 0 ELSE left, rest)]

\* Mutant: 56 bytes count as if they left room for the padding.
PaddingMd5AtMost55(last) == IF last <= 56 THEN 56 - last ELSE 120 - last
\* The padding of utils_md5_finish: at least one byte.
PaddingMd5(last) == IF last < 56 THEN 56 - last ELSE 120 - last
utils_md5_finish(c) ==
  LET high == (c.total[1] \div (DgWord \div 8)) + c.total[2] * 8
      low == (c.total[1] * 8) % DgWord
      msglen == [i \in 1 .. 8 |-> IF i <= 4 THEN <<"low", low>> ELSE <<"high", high>>]
      padded == utils_md5_update(c, SubSeq(<<One>> \o Zeros(63), 1, PaddingMd5(c.total[1] % Block)))
  IN  utils_md5_update(padded, msglen)

\* utils_hb2hex, and the 32 characters of utils_md5_finish_str
utils_hb2hex(hb) == LET d == hb % 16 IN IF d < 10 THEN 48 + d ELSE d - 10 + 97
HexOf(byte) == <<utils_hb2hex(byte \div 16), utils_hb2hex(byte)>>

-----------------------------------------------------------------------------
(* sha256.c                                                                  *)

Sha256Initialise == [curlen |-> 0, length |-> 0, buf |-> Zeros(Block), blocks |-> <<>>]

Transform(c, block) == [c EXCEPT !.blocks = Append(@, block)]

\* One round of the loop of Sha256Update: a block at once, or into buf.
UpdateStep(c, input, at) ==
  LET size == Len(input) - at
      n == IF size < Block - c.curlen THEN size ELSE Block - c.curlen
      kept == [c EXCEPT !.buf = Over(@, c.curlen, SubSeq(input, at + 1, at + n)), !.curlen = @ + n]
  IN  IF c.curlen = 0 /\ size >= Block
      THEN [at |-> at + Block, c |-> [Transform(c, SubSeq(input, at + 1, at + Block)) EXCEPT !.length = @ + 8 * Block]]
      ELSE [at |-> at + n,
            c |-> IF kept.curlen = Block
                  THEN [Transform(kept, kept.buf) EXCEPT !.length = @ + 8 * Block, !.curlen = 0] ELSE kept]
Sha256Update(c, input) ==
  LET rounds == Len(input) \div Block + 2
      \* the state after each round; the loop ends with the input
      after[k \in 0 .. rounds] ==
        IF k = 0 THEN [at |-> 0, c |-> c]
        ELSE LET r == after[k - 1] IN IF r.at < Len(input) THEN UpdateStep(r.c, input, r.at) ELSE r
  IN  after[rounds].c

Sha256Finalise(c) ==
  LET n == c.curlen + 1
      length == c.length + c.curlen * 8
      begun == Over(c.buf, c.curlen, <<One>>)
      \* no room for the length: zeros, and a block of their own for the rest
      full == Transform(c, Over(begun, n, Zeros(Block - n)))
      rest == IF n > 56 THEN Over(full.buf, 0, Zeros(56)) ELSE Over(begun, n, Zeros(56 - n))
      last == Over(rest, 56, [i \in 1 .. 8 |-> <<"length", length>>])
  IN  Transform(IF n > 56 THEN full ELSE c, last)

-----------------------------------------------------------------------------
(* hmac_sha256.c: the key, digested when it is longer than a block, padded with   *)
(* zeros; the inner digest of it and the data, the outer one of it and the inner. *)

HmacKey(keylen) ==
  IF keylen > Block THEN [i \in 1 .. 32 |-> <<"digest of key", i>>] \o Zeros(Block - 32)
  ELSE [i \in 1 .. keylen |-> <<"key", i>>] \o Zeros(Block - keylen)
\* exclusive or with 0x36 or 0x5c
Masked(k, pad) == [i \in DOMAIN k |-> <<k[i][1] \o pad, k[i][2]>>]
HashOf(message) == Sha256Finalise(Sha256Update(Sha256Initialise, message)).blocks
onesdk_hmac_sha256(keylen, data) ==
  [inner |-> HashOf(Masked(HmacKey(keylen), "^ipad") \o data),
   outer |-> HashOf(Masked(HmacKey(keylen), "^opad") \o [i \in 1 .. 32 |-> <<"inner digest", i>>])]

-----------------------------------------------------------------------------
DgInit == dg \in [md5 : {utils_md5_starts}, sha : {Sha256Initialise}, given : {0}, done : {FALSE}]
DgUpdate(n) ==
  /\ ~dg.done /\ dg.given + n <= DgMax
  /\ dg' = [dg EXCEPT !.md5 = utils_md5_update(@, Message(dg.given, n)),
                      !.sha = Sha256Update(@, Message(dg.given, n)), !.given = @ + n]
DgFinish == /\ ~dg.done
            /\ dg' = [dg EXCEPT !.md5 = utils_md5_finish(@), !.sha = Sha256Finalise(@), !.done = TRUE]
\* utils_md5_reset, Sha256Initialise
DgReset == dg' = [dg EXCEPT !.md5 = utils_md5_starts, !.sha = Sha256Initialise, !.given = 0, !.done = FALSE]
DgNext == (\E n \in DgPieces : DgUpdate(n)) \/ DgFinish \/ DgReset

\* The blocks a digest of a message is defined by (RFC 1321, FIPS 180-4).
Blocks(bytes) == [i \in 1 .. Len(bytes) \div Block |-> SubSeq(bytes, (i - 1) * Block + 1, i * Block)]
Padded(m, length) == m \o <<One>> \o Zeros((Block - ((Len(m) + 9) % Block)) % Block) \o length

\* md5.c:276 and sha256.c:225.  However a message is cut into pieces, and whatever its
\* length modulo a block, the blocks digested are those of the whole message with its
\* padding and its length in bits; a HMAC digests the key, shortened or filled to one
\* block, and then the data; a digest is spelt with two digits for every byte.
DigestsPadded ==
  LET n == dg.given
      m == Message(0, n)
      length == [i \in 1 .. 8 |-> IF i <= 4 THEN <<"low", (8 * n) % DgWord>> ELSE <<"high", (8 * n) \div DgWord>>]
      bits(k) == [i \in 1 .. 8 |-> <<"length", 8 * k>>]
  IN  /\ dg.done => /\ dg.md5.blocks = Blocks(Padded(m, length))
                    /\ dg.sha.blocks = Blocks(Padded(m, bits(n)))
                    /\ \A k \in {0, 63, 64, 65} :
                         LET key == HmacKey(k) IN
                         /\ Len(key) = Block
                         /\ onesdk_hmac_sha256(k, m).inner = Blocks(Padded(Masked(key, "^ipad") \o m, bits(Block + n)))
      /\ n = 0 => \A a, b \in 0 .. 255 : HexOf(a) = HexOf(b) => a = b
===============================================================================
