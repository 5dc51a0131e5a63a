-------------------------------- MODULE Lookup3 --------------------------------
(* Bob Jenkins' lookup3 as it is compiled into hash_table.c. The functions     *)
(* read the key by words, half-words or bytes, as its address and the machine  *)
(* allow; the word path reads past the end of the key and masks.               *)
(*                                                                             *)
(* mix() and final() are not interpreted: a hash is the list of what is added  *)
(* to the registers between them. A register is four byte lanes, and what a    *)
(* lane receives is the sum of the bytes put there.                            *)
EXTENDS Naturals, Sequences, FiniteSetsExt

CONSTANT LkMaxLen     \* longest key
VARIABLE lkCall      \* the last call and its result
lkVars == <<lkCall>>

\* The byte at an offset of the memory from the key on, all of them different;
\* the key is its first len bytes.
Mem == [i \in 0..(LkMaxLen + 4) |-> i + 1]

\* register reg += byte at offset at, shifted into a lane
Byte(reg, at, lane) == [reg |-> reg, lane |-> lane, byte |-> at]
\* the machine's 16-bit and 32-bit loads
U16(endian, reg, at, lane) ==
  [i \in 1..2 |-> Byte(reg, at + i - 1, lane + (IF endian = "little" THEN i - 1 ELSE 2 - i))]
U32(endian, reg, at) ==
  [i \in 1..4 |-> Byte(reg, at + i - 1, IF endian = "little" THEN i - 1 ELSE 4 - i)]
\* & 0xffffff.. keeps the lanes of the first n bytes of a loaded word.
MaskLanes(endian, n) == IF endian = "little" THEN 0..(n - 1) ELSE (4 - n)..3
Masked(endian, word, n) == SelectSeq(word, LAMBDA x : x.lane \in MaskLanes(endian, n))

\* What a list of additions adds to each lane of a, b, c.
Sums(adds, base) ==
  [reg \in {"a", "b", "c"} |-> [lane \in 0..3 |->
    MapThenSumSet(LAMBDA i : Mem[base + adds[i].byte],
                  {i \in DOMAIN adds : adds[i].reg = reg /\ adds[i].lane = lane})]]

Words == <<"a", "b", "c">>
\* Mutant: the byte behind a key of three bytes is not masked off.
KeepTableUnmasked ==
  << <<1,0,0>>, <<2,0,0>>, <<4,0,0>>, <<4,0,0>>, <<4,1,0>>, <<4,2,0>>,
     <<4,3,0>>, <<4,4,0>>, <<4,4,1>>, <<4,4,2>>, <<4,4,3>>, <<4,4,4>> >>
\* bytes kept of k[0], k[1], k[2] in case n of the word path's switch
KeepTable ==
  << <<1,0,0>>, <<2,0,0>>, <<3,0,0>>, <<4,0,0>>, <<4,1,0>>, <<4,2,0>>,
     <<4,3,0>>, <<4,4,0>>, <<4,4,1>>, <<4,4,2>>, <<4,4,3>>, <<4,4,4>> >>
WordCase(endian, n) ==
  LET part(i) == Masked(endian, U32(endian, Words[i], 4 * (i - 1)), KeepTable[n][i])
  IN  part(1) \o part(2) \o part(3)

\* Case n of the half-word path's switch: what it adds, and whether it falls through.
Full16(reg, at) == U16("little", reg, at, 0) \o U16("little", reg, at + 2, 2)
HalfTable ==
  << [add |-> <<Byte("a", 0, 0)>>,                              falls |-> FALSE],
     [add |-> U16("little", "a", 0, 0),                         falls |-> FALSE],
     [add |-> <<Byte("a", 2, 2)>>,                              falls |-> TRUE],
     [add |-> Full16("a", 0),                                   falls |-> FALSE],
     [add |-> <<Byte("b", 4, 0)>>,                              falls |-> TRUE],
     [add |-> U16("little", "b", 4, 0) \o Full16("a", 0),       falls |-> FALSE],
     [add |-> <<Byte("b", 6, 2)>>,                              falls |-> TRUE],
     [add |-> Full16("b", 4) \o Full16("a", 0),                 falls |-> FALSE],
     [add |-> <<Byte("c", 8, 0)>>,                              falls |-> TRUE],
     [add |-> U16("little", "c", 8, 0) \o Full16("b", 4) \o Full16("a", 0), falls |-> FALSE],
     [add |-> <<Byte("c", 10, 2)>>,                             falls |-> TRUE],
     [add |-> Full16("c", 8) \o Full16("b", 4) \o Full16("a", 0), falls |-> FALSE] >>
HalfCase[n \in 1..12] ==
  HalfTable[n].add \o (IF HalfTable[n].falls THEN HalfCase[n - 1] ELSE <<>>)

\* The byte path: every case falls through to the next lower one.
ByteCase(order, n) ==
  [j \in 1..n |-> Byte(Words[(j - 1) \div 4 + 1], j - 1,
                       IF order = "little" THEN (j - 1) % 4 ELSE 3 - ((j - 1) % 4))]

\* A whole hash: the seeds, full blocks while more than 12 bytes are left, the last block.
Hash(len, seedA, seedC, Case(_)) ==
  LET blocks == IF len = 0 THEN 0 ELSE (len - 1) \div 12
      rest == len - 12 * blocks
  IN  [start |-> <<len + seedA, len + seedA, len + seedC>>,
       mixed |-> [i \in 1..blocks |-> Sums(Case(12), 12 * (i - 1))],
       final |-> IF rest = 0 THEN <<>> ELSE <<Sums(Case(rest), 12 * blocks)>>]

LittleCase(endian, align, n) ==
  IF endian = "little" /\ align % 4 = 0 THEN WordCase(endian, n)
  ELSE IF endian = "little" /\ align % 2 = 0 THEN HalfCase[n]
  ELSE ByteCase("little", n)
BigCase(endian, align, n) ==
  IF endian = "big" /\ align % 4 = 0 THEN WordCase(endian, n) ELSE ByteCase("big", n)

\* pc seeds a, b and c; c gets pb on top. The result is c, or c and b.
hashlittle(endian, align, len, initval) ==
  Hash(len, initval, initval, LAMBDA n : LittleCase(endian, align, n))
hashlittle2(endian, align, len, pc, pb) ==
  Hash(len, pc, pc + pb, LAMBDA n : LittleCase(endian, align, n))
hashbig(endian, align, len, initval) ==
  Hash(len, initval, initval, LAMBDA n : BigCase(endian, align, n))
\* words: whole 32-bit words, three to a block, their number times 4 in the seed
WordsCase(endian, n) ==
  LET part(i) == IF i <= n THEN U32(endian, Words[i], 4 * (i - 1)) ELSE <<>>
  IN  part(1) \o part(2) \o part(3)
HashWords(endian, words, seedA, seedC) ==
  LET blocks == IF words = 0 THEN 0 ELSE (words - 1) \div 3
      rest == words - 3 * blocks
  IN  [start |-> <<4 * words + seedA, 4 * words + seedA, 4 * words + seedC>>,
       mixed |-> [i \in 1..blocks |-> Sums(WordsCase(endian, 3), 12 * (i - 1))],
       final |-> IF rest = 0 THEN <<>> ELSE <<Sums(WordsCase(endian, rest), 12 * blocks)>>]
hashword(endian, words, initval) == HashWords(endian, words, initval, initval)
hashword2(endian, words, pc, pb) == HashWords(endian, words, pc, pc + pb)

\* aws_hash_c_string stops at the terminator; aws_hash_string and
\* aws_hash_byte_cursor_ptr take the length they are given. Same seeds.
PiB == 1
PiC == 2
aws_hash_c_string(endian, align, nulAt) == hashlittle2(endian, align, nulAt, PiC, PiB)
aws_hash_byte_cursor_ptr(endian, align, len) == hashlittle2(endian, align, len, PiC, PiB)

LkArgs == [endian : {"little", "big", "unknown"}, align : 0..3, len : 0..LkMaxLen,
           pc : {0, 5}, pb : {0, 7}]
LkIdle == [fn |-> "none", arg |-> <<>>, out |-> <<>>]
LkDone(fn, x, out) == lkCall' = [fn |-> fn, arg |-> x, out |-> out]
LkInit == lkCall = LkIdle
LkHashlittle(x) == LkDone("hashlittle", x, hashlittle(x.endian, x.align, x.len, x.pc))
LkHashlittle2(x) == LkDone("hashlittle2", x, hashlittle2(x.endian, x.align, x.len, x.pc, x.pb))
LkHashbig(x) == LkDone("hashbig", x, hashbig(x.endian, x.align, x.len, x.pc))
LkHashword(x) ==
  /\ x.endian # "unknown" /\ x.align = 0 /\ x.len % 4 = 0
  /\ \/ LkDone("hashword", x, hashword(x.endian, x.len \div 4, x.pc))
     \/ LkDone("hashword2", x, hashword2(x.endian, x.len \div 4, x.pc, x.pb))
LkHashText(x) ==
  \/ LkDone("text", x, aws_hash_c_string(x.endian, x.align, x.len))
  \/ LkDone("text", x, aws_hash_byte_cursor_ptr(x.endian, x.align, x.len))
LkNext == lkCall = LkIdle /\
  \E x \in LkArgs : \/ LkHashlittle(x) \/ LkHashlittle2(x) \/ LkHashbig(x)
                    \/ LkHashword(x) \/ LkHashText(x)
LkSpec == LkInit /\ [][LkNext]_lkVars

\* What lookup3 is meant to hash: 12-byte blocks, byte 4w+l of a block in lane l
\* (little) or 3-l (big) of word w, zero behind the end of the key.
LkBlock(order, len, base) ==
  [reg \in {"a", "b", "c"} |-> [lane \in 0..3 |->
    LET w == CHOOSE i \in 1..3 : Words[i] = reg
        at == base + 4 * (w - 1) + (IF order = "little" THEN lane ELSE 3 - lane)
    IN  IF at < len THEN Mem[at] ELSE 0]]
LkReference(order, len, seedA, seedC) ==
  LET blocks == IF len = 0 THEN 0 ELSE (len - 1) \div 12
  IN  [start |-> <<len + seedA, len + seedA, len + seedC>>,
       mixed |-> [i \in 1..blocks |-> LkBlock(order, len, 12 * (i - 1))],
       final |-> IF len = 0 THEN <<>> ELSE <<LkBlock(order, len, 12 * blocks)>>]

\* The hash of a key depends on its bytes, its length and the seeds only: not on
\* its alignment, the machine's byte order or what lies behind it in memory
\* (hash_table.c:371 "masks off the part it's not allowed to read"). hashword is
\* hashlittle on a little-endian and hashbig on a big-endian machine (:214), and
\* with pb = 0 the two-result functions give hashword's and hashlittle's value.
HashIgnoresPlacement ==
  lkCall.fn # "none" =>
    LET x == lkCall.arg
        order == IF lkCall.fn = "hashbig" THEN "big"
                 ELSE IF lkCall.fn \in {"hashword", "hashword2"} THEN x.endian ELSE "little"
    IN  lkCall.out =
          IF lkCall.fn = "text" THEN LkReference(order, x.len, PiC, PiC + PiB)
          ELSE LkReference(order, x.len, x.pc,
                           x.pc + (IF lkCall.fn \in {"hashlittle2", "hashword2"} THEN x.pb ELSE 0))
=============================================================================
