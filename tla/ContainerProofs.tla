---------------------------- MODULE ContainerProofs ----------------------------
(***************************************************************************)
(* Proofs about ByteBuf and ArrayList, for every size of memory and of word, *)
(* every content and every sequence of calls.                               *)
(***************************************************************************)
EXTENDS ByteBuf, ArrayList, SequenceTheorems, TLAPS

-----------------------------------------------------------------------------
(* The byte buffer.  What a call may do to the bytes rests on the capacity:  *)
(* room is a number only while the bytes lie within it.                     *)

Bytes == Seq(0..255)
Buffer == [alloc : BOOLEAN, cap : Nat, bytes : Bytes]
InBounds(b) == Len(b.bytes) <= b.cap /\ b.cap <= SizeMax /\ (b.alloc => b.cap <= BufLimit)
Good(b) == b \in Buffer /\ InBounds(b)

\* A file that is being read is what has been read and what is still to come.
FileRead ==
  \/ bbFile = NoFile
  \/ /\ bbFile = [open |-> TRUE, rest |-> bbFile.rest, all |-> bbFile.all]
     /\ bbFile.rest \in Bytes /\ bb.bytes \o bbFile.rest = bbFile.all

BbInv == Good(bb) /\ bbOut \in BOOLEAN /\ FileRead

LEMMA LesserOfTwo ==
  ASSUME NEW a \in Nat, NEW b \in Nat
  PROVE  Min({a, b}) = IF a <= b THEN a ELSE b
<1>1. \A x \in {a, b} : (\A y \in {a, b} : x <= y) <=> x = IF a <= b THEN a ELSE b OBVIOUS
<1>2. (IF a <= b THEN a ELSE b) \in {a, b} OBVIOUS
<1> QED BY <1>1, <1>2 DEF Min

\* Growing never leaves less than what is required, and needs no more.
LEMMA AppendGrows ==
  ASSUME BufAssumption, NEW b, Good(b), NEW s \in Bytes, NEW r, r = Appended(b, s)
  PROVE  /\ r[1] \in BOOLEAN /\ Good(r[2])
         /\ IF r[1] THEN r[2].bytes = b.bytes \o s ELSE r[2] = b
         /\ b.alloc /\ Len(b.bytes) + Len(s) <= BufLimit => r[1]
<1> DEFINE room == b.cap - Len(b.bytes)
           required == b.cap + (Len(s) - room)
           growth == AddSaturating(b.cap, b.cap)
           wanted == IF required < growth THEN growth ELSE required
           got == IF Acquires(wanted) THEN wanted ELSE required
<1>1. /\ b.alloc \in BOOLEAN /\ b.cap \in Nat /\ b.bytes \in Bytes /\ Len(b.bytes) \in Nat /\ Len(s) \in Nat
      /\ room \in Nat /\ b.cap <= SizeMax /\ SizeMax \in Nat /\ BufLimit \in Nat /\ b \in Buffer
  BY DEF Good, InBounds, Buffer, Bytes, BufAssumption
<1>2. b.bytes \o s \in Bytes /\ Len(b.bytes \o s) = Len(b.bytes) + Len(s) BY <1>1 DEF Bytes
<1>3. growth \in Nat BY <1>1, LesserOfTwo DEF AddSaturating
<1>4. CASE ~b.alloc
  <2>1. r = <<FALSE, b>> BY <1>4 DEF Appended
  <2> QED BY <1>4, <2>1
<1>5. CASE b.alloc /\ Len(s) <= room
  <2>1. r = <<TRUE, [b EXCEPT !.bytes = @ \o s]>> BY <1>5 DEF Appended
  <2>2. r[1] /\ r[2].alloc = b.alloc /\ r[2].cap = b.cap /\ r[2].bytes = b.bytes \o s /\ r[2] \in Buffer
    BY ONLY <1>1, <1>2, <2>1 DEF Buffer
  <2>3. Good(r[2]) BY <1>1, <1>2, <1>5, <2>2 DEF Good, InBounds
  <2> QED BY <1>1, <2>2, <2>3
<1>6. CASE b.alloc /\ ~(Len(s) <= room)
  <2>1. required \in Nat /\ required = Len(b.bytes) + Len(s) BY <1>1, <1>6
  <2>2. got \in Nat /\ got >= required BY <1>3, <2>1
  <2>3. required <= BufLimit => AddChecked(b.cap, Len(s) - room) /\ Acquires(got)
    BY <1>1, <1>3, <2>1 DEF AddChecked, Acquires, BufAssumption
  <2>4. CASE ~(AddChecked(b.cap, Len(s) - room) /\ Acquires(got))
    <3>1. r = <<FALSE, b>> BY <1>6, <2>4, Zenon DEF Appended
    <3> QED BY <1>1, <1>6, <2>1, <2>3, <2>4, <3>1
  <2>5. CASE AddChecked(b.cap, Len(s) - room) /\ Acquires(got)
    <3>1. r = <<TRUE, [b EXCEPT !.cap = got, !.bytes = @ \o s]>> BY <1>6, <2>5, Zenon DEF Appended
    <3>2. got <= BufLimit BY <2>5 DEF Acquires
    <3> HIDE DEF got
    <3>3. r[1] /\ r[2].alloc = b.alloc /\ r[2].cap = got /\ r[2].bytes = b.bytes \o s /\ r[2] \in Buffer
      BY ONLY <1>1, <1>2, <2>2, <3>1 DEF Buffer
    <3>4. Good(r[2]) BY <1>1, <1>2, <2>1, <2>2, <3>2, <3>3 DEF Good, InBounds, BufAssumption
    <3> QED BY <3>3, <3>4
  <2> QED BY <2>4, <2>5
<1> QED BY <1>1, <1>4, <1>5, <1>6

\* A write changes nothing but the bytes.
LEMMA WriteFits ==
  ASSUME BufAssumption, NEW b, Good(b), NEW s \in Bytes, NEW r, r = Written(b, s)
  PROVE  r[1] \in BOOLEAN /\ Good(r[2]) /\ IF r[1] THEN r[2].bytes = b.bytes \o s ELSE r[2] = b
<1>1. /\ b.alloc \in BOOLEAN /\ b.cap \in Nat /\ b.bytes \in Bytes /\ b.bytes \o s \in Bytes
      /\ Len(b.bytes \o s) = Len(b.bytes) + Len(s)
  BY DEF Good, InBounds, Buffer, Bytes
<1>2. CASE s = <<>>
  <2>1. b.bytes \o s = b.bytes BY <1>1, <1>2 DEF Bytes
  <2> QED BY <1>2, <2>1 DEF Written
<1>3. CASE s # <<>> /\ Fits(b, s)
  <2>1. Written(b, s) = <<TRUE, [b EXCEPT !.bytes = @ \o s]>> BY <1>3 DEF Written
  <2>2. Len(b.bytes) + Len(s) <= b.cap BY <1>3 DEF Fits
  <2>3. Good([b EXCEPT !.bytes = @ \o s]) BY <1>1, <2>2 DEF Good, InBounds, Buffer
  <2> QED BY <1>1, <2>1, <2>3 DEF Good, Buffer
<1>4. CASE s # <<>> /\ ~Fits(b, s) BY <1>4 DEF Written
<1> QED BY <1>2, <1>3, <1>4

\* A reservation keeps the bytes; one that succeeds leaves the capacity asked for.
LEMMA ReserveKeeps ==
  ASSUME BufAssumption, NEW b, Good(b), NEW n \in Nat, NEW r, r = Reserved(b, n)
  PROVE  /\ r[1] \in BOOLEAN /\ Good(r[2]) /\ r[2].bytes = b.bytes
         /\ r[1] => r[2].cap >= n
<1>1. /\ b.alloc \in BOOLEAN /\ b.cap \in Nat /\ b.bytes \in Bytes /\ Len(b.bytes) <= b.cap
      /\ b.cap <= SizeMax /\ SizeMax \in Nat /\ BufLimit \in Nat /\ BufLimit < SizeMax /\ b \in Buffer
  BY DEF Good, InBounds, Buffer, BufAssumption
<1>2. CASE b.alloc /\ n <= b.cap
  <2>1. r = <<TRUE, b>> BY <1>2, Zenon DEF Reserved
  <2> QED BY <1>2, <2>1
<1>3. CASE b.alloc /\ ~(n <= b.cap) /\ b.cap = 0
  <2>1. r = Fresh(n) BY <1>3, Zenon DEF Reserved
  <2>2. Len(b.bytes) = 0 /\ b.bytes = <<>> BY <1>1, <1>3 DEF Bytes
  <2>3. <<>> \in Bytes /\ Len(<<>>) = 0 BY DEF Bytes
  <2>4. CASE Acquires(n)
    <3>1. r = <<TRUE, [alloc |-> TRUE, cap |-> n, bytes |-> <<>>]>> BY <2>1, <2>4 DEF Fresh
    <3>2. Good([alloc |-> TRUE, cap |-> n, bytes |-> <<>>])
      BY <1>1, <2>3, <2>4 DEF Good, InBounds, Buffer, Acquires
    <3> QED BY <2>2, <3>1, <3>2
  <2>5. CASE ~Acquires(n)
    <3>1. r = <<FALSE, BbZero>> BY <2>1, <2>5 DEF Fresh
    <3>2. Good(BbZero) BY <1>1, <2>3 DEF Good, InBounds, Buffer, BbZero
    <3> QED BY <2>2, <3>1, <3>2 DEF BbZero
  <2> QED BY <2>4, <2>5
<1>4. CASE b.alloc /\ ~(n <= b.cap) /\ b.cap # 0 /\ Acquires(n)
  <2>1. r = <<TRUE, [b EXCEPT !.cap = n]>> BY <1>4, Zenon DEF Reserved
  <2>2. r[1] /\ r[2].alloc = b.alloc /\ r[2].cap = n /\ r[2].bytes = b.bytes /\ r[2] \in Buffer
    BY ONLY <1>1, <2>1, n \in Nat DEF Buffer
  <2>3. Good(r[2]) BY <1>1, <1>4, <2>2 DEF Good, InBounds, Acquires
  <2> QED BY <2>2, <2>3
<1>5. CASE ~b.alloc \/ (~(n <= b.cap) /\ b.cap # 0 /\ ~Acquires(n))
  <2>1. r = <<FALSE, b>> BY <1>5, Zenon DEF Reserved
  <2> QED BY <2>1
<1> QED BY <1>1, <1>2, <1>3, <1>4, <1>5

LEMMA RelativeKeeps ==
  ASSUME BufAssumption, NEW b, Good(b), NEW n \in Nat, NEW r, r = ReservedRelative(b, n)
  PROVE  /\ r[1] \in BOOLEAN /\ Good(r[2]) /\ r[2].bytes = b.bytes
         /\ r[1] => r[2].cap >= Len(b.bytes) + n
<1>1. b.bytes \in Bytes /\ Len(b.bytes) \in Nat BY DEF Good, InBounds, Buffer, Bytes
<1>2. Len(b.bytes) + n \in Nat BY <1>1
<1>3. CASE b.alloc /\ AddChecked(Len(b.bytes), n)
  <2>1. r = Reserved(b, Len(b.bytes) + n) BY <1>3, Zenon DEF ReservedRelative
  <2> QED BY <1>2, <2>1, ReserveKeeps
<1>4. CASE ~(b.alloc /\ AddChecked(Len(b.bytes), n))
  <2>1. ReservedRelative(b, n) = <<FALSE, b>> BY <1>4 DEF ReservedRelative
  <2> QED BY <2>1
<1> QED BY <1>3, <1>4

LEMMA CutInTwo ==
  ASSUME NEW S, NEW s \in Seq(S), NEW n \in 0 .. Len(s)
  PROVE  /\ SubSeq(s, 1, n) \in Seq(S) /\ SubSeq(s, n + 1, Len(s)) \in Seq(S) /\ Len(SubSeq(s, 1, n)) = n
         /\ s = SubSeq(s, 1, n) \o SubSeq(s, n + 1, Len(s))
<1>1. Len(s) \in Nat /\ n \in Nat /\ n \in 1 - 1 .. Len(s) /\ Len(s) \in n .. Len(s) /\ 1 \in 1 .. Len(s) + 1 OBVIOUS
<1>2. SubSeq(s, 1, n) \o SubSeq(s, n + 1, Len(s)) = SubSeq(s, 1, Len(s)) BY <1>1, ConcatAdjacentSubSeq
<1>3. SubSeq(s, 1, Len(s)) = s BY SubSeqFull
<1>4. \A i \in 1 .. n : s[i] \in S BY <1>1
<1>5. \A i \in n + 1 .. Len(s) : s[i] \in S BY <1>1
<1>6. SubSeq(s, 1, n) \in Seq(S) /\ Len(SubSeq(s, 1, n)) = IF 1 <= n THEN n - 1 + 1 ELSE 0 BY <1>1, <1>4, SubSeqProperties
<1>7. SubSeq(s, n + 1, Len(s)) \in Seq(S) BY <1>1, <1>5, SubSeqProperties
<1>8. Len(SubSeq(s, 1, n)) = n BY <1>1, <1>6
<1> QED BY <1>2, <1>3, <1>6, <1>7, <1>8, Zenon

\* aws_byte_buf_init
LEMMA FreshGood ==
  ASSUME BufAssumption, NEW n \in Nat
  PROVE  Fresh(n)[1] \in BOOLEAN /\ Good(Fresh(n)[2]) /\ Fresh(n)[2].bytes = <<>>
<1>1. <<>> \in Bytes /\ Len(<<>>) = 0 BY DEF Bytes
<1>2. SizeMax \in Nat /\ BufLimit \in Nat /\ BufLimit < SizeMax BY DEF BufAssumption
<1>3. CASE Acquires(n) BY <1>1, <1>2, <1>3 DEF Fresh, Acquires, Good, InBounds, Buffer
<1>4. CASE ~Acquires(n) BY <1>1, <1>2, <1>4 DEF Fresh, BbZero, Good, InBounds, Buffer
<1> QED BY <1>3, <1>4

\* The room that a round of the reading loop makes: none, or more than there was.
LEMMA GrownKeeps ==
  ASSUME BufAssumption, BbInv
  PROVE  /\ Grown[1] \in BOOLEAN /\ Good(Grown[2]) /\ Grown[2].bytes = bb.bytes
<1>1. Good(bb) BY DEF BbInv
<1>2. bb.cap \in Nat BY <1>1 DEF Good, Buffer
<1> DEFINE bigger == Max({GrowthMin, bb.cap})
           n == Min({GrowthMax, bigger})
<1>3. bigger \in {GrowthMin, bb.cap}
  <2>1. \E x \in {GrowthMin, bb.cap} : \A y \in {GrowthMin, bb.cap} : x >= y BY <1>2 DEF BufAssumption
  <2> QED BY <2>1 DEF Max
<1>7. Length = bb.cap => Grown = ReservedRelative(bb, n) BY Zenon DEF Grown
<1> HIDE DEF bigger
<1>4. bigger \in Nat /\ n \in Nat BY <1>2, <1>3, LesserOfTwo DEF BufAssumption
<1>5. CASE Length = bb.cap
  <2>1. Grown = ReservedRelative(bb, n) BY <1>5, <1>7
  <2> HIDE DEF n
  <2> QED BY <1>1, <1>4, <2>1, RelativeKeeps
<1>6. CASE Length # bb.cap
  <2>1. Grown = <<TRUE, bb>> BY <1>6, Zenon DEF Grown
  <2> QED BY <1>1, <2>1
<1> QED BY <1>5, <1>6

\* One round of reading moves bytes from the file to the buffer.
LEMMA ChunkInv == ASSUME BufAssumption, BbInv, ReadChunk PROVE BbInv'
<1> DEFINE n == Min({Grown[2].cap - Length, Len(bbFile.rest)})
<1>1. Good(Grown[2]) /\ Grown[2].bytes = bb.bytes BY GrownKeeps
<1>2. /\ Grown[2].cap \in Nat /\ bb.bytes \in Bytes /\ Length \in Nat /\ Length <= Grown[2].cap
      /\ Grown[2] \in Buffer
  BY <1>1 DEF Good, InBounds, Buffer, Length, Bytes
<1>3. bbFile.rest \in Bytes /\ bb.bytes \o bbFile.rest = bbFile.all /\ Len(bbFile.rest) \in Nat
      /\ bbFile = [open |-> TRUE, rest |-> bbFile.rest, all |-> bbFile.all]
  <2>1. bbFile # NoFile BY DEF ReadChunk, NoFile
  <2>2. /\ bbFile.rest \in Bytes /\ bb.bytes \o bbFile.rest = bbFile.all
        /\ bbFile = [open |-> TRUE, rest |-> bbFile.rest, all |-> bbFile.all]
    BY <2>1, Zenon DEF BbInv, FileRead
  <2>3. Len(bbFile.rest) \in Nat BY <2>2, LenProperties DEF Bytes
  <2> QED BY <2>2, <2>3, Zenon
<1>4. n \in 0 .. Len(bbFile.rest) /\ Length + n <= Grown[2].cap
  <2> DEFINE a == Grown[2].cap - Length
             b == Len(bbFile.rest)
  <2>1. a \in Nat /\ b \in Nat BY <1>2, <1>3
  <2>2. n = Min({a, b}) OBVIOUS
  <2> HIDE DEF a, b, n
  <2>3. n = IF a <= b THEN a ELSE b BY <2>1, <2>2, LesserOfTwo
  <2>4. n \in 0 .. b /\ n <= a BY <2>1, <2>3
  <2> QED BY <1>2, <2>1, <2>4 DEF a, b
<1> DEFINE chunk == SubSeq(bbFile.rest, 1, n)
           behind == SubSeq(bbFile.rest, n + 1, Len(bbFile.rest))
<1>5. bb' = [Grown[2] EXCEPT !.bytes = @ \o chunk] /\ bbFile' = [bbFile EXCEPT !.rest = behind] /\ bbOut' = bbOut
  BY DEF ReadChunk
<1> HIDE DEF n
<1>6. chunk \in Bytes /\ behind \in Bytes /\ Len(chunk) = n /\ bbFile.rest = chunk \o behind
  <2>1. n \in 0 .. Len(bbFile.rest) /\ bbFile.rest \in Seq(0..255) BY <1>3, <1>4 DEF Bytes
  <2> QED BY ONLY <2>1, CutInTwo DEF Bytes
<1> HIDE DEF chunk, behind
<1>7. /\ bb'.alloc = Grown[2].alloc /\ bb'.cap = Grown[2].cap /\ bb'.bytes = bb.bytes \o chunk
      /\ bb' \in Buffer
  <2>1. bb.bytes \o chunk \in Bytes BY <1>2, <1>6 DEF Bytes
  <2> QED BY <1>1, <1>2, <1>5, <2>1 DEF Buffer
<1>8. Len(bb'.bytes) = Length + n
  <2>1. bb.bytes \in Seq(0..255) /\ chunk \in Seq(0..255) BY <1>2, <1>6 DEF Bytes
  <2>2. Len(bb.bytes \o chunk) = Len(bb.bytes) + Len(chunk) BY ONLY <2>1, ConcatProperties
  <2> QED BY ONLY <1>6, <1>7, <2>2 DEF Length
<1>9. Good(bb') BY <1>1, <1>2, <1>4, <1>7, <1>8 DEF Good, InBounds
<1>10. bb'.bytes \o behind = bbFile.all
  <2>0. \A x, y, z \in Bytes : (x \o y) \o z = x \o (y \o z) BY ConcatAssociative DEF Bytes
  <2>1. (bb.bytes \o chunk) \o behind = bb.bytes \o (chunk \o behind) BY <1>2, <1>6, <2>0, Zenon
  <2> QED BY <1>3, <1>6, <1>7, <2>1
<1>11. bbFile' = [open |-> TRUE, rest |-> behind, all |-> bbFile.all]
  <2>1. PICK x, y : bbFile = [open |-> TRUE, rest |-> x, all |-> y] BY <1>3
  <2>2. bbFile' = [open |-> TRUE, rest |-> behind, all |-> y] BY ONLY <1>5, <2>1
  <2>3. bbFile.all = y BY ONLY <2>1
  <2> QED BY <2>2, <2>3
<1>12. FileRead' BY <1>6, <1>10, <1>11 DEF FileRead
<1> QED BY <1>5, <1>9, <1>12 DEF BbInv

\* What is read in the end is the whole file, with a byte to spare.
LEMMA EndReads ==
  ASSUME BufAssumption, BbInv, ReadEnd
  PROVE  BbInv' /\ IF bbOut' THEN bb'.bytes = bbFile.all /\ Len(bb'.bytes) < bb'.cap ELSE bb' = BbZero
<1> DEFINE r == IF Length = Grown[2].cap THEN ReservedRelative(Grown[2], 1) ELSE Grown
<1>1. Good(Grown[2]) /\ Grown[2].bytes = bb.bytes /\ Grown[1] BY GrownKeeps DEF ReadEnd
<1>2. /\ Grown[2].cap \in Nat /\ bb.bytes \in Bytes /\ Length \in Nat /\ Length <= Grown[2].cap
  BY <1>1 DEF Good, InBounds, Buffer, Length, Bytes
<1>3. bb.bytes = bbFile.all
  <2>1. bb.bytes \o <<>> = bbFile.all BY DEF ReadEnd, BbInv, FileRead, NoFile
  <2> QED BY <1>2, <2>1 DEF Bytes
<1>4. r[1] \in BOOLEAN /\ Good(r[2]) /\ r[2].bytes = bb.bytes /\ (r[1] => Length < r[2].cap)
  <2>1. CASE Length = Grown[2].cap
    <3>1. r = ReservedRelative(Grown[2], 1) BY <2>1
    <3> HIDE DEF r
    <3>2. /\ r[1] \in BOOLEAN /\ Good(r[2]) /\ r[2].bytes = Grown[2].bytes
          /\ r[1] => r[2].cap >= Len(Grown[2].bytes) + 1
      BY <1>1, <3>1, RelativeKeeps
    <3>3. r[2].cap \in Nat BY <3>2 DEF Good, Buffer
    <3> QED BY <1>1, <1>2, <3>2, <3>3 DEF Length
  <2>2. CASE Length # Grown[2].cap
    <3>1. r = Grown BY <2>2
    <3> HIDE DEF r
    <3>2. Length < Grown[2].cap BY <1>2, <2>2
    <3> QED BY <1>1, <3>1, <3>2
  <2> QED BY <2>1, <2>2
<1>5. IF r[1] THEN bb' = r[2] /\ bbOut' = TRUE /\ bbFile' = NoFile ELSE FileFailed BY DEF ReadEnd
<1> HIDE DEF r
<1>6. Good(BbZero)
  <2>1. BbZero = [alloc |-> FALSE, cap |-> 0, bytes |-> <<>>] /\ <<>> \in Bytes /\ Len(<<>>) = 0
    BY DEF BbZero, Bytes
  <2> QED BY <2>1 DEF Good, InBounds, Buffer, BufAssumption
<1>7. CASE r[1] BY <1>3, <1>4, <1>5, <1>7 DEF BbInv, FileRead, Length
<1>8. CASE ~r[1] BY <1>4, <1>5, <1>6, <1>8 DEF BbInv, FileRead, FileFailed
<1> QED BY <1>4, <1>7, <1>8

\* The other calls: a failed file leaves nothing, and the rest do not touch a file.
LEMMA BbStep == BufAssumption /\ BbInv /\ [BbNext]_bbVars => BbInv'
<1> SUFFICES ASSUME BufAssumption, BbInv, [BbNext]_bbVars PROVE BbInv' OBVIOUS
<1>1. Good(bb) /\ bb \in Buffer /\ bb.bytes \in Bytes BY DEF BbInv, Good, Buffer
<1>2. Good(BbZero)
  <2>1. BbZero = [alloc |-> FALSE, cap |-> 0, bytes |-> <<>>] /\ <<>> \in Bytes /\ Len(<<>>) = 0
    BY DEF BbZero, Bytes
  <2> QED BY <2>1 DEF Good, InBounds, Buffer, BufAssumption
<1>3. ASSUME Usable, NEW r, Result(r), r[1] \in BOOLEAN, Good(r[2]) PROVE BbInv'
  <2>1. bbFile = NoFile
    <3> SUFFICES ASSUME bbFile # NoFile PROVE FALSE OBVIOUS
    <3>1. bbFile = [open |-> TRUE, rest |-> bbFile.rest, all |-> bbFile.all] BY Zenon DEF BbInv, FileRead
    <3>2. PICK x, y : bbFile = [open |-> TRUE, rest |-> x, all |-> y] BY <3>1
    <3>3. bbFile.open = TRUE BY ONLY <3>2
    <3> QED BY <1>3, <3>3 DEF Usable
  <2> QED BY <1>3, <2>1 DEF Result, BbInv, FileRead
<1>4. Unused => Usable BY DEF Unused, Usable
<1>5. ASSUME NEW n \in 0 .. BufLimit + 1, BufInit(n) \/ FromEmptyArray(n) \/ Reserve(n) \/ ReserveRelative(n)
      PROVE  BbInv'
  <2>1. n \in Nat /\ n <= SizeMax BY <1>5 DEF BufAssumption
  <2>2. CASE BufInit(n) BY <1>3, <1>4, <2>1, <2>2, FreshGood DEF BufInit
  <2>3. CASE FromEmptyArray(n)
    <3> DEFINE r == <<TRUE, [alloc |-> FALSE, cap |-> n, bytes |-> <<>>]>>
    <3>1. <<>> \in Bytes /\ Len(<<>>) = 0 BY DEF Bytes
    <3>2. r[1] \in BOOLEAN /\ Good(r[2]) BY <2>1, <3>1 DEF Good, InBounds, Buffer
    <3>3. Usable /\ Result(r) BY <1>4, <2>3 DEF FromEmptyArray
    <3> QED BY ONLY <1>3, <3>2, <3>3
  <2>4. CASE Reserve(n)
    <3>1. Reserved(bb, n)[1] \in BOOLEAN /\ Good(Reserved(bb, n)[2]) BY <1>1, <2>1, ReserveKeeps
    <3> QED BY <1>3, <2>4, <3>1 DEF Reserve
  <2>5. CASE ReserveRelative(n)
    <3>1. ReservedRelative(bb, n)[1] \in BOOLEAN /\ Good(ReservedRelative(bb, n)[2])
      BY <1>1, <2>1, RelativeKeeps
    <3> QED BY <1>3, <2>5, <3>1 DEF ReserveRelative
  <2> QED BY <1>5, <2>2, <2>3, <2>4, <2>5
<1>6. ASSUME NEW s \in Sources, FromArray(s) \/ Write(s) \/ AppendDynamic(s) PROVE BbInv'
  <2>1. s \in Bytes /\ Len(s) \in Nat /\ Len(s) <= SizeMax BY <1>6 DEF BufAssumption, Bytes
  <2>2. CASE FromArray(s)
    <3> DEFINE r == <<TRUE, [alloc |-> FALSE, cap |-> Len(s), bytes |-> s]>>
    <3>1. r[1] \in BOOLEAN /\ Good(r[2]) BY <2>1 DEF Good, InBounds, Buffer
    <3>2. Usable /\ Result(r) BY <1>4, <2>2 DEF FromArray
    <3> QED BY ONLY <1>3, <3>1, <3>2
  <2>3. CASE Write(s)
    <3>1. Written(bb, s)[1] \in BOOLEAN /\ Good(Written(bb, s)[2]) BY <1>1, <2>1, WriteFits
    <3> QED BY <1>3, <2>3, <3>1 DEF Write
  <2>4. CASE AppendDynamic(s)
    <3>1. Appended(bb, s)[1] \in BOOLEAN /\ Good(Appended(bb, s)[2]) BY <1>1, <2>1, AppendGrows
    <3> QED BY <1>3, <2>4, <3>1 DEF AppendDynamic
  <2> QED BY <1>6, <2>2, <2>3, <2>4
<1>7. CASE AppendItself
  <2>1. Appended(bb, bb.bytes)[1] \in BOOLEAN /\ Good(Appended(bb, bb.bytes)[2]) BY <1>1, AppendGrows
  <2> QED BY <1>3, <1>7, <2>1 DEF AppendItself
<1>8. CASE BufCleanUp
  <2>1. <<TRUE, BbZero>>[1] \in BOOLEAN /\ Good(<<TRUE, BbZero>>[2]) BY <1>2
  <2> QED BY <1>3, <1>8, <2>1 DEF BufCleanUp
<1>9. CASE SecureZero
  <2> DEFINE b == [bb EXCEPT !.bytes = <<>>]
  <2>1. <<>> \in Bytes /\ Len(<<>>) = 0 BY DEF Bytes
  <2>2. b \in Buffer /\ b.alloc = bb.alloc /\ b.cap = bb.cap /\ b.bytes = <<>> BY <1>1, <2>1 DEF Buffer
  <2>3. bb.cap \in Nat BY <1>1 DEF Buffer
  <2> HIDE DEF b
  <2>4. Good(b) BY <1>1, <2>1, <2>2, <2>3 DEF Good, InBounds
  <2>5. Usable /\ Result(<<TRUE, b>>) BY <1>9 DEF SecureZero, b
  <2> QED BY <1>3, <2>4, <2>5
<1>10. ASSUME NEW f \in Files, NEW n \in Nat, OpenFile(f, n) PROVE BbInv'
  <2>1. f \in Bytes BY DEF BufAssumption, Bytes
  <2>2. bb' = Fresh(n)[2] /\ bbFile' = [open |-> TRUE, rest |-> f, all |-> f] /\ bbOut' = bbOut
    BY <1>10 DEF OpenFile
  <2>3. Good(bb') /\ bb'.bytes = <<>> BY <2>2, FreshGood
  <2>4. <<>> \o f = f BY <2>1, ConcatEmptySeq DEF Bytes
  <2>5. FileRead' BY <2>1, <2>2, <2>3, <2>4 DEF FileRead
  <2> QED BY <2>2, <2>3, <2>5 DEF BbInv
<1>11. ASSUME NEW f \in Files, NEW g \in Files, OpenWithFileSize(f, Len(g)) PROVE BbInv'
  <2>1. Len(g) + 1 \in Nat BY DEF BufAssumption
  <2> QED BY <1>10, <1>11, <2>1 DEF OpenWithFileSize
<1>12. CASE ReadChunk BY <1>12, ChunkInv
<1>13. CASE ReadEnd BY <1>13, EndReads
<1>14. CASE ReadFails BY <1>2, <1>14 DEF ReadFails, FileFailed, BbInv, FileRead
<1>15. CASE UNCHANGED bbVars BY <1>15 DEF bbVars, BbInv, FileRead
<1>16. \A n \in 0 .. BufLimit : n \in Nat BY DEF BufAssumption
<1> QED BY <1>5, <1>6, <1>7, <1>8, <1>9, <1>10, <1>11, <1>12, <1>13, <1>14, <1>15, <1>16 DEF BbNext

LEMMA BbStarts == BufAssumption /\ BbInit => BbInv
<1>1. <<>> \in Bytes /\ Len(<<>>) = 0 BY DEF Bytes
<1> QED BY <1>1 DEF BbInit, BbZero, BbInv, Good, InBounds, Buffer, FileRead, BufAssumption

\* What BytesStep says of a step from a state of the invariant.
LEMMA BytesStepHolds == BufAssumption /\ BbInv /\ [BbNext]_bbVars => [BytesStep]_bbVars
<1> SUFFICES ASSUME BufAssumption, BbInv, BbNext PROVE BytesStep OBVIOUS
<1>1. Good(bb) /\ bb \in Buffer /\ bb.bytes \in Bytes /\ Length \in Nat BY DEF BbInv, Good, Buffer, Length, Bytes
<1>2. ASSUME NEW s \in Sources
      PROVE  /\ Write(s) \/ AppendDynamic(s) => IF bbOut' THEN bb'.bytes = bb.bytes \o s ELSE bb' = bb
             /\ AppendDynamic(s) /\ bb.alloc /\ Length + Len(s) <= BufLimit => bbOut'
  <2>1. s \in Bytes BY DEF BufAssumption, Bytes
  <2>2. Write(s) => IF bbOut' THEN bb'.bytes = bb.bytes \o s ELSE bb' = bb
    BY <1>1, <2>1, WriteFits DEF Write, Result
  <2>3. AppendDynamic(s) => IF bbOut' THEN bb'.bytes = bb.bytes \o s ELSE bb' = bb
    BY <1>1, <2>1, AppendGrows DEF AppendDynamic, Result
  <2>4. AppendDynamic(s) /\ bb.alloc /\ Length + Len(s) <= BufLimit => bbOut'
    BY <1>1, <2>1, AppendGrows DEF AppendDynamic, Result, Length
  <2> QED BY <2>2, <2>3, <2>4
<1>3. AppendItself /\ bbOut' => bb'.bytes = bb.bytes \o bb.bytes
  <2> DEFINE r == Appended(bb, bb.bytes)
  <2>1. IF r[1] THEN r[2].bytes = bb.bytes \o bb.bytes ELSE r[2] = bb BY <1>1, AppendGrows
  <2>2. AppendItself => bbOut' = r[1] /\ bb' = r[2] BY DEF AppendItself, Result
  <2> HIDE DEF r
  <2> QED BY <2>1, <2>2
<1>4. ASSUME NEW n \in 0 .. BufLimit
      PROVE  /\ Reserve(n) \/ ReserveRelative(n) => bb'.bytes = bb.bytes
             /\ ReserveRelative(n) /\ bbOut' => bb'.cap - Length >= n
  <2>1. n \in Nat BY DEF BufAssumption
  <2>2. Reserve(n) => bb'.bytes = bb.bytes
    <3>1. Reserved(bb, n)[2].bytes = bb.bytes BY <1>1, <2>1, ReserveKeeps
    <3> QED BY <3>1, Zenon DEF Reserve, Result
  <2>3. ReserveRelative(n) =>
          bb'.bytes = bb.bytes /\ Good(bb') /\ (bbOut' => bb'.cap >= Len(bb.bytes) + n)
    BY <1>1, <2>1, RelativeKeeps DEF ReserveRelative, Result
  <2>4. Good(bb') => bb'.cap \in Nat BY DEF Good, Buffer
  <2> QED BY <1>1, <2>1, <2>2, <2>3, <2>4 DEF Length
<1>5. bbFile.open /\ ~bbFile'.open =>
        IF bbOut' THEN bb'.bytes = bbFile.all /\ Len(bb'.bytes) < bb'.cap ELSE bb' = BbZero
  <2> SUFFICES ASSUME bbFile.open, ~bbFile'.open
               PROVE  IF bbOut' THEN bb'.bytes = bbFile.all /\ Len(bb'.bytes) < bb'.cap ELSE bb' = BbZero
    OBVIOUS
  <2>1. ~Usable /\ ~Unused BY DEF Usable, Unused
  <2>2. ~ReadChunk
    <3> SUFFICES ASSUME ReadChunk PROVE FALSE OBVIOUS
    <3>1. PICK x : bbFile' = [bbFile EXCEPT !.rest = x] BY DEF ReadChunk
    <3>2. bbFile # NoFile BY DEF NoFile
    <3>3. bbFile = [open |-> TRUE, rest |-> bbFile.rest, all |-> bbFile.all] BY <3>2, Zenon DEF BbInv, FileRead
    <3>4. PICK y, z : bbFile = [open |-> TRUE, rest |-> y, all |-> z] BY <3>3
    <3>5. bbFile'.open = TRUE BY ONLY <3>1, <3>4
    <3> QED BY <3>5
  <2>3. ReadEnd \/ ReadFails
    <3>1. ASSUME NEW f \in Files, NEW n, OpenFile(f, n) PROVE FALSE BY <2>1, <3>1 DEF OpenFile
    <3>2. ASSUME NEW n, BufInit(n) \/ FromEmptyArray(n) \/ Reserve(n) \/ ReserveRelative(n) PROVE FALSE
      BY <2>1, <3>2 DEF BufInit, FromEmptyArray, Reserve, ReserveRelative
    <3>3. ASSUME NEW s, FromArray(s) \/ Write(s) \/ AppendDynamic(s) PROVE FALSE
      BY <2>1, <3>3 DEF FromArray, Write, AppendDynamic
    <3>4. ~AppendItself /\ ~BufCleanUp /\ ~SecureZero BY <2>1 DEF AppendItself, BufCleanUp, SecureZero
    <3> QED BY <2>2, <3>1, <3>2, <3>3, <3>4 DEF BbNext, OpenWithFileSize
  <2>4. CASE ReadEnd BY <2>4, EndReads
  <2>5. CASE ReadFails BY <2>5 DEF ReadFails, FileFailed
  <2> QED BY <2>3, <2>4, <2>5
<1> QED BY <1>2, <1>3, <1>4, <1>5 DEF BytesStep

\* byte_buf.c, for every capacity, limit of memory, growth and content: each call
\* appends all its bytes or leaves the buffer as it was, an append that fits in memory
\* succeeds, a file is read whole with a byte to spare for the terminator, and the
\* bytes never leave the capacity.
THEOREM BytesKept == BbSpec => BytesAppendedOrKept
<1>1. BbInv => BufferInBounds BY DEF BbInv, Good, InBounds, BufferInBounds, Length
<1> QED BY <1>1, BbStarts, BbStep, BytesStepHolds, BufAssumption, PTL DEF BbSpec, BytesAppendedOrKept

-----------------------------------------------------------------------------
(* The array list.  An operation is described by what it does to the memory; *)
(* each lemma says what that means for the items in front, and that the      *)
(* length stays within the memory.                                          *)

Item == AlItems \cup {Garbage}
Memory == Seq(Item)
List == [mode : {"zeroed", "static", "dynamic"}, len : Nat, data : Memory]
ListOk(v) == v \in List /\ v.len <= Cap(v)
Refusals == {"oom", "invalid index", "exceeds max size", "empty", "dest copy too small"}

\* The list keeps its kind, and a static one its memory.
SameKind(v, w) == w.mode = v.mode /\ (v.mode = "static" => Cap(w) = Cap(v))

\* Calls are made on a list that has been initialised.
InUse(v) == v.mode # "zeroed"

\* What a call that returns r makes of v: a refusal leaves it alone.
Outcome(v, r) == ListOk(r[2]) /\ SameKind(v, r[2]) /\ (r[1] \in Refusals => r[2] = v)
\* It succeeds or refuses.
Tried(v, r) == r[1] = "ok" \/ (r[1] \in Refusals /\ r[2] = v)
\* The items of v in a memory of at least n items.
MoreRoom(v, n, w) ==
  /\ ListOk(w) /\ SameKind(v, w) /\ w.len = v.len /\ Cap(w) >= n
  /\ \A i \in 1 .. v.len : w.data[i] = v.data[i]
\* The items of v, but x with index n.
PutAt(v, x, n, w) ==
  /\ ListOk(w) /\ SameKind(v, w) /\ w.len = (IF n >= v.len THEN n + 1 ELSE v.len) /\ w.data[n + 1] = x
  /\ \A i \in 1 .. v.len : i # n + 1 => w.data[i] = v.data[i]

AlInv == alList \in [AlLists -> List] /\ \A l \in AlLists : ListOk(alList[l])

LEMMA ListFields ==
  ASSUME NEW v, ListOk(v)
  PROVE  /\ v = [mode |-> v.mode, len |-> v.len, data |-> v.data]
         /\ v.mode \in {"zeroed", "static", "dynamic"} /\ v.len \in Nat /\ v.data \in Memory
         /\ Cap(v) \in Nat /\ v.len <= Cap(v) /\ Cap(v) = Len(v.data)
<1>1. v.data \in Memory /\ v.len \in Nat BY DEF ListOk, List
<1>2. Len(v.data) \in Nat BY <1>1 DEF Memory
<1> QED BY <1>1, <1>2 DEF ListOk, List, Cap

LEMMA HoldsItems ==
  ASSUME NEW v, ListOk(v)
  PROVE  /\ Holds(v) \in Memory /\ Len(Holds(v)) = v.len
         /\ \A i \in 1 .. v.len : Holds(v)[i] = v.data[i]
<1>1. v.len \in Nat /\ v.data \in Seq(Item) /\ Len(v.data) \in Nat /\ v.len <= Len(v.data)
  BY ListFields DEF Memory
<1>2. \A i \in 1 .. v.len : v.data[i] \in Item BY <1>1
<1>3. /\ SubSeq(v.data, 1, v.len) \in Seq(Item)
      /\ Len(SubSeq(v.data, 1, v.len)) = IF 1 <= v.len THEN v.len - 1 + 1 ELSE 0
      /\ \A i \in 1 .. v.len - 1 + 1 : SubSeq(v.data, 1, v.len)[i] = v.data[1 + i - 1]
  BY <1>1, <1>2, SubSeqProperties
<1>4. Len(SubSeq(v.data, 1, v.len)) = v.len BY <1>1, <1>3
<1>5. \A i \in 1 .. v.len : SubSeq(v.data, 1, v.len)[i] = v.data[i] BY <1>1, <1>3
<1> QED BY <1>3, <1>4, <1>5, Zenon DEF Holds, Memory

\* Two lists hold the same items when their lengths and items agree.
LEMMA SameItems ==
  ASSUME NEW v, ListOk(v), NEW s \in Memory, Len(s) = v.len, \A i \in 1 .. v.len : v.data[i] = s[i]
  PROVE  Holds(v) = s
<1>1. Holds(v) \in Memory /\ Len(Holds(v)) = Len(s) BY HoldsItems
<1>2. \A i \in 1 .. Len(Holds(v)) : Holds(v)[i] = s[i] BY HoldsItems
<1> QED BY <1>1, <1>2, SeqEqual DEF Memory

LEMMA Joined ==
  \A s, t \in Memory : /\ s \o t \in Memory /\ Len(s \o t) = Len(s) + Len(t)
                       /\ \A i \in 1 .. Len(s) : (s \o t)[i] = s[i]
                       /\ \A i \in 1 .. Len(t) : (s \o t)[Len(s) + i] = t[i]
<1> SUFFICES ASSUME NEW s \in Memory, NEW t \in Memory
             PROVE  /\ s \o t \in Memory /\ Len(s \o t) = Len(s) + Len(t)
                    /\ \A i \in 1 .. Len(s) : (s \o t)[i] = s[i]
                    /\ \A i \in 1 .. Len(t) : (s \o t)[Len(s) + i] = t[i]
  OBVIOUS
<1>1. /\ s \o t \in Seq(Item) /\ Len(s \o t) = Len(s) + Len(t)
      /\ \A i \in 1 .. Len(s) + Len(t) : (s \o t)[i] = IF i <= Len(s) THEN s[i] ELSE t[i - Len(s)]
  BY ConcatProperties DEF Memory
<1>2. Len(s) \in Nat /\ Len(t) \in Nat BY DEF Memory
<1>3. \A i \in 1 .. Len(s) : (s \o t)[i] = s[i] BY <1>1, <1>2
<1>4. ASSUME NEW i \in 1 .. Len(t) PROVE (s \o t)[Len(s) + i] = t[i]
  <2>1. Len(s) + i \in 1 .. Len(s) + Len(t) /\ ~(Len(s) + i <= Len(s)) /\ Len(s) + i - Len(s) = i BY <1>2
  <2> QED BY <1>1, <2>1
<1> QED BY <1>1, <1>3, <1>4 DEF Memory

LEMMA BlankMemory ==
  ASSUME NEW n \in Nat
  PROVE  Blank(n) \in Memory /\ Len(Blank(n)) = n
<1>1. Garbage \in Item BY DEF Item
<1> QED BY <1>1 DEF Blank, Memory

LEMMA Extended ==
  \A s \in Memory, k \in Nat : /\ s \o Blank(k) \in Memory /\ Len(s \o Blank(k)) = Len(s) + k
                               /\ \A i \in 1 .. Len(s) : (s \o Blank(k))[i] = s[i]
<1> SUFFICES ASSUME NEW s \in Memory, NEW k \in Nat
             PROVE  /\ s \o Blank(k) \in Memory /\ Len(s \o Blank(k)) = Len(s) + k
                    /\ \A i \in 1 .. Len(s) : (s \o Blank(k))[i] = s[i]
  OBVIOUS
<1>1. Blank(k) \in Memory /\ Len(Blank(k)) = k BY BlankMemory
<1> QED BY ONLY <1>1, s \in Memory, Joined

LEMMA OverwriteMemory ==
  \A d, s \in Memory, i \in Nat : i # 0 =>
    /\ Overwrite(d, i, s) \in Memory /\ Len(Overwrite(d, i, s)) = Len(d)
    /\ \A j \in 1 .. Len(d) :
         Overwrite(d, i, s)[j] = IF j >= i /\ j < i + Len(s) THEN s[j - i + 1] ELSE d[j]
<1> SUFFICES ASSUME NEW d \in Memory, NEW s \in Memory, NEW i \in Nat \ {0}
             PROVE  /\ Overwrite(d, i, s) \in Memory /\ Len(Overwrite(d, i, s)) = Len(d)
                    /\ \A j \in 1 .. Len(d) :
                         Overwrite(d, i, s)[j] = IF j >= i /\ j < i + Len(s) THEN s[j - i + 1] ELSE d[j]
  OBVIOUS
<1>1. DOMAIN d = 1 .. Len(d) /\ Len(d) \in Nat /\ Len(s) \in Nat BY DEF Memory
<1>2. ASSUME NEW j \in 1 .. Len(d)
      PROVE (IF j >= i /\ j < i + Len(s) THEN s[j - i + 1] ELSE d[j]) \in Item
  <2>1. CASE j >= i /\ j < i + Len(s)
    <3>1. j - i + 1 \in 1 .. Len(s) BY <1>1, <2>1
    <3> QED BY <2>1, <3>1 DEF Memory
  <2>2. CASE ~(j >= i /\ j < i + Len(s)) BY <2>2 DEF Memory
  <2> QED BY <2>1, <2>2
<1>3. Overwrite(d, i, s) \in [1 .. Len(d) -> Item] BY <1>1, <1>2 DEF Overwrite
<1> QED BY <1>1, <1>3 DEF Overwrite, Memory

\* aws_array_list_ensure_capacity: more memory behind the old, or the list as it was.
LEMMA CapacityEnsured ==
  ASSUME ArrayAssumption, NEW v, ListOk(v), InUse(v), NEW n \in Nat, NEW r, r = EnsureCapacity(v, n)
  PROVE  Tried(v, r) /\ (r[1] = "ok" => MoreRoom(v, n + 1, r[2]))
<1> DEFINE need == n + 1
           new == IF 2 * Cap(v) > need THEN 2 * Cap(v) ELSE need
<1>1. /\ v.mode \in {"zeroed", "static", "dynamic"} /\ v.len \in Nat /\ v.data \in Memory
      /\ Cap(v) \in Nat /\ v.len <= Cap(v) /\ Cap(v) = Len(v.data)
  BY ListFields
<1>2. CASE Cap(v) >= need
  <2>1. r = <<"ok", v>> BY <1>2, Zenon DEF EnsureCapacity
  <2> QED BY <1>2, <2>1 DEF SameKind, Tried, MoreRoom
<1>3. CASE ~(Cap(v) >= need) /\ v.mode = "static"
  <2>1. r = <<"invalid index", v>> BY <1>3, Zenon DEF EnsureCapacity
  <2>2. r[1] = "invalid index" /\ r[2] = v BY ONLY <2>1
  <2> QED BY <2>2 DEF Tried, Refusals
<1>4. CASE ~(Cap(v) >= need) /\ v.mode # "static" /\ new > AllocLimit
  <2>1. r = <<"oom", v>> BY <1>4, Zenon DEF EnsureCapacity
  <2>2. r[1] = "oom" /\ r[2] = v BY ONLY <2>1
  <2> QED BY <2>2 DEF Tried, Refusals
<1>5. CASE ~(Cap(v) >= need) /\ v.mode # "static" /\ ~(new > AllocLimit)
  <2> DEFINE d == v.data \o Blank(new - Cap(v))
  <2>1. r = <<"ok", [v EXCEPT !.data = d]>> BY <1>5, Zenon DEF EnsureCapacity
  <2>2. new \in Nat /\ new >= need /\ new - Cap(v) \in Nat BY <1>1, <1>5
  <2> HIDE DEF new
  <2> DEFINE k == new - Cap(v)
  <2>3. k \in Nat /\ Cap(v) + k = new /\ new >= v.len BY <1>1, <1>5, <2>2
  <2> HIDE DEF k
  <2>4. d \in Memory /\ Len(d) = Cap(v) + k /\ \A i \in 1 .. Cap(v) : d[i] = v.data[i]
    BY <1>1, <2>3, Extended DEF k
  <2> HIDE DEF d
  <2>5. Len(d) = new /\ Len(d) >= v.len BY ONLY <2>3, <2>4
  <2>6. \A i \in 1 .. v.len : d[i] = v.data[i]
    <3>1. \A i \in 1 .. v.len : i \in 1 .. Cap(v) BY ONLY <1>1
    <3> QED BY ONLY <2>4, <3>1
  <2>7. /\ ListOk(r[2]) /\ r[2].mode = v.mode /\ r[2].len = v.len /\ r[2].data = d /\ r[1] = "ok"
    BY <1>1, <2>1, <2>4, <2>5 DEF ListOk, List, Cap
  <2>8. SameKind(v, r[2]) /\ Cap(r[2]) >= need BY <1>1, <1>5, <2>2, <2>5, <2>7 DEF SameKind, Cap
  <2> QED BY <2>6, <2>7, <2>8 DEF Tried, MoreRoom
<1> QED BY <1>2, <1>3, <1>4, <1>5

\* A part of the memory.
LEMMA Sliced ==
  \A s \in Memory, m, n \in Nat : 1 <= m /\ m <= n + 1 /\ n <= Len(s) =>
    /\ SubSeq(s, m, n) \in Memory /\ Len(SubSeq(s, m, n)) = n + 1 - m
    /\ \A i \in 1 .. n + 1 - m : SubSeq(s, m, n)[i] = s[m + i - 1]
<1> SUFFICES ASSUME NEW s \in Memory, NEW m \in Nat, NEW n \in Nat, 1 <= m, m <= n + 1, n <= Len(s)
             PROVE  /\ SubSeq(s, m, n) \in Memory /\ Len(SubSeq(s, m, n)) = n + 1 - m
                    /\ \A i \in 1 .. n + 1 - m : SubSeq(s, m, n)[i] = s[m + i - 1]
  OBVIOUS
<1>1. Len(s) \in Nat /\ m \in Int /\ n \in Int /\ \A i \in 1 .. Len(s) : s[i] \in Item BY DEF Memory
<1>2. \A i \in m .. n : s[i] \in Item
  <2>1. \A i \in m .. n : i \in 1 .. Len(s) BY <1>1
  <2> QED BY <1>1, <2>1
<1>3. /\ SubSeq(s, m, n) \in Seq(Item) /\ Len(SubSeq(s, m, n)) = IF m <= n THEN n - m + 1 ELSE 0
      /\ \A i \in 1 .. n - m + 1 : SubSeq(s, m, n)[i] = s[m + i - 1]
  BY <1>1, <1>2, SubSeqProperties
<1>4. n - m + 1 = n + 1 - m /\ (~(m <= n) => n + 1 - m = 0) OBVIOUS
<1>5. Len(SubSeq(s, m, n)) = n + 1 - m BY <1>3, <1>4
<1> QED BY <1>3, <1>4, <1>5 DEF Memory

\* Filling the memory behind the items shows nothing.
LEMMA Trimmed ==
  ASSUME NEW v, ListOk(v)
  PROVE  /\ ListOk(Trim(v)) /\ Trim(v).mode = v.mode /\ Cap(Trim(v)) = Cap(v) /\ Trim(v).len = v.len
         /\ Holds(Trim(v)) = Holds(v)
<1> DEFINE k == Cap(v) - v.len
           d == Holds(v) \o Blank(k)
<1>1. v.len \in Nat /\ Cap(v) \in Nat /\ v.len <= Cap(v) BY ListFields
<1>2. Holds(v) \in Memory /\ Len(Holds(v)) = v.len BY HoldsItems
<1>3. k \in Nat /\ v.len + k = Cap(v) BY <1>1
<1>4. Trim(v) = [v EXCEPT !.data = d] BY DEF Trim
<1> HIDE DEF k
<1>5. d \in Memory /\ Len(d) = v.len + k /\ \A i \in 1 .. v.len : d[i] = Holds(v)[i] BY <1>2, <1>3, Extended
<1> HIDE DEF d
<1>6. /\ ListOk(Trim(v)) /\ Trim(v).mode = v.mode /\ Trim(v).len = v.len /\ Trim(v).data = d
      /\ Cap(Trim(v)) = Cap(v)
  BY <1>1, <1>3, <1>4, <1>5 DEF ListOk, List, Cap
<1>7. Holds(Trim(v)) = Holds(v)
  <2>1. \A i \in 1 .. Trim(v).len : Trim(v).data[i] = Holds(v)[i] BY <1>5, <1>6
  <2> QED BY <1>2, <1>6, <2>1, SameItems
<1> QED BY <1>6, <1>7

\* aws_array_list_set_at
LEMMA ItemSet ==
  ASSUME ArrayAssumption, NEW v, ListOk(v), InUse(v), NEW x \in AlItems, NEW n \in Nat,
         NEW r, r = SetAt(v, x, n)
  PROVE  Tried(v, r) /\ (r[1] = "ok" => PutAt(v, x, n, r[2]))
<1> DEFINE e == EnsureCapacity(v, n)
           w == e[2]
           m == IF n >= v.len THEN n + 1 ELSE v.len
           d == [w.data EXCEPT ![n + 1] = x]
<1>1. Tried(v, e) /\ (e[1] = "ok" => MoreRoom(v, n + 1, w)) BY CapacityEnsured
<1>2. CASE e[1] # "ok"
  <2>1. r = e BY <1>2 DEF SetAt
  <2> HIDE DEF e
  <2> QED BY <1>1, <1>2, <2>1
<1>3. CASE e[1] = "ok"
  <2>1. r = <<"ok", [w EXCEPT !.data[n + 1] = x, !.len = IF n >= v.len THEN n + 1 ELSE @]>>
    BY <1>3, Zenon DEF SetAt
  <2>2. /\ ListOk(w) /\ SameKind(v, w) /\ w.len = v.len /\ Cap(w) >= n + 1
        /\ \A i \in 1 .. v.len : w.data[i] = v.data[i]
    BY <1>1, <1>3 DEF MoreRoom
  <2> HIDE DEF e, w
  <2>3. /\ w = [mode |-> w.mode, len |-> w.len, data |-> w.data]
        /\ w.mode \in {"zeroed", "static", "dynamic"} /\ w.len \in Nat /\ w.data \in Memory
        /\ Cap(w) \in Nat /\ w.len <= Cap(w) /\ Cap(w) = Len(w.data)
    BY <2>2, ListFields
  <2>4. n + 1 \in 1 .. Len(w.data) /\ x \in Item BY <2>2, <2>3 DEF Item
  <2>5. /\ d \in Memory /\ Len(d) = Len(w.data) /\ d[n + 1] = x
        /\ \A i \in 1 .. Len(w.data) : i # n + 1 => d[i] = w.data[i]
    BY <2>3, <2>4, ExceptSeq DEF Memory
  <2>6. m \in Nat /\ m <= Len(d) BY <2>2, <2>3, <2>5
  <2>7. r = <<"ok", [mode |-> w.mode, len |-> m, data |-> d]>>
    <3>1. PICK a, b, c : w = [mode |-> a, len |-> b, data |-> c] BY <2>3
    <3>2. a = w.mode /\ b = w.len /\ c = w.data BY <3>1
    <3>3. r = <<"ok", [mode |-> a, len |-> IF n >= v.len THEN n + 1 ELSE b, data |-> [c EXCEPT ![n + 1] = x]]>>
      <4>1. [w EXCEPT !.data[n + 1] = x] = [mode |-> a, len |-> b, data |-> [c EXCEPT ![n + 1] = x]]
        BY ONLY <3>1
      <4>2. [w EXCEPT !.data[n + 1] = x, !.len = IF n >= v.len THEN n + 1 ELSE @]
              = [[w EXCEPT !.data[n + 1] = x] EXCEPT !.len = IF n >= v.len THEN n + 1 ELSE @]
        OBVIOUS
      <4>3. [[mode |-> a, len |-> b, data |-> [c EXCEPT ![n + 1] = x]] EXCEPT !.len = IF n >= v.len THEN n + 1 ELSE @]
              = [mode |-> a, len |-> IF n >= v.len THEN n + 1 ELSE b, data |-> [c EXCEPT ![n + 1] = x]]
        BY ONLY TRUE
      <4> QED BY ONLY <2>1, <4>1, <4>2, <4>3, Zenon
    <3> QED BY <2>2, <3>2, <3>3
  <2> HIDE DEF d, m
  <2>8. r[1] = "ok" /\ r[2].mode = w.mode /\ r[2].len = m /\ r[2].data = d BY ONLY <2>7
  <2>9. ListOk(r[2]) BY <2>3, <2>5, <2>6, <2>7 DEF ListOk, List, Cap
  <2>10. SameKind(v, r[2]) BY <2>2, <2>5, <2>8 DEF SameKind, Cap
  <2>11. \A i \in 1 .. v.len : i # n + 1 => r[2].data[i] = v.data[i]
    <3>1. \A i \in 1 .. v.len : i \in 1 .. Len(w.data) BY <2>2, <2>3
    <3> QED BY <2>2, <2>5, <2>8, <3>1
  <2> QED BY <2>5, <2>8, <2>9, <2>10, <2>11 DEF Tried, PutAt, m
<1> QED BY <1>2, <1>3

\* The end of a static list is a refusal under either name.
LEMMA EndReported ==
  ASSUME NEW v, NEW q, NEW r, r = Exceeds(v, q)
  PROVE  /\ q[1] = "ok" => r = q
         /\ q[1] \in Refusals => r[1] \in Refusals /\ r[2] = q[2]
<1>1. CASE q[1] = "invalid index" /\ v.mode = "static"
  <2>1. r = <<"exceeds max size", q[2]>> BY <1>1, Zenon DEF Exceeds
  <2>2. r[1] = "exceeds max size" /\ r[2] = q[2] BY ONLY <2>1
  <2>3. q[1] # "ok" BY <1>1
  <2>4. r[1] \in Refusals BY ONLY <2>2 DEF Refusals
  <2> QED BY ONLY <2>2, <2>3, <2>4
<1>2. CASE ~(q[1] = "invalid index" /\ v.mode = "static")
  <2>1. r = q BY <1>2, Zenon DEF Exceeds
  <2> QED BY <2>1, Zenon
<1> QED BY <1>1, <1>2

\* aws_array_list_push_back
LEMMA PushedBack ==
  ASSUME ArrayAssumption, NEW v, ListOk(v), InUse(v), NEW x \in AlItems, NEW r, r = PushBack(v, x)
  PROVE  Outcome(v, r) /\ (r[1] \notin Refusals => Holds(r[2]) = Append(Holds(v), x))
<1> DEFINE q == SetAt(v, x, v.len)
<1>1. v.len \in Nat BY ListFields
<1>2. Tried(v, q) /\ (q[1] = "ok" => PutAt(v, x, v.len, q[2])) BY <1>1, ItemSet
<1>3. r = Exceeds(v, q) BY DEF PushBack
<1> HIDE DEF q
<1>4. /\ q[1] = "ok" => r = q
      /\ q[1] \in Refusals => r[1] \in Refusals /\ r[2] = q[2]
  BY <1>3, EndReported
<1>5. CASE q[1] = "ok"
  <2>1. r = q BY <1>4, <1>5
  <2>2. /\ ListOk(q[2]) /\ SameKind(v, q[2]) /\ q[2].len = v.len + 1 /\ q[2].data[v.len + 1] = x
        /\ \A i \in 1 .. v.len : q[2].data[i] = v.data[i]
    <3>1. \A i \in 1 .. v.len : i # v.len + 1 BY <1>1
    <3> QED BY <1>1, <1>2, <1>5, <3>1 DEF PutAt
  <2>3. Holds(v) \in Memory /\ Len(Holds(v)) = v.len /\ \A i \in 1 .. v.len : Holds(v)[i] = v.data[i]
    BY HoldsItems
  <2>4. x \in Item BY DEF Item
  <2>5. /\ Append(Holds(v), x) \in Memory /\ Len(Append(Holds(v), x)) = v.len + 1
        /\ \A i \in 1 .. v.len : Append(Holds(v), x)[i] = Holds(v)[i]
        /\ Append(Holds(v), x)[v.len + 1] = x
    BY <2>3, <2>4, AppendProperties DEF Memory
  <2>6. \A i \in 1 .. q[2].len : q[2].data[i] = Append(Holds(v), x)[i]
    <3>1. \A i \in 1 .. v.len + 1 : i \in 1 .. v.len \/ i = v.len + 1 BY <1>1
    <3> QED BY <2>2, <2>3, <2>5, <3>1
  <2>7. Holds(q[2]) = Append(Holds(v), x) BY <2>2, <2>5, <2>6, SameItems
  <2>8. r[1] \notin Refusals BY <1>5, <2>1 DEF Refusals
  <2> QED BY <2>1, <2>2, <2>7, <2>8 DEF Outcome
<1>6. CASE q[1] # "ok"
  <2>1. q[2] = v /\ q[1] \in Refusals BY <1>2, <1>6 DEF Tried
  <2>2. r[2] = v /\ r[1] \in Refusals BY <1>4, <2>1
  <2> QED BY <2>2 DEF Outcome, SameKind
<1> QED BY <1>5, <1>6

\* aws_array_list_push_front
LEMMA PushedFront ==
  ASSUME ArrayAssumption, NEW v, ListOk(v), InUse(v), NEW x \in AlItems, NEW r, r = PushFront(v, x)
  PROVE  Outcome(v, r) /\ (r[1] \notin Refusals => Holds(r[2]) = <<x>> \o Holds(v))
<1> DEFINE e == EnsureCapacity(v, v.len)
           w == e[2]
<1>1. v.len \in Nat BY ListFields
<1>2. Tried(v, e) /\ (e[1] = "ok" => MoreRoom(v, v.len + 1, w)) BY <1>1, CapacityEnsured
<1>3. CASE e[1] # "ok"
  <2>1. r = Exceeds(v, e) BY <1>3, Zenon DEF PushFront
  <2> HIDE DEF e
  <2>2. e[2] = v /\ e[1] \in Refusals BY <1>2, <1>3 DEF Tried
  <2>3. r[2] = v /\ r[1] \in Refusals BY <2>1, <2>2, EndReported
  <2> QED BY <2>3 DEF Outcome, SameKind
<1>4. CASE e[1] = "ok"
  <2> DEFINE moved == Overwrite(w.data, 2, Holds(w))
             d == Overwrite(moved, 1, <<x>>)
  <2>1. r = <<"ok", [w EXCEPT !.data = d, !.len = @ + 1]>> BY <1>4, Zenon DEF PushFront
  <2>2. /\ ListOk(w) /\ SameKind(v, w) /\ w.len = v.len /\ Cap(w) >= v.len + 1
        /\ \A i \in 1 .. v.len : w.data[i] = v.data[i]
    BY <1>2, <1>4 DEF MoreRoom
  <2> HIDE DEF e, w
  <2>3. w.len \in Nat /\ w.data \in Memory /\ Cap(w) = Len(w.data) /\ Cap(w) \in Nat BY <2>2, ListFields
  <2>4. /\ Holds(w) \in Memory /\ Len(Holds(w)) = v.len /\ \A i \in 1 .. v.len : Holds(w)[i] = v.data[i]
    BY <2>2, HoldsItems
  <2>5. /\ moved \in Memory /\ Len(moved) = Len(w.data)
        /\ \A j \in 1 .. Len(w.data) :
             moved[j] = IF j >= 2 /\ j < 2 + Len(Holds(w)) THEN Holds(w)[j - 2 + 1] ELSE w.data[j]
    <3>1. 2 \in Nat /\ 2 # 0 OBVIOUS
    <3> QED BY <2>3, <2>4, <3>1, OverwriteMemory, Zenon
  <2> HIDE DEF moved
  <2>6. <<x>> \in Memory /\ Len(<<x>>) = 1 /\ <<x>>[1] = x BY DEF Memory, Item
  <2>7. /\ d \in Memory /\ Len(d) = Len(moved)
        /\ \A j \in 1 .. Len(moved) : d[j] = IF j >= 1 /\ j < 1 + Len(<<x>>) THEN <<x>>[j - 1 + 1] ELSE moved[j]
    <3>1. 1 \in Nat /\ 1 # 0 OBVIOUS
    <3> QED BY <2>5, <2>6, <3>1, OverwriteMemory, Zenon
  <2> HIDE DEF d
  <2>8. d[1] = x
    <3>1. 1 \in 1 .. Len(moved) BY <1>1, <2>2, <2>3, <2>5
    <3> QED BY <2>6, <2>7, <3>1
  <2>9. ASSUME NEW i \in 1 .. v.len PROVE d[i + 1] = v.data[i]
    <3>1. i + 1 \in 1 .. Len(moved) /\ i + 1 \in 1 .. Len(w.data) BY <1>1, <2>2, <2>3, <2>5
    <3>2. ~(i + 1 < 1 + Len(<<x>>)) BY <2>6
    <3>3. d[i + 1] = moved[i + 1] BY <2>7, <3>1, <3>2
    <3>4. i + 1 >= 2 /\ i + 1 < 2 + Len(Holds(w)) /\ i + 1 - 2 + 1 = i BY <1>1, <2>4
    <3>5. moved[i + 1] = Holds(w)[i] BY <2>5, <3>1, <3>4
    <3> QED BY <2>4, <3>3, <3>5
  <2>10. w.len + 1 \in Nat /\ w.len + 1 <= Len(d) /\ Len(d) = Cap(w) BY <2>2, <2>3, <2>5, <2>7
  <2>11. /\ ListOk(r[2]) /\ r[2].mode = w.mode /\ r[2].len = v.len + 1 /\ r[2].data = d /\ r[1] = "ok"
    <3>1. w \in List BY <2>2 DEF ListOk
    <3>2. /\ r[2] \in List /\ r[2].mode = w.mode /\ r[2].len = w.len + 1 /\ r[2].data = d /\ r[1] = "ok"
      BY ONLY <2>1, <2>7, <2>10, <3>1 DEF List
    <3> QED BY <2>2, <2>10, <3>2 DEF ListOk, Cap
  <2>12. SameKind(v, r[2]) BY <2>2, <2>10, <2>11 DEF SameKind, Cap
  <2>13. Holds(r[2]) = <<x>> \o Holds(v)
    <3>1. Holds(v) \in Memory /\ Len(Holds(v)) = v.len /\ \A i \in 1 .. v.len : Holds(v)[i] = v.data[i]
      BY HoldsItems
    <3> DEFINE t == <<x>> \o Holds(v)
    <3>2. /\ t \in Memory /\ Len(t) = Len(<<x>>) + Len(Holds(v)) /\ \A i \in 1 .. Len(<<x>>) : t[i] = <<x>>[i]
          /\ \A i \in 1 .. Len(Holds(v)) : t[Len(<<x>>) + i] = Holds(v)[i]
      BY <2>6, <3>1, Joined
    <3> HIDE DEF t
    <3>3. Len(t) = v.len + 1 /\ t[1] = x /\ \A i \in 1 .. v.len : t[1 + i] = v.data[i]
      BY <1>1, <2>6, <3>1, <3>2
    <3>4. ASSUME NEW i \in 1 .. v.len + 1 PROVE d[i] = t[i]
      <4>1. CASE i = 1 BY <2>8, <3>3, <4>1
      <4>2. CASE i # 1
        <5>1. i - 1 \in 1 .. v.len /\ (i - 1) + 1 = i /\ 1 + (i - 1) = i BY <1>1, <4>2
        <5> QED BY <2>9, <3>3, <5>1
      <4> QED BY <4>1, <4>2
    <3>5. \A i \in 1 .. r[2].len : r[2].data[i] = t[i] BY <2>11, <3>4
    <3>6. Holds(r[2]) = t BY <2>11, <3>2, <3>3, <3>5, SameItems
    <3> QED BY <3>6 DEF t
  <2> QED BY <2>11, <2>12, <2>13 DEF Outcome, Refusals
<1> QED BY <1>3, <1>4

\* What a call leaves: the kind of v, with the items s.
Kept(v, w, s) == ListOk(w) /\ SameKind(v, w) /\ Holds(w) = s

LEMMA Became ==
  ASSUME NEW v, NEW w, ListOk(w), SameKind(v, w), NEW s \in Memory, Len(s) = w.len,
         \A i \in 1 .. w.len : w.data[i] = s[i]
  PROVE  Kept(v, w, s)
BY SameItems DEF Kept

\* Memory behind the items is filled after most calls.
LEMMA KeptTrimmed ==
  ASSUME NEW v, NEW w, NEW s, Kept(v, w, s)
  PROVE  Kept(v, Trim(w), s)
<1>1. ListOk(w) /\ SameKind(v, w) /\ Holds(w) = s BY DEF Kept
<1>2. /\ ListOk(Trim(w)) /\ Trim(w).mode = w.mode /\ Cap(Trim(w)) = Cap(w) /\ Holds(Trim(w)) = Holds(w)
  BY <1>1, Trimmed
<1>3. SameKind(v, Trim(w)) BY <1>1, <1>2, Zenon DEF SameKind
<1> QED BY <1>1, <1>2, <1>3, Zenon DEF Kept

\* aws_array_list_clear
LEMMA Cleared ==
  ASSUME NEW v, ListOk(v), NEW r, r = ClearList(v)
  PROVE  Kept(v, r, <<>>)
<1>1. v.len \in Nat /\ Cap(v) \in Nat /\ v.len <= Cap(v) /\ v.data \in Memory /\ Cap(v) = Len(v.data) BY ListFields
<1>2. <<>> \in Memory /\ Len(<<>>) = 0 BY DEF Memory
<1>3. CASE Cap(v) > 0
  <2> DEFINE w == [v EXCEPT !.len = 0]
  <2>1. ListOk(w) /\ w.mode = v.mode /\ w.len = 0 /\ w.data = v.data BY <1>1 DEF ListOk, List, Cap
  <2>2. r = Trim(w) BY <1>3, Zenon DEF ClearList
  <2> HIDE DEF w
  <2>3. SameKind(v, w) BY <2>1, Zenon DEF SameKind, Cap
  <2>4. \A i \in 1 .. w.len : w.data[i] = <<>>[i] BY ONLY <2>1
  <2>5. Kept(v, w, <<>>) BY <1>2, <2>1, <2>3, <2>4, Became
  <2> QED BY <2>2, <2>5, KeptTrimmed
<1>4. CASE ~(Cap(v) > 0)
  <2>1. r = v BY <1>4, Zenon DEF ClearList
  <2>2. v.len = 0 BY <1>1, <1>4
  <2>3. \A i \in 1 .. v.len : v.data[i] = <<>>[i] BY ONLY <2>2
  <2>4. SameKind(v, v) BY Zenon DEF SameKind
  <2> QED BY <1>2, <2>1, <2>2, <2>3, <2>4, Became
<1> QED BY <1>3, <1>4

\* The items from m on are moved to k.
LEMMA MovedDown ==
  ASSUME NEW v, ListOk(v), NEW k \in Nat, NEW m \in Nat, 1 <= k, k <= m, m <= v.len + 1,
         NEW d, d = Overwrite(v.data, k, SubSeq(v.data, m, v.len))
  PROVE  /\ d \in Memory /\ Len(d) = Cap(v)
         /\ \A j \in 1 .. k - 1 : d[j] = v.data[j]
         /\ \A j \in k .. k + (v.len - m) : d[j] = v.data[j + (m - k)]
<1> DEFINE s == SubSeq(v.data, m, v.len)
<1>1. v.len \in Nat /\ Cap(v) \in Nat /\ v.len <= Cap(v) /\ v.data \in Memory /\ Cap(v) = Len(v.data) BY ListFields
<1>2. /\ s \in Memory /\ Len(s) = v.len + 1 - m
      /\ \A i \in 1 .. v.len + 1 - m : s[i] = v.data[m + i - 1]
  BY <1>1, Sliced
<1>3. d = Overwrite(v.data, k, s) OBVIOUS
<1> HIDE DEF s
<1>4. /\ d \in Memory /\ Len(d) = Len(v.data)
      /\ \A j \in 1 .. Len(v.data) : d[j] = IF j >= k /\ j < k + Len(s) THEN s[j - k + 1] ELSE v.data[j]
  <2>1. k \in Nat /\ k # 0 OBVIOUS
  <2> DEFINE o == Overwrite(v.data, k, s)
  <2>2. /\ o \in Memory /\ Len(o) = Len(v.data)
        /\ \A j \in 1 .. Len(v.data) : o[j] = IF j >= k /\ j < k + Len(s) THEN s[j - k + 1] ELSE v.data[j]
    BY <1>1, <1>2, <2>1, OverwriteMemory, Zenon
  <2> HIDE DEF o
  <2>3. d = o BY <1>3 DEF o
  <2> QED BY <2>2, <2>3
<1>5. ASSUME NEW j \in 1 .. k - 1 PROVE d[j] = v.data[j]
  <2>1. j \in 1 .. Len(v.data) /\ ~(j >= k /\ j < k + Len(s)) BY <1>1
  <2> QED BY <1>4, <2>1
<1>6. ASSUME NEW j \in k .. k + (v.len - m) PROVE d[j] = v.data[j + (m - k)]
  <2>1. j \in 1 .. Len(v.data) /\ j >= k /\ j < k + Len(s) BY <1>1, <1>2
  <2>2. d[j] = s[j - k + 1] BY <1>4, <2>1
  <2>3. j - k + 1 \in 1 .. v.len + 1 - m /\ m + (j - k + 1) - 1 = j + (m - k) BY <1>1
  <2> QED BY <1>2, <2>2, <2>3
<1> QED BY <1>1, <1>4, <1>5, <1>6

\* aws_array_list_pop_front_n
LEMMA PoppedFrontN ==
  ASSUME NEW v, ListOk(v), NEW n \in Nat, NEW r, r = PopFrontN(v, n)
  PROVE  Kept(v, r, SubSeq(Holds(v), n + 1, v.len))
<1>1. v.len \in Nat /\ Cap(v) \in Nat /\ v.len <= Cap(v) /\ v.data \in Memory /\ Cap(v) = Len(v.data) BY ListFields
<1>2. Holds(v) \in Memory /\ Len(Holds(v)) = v.len /\ \A i \in 1 .. v.len : Holds(v)[i] = v.data[i]
  BY HoldsItems
<1>3. CASE n >= v.len
  <2>1. r = ClearList(v) BY <1>3, Zenon DEF PopFrontN
  <2>2. SubSeq(Holds(v), n + 1, v.len) = <<>> BY <1>1, <1>2, <1>3 DEF Memory
  <2> QED BY <2>1, <2>2, Cleared
<1>4. CASE ~(n >= v.len)
  <2>1. PICK d : d = Overwrite(v.data, 1, SubSeq(v.data, n + 1, v.len)) OBVIOUS
  <2> DEFINE w == [v EXCEPT !.data = d, !.len = v.len - n]
             s == SubSeq(Holds(v), n + 1, v.len)
  <2>2. r = Trim(w) BY <1>4, <2>1, Zenon DEF PopFrontN
  <2>3. 1 \in Nat /\ n + 1 \in Nat /\ 1 <= n + 1 /\ n + 1 <= v.len + 1 /\ n + 1 <= v.len BY <1>1, <1>4
  <2>4. /\ d \in Memory /\ Len(d) = Cap(v)
        /\ \A j \in 1 .. 1 + (v.len - (n + 1)) : d[j] = v.data[j + ((n + 1) - 1)]
    BY <2>1, <2>3, MovedDown
  <2>5. v.len - n \in Nat /\ v.len - n <= Len(d) BY <1>1, <1>4, <2>4
  <2>6. PICK n0 : n0 = v.len - n OBVIOUS
  <2>7. w = [v EXCEPT !.data = d, !.len = n0] BY <2>6
  <2> HIDE DEF w
  <2>8. ListOk(w) /\ w.mode = v.mode /\ w.len = v.len - n /\ w.data = d
    <3>1. n0 \in Nat /\ n0 <= Len(d) BY <2>6, <2>5
    <3>2. ListOk(w) /\ w.mode = v.mode /\ w.len = n0 /\ w.data = d BY ONLY ListOk(v), <2>7, <2>4, <3>1 DEF ListOk, List, Cap
    <3> QED BY <2>6, <3>2
  <2>9. SameKind(v, w) BY <2>4, <2>8, Zenon DEF SameKind, Cap
  <2>10. /\ s \in Memory /\ Len(s) = v.len + 1 - (n + 1)
        /\ \A i \in 1 .. v.len + 1 - (n + 1) : s[i] = Holds(v)[(n + 1) + i - 1]
    BY <1>1, <1>2, <2>3, Sliced
  <2> HIDE DEF s
  <2>11. ASSUME NEW i \in 1 .. w.len PROVE w.data[i] = s[i]
    <3>1. i \in 1 .. 1 + (v.len - (n + 1)) /\ i \in 1 .. v.len + 1 - (n + 1) BY <1>1, <2>8
    <3>2. i + ((n + 1) - 1) = i + n /\ (n + 1) + i - 1 = i + n /\ i + n \in 1 .. v.len BY <1>1, <2>8
    <3> QED BY <1>2, <2>4, <2>8, <2>10, <3>1, <3>2
  <2>12. Len(s) = w.len BY <1>1, <2>8, <2>10
  <2>13. Kept(v, w, s) BY <2>8, <2>9, <2>10, <2>11, <2>12, Became
  <2> QED BY <2>2, <2>13, KeptTrimmed DEF s
<1> QED BY <1>3, <1>4

\* aws_array_list_pop_back
LEMMA PoppedBack ==
  ASSUME NEW v, ListOk(v), v.len > 0, NEW r, r = PopBack(v)
  PROVE  r[1] = "ok" /\ Kept(v, r[2], SubSeq(Holds(v), 1, v.len - 1))
<1> DEFINE d == [v.data EXCEPT ![v.len] = Garbage]
           w == [v EXCEPT !.data = d, !.len = v.len - 1]
           s == SubSeq(Holds(v), 1, v.len - 1)
<1>1. v.len \in Nat /\ Cap(v) \in Nat /\ v.len <= Cap(v) /\ v.data \in Memory /\ Cap(v) = Len(v.data) BY ListFields
<1>2. Holds(v) \in Memory /\ Len(Holds(v)) = v.len /\ \A i \in 1 .. v.len : Holds(v)[i] = v.data[i]
  BY HoldsItems
<1>3. r = <<"ok", w>>
  <2>1. r = <<"ok", [v EXCEPT !.data[v.len] = Garbage, !.len = v.len - 1]>> BY Zenon DEF PopBack
  <2> QED BY <2>1
<1>4. v.len \in 1 .. Len(v.data) /\ Garbage \in Item BY <1>1 DEF Item
<1>5. d \in Memory /\ Len(d) = Len(v.data) /\ \A i \in 1 .. Len(v.data) : i # v.len => d[i] = v.data[i]
  BY <1>1, <1>4, ExceptSeq DEF Memory
<1> HIDE DEF d
<1>6. v.len - 1 \in Nat /\ v.len - 1 <= Len(d) BY <1>1, <1>5
<1>7. PICK n0 : n0 = v.len - 1 OBVIOUS
<1>8. w = [v EXCEPT !.data = d, !.len = n0] BY <1>7
<1> HIDE DEF w
<1>9. ListOk(w) /\ w.mode = v.mode /\ w.len = v.len - 1 /\ w.data = d
  <2>1. n0 \in Nat /\ n0 <= Len(d) BY <1>7, <1>6
  <2>2. ListOk(w) /\ w.mode = v.mode /\ w.len = n0 /\ w.data = d BY ONLY ListOk(v), <1>8, <1>5, <2>1 DEF ListOk, List, Cap
  <2> QED BY <1>7, <2>2
<1>10. SameKind(v, w) BY <1>1, <1>5, <1>9, Zenon DEF SameKind, Cap
<1>11. /\ s \in Memory /\ Len(s) = v.len - 1 + 1 - 1
      /\ \A i \in 1 .. v.len - 1 + 1 - 1 : s[i] = Holds(v)[1 + i - 1]
  <2>1. 1 \in Nat /\ 1 <= v.len - 1 + 1 /\ v.len - 1 <= Len(Holds(v)) /\ 1 <= 1 BY <1>1, <1>2
  <2> QED BY <1>2, <1>6, <2>1, Sliced
<1> HIDE DEF s
<1>12. ASSUME NEW i \in 1 .. w.len PROVE w.data[i] = s[i]
  <2>1. i \in 1 .. v.len - 1 + 1 - 1 /\ 1 + i - 1 = i /\ i \in 1 .. v.len /\ i # v.len /\ i \in 1 .. Len(v.data)
    BY <1>1, <1>9
  <2> QED BY <1>2, <1>5, <1>9, <1>11, <2>1
<1>13. Len(s) = w.len BY <1>1, <1>9, <1>11
<1>14. Kept(v, w, s) BY <1>9, <1>10, <1>11, <1>12, <1>13, Became
<1> QED BY <1>3, <1>14 DEF s

\* The items but the i-th.
LEMMA Removed ==
  ASSUME NEW s \in Memory, NEW i \in 1 .. Len(s)
  PROVE  /\ RemoveAt(s, i) \in Memory /\ Len(RemoveAt(s, i)) = Len(s) - 1
         /\ \A j \in 1 .. i - 1 : RemoveAt(s, i)[j] = s[j]
         /\ \A j \in i .. Len(s) - 1 : RemoveAt(s, i)[j] = s[j + 1]
<1> DEFINE a == SubSeq(s, 1, i - 1)
           b == SubSeq(s, i + 1, Len(s))
<1>1. Len(s) \in Nat /\ i \in Nat BY DEF Memory
<1>2. i - 1 \in Nat /\ i + 1 \in Nat /\ 1 \in Nat /\ 1 <= 1 /\ 1 <= i - 1 + 1 /\ i - 1 <= Len(s) BY <1>1
<1>3. 1 <= i + 1 /\ i + 1 <= Len(s) + 1 /\ Len(s) <= Len(s) BY <1>1
<1>4. a \in Memory /\ Len(a) = i - 1 + 1 - 1 /\ \A j \in 1 .. i - 1 + 1 - 1 : a[j] = s[1 + j - 1]
  BY <1>2, Sliced
<1>5. /\ b \in Memory /\ Len(b) = Len(s) + 1 - (i + 1)
      /\ \A j \in 1 .. Len(s) + 1 - (i + 1) : b[j] = s[(i + 1) + j - 1]
  BY <1>1, <1>2, <1>3, Sliced
<1>6. RemoveAt(s, i) = a \o b BY DEF RemoveAt
<1> HIDE DEF a, b
<1>7. /\ a \o b \in Memory /\ Len(a \o b) = Len(a) + Len(b)
      /\ \A j \in 1 .. Len(a) : (a \o b)[j] = a[j]
      /\ \A j \in 1 .. Len(b) : (a \o b)[Len(a) + j] = b[j]
  BY <1>4, <1>5, Joined
<1>8. Len(a) = i - 1 /\ Len(b) = Len(s) - i BY <1>1, <1>4, <1>5
<1>9. ASSUME NEW j \in 1 .. i - 1 PROVE (a \o b)[j] = s[j]
  <2>1. j \in 1 .. i - 1 + 1 - 1 /\ 1 + j - 1 = j /\ j \in 1 .. Len(a) BY <1>1, <1>8
  <2> QED BY <1>4, <1>7, <2>1
<1>10. ASSUME NEW j \in i .. Len(s) - 1 PROVE (a \o b)[j] = s[j + 1]
  <2> DEFINE k == j - (i - 1)
  <2>1. k \in 1 .. Len(b) /\ k \in 1 .. Len(s) + 1 - (i + 1) /\ Len(a) + k = j /\ (i + 1) + k - 1 = j + 1
    BY <1>1, <1>8
  <2> HIDE DEF k
  <2>2. (a \o b)[Len(a) + k] = b[k] BY <1>7, <2>1
  <2>3. b[k] = s[(i + 1) + k - 1] BY <1>5, <2>1
  <2> QED BY <2>1, <2>2, <2>3
<1>11. Len(a) + Len(b) = Len(s) - 1 BY <1>1, <1>8
<1> QED BY <1>6, <1>7, <1>9, <1>10, <1>11

\* aws_array_list_erase
LEMMA Erased ==
  ASSUME NEW v, ListOk(v), NEW n \in Nat, NEW r, r = Erase(v, n)
  PROVE  IF n >= v.len THEN r = <<"invalid index", v>>
                       ELSE r[1] = "ok" /\ Kept(v, r[2], RemoveAt(Holds(v), n + 1))
<1> DEFINE s == Holds(v)
<1>1. v.len \in Nat /\ Cap(v) \in Nat /\ v.len <= Cap(v) /\ v.data \in Memory /\ Cap(v) = Len(v.data) BY ListFields
<1>2. s \in Memory /\ Len(s) = v.len /\ \A i \in 1 .. v.len : s[i] = v.data[i] BY HoldsItems
<1> HIDE DEF s
<1>3. CASE n >= v.len
  <2>1. r = <<"invalid index", v>> BY <1>3, Zenon DEF Erase
  <2> QED BY <1>3, <2>1
<1>4. ASSUME ~(n >= v.len) PROVE r[1] = "ok" /\ Kept(v, r[2], RemoveAt(s, n + 1))
  <2> DEFINE t == RemoveAt(s, n + 1)
  <2>1. n + 1 \in 1 .. Len(s) BY <1>1, <1>2, <1>4
  <2>2. /\ t \in Memory /\ Len(t) = Len(s) - 1
        /\ \A j \in 1 .. (n + 1) - 1 : t[j] = s[j]
        /\ \A j \in n + 1 .. Len(s) - 1 : t[j] = s[j + 1]
    BY <1>2, <2>1, Removed
  <2> HIDE DEF t
  <2>3. CASE n = 0
    <3>1. r = PopFront(v) BY <1>4, <2>3, Zenon DEF Erase
    <3>2. v.len > 0 BY <1>1, <1>4, <2>3
    <3>3. r = <<"ok", PopFrontN(v, 1)>> BY <3>1, <3>2, Zenon DEF PopFront
    <3>4. PICK w : w = PopFrontN(v, 1) OBVIOUS
    <3>5. Kept(v, w, SubSeq(s, 1 + 1, v.len)) BY <3>4, PoppedFrontN DEF s
    <3>6. SubSeq(s, 1 + 1, v.len) = t
      <4> DEFINE u == SubSeq(s, 1 + 1, v.len)
      <4>1. 1 + 1 \in Nat /\ 1 <= 1 + 1 /\ 1 + 1 <= v.len + 1 /\ v.len <= Len(s) BY <1>1, <1>2, <3>2
      <4>2. /\ u \in Memory /\ Len(u) = v.len + 1 - (1 + 1)
            /\ \A j \in 1 .. v.len + 1 - (1 + 1) : u[j] = s[(1 + 1) + j - 1]
        BY <1>1, <1>2, <4>1, Sliced
      <4> HIDE DEF u
      <4>3. Len(u) = Len(t) /\ Len(u) = v.len - 1 BY <1>1, <1>2, <2>2, <4>2
      <4>4. ASSUME NEW j \in 1 .. Len(u) PROVE u[j] = t[j]
        <5>1. /\ j \in 1 .. v.len + 1 - (1 + 1) /\ (1 + 1) + j - 1 = j + 1
              /\ j \in n + 1 .. Len(s) - 1
          BY <1>1, <1>2, <2>3, <4>3
        <5> QED BY <2>2, <4>2, <5>1
      <4>5. u = t BY <2>2, <4>2, <4>3, <4>4, SeqEqual DEF Memory
      <4> QED BY <4>5 DEF u
    <3>7. r[1] = "ok" /\ r[2] = w BY ONLY <3>3, <3>4
    <3> QED BY <3>5, <3>6, <3>7 DEF t
  <2>4. CASE n # 0 /\ n = v.len - 1
    <3>1. r = PopBack(v) BY <1>4, <2>4, Zenon DEF Erase
    <3>2. v.len > 0 BY <1>1, <1>4
    <3>3. r[1] = "ok" /\ Kept(v, r[2], SubSeq(s, 1, v.len - 1)) BY <3>1, <3>2, PoppedBack DEF s
    <3>4. SubSeq(s, 1, v.len - 1) = t
      <4> DEFINE u == SubSeq(s, 1, v.len - 1)
      <4>1. v.len - 1 \in Nat /\ 1 \in Nat /\ 1 <= 1 /\ 1 <= v.len - 1 + 1 /\ v.len - 1 <= Len(s)
        BY <1>1, <1>2, <3>2
      <4>2. /\ u \in Memory /\ Len(u) = v.len - 1 + 1 - 1
            /\ \A j \in 1 .. v.len - 1 + 1 - 1 : u[j] = s[1 + j - 1]
        BY <1>2, <4>1, Sliced
      <4> HIDE DEF u
      <4>3. Len(u) = Len(t) /\ Len(u) = v.len - 1 BY <1>1, <1>2, <2>2, <4>2
      <4>4. ASSUME NEW j \in 1 .. Len(u) PROVE u[j] = t[j]
        <5>1. j \in 1 .. v.len - 1 + 1 - 1 /\ 1 + j - 1 = j /\ j \in 1 .. (n + 1) - 1 BY <1>1, <2>4, <4>3
        <5> QED BY <2>2, <4>2, <5>1
      <4>5. u = t BY <2>2, <4>2, <4>3, <4>4, SeqEqual DEF Memory
      <4> QED BY <4>5 DEF u
    <3> QED BY <3>3, <3>4 DEF t
  <2>5. CASE n # 0 /\ n # v.len - 1
    <3>1. PICK d : d = Overwrite(v.data, n + 1, SubSeq(v.data, n + 2, v.len)) OBVIOUS
    <3>2. PICK w : w = [v EXCEPT !.data = d] OBVIOUS
    <3>3. r = PopBack(w) BY <1>4, <2>5, <3>1, <3>2, Zenon DEF Erase
    <3>4. /\ n + 1 \in Nat /\ n + 2 \in Nat /\ 1 <= n + 1 /\ n + 1 <= n + 2 /\ n + 2 <= v.len + 1
          /\ n + 2 <= v.len
      BY <1>1, <1>4, <2>5
    <3>5. /\ d \in Memory /\ Len(d) = Cap(v)
          /\ \A j \in 1 .. (n + 1) - 1 : d[j] = v.data[j]
          /\ \A j \in n + 1 .. n + 1 + (v.len - (n + 2)) : d[j] = v.data[j + ((n + 2) - (n + 1))]
      BY <3>1, <3>4, MovedDown
    <3>6. ListOk(w) /\ w.mode = v.mode /\ w.len = v.len /\ w.data = d
      BY ONLY ListOk(v), <1>1, <3>2, <3>5 DEF ListOk, List, Cap
    <3>7. SameKind(v, w) BY <3>5, <3>6, Zenon DEF SameKind, Cap
    <3>8. w.len > 0 BY <3>4, <3>6, <1>1
    <3>9. r[1] = "ok" /\ Kept(w, r[2], SubSeq(Holds(w), 1, w.len - 1)) BY <3>3, <3>6, <3>8, PoppedBack
    <3>10. /\ Holds(w) \in Memory /\ Len(Holds(w)) = v.len /\ \A j \in 1 .. v.len : Holds(w)[j] = d[j]
      BY <3>6, HoldsItems
    <3>11. SubSeq(Holds(w), 1, w.len - 1) = t
      <4> DEFINE u == SubSeq(Holds(w), 1, w.len - 1)
      <4>1. w.len - 1 \in Nat /\ 1 \in Nat /\ 1 <= 1 /\ 1 <= w.len - 1 + 1 /\ w.len - 1 <= Len(Holds(w))
        BY <1>1, <3>6, <3>8, <3>10
      <4>2. /\ u \in Memory /\ Len(u) = w.len - 1 + 1 - 1
            /\ \A j \in 1 .. w.len - 1 + 1 - 1 : u[j] = Holds(w)[1 + j - 1]
        BY <3>10, <4>1, Sliced
      <4> HIDE DEF u
      <4>3. Len(u) = Len(t) /\ Len(u) = v.len - 1 BY <1>1, <1>2, <2>2, <3>6, <4>2
      <4>4. ASSUME NEW j \in 1 .. Len(u) PROVE u[j] = t[j]
        <5>1. j \in 1 .. w.len - 1 + 1 - 1 /\ 1 + j - 1 = j /\ j \in 1 .. v.len BY <1>1, <3>6, <4>3
        <5>2. u[j] = d[j] BY <3>10, <4>2, <5>1
        <5>3. CASE j <= n
          <6>1. j \in 1 .. (n + 1) - 1 BY <5>3
          <6> QED BY <1>2, <2>2, <3>5, <5>1, <5>2, <6>1
        <5>4. CASE ~(j <= n)
          <6>1. /\ j \in n + 1 .. n + 1 + (v.len - (n + 2)) /\ j + ((n + 2) - (n + 1)) = j + 1
                /\ j \in n + 1 .. Len(s) - 1 /\ j + 1 \in 1 .. v.len
            BY <1>1, <1>2, <4>3, <5>4
          <6> QED BY <1>2, <2>2, <3>5, <5>2, <6>1
        <5> QED BY <5>3, <5>4
      <4>5. u = t BY <2>2, <4>2, <4>3, <4>4, SeqEqual DEF Memory
      <4> QED BY <4>5 DEF u
    <3>12. Kept(v, r[2], t)
      <4>1. ListOk(r[2]) /\ SameKind(w, r[2]) /\ Holds(r[2]) = t BY <3>9, <3>11, Zenon DEF Kept
      <4>2. Cap(w) = Cap(v) BY <3>5, <3>6 DEF Cap
      <4>3. SameKind(v, r[2]) BY <3>6, <4>1, <4>2, Zenon DEF SameKind
      <4> QED BY <4>1, <4>3, Zenon DEF Kept
    <3> QED BY <3>9, <3>12 DEF t
  <2> QED BY <2>3, <2>4, <2>5 DEF t
<1>5. CASE ~(n >= v.len)
  <2>1. r[1] = "ok" /\ Kept(v, r[2], RemoveAt(s, n + 1)) BY <1>4, <1>5
  <2> QED BY <1>5, <2>1 DEF s
<1> QED BY <1>3, <1>5

\* aws_array_list_shrink_to_fit
LEMMA Shrunk ==
  ASSUME NEW v, ListOk(v), NEW r, r = ShrinkToFit(v)
  PROVE  Kept(v, r[2], Holds(v))
<1>1. v.len \in Nat BY ListFields
<1>2. Holds(v) \in Memory /\ Len(Holds(v)) = v.len /\ \A i \in 1 .. v.len : Holds(v)[i] = v.data[i]
  BY HoldsItems
<1>3. CASE v.mode = "static"
  <2>1. r = <<"static mode cant shrink", v>> BY <1>3, Zenon DEF ShrinkToFit
  <2>2. r[2] = v BY ONLY <2>1
  <2> QED BY <2>2, Zenon DEF Kept, SameKind
<1>4. CASE v.mode # "static"
  <2>1. PICK d : d = Holds(v) OBVIOUS
  <2>2. PICK w : w = [v EXCEPT !.data = d] OBVIOUS
  <2>3. r = <<"ok", w>> BY <1>4, <2>1, <2>2, Zenon DEF ShrinkToFit
  <2>4. r[2] = w BY ONLY <2>3
  <2>5. d \in Memory /\ Len(d) = v.len BY <1>2, <2>1
  <2>6. ListOk(w) /\ w.mode = v.mode /\ w.len = v.len /\ w.data = d
    BY ONLY ListOk(v), <1>1, <2>2, <2>5 DEF ListOk, List, Cap
  <2>7. SameKind(v, w) BY <1>4, <2>6, Zenon DEF SameKind
  <2>8. Kept(v, w, d) BY <2>5, <2>6, <2>7, Became
  <2> QED BY <2>1, <2>4, <2>8
<1> QED BY <1>3, <1>4

\* aws_array_list_copy
LEMMA Copied ==
  ASSUME NEW f, ListOk(f), NEW v, ListOk(v), NEW r, r = CopyTo(f, v)
  PROVE  Outcome(v, r) /\ (r[1] \notin Refusals => Holds(r[2]) = Holds(f))
<1>1. /\ v.len \in Nat /\ Cap(v) \in Nat /\ v.data \in Memory /\ Cap(v) = Len(v.data)
      /\ f.len \in Nat
  BY ListFields
<1>2. PICK s : s = Holds(f) OBVIOUS
<1>3. s \in Memory /\ Len(s) = f.len BY <1>2, HoldsItems
<1>4. "ok" \notin Refusals BY DEF Refusals
<1>5. CASE Cap(v) >= f.len
  <2>1. PICK d : d = Overwrite(v.data, 1, s) OBVIOUS
  <2>2. PICK n : n = f.len OBVIOUS
  <2>3. PICK w : w = [v EXCEPT !.data = d, !.len = n] OBVIOUS
  <2>4. r = <<"ok", Trim(w)>> BY <1>2, <1>5, <2>1, <2>2, <2>3, Zenon DEF CopyTo
  <2>5. r[1] = "ok" /\ r[2] = Trim(w) BY ONLY <2>4
  <2>6. /\ d \in Memory /\ Len(d) = Len(v.data)
        /\ \A j \in 1 .. Len(v.data) : d[j] = IF j >= 1 /\ j < 1 + Len(s) THEN s[j - 1 + 1] ELSE v.data[j]
    <3> DEFINE o == Overwrite(v.data, 1, s)
    <3>1. 1 \in Nat /\ 1 # 0 OBVIOUS
    <3>2. /\ o \in Memory /\ Len(o) = Len(v.data)
          /\ \A j \in 1 .. Len(v.data) : o[j] = IF j >= 1 /\ j < 1 + Len(s) THEN s[j - 1 + 1] ELSE v.data[j]
      BY ONLY <1>1, <1>3, <3>1, OverwriteMemory, Zenon
    <3> HIDE DEF o
    <3>3. d = o BY <2>1 DEF o
    <3> QED BY ONLY <3>2, <3>3
  <2>7. n \in Nat /\ n <= Len(d) BY <1>1, <1>5, <2>2, <2>6
  <2>8. ListOk(w) /\ w.mode = v.mode /\ w.len = n /\ w.data = d
    BY ONLY ListOk(v), <2>3, <2>6, <2>7 DEF ListOk, List, Cap
  <2>9. SameKind(v, w) BY <2>6, <2>8, Zenon DEF SameKind, Cap
  <2>10. ASSUME NEW i \in 1 .. w.len PROVE w.data[i] = s[i]
    <3>1. /\ i \in 1 .. Len(v.data) /\ i >= 1 /\ i < 1 + Len(s) /\ i - 1 + 1 = i
      BY <1>1, <1>3, <1>5, <2>2, <2>8
    <3> QED BY <2>6, <2>8, <3>1
  <2>11. Len(s) = w.len BY <1>3, <2>2, <2>8
  <2>12. Kept(v, w, s) BY <1>3, <2>8, <2>9, <2>10, <2>11, Became
  <2>13. Kept(v, r[2], s) BY <2>5, <2>12, KeptTrimmed
  <2> QED BY <1>2, <1>4, <2>5, <2>13, Zenon DEF Outcome, Kept
<1>6. CASE ~(Cap(v) >= f.len) /\ v.mode = "static"
  <2>1. r = <<"dest copy too small", v>> BY <1>6, Zenon DEF CopyTo
  <2>2. r[1] = "dest copy too small" /\ r[2] = v BY ONLY <2>1
  <2>3. r[1] \in Refusals BY ONLY <2>2 DEF Refusals
  <2> QED BY <2>2, <2>3, Zenon DEF Outcome, SameKind
<1>7. CASE ~(Cap(v) >= f.len) /\ v.mode # "static"
  <2>1. PICK n : n = f.len OBVIOUS
  <2>2. PICK w : w = [v EXCEPT !.data = s, !.len = n] OBVIOUS
  <2>3. r = <<"ok", w>> BY <1>2, <1>7, <2>1, <2>2, Zenon DEF CopyTo
  <2>4. r[1] = "ok" /\ r[2] = w BY ONLY <2>3
  <2>5. n \in Nat /\ n <= Len(s) BY <1>1, <1>3, <2>1
  <2>6. ListOk(w) /\ w.mode = v.mode /\ w.len = n /\ w.data = s
    BY ONLY ListOk(v), <1>3, <2>2, <2>5 DEF ListOk, List, Cap
  <2>7. SameKind(v, w) BY <1>7, <2>6, Zenon DEF SameKind
  <2>8. \A i \in 1 .. w.len : w.data[i] = s[i] BY <2>6
  <2>9. Len(s) = w.len BY <1>3, <2>1, <2>6
  <2>10. Kept(v, w, s) BY <1>3, <2>6, <2>7, <2>8, <2>9, Became
  <2> QED BY <1>2, <1>4, <2>4, <2>10, Zenon DEF Outcome, Kept
<1> QED BY <1>5, <1>6, <1>7

\* aws_array_list_swap exchanges two items of the list.
LEMMA Swapped ==
  ASSUME NEW v, ListOk(v), NEW a \in Nat, NEW b \in Nat, a < v.len, b < v.len,
         NEW w, w = SwapItems(v, a, b)
  PROVE  ListOk(w) /\ SameKind(v, w)
<1>1. /\ v.len \in Nat /\ Cap(v) \in Nat /\ v.len <= Cap(v) /\ v.data \in Memory /\ Cap(v) = Len(v.data)
  BY ListFields
<1>2. a + 1 \in 1 .. Len(v.data) /\ b + 1 \in 1 .. Len(v.data) BY <1>1
<1>3. PICK c : c = [v.data EXCEPT ![a + 1] = v.data[b + 1]] OBVIOUS
<1>4. PICK d : d = [c EXCEPT ![b + 1] = v.data[a + 1]] OBVIOUS
<1>5. v.data[a + 1] \in Item /\ v.data[b + 1] \in Item BY <1>1, <1>2 DEF Memory
<1>6. c \in Memory /\ Len(c) = Len(v.data) BY <1>1, <1>2, <1>3, <1>5, ExceptSeq DEF Memory
<1>7. d \in Memory /\ Len(d) = Len(v.data) BY <1>2, <1>4, <1>5, <1>6, ExceptSeq DEF Memory
<1>8. w = [v EXCEPT !.data = d]
  <2>1. PICK x, y, z : v = [mode |-> x, len |-> y, data |-> z] BY ListFields
  <2>2. z = v.data BY ONLY <2>1
  <2>3. w = [v EXCEPT !.data[a + 1] = v.data[b + 1], !.data[b + 1] = v.data[a + 1]] BY Zenon DEF SwapItems
  <2>4. [v EXCEPT !.data[a + 1] = v.data[b + 1]] = [mode |-> x, len |-> y, data |-> c] BY ONLY <1>3, <2>1, <2>2
  <2>5. w = [[v EXCEPT !.data[a + 1] = v.data[b + 1]] EXCEPT !.data[b + 1] = v.data[a + 1]] BY <2>3
  <2>6. w = [mode |-> x, len |-> y, data |-> d]
    <3>1. w = [[mode |-> x, len |-> y, data |-> c] EXCEPT !.data[b + 1] = v.data[a + 1]] BY <2>4, <2>5, Zenon
    <3> QED BY ONLY <1>4, <3>1
  <2> QED BY ONLY <2>1, <2>6
<1>9. ListOk(w) /\ w.mode = v.mode /\ w.data = d BY ONLY ListOk(v), <1>1, <1>7, <1>8 DEF ListOk, List, Cap
<1> QED BY <1>7, <1>9, Zenon DEF SameKind, Cap

\* What no call may do to a list, whichever list it is made on.
Sound(v, w, out) ==
  /\ ListOk(w) /\ (v.mode = "static" /\ w.mode = "static" => Cap(w) = Cap(v))
  /\ (out \in Refusals => Holds(w) = Holds(v))
AlSound == AlInv' /\ \A l \in AlLists : Sound(alList[l], alList'[l], alOut')

LEMMA Reads ==
  ASSUME AlInv, UNCHANGED alList
  PROVE  AlSound
<1>1. AlInv' BY DEF AlInv
<1>2. \A l \in AlLists : ListOk(alList[l]) /\ alList'[l] = alList[l] BY DEF AlInv
<1> QED BY <1>1, <1>2 DEF AlSound, Sound

LEMMA OneList ==
  ASSUME AlInv, NEW l \in AlLists, NEW w, alList' = [alList EXCEPT ![l] = w], Sound(alList[l], w, alOut')
  PROVE  AlSound
<1>1. ListOk(w) /\ w \in List BY DEF Sound, ListOk
<1>2. alList \in [AlLists -> List] /\ \A k \in AlLists : ListOk(alList[k]) BY DEF AlInv
<1>3. alList' \in [AlLists -> List] BY <1>1, <1>2
<1>4. alList'[l] = w /\ \A k \in AlLists : k # l => alList'[k] = alList[k] BY <1>2
<1>5. ASSUME NEW k \in AlLists PROVE ListOk(alList'[k]) /\ Sound(alList[k], alList'[k], alOut')
  <2>1. CASE k = l BY <1>1, <1>4, <2>1
  <2>2. CASE k # l
    <3>1. alList'[k] = alList[k] /\ ListOk(alList[k]) BY <1>2, <1>4, <2>2
    <3> QED BY <3>1 DEF Sound
  <2> QED BY <2>1, <2>2
<1> QED BY <1>3, <1>5 DEF AlInv, AlSound

\* A call that succeeds or leaves the list alone.
LEMMA Applied ==
  ASSUME AlInv, NEW l \in AlLists, NEW r, Apply(l, r), Outcome(alList[l], r)
  PROVE  AlSound
<1>1. alList' = [alList EXCEPT ![l] = r[2]] /\ alOut' = r[1] BY DEF Apply
<1>2. Sound(alList[l], r[2], alOut') BY <1>1, Zenon DEF Outcome, SameKind, Sound
<1> QED BY <1>1, <1>2, OneList

\* A call that always succeeds.
LEMMA Updated ==
  ASSUME AlInv, NEW l \in AlLists, NEW w, Update(l, w), ListOk(w),
         alList[l].mode = "static" /\ w.mode = "static" => Cap(w) = Cap(alList[l])
  PROVE  AlSound
<1>1. alList' = [alList EXCEPT ![l] = w] /\ alOut' = "ok" BY DEF Update
<1>2. "ok" \notin Refusals BY DEF Refusals
<1>3. Sound(alList[l], w, alOut') BY <1>1, <1>2, Zenon DEF Sound
<1> QED BY <1>1, <1>3, OneList

\* A call that keeps the kind.
LEMMA UpdatedKind ==
  ASSUME AlInv, NEW l \in AlLists, NEW w, Update(l, w), ListOk(w), SameKind(alList[l], w)
  PROVE  AlSound
<1>1. alList[l].mode = "static" /\ w.mode = "static" => Cap(w) = Cap(alList[l]) BY Zenon DEF SameKind
<1> QED BY <1>1, Updated

LEMMA AlStarts ==
  ASSUME AlInit
  PROVE  AlInv
<1>1. Zeroed \in List /\ ListOk(Zeroed) BY DEF Zeroed, List, ListOk, Cap, Memory
<1> QED BY <1>1 DEF AlInit, AlInv

LEMMA AlStep ==
  ASSUME ArrayAssumption, AlInv, AlNext
  PROVE  AlSound
<1>1. PICK l \in AlLists :
        \/ \E n \in {0, 1, AllocLimit + 1} : InitDynamic(l, n)
        \/ l \in StaticLists /\ InitStatic(l)
        \/ l \in StaticLists /\ \E s \in [1..StaticSize -> AlItems] : InitStaticFromInitialized(l, s)
        \/ Live(l) /\ AlCleanUp(l)
        \/ \E x \in AlItems : AlPushBack(l, x) \/ AlPushFront(l, x) \/ \E i \in Indices : AlSetAt(l, x, i)
        \/ AlPopFront(l) \/ AlPopBack(l) \/ AlClear(l) \/ AlFront(l) \/ AlBack(l) \/ AlShrink(l)
        \/ \E n \in Indices : AlPopFrontN(l, n) \/ AlErase(l, n) \/ AlGetAt(l, n)
        \/ \E a, b \in Indices : a <= b /\ AlSwap(l, a, b)
        \/ \E k \in AlLists \ {l} : AlCopy(l, k) \/ AlSwapContents(l, k)
  BY Zenon DEF AlNext
<1> DEFINE v == alList[l]
<1>2. ListOk(v) /\ v.len \in Nat BY ListFields DEF AlInv
<1>3. \A i \in Indices : i \in Nat BY DEF Indices, ArrayAssumption
<1>4. StaticSize \in Nat /\ AllocLimit \in Nat BY DEF ArrayAssumption
<1>5. ASSUME NEW n \in {0, 1, AllocLimit + 1}, InitDynamic(l, n) PROVE AlSound
  <2>1. CASE n > AllocLimit
    <3>1. UNCHANGED alList BY <1>5, <2>1, Zenon DEF InitDynamic, Read
    <3> QED BY <3>1, Reads
  <2>2. CASE ~(n > AllocLimit)
    <3>1. n \in Nat BY <1>4
    <3>2. Blank(n) \in Memory /\ Len(Blank(n)) = n BY <3>1, BlankMemory
    <3> DEFINE w == [mode |-> "dynamic", len |-> 0, data |-> Blank(n)]
    <3>3. Update(l, w) BY <1>5, <2>2, Zenon DEF InitDynamic
    <3>4. ListOk(w) BY <3>1, <3>2 DEF ListOk, List, Cap
    <3>5. w.mode # "static" BY ONLY TRUE
    <3> HIDE DEF w
    <3> QED BY <3>3, <3>4, <3>5, Updated
  <2> QED BY <2>1, <2>2
<1>6. ASSUME InitStatic(l) PROVE AlSound
  <2>1. Blank(StaticSize) \in Memory /\ Len(Blank(StaticSize)) = StaticSize BY <1>4, BlankMemory
  <2> DEFINE w == [mode |-> "static", len |-> 0, data |-> Blank(StaticSize)]
  <2>2. Update(l, w) /\ v.mode = "zeroed" BY <1>6, Zenon DEF InitStatic, Live
  <2>3. ListOk(w) BY <1>4, <2>1 DEF ListOk, List, Cap
  <2>4. v.mode # "static" BY <2>2
  <2> HIDE DEF w
  <2> QED BY <2>2, <2>3, <2>4, Updated
<1>7. ASSUME NEW s \in [1..StaticSize -> AlItems], InitStaticFromInitialized(l, s) PROVE AlSound
  <2>1. s \in Memory /\ Len(s) \in Nat BY <1>4 DEF Memory, Item
  <2> DEFINE w == [mode |-> "static", len |-> Len(s), data |-> s]
  <2>2. Update(l, w) /\ v.mode = "zeroed" BY <1>7, Zenon DEF InitStaticFromInitialized, Live
  <2>3. ListOk(w) BY <2>1 DEF ListOk, List, Cap
  <2>4. v.mode # "static" BY <2>2
  <2> HIDE DEF w
  <2> QED BY <2>2, <2>3, <2>4, Updated
<1>8. ASSUME AlCleanUp(l) PROVE AlSound
  <2>1. ListOk(Zeroed) BY DEF Zeroed, List, ListOk, Cap, Memory
  <2>2. Zeroed.mode # "static" BY DEF Zeroed
  <2> QED BY <1>8, <2>1, <2>2, Updated DEF AlCleanUp
<1>9. ASSUME NEW x \in AlItems, AlPushBack(l, x) PROVE AlSound
  <2>1. InUse(v) /\ Apply(l, PushBack(v, x)) BY <1>9, Zenon DEF AlPushBack, Live, InUse
  <2>2. Outcome(v, PushBack(v, x)) BY <1>2, <2>1, PushedBack
  <2> QED BY <2>1, <2>2, Applied
<1>10. ASSUME NEW x \in AlItems, AlPushFront(l, x) PROVE AlSound
  <2>1. InUse(v) /\ Apply(l, PushFront(v, x)) BY <1>10, Zenon DEF AlPushFront, Live, InUse
  <2>2. Outcome(v, PushFront(v, x)) BY <1>2, <2>1, PushedFront
  <2> QED BY <2>1, <2>2, Applied
<1>11. ASSUME NEW x \in AlItems, NEW i \in Indices, AlSetAt(l, x, i) PROVE AlSound
  <2>1. InUse(v) /\ Apply(l, SetAt(v, x, i)) BY <1>11, Zenon DEF AlSetAt, Live, InUse
  <2>2. PICK r : r = SetAt(v, x, i) OBVIOUS
  <2>3. Tried(v, r) /\ (r[1] = "ok" => PutAt(v, x, i, r[2])) BY <1>2, <1>3, <2>1, <2>2, ItemSet
  <2>4. "ok" \notin Refusals BY DEF Refusals
  <2>5. Outcome(v, r)
    <3>1. CASE r[1] = "ok" BY <2>3, <2>4, <3>1, Zenon DEF Outcome, PutAt
    <3>2. CASE r[1] # "ok" BY <1>2, <2>3, <3>2, Zenon DEF Outcome, Tried, SameKind
    <3> QED BY <3>1, <3>2
  <2> QED BY <2>1, <2>2, <2>5, Applied
<1>12. ASSUME AlPopFront(l) PROVE AlSound
  <2>1. Apply(l, PopFront(v)) BY <1>12, Zenon DEF AlPopFront
  <2>2. CASE v.len > 0
    <3>1. PICK w : w = PopFrontN(v, 1) OBVIOUS
    <3>2. PopFront(v) = <<"ok", w>> BY <2>2, <3>1, Zenon DEF PopFront
    <3>3. Kept(v, w, SubSeq(Holds(v), 1 + 1, v.len)) BY <1>2, <3>1, PoppedFrontN
    <3>4. Update(l, w) BY <2>1, <3>2 DEF Apply, Update
    <3> QED BY <3>3, <3>4, UpdatedKind DEF Kept
  <2>3. CASE ~(v.len > 0)
    <3>1. PopFront(v) = <<"empty", v>> BY <2>3, Zenon DEF PopFront
    <3>2. alList' = [alList EXCEPT ![l] = v] BY <2>1, <3>1 DEF Apply
    <3>3. UNCHANGED alList BY <3>2 DEF AlInv
    <3> QED BY <3>3, Reads
  <2> QED BY <2>2, <2>3
<1>13. ASSUME AlPopBack(l) PROVE AlSound
  <2>1. Apply(l, PopBack(v)) BY <1>13, Zenon DEF AlPopBack
  <2>2. CASE v.len > 0
    <3>1. PICK r : r = PopBack(v) OBVIOUS
    <3>2. r[1] = "ok" /\ Kept(v, r[2], SubSeq(Holds(v), 1, v.len - 1)) BY <1>2, <2>2, <3>1, PoppedBack
    <3>3. Update(l, r[2]) BY <2>1, <3>1, <3>2 DEF Apply, Update
    <3> QED BY <3>2, <3>3, UpdatedKind DEF Kept
  <2>3. CASE ~(v.len > 0)
    <3>1. PopBack(v) = <<"empty", v>> BY <2>3, Zenon DEF PopBack
    <3>2. alList' = [alList EXCEPT ![l] = v] BY <2>1, <3>1 DEF Apply
    <3>3. UNCHANGED alList BY <3>2 DEF AlInv
    <3> QED BY <3>3, Reads
  <2> QED BY <2>2, <2>3
<1>14. ASSUME AlClear(l) PROVE AlSound
  <2>1. Update(l, ClearList(v)) BY <1>14 DEF AlClear
  <2>2. Kept(v, ClearList(v), <<>>) BY <1>2, Cleared
  <2> QED BY <2>1, <2>2, UpdatedKind DEF Kept
<1>15. ASSUME AlFront(l) \/ AlBack(l) PROVE AlSound
  BY <1>15, Reads DEF AlFront, AlBack, Read
<1>16. ASSUME NEW n \in Indices, AlGetAt(l, n) PROVE AlSound
  BY <1>16, Reads DEF AlGetAt, Read
<1>17. ASSUME AlShrink(l) PROVE AlSound
  <2>1. PICK r : r = ShrinkToFit(v) OBVIOUS
  <2>2. alList' = [alList EXCEPT ![l] = r[2]] BY <1>17, <2>1, Zenon DEF AlShrink, Apply
  <2>3. ListOk(r[2]) /\ SameKind(v, r[2]) /\ Holds(r[2]) = Holds(v) BY <1>2, <2>1, Shrunk DEF Kept
  <2>4. Sound(v, r[2], alOut') BY <2>3, Zenon DEF Sound, SameKind
  <2> QED BY <2>2, <2>4, OneList
<1>18. ASSUME NEW n \in Indices, AlPopFrontN(l, n) PROVE AlSound
  <2>1. PICK w : w = PopFrontN(v, n) OBVIOUS
  <2>2. Update(l, w) BY <1>18, <2>1 DEF AlPopFrontN
  <2>3. Kept(v, w, SubSeq(Holds(v), n + 1, v.len)) BY <1>2, <1>3, <2>1, PoppedFrontN
  <2> QED BY <2>2, <2>3, UpdatedKind DEF Kept
<1>19. ASSUME NEW n \in Indices, AlErase(l, n) PROVE AlSound
  <2>1. PICK r : r = Erase(v, n) OBVIOUS
  <2>2. Apply(l, r) BY <1>19, <2>1 DEF AlErase
  <2>3. IF n >= v.len THEN r = <<"invalid index", v>>
                      ELSE r[1] = "ok" /\ Kept(v, r[2], RemoveAt(Holds(v), n + 1))
    BY <1>2, <1>3, <2>1, Erased
  <2>4. CASE n >= v.len
    <3>1. r = <<"invalid index", v>> BY <2>3, <2>4
    <3>2. alList' = [alList EXCEPT ![l] = v] BY <2>2, <3>1 DEF Apply
    <3>3. UNCHANGED alList BY <3>2 DEF AlInv
    <3> QED BY <3>3, Reads
  <2>5. CASE ~(n >= v.len)
    <3>1. r[1] = "ok" /\ Kept(v, r[2], RemoveAt(Holds(v), n + 1)) BY <2>3, <2>5
    <3>2. Update(l, r[2]) BY <2>2, <3>1 DEF Apply, Update
    <3> QED BY <3>1, <3>2, UpdatedKind DEF Kept
  <2> QED BY <2>4, <2>5
<1>20. ASSUME NEW a \in Indices, NEW b \in Indices, AlSwap(l, a, b) PROVE AlSound
  <2>1. PICK w : w = SwapItems(v, a, b) OBVIOUS
  <2>2. a < v.len /\ b < v.len /\ Update(l, w) BY <1>20, <2>1 DEF AlSwap
  <2>3. ListOk(w) /\ SameKind(v, w) BY <1>2, <1>3, <2>1, <2>2, Swapped
  <2> QED BY <2>2, <2>3, UpdatedKind
<1>21. ASSUME NEW k \in AlLists \ {l}, AlCopy(l, k) PROVE AlSound
  <2>1. PICK r : r = CopyTo(v, alList[k]) OBVIOUS
  <2>2. Apply(k, r) BY <1>21, <2>1 DEF AlCopy
  <2>3. ListOk(alList[k]) BY DEF AlInv
  <2>4. Outcome(alList[k], r) BY <1>2, <2>1, <2>3, Copied
  <2> QED BY <2>2, <2>4, Applied
<1>22. ASSUME NEW k \in AlLists \ {l}, AlSwapContents(l, k) PROVE AlSound
  <2>1. /\ alList[l].mode = "dynamic" /\ alList[k].mode = "dynamic" /\ l # k
        /\ alList' = [alList EXCEPT ![l] = alList[k], ![k] = alList[l]] /\ alOut' = "ok"
    BY <1>22 DEF AlSwapContents
  <2>2. alList \in [AlLists -> List] /\ \A j \in AlLists : ListOk(alList[j]) BY DEF AlInv
  <2>3. /\ alList' \in [AlLists -> List] /\ alList'[l] = alList[k] /\ alList'[k] = alList[l]
        /\ \A j \in AlLists : j # l /\ j # k => alList'[j] = alList[j]
    BY <2>1, <2>2
  <2>4. "ok" \notin Refusals BY DEF Refusals
  <2>5. ASSUME NEW j \in AlLists PROVE ListOk(alList'[j]) /\ Sound(alList[j], alList'[j], alOut')
    <3>1. CASE j = l \/ j = k
      <4>1. ListOk(alList'[j]) BY <2>2, <2>3, <3>1
      <4>2. alList[j].mode # "static" BY <2>1, <3>1
      <4> QED BY <2>1, <2>4, <4>1, <4>2, Zenon DEF Sound
    <3>2. CASE j # l /\ j # k
      <4>1. alList'[j] = alList[j] /\ ListOk(alList[j]) BY <2>2, <2>3, <3>2
      <4> QED BY <4>1 DEF Sound
    <3> QED BY <3>1, <3>2
  <2> QED BY <2>3, <2>5 DEF AlInv, AlSound
<1> QED BY <1>1, <1>5, <1>6, <1>7, <1>8, <1>9, <1>10, <1>11, <1>12, <1>13, <1>14, <1>15, <1>16, <1>17, <1>18,
           <1>19, <1>20, <1>21, <1>22

\* The list a call was made on, and its result.
LEMMA After ==
  ASSUME AlInv, NEW l \in AlLists
  PROVE  /\ \A r : Apply(l, r) => alList'[l] = r[2] /\ alOut' = r[1]
         /\ \A w : Update(l, w) => alList'[l] = w /\ alOut' = "ok"
BY DEF AlInv, Apply, Update

LEMMA ItemSetHolds ==
  ASSUME AlInv, NEW v, ListOk(v), NEW w, NEW x, NEW n \in Nat, PutAt(v, x, n, w)
  PROVE  IF n < Len(Holds(v)) THEN Holds(w) = [Holds(v) EXCEPT ![n + 1] = x]
         ELSE Len(Holds(w)) = n + 1 /\ Holds(w)[n + 1] = x /\ IsPrefix(Holds(v), Holds(w))
<1>1. v.len \in Nat BY ListFields
<1>2. /\ ListOk(w) /\ w.len = (IF n >= v.len THEN n + 1 ELSE v.len) /\ w.data[n + 1] = x
      /\ \A i \in 1 .. v.len : i # n + 1 => w.data[i] = v.data[i]
  BY DEF PutAt
<1>3. PICK s : s = Holds(v) OBVIOUS
<1>4. PICK t : t = Holds(w) OBVIOUS
<1>5. s \in Memory /\ Len(s) = v.len /\ \A i \in 1 .. v.len : s[i] = v.data[i] BY <1>3, HoldsItems
<1>6. t \in Memory /\ Len(t) = w.len /\ \A i \in 1 .. w.len : t[i] = w.data[i] BY <1>2, <1>4, HoldsItems
<1>7. CASE n < v.len
  <2>1. w.len = v.len /\ n + 1 \in 1 .. v.len BY <1>1, <1>2, <1>7
  <2>2. x \in Item BY <1>2, <1>6, <2>1 DEF Memory
  <2>3. PICK u : u = [s EXCEPT ![n + 1] = x] OBVIOUS
  <2>4. /\ u \in Memory /\ Len(u) = Len(s) /\ u[n + 1] = x
        /\ \A i \in 1 .. Len(s) : i # n + 1 => u[i] = s[i]
    BY <1>5, <2>1, <2>2, <2>3, ExceptSeq DEF Memory
  <2>5. ASSUME NEW i \in 1 .. Len(t) PROVE t[i] = u[i]
    <3>1. i \in 1 .. v.len /\ t[i] = w.data[i] BY <1>6, <2>1
    <3>2. CASE i = n + 1 BY <1>2, <2>4, <3>1, <3>2
    <3>3. CASE i # n + 1 BY <1>2, <1>5, <2>4, <3>1, <3>3
    <3> QED BY <3>2, <3>3
  <2>6. Len(t) = Len(u) BY <1>5, <1>6, <2>1, <2>4
  <2>7. t = u BY <1>6, <2>4, <2>5, <2>6, SeqEqual DEF Memory
  <2> QED BY <1>3, <1>4, <1>5, <1>7, <2>3, <2>7
<1>8. CASE ~(n < v.len)
  <2>1. w.len = n + 1 /\ n + 1 \in 1 .. w.len /\ v.len <= w.len BY <1>1, <1>2, <1>8
  <2>2. Len(t) = n + 1 /\ t[n + 1] = x BY <1>2, <1>6, <2>1
  <2>3. Len(s) \in Nat /\ 1 \in Nat /\ 1 <= 1 /\ 1 <= Len(s) + 1 /\ Len(s) <= Len(s) /\ Len(s) <= Len(t)
    BY <1>1, <1>5, <1>6, <2>1
  <2>4. PICK a : a = SubSeq(s, 1, Len(s)) OBVIOUS
  <2>5. PICK b : b = SubSeq(t, 1, Len(s)) OBVIOUS
  <2>6. a \in Memory /\ Len(a) = Len(s) + 1 - 1 /\ \A i \in 1 .. Len(s) + 1 - 1 : a[i] = s[1 + i - 1]
    BY <1>5, <2>3, <2>4, Sliced
  <2>7. b \in Memory /\ Len(b) = Len(s) + 1 - 1 /\ \A i \in 1 .. Len(s) + 1 - 1 : b[i] = t[1 + i - 1]
    BY <1>6, <2>3, <2>5, Sliced
  <2>8. ASSUME NEW i \in 1 .. Len(a) PROVE a[i] = b[i]
    <3>1. /\ i \in 1 .. Len(s) + 1 - 1 /\ 1 + i - 1 = i /\ i \in 1 .. v.len /\ i \in 1 .. w.len /\ i # n + 1
      BY <1>1, <1>5, <1>8, <2>1, <2>6
    <3> QED BY <1>2, <1>5, <1>6, <2>6, <2>7, <3>1
  <2>9. Len(a) = Len(b) BY <2>6, <2>7
  <2>10. a = b BY <2>6, <2>7, <2>8, <2>9, SeqEqual DEF Memory
  <2>11. IsPrefix(s, t) BY <2>3, <2>4, <2>5, <2>10 DEF IsPrefix
  <2> QED BY <1>3, <1>4, <1>5, <1>8, <2>2, <2>11
<1> QED BY <1>7, <1>8

LEMMA ArrayStepHolds ==
  ASSUME ArrayAssumption, AlInv, AlNext
  PROVE  ArrayStep
<1> USE DEF ArrayStep
<1> TAKE l \in AlLists
<1> DEFINE v == alList[l]
           w == alList'[l]
           s == Holds(v)
           s2 == Holds(w)
<1>1. ListOk(v) /\ v.len \in Nat BY ListFields DEF AlInv
<1>2. \A i \in Indices : i \in Nat BY DEF Indices, ArrayAssumption
<1>3. Sound(v, w, alOut') BY AlStep DEF AlSound
<1>4. s \in Memory /\ Len(s) = v.len /\ \A i \in 1 .. v.len : s[i] = v.data[i] BY <1>1, HoldsItems
<1>5. "ok" \notin Refusals /\ "empty" \in Refusals /\ "invalid index" \in Refusals BY DEF Refusals
<1>6. s = <<>> <=> v.len = 0 BY <1>4 DEF Memory
<1>7. /\ w.len <= Cap(w) /\ (v.mode = "static" /\ w.mode = "static" => Cap(w) = Cap(v))
      /\ (alOut' \in Refusals => s2 = s)
  BY <1>3, Zenon DEF Sound, ListOk
<1>8. ASSUME NEW x \in AlItems, AlPushBack(l, x), alOut' \notin Refusals PROVE s2 = Append(s, x)
  <2>1. PICK r : r = PushBack(v, x) OBVIOUS
  <2>2. InUse(v) /\ Apply(l, r) BY <1>8, <2>1, Zenon DEF AlPushBack, Live, InUse
  <2>3. w = r[2] /\ alOut' = r[1] BY <2>2, After
  <2>4. r[1] \notin Refusals => Holds(r[2]) = Append(Holds(v), x) BY <1>1, <2>1, <2>2, PushedBack
  <2> QED BY <1>8, <2>3, <2>4
<1>9. ASSUME NEW x \in AlItems, AlPushFront(l, x), alOut' \notin Refusals PROVE s2 = <<x>> \o s
  <2>1. PICK r : r = PushFront(v, x) OBVIOUS
  <2>2. InUse(v) /\ Apply(l, r) BY <1>9, <2>1, Zenon DEF AlPushFront, Live, InUse
  <2>3. w = r[2] /\ alOut' = r[1] BY <2>2, After
  <2>4. r[1] \notin Refusals => Holds(r[2]) = <<x>> \o Holds(v) BY <1>1, <2>1, <2>2, PushedFront
  <2> QED BY <1>9, <2>3, <2>4
<1>10. ASSUME NEW x \in AlItems, NEW i \in Indices, AlSetAt(l, x, i), alOut' \notin Refusals
       PROVE  IF i < Len(s) THEN s2 = [s EXCEPT ![i + 1] = x]
              ELSE Len(s2) = i + 1 /\ s2[i + 1] = x /\ IsPrefix(s, s2)
  <2>1. PICK r : r = SetAt(v, x, i) OBVIOUS
  <2>2. InUse(v) /\ Apply(l, r) BY <1>10, <2>1, Zenon DEF AlSetAt, Live, InUse
  <2>3. w = r[2] /\ alOut' = r[1] BY <2>2, After
  <2>4. Tried(v, r) /\ (r[1] = "ok" => PutAt(v, x, i, r[2])) BY <1>1, <1>2, <2>1, <2>2, ItemSet
  <2>5. PutAt(v, x, i, w) BY <1>10, <2>3, <2>4, Zenon DEF Tried
  <2>6. i \in Nat BY <1>2
  <2> QED BY <1>1, <2>5, <2>6, ItemSetHolds, Zenon
<1>11. ASSUME AlPopFront(l)
       PROVE  (alOut' \in Refusals <=> s = <<>>) /\ (alOut' \notin Refusals => s2 = Tail(s))
  <2>1. Apply(l, PopFront(v)) BY <1>11, Zenon DEF AlPopFront
  <2>2. CASE v.len > 0
    <3>1. PICK u : u = PopFrontN(v, 1) OBVIOUS
    <3>2. PopFront(v) = <<"ok", u>> BY <2>2, <3>1, Zenon DEF PopFront
    <3>3. Holds(u) = SubSeq(s, 1 + 1, v.len) BY <1>1, <3>1, PoppedFrontN DEF Kept
    <3>4. w = u /\ alOut' = "ok" BY <2>1, <3>2, After
    <3>5. s # <<>> BY <1>6, <2>2
    <3>6. Tail(s) = SubSeq(s, 2, Len(s)) BY <1>4, <3>5, TailIsSubSeq DEF Memory
    <3>7. s2 = Tail(s) BY <1>4, <3>3, <3>4, <3>6
    <3>8. (alOut' \in Refusals <=> s = <<>>) BY ONLY <1>5, <3>4, <3>5
    <3> QED BY <3>7, <3>8
  <2>3. CASE ~(v.len > 0)
    <3>1. PopFront(v) = <<"empty", v>> BY <2>3, Zenon DEF PopFront
    <3>2. alOut' = "empty" BY <2>1, <3>1, After
    <3>3. s = <<>> BY <1>1, <1>6, <2>3
    <3> QED BY <1>5, <3>2, <3>3, Zenon
  <2> QED BY <2>2, <2>3
<1>12. ASSUME AlPopBack(l)
       PROVE  (alOut' \in Refusals <=> s = <<>>) /\ (alOut' \notin Refusals => s2 = Front(s))
  <2>1. PICK r : r = PopBack(v) OBVIOUS
  <2>2. Apply(l, r) BY <1>12, <2>1, Zenon DEF AlPopBack
  <2>3. w = r[2] /\ alOut' = r[1] BY <2>2, After
  <2>4. CASE v.len > 0
    <3>1. r[1] = "ok" /\ Kept(v, r[2], SubSeq(s, 1, v.len - 1)) BY <1>1, <2>1, <2>4, PoppedBack
    <3>2. s2 = Front(s) BY <1>4, <2>3, <3>1 DEF Kept, Front
    <3>3. s # <<>> BY <1>6, <2>4
    <3>4. (alOut' \in Refusals <=> s = <<>>) BY ONLY <1>5, <2>3, <3>1, <3>3
    <3> QED BY <3>2, <3>4
  <2>5. CASE ~(v.len > 0)
    <3>1. r = <<"empty", v>> BY <2>1, <2>5, Zenon DEF PopBack
    <3>2. alOut' = "empty" BY <2>3, <3>1
    <3>3. s = <<>> BY <1>1, <1>6, <2>5
    <3> QED BY <1>5, <3>2, <3>3, Zenon
  <2> QED BY <2>4, <2>5
<1>13. ASSUME NEW i \in Indices, AlErase(l, i)
       PROVE  (alOut' \in Refusals <=> i >= Len(s)) /\ (alOut' \notin Refusals => s2 = RemoveAt(s, i + 1))
  <2>1. PICK r : r = Erase(v, i) OBVIOUS
  <2>2. Apply(l, r) BY <1>13, <2>1, Zenon DEF AlErase
  <2>3. w = r[2] /\ alOut' = r[1] BY <2>2, After
  <2>4. IF i >= v.len THEN r = <<"invalid index", v>>
                      ELSE r[1] = "ok" /\ Kept(v, r[2], RemoveAt(s, i + 1))
    BY <1>1, <1>2, <2>1, Erased
  <2>5. CASE i >= v.len
    <3>1. r = <<"invalid index", v>> BY <2>4, <2>5
    <3>2. alOut' = "invalid index" BY <2>3, <3>1
    <3>3. i >= Len(s) BY <1>4, <2>5
    <3> QED BY <1>5, <3>2, <3>3, Zenon
  <2>6. CASE ~(i >= v.len)
    <3>1. r[1] = "ok" /\ Kept(v, r[2], RemoveAt(s, i + 1)) BY <2>4, <2>6
    <3>2. alOut' = "ok" /\ s2 = RemoveAt(s, i + 1) BY <2>3, <3>1 DEF Kept
    <3>3. ~(i >= Len(s)) BY <1>4, <2>6
    <3>4. (alOut' \in Refusals <=> i >= Len(s)) BY ONLY <1>5, <3>2, <3>3
    <3> QED BY <3>2, <3>4
  <2> QED BY <2>5, <2>6
<1>14. ASSUME NEW i \in Indices, AlPopFrontN(l, i) PROVE s2 = SubSeq(s, i + 1, Len(s))
  <2>1. PICK u : u = PopFrontN(v, i) OBVIOUS
  <2>2. w = u BY <1>14, <2>1, After DEF AlPopFrontN
  <2>3. Holds(u) = SubSeq(s, i + 1, v.len) BY <1>1, <1>2, <2>1, PoppedFrontN DEF Kept
  <2> QED BY <1>4, <2>2, <2>3
<1>15. ASSUME NEW i \in Indices, AlGetAt(l, i)
       PROVE  alOut' = IF i < Len(s) THEN s[i + 1] ELSE "invalid index"
  <2>1. alOut' = ItemAt(v, i, "invalid index") BY <1>15, Zenon DEF AlGetAt, Read
  <2>2. i >= 0 BY <1>2
  <2>3. CASE i < v.len
    <3>1. alOut' = v.data[i + 1] BY <2>1, <2>2, <2>3, Zenon DEF ItemAt
    <3>2. i + 1 \in 1 .. v.len /\ i < Len(s) BY <1>1, <1>2, <1>4, <2>3
    <3> QED BY <1>4, <3>1, <3>2
  <2>4. CASE ~(i < v.len)
    <3>1. alOut' = "invalid index" BY <2>1, <2>4, Zenon DEF ItemAt
    <3> QED BY <1>4, <2>4, <3>1
  <2> QED BY <2>3, <2>4
<1>16. ASSUME AlShrink(l) PROVE s2 = s
  <2>1. PICK r : r = ShrinkToFit(v) OBVIOUS
  <2>2. w = r[2] BY <1>16, <2>1, After DEF AlShrink
  <2> QED BY <1>1, <2>1, <2>2, Shrunk DEF Kept
<1>17. ASSUME NEW k \in AlLists \ {l}, AlCopy(k, l), alOut' \notin Refusals PROVE s2 = Holds(alList[k])
  <2>1. PICK r : r = CopyTo(alList[k], v) OBVIOUS
  <2>2. Apply(l, r) BY <1>17, <2>1, Zenon DEF AlCopy
  <2>3. w = r[2] /\ alOut' = r[1] BY <2>2, After
  <2>4. ListOk(alList[k]) BY DEF AlInv
  <2>5. r[1] \notin Refusals => Holds(r[2]) = Holds(alList[k]) BY <1>1, <2>1, <2>4, Copied
  <2> QED BY <1>17, <2>3, <2>5
<1> QED BY <1>7, <1>8, <1>9, <1>10, <1>11, <1>12, <1>13, <1>14, <1>15, <1>16, <1>17, Zenon
   DEF Refusals

\* array_list.c, for every capacity, limit of memory and history of calls: each call
\* changes the sequence of items as its name says or is refused and leaves it alone,
\* whatever was moved in memory, and an array of the caller is never exchanged.
THEOREM ItemsInOrder == AlSpec => ArrayListIsSequence
<1>1. AlInv /\ [AlNext]_alVars => AlInv'
  <2>1. ASSUME AlInv, AlNext PROVE AlInv' BY <2>1, AlStep, ArrayAssumption DEF AlSound
  <2>2. AlInv /\ UNCHANGED alVars => AlInv' BY DEF AlInv, alVars
  <2> QED BY <2>1, <2>2
<1>2. AlInv /\ [AlNext]_alVars => [ArrayStep]_alVars BY ArrayStepHolds, ArrayAssumption
<1> QED BY <1>1, <1>2, AlStarts, PTL DEF AlSpec, ArrayListIsSequence
================================================================================
