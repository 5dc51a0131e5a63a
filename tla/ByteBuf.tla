-------------------------------- MODULE ByteBuf --------------------------------
(* aws-c-common's byte buffer (byte_buf.c), into which the SDK prints JSON and  *)
(* topics and reads its key-value file: bounded writes, growing appends, and    *)
(* the loop that reads a file of unknown length.                                *)
EXTENDS Naturals, SequencesExt, FiniteSetsExt

CONSTANTS SizeMax,     \* SIZE_MAX, the largest size_t
          Sources,     \* byte strings written and appended
          BufLimit,    \* aws_mem_acquire of more bytes than this fails
          GrowthMin, GrowthMax,  \* MIN_ and MAX_BUFFER_GROWTH_READING_FILES
          Files        \* contents a file may have

\* A byte string fits in memory, and nobody can acquire all of it.
ASSUME BufAssumption ==
  /\ SizeMax \in Nat /\ BufLimit \in Nat /\ BufLimit < SizeMax
  /\ GrowthMin \in Nat /\ GrowthMax \in Nat
  /\ \A s \in Sources : s \in Seq(0..255) /\ Len(s) <= SizeMax
  /\ \A f \in Files : f \in Seq(0..255)

VARIABLES bb,     \* the buffer: allocator given or not, capacity, bytes[1..len]
          bbOut,  \* what the last call returned
          bbFile  \* the file being read: bytes still to come, or none
bbVars == <<bb, bbOut, bbFile>>

NoFile == [open |-> FALSE]
BbZero == [alloc |-> FALSE, cap |-> 0, bytes |-> <<>>]
Length == Len(bb.bytes)
AddChecked(a, b) == a + b <= SizeMax                      \* aws_add_size_checked
AddSaturating(a, b) == Min({a + b, SizeMax})
Acquires(n) == n <= BufLimit

\* aws_byte_buf_write, with the room it needs
Fits(b, s) == /\ Len(b.bytes) <= SizeMax \div 2 /\ Len(s) <= SizeMax \div 2
              /\ Len(b.bytes) + Len(s) <= b.cap
Written(b, s) == IF s = <<>> THEN <<TRUE, b>>
                 ELSE IF Fits(b, s) THEN <<TRUE, [b EXCEPT !.bytes = @ \o s]>>
                 ELSE <<FALSE, b>>

\* Mutant: gives up when twice the capacity cannot be had.
AppendedNoFallback(b, s) ==
  LET room == b.cap - Len(b.bytes)
      wanted == Max({b.cap + (Len(s) - room), AddSaturating(b.cap, b.cap)})
  IN  IF b.alloc /\ Len(s) <= room THEN <<TRUE, [b EXCEPT !.bytes = @ \o s]>>
      ELSE IF b.alloc /\ Acquires(wanted) THEN <<TRUE, [b EXCEPT !.cap = wanted, !.bytes = @ \o s]>>
      ELSE <<FALSE, b>>
\* s_aws_byte_buf_append_dynamic: twice the capacity, or what is needed when
\* that is more or when twice the capacity cannot be had.
Appended(b, s) ==
  LET room == b.cap - Len(b.bytes)
      required == b.cap + (Len(s) - room)
      growth == AddSaturating(b.cap, b.cap)
      wanted == IF required < growth THEN growth ELSE required
      got == IF Acquires(wanted) THEN wanted ELSE required
  IN  IF b.alloc /\ Len(s) <= room THEN <<TRUE, [b EXCEPT !.bytes = @ \o s]>>
      ELSE IF b.alloc /\ AddChecked(b.cap, Len(s) - room) /\ Acquires(got)
        THEN <<TRUE, [b EXCEPT !.cap = got, !.bytes = @ \o s]>>
      ELSE <<FALSE, b>>

\* aws_byte_buf_init
Fresh(n) == IF Acquires(n) THEN <<TRUE, [alloc |-> TRUE, cap |-> n, bytes |-> <<>>]>>
            ELSE <<FALSE, BbZero>>
\* aws_byte_buf_reserve; a buffer without memory is initialised anew
Reserved(b, n) ==
  IF b.alloc /\ n <= b.cap THEN <<TRUE, b>>
  ELSE IF b.alloc /\ b.cap = 0 THEN Fresh(n)
  ELSE IF b.alloc /\ Acquires(n) THEN <<TRUE, [b EXCEPT !.cap = n]>>
  ELSE <<FALSE, b>>
\* aws_byte_buf_reserve_relative
ReservedRelative(b, n) ==
  IF b.alloc /\ AddChecked(Len(b.bytes), n) THEN Reserved(b, Len(b.bytes) + n) ELSE <<FALSE, b>>

Result(r) == bb' = r[2] /\ bbOut' = r[1] /\ UNCHANGED bbFile
Unused == bb = BbZero /\ ~bbFile.open
Usable == ~bbFile.open

BbInit == bb = BbZero /\ bbOut = TRUE /\ bbFile = NoFile

BufInit(n) == Unused /\ Result(Fresh(n))
\* aws_byte_buf_from_empty_array, _from_array, _from_c_str: memory of the caller
FromEmptyArray(n) == Unused /\ Result(<<TRUE, [alloc |-> FALSE, cap |-> n, bytes |-> <<>>]>>)
FromArray(s) == Unused /\ Result(<<TRUE, [alloc |-> FALSE, cap |-> Len(s), bytes |-> s]>>)
BufCleanUp == Usable /\ Result(<<TRUE, BbZero>>)          \* also clean_up_secure
SecureZero == Usable /\ Result(<<TRUE, [bb EXCEPT !.bytes = <<>>]>>)
Write(s) == Usable /\ Result(Written(bb, s))              \* also write_from_whole_cursor
AppendDynamic(s) == Usable /\ Result(Appended(bb, s))     \* also the secure form
AppendItself == Usable /\ Result(Appended(bb, bb.bytes))
Reserve(n) == Usable /\ Result(Reserved(bb, n))
ReserveRelative(n) == Usable /\ Result(ReservedRelative(bb, n))

\* s_byte_buf_init_from_file_impl.  A failed first allocation shows only when
\* the loop wants to grow the buffer.
OpenFile(file, hint) ==
  /\ Unused /\ bb' = Fresh(hint)[2] /\ bbFile' = [open |-> TRUE, rest |-> file, all |-> file]
  /\ UNCHANGED bbOut
\* the length, asked before the file is read; it may change in between
OpenWithFileSize(file, size) == OpenFile(file, size + 1)
FileFailed == bb' = BbZero /\ bbOut' = FALSE /\ bbFile' = NoFile

Grown == IF Length = bb.cap
           THEN ReservedRelative(bb, Min({GrowthMax, Max({GrowthMin, bb.cap})}))
           ELSE <<TRUE, bb>>
\* One round: fread fills the space, or less with the file's end reached.
ReadChunk ==
  /\ bbFile.open /\ bbFile.rest # <<>> /\ Grown[1]
  /\ LET n == Min({Grown[2].cap - Length, Len(bbFile.rest)})
     IN  /\ bb' = [Grown[2] EXCEPT !.bytes = @ \o SubSeq(bbFile.rest, 1, n)]
         /\ bbFile' = [bbFile EXCEPT !.rest = SubSeq(@, n + 1, Len(@))]
  /\ UNCHANGED bbOut
\* The round that meets the end of the file, and the terminator behind the bytes
ReadEnd ==
  /\ bbFile.open /\ bbFile.rest = <<>> /\ Grown[1]
  /\ LET r == IF Length = Grown[2].cap THEN ReservedRelative(Grown[2], 1) ELSE Grown
     IN  IF r[1] THEN bb' = r[2] /\ bbOut' = TRUE /\ bbFile' = NoFile ELSE FileFailed
ReadFails == bbFile.open /\ FileFailed     \* ferror, or no memory to grow

BbNext ==
  \/ \E n \in 0..(BufLimit + 1) : BufInit(n) \/ FromEmptyArray(n) \/ Reserve(n) \/ ReserveRelative(n)
  \/ \E s \in Sources : FromArray(s) \/ Write(s) \/ AppendDynamic(s)
  \/ AppendItself \/ BufCleanUp \/ SecureZero
  \/ \E f \in Files, n \in 0..BufLimit : OpenFile(f, n)
  \/ \E f, g \in Files : OpenWithFileSize(f, Len(g))
  \/ ReadChunk \/ ReadEnd \/ ReadFails
BbSpec == BbInit /\ [][BbNext]_bbVars

\* The bytes always lie within the capacity, also while a file is read that is
\* longer or shorter than its length said, and when capacities near SIZE_MAX
\* saturate or overflow (aws_byte_buf_is_valid).
BufferInBounds ==
  Length <= bb.cap /\ bb.cap <= SizeMax /\ (bb.alloc => bb.cap <= BufLimit)

\* What each call means for the bytes held.
BytesStep ==
  /\ \A s \in Sources :
       /\ Write(s) \/ AppendDynamic(s) =>
            IF bbOut' THEN bb'.bytes = bb.bytes \o s ELSE bb' = bb
       /\ AppendDynamic(s) /\ bb.alloc /\ Length + Len(s) <= BufLimit => bbOut'
  /\ AppendItself /\ bbOut' => bb'.bytes = bb.bytes \o bb.bytes
  /\ \A n \in 0..BufLimit : /\ Reserve(n) \/ ReserveRelative(n) => bb'.bytes = bb.bytes
                            /\ ReserveRelative(n) /\ bbOut' => bb'.cap - Length >= n
  /\ bbFile.open /\ ~bbFile'.open =>
       IF bbOut' THEN bb'.bytes = bbFile.all /\ Len(bb'.bytes) < bb'.cap ELSE bb' = BbZero

\* A call that fails leaves the bytes and the capacity as they were, except for
\* a file, which is given up whole; one that succeeds adds exactly its bytes
\* behind the old ones.  A buffer read from a file holds the whole file and has
\* room for the terminator.
\* (Nothing is said of a step that leaves all as it was.)
BytesAppendedOrKept == [][bbVars' # bbVars => BytesStep]_bbVars /\ []BufferInBounds
================================================================================
