-------------------------------- MODULE Cursors --------------------------------
(* Views into text (byte_buf.c) and aws_string (string.c): advancing, trimming,*)
(* splitting (OTA splits the topics it receives) and comparing. A text is a    *)
(* sequence of character codes; a cursor is an offset into it and a length,    *)
(* or NULL. A string is NULL or its bytes; behind them lies a terminator.      *)
EXTENDS Integers, SequencesExt, FiniteSetsExt

CONSTANTS CuTexts,    \* texts that are viewed
          CuSizeMax,  \* SIZE_MAX
          Sep         \* the character that is split on
VARIABLES cu,         \* the call under way, or the last one, and its result
          cuText      \* the memory that is viewed
cuVars == <<cu, cuText>>

NullPtr == -1
Cursor(ptr, len) == [ptr |-> ptr, len |-> len]
NullCursor == Cursor(NullPtr, 0)
View(text, c) == IF c.ptr = NullPtr THEN <<>> ELSE SubSeq(text, c.ptr + 1, c.ptr + c.len)
NulChar == 0
Lower(ch) == IF ch \in 65..90 THEN ch + 32 ELSE ch          \* s_tolower_table
aws_isspace(ch) == ch \in {32, 9, 10, 11, 12, 13}
Half == CuSizeMax \div 2

\* aws_byte_cursor_advance: [rv, rest]; refused lengths leave the cursor alone
aws_byte_cursor_advance(c, len) ==
  IF c.len > Half \/ len > Half \/ len > c.len THEN [rv |-> NullCursor, rest |-> c]
  ELSE [rv |-> Cursor(c.ptr, len),
        rest |-> Cursor(IF c.ptr = NullPtr THEN NullPtr ELSE c.ptr + len, c.len - len)]
\* ..._nospec: the same through a mask, which is all ones whenever the test passed
MaskOn(index, bound) == index < bound /\ bound <= Half
aws_byte_cursor_advance_nospec(c, len) ==
  LET m == MaskOn(len, c.len + 1)
      ptr == IF m THEN c.ptr ELSE NullPtr
      n == IF m THEN len ELSE 0
  IN  IF len <= c.len /\ len <= Half /\ c.len <= Half
      THEN [rv |-> Cursor(ptr, n),
            rest |-> Cursor(IF ptr = NullPtr THEN NullPtr ELSE ptr + n, (IF m THEN c.len ELSE 0) - n)]
      ELSE [rv |-> NullCursor, rest |-> c]

\* aws_byte_cursor_right_trim_pred
RightTrim(text, c, Pred(_)) ==
  LET keep == {n \in 0..c.len : \A i \in (n + 1)..c.len : Pred(text[c.ptr + i])}
  IN  Cursor(c.ptr, Min(keep))

\* aws_byte_cursor_next_split: [more, sub]
Location(text, c) == {i \in 1..c.len : text[c.ptr + i] = Sep}      \* memchr
\* Mutant: cuts at the last separator.
CutAtLast(text, c) == IF Location(text, c) = {} THEN c ELSE Cursor(c.ptr, Max(Location(text, c)) - 1)
CutAt(text, c) == IF Location(text, c) = {} THEN c ELSE Cursor(c.ptr, Min(Location(text, c)) - 1)
aws_byte_cursor_next_split(text, input, sub) ==
  LET first == sub.ptr = NullPtr
      next == sub.ptr + sub.len + 1
  IN  IF input.ptr = NullPtr THEN [more |-> first, sub |-> IF first THEN Cursor(0, 0) ELSE NullCursor]
      ELSE IF first THEN [more |-> TRUE, sub |-> CutAt(text, input)]
      ELSE IF next > input.ptr + input.len THEN [more |-> FALSE, sub |-> NullCursor]
      ELSE [more |-> TRUE, sub |-> CutAt(text, Cursor(next, input.len - (next - input.ptr)))]

\* aws_array_eq, _ignore_case, and the two that walk a C string only once;
\* a C string is memory with a terminator somewhere.
aws_array_eq(a, b) == Len(a) = Len(b) /\ \A i \in 1..Len(a) : a[i] = b[i]
aws_array_eq_ignore_case(a, b) == Len(a) = Len(b) /\ \A i \in 1..Len(a) : Lower(a[i]) = Lower(b[i])
EqCStr(a, mem, Fold(_)) ==
  /\ \A i \in 1..Len(a) :
       (\A j \in 1..(i - 1) : mem[j] # NulChar /\ Fold(a[j]) = Fold(mem[j]))
         => mem[i] # NulChar /\ Fold(a[i]) = Fold(mem[i])
  /\ mem[Len(a) + 1] = NulChar
aws_array_eq_c_str(a, mem) == EqCStr(a, mem, LAMBDA ch : ch)
aws_array_eq_c_str_ignore_case(a, mem) == EqCStr(a, mem, Lower)

\* strings
NullString == [null |-> TRUE]
String(bytes) == [null |-> FALSE, bytes |-> bytes]
\* aws_string_eq and its variants: NULL equals NULL only
BothNull(a, b) == a.null /\ b.null
StringEq(a, b, Eq(_, _)) == BothNull(a, b) \/ (~a.null /\ ~b.null /\ Eq(a.bytes, b.bytes))
\* memcmp over the shorter length, then the lengths
aws_string_compare(a, b) ==
  IF BothNull(a, b) THEN 0 ELSE IF a.null THEN -1 ELSE IF b.null THEN 1
  ELSE LET n == Min({Len(a.bytes), Len(b.bytes)})
           diff == {i \in 1..n : a.bytes[i] # b.bytes[i]}
       IN  IF diff # {} THEN (IF a.bytes[Min(diff)] < b.bytes[Min(diff)] THEN -1 ELSE 1)
           ELSE IF Len(a.bytes) = Len(b.bytes) THEN 0 ELSE IF Len(a.bytes) > Len(b.bytes) THEN 1 ELSE -1
\* strlen; aws_secure_strlen looks at max bytes at most
StrLen(mem) == Min({i \in 1..Len(mem) : mem[i] = NulChar}) - 1
aws_secure_strlen(mem, max) ==
  LET at == {i \in 1..Min({max, Len(mem)}) : mem[i] = NulChar} IN IF at = {} THEN -1 ELSE Min(at) - 1

-----------------------------------------------------------------------------
CuIdle == [fn |-> "none"]
CuInit == cu = CuIdle /\ cuText = <<>>
Called(text, call) == cu = CuIdle /\ cuText' = text /\ cu' = call

\* aws_byte_cursor_split_on_char_n: one step per round of its loop
SplitStart(text, isNull, n) ==
  Called(text, [fn |-> "split", input |-> IF isNull THEN NullCursor ELSE Cursor(0, Len(text)),
                max |-> n, sub |-> NullCursor, out |-> <<>>, rv |-> "running"])
MaxSplits == IF cu.max > 0 THEN cu.max ELSE CuSizeMax
SplitRound ==
  /\ cu.fn = "split" /\ cu.rv = "running" /\ UNCHANGED cuText
  /\ LET r == aws_byte_cursor_next_split(cuText, cu.input, cu.sub)
         rest == Cursor(r.sub.ptr, cu.input.len - (r.sub.ptr - cu.input.ptr))
         piece == IF Len(cu.out) = MaxSplits THEN rest ELSE r.sub
     IN  \/ /\ Len(cu.out) > MaxSplits \/ ~r.more
            /\ cu' = [cu EXCEPT !.rv = "ok"]
         \/ /\ Len(cu.out) <= MaxSplits /\ r.more
            /\ \/ cu' = [cu EXCEPT !.out = Append(@, View(cuText, piece)), !.sub = piece]
               \/ cu' = [cu EXCEPT !.rv = "no memory"]          \* push_back fails

Advance(text, len, nospec) ==
  Called(text, [fn |-> "advance", len |-> len,
                out |-> IF nospec THEN aws_byte_cursor_advance_nospec(Cursor(0, Len(text)), len)
                        ELSE aws_byte_cursor_advance(Cursor(0, Len(text)), len)])
Trim(text) ==
  Called(text, [fn |-> "trim", out |-> View(text, RightTrim(text, Cursor(0, Len(text)), aws_isspace))])
Strings == {String(t) : t \in CuTexts} \cup {NullString}
Compare(a, b) ==
  Called(<<>>, [fn |-> "compare", a |-> a, b |-> b, sign |-> aws_string_compare(a, b),
                back |-> aws_string_compare(b, a),
                eq |-> StringEq(a, b, aws_array_eq), eqi |-> StringEq(a, b, aws_array_eq_ignore_case)])
CompareCStr(a, mem) ==
  Called(mem, [fn |-> "c_str", a |-> a, eq |-> aws_array_eq_c_str(a, mem),
               eqi |-> aws_array_eq_c_str_ignore_case(a, mem),
               len |-> [max \in 0..Len(mem) |-> aws_secure_strlen(mem, max)]])
CuNext ==
  \/ \E t \in CuTexts, n \in 0..3 : SplitStart(t, FALSE, n)
  \/ \E n \in 0..3 : SplitStart(<<>>, TRUE, n)
  \/ SplitRound
  \/ \E t \in CuTexts, n \in 0..CuSizeMax, s \in BOOLEAN : Advance(t, n, s)
  \/ \E t \in CuTexts : Trim(t)
  \/ \E a, b \in Strings : Compare(a, b)
  \/ \E a, t \in CuTexts : CompareCStr(a, Append(t, NulChar))
CuSpec == CuInit /\ [][CuNext]_cuVars

Joined(pieces) == FoldLeft(LAMBDA acc, p : IF acc = <<-1>> THEN p ELSE acc \o <<Sep>> \o p, <<-1>>, pieces)
Before(a, b) ==     \* lexicographic order
  \/ IsStrictPrefix(a, b)
  \/ \E i \in 1..Min({Len(a), Len(b)}) : a[i] < b[i] /\ \A j \in 1..(i - 1) : a[j] = b[j]

\* byte_buf.c:609, :523, string.c:115: a split that ends well has cut the text into
\* pieces that give it back when they are joined, without separators in them save in
\* the last one when the number of splits was limited; no text is one empty piece. Both
\* ways to advance give the bytes asked for and keep the rest, or refuse and keep
\* everything. Comparisons are the lexicographic order, agree with equality,
\* and a C string ends at its terminator whatever its memory holds behind it.
CursorsExact ==
  CASE cu.fn = "split" /\ cu.rv = "ok" ->
         /\ Joined(cu.out) = cuText
         /\ \A i \in DOMAIN cu.out : i < Len(cu.out) \/ cu.max = 0 => ~Contains(cu.out[i], Sep)
         /\ cu.max > 0 => Len(cu.out) <= cu.max + 1
         /\ cu.max > 0 /\ Len(cu.out) <= cu.max => ~Contains(Last(cu.out), Sep)
    [] cu.fn = "advance" ->
         LET rv == View(cuText, cu.out.rv)
             rest == View(cuText, cu.out.rest)
         IN  /\ rv \o rest = cuText /\ Len(rv) \in {0, cu.len}
             /\ cu.len <= Len(cuText) /\ Len(cuText) < Half => Len(rv) = cu.len
    [] cu.fn = "trim" ->
         /\ IsPrefix(cu.out, cuText) /\ (cu.out # <<>> => ~aws_isspace(Last(cu.out)))
         /\ \A i \in (Len(cu.out) + 1)..Len(cuText) : aws_isspace(cuText[i])
    [] cu.fn = "compare" ->
         /\ cu.sign = -cu.back /\ (cu.eq <=> cu.sign = 0) /\ (cu.eq => cu.eqi)
         /\ ~cu.a.null /\ ~cu.b.null => (cu.sign = -1 <=> Before(cu.a.bytes, cu.b.bytes))
    [] cu.fn = "c_str" ->
         LET s == SubSeq(cuText, 1, StrLen(cuText))
         IN  /\ ~Contains(cu.a, NulChar) => (cu.eq <=> cu.a = s)
             /\ cu.eq => cu.eqi /\ Len(cu.a) = Len(s)
             /\ \A max \in DOMAIN cu.len : cu.len[max] = IF max > Len(s) THEN Len(s) ELSE -1
    [] OTHER -> TRUE
=============================================================================
