------------------------------- MODULE AwsNumbers -------------------------------
(* The arithmetic under aws-c-common (src/src/aws/common/math.c, clock.c,      *)
(* byte_order.c and the index mask of byte_buf.c), at a word width of Width    *)
(* bits so that every overflow is met.                                         *)
EXTENDS Integers, Sequences, Bitwise

CONSTANTS Width,         \* bits of size_t, uint64_t and uint32_t
          Frequencies    \* the ticks per second of the clocks
VARIABLE numCall        \* the last call and its result
numVars == <<numCall>>

WordMax == 2^Width - 1
Word == 0..WordMax
Wrap(n) == n % 2^Width
Raise == [err |-> TRUE]                        \* aws_raise_error(OVERFLOW_DETECTED)
Value(v) == [err |-> FALSE, v |-> v]

\* aws_mul_u64/u32/size, aws_add_..., aws_sub_...: the overflow tests, then the operation
MulOverflows(a, b) == a > 0 /\ b > 0 /\ a > WordMax \div b
\* Mutant: refuses the largest sum that fits.
AddOverflowsEarly(a, b) == b > 0 /\ a >= WordMax - b
AddOverflows(a, b) == b > 0 /\ a > WordMax - b
aws_mul_saturating(a, b) == IF MulOverflows(a, b) THEN WordMax ELSE Wrap(a * b)
aws_mul_checked(a, b) == IF MulOverflows(a, b) THEN Raise ELSE Value(Wrap(a * b))
aws_add_saturating(a, b) == IF AddOverflows(a, b) THEN WordMax ELSE Wrap(a + b)
aws_add_checked(a, b) == IF AddOverflows(a, b) THEN Raise ELSE Value(Wrap(a + b))
aws_sub_saturating(a, b) == IF a <= b THEN 0 ELSE a - b
aws_sub_checked(a, b) == IF a < b THEN Raise ELSE Value(a - b)

\* aws_add_size_checked_varargs with three arguments: stops at the first overflow.
aws_add_size_checked_varargs(a, b, c) ==
  LET ab == aws_add_checked(a, b) IN IF ab.err THEN Raise ELSE aws_add_checked(ab.v, c)

\* aws_min_u8 .. aws_min_double, aws_max_u8 .. aws_max_double
aws_min(a, b) == IF a < b THEN a ELSE b
aws_max(a, b) == IF a > b THEN a ELSE b

aws_is_power_of_two(x) == x # 0 /\ (x & (x - 1)) = 0

\* smears the highest bit of n - 1 to the right; one shift for each power of two below Width
Smear(n, k) == n | (n \div 2^k)
aws_round_up_to_power_of_two(n) ==
  IF n = 0 THEN Value(1)
  ELSE IF n > 2^(Width - 1) THEN Raise
  ELSE Value(Wrap(Smear(Smear(Smear(n - 1, 1), 2), 4) + 1))

\* aws_nospec_mask: all ones, or 0 when index is not inside bound; no branches
aws_nospec_mask(index, bound) ==
  LET negative == index | bound
      tooBig == Wrap(bound - index - 1)
      combined == (WordMax - (negative | tooBig)) \div (WordMax - WordMax \div 2)
  IN  Wrap(combined * WordMax)

\* aws_timestamp_convert_u64 and its remainder
aws_timestamp_convert(ticks, old, new) ==
  LET seconds == ticks \div old
      rest == ticks - seconds * old
  IN  [ticks |-> aws_add_saturating(aws_mul_saturating(seconds, new),
                                    aws_mul_saturating(rest, new) \div old),
       rem |-> IF new < old /\ old % new = 0 THEN ticks % (old \div new) ELSE 0]

\* Byte order. A value is its bytes, least significant first; the machine stores it
\* in this order or reversed.
Swapped(v) == [i \in DOMAIN v |-> v[Len(v) + 1 - i]]
InMemory(endian, v) == IF endian = "big" THEN Swapped(v) ELSE v
\* htonl, htons, aws_htonf32, aws_htonf64; the ntoh functions are the same
HostToNet(endian, v) == IF endian = "big" THEN v ELSE Swapped(v)
\* aws_hton64 where there is no bswap: the halves are swapped and exchanged.
aws_hton64(endian, v) ==
  IF endian = "big" THEN v
  ELSE LET low == SubSeq(v, 1, 4)
           high == SubSeq(v, 5, 8)
       IN  HostToNet(endian, high) \o HostToNet(endian, low)
Distinct(n) == [i \in 1..n |-> i]

-----------------------------------------------------------------------------
NumIdle == [fn |-> "none"]
NumInit == numCall = NumIdle
Answer(fn, arg, out) == numCall' = [fn |-> fn, arg |-> arg, out |-> out]
Binary(a, b) ==
  \/ Answer("mul", <<a, b>>, aws_mul_checked(a, b))
  \/ Answer("mul_sat", <<a, b>>, aws_mul_saturating(a, b))
  \/ Answer("add", <<a, b>>, aws_add_checked(a, b))
  \/ Answer("add_sat", <<a, b>>, aws_add_saturating(a, b))
  \/ Answer("sub", <<a, b>>, aws_sub_checked(a, b))
  \/ Answer("sub_sat", <<a, b>>, aws_sub_saturating(a, b))
  \/ Answer("min_max", <<a, b>>, <<aws_min(a, b), aws_max(a, b)>>)
  \/ Answer("mask", <<a, b>>, aws_nospec_mask(a, b))
Unary(n) ==
  \/ Answer("pow2", <<n>>, aws_is_power_of_two(n))
  \/ Answer("round", <<n>>, aws_round_up_to_power_of_two(n))
AddThree(a, b, c) == Answer("add3", <<a, b, c>>, aws_add_size_checked_varargs(a, b, c))
Convert(ticks, old, new) ==
  Answer("convert", <<ticks, old, new>>, aws_timestamp_convert(ticks, old, new))
ByteOrder(endian) ==
  \/ \E n \in {2, 4, 8} : Answer("hton", endian, HostToNet(endian, Distinct(n)))
  \/ Answer("hton", endian, aws_hton64(endian, Distinct(8)))
NumNext ==
  /\ numCall = NumIdle
  /\ \/ \E a, b \in Word : Binary(a, b)
     \/ \E n \in Word : Unary(n)
     \/ \E a, b, c \in Word : a % 8 = 0 /\ b % 2 = 1 /\ AddThree(a, b, c)
     \/ \E t \in Word, old, new \in Frequencies : Convert(t, old, new)
     \/ \E e \in {"little", "big"} : ByteOrder(e)
NumSpec == NumInit /\ [][NumNext]_numVars

\* What each call is meant to return: the result over the unbounded integers when
\* it fits the word, an error or the largest (smallest) word when it does not.
Fits(n) == IF n \in Word THEN Value(n) ELSE Raise
Clip(n) == IF n < 0 THEN 0 ELSE IF n > WordMax THEN WordMax ELSE n
PowersOfTwo == {2^i : i \in 0..(Width - 1)}
Meant(fn, x) ==
  CASE fn = "mul" -> Fits(x[1] * x[2])     [] fn = "mul_sat" -> Clip(x[1] * x[2])
    [] fn = "add" -> Fits(x[1] + x[2])     [] fn = "add_sat" -> Clip(x[1] + x[2])
    [] fn = "sub" -> Fits(x[1] - x[2])     [] fn = "sub_sat" -> Clip(x[1] - x[2])
    [] fn = "add3" -> Fits(x[1] + x[2] + x[3])
    [] fn = "min_max" -> IF x[1] \in 0..x[2] THEN x ELSE <<x[2], x[1]>>
    [] fn = "mask" -> IF x[1] < x[2] /\ x[2] <= WordMax \div 2 THEN WordMax ELSE 0
    [] fn = "pow2" -> x[1] \in PowersOfTwo
    [] fn = "round" -> IF \E p \in PowersOfTwo : p >= x[1]
                       THEN Value(CHOOSE p \in PowersOfTwo :
                              p >= x[1] /\ \A q \in PowersOfTwo : q >= x[1] => p <= q)
                       ELSE Raise
\* math.c, clock.c:21 ("If conversion would lead to integer overflow, the timestamp
\* returned will be the highest possible time"), byte_buf.c:453, byte_order.c: every
\* call returns what it is meant to, for all operands, also where a word overflows.
\* A conversion is exact as long as the product of the frequencies fits a word.
NumbersExact ==
  CASE numCall.fn = "none" -> TRUE
    [] numCall.fn = "hton" ->
         \A i \in DOMAIN numCall.out :
            InMemory(numCall.arg, numCall.out)[i] = Len(numCall.out) + 1 - i
    [] numCall.fn = "convert" ->
         LET t == numCall.arg[1]  old == numCall.arg[2]  new == numCall.arg[3]
         IN  /\ old * new <= WordMax => numCall.out.ticks = Clip((t * new) \div old)
             /\ new < old /\ old % new = 0 /\ numCall.out.ticks < WordMax =>
                  t = numCall.out.ticks * (old \div new) + numCall.out.rem
    [] OTHER -> numCall.out = Meant(numCall.fn, numCall.arg)
=============================================================================
