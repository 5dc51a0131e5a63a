--------------------------------- MODULE Base64 ---------------------------------
(* src/src/aws/common/encoding.c: base64 into and out of an aws_byte_buf.      *)
(* Characters are their ASCII codes. A buffer is its memory, of which the      *)
(* first len bytes count; cap is its capacity.                                 *)
EXTENDS Integers, Sequences, FiniteSetsExt, SequencesExt

CONSTANTS B64Inputs,   \* byte sequences to encode
          B64Texts,    \* texts, also malformed ones, to decode
          B64Caps      \* capacities of the output buffer
VARIABLE b64
b64Vars == <<b64>>

Untouched == -1        \* memory nobody has written
NUL == 0
Pad == 61              \* '='
Invalid == 221         \* 0xDD
Sentinel == 255

\* BASE64_ENCODING_TABLE, BASE64_DECODING_TABLE
EncodingTable(v) ==
  IF v < 26 THEN 65 + v ELSE IF v < 52 THEN 71 + v ELSE IF v < 62 THEN v - 4
  ELSE IF v = 62 THEN 43 ELSE 47
DecodingTable(c) ==
  IF c \in 65..90 THEN c - 65 ELSE IF c \in 97..122 THEN c - 71 ELSE IF c \in 48..57 THEN c + 4
  ELSE CASE c = 43 -> 62 [] c = 47 -> 63 [] c = Pad -> Sentinel [] c = NUL -> 64 [] OTHER -> Invalid

NewBuf(cap, len) == [mem |-> [i \in 0..(cap - 1) |-> IF i < len THEN 7 ELSE Untouched],
                     len |-> len, cap |-> cap]
\* A store outside the memory would be an out-of-bounds write; it is recorded as such.
Store(buf, at, v) ==
  IF at \in DOMAIN buf.mem THEN [buf EXCEPT !.mem[at] = v] ELSE [buf EXCEPT !.cap = -1]
StoreAll(buf, at, vs) == FoldLeftDomain(LAMBDA b, i : Store(b, at + i - 1, vs[i]), buf, vs)

aws_base64_compute_encoded_len(n) == 4 * ((n + 2) \div 3) + 1
\* Mutant: two padding characters count as one.
PaddingOfOne(text) == IF text[Len(text)] = Pad THEN 1 ELSE 0
PaddingOf(text) ==
  LET n == Len(text) IN
  IF n >= 2 /\ text[n] = Pad /\ text[n - 1] = Pad THEN 2 ELSE IF text[n] = Pad THEN 1 ELSE 0
aws_base64_compute_decoded_len(text) ==
  IF text = <<>> THEN 0 ELSE IF Len(text) % 4 # 0 THEN -1
  ELSE (3 * Len(text)) \div 4 - PaddingOf(text)

\* One block of three bytes, absent ones zero, as four characters.
EncodeBlock(src, i) ==
  LET at(j) == IF j <= Len(src) THEN src[j] ELSE 0
      block == 65536 * at(i) + 256 * at(i + 1) + at(i + 2)
  IN  [k \in 1..4 |-> EncodingTable((block \div 64^(4 - k)) % 64)]

aws_base64_encode(src, buf) ==
  LET terminated == aws_base64_compute_encoded_len(Len(src))
      blocks == (Len(src) + 2) \div 3
      body == [k \in 1..(4 * blocks) |-> EncodeBlock(src, 3 * ((k - 1) \div 4) + 1)[((k - 1) % 4) + 1]]
      rem == Len(src) % 3
      padded == [k \in 1..Len(body) |->
                  IF (rem > 0 /\ k = Len(body)) \/ (rem = 1 /\ k = Len(body) - 1) THEN Pad ELSE body[k]]
  IN  IF buf.cap < buf.len + terminated THEN [ok |-> FALSE, buf |-> buf]
      ELSE [ok |-> TRUE,
            buf |-> [StoreAll(buf, buf.len, Append(padded, NUL)) EXCEPT !.len = buf.len + terminated - 1]]

\* s_base64_get_decoded_value
Acceptable(v, allowSentinel) == v # Invalid /\ (v # Sentinel \/ allowSentinel)
\* The bytes a block of four values makes; only the last one may hold padding.
Bytes(v) ==
  << (4 * v[1] + ((v[2] \div 16) % 4)) % 256,
     ((16 * v[2]) % 256) + ((v[3] \div 4) % 16),
     IF v[4] < 64 THEN 64 * (v[3] % 4) + v[4] ELSE 64 * (2 * ((v[3] % 4) \div 2) + 1) >>
LastBytes(v) ==
  IF v[3] = Sentinel THEN SubSeq(Bytes(v), 1, 1)
  ELSE IF v[4] = Sentinel THEN SubSeq(Bytes(v), 1, 2) ELSE Bytes(v)

\* Blocks are written as they are decoded, so a refused text leaves the bytes of
\* the blocks before the bad one in the buffer.
aws_base64_decode(text, buf) ==
  LET len == aws_base64_compute_decoded_len(text)
      blocks == Len(text) \div 4
      v(i) == [k \in 1..4 |-> DecodingTable(text[4 * (i - 1) + k])]
      good(i) == \A k \in 1..4 : Acceptable(v(i)[k], i = blocks /\ k \in {3, 4})
      bad == {i \in 1..blocks : ~good(i)}
      upto == IF bad = {} THEN blocks ELSE Min(bad) - 1
      written == FoldLeftDomain(
                   LAMBDA b, i : StoreAll(b, 3 * (i - 1), IF i = blocks THEN LastBytes(v(i)) ELSE Bytes(v(i))),
                   buf, [i \in 1..upto |-> i])
  IN  IF len = -1 \/ buf.cap < len THEN [ok |-> FALSE, buf |-> buf]
      ELSE IF bad # {} THEN [ok |-> FALSE, buf |-> written]
      ELSE [ok |-> TRUE, buf |-> [written EXCEPT !.len = len]]

-----------------------------------------------------------------------------
B64Idle == [step |-> "idle", src |-> <<>>, before |-> NewBuf(0, 0), enc |-> [ok |-> FALSE], dec |-> [ok |-> FALSE]]
B64Init == b64 = B64Idle
B64Encode(src, cap, len) ==
  /\ b64.step = "idle" /\ len <= cap
  /\ b64' = [b64 EXCEPT !.step = "encoded", !.src = src, !.before = NewBuf(cap, len),
                        !.enc = aws_base64_encode(src, NewBuf(cap, len))]
Text(buf, from) == [i \in 1..(buf.len - from) |-> buf.mem[from + i - 1]]
B64DecodeBack(cap) ==
  /\ b64.step = "encoded" /\ b64.enc.ok
  /\ b64' = [b64 EXCEPT !.step = "back",
               !.dec = aws_base64_decode(Text(b64.enc.buf, b64.before.len), NewBuf(cap, 0))]
B64Decode(text, cap) ==
  /\ b64.step = "idle"
  /\ b64' = [b64 EXCEPT !.step = "decoded", !.src = text, !.dec = aws_base64_decode(text, NewBuf(cap, 0))]
B64Next ==
  \/ \E src \in B64Inputs, cap \in B64Caps, len \in 0..2 : B64Encode(src, cap, len)
  \/ \E cap \in B64Caps : B64DecodeBack(cap)
  \/ \E text \in B64Texts, cap \in B64Caps : B64Decode(text, cap)
B64Spec == B64Init /\ [][B64Next]_b64Vars

\* encoding.c: an encoding is appended behind what the buffer holds, with a
\* terminator that fits and is not counted; decoding it gives back the bytes,
\* whenever there is room for them. No text, malformed ones too, makes the decoder write past
\* the capacity or past the length it has computed (encoding.c:165).
Base64RoundTrip ==
  /\ b64.enc.ok =>
       LET buf == b64.enc.buf IN
       /\ buf.cap = b64.before.cap /\ buf.len < buf.cap /\ buf.mem[buf.len] = NUL
       /\ \A i \in 0..(b64.before.len - 1) : buf.mem[i] = b64.before.mem[i]
       /\ \A i \in b64.before.len..(buf.len - 1) : buf.mem[i] \notin {Untouched, NUL}
  /\ b64.step = "back" =>
       /\ b64.dec.buf.cap >= Len(b64.src) => b64.dec.ok
       /\ b64.dec.ok => Text(b64.dec.buf, 0) = b64.src
  /\ b64.step \in {"back", "decoded"} =>
       /\ b64.dec.buf.cap # -1
       /\ \A i \in DOMAIN b64.dec.buf.mem :
            b64.dec.ok /\ b64.dec.buf.mem[i] # Untouched => i < b64.dec.buf.len
=============================================================================
