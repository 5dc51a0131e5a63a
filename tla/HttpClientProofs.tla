--------------------------- MODULE HttpClientProofs ---------------------------
(***************************************************************************)
(* Proofs about HttpClient, for any threads, answers, sizes of fragments    *)
(* and of buffers.  Induction over positions in a body is done with its     *)
(* least counterexample (Least): the set of natural numbers that is well    *)
(* founded has no operator as a parameter.                                  *)
(***************************************************************************)
EXTENDS HttpClient, SequenceTheorems, FiniteSetTheorems, WellFoundedInduction, TLAPS

-----------------------------------------------------------------------------
(* Numbers and sequences.                                                  *)

\* A set of natural numbers that is not empty has a least element.
LEMMA Least == ASSUME NEW T, T \subseteq Nat, T # {} PROVE \E x \in T : \A y \in T : x <= y
<1> DEFINE R == {p \in Nat \X Nat : p[1] < p[2]}
<1>1. IsWellFoundedOn(R, Nat) BY NatLessThanWellFounded DEF OpToRel
<1>2. \A x, y \in Nat : <<y, x>> \in R <=> y < x OBVIOUS
<1> HIDE DEF R
<1>3. PICK x \in T : \A y \in T : ~ (<<y, x>> \in R) BY <1>1, WFMin
<1>4. \A y \in T : x \in Nat /\ y \in Nat /\ ~(y < x) BY <1>2, <1>3
<1> QED BY <1>3, <1>4

\* A bounded one has a greatest element, which is its Max.
LEMMA Greatest ==
  ASSUME NEW n \in Nat, NEW T, T \subseteq 1 .. n, T # {}
  PROVE  Max(T) \in T /\ \A y \in T : y <= Max(T)
<1> DEFINE U == {m \in Nat : \A y \in T : y <= m}
<1>1. n \in U OBVIOUS
<1>2. PICK x \in U : \A y \in U : x <= y BY <1>1, Least
<1>3. x \in T
  <2> SUFFICES ASSUME x \notin T PROVE FALSE OBVIOUS
  <2>1. \A y \in T : y \in Nat /\ y <= x /\ y # x BY <1>2
  <2>2. x # 0
    <3>1. PICK y \in T : TRUE OBVIOUS
    <3>2. y \in 1 .. n /\ y <= x BY <2>1
    <3> QED BY <1>2, <3>2
  <2>3. x - 1 \in Nat /\ \A y \in T : y <= x - 1 BY <1>2, <2>1, <2>2
  <2>4. x <= x - 1 BY <1>2, <2>3
  <2> QED BY <1>2, <2>4
<1>4. \A y \in T : x >= y BY <1>2
<1>5. \E z \in T : \A y \in T : z >= y BY <1>3, <1>4
<1>6. Max(T) \in T /\ \A y \in T : Max(T) >= y BY <1>5 DEF Max
<1> QED BY <1>6

\* FlattenSeq is computed by the function that its definition describes.
LEMMA FlattenUnfold ==
  ASSUME NEW S, NEW seqs \in Seq(Seq(S)), Len(seqs) > 0
  PROVE  \E g \in [1 .. Len(seqs) -> Seq(S)] :
           /\ FlattenSeq(seqs) = g[Len(seqs)] /\ g[1] = seqs[1]
           /\ \A i \in 2 .. Len(seqs) : g[i] = g[i - 1] \o seqs[i]
<1> DEFINE n == Len(seqs)
           Rec(f, k) == f = [i \in 1 .. k |-> IF i = 1 THEN seqs[i] ELSE f[i - 1] \o seqs[i]]
           flat == CHOOSE f : Rec(f, n)
<1>1. FlattenSeq(seqs) = flat[n] BY DEF FlattenSeq
<1>2. n \in Nat /\ n > 0 /\ \A i \in 1 .. n : seqs[i] \in Seq(S) OBVIOUS
<1> HIDE DEF n
<1>3. \E f \in [1 .. n -> Seq(S)] : Rec(f, n)
  <2> DEFINE T == {k \in Nat : k > 0 /\ k <= n /\ ~ \E f \in [1 .. k -> Seq(S)] : Rec(f, k)}
  <2> SUFFICES ASSUME T # {} PROVE FALSE
    <3>1. T = {} => n \notin T OBVIOUS
    <3> HIDE DEF Rec
    <3> QED BY <1>2, <3>1
  <2>1. PICK k \in T : \A y \in T : k <= y BY Least
  <2>2. k # 1
    <3>1. SUFFICES ASSUME k = 1 PROVE FALSE OBVIOUS
    <3> DEFINE f == [i \in 1 .. 1 |-> seqs[1]]
    <3>2. f \in [1 .. k -> Seq(S)] /\ Rec(f, k) BY <1>2, <3>1
    <3> QED BY <2>1, <3>2
  <2>3. k - 1 \in Nat /\ k - 1 > 0 /\ k - 1 <= n /\ k - 1 \notin T
    <3>1. k \in Nat /\ k > 0 /\ k <= n BY <2>1
    <3>2. k - 1 \in T => k <= k - 1 BY <2>1
    <3> HIDE DEF T
    <3> QED BY <1>2, <2>2, <3>1, <3>2
  <2>4. PICK f \in [1 .. k - 1 -> Seq(S)] : Rec(f, k - 1) BY <2>3
  <2> DEFINE g == [i \in 1 .. k |-> IF i < k THEN f[i] ELSE f[k - 1] \o seqs[k]]
  <2>5. g \in [1 .. k -> Seq(S)]
    <3>1. seqs[k] \in Seq(S) /\ f[k - 1] \in Seq(S) BY <1>2, <2>1, <2>3
    <3>2. f[k - 1] \o seqs[k] \in Seq(S) BY <3>1
    <3> QED BY <3>2
  <2>6. \A i \in 1 .. k : g[i] = IF i = 1 THEN seqs[i] ELSE g[i - 1] \o seqs[i]
    <3> TAKE i \in 1 .. k
    <3>1. CASE i = k
      <4>1. i - 1 \in 1 .. k /\ i - 1 < k /\ i # 1 /\ ~(i < k) BY <2>2, <2>3, <3>1
      <4>2. g[i - 1] = f[k - 1] /\ g[i] = f[k - 1] \o seqs[k] BY <3>1, <4>1
      <4> QED BY <3>1, <4>1, <4>2
    <3>2. CASE i # k
      <4>1. i \in 1 .. k - 1 /\ g[i] = f[i] BY <2>3, <3>2
      <4>2. f[i] = IF i = 1 THEN seqs[i] ELSE f[i - 1] \o seqs[i] BY <2>4, <4>1
      <4>3. i # 1 => g[i - 1] = f[i - 1] BY <2>3, <4>1
      <4> QED BY <4>1, <4>2, <4>3
    <3> QED BY <3>1, <3>2
  <2>7. Rec(g, k)
    <3> DEFINE h == [i \in 1 .. k |-> IF i = 1 THEN seqs[i] ELSE g[i - 1] \o seqs[i]]
    <3>1. \A i \in 1 .. k : g[i] = h[i] BY <2>6
    <3> QED BY <3>1
  <2> QED BY <2>1, <2>5, <2>7
<1>4. Rec(flat, n) BY <1>3
<1>5. \A f \in [1 .. n -> Seq(S)] : Rec(f, n) => flat = f
  <2> TAKE f \in [1 .. n -> Seq(S)]
  <2> HAVE Rec(f, n)
  <2> DEFINE T == {k \in Nat : k \in 1 .. n /\ flat[k] # f[k]}
  <2>1. T = {}
    <3> SUFFICES ASSUME T # {} PROVE FALSE OBVIOUS
    <3>1. PICK k \in T : \A y \in T : k <= y BY Least
    <3>2. f[k] = IF k = 1 THEN seqs[k] ELSE f[k - 1] \o seqs[k] OBVIOUS
    <3>3. flat[k] = IF k = 1 THEN seqs[k] ELSE flat[k - 1] \o seqs[k] BY <1>4
    <3>4. k # 1 BY <3>1, <3>2, <3>3
    <3>5. k \in 1 .. n /\ (k - 1 \in T => k <= k - 1) BY <3>1
    <3>6. k - 1 \notin T /\ k - 1 \in 1 .. n /\ k - 1 \in Nat
      <4> HIDE DEF T
      <4> QED BY <1>2, <3>4, <3>5
    <3>7. flat[k - 1] = f[k - 1] BY <3>6
    <3> QED BY <3>1, <3>2, <3>3, <3>7
  <2> HIDE DEF flat
  <2>2. \A k \in 1 .. n : flat[k] = f[k]
    <3> TAKE k \in 1 .. n
    <3>1. k \in Nat BY <1>2
    <3>2. k \notin T BY <2>1
    <3> QED BY <3>1, <3>2
  <2>3. flat = [i \in 1 .. n |-> flat[i]] BY <1>4
  <2> QED BY <2>2, <2>3
<1>6. PICK g \in [1 .. n -> Seq(S)] : Rec(g, n) BY <1>3
<1>7. FlattenSeq(seqs) = g[n] BY <1>1, <1>5, <1>6
<1>8. g[1] = seqs[1] /\ \A i \in 2 .. n : g[i] = g[i - 1] \o seqs[i]
  <2>1. \A i \in 1 .. n : g[i] = IF i = 1 THEN seqs[i] ELSE g[i - 1] \o seqs[i] BY <1>6
  <2>2. 1 \in 1 .. n /\ \A i \in 2 .. n : i \in 1 .. n /\ i # 1 BY <1>2
  <2> QED BY <2>1, <2>2
<1> QED BY <1>6, <1>7, <1>8 DEF n

-----------------------------------------------------------------------------
(* The body of an answer: the parts of its events, one event after another. *)

Parts == [event : Nat, part : Nat, of : Nat]

\* The part after p.
Follows(p, q) ==
  IF Separator(p) THEN q.event = p.event + 1 /\ q.part = 1
                  ELSE q.event = p.event /\ q.part = p.part + 1

\* B holds the first k events.
IsBody(B, sizes, k) ==
  /\ B \in Seq(Parts)
  /\ \A i \in 1 .. Len(B) : /\ B[i].event \in 1 .. k /\ B[i].of = sizes[B[i].event]
                            /\ B[i].part \in 1 .. B[i].of
  /\ IF k = 0 THEN B = <<>>
     ELSE /\ Len(B) > 0 /\ B[1].event = 1 /\ B[1].part = 1
          /\ B[Len(B)].event = k /\ Separator(B[Len(B)])
  /\ \A i \in 1 .. Len(B) - 1 : Follows(B[i], B[i + 1])

\* The parts of an event.
LEMMA EventPartsShape ==
  ASSUME NEW e \in Nat, NEW n \in Nat \ {0}
  PROVE  /\ EventParts(e, n) \in Seq(Parts) /\ Len(EventParts(e, n)) = n
         /\ \A i \in 1 .. n : EventParts(e, n)[i] = [event |-> e, part |-> i, of |-> n]
<1> DEFINE E == EventParts(e, n)
<1>1. \A i \in 1 .. n : E[i] = [event |-> e, part |-> i, of |-> n] /\ E[i] \in Parts
  BY DEF EventParts, Part, Parts
<1>2. E \in [1 .. n -> Parts] BY <1>1 DEF EventParts
<1>3. E \in Seq(Parts) /\ Len(E) = n BY <1>2
<1> QED BY <1>1, <1>3

\* One more event.
LEMMA BodyExtends ==
  ASSUME NEW sizes \in Seq(Nat \ {0}), NEW k \in Nat, k < Len(sizes), NEW B, IsBody(B, sizes, k)
  PROVE  IsBody(B \o EventParts(k + 1, sizes[k + 1]), sizes, k + 1)
<1> DEFINE n == sizes[k + 1]
           E == EventParts(k + 1, n)
           C == B \o E
<1>1. n \in Nat \ {0} /\ k + 1 \in Nat OBVIOUS
<1>2. /\ E \in Seq(Parts) /\ Len(E) = n
      /\ \A i \in 1 .. n : E[i] = [event |-> k + 1, part |-> i, of |-> n]
  BY <1>1, EventPartsShape
<1>3. B \in Seq(Parts) /\ Len(B) \in Nat BY DEF IsBody
<1>8. \A i \in 1 .. Len(B) : B[i] \in Parts BY <1>3
<1> HIDE DEF E
<1>4. /\ C \in Seq(Parts) /\ Len(C) = Len(B) + n
      /\ \A i \in 1 .. Len(B) : C[i] = B[i]
      /\ \A i \in 1 .. n : C[Len(B) + i] = E[i]
  <2>1. /\ C \in Seq(Parts) /\ Len(C) = Len(B) + Len(E)
        /\ \A i \in 1 .. Len(B) + Len(E) : C[i] = IF i <= Len(B) THEN B[i] ELSE E[i - Len(B)]
    BY <1>2, <1>3, ConcatProperties
  <2> HIDE DEF C, n
  <2>2. \A i \in 1 .. Len(B) : C[i] = B[i] BY <1>1, <1>2, <1>3, <2>1
  <2>3. ASSUME NEW i \in 1 .. n PROVE C[Len(B) + i] = E[i]
    <3>1. Len(B) + i \in 1 .. Len(B) + Len(E) /\ ~(Len(B) + i <= Len(B)) /\ Len(B) + i - Len(B) = i
      BY <1>1, <1>2, <1>3
    <3> QED BY <2>1, <3>1
  <2> QED BY <1>2, <2>1, <2>2, <2>3
<1>c. sizes[k + 1] = n OBVIOUS
<1> HIDE DEF n, C
<1>5. \A i \in 1 .. Len(C) : i \in 1 .. Len(B) \/ (i - Len(B) \in 1 .. n /\ C[i] = E[i - Len(B)])
  <2> TAKE i \in 1 .. Len(C)
  <2>1. CASE i <= Len(B) BY <1>3, <2>1
  <2>2. CASE i > Len(B)
    <3>1. i - Len(B) \in 1 .. n /\ Len(B) + (i - Len(B)) = i BY <1>1, <1>3, <1>4, <2>2
    <3> QED BY <1>4, <3>1
  <2> QED BY <1>1, <1>3, <1>4, <2>1, <2>2
<1>6. \A i \in 1 .. Len(C) : /\ C[i].event \in 1 .. k + 1 /\ C[i].of = sizes[C[i].event]
                             /\ C[i].part \in 1 .. C[i].of
  <2> TAKE i \in 1 .. Len(C)
  <2>1. CASE i \in 1 .. Len(B) BY <2>1, <1>4 DEF IsBody
  <2>2. CASE i - Len(B) \in 1 .. n /\ C[i] = E[i - Len(B)]
    <3>1. C[i].event = k + 1 /\ C[i].part = i - Len(B) /\ C[i].of = n BY <1>2, <2>2
    <3> QED BY <1>c, <2>2, <3>1
  <2> QED BY <1>5, <2>1, <2>2
<1>f. C[Len(B) + 1].event = k + 1 /\ C[Len(B) + 1].part = 1
  BY <1>1, <1>2, <1>4
<1>7. /\ Len(C) > 0 /\ C[1].event = 1 /\ C[1].part = 1
      /\ C[Len(C)].event = k + 1 /\ Separator(C[Len(C)])
  <2>1. C[Len(C)] = E[n] BY <1>1, <1>4
  <2>2. C[Len(C)].event = k + 1 /\ Separator(C[Len(C)]) BY <1>1, <1>2, <2>1 DEF Separator
  <2>3. Len(C) > 0 BY <1>1, <1>3, <1>4
  <2>4. CASE k = 0
    <3>1. Len(B) = 0 BY <2>4 DEF IsBody
    <3> QED BY <1>f, <2>2, <2>3, <2>4, <3>1
  <2>5. CASE k # 0
    <3>1. Len(B) > 0 /\ B[1].event = 1 /\ B[1].part = 1 BY <2>5 DEF IsBody
    <3>2. C[1] = B[1] BY <1>3, <1>4, <3>1
    <3> QED BY <2>2, <2>3, <3>1, <3>2
  <2> QED BY <2>4, <2>5
<1>9. \A i \in 1 .. Len(C) - 1 : Follows(C[i], C[i + 1])
  <2> TAKE i \in 1 .. Len(C) - 1
  <2>1. CASE i < Len(B)
    <3>1. i \in 1 .. Len(B) - 1 /\ i \in 1 .. Len(B) /\ i + 1 \in 1 .. Len(B) BY <1>3, <2>1
    <3>2. Follows(B[i], B[i + 1]) BY <3>1 DEF IsBody
    <3> QED BY <1>4, <3>1, <3>2
  <2>2. CASE i = Len(B)
    <3>1. Len(B) > 0 BY <2>2
    <3>2. k # 0 BY <3>1 DEF IsBody
    <3>3. B[Len(B)].event = k /\ Separator(B[Len(B)]) BY <3>2 DEF IsBody
    <3>4. C[i] = B[Len(B)] BY <1>3, <1>4, <2>2, <3>1
    <3> QED BY <1>f, <2>2, <3>3, <3>4 DEF Follows
  <2>3. CASE i > Len(B)
    <3> DEFINE m == i - Len(B)
    <3>1. m \in 1 .. n /\ m + 1 \in 1 .. n /\ i = Len(B) + m /\ i + 1 = Len(B) + (m + 1) /\ m # n
      BY <1>1, <1>3, <1>4, <2>3
    <3> HIDE DEF m
    <3>2. C[i] = E[m] /\ C[i + 1] = E[m + 1] BY <1>4, <3>1
    <3>3. E[m].event = k + 1 /\ E[m].part = m /\ E[m].of = n /\ E[m + 1].event = k + 1 /\ E[m + 1].part = m + 1
      BY <1>2, <3>1
    <3> QED BY <3>1, <3>2, <3>3 DEF Follows, Separator
  <2> QED BY <1>3, <1>4, <2>1, <2>2, <2>3
<1>10. IsBody(C, sizes, k + 1) BY <1>1, <1>4, <1>6, <1>7, <1>9 DEF IsBody
<1> QED BY <1>10 DEF C, E, n

\* The body of an answer holds all its events.
LEMMA BodyShape ==
  ASSUME NEW a, a.sizes \in Seq(Nat \ {0})
  PROVE  IsBody(BodyOf(a), a.sizes, Len(a.sizes))
<1> DEFINE sizes == a.sizes
           N == Len(sizes)
           seqs == [e \in DOMAIN sizes |-> EventParts(e, sizes[e])]
<1>1. N \in Nat /\ DOMAIN sizes = 1 .. N /\ \A e \in 1 .. N : sizes[e] \in Nat \ {0} OBVIOUS
<1>2. BodyOf(a) = FlattenSeq(seqs) BY DEF BodyOf
<1> HIDE DEF sizes, N
<1>3. \A e \in 1 .. N : seqs[e] = EventParts(e, sizes[e]) /\ seqs[e] \in Seq(Parts)
  <2> TAKE e \in 1 .. N
  <2>1. EventParts(e, sizes[e]) \in Seq(Parts) BY <1>1, EventPartsShape
  <2> QED BY <1>1, <2>1
<1>4. seqs \in [1 .. N -> Seq(Parts)] BY <1>1, <1>3
<1> HIDE DEF seqs
<1>5. seqs \in Seq(Seq(Parts)) /\ Len(seqs) = N BY <1>1, <1>4
<1>6. CASE N = 0
  <2>1. seqs = <<>> BY <1>5, <1>6
  <2>2. FlattenSeq(seqs) = <<>> BY <2>1 DEF FlattenSeq
  <2> QED BY <1>2, <1>6, <2>2 DEF IsBody, N, sizes
<1>7. CASE N # 0
  <2>0. Len(seqs) > 0 BY <1>1, <1>5, <1>7
  <2>1. PICK g \in [1 .. N -> Seq(Parts)] :
           /\ FlattenSeq(seqs) = g[N] /\ g[1] = seqs[1]
           /\ \A i \in 2 .. N : g[i] = g[i - 1] \o seqs[i]
    BY <1>5, <2>0, FlattenUnfold
  <2>2. IsBody(g[1], sizes, 1)
    <3>1. IsBody(<<>>, sizes, 0) BY DEF IsBody
    <3>2. sizes \in Seq(Nat \ {0}) /\ 0 < Len(sizes) BY <1>1, <1>7 DEF sizes, N
    <3>3. IsBody(<<>> \o EventParts(0 + 1, sizes[0 + 1]), sizes, 0 + 1) BY <3>1, <3>2, BodyExtends
    <3>4. 1 \in 1 .. N BY <1>1, <1>7
    <3>5. g[1] = EventParts(1, sizes[1]) /\ g[1] \in Seq(Parts) BY <1>3, <2>1, <3>4
    <3>6. <<>> \o g[1] = g[1] BY <3>5
    <3> QED BY <3>3, <3>5, <3>6
  <2>3. \A k \in 1 .. N : IsBody(g[k], sizes, k)
    <3> DEFINE T == {k \in Nat : k \in 1 .. N /\ ~IsBody(g[k], sizes, k)}
    <3>1. T = {}
      <4> SUFFICES ASSUME T # {} PROVE FALSE OBVIOUS
      <4>1. PICK k \in T : \A y \in T : k <= y BY Least
      <4>2. k \in 1 .. N /\ k # 1 /\ ~IsBody(g[k], sizes, k) /\ (k - 1 \in T => k <= k - 1)
        BY <2>2, <4>1
      <4>3. k - 1 \in 1 .. N /\ k - 1 \in Nat /\ k \in 2 .. N /\ k - 1 \notin T /\ (k - 1) + 1 = k /\ k - 1 < N
        <5> HIDE DEF T
        <5> QED BY <1>1, <4>2
      <4>4. IsBody(g[k - 1], sizes, k - 1) BY <4>3
      <4>5. IsBody(g[k - 1] \o EventParts((k - 1) + 1, sizes[(k - 1) + 1]), sizes, (k - 1) + 1)
        <5>1. sizes \in Seq(Nat \ {0}) /\ k - 1 < Len(sizes) BY <4>3 DEF sizes, N
        <5> QED BY <4>3, <4>4, <5>1, BodyExtends
      <4>6. g[k] = g[k - 1] \o EventParts(k, sizes[k]) BY <1>3, <2>1, <4>2, <4>3
      <4> QED BY <4>2, <4>3, <4>5, <4>6
    <3> QED
      <4> TAKE k \in 1 .. N
      <4>1. k \in Nat BY <1>1
      <4>2. k \notin T BY <3>1
      <4> QED BY <4>1, <4>2
  <2> QED BY <1>1, <1>2, <1>7, <2>1, <2>3 DEF sizes, N
<1> QED BY <1>6, <1>7

-----------------------------------------------------------------------------
(* The loop over sse->buffer.                                              *)

\* Separators before position i, and the separator with k - 1 before it.
Count(b, i) == Cardinality({j \in Ends(b) : j < i})
EndOf(b, k) == CHOOSE i \in Ends(b) : Count(b, i) = k - 1
BeginOf(b, k) == IF k = 1 THEN 1 ELSE EndOf(b, k - 1) + 1

\* Blocks, with these names.
LEMMA BlocksUnfold ==
  ASSUME NEW b
  PROVE  Blocks(b) = [k \in 1 .. Cardinality(Ends(b)) |-> SubSeq(b, BeginOf(b, k), EndOf(b, k))]
BY DEF Blocks, BeginOf, EndOf, Count

\* How the count grows.
LEMMA CountShape ==
  ASSUME NEW b \in Seq(Parts)
  PROVE  /\ Ends(b) \subseteq 1 .. Len(b) /\ IsFiniteSet(Ends(b)) /\ Cardinality(Ends(b)) \in Nat
         /\ \A i \in Nat : Count(b, i) \in Nat
         /\ Count(b, 1) = 0 /\ Count(b, Len(b) + 1) = Cardinality(Ends(b))
         /\ \A i \in Nat : Count(b, i + 1) = IF i \in Ends(b) THEN Count(b, i) + 1 ELSE Count(b, i)
         /\ \A i, j \in Nat : i <= j => Count(b, i) <= Count(b, j)
<1>1. Ends(b) \subseteq 1 .. Len(b) /\ Len(b) \in Nat BY DEF Ends
<1>2. IsFiniteSet(Ends(b))
  <2>1. 1 \in Int /\ Len(b) \in Int BY <1>1
  <2>2. IsFiniteSet(1 .. Len(b)) BY <2>1, FS_Interval
  <2> QED BY <1>1, <2>2, FS_Subset
<1>3. Cardinality(Ends(b)) \in Nat BY <1>2, FS_CardinalityType
<1> DEFINE before(i) == {j \in Ends(b) : j < i}
<1>4. \A i : IsFiniteSet(before(i))
  <2> TAKE i
  <2>1. before(i) \in SUBSET Ends(b) OBVIOUS
  <2> QED BY <1>2, <2>1, FS_Subset
<1>5. \A i : Count(b, i) = Cardinality(before(i)) /\ Count(b, i) \in Nat
  BY <1>4, FS_CardinalityType DEF Count
<1>6. before(1) = {} BY <1>1
<1>7. before(Len(b) + 1) = Ends(b) BY <1>1
<1>8. ASSUME NEW i \in Nat
      PROVE  Count(b, i + 1) = IF i \in Ends(b) THEN Count(b, i) + 1 ELSE Count(b, i)
  <2>1. CASE i \in Ends(b)
    <3>1. before(i + 1) = before(i) \cup {i} /\ i \notin before(i) BY <1>1, <2>1
    <3> HIDE DEF before
    <3>2. Cardinality(before(i) \cup {i}) = Cardinality(before(i)) + 1 BY <1>4, <3>1, FS_AddElement
    <3> QED BY <1>5, <2>1, <3>1, <3>2
  <2>2. CASE i \notin Ends(b)
    <3>1. before(i + 1) = before(i) BY <1>1, <2>2
    <3> QED BY <1>5, <2>2, <3>1
  <2> QED BY <2>1, <2>2
<1>9. ASSUME NEW i \in Nat, NEW j \in Nat, i <= j PROVE Count(b, i) <= Count(b, j)
  <2>1. before(i) \in SUBSET before(j) BY <1>1, <1>9
  <2> HIDE DEF before
  <2>2. Cardinality(before(i)) <= Cardinality(before(j)) BY <1>4, <2>1, FS_Subset
  <2> QED BY <1>5, <2>2
<1>10. Count(b, 1) = 0 /\ Count(b, Len(b) + 1) = Cardinality(Ends(b)) BY <1>5, <1>6, <1>7, FS_EmptySet
<1> QED BY <1>1, <1>2, <1>3, <1>5, <1>8, <1>9, <1>10

\* The separators are numbered without gaps.
LEMMA EndOfShape ==
  ASSUME NEW b \in Seq(Parts), NEW k \in 1 .. Cardinality(Ends(b))
  PROVE  /\ EndOf(b, k) \in Ends(b) /\ Count(b, EndOf(b, k)) = k - 1
         /\ \A i \in Ends(b) : Count(b, i) = k - 1 => i = EndOf(b, k)
<1> DEFINE M == Cardinality(Ends(b))
           T == {i \in Nat : Count(b, i) >= k}
<1>0. Len(b) \in Nat OBVIOUS
<1>e. \A x \in Ends(b) : x \in Nat
  <2>1. Ends(b) \subseteq 1 .. Len(b) BY CountShape
  <2> QED BY <1>0, <2>1
<1>1. M \in Nat /\ Count(b, Len(b) + 1) = M /\ Count(b, 1) = 0 BY CountShape
<1>2. Len(b) + 1 \in T BY <1>0, <1>1
<1>3. PICK i \in T : \A y \in T : i <= y BY <1>2, Least
<1>4. i \in Nat /\ Count(b, i) >= k /\ k \in Nat /\ k >= 1 BY <1>1, <1>3
<1>5. i # 0 /\ i # 1
  <2>1. Count(b, 0) <= Count(b, 1) /\ Count(b, 0) \in Nat BY CountShape
  <2> QED BY <1>1, <1>4, <2>1
<1>6. i - 1 \in Nat /\ (i - 1) + 1 = i /\ i - 1 \notin T
  <2>1. i - 1 \in T => i <= i - 1 BY <1>3
  <2> HIDE DEF T
  <2> QED BY <1>4, <1>5, <2>1
<1>7. Count(b, i - 1) \in Nat /\ Count(b, i - 1) < k BY <1>4, <1>6, CountShape
<1>8. Count(b, i) = IF i - 1 \in Ends(b) THEN Count(b, i - 1) + 1 ELSE Count(b, i - 1)
  BY <1>6, CountShape
<1>9. i - 1 \in Ends(b) /\ Count(b, i - 1) = k - 1 BY <1>4, <1>7, <1>8
<1>10. EndOf(b, k) \in Ends(b) /\ Count(b, EndOf(b, k)) = k - 1 BY <1>9 DEF EndOf
<1>11. ASSUME NEW x \in Ends(b), NEW y \in Ends(b), x < y PROVE Count(b, x) # Count(b, y)
  <2>1. x \in Nat /\ y \in Nat /\ x + 1 <= y /\ x + 1 \in Nat BY <1>11, <1>e
  <2>2. Count(b, x + 1) = Count(b, x) + 1 /\ Count(b, x + 1) <= Count(b, y)
        /\ Count(b, x) \in Nat /\ Count(b, y) \in Nat
    BY <2>1, CountShape
  <2> QED BY <2>2
<1>12. ASSUME NEW x \in Ends(b), Count(b, x) = k - 1 PROVE x = EndOf(b, k)
  <2>1. x \in Nat /\ EndOf(b, k) \in Nat BY <1>e, <1>10
  <2>2. ~(x < EndOf(b, k)) /\ ~(EndOf(b, k) < x) BY <1>10, <1>11, <1>12
  <2> QED BY <2>1, <2>2
<1> QED BY <1>10, <1>12

\* b is a window of the body B that begins with an event, the (k + 1)-th.
Window(b, B, q, k, sizes) ==
  /\ sizes \in Seq(Nat \ {0}) /\ IsBody(B, sizes, Len(sizes))
  /\ b \in Seq(Parts) /\ q \in Nat /\ k \in Nat /\ q + Len(b) <= Len(B)
  /\ \A i \in 1 .. Len(b) : b[i] = B[q + i]
  /\ IF q = 0 THEN k = 0 ELSE Separator(B[q]) /\ B[q].event = k

\* The parts of a window.
LEMMA WindowParts ==
  ASSUME NEW b, NEW B, NEW q, NEW k, NEW sizes, Window(b, B, q, k, sizes)
  PROVE  /\ \A i \in 1 .. Len(b) :
              /\ b[i].event \in 1 .. Len(sizes) /\ b[i].of = sizes[b[i].event]
              /\ b[i].of \in Nat \ {0} /\ b[i].part \in 1 .. b[i].of
         /\ \A i \in 1 .. Len(b) - 1 : Follows(b[i], b[i + 1])
         /\ Len(b) > 0 => b[1].event = k + 1 /\ b[1].part = 1
<1>1. /\ sizes \in Seq(Nat \ {0}) /\ IsBody(B, sizes, Len(sizes))
      /\ b \in Seq(Parts) /\ q \in Nat /\ k \in Nat /\ q + Len(b) <= Len(B)
      /\ \A i \in 1 .. Len(b) : b[i] = B[q + i]
      /\ IF q = 0 THEN k = 0 ELSE Separator(B[q]) /\ B[q].event = k
  BY DEF Window
<1>2. B \in Seq(Parts) /\ Len(B) \in Nat /\ Len(b) \in Nat /\ Len(sizes) \in Nat BY <1>1 DEF IsBody
<1>3. ASSUME NEW i \in 1 .. Len(b)
      PROVE  /\ b[i].event \in 1 .. Len(sizes) /\ b[i].of = sizes[b[i].event]
             /\ b[i].of \in Nat \ {0} /\ b[i].part \in 1 .. b[i].of
  <2>1. q + i \in 1 .. Len(B) /\ b[i] = B[q + i] BY <1>1, <1>2
  <2>2. b[i].event \in 1 .. Len(sizes) /\ b[i].of = sizes[b[i].event] /\ b[i].part \in 1 .. b[i].of
    BY <1>1, <2>1 DEF IsBody
  <2>5. b[i].of \in Nat \ {0} BY <1>1, <2>2
  <2> QED BY <2>2, <2>5
<1>4. ASSUME NEW i \in 1 .. Len(b) - 1 PROVE Follows(b[i], b[i + 1])
  <2>1. /\ q + i \in 1 .. Len(B) - 1 /\ i \in 1 .. Len(b) /\ i + 1 \in 1 .. Len(b)
        /\ (q + i) + 1 = q + (i + 1)
    BY <1>1, <1>2
  <2>2. Follows(B[q + i], B[(q + i) + 1]) BY <1>1, <2>1 DEF IsBody
  <2>3. b[i] = B[q + i] /\ b[i + 1] = B[(q + i) + 1] BY <1>1, <2>1
  <2> QED BY <2>2, <2>3
<1>5. ASSUME Len(b) > 0 PROVE b[1].event = k + 1 /\ b[1].part = 1
  <2>1. b[1] = B[q + 1] /\ Len(B) > 0 /\ q + 1 <= Len(B) BY <1>1, <1>2, <1>5
  <2>2. CASE q = 0
    <3>1. Len(sizes) # 0 BY <1>1, <1>2, <2>1 DEF IsBody
    <3>2. B[1].event = 1 /\ B[1].part = 1 BY <1>1, <3>1 DEF IsBody
    <3> QED BY <1>1, <2>1, <2>2, <3>2
  <2>3. CASE q # 0
    <3>1. q \in 1 .. Len(B) - 1 BY <1>1, <1>2, <2>1, <2>3
    <3>2. Follows(B[q], B[q + 1]) BY <1>1, <3>1 DEF IsBody
    <3> QED BY <1>1, <2>1, <2>3, <3>2 DEF Follows
  <2> QED BY <2>2, <2>3
<1> QED BY <1>3, <1>4, <1>5

\* The event of a part is the number of separators before it.
LEMMA WindowCount ==
  ASSUME NEW b, NEW B, NEW q, NEW k, NEW sizes, Window(b, B, q, k, sizes)
  PROVE  \A i \in 1 .. Len(b) : b[i].event = k + 1 + Count(b, i)
<1> DEFINE T == {i \in Nat : i \in 1 .. Len(b) /\ b[i].event # k + 1 + Count(b, i)}
<1>1. b \in Seq(Parts) /\ Len(b) \in Nat /\ k \in Nat BY DEF Window
<1>2. T = {}
  <2> SUFFICES ASSUME T # {} PROVE FALSE OBVIOUS
  <2>1. PICK i \in T : \A y \in T : i <= y BY Least
  <2>2. i \in 1 .. Len(b) /\ b[i].event # k + 1 + Count(b, i) /\ (i - 1 \in T => i <= i - 1) BY <2>1
  <2>3. i # 1
    <3>1. Count(b, 1) = 0 BY <1>1, CountShape
    <3>2. i = 1 => b[1].event = k + 1 BY <1>1, <2>2, WindowParts
    <3> QED BY <1>1, <2>2, <3>1, <3>2
  <2>4. /\ i - 1 \in Nat /\ i - 1 \in 1 .. Len(b) /\ i - 1 \in 1 .. Len(b) - 1 /\ (i - 1) + 1 = i
        /\ i - 1 \notin T
    <3> HIDE DEF T
    <3> QED BY <1>1, <2>2, <2>3
  <2>5. b[i - 1].event = k + 1 + Count(b, i - 1) BY <2>4
  <2>6. Follows(b[i - 1], b[i]) BY <2>4, WindowParts
  <2>7. Count(b, i) = IF i - 1 \in Ends(b) THEN Count(b, i - 1) + 1 ELSE Count(b, i - 1)
    BY <1>1, <2>4, CountShape
  <2>8. i - 1 \in Ends(b) <=> Separator(b[i - 1]) BY <1>1, <2>4 DEF Ends
  <2>9. Count(b, i - 1) \in Nat BY <1>1, <2>4, CountShape
  <2>10. CASE Separator(b[i - 1])
    <3>1. b[i].event = b[i - 1].event + 1 BY <2>6, <2>10 DEF Follows
    <3> QED BY <1>1, <2>2, <2>5, <2>7, <2>8, <2>9, <2>10, <3>1
  <2>11. CASE ~Separator(b[i - 1])
    <3>1. b[i].event = b[i - 1].event BY <2>6, <2>11 DEF Follows
    <3> QED BY <2>2, <2>5, <2>7, <2>8, <2>11, <3>1
  <2> QED BY <2>10, <2>11
<1>3. ASSUME NEW i \in 1 .. Len(b) PROVE b[i].event = k + 1 + Count(b, i)
  <2>1. i \in Nat BY <1>1
  <2>2. i \notin T BY <1>2
  <2> QED BY <2>1, <2>2
<1> QED BY <1>3

\* From the beginning x of an event on, the parts are numbered, up to its separator.
LEMMA WindowRun ==
  ASSUME NEW b, NEW B, NEW q, NEW k, NEW sizes, Window(b, B, q, k, sizes),
         NEW x \in 1 .. Len(b), x = 1 \/ x - 1 \in Ends(b)
  PROVE  \A j \in x .. Len(b) : Count(b, j) = Count(b, x) => b[j].part = j - x + 1
<1> DEFINE T == {j \in Nat : j \in x .. Len(b) /\ Count(b, j) = Count(b, x) /\ b[j].part # j - x + 1}
<1>1. b \in Seq(Parts) /\ Len(b) \in Nat /\ x \in Nat BY DEF Window
<1>2. T = {}
  <2> SUFFICES ASSUME T # {} PROVE FALSE OBVIOUS
  <2>1. PICK j \in T : \A y \in T : j <= y BY Least
  <2>2. /\ j \in x .. Len(b) /\ Count(b, j) = Count(b, x) /\ b[j].part # j - x + 1
        /\ (j - 1 \in T => j <= j - 1)
    BY <2>1
  <2>3. b[x].part = 1
    <3>1. CASE x = 1 BY <1>1, <3>1, WindowParts
    <3>2. CASE x # 1
      <4>1. x - 1 \in 1 .. Len(b) - 1 /\ (x - 1) + 1 = x /\ Separator(b[x - 1])
        BY <1>1, <3>2 DEF Ends
      <4>2. Follows(b[x - 1], b[x]) BY <4>1, WindowParts
      <4> QED BY <4>1, <4>2 DEF Follows
    <3> QED BY <3>1, <3>2
  <2>4. j # x BY <1>1, <2>2, <2>3
  <2>5. /\ j - 1 \in Nat /\ j - 1 \in x .. Len(b) /\ j - 1 \in 1 .. Len(b) - 1 /\ (j - 1) + 1 = j
        /\ j - 1 \notin T /\ j \in Nat /\ j - 1 \in 1 .. Len(b)
    <3> HIDE DEF T
    <3> QED BY <1>1, <2>2, <2>4
  <2>6. Count(b, x) <= Count(b, j - 1) /\ Count(b, j - 1) \in Nat /\ Count(b, x) \in Nat
        /\ Count(b, j) = IF j - 1 \in Ends(b) THEN Count(b, j - 1) + 1 ELSE Count(b, j - 1)
    <3>1. x <= j - 1 BY <1>1, <2>5
    <3> QED BY <1>1, <2>5, <3>1, CountShape
  <2>7. Count(b, j - 1) = Count(b, x) /\ j - 1 \notin Ends(b) BY <2>2, <2>6
  <2>8. b[j - 1].part = (j - 1) - x + 1 BY <2>5, <2>7
  <2>9. ~Separator(b[j - 1]) BY <1>1, <2>5, <2>7 DEF Ends
  <2>10. Follows(b[j - 1], b[j]) BY <2>5, WindowParts
  <2>11. b[j].part = b[j - 1].part + 1 BY <2>9, <2>10 DEF Follows
  <2> QED BY <1>1, <2>2, <2>5, <2>8, <2>11
<1>3. ASSUME NEW j \in x .. Len(b), Count(b, j) = Count(b, x) PROVE b[j].part = j - x + 1
  <2>1. j \in Nat BY <1>1
  <2>2. j \notin T BY <1>2
  <2> QED BY <1>3, <2>1, <2>2
<1> QED BY <1>3

\* The j-th block of a window is the (k + j)-th event, with all of it.
LEMMA BlockShape ==
  ASSUME NEW b, NEW B, NEW q, NEW k, NEW sizes, Window(b, B, q, k, sizes),
         NEW j \in 1 .. Cardinality(Ends(b))
  PROVE  /\ k + j \in 1 .. Len(sizes)
         /\ SubSeq(b, BeginOf(b, j), EndOf(b, j)) = EventParts(k + j, sizes[k + j])
<1> DEFINE x == BeginOf(b, j)
           y == EndOf(b, j)
           n == sizes[k + j]
<1>1. b \in Seq(Parts) /\ Len(b) \in Nat /\ k \in Nat /\ sizes \in Seq(Nat \ {0}) BY DEF Window
<1>2. Cardinality(Ends(b)) \in Nat /\ Ends(b) \subseteq 1 .. Len(b) BY <1>1, CountShape
<1>3. j \in Nat /\ j >= 1 BY <1>2
<1>4. y \in Ends(b) /\ Count(b, y) = j - 1 BY <1>1, EndOfShape
<1>5. y \in 1 .. Len(b) /\ y \in Nat BY <1>1, <1>2, <1>4
<1>6. /\ x \in 1 .. Len(b) /\ x <= y /\ Count(b, x) = j - 1 /\ (x = 1 \/ x - 1 \in Ends(b))
  <2>1. CASE j = 1
    <3>1. x = 1 BY <2>1 DEF BeginOf
    <3>2. Count(b, 1) = 0 BY <1>1, CountShape
    <3> QED BY <1>1, <1>5, <2>1, <3>1, <3>2
  <2>2. CASE j # 1
    <3> DEFINE z == EndOf(b, j - 1)
    <3>1. j - 1 \in 1 .. Cardinality(Ends(b)) BY <1>2, <1>3, <2>2
    <3>2. z \in Ends(b) /\ Count(b, z) = (j - 1) - 1 BY <1>1, <3>1, EndOfShape
    <3>3. x = z + 1 BY <2>2 DEF BeginOf
    <3>4. z \in 1 .. Len(b) /\ z \in Nat BY <1>1, <1>2, <3>2
    <3> HIDE DEF x, y, z
    <3>5. Count(b, z + 1) = Count(b, z) + 1 BY <1>1, <3>2, <3>4, CountShape
    <3>6. y <= z => Count(b, y) <= Count(b, z) BY <1>1, <1>5, <3>4, CountShape
    <3>7. ~(y <= z) BY <1>3, <1>4, <3>2, <3>6
    <3>8. x \in 1 .. Len(b) /\ x <= y /\ x - 1 = z BY <1>1, <1>5, <3>3, <3>4, <3>7
    <3> QED BY <1>3, <3>2, <3>3, <3>5, <3>8
  <2> QED BY <2>1, <2>2
<1> HIDE DEF x, y
<1>7. ASSUME NEW z \in x .. y
      PROVE  z \in 1 .. Len(b) /\ b[z] = [event |-> k + j, part |-> z - x + 1, of |-> n]
  <2>1. z \in Nat /\ x \in Nat /\ z \in x .. Len(b) /\ x <= z /\ z <= y /\ z \in 1 .. Len(b) BY <1>1, <1>5, <1>6
  <2>2. /\ Count(b, x) <= Count(b, z) /\ Count(b, z) <= Count(b, y) /\ Count(b, z) \in Nat
    BY <1>1, <1>5, <2>1, CountShape
  <2>3. Count(b, z) = j - 1 /\ Count(b, z) = Count(b, x) BY <1>3, <1>4, <1>6, <2>2
  <2>4. b[z].event = k + 1 + Count(b, z) BY <2>1, WindowCount
  <2>5. b[z].event = k + j BY <1>1, <1>3, <2>3, <2>4
  <2>6. b[z].part = z - x + 1 BY <1>6, <2>1, <2>3, WindowRun
  <2>7. b[z].of = sizes[b[z].event] BY <2>1, WindowParts
  <2>8. b[z] \in Parts BY <1>1, <2>1
  <2>9. b[z] = [event |-> b[z].event, part |-> b[z].part, of |-> b[z].of] BY <2>8 DEF Parts
  <2> QED BY <2>1, <2>5, <2>6, <2>7, <2>9
<1>8. k + j \in 1 .. Len(sizes) /\ n \in Nat \ {0} /\ y - x + 1 = n
  <2>1. y \in x .. y /\ y \in 1 .. Len(b) BY <1>1, <1>5, <1>6
  <2>2. b[y] = [event |-> k + j, part |-> y - x + 1, of |-> n] BY <1>7, <2>1
  <2>3. b[y].event = k + j /\ b[y].part = y - x + 1 /\ b[y].of = n BY <2>2
  <2>4. b[y].event \in 1 .. Len(sizes) /\ b[y].of \in Nat \ {0} BY <2>1, WindowParts
  <2>5. Separator(b[y]) BY <1>4 DEF Ends
  <2> QED BY <2>3, <2>4, <2>5 DEF Separator
<1>9. SubSeq(b, x, y) = EventParts(k + j, n)
  <2> DEFINE s == SubSeq(b, x, y)
             E == EventParts(k + j, n)
  <2>1. x \in Int /\ y \in Int /\ \A i \in x .. y : b[i] \in Parts BY <1>1, <1>5, <1>6, <1>7
  <2>2. /\ s \in Seq(Parts) /\ Len(s) = IF x <= y THEN y - x + 1 ELSE 0
        /\ \A i \in 1 .. y - x + 1 : s[i] = b[x + i - 1]
    BY <2>1, SubSeqProperties
  <2>3. /\ E \in Seq(Parts) /\ Len(E) = n
        /\ \A i \in 1 .. n : E[i] = [event |-> k + j, part |-> i, of |-> n]
    <3>1. k + j \in Nat BY <1>1, <1>3
    <3> HIDE DEF n
    <3> QED BY <1>8, <3>1, EventPartsShape
  <2> HIDE DEF s, E, n
  <2>4. Len(s) = n BY <1>6, <1>8, <2>2
  <2>5. ASSUME NEW i \in 1 .. n PROVE s[i] = E[i]
    <3>1. i \in 1 .. y - x + 1 /\ x + i - 1 \in x .. y /\ (x + i - 1) - x + 1 = i BY <1>1, <1>5, <1>6, <1>8
    <3>2. s[i] = b[x + i - 1] BY <2>2, <3>1
    <3>3. b[x + i - 1] = [event |-> k + j, part |-> i, of |-> n] BY <1>7, <3>1
    <3> QED BY <2>3, <3>2, <3>3
  <2>6. s = E BY <2>2, <2>3, <2>4, <2>5, SeqEqual
  <2> QED BY <2>6 DEF s, E
<1> QED BY <1>8, <1>9 DEF x, y, n

\* A window without a separator is shorter than its event.
LEMMA WindowShort ==
  ASSUME NEW b, NEW B, NEW q, NEW k, NEW sizes, Window(b, B, q, k, sizes), Ends(b) = {}, Len(b) > 0
  PROVE  k + 1 \in 1 .. Len(sizes) /\ Len(b) < sizes[k + 1]
<1>1. b \in Seq(Parts) /\ Len(b) \in Nat /\ k \in Nat BY DEF Window
<1> DEFINE n == Len(b)
<1>2. n \in 1 .. Len(b) /\ 1 \in 1 .. Len(b) /\ n \in 1 .. n BY <1>1
<1>n. n = Len(b) OBVIOUS
<1> HIDE DEF n
<1>3. Count(b, n) = 0 /\ Count(b, 1) = 0
  <2>1. \A i : {j \in Ends(b) : j < i} = {} OBVIOUS
  <2> QED BY <2>1, FS_EmptySet DEF Count
<1>4. b[n].event = k + 1 BY <1>1, <1>2, <1>3, WindowCount
<1>5. b[n].part = n - 1 + 1 BY <1>2, <1>3, WindowRun
<1>6. /\ b[n].event \in 1 .. Len(sizes) /\ b[n].of = sizes[b[n].event]
      /\ b[n].of \in Nat \ {0} /\ b[n].part \in 1 .. b[n].of
  BY <1>2, WindowParts
<1>7. ~Separator(b[n]) BY <1>1, <1>2 DEF Ends
<1>8. n < sizes[k + 1] /\ k + 1 \in 1 .. Len(sizes) BY <1>1, <1>2, <1>4, <1>5, <1>6, <1>7 DEF Separator
<1> QED BY <1>8 DEF n

\* What remains is a window that begins with the event after the blocks and has no
\* separator.
LEMMA RemainingShape ==
  ASSUME NEW b, NEW B, NEW q, NEW k, NEW sizes, Window(b, B, q, k, sizes)
  PROVE  \E x \in 0 .. Len(b) :
           /\ Window(Remaining(b), B, q + x, k + Cardinality(Ends(b)), sizes)
           /\ Len(Remaining(b)) = Len(b) - x /\ Ends(Remaining(b)) = {}
<1> DEFINE x == IF Ends(b) = {} THEN 0 ELSE Max(Ends(b))
           r == SubSeq(b, x + 1, Len(b))
           M == Cardinality(Ends(b))
<1>1. /\ sizes \in Seq(Nat \ {0}) /\ IsBody(B, sizes, Len(sizes))
      /\ b \in Seq(Parts) /\ q \in Nat /\ k \in Nat /\ q + Len(b) <= Len(B)
      /\ \A i \in 1 .. Len(b) : b[i] = B[q + i]
      /\ IF q = 0 THEN k = 0 ELSE Separator(B[q]) /\ B[q].event = k
  BY DEF Window
<1>b. Len(b) \in Nat /\ Len(B) \in Nat BY <1>1 DEF IsBody
<1>2. M \in Nat /\ Ends(b) \subseteq 1 .. Len(b) BY <1>1, CountShape
<1>3. Remaining(b) = r BY DEF Remaining
<1>4. x \in 0 .. Len(b) /\ \A i \in Ends(b) : i <= x
  <2>1. CASE Ends(b) = {} BY <1>b, <2>1
  <2>2. CASE Ends(b) # {}
    <3>1. Max(Ends(b)) \in Ends(b) /\ \A i \in Ends(b) : i <= Max(Ends(b)) BY <1>b, <1>2, <2>2, Greatest
    <3> QED BY <1>2, <1>b, <2>2, <3>1
  <2> QED BY <2>1, <2>2
<1>5. IF q + x = 0 THEN k + M = 0 ELSE Separator(B[q + x]) /\ B[q + x].event = k + M
  <2>1. CASE Ends(b) = {}
    <3>1. M = 0 /\ x = 0 BY <2>1, FS_EmptySet
    <3> HIDE DEF M, x
    <3> QED BY <1>1, <3>1
  <2>2. CASE Ends(b) # {}
    <3>1. x \in Ends(b) BY <1>b, <1>2, <2>2, Greatest
    <3> HIDE DEF x
    <3>2. x \in 1 .. Len(b) /\ x \in Nat /\ Separator(b[x]) /\ b[x] = B[q + x] BY <1>1, <1>2, <1>b, <3>1 DEF Ends
    <3>3. {i \in Ends(b) : i < x + 1} = Ends(b) BY <1>2, <1>b, <1>4, <3>2
    <3>4. Count(b, x + 1) = M BY <3>3 DEF Count
    <3>5. Count(b, x + 1) = Count(b, x) + 1 /\ Count(b, x) \in Nat BY <1>1, <3>1, <3>2, CountShape
    <3>6. b[x].event = k + 1 + Count(b, x) BY <3>2, WindowCount
    <3> HIDE DEF M
    <3> QED BY <1>1, <3>2, <3>4, <3>5, <3>6
  <2> QED BY <2>1, <2>2
<1> HIDE DEF x
<1>6. /\ r \in Seq(Parts) /\ Len(r) = Len(b) - x
      /\ \A i \in 1 .. Len(b) - x : r[i] = b[x + i] /\ x + i \in 1 .. Len(b)
  <2>1. x + 1 \in Int /\ Len(b) \in Int /\ \A i \in x + 1 .. Len(b) : b[i] \in Parts BY <1>1, <1>b, <1>4
  <2>2. /\ r \in Seq(Parts) /\ Len(r) = IF x + 1 <= Len(b) THEN Len(b) - (x + 1) + 1 ELSE 0
        /\ \A i \in 1 .. Len(b) - (x + 1) + 1 : r[i] = b[(x + 1) + i - 1]
    BY <2>1, SubSeqProperties
  <2> HIDE DEF r
  <2>3. Len(r) = Len(b) - x BY <1>b, <1>4, <2>2
  <2>4. ASSUME NEW i \in 1 .. Len(b) - x PROVE r[i] = b[x + i] /\ x + i \in 1 .. Len(b)
    <3>1. i \in 1 .. Len(b) - (x + 1) + 1 /\ (x + 1) + i - 1 = x + i /\ x + i \in 1 .. Len(b) BY <1>b, <1>4
    <3> QED BY <2>2, <3>1
  <2> QED BY <2>2, <2>3, <2>4
<1> HIDE DEF r, M
<1>7. Window(r, B, q + x, k + M, sizes)
  <2>1. q + x \in Nat /\ k + M \in Nat /\ (q + x) + Len(r) <= Len(B) BY <1>1, <1>b, <1>2, <1>4, <1>6
  <2>2. ASSUME NEW i \in 1 .. Len(r) PROVE r[i] = B[(q + x) + i]
    <3>1. r[i] = b[x + i] /\ x + i \in 1 .. Len(b) BY <1>6
    <3>2. q + (x + i) = (q + x) + i BY <1>1, <1>b, <1>4, <1>6
    <3> QED BY <1>1, <3>1, <3>2
  <2> QED BY <1>1, <1>5, <1>6, <2>1, <2>2 DEF Window
<1>8. Ends(r) = {}
  <2> SUFFICES ASSUME NEW i \in Ends(r) PROVE FALSE OBVIOUS
  <2>1. i \in 1 .. Len(b) - x /\ Separator(r[i]) BY <1>6 DEF Ends
  <2>2. x + i \in Ends(b) BY <1>1, <1>6, <2>1 DEF Ends
  <2>3. x + i <= x BY <1>4, <2>2
  <2> QED BY <1>b, <1>4, <2>1, <2>3
<1> QED BY <1>3, <1>4, <1>6, <1>7, <1>8 DEF M

\* Blocks and Remaining cut any buffer into sequences of parts.
LEMMA BlocksType ==
  ASSUME NEW b \in Seq(Parts)
  PROVE  /\ Blocks(b) \in Seq(Seq(Parts)) /\ Len(Blocks(b)) = Cardinality(Ends(b))
         /\ \A j \in 1 .. Cardinality(Ends(b)) : Blocks(b)[j] = SubSeq(b, BeginOf(b, j), EndOf(b, j))
<1> DEFINE M == Cardinality(Ends(b))
           blocks == [j \in 1 .. M |-> SubSeq(b, BeginOf(b, j), EndOf(b, j))]
<1>0. Len(b) \in Nat OBVIOUS
<1>1. M \in Nat /\ Ends(b) \subseteq 1 .. Len(b) /\ Len(b) \in Nat BY <1>0, CountShape
<1>2. ASSUME NEW j \in 1 .. M PROVE SubSeq(b, BeginOf(b, j), EndOf(b, j)) \in Seq(Parts)
  <2>1. EndOf(b, j) \in 1 .. Len(b) BY <1>1, EndOfShape
  <2>2. BeginOf(b, j) \in Nat \ {0}
    <3>1. CASE j = 1 BY <3>1 DEF BeginOf
    <3>2. CASE j # 1
      <4>1. j - 1 \in 1 .. M BY <1>1, <3>2
      <4>2. EndOf(b, j - 1) \in 1 .. Len(b) BY <1>1, <4>1, EndOfShape
      <4> QED BY <3>2, <4>2 DEF BeginOf
    <3> QED BY <3>1, <3>2
  <2>3. \A i \in BeginOf(b, j) .. EndOf(b, j) : b[i] \in Parts BY <1>1, <2>1, <2>2
  <2>4. BeginOf(b, j) \in Int /\ EndOf(b, j) \in Int BY <2>1, <2>2
  <2> QED BY <2>3, <2>4, SubSeqProperties
<1>3. Blocks(b) = blocks BY BlocksUnfold
<1> HIDE DEF M
<1>4. blocks \in [1 .. M -> Seq(Parts)] /\ \A j \in 1 .. M : blocks[j] = SubSeq(b, BeginOf(b, j), EndOf(b, j))
  BY <1>2
<1> HIDE DEF blocks
<1>5. blocks \in Seq(Seq(Parts)) /\ Len(blocks) = M BY <1>1, <1>4
<1> QED BY <1>3, <1>4, <1>5 DEF M

\* What remains of any buffer is no longer than it.
LEMMA RemainingType ==
  ASSUME NEW b \in Seq(Parts)
  PROVE  Remaining(b) \in Seq(Parts) /\ Len(Remaining(b)) <= Len(b)
<1> DEFINE x == IF Ends(b) = {} THEN 0 ELSE Max(Ends(b))
<1>0. Len(b) \in Nat OBVIOUS
<1>1. Ends(b) \subseteq 1 .. Len(b) /\ Len(b) \in Nat BY <1>0, CountShape
<1>2. x \in 0 .. Len(b)
  <2>1. Ends(b) # {} => Max(Ends(b)) \in Ends(b) BY <1>1, Greatest
  <2> QED BY <1>1, <2>1
<1>3. Remaining(b) = SubSeq(b, x + 1, Len(b)) BY DEF Remaining
<1> HIDE DEF x
<1>4. x + 1 \in Int /\ Len(b) \in Int /\ \A i \in x + 1 .. Len(b) : b[i] \in Parts BY <1>1, <1>2
<1>5. /\ SubSeq(b, x + 1, Len(b)) \in Seq(Parts)
      /\ Len(SubSeq(b, x + 1, Len(b))) = IF x + 1 <= Len(b) THEN Len(b) - (x + 1) + 1 ELSE 0
  BY <1>4, SubSeqProperties
<1> QED BY <1>1, <1>2, <1>3, <1>5

-----------------------------------------------------------------------------
(* The inductive invariant: of a request, and of the threads.              *)

Context ==
  [async : BOOLEAN, answer : Answers \cup {NoAnswer}, todo : Seq(Parts), conn : ConnState,
   isSse : BOOLEAN, completed : BOOLEAN, code : Nat, result : Nat, sse : Seq(Parts),
   events : Seq(Seq(Parts)), cut : BOOLEAN, body : Seq(Parts), ends : Seq({"complete", "error"})]

\* How much of the body has been received.
Position(r) == Len(BodyOf(r.answer)) - Len(r.todo)

\* The connection: whose answer, and is is_sse right when the body arrives?
Opened(r) ==
  /\ r.conn # "none" => r.answer \in Answers
  /\ r.conn \in {"answered", "open"} => r.isSse = r.answer.sse

\* What has not been received is the rest of the body.
Received(r) ==
  /\ Len(r.todo) <= Len(BodyOf(r.answer))
  /\ \A i \in 1 .. Len(r.todo) : r.todo[i] = BodyOf(r.answer)[Position(r) + i]

\* The callbacks got the first events, and sse begins the next one, behind the first q
\* parts of the body.
Delivering(sse, events, B, sizes, q) ==
  /\ events \in Seq(Seq(Parts)) /\ q \in Nat
  /\ Window(sse, B, q, Len(events), sizes) /\ Len(events) <= Len(sizes)
  /\ \A e \in 1 .. Len(events) : events[e] = EventParts(e, sizes[e])
\* f comes in behind the first p parts of the body.
Incoming(f, B, p) ==
  /\ f \in Seq(Parts) /\ p \in Nat /\ p + Len(f) <= Len(B)
  /\ \A i \in 1 .. Len(f) : f[i] = B[p + i]

\* A stream whose events fit: sse->buffer ends where the body has been received.
Streamed(r) ==
  r.answer.sse /\ Fits(r.answer) =>
    /\ Len(r.sse) <= Position(r) /\ Ends(r.sse) = {}
    /\ Delivering(r.sse, r.events, BodyOf(r.answer), r.answer.sizes, Position(r) - Len(r.sse))

\* response_body is what has been received, until it becomes too large.
Copied(r) ==
  /\ ~r.async
  /\ ~r.answer.sse \/ Fits(r.answer)
  /\ r.conn \notin {"done", "closed"} \/ "complete" \in Range(r.ends)
  => /\ Len(r.body) = Position(r)
     /\ \A i \in 1 .. Len(r.body) : r.body[i] = BodyOf(r.answer)[i]

\* A request that has ended has nothing to do with its connection any more.
Ended(r) ==
  /\ r.ends # <<>> \/ r.completed => r.conn \in {"done", "closed"}
  /\ "complete" \in Range(r.ends) => r.todo = <<>>

RequestInv(r) ==
  /\ Opened(r) /\ Received(r) /\ Streamed(r) /\ Copied(r) /\ Ended(r) /\ Len(r.sse) <= SseSize

PlaceInv(t) ==
  /\ at[t] \in {"sent", "head", "service", "copy"} => req[t].conn # "none"
  /\ at[t] = "copy" => req[t].conn = "answered"

HttpInv ==
  /\ interrupted \in BOOLEAN /\ nreq \in 0 .. MaxReqs
  /\ status \in {0} \cup {a.status : a \in Answers}
  /\ at \in [Threads -> Places] /\ req \in [Threads -> Context]
  /\ \A t \in Threads : RequestInv(req[t]) /\ PlaceInv(t)
  /\ SyncAnswered

-----------------------------------------------------------------------------
(* What a step does to a request.                                          *)

\* Answers are well formed, the one of a context without a request as well.
LEMMA AnswerTypes ==
  ASSUME NEW a \in Answers \cup {NoAnswer}
  PROVE  /\ a.status \in Nat /\ a.sse \in BOOLEAN /\ a.sizes \in Seq(Nat \ {0})
         /\ IsBody(BodyOf(a), a.sizes, Len(a.sizes))
         /\ BodyOf(a) \in Seq(Parts) /\ Len(BodyOf(a)) \in Nat
<1>1. a.status \in Nat /\ a.sse \in BOOLEAN /\ a.sizes \in Seq(Nat \ {0})
  <2>1. CASE a \in Answers
    <3>1. a.status \in 200 .. 599 /\ a.sse \in BOOLEAN /\ a.sizes \in Seq(Nat \ {0}) BY <2>1, HttpAssumption
    <3>2. a.status \in Nat
      <4>1. \A x \in 200 .. 599 : x \in Nat OBVIOUS
      <4> QED BY <3>1, <4>1, Zenon
    <3> QED BY <3>1, <3>2, Zenon
  <2>2. CASE a = NoAnswer
    <3>1. a.status = 200 /\ a.sse = FALSE /\ a.sizes = <<>> BY <2>2 DEF NoAnswer
    <3>2. 200 \in Nat /\ <<>> \in Seq(Nat \ {0}) OBVIOUS
    <3> QED BY <3>1, <3>2, Zenon
  <2> QED BY <2>1, <2>2
<1>2. IsBody(BodyOf(a), a.sizes, Len(a.sizes)) BY <1>1, BodyShape
<1>3. BodyOf(a) \in Seq(Parts) BY <1>2 DEF IsBody
<1> QED BY <1>1, <1>2, <1>3

\* The smaller of two numbers.
LEMMA MinTwo ==
  ASSUME NEW x \in Int, NEW y \in Int
  PROVE  Min({x, y}) = IF x <= y THEN x ELSE y
<1>1. \E z \in {x, y} : \A w \in {x, y} : z =< w BY Z3
<1>2. Min({x, y}) \in {x, y} /\ \A w \in {x, y} : Min({x, y}) =< w BY <1>1 DEF Min
<1> QED BY <1>2

\* A request that has received what r had: only the connection has changed.
LEMMA SameStream ==
  ASSUME NEW r, NEW s, RequestInv(r), s.answer = r.answer, s.todo = r.todo, s.sse = r.sse,
         s.events = r.events
  PROVE  Received(s) /\ Streamed(s) /\ Len(s.sse) <= SseSize
BY DEF RequestInv, Received, Streamed, Position

\* new_http_ctx
LEMMA NewInv ==
  ASSUME NEW r, NEW a \in Answers \cup {NoAnswer}, r.answer = a, r.todo = BodyOf(a),
         r.sse = <<>>, r.events = <<>>, r.body = <<>>, r.ends \in {<<>>, <<"error">>},
         r.conn # "none" => a \in Answers, r.conn \notin {"answered", "open"},
         r.ends # <<>> \/ r.completed => r.conn = "closed"
  PROVE  RequestInv(r)
<1>1. /\ a.sse \in BOOLEAN /\ a.sizes \in Seq(Nat \ {0}) /\ IsBody(BodyOf(a), a.sizes, Len(a.sizes))
      /\ BodyOf(a) \in Seq(Parts) /\ Len(BodyOf(a)) \in Nat
  BY AnswerTypes
<1>2. r.answer = a /\ r.todo = BodyOf(a) /\ r.sse = <<>> /\ r.events = <<>> /\ r.body = <<>> OBVIOUS
<1>4. Position(r) = 0 /\ Len(r.sse) = 0 /\ Len(r.events) = 0 /\ Len(r.body) = 0
  BY <1>1, <1>2 DEF Position
<1>5. Received(r) BY <1>1, <1>2, <1>4 DEF Received
<1>6. Streamed(r)
  <2>1. Ends(r.sse) = {} BY <1>2 DEF Ends
  <2>2. Window(r.sse, BodyOf(a), 0, 0, a.sizes)
    <3>1. <<>> \in Seq(Parts) /\ Len(<<>>) = 0 OBVIOUS
    <3>2. 0 + 0 <= Len(BodyOf(a)) BY <1>1
    <3>3. Window(<<>>, BodyOf(a), 0, 0, a.sizes) BY <1>1, <3>1, <3>2 DEF Window
    <3> QED BY <1>2, <3>3
  <2>3. Len(a.sizes) \in Nat /\ <<>> \in Seq(Seq(Parts)) BY <1>1
  <2>4. Delivering(r.sse, r.events, BodyOf(a), a.sizes, 0)
    <3>1. Window(<<>>, BodyOf(a), 0, Len(<<>>), a.sizes) BY <1>2, <1>4, <2>2
    <3>2. Len(<<>>) <= Len(a.sizes) /\ 1 .. Len(<<>>) = {} BY <2>3
    <3>3. Delivering(<<>>, <<>>, BodyOf(a), a.sizes, 0) BY ONLY <2>3, <3>1, <3>2 DEF Delivering
    <3> QED BY <1>2, <3>3
  <2> QED BY <1>2, <1>4, <2>1, <2>4 DEF Streamed
<1>7. "complete" \notin Range(r.ends) BY DEF Range
<1>8. Copied(r) /\ Ended(r) /\ Opened(r) BY <1>2, <1>4, <1>7 DEF Copied, Ended, Opened
<1>9. Len(r.sse) <= SseSize BY <1>4, HttpAssumption
<1> QED BY <1>5, <1>6, <1>8, <1>9 DEF RequestInv

\* The part of a body that is still to come, after n more parts.
LEMMA Fragment ==
  ASSUME NEW q \in Seq(Parts), NEW n \in 1 .. Len(q)
  PROVE  LET f == SubSeq(q, 1, n)
             rest == SubSeq(q, n + 1, Len(q))
         IN  /\ f \in Seq(Parts) /\ Len(f) = n /\ \A i \in 1 .. n : f[i] = q[i]
             /\ rest \in Seq(Parts) /\ Len(rest) = Len(q) - n
             /\ \A i \in 1 .. Len(q) - n : rest[i] = q[n + i]
<1> DEFINE f == SubSeq(q, 1, n)
           rest == SubSeq(q, n + 1, Len(q))
<1>1. Len(q) \in Nat /\ n \in Nat /\ n <= Len(q) /\ n >= 1 OBVIOUS
<1>2. /\ f \in Seq(Parts) /\ Len(f) = IF 1 <= n THEN n - 1 + 1 ELSE 0
      /\ \A i \in 1 .. n - 1 + 1 : f[i] = q[1 + i - 1]
  <2>1. 1 \in Int /\ n \in Int /\ \A i \in 1 .. n : q[i] \in Parts BY <1>1
  <2> QED BY <2>1, SubSeqProperties
<1>3. /\ rest \in Seq(Parts) /\ Len(rest) = IF n + 1 <= Len(q) THEN Len(q) - (n + 1) + 1 ELSE 0
      /\ \A i \in 1 .. Len(q) - (n + 1) + 1 : rest[i] = q[(n + 1) + i - 1]
  <2>1. n + 1 \in Int /\ Len(q) \in Int /\ \A i \in n + 1 .. Len(q) : q[i] \in Parts BY <1>1
  <2> QED BY <2>1, SubSeqProperties
<1> HIDE DEF f, rest
<1>4. f \in Seq(Parts) /\ Len(f) = n /\ \A i \in 1 .. n : f[i] = q[i]
  <2>1. \A i \in 1 .. n : i \in 1 .. n - 1 + 1 /\ 1 + i - 1 = i BY <1>1
  <2> QED BY <1>1, <1>2, <2>1
<1>5. rest \in Seq(Parts) /\ Len(rest) = Len(q) - n /\ \A i \in 1 .. Len(q) - n : rest[i] = q[n + i]
  <2>1. \A i \in 1 .. Len(q) - n : i \in 1 .. Len(q) - (n + 1) + 1 /\ (n + 1) + i - 1 = n + i BY <1>1
  <2> QED BY <1>1, <1>3, <2>1
<1> QED BY <1>4, <1>5 DEF f, rest

\* The stream after a fragment that sse->buffer has taken whole.
LEMMA StreamGoesOn ==
  ASSUME NEW B, NEW sizes, NEW sse, NEW q, NEW events, NEW f, NEW p,
         Delivering(sse, events, B, sizes, q), Incoming(f, B, p), p = q + Len(sse)
  PROVE  LET left == Remaining(sse \o f)
         IN  /\ Len(left) <= p + Len(f) /\ Ends(left) = {}
             /\ Delivering(left, events \o Blocks(sse \o f), B, sizes, (p + Len(f)) - Len(left))
<1>0. /\ events \in Seq(Seq(Parts)) /\ f \in Seq(Parts) /\ p \in Nat /\ q \in Nat /\ p = q + Len(sse)
      /\ Window(sse, B, q, Len(events), sizes) /\ Len(events) <= Len(sizes)
      /\ \A e \in 1 .. Len(events) : events[e] = EventParts(e, sizes[e])
      /\ p + Len(f) <= Len(B) /\ \A i \in 1 .. Len(f) : f[i] = B[p + i]
  BY DEF Delivering, Incoming
<1> SUFFICES ASSUME NEW n \in Nat, n = Len(f), NEW b, b = sse \o f, NEW left, left = Remaining(b),
                    NEW got, got = events \o Blocks(b)
             PROVE  /\ Len(left) <= p + n /\ Ends(left) = {}
                    /\ Delivering(left, got, B, sizes, (p + n) - Len(left))
  <2>1. Len(f) \in Nat BY <1>0
  <2> QED BY <2>1
<1> DEFINE k == Len(events)
           M == Cardinality(Ends(b))
<1>1. /\ IsBody(B, sizes, Len(sizes)) /\ sse \in Seq(Parts) /\ q \in Nat /\ k \in Nat /\ sizes \in Seq(Nat \ {0})
      /\ q + Len(sse) <= Len(B) /\ \A i \in 1 .. Len(sse) : sse[i] = B[q + i]
      /\ IF q = 0 THEN k = 0 ELSE Separator(B[q]) /\ B[q].event = k
  BY <1>0 DEF Window
<1>2. /\ Len(sse) \in Nat /\ Len(f) \in Nat /\ Len(B) \in Nat /\ Len(sizes) \in Nat BY <1>0, <1>1 DEF IsBody
<1>3. /\ b \in Seq(Parts) /\ Len(b) = Len(sse) + n
      /\ \A i \in 1 .. Len(sse) + n : b[i] = IF i <= Len(sse) THEN sse[i] ELSE f[i - Len(sse)]
  BY ONLY <1>0, <1>1, b = sse \o f, n = Len(f), ConcatProperties
<1>k. k = Len(events) /\ p = q + Len(sse) /\ n = Len(f) /\ n \in Nat /\ p \in Nat /\ p + n <= Len(B) BY <1>0
<1> HIDE DEF k
<1>4. Window(b, B, q, k, sizes)
  <2>1. q + Len(b) <= Len(B) BY ONLY <1>1, <1>2, <1>3, <1>k
  <2>2. ASSUME NEW i \in 1 .. Len(b) PROVE b[i] = B[q + i]
    <3>1. CASE i <= Len(sse)
      <4>1. i \in 1 .. Len(sse) BY <1>2, <3>1
      <4> QED BY <1>1, <1>3, <3>1, <4>1
    <3>2. CASE ~(i <= Len(sse))
      <4>1. i - Len(sse) \in 1 .. n /\ p + (i - Len(sse)) = q + i BY <1>1, <1>2, <1>3, <1>k, <3>2
      <4>2. b[i] = f[i - Len(sse)] BY <1>3, <3>2
      <4> QED BY <1>0, <1>k, <4>1, <4>2
    <3> QED BY <3>1, <3>2
  <2>3. k \in Nat /\ sizes \in Seq(Nat \ {0}) BY <1>1
  <2> QED BY <1>1, <1>3, <2>1, <2>2 DEF Window
<1>5. PICK x \in 0 .. Len(b) : /\ Window(left, B, q + x, k + M, sizes)
                               /\ Len(left) = Len(b) - x /\ Ends(left) = {}
  BY <1>4, RemainingShape
<1>6. M \in Nat /\ Blocks(b) \in Seq(Seq(Parts)) /\ Len(Blocks(b)) = M
      /\ \A j \in 1 .. M : Blocks(b)[j] = SubSeq(b, BeginOf(b, j), EndOf(b, j))
  BY <1>3, BlocksType, CountShape
<1>7. /\ got \in Seq(Seq(Parts)) /\ Len(got) = k + M
      /\ \A e \in 1 .. k + M : got[e] = IF e <= k THEN events[e] ELSE Blocks(b)[e - k]
  <2>1. /\ got \in Seq(Seq(Parts)) /\ Len(got) = Len(events) + Len(Blocks(b))
        /\ \A e \in 1 .. Len(events) + Len(Blocks(b)) :
             got[e] = IF e <= Len(events) THEN events[e] ELSE Blocks(b)[e - Len(events)]
    <3>1. events \in Seq(Seq(Parts)) /\ Blocks(b) \in Seq(Seq(Parts)) BY <1>0, <1>6
    <3> QED BY ONLY <3>1, got = events \o Blocks(b), ConcatProperties
  <2> HIDE DEF M
  <2> QED BY <1>6, <1>k, <2>1
<1> HIDE DEF M
<1>n. k \in Nat /\ M \in Nat BY <1>1, <1>6
<1>8. ASSUME NEW e \in 1 .. k + M PROVE e <= Len(sizes) /\ got[e] = EventParts(e, sizes[e])
  <2>1. CASE e <= k
    <3>1. e \in 1 .. Len(events) /\ e <= Len(sizes) BY <1>0, <1>2, <1>n, <1>k, <2>1
    <3>2. got[e] = events[e] BY <1>7, <2>1
    <3> QED BY <1>0, <3>1, <3>2
  <2>2. CASE ~(e <= k)
    <3> DEFINE j == e - k
    <3>1. j \in 1 .. M /\ k + j = e BY <1>n, <2>2
    <3>3. got[e] = Blocks(b)[j] BY <1>7, <2>2
    <3> HIDE DEF j
    <3>2. /\ k + j \in 1 .. Len(sizes)
          /\ SubSeq(b, BeginOf(b, j), EndOf(b, j)) = EventParts(k + j, sizes[k + j])
      <4>1. j \in 1 .. Cardinality(Ends(b)) BY <3>1 DEF M
      <4> QED BY ONLY <1>4, <4>1, BlockShape, SMTT(60)
    <3>4. Blocks(b)[j] = SubSeq(b, BeginOf(b, j), EndOf(b, j)) BY <1>6, <3>1
    <3>5. e <= Len(sizes) BY <1>2, <3>1, <3>2
    <3> QED BY <3>1, <3>2, <3>3, <3>4, <3>5
  <2> QED BY <2>1, <2>2
<1>9. Len(got) <= Len(sizes)
  <2>1. CASE M = 0 BY <1>0, <1>n, <1>2, <1>7, <1>k, <2>1
  <2>2. CASE M # 0
    <3>1. k + M \in 1 .. k + M BY <1>n, <2>2
    <3> QED BY <1>7, <1>8, <3>1
  <2> QED BY <2>1, <2>2
<1>10. Len(left) <= p + n /\ q + x = (p + n) - Len(left) BY <1>1, <1>2, <1>3, <1>5, <1>k
<1>11. Window(left, B, (p + n) - Len(left), Len(got), sizes) BY <1>5, <1>7, <1>10
<1>12. (p + n) - Len(left) \in Nat
  <2>1. Len(left) \in Nat BY <1>11 DEF Window
  <2> QED BY <1>10, <1>k, <2>1
<1> QED BY <1>5, <1>7, <1>8, <1>9, <1>10, <1>11, <1>12 DEF Delivering

\* The context behind RECEIVE_CLIENT_HTTP_READ of a fragment of n parts, of which f was
\* taken and b is the buffer then.
AfterRead(r, n, fragment, f, b) ==
  [r EXCEPT
     !.todo   = SubSeq(@, n + 1, Len(@)),
     !.sse    = IF r.isSse THEN Remaining(b) ELSE @,
     !.events = IF r.isSse THEN @ \o Blocks(b) ELSE @,
     !.cut    = @ \/ f # fragment,
     !.body   = IF Stored(r) /\ ~TooLarge(r, f) THEN @ \o f ELSE @,
     !.conn   = IF TooLarge(r, f) THEN "done" ELSE @]

\* RECEIVE_CLIENT_HTTP_READ
LEMMA ReadInv ==
  ASSUME NEW r \in Context, RequestInv(r), r.conn = "open", NEW n \in 1 .. MaxFrag, n <= Len(r.todo),
         NEW fragment, fragment = SubSeq(r.todo, 1, n),
         NEW f, f = IF r.isSse THEN Taken(r, fragment) ELSE fragment,
         NEW b, b = r.sse \o f,
         NEW s, s = AfterRead(r, n, fragment, f, b)
  PROVE  s \in Context /\ RequestInv(s) /\ s.conn # "none"
<1> DEFINE B == BodyOf(r.answer)
           p == Position(r)
           rest == SubSeq(r.todo, n + 1, Len(r.todo))
<1>r. /\ r.answer \in Answers \cup {NoAnswer} /\ r.todo \in Seq(Parts) /\ r.sse \in Seq(Parts)
      /\ r.events \in Seq(Seq(Parts)) /\ r.body \in Seq(Parts) /\ r.ends \in Seq({"complete", "error"})
  BY DEF Context
<1>i. r.isSse \in BOOLEAN /\ r.async \in BOOLEAN BY DEF Context
<1>a. /\ r.answer.sse \in BOOLEAN /\ r.answer.sizes \in Seq(Nat \ {0}) /\ B \in Seq(Parts) /\ Len(B) \in Nat
  BY <1>r, AnswerTypes
<1>n. n \in Nat /\ n >= 1 /\ n <= MaxFrag /\ MaxFrag \in Nat /\ SseSize \in Nat /\ n \in 1 .. Len(r.todo) /\ Len(r.todo) \in Nat
  BY <1>r, HttpAssumption
<1>1. /\ fragment \in Seq(Parts) /\ Len(fragment) = n /\ \A i \in 1 .. n : fragment[i] = r.todo[i]
      /\ rest \in Seq(Parts) /\ Len(rest) = Len(r.todo) - n
      /\ \A i \in 1 .. Len(r.todo) - n : rest[i] = r.todo[n + i]
  BY <1>r, <1>n, Fragment
<1>2. /\ p \in Nat /\ p = Len(B) - Len(r.todo) /\ p + n <= Len(B)
      /\ \A i \in 1 .. Len(r.todo) : r.todo[i] = B[p + i]
  <2>1. p = Len(B) - Len(r.todo) BY DEF Position
  <2>2. Len(r.todo) <= Len(B) /\ \A i \in 1 .. Len(r.todo) : r.todo[i] = B[p + i] BY DEF RequestInv, Received
  <2> HIDE DEF p, B
  <2>3. p \in Nat /\ p + n <= Len(B) BY <1>a, <1>n, <2>1, <2>2
  <2> QED BY <2>1, <2>2, <2>3
<1>3. /\ s.async = r.async /\ s.answer = r.answer /\ s.todo = rest
      /\ s.isSse = r.isSse /\ s.completed = r.completed
      /\ s.sse = IF r.isSse THEN Remaining(b) ELSE r.sse
      /\ s.events = IF r.isSse THEN r.events \o Blocks(b) ELSE r.events
      /\ s.body = IF Stored(r) /\ ~TooLarge(r, f) THEN r.body \o f ELSE r.body
      /\ s.conn = IF TooLarge(r, f) THEN "done" ELSE "open"
      /\ s.ends = r.ends
  BY DEF Context, AfterRead, rest
<1>4. r.isSse = r.answer.sse /\ r.ends = <<>> /\ ~r.completed /\ r.answer \in Answers
      /\ Len(r.sse) <= SseSize
  BY DEF RequestInv, Opened, Ended
<1> HIDE DEF B, p, rest
<1>l. Len(r.sse) \in Nat BY <1>r
<1>5. /\ f \in Seq(Parts) /\ Len(f) \in Nat /\ (r.isSse => Len(r.sse) + Len(f) <= SseSize)
      /\ (r.isSse => (Len(r.sse) + n <= SseSize => f = fragment)) /\ (~r.isSse => f = fragment)
  <2>1. CASE ~r.isSse BY <1>1, <1>n, <2>1
  <2>2. CASE r.isSse
    <3> DEFINE room == SseSize - Len(r.sse)
               m == IF n <= room THEN n ELSE room
    <3>1. room \in Nat BY <1>4, <1>l, <1>n
    <3>2. Min({n, room}) = m
      <4> HIDE DEF room
      <4>1. n \in Int /\ room \in Int BY <1>n, <3>1
      <4> QED BY <4>1, MinTwo
    <3>3. f = SubSeq(fragment, 1, m) BY <1>1, <2>2, <3>2 DEF Taken
    <3>4. m \in Nat /\ m <= n /\ m <= room
      <4> HIDE DEF room
      <4>1. n \in Nat /\ room \in Nat BY <1>n, <3>1
      <4> QED BY ONLY <4>1
    <3>5. 1 \in Int /\ m \in Int /\ \A i \in 1 .. m : fragment[i] \in Parts BY <1>1, <3>4
    <3>6. f \in Seq(Parts) /\ Len(f) = IF 1 <= m THEN m - 1 + 1 ELSE 0
      <4> HIDE DEF m
      <4>1. /\ SubSeq(fragment, 1, m) \in Seq(Parts)
            /\ Len(SubSeq(fragment, 1, m)) = IF 1 <= m THEN m - 1 + 1 ELSE 0
        BY ONLY <3>5, SubSeqProperties
      <4> QED BY <3>3, <4>1
    <3>7. Len(f) = m
      <4> HIDE DEF m
      <4> QED BY <3>4, <3>6
    <3>8. Len(r.sse) + n <= SseSize => f = fragment
      <4>1. Len(r.sse) + n <= SseSize => m = n BY <1>l, <1>n
      <4>2. SubSeq(fragment, 1, n) = fragment BY <1>1, SubSeqFull
      <4> QED BY <3>3, <4>1, <4>2
    <3>9. Len(r.sse) + Len(f) <= SseSize
      <4>1. m <= SseSize - Len(r.sse) /\ SseSize \in Nat /\ m \in Nat BY <1>n, <3>4
      <4> HIDE DEF m
      <4> QED BY ONLY <1>l, <3>7, <4>1
    <3> QED BY <2>2, <3>4, <3>6, <3>7, <3>8, <3>9
  <2> QED BY <1>i, <2>1, <2>2
<1>6. b \in Seq(Parts) /\ Len(b) = Len(r.sse) + Len(f) BY <1>5, <1>r, ConcatProperties
<1>7. /\ Remaining(b) \in Seq(Parts) /\ Len(Remaining(b)) <= Len(b) /\ Len(Remaining(b)) \in Nat
      /\ Blocks(b) \in Seq(Seq(Parts))
  <2>1. Remaining(b) \in Seq(Parts) /\ Len(Remaining(b)) <= Len(b) BY <1>6, RemainingType
  <2>2. Blocks(b) \in Seq(Seq(Parts)) BY <1>6, BlocksType
  <2>3. Len(Remaining(b)) \in Nat BY <2>1
  <2> QED BY <2>1, <2>2, <2>3
<1>8. s \in Context
  <2>1. /\ SubSeq(r.todo, n + 1, Len(r.todo)) \in Seq(Parts)
        /\ (IF r.isSse THEN Remaining(b) ELSE r.sse) \in Seq(Parts)
        /\ (IF r.isSse THEN r.events \o Blocks(b) ELSE r.events) \in Seq(Seq(Parts))
        /\ (IF Stored(r) /\ ~TooLarge(r, f) THEN r.body \o f ELSE r.body) \in Seq(Parts)
        /\ (IF TooLarge(r, f) THEN "done" ELSE r.conn) \in ConnState
    BY <1>1, <1>5, <1>7, <1>r DEF rest, ConnState
  <2>2. s = [async |-> r.async, answer |-> r.answer, todo |-> SubSeq(r.todo, n + 1, Len(r.todo)),
             conn |-> IF TooLarge(r, f) THEN "done" ELSE r.conn, isSse |-> r.isSse,
             completed |-> r.completed, code |-> r.code, result |-> r.result,
             sse |-> IF r.isSse THEN Remaining(b) ELSE r.sse,
             events |-> IF r.isSse THEN r.events \o Blocks(b) ELSE r.events,
             cut |-> (r.cut \/ f # fragment),
             body |-> IF Stored(r) /\ ~TooLarge(r, f) THEN r.body \o f ELSE r.body, ends |-> r.ends]
    BY DEF Context, AfterRead
  <2>3. /\ r.completed \in BOOLEAN /\ r.code \in Nat /\ r.result \in Nat
        /\ (r.cut \/ f # fragment) \in BOOLEAN
    BY DEF Context
  <2> QED BY ONLY <1>i, <1>r, <2>1, <2>2, <2>3, Zenon DEF Context
<1>m. p \in Nat /\ p + n <= Len(B) /\ p = Len(B) - Len(r.todo) BY <1>2
<1>9. Len(s.sse) <= SseSize
  <2>1. CASE r.isSse
    <3>1. s.sse = Remaining(b) BY <1>3, <2>1
    <3>2. Len(r.sse) + Len(f) <= SseSize BY <1>5, <2>1
    <3> QED BY ONLY <1>5, <1>6, <1>7, <1>l, <1>n, <3>1, <3>2
  <2>2. CASE ~r.isSse BY ONLY <1>3, <1>4, <2>2
  <2> QED BY <1>i, <2>1, <2>2
<1>10. Position(s) = p + n /\ Len(s.todo) = Len(r.todo) - n
  <2>1. Len(s.todo) = Len(r.todo) - n BY <1>1, <1>3
  <2>2. Position(s) = Len(B) - Len(s.todo) BY <1>3 DEF Position, B
  <2>3. Len(B) \in Nat BY <1>a DEF B
  <2> QED BY ONLY <1>m, <1>n, <2>1, <2>2, <2>3
<1>11. Received(s)
  <2>1. ASSUME NEW i \in 1 .. Len(s.todo) PROVE s.todo[i] = B[(p + n) + i]
    <3>1. i \in 1 .. Len(r.todo) - n /\ n + i \in 1 .. Len(r.todo) /\ p + (n + i) = (p + n) + i
      BY ONLY <1>m, <1>10, <1>n, i \in 1 .. Len(s.todo)
    <3> QED BY <1>1, <1>2, <1>3, <3>1
  <2>2. Len(s.todo) <= Len(B) BY <1>2, <1>10, <1>n
  <2> QED BY <1>3, <1>10, <2>1, <2>2 DEF Received, B
<1>g. \A i \in 1 .. n : fragment[i] = B[p + i]
  <2>1. \A i \in 1 .. n : i \in 1 .. Len(r.todo) BY <1>n
  <2> QED BY <1>1, <1>2, <2>1
<1>w. ASSUME r.answer.sse, Fits(r.answer)
      PROVE  /\ f = fragment /\ Len(r.sse) <= p
             /\ Delivering(r.sse, r.events, B, r.answer.sizes, p - Len(r.sse))
  <2>0. /\ Len(r.sse) <= p /\ Ends(r.sse) = {}
        /\ Delivering(r.sse, r.events, B, r.answer.sizes, p - Len(r.sse))
    BY <1>w DEF RequestInv, Streamed, B, p
  <2>1. Ends(r.sse) = {} /\ Window(r.sse, B, p - Len(r.sse), Len(r.events), r.answer.sizes)
    BY <2>0 DEF Delivering
  <2>2. Len(r.sse) + n <= SseSize
    <3>1. PICK e \in DOMAIN r.answer.sizes : Len(r.sse) <= r.answer.sizes[e] - 1
      <4>0. DOMAIN r.answer.sizes = 1 .. Len(r.answer.sizes)
            /\ \A e \in 1 .. Len(r.answer.sizes) : r.answer.sizes[e] \in Nat \ {0}
        BY <1>a
      <4>1. CASE Len(r.sse) > 0
        <5> DEFINE e == Len(r.events) + 1
        <5>1. e \in 1 .. Len(r.answer.sizes) /\ Len(r.sse) < r.answer.sizes[e]
          BY <2>1, <4>1, WindowShort
        <5> HIDE DEF e
        <5>2. r.answer.sizes[e] \in Nat BY <4>0, <5>1
        <5> QED BY <1>l, <4>0, <5>1, <5>2
      <4>2. CASE Len(r.sse) = 0
        <5>1. Len(r.answer.sizes) # 0
          <6>1. IsBody(B, r.answer.sizes, Len(r.answer.sizes)) BY <2>1 DEF Window
          <6>2. Len(B) > 0 BY <1>2, <1>a, <1>n
          <6> QED BY <6>1, <6>2 DEF IsBody
        <5>2. 1 \in 1 .. Len(r.answer.sizes) BY <1>a, <5>1
        <5>3. r.answer.sizes[1] \in Nat \ {0} BY <4>0, <5>2
        <5>4. Len(r.sse) <= r.answer.sizes[1] - 1 BY <4>2, <5>3
        <5> QED BY <4>0, <5>2, <5>4
      <4> QED BY <1>l, <4>1, <4>2
    <3>2. r.answer.sizes[e] - 1 + MaxFrag <= SseSize BY <1>w DEF Fits
    <3>3. r.answer.sizes[e] \in Nat BY <1>a
    <3> QED BY <1>l, <1>n, <3>1, <3>2, <3>3
  <2>3. f = fragment BY <1>4, <1>5, <1>w, <2>2
  <2> QED BY <2>0, <2>3
<1>12. Streamed(s)
  <2> SUFFICES ASSUME r.answer.sse, Fits(r.answer)
               PROVE  /\ Len(s.sse) <= p + n /\ Ends(s.sse) = {}
                      /\ Delivering(s.sse, s.events, B, r.answer.sizes, (p + n) - Len(s.sse))
    BY <1>3, <1>10 DEF Streamed, B
  <2>1. s.sse = Remaining(r.sse \o f) /\ s.events = r.events \o Blocks(r.sse \o f) BY <1>3, <1>4
  <2>2. Len(f) = n /\ Incoming(f, B, p) BY <1>1, <1>5, <1>g, <1>m, <1>w DEF Incoming
  <2> DEFINE q == p - Len(r.sse)
  <2>3. p = q + Len(r.sse) BY <1>l, <1>m
  <2>4. Delivering(r.sse, r.events, B, r.answer.sizes, q) BY <1>w
  <2> HIDE DEF q
  <2> QED BY ONLY <2>1, <2>2, <2>3, <2>4, StreamGoesOn
<1>13. Copied(s)
  <2> SUFFICES ASSUME ~r.async, ~r.answer.sse \/ Fits(r.answer), s.conn \notin {"done", "closed"}
               PROVE  Len(s.body) = p + n /\ \A i \in 1 .. Len(s.body) : s.body[i] = B[i]
    <3>1. "complete" \notin Range(s.ends) BY <1>3, <1>4 DEF Range
    <3> QED BY <1>3, <1>10, <3>1 DEF Copied, B
  <2>1. s.body = r.body \o fragment
    <3>1. ~TooLarge(r, f) /\ Stored(r) BY <1>3 DEF Stored
    <3>2. f = fragment BY <1>4, <1>5, <1>a, <1>w
    <3> QED BY <1>3, <3>1, <3>2
  <2>2. Len(r.body) = p /\ \A i \in 1 .. Len(r.body) : r.body[i] = B[i]
    BY DEF RequestInv, Copied, B, p
  <2>3. /\ Len(s.body) = p + n
        /\ \A i \in 1 .. p + n : s.body[i] = IF i <= p THEN r.body[i] ELSE fragment[i - p]
    <3>1. /\ Len(s.body) = Len(r.body) + Len(fragment)
          /\ \A i \in 1 .. Len(r.body) + Len(fragment) :
               s.body[i] = IF i <= Len(r.body) THEN r.body[i] ELSE fragment[i - Len(r.body)]
      <4>1. fragment \in Seq(Parts) /\ r.body \in Seq(Parts) BY <1>1, <1>r
      <4> QED BY ONLY <2>1, <4>1, ConcatProperties
    <3> QED BY <1>1, <2>2, <3>1
  <2>4. ASSUME NEW i \in 1 .. p + n PROVE s.body[i] = B[i]
    <3>1. CASE i <= p
      <4>1. i \in 1 .. Len(r.body) BY <1>2, <2>2, <3>1
      <4> QED BY <2>2, <2>3, <3>1, <4>1
    <3>2. CASE ~(i <= p)
      <4>1. i - p \in 1 .. n /\ p + (i - p) = i
        <5>1. p \in Nat /\ n \in Nat BY <1>m, <1>n
        <5> QED BY ONLY <3>2, <5>1, i \in 1 .. p + n
      <4> QED BY <1>g, <2>3, <3>2, <4>1
    <3> QED BY <3>1, <3>2
  <2> QED BY <2>3, <2>4
<1>14. Ended(s) /\ Opened(s) /\ s.conn # "none"
  <2>1. "complete" \notin Range(s.ends) BY <1>3, <1>4 DEF Range
  <2> QED BY <1>3, <1>4, <2>1 DEF Ended, Opened
<1> QED BY <1>8, <1>9, <1>11, <1>12, <1>13, <1>14 DEF RequestInv

\* The callbacks and calls that change the connection and what is known of its end.
LEMMA Marked ==
  ASSUME NEW r, NEW s, RequestInv(r), s.async = r.async, s.answer = r.answer, s.todo = r.todo,
         s.sse = r.sse, s.events = r.events, s.body = r.body,
         s.conn # "none" => r.conn # "none",
         s.conn \in {"answered", "open"} => s.isSse = r.answer.sse,
         s.ends # <<>> \/ s.completed => s.conn \in {"done", "closed"},
         "complete" \in Range(s.ends) => r.todo = <<>>,
         s.conn \notin {"done", "closed"} \/ "complete" \in Range(s.ends) =>
           r.conn \notin {"done", "closed"} \/ "complete" \in Range(r.ends)
  PROVE  RequestInv(s)
<1>1. Received(s) /\ Streamed(s) /\ Len(s.sse) <= SseSize BY SameStream
<1>2. Opened(s) BY DEF RequestInv, Opened
<1>3. Copied(s)
  <2>1. Position(s) = Position(r) BY DEF Position
  <2> QED BY <2>1 DEF RequestInv, Copied
<1>4. Ended(s) BY DEF Ended
<1> QED BY <1>1, <1>2, <1>3, <1>4 DEF RequestInv

\* A step of thread t leaves the other requests as they are.
LEMMA Frame ==
  ASSUME HttpInv, NEW t \in Threads, NEW r \in Context, RequestInv(r), NEW place \in Places,
         req' = [req EXCEPT ![t] = r], at' = [at EXCEPT ![t] = place],
         interrupted' \in BOOLEAN, interrupted => interrupted', nreq' \in 0 .. MaxReqs,
         status' \in {0} \cup {a.status : a \in Answers},
         place \in {"sent", "head", "service", "copy"} => r.conn # "none",
         place = "copy" => r.conn = "answered",
         place = "back" /\ ~r.async /\ ~interrupted' => r.conn \in {"done", "closed"}
  PROVE  HttpInv'
<1>1. at \in [Threads -> Places] /\ req \in [Threads -> Context] BY DEF HttpInv
<1>2. at' \in [Threads -> Places] /\ req' \in [Threads -> Context] BY <1>1
<1>3. ASSUME NEW u \in Threads PROVE RequestInv(req'[u]) /\ PlaceInv(u)'
  <2>1. CASE u = t
    <3>1. req'[u] = r /\ at'[u] = place BY <1>1, <2>1
    <3> QED BY <3>1 DEF PlaceInv
  <2>2. CASE u # t
    <3>1. req'[u] = req[u] /\ at'[u] = at[u] BY <1>1, <2>2
    <3> QED BY <3>1 DEF HttpInv, PlaceInv
  <2> QED BY <2>1, <2>2
<1>4. SyncAnswered'
  <2> SUFFICES ASSUME NEW u \in Threads, at'[u] = "back", ~req'[u].async, ~interrupted'
               PROVE  req'[u].conn \in {"done", "closed"}
    BY DEF SyncAnswered
  <2>1. CASE u = t
    <3>1. req'[u] = r /\ at'[u] = place BY <1>1, <2>1
    <3> QED BY <3>1
  <2>2. CASE u # t
    <3>1. req'[u] = req[u] /\ at'[u] = at[u] BY <1>1, <2>2
    <3> QED BY <3>1 DEF HttpInv, SyncAnswered
  <2> QED BY <2>1, <2>2
<1> QED BY <1>2, <1>3, <1>4 DEF HttpInv

-----------------------------------------------------------------------------
(* Every action keeps the invariant.                                       *)

\* The request of t, unfolded: what HttpInv says of it.
LEMMA OfRequest ==
  ASSUME HttpInv, NEW t \in Threads, NEW r, r = req[t]
  PROVE  /\ r \in Context /\ RequestInv(r) /\ req \in [Threads -> Context]
         /\ req = [req EXCEPT ![t] = r]
         /\ r.conn \in ConnState /\ r.isSse \in BOOLEAN /\ r.completed \in BOOLEAN /\ r.async \in BOOLEAN
         /\ r.code \in Nat /\ r.result \in Nat /\ r.ends \in Seq({"complete", "error"})
         /\ (r.conn # "none" => r.answer \in Answers)
         /\ (r.conn \in {"answered", "open"} => r.isSse = r.answer.sse)
         /\ (r.ends # <<>> \/ r.completed => r.conn \in {"done", "closed"})
         /\ ("complete" \in Range(r.ends) => r.todo = <<>>)
<1>1. r \in Context /\ RequestInv(r) /\ req \in [Threads -> Context] BY DEF HttpInv
<1>2. req = [req EXCEPT ![t] = r] BY <1>1
<1>3. /\ r.conn \in ConnState /\ r.isSse \in BOOLEAN /\ r.completed \in BOOLEAN /\ r.async \in BOOLEAN
      /\ r.code \in Nat /\ r.result \in Nat /\ r.ends \in Seq({"complete", "error"})
  BY ONLY <1>1 DEF Context
<1>4. /\ (r.conn # "none" => r.answer \in Answers)
      /\ (r.conn \in {"answered", "open"} => r.isSse = r.answer.sse)
      /\ (r.ends # <<>> \/ r.completed => r.conn \in {"done", "closed"})
      /\ ("complete" \in Range(r.ends) => r.todo = <<>>)
  BY ONLY <1>1 DEF RequestInv, Opened, Ended
<1> QED BY <1>1, <1>2, <1>3, <1>4

\* The fields of a new context have their types.
LEMMA NewType ==
  ASSUME NEW async \in BOOLEAN, NEW a \in Answers \cup {NoAnswer}, NEW conn \in ConnState,
         NEW completed \in BOOLEAN, NEW result \in Nat, NEW ends \in {<<>>, <<"error">>}
  PROVE  [async |-> async, answer |-> a, todo |-> BodyOf(a), conn |-> conn, isSse |-> FALSE,
          completed |-> completed, code |-> 0, result |-> result, sse |-> <<>>, events |-> <<>>,
          cut |-> FALSE, body |-> <<>>, ends |-> ends] \in Context
<1>1. ends \in Seq({"complete", "error"})
  <2>1. <<>> \in Seq({"complete", "error"}) /\ <<"error">> \in Seq({"complete", "error"}) OBVIOUS
  <2> QED BY <2>1
<1>2. <<>> \in Seq(Parts) /\ <<>> \in Seq(Seq(Parts)) /\ 0 \in Nat OBVIOUS
<1>3. BodyOf(a) \in Seq(Parts) BY AnswerTypes
<1> QED BY <1>1, <1>2, <1>3, Zenon DEF Context

\* http_request and http_request_async
LEMMA StartInv ==
  ASSUME HttpInv, NEW t \in Threads, NEW async \in BOOLEAN, NEW a \in Answers, Start(t, async, a)
  PROVE  HttpInv'
<1> DEFINE place == IF async THEN "sent" ELSE "head"
<1>1. PICK r : r = [NewContext(async, a) EXCEPT !.conn = "connecting"] OBVIOUS
<1>2. r \in Context /\ RequestInv(r) /\ r.conn = "connecting"
  <2>1. r = [async |-> async, answer |-> a, todo |-> BodyOf(a), conn |-> "connecting", isSse |-> FALSE,
             completed |-> FALSE, code |-> 0, result |-> 0, sse |-> <<>>, events |-> <<>>,
             cut |-> FALSE, body |-> <<>>, ends |-> <<>>]
    BY <1>1 DEF NewContext
  <2>2. "connecting" \in ConnState /\ 0 \in Nat BY DEF ConnState, BeforeAnswer
  <2>3. r \in Context BY ONLY <2>1, <2>2, async \in BOOLEAN, a \in Answers, NewType, Zenon
  <2>4. /\ r.answer = a /\ r.todo = BodyOf(a) /\ r.sse = <<>> /\ r.events = <<>> /\ r.body = <<>>
        /\ r.conn = "connecting" /\ ~r.completed /\ r.ends = <<>>
    BY <1>1 DEF NewContext
  <2>5. RequestInv(r) BY ONLY <2>4, a \in Answers, NewInv
  <2> QED BY <2>3, <2>4, <2>5
<1>3. /\ req' = [req EXCEPT ![t] = r] /\ at' = [at EXCEPT ![t] = place] /\ place \in Places
      /\ place \notin {"copy", "back"}
  BY <1>1 DEF Start, Goto, Places
<1>4. interrupted' \in BOOLEAN /\ (interrupted => interrupted') BY DEF Start, HttpInv
<1>5. nreq' \in 0 .. MaxReqs BY HttpAssumption DEF Start, HttpInv
<1>6. status' \in {0} \cup {b.status : b \in Answers} BY DEF Start, HttpInv
<1> HIDE DEF place
<1> QED BY <1>2, <1>3, <1>4, <1>5, <1>6, Frame

\* The same call when lws fails.
LEMMA StartFailsInv ==
  ASSUME HttpInv, NEW t \in Threads, NEW async \in BOOLEAN, NEW a \in Answers, NEW told \in BOOLEAN,
         StartFails(t, async, a, told)
  PROVE  HttpInv'
<1> DEFINE ends == IF told THEN <<"error">> ELSE <<>>
<1>1. PICK r : r = [NewContext(async, a) EXCEPT !.conn = "closed", !.completed = told,
                                                !.result = StartError, !.ends = ends]
  OBVIOUS
<1>2. r \in Context /\ RequestInv(r) /\ r.conn = "closed"
  <2>0. ends \in {<<>>, <<"error">>} OBVIOUS
  <2>2. "closed" \in ConnState /\ StartError \in Nat BY DEF ConnState, StartError
  <2> HIDE DEF ends
  <2>1. r = [async |-> async, answer |-> a, todo |-> BodyOf(a), conn |-> "closed", isSse |-> FALSE,
             completed |-> told, code |-> 0, result |-> StartError, sse |-> <<>>, events |-> <<>>,
             cut |-> FALSE, body |-> <<>>, ends |-> ends]
    BY <1>1 DEF NewContext
  <2>3. r \in Context BY ONLY <2>0, <2>1, <2>2, async \in BOOLEAN, a \in Answers, told \in BOOLEAN, NewType, Zenon
  <2>4. /\ r.answer = a /\ r.todo = BodyOf(a) /\ r.sse = <<>> /\ r.events = <<>> /\ r.body = <<>>
        /\ r.conn = "closed" /\ r.ends = ends
    BY <1>1 DEF NewContext
  <2>5. RequestInv(r) BY ONLY <2>0, <2>4, a \in Answers, NewInv
  <2> QED BY <2>3, <2>4, <2>5
<1>3. req' = [req EXCEPT ![t] = r] /\ at' = [at EXCEPT ![t] = "back"] /\ "back" \in Places
  BY <1>1 DEF StartFails, Goto, Places
<1>4. interrupted' \in BOOLEAN /\ (interrupted => interrupted') BY DEF StartFails, HttpInv
<1>5. nreq' \in 0 .. MaxReqs BY HttpAssumption DEF StartFails, HttpInv
<1>6. status' \in {0} \cup {b.status : b \in Answers} BY DEF StartFails, HttpInv
<1> QED BY <1>2, <1>3, <1>4, <1>5, <1>6, Frame

\* A thread without a request.
LEMMA NoRequest ==
  ASSUME NEW r, r = NewContext(FALSE, NoAnswer)
  PROVE  r \in Context /\ RequestInv(r) /\ r.conn = "none"
<1>1. "none" \in ConnState /\ FALSE \in BOOLEAN /\ 0 \in Nat /\ NoAnswer \in Answers \cup {NoAnswer} BY DEF ConnState
<1>2. r \in Context BY <1>1, NewType, Zenon DEF NewContext
<1>3. /\ r.answer = NoAnswer /\ r.todo = BodyOf(NoAnswer) /\ r.sse = <<>> /\ r.events = <<>> /\ r.body = <<>>
      /\ r.conn = "none" /\ ~r.completed /\ r.ends = <<>>
  BY DEF NewContext
<1>4. RequestInv(r) BY ONLY <1>1, <1>3, NewInv
<1> QED BY <1>2, <1>3, <1>4

\* onesdk_chat_release_context
LEMMA ReleaseInv ==
  ASSUME HttpInv, NEW t \in Threads, Release(t)
  PROVE  HttpInv'
<1> DEFINE r == NewContext(FALSE, NoAnswer)
<1>1. r \in Context /\ RequestInv(r) BY NoRequest
<1>2. req' = [req EXCEPT ![t] = r] /\ at' = [at EXCEPT ![t] = "idle"] /\ "idle" \in Places
  BY DEF Release, Goto, Places
<1>3. interrupted' = TRUE /\ nreq' \in 0 .. MaxReqs /\ status' \in {0} \cup {b.status : b \in Answers}
  BY DEF Release, HttpInv
<1> HIDE DEF r
<1> QED BY <1>1, <1>2, <1>3, Frame

\* What a step that is not a start leaves alone.
LEMMA Counted ==
  ASSUME HttpInv
  PROVE  interrupted \in BOOLEAN /\ nreq \in 0 .. MaxReqs /\ status \in {0} \cup {b.status : b \in Answers}
BY DEF HttpInv

\* The wait and its loop.
LEMMA LoopInv ==
  ASSUME HttpInv, NEW t \in Threads, Wait(t) \/ LoopServices(t) \/ LoopEnds(t)
  PROVE  HttpInv'
<1> DEFINE r == req[t]
<1>1. /\ r \in Context /\ RequestInv(r) /\ req \in [Threads -> Context] /\ req = [req EXCEPT ![t] = r]
      /\ r.conn \in ConnState /\ r.isSse \in BOOLEAN /\ r.completed \in BOOLEAN /\ r.async \in BOOLEAN
      /\ r.code \in Nat /\ r.ends \in Seq({"complete", "error"})
      /\ (r.conn \in {"answered", "open"} => r.isSse = r.answer.sse)
      /\ (r.ends # <<>> \/ r.completed => r.conn \in {"done", "closed"})
      /\ ("complete" \in Range(r.ends) => r.todo = <<>>)
  BY OfRequest
<1>2. at[t] \in {"sent", "head"} /\ r.conn # "none" BY DEF Wait, LoopServices, LoopEnds, HttpInv, PlaceInv
<1>3. interrupted' = interrupted /\ nreq' = nreq /\ status' = status BY DEF Wait, LoopServices, LoopEnds
<1>4. CASE Wait(t) \/ LoopServices(t)
  <2>1. PICK place \in {"head", "service"} : at' = [at EXCEPT ![t] = place]
    BY <1>4 DEF Wait, LoopServices, Goto
  <2>2. place \in Places /\ place \notin {"copy", "back"} BY DEF Places
  <2>3. req' = [req EXCEPT ![t] = r] BY <1>1, <1>4 DEF Wait, LoopServices
  <2> HIDE DEF r
  <2> QED BY <1>1, <1>2, <1>3, <2>1, <2>2, <2>3, Counted, Frame
<1>5. CASE LoopEnds(t)
  <2> DEFINE result == IF r.async THEN ResultOf(r.code) ELSE 0
             s == [r EXCEPT !.result = result]
  <2>1. req' = [req EXCEPT ![t] = s] /\ at' = [at EXCEPT ![t] = "back"] /\ "back" \in Places
    BY <1>1, <1>5 DEF LoopEnds, Goto, Places
  <2>2. result \in Nat BY <1>1 DEF ResultOf
  <2>3. s.conn = r.conn /\ s.async = r.async BY <1>1 DEF Context
  <2>4. ~r.async /\ ~interrupted' => r.conn \in {"done", "closed"}
    <3>1. r.completed \/ ~(r.async \/ ~interrupted) BY <1>5 DEF LoopEnds, GoesOn
    <3> QED BY <1>1, <1>3, <3>1
  <2>5. s \in Context /\ RequestInv(s)
    <3>1. s \in Context BY <1>1, <2>2 DEF Context
    <3>2. /\ s.async = r.async /\ s.answer = r.answer /\ s.todo = r.todo /\ s.sse = r.sse
          /\ s.events = r.events /\ s.body = r.body /\ s.isSse = r.isSse /\ s.completed = r.completed /\ s.ends = r.ends
      BY <1>1 DEF Context
    <3> HIDE DEF s, r, result
    <3>3. RequestInv(s) BY <1>1, <2>3, <3>2, Marked
    <3> QED BY <3>1, <3>3
  <2> HIDE DEF s, r, result
  <2> QED BY <1>3, <2>1, <2>3, <2>4, <2>5, Counted, Frame
<1> QED BY <1>4, <1>5

\* A callback that changes the marks of r, seen from the record.
LEMMA CallbackInv ==
  ASSUME HttpInv, NEW t \in Threads, NEW s \in Context, RequestInv(s), s.conn # "none",
         req' = [req EXCEPT ![t] = s], at' = [at EXCEPT ![t] = "head"],
         interrupted' \in BOOLEAN, interrupted => interrupted', nreq' = nreq,
         status' \in {0} \cup {a.status : a \in Answers}
  PROVE  HttpInv'
<1>1. "head" \in Places BY DEF Places
<1>2. nreq' \in 0 .. MaxReqs BY Counted
<1> QED BY <1>1, <1>2, Frame

\* CLIENT_CONNECTION_ERROR
LEMMA ConnectionErrorInv ==
  ASSUME HttpInv, NEW t \in Threads, ConnectionError(t)
  PROVE  HttpInv'
<1>0. PICK r : r = req[t] OBVIOUS
<1>1. /\ r \in Context /\ RequestInv(r) /\ req \in [Threads -> Context] /\ r.ends \in Seq({"complete", "error"})
      /\ (r.ends # <<>> \/ r.completed => r.conn \in {"done", "closed"})
  BY <1>0, OfRequest
<1>2. r.conn \in BeforeAnswer /\ r.conn \notin {"none", "done", "closed"}
  BY <1>0 DEF ConnectionError, Serviced, BeforeAnswer
<1>3. r.ends = <<>> BY <1>1, <1>2
<1>4. PICK s : s = [r EXCEPT !.conn = "closed", !.completed = TRUE, !.ends = Append(r.ends, "error")] OBVIOUS
<1>5. req' = [req EXCEPT ![t] = s] /\ at' = [at EXCEPT ![t] = "head"]
  BY <1>0, <1>1, <1>4 DEF ConnectionError, Goto
<1>6. /\ s.async = r.async /\ s.answer = r.answer /\ s.todo = r.todo /\ s.sse = r.sse
      /\ s.events = r.events /\ s.body = r.body /\ s.conn = "closed" /\ s.ends = <<"error">>
  BY <1>1, <1>3, <1>4 DEF Context
<1>7. s \in Context
  <2>1. Append(r.ends, "error") \in Seq({"complete", "error"}) /\ "closed" \in ConnState BY <1>1 DEF ConnState
  <2> QED BY <1>1, <1>4, <2>1 DEF Context
<1>8. RequestInv(s)
  <2>1. "complete" \notin Range(s.ends) BY <1>6 DEF Range
  <2> QED BY <1>1, <1>2, <1>6, <2>1, Marked
<1>9. interrupted' = TRUE /\ nreq' = nreq /\ status' = status BY DEF ConnectionError
<1> QED BY <1>5, <1>6, <1>7, <1>8, <1>9, Counted, CallbackInv

\* CLIENT_APPEND_HANDSHAKE_HEADER, CLIENT_HTTP_WRITEABLE, CLIENT_FILTER_PRE_ESTABLISH
LEMMA AskInv ==
  ASSUME HttpInv, NEW t \in Threads, Handshake(t) \/ SendBody(t) \/ ReadHeaders(t)
  PROVE  HttpInv'
<1>0. PICK r : r = req[t] OBVIOUS
<1>1. /\ r \in Context /\ RequestInv(r) /\ r.isSse \in BOOLEAN
      /\ (r.ends # <<>> \/ r.completed => r.conn \in {"done", "closed"})
      /\ (r.conn # "none" => r.answer \in Answers)
  BY <1>0, OfRequest
<1>2. r.conn \in {"connecting", "asking", "asked"}
  BY <1>0 DEF Handshake, SendBody, ReadHeaders, Advances, Serviced
<1>3. r.ends = <<>> /\ ~r.completed BY <1>1, <1>2
<1>4. r.answer.sse \in BOOLEAN BY <1>1, <1>2, AnswerTypes
<1>5. /\ at' = [at EXCEPT ![t] = "head"] /\ interrupted' = interrupted /\ nreq' = nreq /\ status' = status
  BY DEF Handshake, SendBody, ReadHeaders, Advances, Goto
<1>6. ASSUME NEW s \in Context, req' = [req EXCEPT ![t] = s],
             s.async = r.async, s.answer = r.answer, s.todo = r.todo, s.sse = r.sse,
             s.events = r.events, s.body = r.body, s.completed = r.completed, s.ends = r.ends,
             s.conn \in {"asking", "asked", "answered"}, s.conn = "answered" => s.isSse = r.answer.sse
      PROVE  HttpInv'
  <2>1. "complete" \notin Range(s.ends) BY <1>3, <1>6 DEF Range
  <2>2. RequestInv(s) BY <1>1, <1>2, <1>3, <1>6, <2>1, Marked
  <2>3. s.conn # "none" BY <1>6
  <2> QED BY <1>5, <1>6, <2>2, <2>3, Counted, CallbackInv
<1>7. {"asking", "asked", "answered"} \subseteq ConnState BY DEF ConnState, BeforeAnswer
<1>8. CASE Handshake(t)
  <2>1. PICK s : s = [r EXCEPT !.conn = "asking"] OBVIOUS
  <2>2. req' = [req EXCEPT ![t] = s] BY <1>0, <1>8, <2>1 DEF Handshake, Advances
  <2>3. s \in Context BY <1>1, <1>7, <2>1 DEF Context
  <2> QED BY <1>1, <1>6, <2>1, <2>2, <2>3 DEF Context
<1>9. CASE SendBody(t)
  <2>1. PICK s : s = [r EXCEPT !.conn = "asked"] OBVIOUS
  <2>2. req' = [req EXCEPT ![t] = s] BY <1>0, <1>9, <2>1 DEF SendBody, Advances
  <2>3. s \in Context BY <1>1, <1>7, <2>1 DEF Context
  <2> QED BY <1>1, <1>6, <2>1, <2>2, <2>3 DEF Context
<1>10. CASE ReadHeaders(t)
  <2>1. PICK s : s = [r EXCEPT !.conn = "answered", !.isSse = r.answer.sse] OBVIOUS
  <2>2. req' = [req EXCEPT ![t] = s] BY <1>0, <1>10, <2>1 DEF ReadHeaders, Advances
  <2>3. s \in Context BY <1>1, <1>4, <1>7, <2>1 DEF Context
  <2> QED BY <1>1, <1>6, <2>1, <2>2, <2>3 DEF Context
<1> QED BY <1>8, <1>9, <1>10

\* ESTABLISHED_CLIENT_HTTP
LEMMA EstablishedInv ==
  ASSUME HttpInv, NEW t \in Threads, EstablishedStatus(t) \/ EstablishedCopy(t)
  PROVE  HttpInv'
<1>0. PICK r : r = req[t] OBVIOUS
<1>1. /\ r \in Context /\ RequestInv(r) /\ req \in [Threads -> Context] /\ req = [req EXCEPT ![t] = r]
      /\ r.ends \in Seq({"complete", "error"}) /\ r.isSse \in BOOLEAN
      /\ (r.ends # <<>> \/ r.completed => r.conn \in {"done", "closed"})
      /\ (r.conn # "none" => r.answer \in Answers)
      /\ (r.conn \in {"answered", "open"} => r.isSse = r.answer.sse)
  BY <1>0, OfRequest
<1>2. r.conn = "answered" /\ r.answer \in Answers
  <2>1. r.conn = "answered"
    BY <1>0 DEF EstablishedStatus, EstablishedCopy, Serviced, HttpInv, PlaceInv
  <2> QED BY <1>1, <2>1
<1>3. r.ends = <<>> /\ ~r.completed BY <1>1, <1>2
<1>4. CASE EstablishedStatus(t)
  <2>1. /\ status' = r.answer.status /\ at' = [at EXCEPT ![t] = "copy"] /\ interrupted' = interrupted
        /\ req' = req /\ nreq' = nreq
    BY <1>0, <1>4 DEF EstablishedStatus, Goto
  <2>2. status' \in {0} \cup {a.status : a \in Answers} BY <1>2, <2>1
  <2>3. "copy" \in Places BY DEF Places
  <2>4. req' = [req EXCEPT ![t] = r] BY <1>1, <2>1
  <2>5. interrupted' \in BOOLEAN /\ (interrupted => interrupted') /\ nreq' \in 0 .. MaxReqs BY <2>1, Counted
  <2> QED BY <1>1, <1>2, <2>1, <2>2, <2>3, <2>4, <2>5, Frame
<1>5. CASE EstablishedCopy(t)
  <2>1. PICK s : s = [r EXCEPT !.conn = "open", !.code = status] OBVIOUS
  <2>2. /\ req' = [req EXCEPT ![t] = s] /\ at' = [at EXCEPT ![t] = "head"]
        /\ interrupted' = interrupted /\ nreq' = nreq /\ status' = status
    BY <1>0, <1>1, <1>5, <2>1 DEF EstablishedCopy, Goto
  <2>3. /\ s.async = r.async /\ s.answer = r.answer /\ s.todo = r.todo /\ s.sse = r.sse
        /\ s.events = r.events /\ s.body = r.body /\ s.conn = "open" /\ s.isSse = r.isSse
        /\ s.ends = r.ends /\ s.completed = r.completed
    BY <1>1, <2>1 DEF Context
  <2>4. status \in Nat
    <3>1. status \in {0} \cup {a.status : a \in Answers} BY Counted
    <3>2. \A a \in Answers : a.status \in Nat BY AnswerTypes
    <3> QED BY <3>1, <3>2
  <2>5. s \in Context
    <3>1. "open" \in ConnState BY DEF ConnState
    <3> QED BY <1>1, <2>1, <2>4, <3>1 DEF Context
  <2>6. RequestInv(s)
    <3>1. "complete" \notin Range(s.ends) BY <1>3, <2>3 DEF Range
    <3>2. s.conn = "open" /\ s.isSse = r.answer.sse BY <1>1, <1>2, <2>3
    <3>3. ~s.completed /\ s.ends = <<>> BY <1>3, <2>3
    <3> QED BY <1>1, <1>2, <2>3, <3>1, <3>2, <3>3, Marked
  <2> QED BY <2>2, <2>3, <2>5, <2>6, Counted, CallbackInv
<1> QED BY <1>4, <1>5

\* RECEIVE_CLIENT_HTTP_READ
LEMMA ReadStepInv ==
  ASSUME HttpInv, NEW t \in Threads, NEW n \in 1 .. MaxFrag, Read(t, n)
  PROVE  HttpInv'
<1>0. PICK r : r = req[t] OBVIOUS
<1>a. PICK fragment : fragment = SubSeq(r.todo, 1, n) OBVIOUS
<1>b. PICK f : f = IF r.isSse THEN Taken(r, fragment) ELSE fragment OBVIOUS
<1>c. PICK b : b = r.sse \o f OBVIOUS
<1>d. PICK s : s = AfterRead(r, n, fragment, f, b)
  OBVIOUS
<1>1. r \in Context /\ RequestInv(r) BY <1>0, OfRequest
<1>2. r.conn = "open" /\ n \in 1 .. Min({MaxFrag, Len(r.todo)}) BY <1>0 DEF Read, Serviced
<1>3. n <= Len(r.todo)
  <2>1. MaxFrag \in Int /\ Len(r.todo) \in Int
    <3>1. Len(r.todo) \in Nat BY <1>1 DEF Context
    <3> QED BY <3>1, HttpAssumption
  <2>2. Min({MaxFrag, Len(r.todo)}) = IF MaxFrag <= Len(r.todo) THEN MaxFrag ELSE Len(r.todo) BY <2>1, MinTwo
  <2> QED BY <1>2, <2>1, <2>2
<1>4. s \in Context /\ RequestInv(s) /\ s.conn # "none" 
  BY ONLY <1>1, <1>2, <1>3, <1>a, <1>b, <1>c, <1>d, n \in 1 .. MaxFrag, ReadInv
<1>5. /\ req' = [req EXCEPT ![t] = s] /\ at' = [at EXCEPT ![t] = "head"]
      /\ interrupted' = interrupted /\ nreq' = nreq /\ status' = status
  BY <1>0, <1>a, <1>b, <1>c, <1>d DEF Read, Goto, AfterRead
<1> QED BY <1>4, <1>5, Counted, CallbackInv

\* COMPLETED_CLIENT_HTTP
LEMMA CompletedInv ==
  ASSUME HttpInv, NEW t \in Threads, Completed(t)
  PROVE  HttpInv'
<1>0. PICK r : r = req[t] OBVIOUS
<1>1. /\ r \in Context /\ RequestInv(r) /\ req \in [Threads -> Context] /\ r.ends \in Seq({"complete", "error"})
      /\ (r.ends # <<>> \/ r.completed => r.conn \in {"done", "closed"}) /\ r.completed \in BOOLEAN
  BY <1>0, OfRequest
<1>2. r.conn = "open" /\ r.todo = <<>> BY <1>0 DEF Completed, Serviced
<1>3. r.ends = <<>> BY <1>1, <1>2
<1>a. PICK s : s = IF req[t].code > 300
                   THEN [req[t] EXCEPT !.conn = "done", !.ends = Append(@, "error")]
                   ELSE [req[t] EXCEPT !.conn = "done", !.ends = Append(@, "complete"), !.completed = TRUE]
  OBVIOUS
<1>4. s = IF r.code > 300 THEN [r EXCEPT !.conn = "done", !.ends = Append(r.ends, "error")]
                          ELSE [r EXCEPT !.conn = "done", !.ends = Append(r.ends, "complete"), !.completed = TRUE]
  BY <1>0, <1>a, Zenon
<1>5. /\ req' = [req EXCEPT ![t] = s] /\ at' = [at EXCEPT ![t] = "head"]
      /\ interrupted' = interrupted /\ nreq' = nreq /\ status' = status
  <2>1. req' = [req EXCEPT ![t] = IF req[t].code > 300
                   THEN [req[t] EXCEPT !.conn = "done", !.ends = Append(@, "error")]
                   ELSE [req[t] EXCEPT !.conn = "done", !.ends = Append(@, "complete"), !.completed = TRUE]]
    BY DEF Completed
  <2>2. req' = [req EXCEPT ![t] = s] BY ONLY <1>a, <2>1, Zenon
  <2> QED BY <2>2 DEF Completed, Goto
<1>6. /\ s.async = r.async /\ s.answer = r.answer /\ s.todo = r.todo /\ s.sse = r.sse
      /\ s.events = r.events /\ s.body = r.body /\ s.conn = "done"
  BY <1>1, <1>4 DEF Context
<1>7. s \in Context
  <2>1. /\ Append(r.ends, "error") \in Seq({"complete", "error"}) /\ "done" \in ConnState
        /\ Append(r.ends, "complete") \in Seq({"complete", "error"})
    BY <1>1 DEF ConnState
  <2>2. CASE r.code > 300 BY <1>1, <1>4, <2>1, <2>2 DEF Context
  <2>3. CASE ~(r.code > 300) BY <1>1, <1>4, <2>1, <2>3 DEF Context
  <2> QED BY <2>2, <2>3
<1>8. RequestInv(s) BY <1>1, <1>2, <1>6, Marked
<1>9. s.conn # "none" BY <1>6
<1> QED BY <1>5, <1>7, <1>8, <1>9, Counted, CallbackInv

\* CLOSED_CLIENT_HTTP
LEMMA ClosedInv ==
  ASSUME HttpInv, NEW t \in Threads, Closed(t)
  PROVE  HttpInv'
<1>0. PICK r : r = req[t] OBVIOUS
<1>1. /\ r \in Context /\ RequestInv(r) /\ req \in [Threads -> Context]
      /\ ("complete" \in Range(r.ends) => r.todo = <<>>)
      /\ (r.conn # "none" => r.answer \in Answers)
  BY <1>0, OfRequest
<1>2. r.conn \in {"open", "done"} BY <1>0 DEF Closed, Serviced
<1>3. PICK s : s = [r EXCEPT !.conn = "closed", !.completed = TRUE] OBVIOUS
<1>4. /\ req' = [req EXCEPT ![t] = s] /\ at' = [at EXCEPT ![t] = "head"]
      /\ interrupted' = interrupted /\ nreq' = nreq /\ status' \in {0, r.answer.status}
  BY <1>0, <1>1, <1>3 DEF Closed, Goto
<1>5. /\ s.async = r.async /\ s.answer = r.answer /\ s.todo = r.todo /\ s.sse = r.sse
      /\ s.events = r.events /\ s.body = r.body /\ s.conn = "closed" /\ s.ends = r.ends
  BY <1>1, <1>3 DEF Context
<1>6. s \in Context
  <2>1. "closed" \in ConnState BY DEF ConnState
  <2> QED BY <1>1, <1>3, <2>1 DEF Context
<1>7. RequestInv(s) BY <1>1, <1>2, <1>5, Marked
<1>8. status' \in {0} \cup {a.status : a \in Answers} BY <1>1, <1>2, <1>4
<1>9. s.conn # "none" BY <1>5
<1> QED BY <1>4, <1>6, <1>7, <1>8, <1>9, Counted, CallbackInv

\* Every step keeps the invariant.
LEMMA HttpStep == HttpInv /\ [Next]_vars => HttpInv'
<1> SUFFICES ASSUME HttpInv, [Next]_vars PROVE HttpInv'
  OBVIOUS
<1>1. CASE UNCHANGED vars
  BY <1>1 DEF vars, HttpInv, PlaceInv, SyncAnswered
<1>2. ASSUME NEW t \in Threads, NEW async \in BOOLEAN, NEW a \in Answers,
             Start(t, async, a) \/ \E told \in BOOLEAN : StartFails(t, async, a, told)
      PROVE  HttpInv'
  BY <1>2, StartInv, StartFailsInv
<1>3. ASSUME NEW t \in Threads, Wait(t) \/ Release(t) \/ LoopServices(t) \/ LoopEnds(t) PROVE HttpInv'
  BY <1>3, LoopInv, ReleaseInv
<1>4. ASSUME NEW t \in Threads, Callback(t) PROVE HttpInv'
  BY <1>4, ConnectionErrorInv, AskInv, EstablishedInv, ReadStepInv, CompletedInv, ClosedInv DEF Callback
<1>5. CASE Next
  BY <1>2, <1>3, <1>4, <1>5 DEF Next, Step
<1> QED BY <1>1, <1>5

-----------------------------------------------------------------------------
(* What the invariant says of the answers.                                 *)

\* The first events of an answer are a prefix of its events.
LEMMA FirstEvents ==
  ASSUME NEW sse, NEW events, NEW B, NEW a \in Answers, NEW q,
         Delivering(sse, events, B, a.sizes, q)
  PROVE  /\ IsPrefix(events, EventsOf(a))
         /\ (Len(events) = Len(a.sizes) => events = EventsOf(a))
<1> DEFINE all == EventsOf(a)
           n == Len(a.sizes)
           k == Len(events)
<1>1. /\ a.sizes \in Seq(Nat \ {0}) /\ events \in Seq(Seq(Parts)) /\ Len(events) <= Len(a.sizes)
      /\ \A e \in 1 .. Len(events) : events[e] = EventParts(e, a.sizes[e])
  BY HttpAssumption DEF Delivering
<1>2. all \in Seq(Seq(Parts)) /\ Len(all) = n /\ \A e \in 1 .. n : all[e] = EventParts(e, a.sizes[e])
  <2>1. DOMAIN a.sizes = 1 .. n /\ n \in Nat /\ \A e \in 1 .. n : a.sizes[e] \in Nat \ {0} BY <1>1
  <2>2. ASSUME NEW e \in 1 .. n PROVE EventParts(e, a.sizes[e]) \in Seq(Parts)
    <3>1. e \in Nat OBVIOUS
    <3> QED BY <2>1, <3>1, EventPartsShape
  <2>3. all = [e \in 1 .. n |-> EventParts(e, a.sizes[e])] BY <2>1 DEF EventsOf
  <2> HIDE DEF all, n
  <2>4. all \in [1 .. n -> Seq(Parts)] BY <2>2, <2>3
  <2> QED BY <2>1, <2>3, <2>4
<1> HIDE DEF all
<1>3. n \in Nat /\ k \in Nat /\ k <= n BY <1>1
<1> HIDE DEF n
<1>4. ASSUME k = n PROVE events = all
  <2>1. Len(events) = Len(all) BY <1>2, <1>4
  <2>2. \A e \in 1 .. Len(events) : events[e] = all[e] BY <1>1, <1>2, <1>4
  <2> QED BY ONLY <1>1, <1>2, <2>1, <2>2, SeqEqual
<1>5. SubSeq(events, 1, k) = events BY <1>1, SubSeqFull
<1>6. /\ SubSeq(all, 1, k) \in Seq(Seq(Parts)) /\ Len(SubSeq(all, 1, k)) = IF 1 <= k THEN k - 1 + 1 ELSE 0
      /\ \A i \in 1 .. k - 1 + 1 : SubSeq(all, 1, k)[i] = all[1 + i - 1]
  <2> HIDE DEF k
  <2>1. \A i \in 1 .. k : i \in 1 .. n BY ONLY <1>3
  <2>2. \A i \in 1 .. n : all[i] \in Seq(Parts) BY <1>2
  <2>3. 1 \in Int /\ k \in Int /\ \A i \in 1 .. k : all[i] \in Seq(Parts) BY <1>3, <2>1, <2>2
  <2> QED BY ONLY <2>3, SubSeqProperties
<1>7. SubSeq(all, 1, k) = events
  <2> DEFINE pre == SubSeq(all, 1, k)
  <2> HIDE DEF pre
  <2>0. /\ pre \in Seq(Seq(Parts)) /\ Len(pre) = IF 1 <= k THEN k - 1 + 1 ELSE 0
        /\ \A i \in 1 .. k - 1 + 1 : pre[i] = all[1 + i - 1]
    BY <1>6 DEF pre
  <2>1. Len(pre) = Len(events)
    <3>1. k = Len(events) OBVIOUS
    <3> HIDE DEF k
    <3> QED BY ONLY <1>3, <2>0, <3>1
  <2>2. ASSUME NEW e \in 1 .. Len(events) PROVE pre[e] = events[e]
    <3>1. e \in 1 .. k - 1 + 1 /\ 1 + e - 1 = e /\ e \in 1 .. n BY ONLY <1>3, e \in 1 .. Len(events)
    <3> QED BY <1>1, <1>2, <2>0, <3>1
  <2>3. pre = events BY ONLY <1>1, <2>0, <2>1, <2>2, SeqEqual
  <2> QED BY <2>3 DEF pre
<1>8. IsPrefix(events, all) BY <1>2, <1>3, <1>5, <1>7 DEF IsPrefix, n
<1> QED BY <1>4, <1>8 DEF all, n

\* When the whole body has been received, so has its last event: it ends with a separator.
LEMMA LastEvent ==
  ASSUME NEW sse, NEW events, NEW B, NEW sizes, NEW q, Delivering(sse, events, B, sizes, q),
         Ends(sse) = {}, q + Len(sse) = Len(B)
  PROVE  Len(events) = Len(sizes)
<1>1. /\ sizes \in Seq(Nat \ {0}) /\ IsBody(B, sizes, Len(sizes)) /\ sse \in Seq(Parts) /\ q \in Nat
      /\ (\A i \in 1 .. Len(sse) : sse[i] = B[q + i])
      /\ IF q = 0 THEN Len(events) = 0 ELSE Separator(B[q]) /\ B[q].event = Len(events)
  BY DEF Delivering, Window
<1>2. Len(sse) \in Nat /\ Len(B) \in Nat /\ Len(sizes) \in Nat BY <1>1 DEF IsBody
<1>3. Len(sse) = 0
  <2> SUFFICES ASSUME Len(sse) # 0 PROVE FALSE
    OBVIOUS
  <2>1. Len(sse) \in 1 .. Len(sse) /\ Len(B) > 0 BY <1>1, <1>2
  <2>2. sse[Len(sse)] = B[Len(B)] BY <1>1, <2>1
  <2>3. Separator(B[Len(B)]) BY <1>1, <1>2, <2>1 DEF IsBody
  <2>4. Len(sse) \in Ends(sse) BY <1>1, <2>1, <2>2, <2>3 DEF Ends
  <2> QED BY <2>4
<1>4. q = Len(B) BY <1>1, <1>2, <1>3
<1>5. CASE Len(sizes) = 0
  <2>1. Len(B) = 0 BY <1>1, <1>5 DEF IsBody
  <2> QED BY <1>1, <1>4, <1>5, <2>1
<1>6. CASE Len(sizes) # 0
  <2>1. Len(B) > 0 /\ B[Len(B)].event = Len(sizes) BY <1>1, <1>6 DEF IsBody
  <2> QED BY <1>1, <1>2, <1>4, <2>1
<1> QED BY <1>5, <1>6

\* The invariant gives the types.
LEMMA HttpTypes == HttpInv => TypeOK
<1> SUFFICES ASSUME HttpInv PROVE TypeOK
  OBVIOUS
<1>1. ASSUME NEW t \in Threads
      PROVE  /\ req[t].conn \in ConnState /\ req[t].answer \in Answers \cup {NoAnswer}
             /\ {req[t].async, req[t].isSse, req[t].completed, req[t].cut} \subseteq BOOLEAN
             /\ req[t].code \in Nat /\ req[t].result \in Nat
             /\ Len(req[t].sse) <= SseSize
             /\ at[t] \in {"service", "copy"} => req[t].conn # "none"
  <2>1. req[t] \in Context /\ Len(req[t].sse) <= SseSize BY DEF HttpInv, RequestInv
  <2>2. req[t].async \in BOOLEAN /\ req[t].isSse \in BOOLEAN /\ req[t].completed \in BOOLEAN /\ req[t].cut \in BOOLEAN
    BY <2>1 DEF Context
  <2>3. {req[t].async, req[t].isSse, req[t].completed, req[t].cut} \subseteq BOOLEAN BY <2>2, Zenon
  <2>4. req[t].conn \in ConnState /\ req[t].answer \in Answers \cup {NoAnswer} /\ req[t].code \in Nat /\ req[t].result \in Nat
    BY <2>1 DEF Context
  <2>5. at[t] \in {"service", "copy"} => req[t].conn # "none" BY DEF HttpInv, PlaceInv
  <2> QED BY <2>1, <2>3, <2>4, <2>5
<1> QED BY <1>1 DEF HttpInv, TypeOK

\* The invariant gives StreamDelivered.
LEMMA HttpStreams == HttpInv => StreamDelivered
<1> SUFFICES ASSUME HttpInv, NEW t \in Threads, req[t].answer.sse, Fits(req[t].answer)
             PROVE  /\ IsPrefix(req[t].events, EventsOf(req[t].answer))
                    /\ "complete" \in Range(req[t].ends) => req[t].events = EventsOf(req[t].answer)
  BY HttpTypes DEF StreamDelivered
<1> DEFINE r == req[t]
           a == r.answer
           q == Position(r) - Len(r.sse)
<1>1. r \in Context /\ RequestInv(r) BY OfRequest
<1>2. Ends(r.sse) = {} /\ Delivering(r.sse, r.events, BodyOf(a), a.sizes, q) BY <1>1 DEF RequestInv, Streamed
<1>3. a \in Answers
  <2>1. a \in Answers \cup {NoAnswer} BY <1>1 DEF Context
  <2>2. a # NoAnswer
    <3>1. a.sse OBVIOUS
    <3> QED BY <3>1 DEF NoAnswer
  <2> QED BY <2>1, <2>2
<1> HIDE DEF q, a
<1>4. /\ IsPrefix(r.events, EventsOf(a)) /\ (Len(r.events) = Len(a.sizes) => r.events = EventsOf(a))
  BY ONLY <1>2, <1>3, FirstEvents
<1>5. ASSUME "complete" \in Range(r.ends) PROVE Len(r.events) = Len(a.sizes)
  <2>1. r.todo = <<>> BY <1>1, <1>5 DEF RequestInv, Ended
  <2>2. Len(r.todo) = 0 BY <2>1
  <2>3. Position(r) = Len(BodyOf(a)) - Len(r.todo) BY DEF Position, a
  <2>4. Len(BodyOf(a)) \in Nat BY <1>3, AnswerTypes
  <2>5. Len(r.sse) \in Nat BY <1>1 DEF Context
  <2>6. q + Len(r.sse) = Len(BodyOf(a))
    <3>1. q = Position(r) - Len(r.sse) BY DEF q
    <3> QED BY ONLY <2>2, <2>3, <2>4, <2>5, <3>1
  <2> QED BY ONLY <1>2, <2>6, LastEvent
<1> QED BY <1>4, <1>5 DEF a

\* The invariant gives BodyWhole.
LEMMA HttpBodies == HttpInv => BodyWhole
<1> SUFFICES ASSUME HttpInv, NEW t \in Threads, ~req[t].async, "complete" \in Range(req[t].ends),
                    ~req[t].answer.sse \/ Fits(req[t].answer)
             PROVE  req[t].body = BodyOf(req[t].answer)
  BY DEF BodyWhole
<1> DEFINE r == req[t]
           B == BodyOf(r.answer)
<1>1. r \in Context /\ RequestInv(r) BY OfRequest
<1>2. r.todo = <<>> /\ Len(r.body) = Position(r) /\ \A i \in 1 .. Len(r.body) : r.body[i] = B[i]
  BY <1>1 DEF RequestInv, Ended, Copied
<1>3. r.body \in Seq(Parts) /\ r.answer \in Answers \cup {NoAnswer} BY <1>1 DEF Context
<1>4. B \in Seq(Parts) BY <1>3, AnswerTypes
<1>5. Len(r.body) = Len(B)
  <2>1. Len(r.todo) = 0 BY <1>2
  <2>2. Position(r) = Len(B) - Len(r.todo) BY DEF Position
  <2>3. Len(B) \in Nat BY <1>4
  <2> QED BY <1>2, <2>1, <2>2, <2>3
<1> QED BY ONLY <1>2, <1>3, <1>4, <1>5, SeqEqual

\* A request that has ended is left alone: the callbacks that deliver and end need a
\* connection, and the application's calls a request of their own.
LEMMA HttpEnds ==
  HttpInv /\ [Next]_vars =>
    \A t \in Threads : req[t].ends # <<>> /\ nreq' = nreq /\ at'[t] # "idle" =>
      UNCHANGED <<req[t].ends, req[t].events, req[t].body>>
<1> SUFFICES ASSUME HttpInv, [Next]_vars, NEW t \in Threads, req[t].ends # <<>>, nreq' = nreq, at'[t] # "idle"
             PROVE  /\ req'[t].ends = req[t].ends /\ req'[t].events = req[t].events
                    /\ req'[t].body = req[t].body
  OBVIOUS
<1>1. req \in [Threads -> Context] /\ at \in [Threads -> Places] /\ nreq \in Nat BY HttpAssumption DEF HttpInv
<1>2. req[t] \in Context BY <1>1
<1>3. req[t].conn \in {"done", "closed"} BY DEF HttpInv, RequestInv, Ended
<1>4. CASE UNCHANGED vars BY <1>4 DEF vars
<1>5. ASSUME NEW u \in Threads, NEW async \in BOOLEAN, NEW a \in Answers,
             Start(u, async, a) \/ \E told \in BOOLEAN : StartFails(u, async, a, told)
      PROVE  FALSE
  <2>1. nreq' = nreq + 1 BY <1>5 DEF Start, StartFails
  <2> QED BY <1>1, <2>1
<1>6. ASSUME NEW u \in Threads, req' = req PROVE req'[t] = req[t]
  BY <1>6
<1>7. ASSUME NEW u \in Threads, u # t, NEW r, req' = [req EXCEPT ![u] = r] PROVE req'[t] = req[t]
  BY <1>1, <1>7
<1>8. ASSUME NEW u \in Threads, Wait(u) \/ LoopServices(u) \/ EstablishedStatus(u)
      PROVE  req'[t] = req[t]
  BY <1>8 DEF Wait, LoopServices, EstablishedStatus
<1>9. ASSUME Release(t) PROVE FALSE
  BY <1>1, <1>9 DEF Release, Goto
<1>10. ASSUME LoopEnds(t) \/ Closed(t)
       PROVE  /\ req'[t].ends = req[t].ends /\ req'[t].events = req[t].events
              /\ req'[t].body = req[t].body
  BY <1>1, <1>2, <1>10 DEF LoopEnds, Closed, Context
<1>11. ASSUME ConnectionError(t) \/ Handshake(t) \/ SendBody(t) \/ ReadHeaders(t) \/ EstablishedCopy(t)
              \/ (\E n \in 1 .. MaxFrag : Read(t, n)) \/ Completed(t)
       PROVE  FALSE
  <2>1. req[t].conn \in BeforeAnswer \cup {"open"}
    BY <1>11 DEF ConnectionError, Handshake, SendBody, ReadHeaders, EstablishedCopy, Read, Completed, Advances,
                 Serviced, BeforeAnswer, HttpInv, PlaceInv
  <2> QED BY <1>3, <2>1 DEF BeforeAnswer
<1>12. ASSUME NEW u \in Threads, u # t, Release(u) \/ LoopEnds(u) \/ Callback(u) PROVE req'[t] = req[t]
  BY <1>1, <1>12 DEF Release, LoopEnds, Callback, ConnectionError, Handshake, SendBody, ReadHeaders, Advances,
                     EstablishedStatus, EstablishedCopy, Read, Completed, Closed
<1>13. CASE Next
  <2>1. PICK u \in Threads : Wait(u) \/ Release(u) \/ Step(u)
    BY <1>5, <1>13 DEF Next
  <2>2. CASE u = t BY <1>8, <1>9, <1>10, <1>11, <2>1, <2>2 DEF Step, Callback
  <2>3. CASE u # t BY <1>8, <1>12, <2>1, <2>3 DEF Step
  <2> QED BY <2>2, <2>3
<1> QED BY <1>4, <1>13

-----------------------------------------------------------------------------
(* The theorems.                                                           *)

\* Nobody has a request at first.
LEMMA HttpInit == Init => HttpInv
<1> SUFFICES ASSUME Init PROVE HttpInv
  OBVIOUS
<1>1. PICK r : r = NewContext(FALSE, NoAnswer) OBVIOUS
<1>2. r \in Context /\ RequestInv(r) /\ r.conn = "none" BY <1>1, NoRequest
<1>3. \A t \in Threads : req[t] = r /\ at[t] = "idle" BY <1>1 DEF Init
<1>4. req \in [Threads -> Context] /\ at \in [Threads -> Places] BY <1>1, <1>2 DEF Init, Places
<1>5. \A t \in Threads : RequestInv(req[t]) /\ PlaceInv(t) BY <1>2, <1>3 DEF PlaceInv
<1>6. SyncAnswered BY <1>3 DEF SyncAnswered
<1>7. nreq \in 0 .. MaxReqs /\ status \in {0} \cup {a.status : a \in Answers} BY HttpAssumption DEF Init
<1>8. interrupted \in BOOLEAN BY DEF Init
<1> QED BY <1>4, <1>5, <1>6, <1>7, <1>8 DEF HttpInv

\* The invariant of the HTTP client.
THEOREM HttpInvariant == Spec => []HttpInv
<1> QED BY HttpInit, HttpStep, PTL DEF Spec

\* However lws cuts the body of a streamed answer into READ callbacks, and whatever
\* the other requests do meanwhile: as long as every event leaves room for a
\* fragment, on_get_sse_cb gets the events of the answer, whole and in order, and all
\* of them before on_complete_cb.
THEOREM EventsInOrder == Spec => []StreamDelivered
<1> QED BY HttpInvariant, HttpStreams, PTL

\* A synchronous request that ends with on_complete_cb has the whole body in
\* response_body.
THEOREM WholeBody == Spec => []BodyWhole
<1> QED BY HttpInvariant, HttpBodies, PTL

\* http_request returns only when its exchange is over, unless a connection of this
\* process has failed before.
THEOREM ReturnsAnswered == Spec => []SyncAnswered
<1>1. HttpInv => SyncAnswered BY DEF HttpInv
<1> QED BY <1>1, HttpInvariant, PTL

\* A request ends with at most one of on_complete_cb and on_error_cb, and gets nothing
\* after it.
THEOREM EndedOnce == Spec => EndsOnce
<1> QED BY HttpInvariant, HttpEnds, PTL DEF Spec, EndsOnce
=============================================================================
