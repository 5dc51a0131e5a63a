-------------------------- MODULE RealtimeEventsProofs --------------------------
(***************************************************************************)
(* Proofs about RealtimeEvents, for documents of any number of parts, any    *)
(* fragments, connections and documents.  The invariant is about the parts   *)
(* that are buffered followed by those that are on their way: they are in     *)
(* the order of the server, and whole documents until one is cut.            *)
(***************************************************************************)
EXTENDS RealtimeEvents, NaturalsInduction, WellFoundedInduction, TLAPS

pending == rt_json_buf \o stream

\* Part p was sent before part q.
Before(p, q) == p.doc.id < q.doc.id \/ (p.doc.id = q.doc.id /\ p.part < q.part)

\* A sequence of whole documents.
WholeDocs(s) == \E m \in 0 .. Len(s) : Len(s) = Start(m) /\ Leading(s, m)

\* The parts are in the order in which they were sent, and later than every event.
PendingOrdered ==
  /\ \A i, j \in 1 .. Len(pending) : i < j => Before(pending[i], pending[j])
  /\ \A i \in 1 .. Len(pending) : \A k \in 1 .. Len(delivered) : delivered[k].doc.id < pending[i].doc.id
NumbersUsed ==
  /\ \A i \in 1 .. Len(pending) : pending[i].doc.id < nextDoc
  /\ \A k \in 1 .. Len(delivered) : delivered[k].doc.id < nextDoc

\* Without a cut the parts are whole documents and the capacity is the block's size.
PendingWhole == ~cut => WholeDocs(pending) /\ block = capacity
Allocated == block = 0 => rt_json_buf = <<>> /\ capacity = 0

EventsInv == /\ EventsDelivered
             /\ PendingOrdered /\ NumbersUsed /\ PendingWhole /\ Allocated

-----------------------------------------------------------------------------
(* Numbers.                                                                  *)

\* A set of naturals that is not empty has a least element.
LEMMA Least == ASSUME NEW T, T \subseteq Nat, T # {} PROVE \E x \in T : \A y \in T : x <= y
<1> DEFINE R == {p \in Nat \X Nat : p[1] < p[2]}
<1>1. IsWellFoundedOn(R, Nat) BY NatLessThanWellFounded DEF OpToRel
<1>2. \A x, y \in Nat : <<y, x>> \in R <=> y < x OBVIOUS
<1> HIDE DEF R
<1>3. PICK x \in T : \A y \in T : ~ (<<y, x>> \in R) BY <1>1, WFMin
<1>4. \A y \in T : x \in Nat /\ y \in Nat /\ ~(y < x) BY <1>2, <1>3
<1> QED BY <1>3, <1>4

\* A bounded one has a greatest element, which is its Max.
LEMMA Greatest ==
  ASSUME NEW n \in Nat, NEW T, T \subseteq 0 .. n, T # {}
  PROVE  Max(T) \in T /\ \A y \in T : y <= Max(T)
<1> DEFINE U == {m \in Nat : \A y \in T : y <= m}
<1>1. n \in U OBVIOUS
<1>2. PICK x \in U : \A y \in U : x <= y BY <1>1, Least
<1>3. x \in T
  <2> SUFFICES ASSUME x \notin T PROVE FALSE OBVIOUS
  <2>1. \A y \in T : y \in Nat /\ y <= x /\ y # x BY <1>2
  <2>2. x # 0
    <3>1. PICK y \in T : TRUE OBVIOUS
    <3>2. y \in 0 .. n /\ y <= x /\ y # x BY <2>1
    <3> QED BY <1>2, <3>2
  <2>3. x - 1 \in Nat /\ \A y \in T : y <= x - 1 BY <1>2, <2>1, <2>2
  <2>4. x <= x - 1 BY <1>2, <2>3
  <2> QED BY <1>2, <2>4
<1> QED BY <1>2, <1>3 DEF Max

\* Where documents begin: one part after the other, Parts for each document.
LEMMA Starts ==
  /\ Start(0) = 0
  /\ \A j \in Nat : Start(j) \in Nat /\ j <= Start(j) /\ Start(j + 1) = Start(j) + Parts
  /\ \A j, k \in Nat : Start(j + k) = Start(j) + Start(k)
BY EventsAssumption DEF Start

LEMMA StartsApart ==
  ASSUME NEW j \in Nat, NEW k \in Nat, j < k
  PROVE  Start(j) + Parts <= Start(k)
<1>1. PICK d \in Nat : k = (j + 1) + d
  <2>1. k - (j + 1) \in Nat OBVIOUS
  <2> QED BY <2>1
<1>2. Start(k) = Start(j + 1) + Start(d) BY <1>1, Starts
<1>3. Start(d) \in Nat /\ Start(j) \in Nat /\ Start(j + 1) = Start(j) + Parts BY Starts
<1> QED BY <1>2, <1>3, EventsAssumption

\* Every position is a part of a document.
LEMMA Position ==
  ASSUME NEW i \in Nat \ {0}
  PROVE  \E j \in Nat, p \in 1 .. Parts : i = Start(j) + p
<1> DEFINE T == {n \in Nat \ {0} : ~ \E j \in Nat, p \in 1 .. Parts : n = Start(j) + p}
<1> SUFFICES ASSUME T # {} PROVE FALSE OBVIOUS
<1>1. PICK x \in T : \A y \in T : x <= y BY Least
<1>2. x # 1
  <2>1. 0 \in Nat /\ 1 \in 1 .. Parts /\ 1 = Start(0) + 1 BY EventsAssumption, Starts
  <2> QED BY <2>1, <1>1
<1>3. x - 1 \in Nat \ {0} /\ x - 1 \notin T BY <1>1, <1>2
<1>4. PICK j \in Nat, p \in 1 .. Parts : x - 1 = Start(j) + p BY <1>3
<1>5. Start(j) \in Nat /\ Start(j + 1) = Start(j) + Parts BY Starts
<1>6. CASE p < Parts
  <2>1. p + 1 \in 1 .. Parts BY <1>6, EventsAssumption
  <2>2. x \in Nat /\ p \in Nat BY <1>1, EventsAssumption
  <2>3. x = Start(j) + (p + 1) BY <1>4, <1>5, <2>2
  <2> QED BY <2>1, <2>3, <1>1
<1>7. CASE p = Parts
  <2>1. j + 1 \in Nat /\ 1 \in 1 .. Parts /\ x = Start(j + 1) + 1 BY <1>4, <1>5, <1>7, <1>1, EventsAssumption
  <2> QED BY <2>1, <1>1
<1> QED BY <1>6, <1>7, EventsAssumption

-----------------------------------------------------------------------------
(* Sequences of parts.                                                       *)

\* The parts that remain, in front of those that are still on their way.
LEMMA Dropped ==
  ASSUME NEW S, NEW b \in Seq(S), NEW c \in Seq(S), NEW n \in 0 .. Len(b)
  PROVE  /\ SubSeq(b, n + 1, Len(b)) \in Seq(S) /\ Len(SubSeq(b, n + 1, Len(b))) = Len(b) - n
         /\ SubSeq(b, n + 1, Len(b)) \o c \in Seq(S)
         /\ Len(SubSeq(b, n + 1, Len(b)) \o c) = Len(b) + Len(c) - n
         /\ \A i \in 1 .. Len(b) + Len(c) - n : (SubSeq(b, n + 1, Len(b)) \o c)[i] = (b \o c)[n + i]
OBVIOUS

\* Two sequences in a row.
LEMMA Concat ==
  ASSUME NEW S, NEW b \in Seq(S), NEW c \in Seq(S)
  PROVE  /\ b \o c \in Seq(S) /\ Len(b \o c) = Len(b) + Len(c)
         /\ \A i \in 1 .. Len(b) + Len(c) : (b \o c)[i] = IF i <= Len(b) THEN b[i] ELSE c[i - Len(b)]
OBVIOUS

\* The elements of two sequences in a row.
LEMMA Appended ==
  ASSUME NEW S, NEW b \in Seq(S), NEW c \in Seq(S)
  PROVE  /\ b \o c \in Seq(S) /\ Len(b \o c) = Len(b) + Len(c)
         /\ \A i \in 1 .. Len(b) : (b \o c)[i] = b[i]
         /\ \A j \in 1 .. Len(c) : (b \o c)[Len(b) + j] = c[j]
         /\ \A i \in 1 .. Len(b) + Len(c) : i > Len(b) => i - Len(b) \in 1 .. Len(c) /\ (b \o c)[i] = c[i - Len(b)]
OBVIOUS

\* Three sequences in a row.
LEMMA Associative ==
  ASSUME NEW S, NEW a \in Seq(S), NEW b \in Seq(S), NEW c \in Seq(S)
  PROVE  a \o (b \o c) = (a \o b) \o c
OBVIOUS

\* Taking the first parts of one sequence to the end of another moves no part.
LEMMA Moved ==
  ASSUME NEW S, NEW b \in Seq(S), NEW c \in Seq(S), NEW n \in 1 .. Len(c)
  PROVE  /\ b \o SubSeq(c, 1, n) \in Seq(S) /\ SubSeq(c, n + 1, Len(c)) \in Seq(S)
         /\ Len(b \o SubSeq(c, 1, n)) = Len(b) + n
         /\ (b \o SubSeq(c, 1, n)) \o SubSeq(c, n + 1, Len(c)) = b \o c
<1> DEFINE b2 == b \o SubSeq(c, 1, n)
           c2 == SubSeq(c, n + 1, Len(c))
<1>1. b2 \in Seq(S) /\ c2 \in Seq(S) /\ Len(b2) = Len(b) + n /\ Len(c2) = Len(c) - n OBVIOUS
<1>2. \A i \in 1 .. Len(b2) : b2[i] = IF i <= Len(b) THEN b[i] ELSE c[i - Len(b)] OBVIOUS
<1>3. \A i \in 1 .. Len(c2) : c2[i] = c[i + n] OBVIOUS
<1> HIDE DEF b2, c2
<1>4. b2 \o c2 \in Seq(S) /\ b \o c \in Seq(S) /\ Len(b2 \o c2) = Len(b) + Len(c) /\ Len(b \o c) = Len(b) + Len(c)
  <2>1. Len(b) \in Nat /\ Len(c) \in Nat /\ n \in Nat OBVIOUS
  <2>2. b2 \o c2 \in Seq(S) /\ Len(b2 \o c2) = Len(b2) + Len(c2) BY <1>1, Concat
  <2>3. b \o c \in Seq(S) /\ Len(b \o c) = Len(b) + Len(c) OBVIOUS
  <2> QED BY <1>1, <2>1, <2>2, <2>3
<1>5. \A i \in 1 .. Len(b) + Len(c) : (b \o c)[i] = IF i <= Len(b) THEN b[i] ELSE c[i - Len(b)] OBVIOUS
<1>6. \A i \in 1 .. Len(b) + Len(c) : (b2 \o c2)[i] = IF i <= Len(b) THEN b[i] ELSE c[i - Len(b)]
  <2> SUFFICES ASSUME NEW i \in 1 .. Len(b) + Len(c)
               PROVE (b2 \o c2)[i] = IF i <= Len(b) THEN b[i] ELSE c[i - Len(b)] OBVIOUS
  <2>1. Len(b) \in Nat /\ Len(c) \in Nat /\ n \in Nat /\ n <= Len(c) OBVIOUS
  <2>2. (b2 \o c2)[i] = IF i <= Len(b2) THEN b2[i] ELSE c2[i - Len(b2)] BY <1>1, <1>4
  <2>3. CASE i <= Len(b2)
    <3>1. i \in 1 .. Len(b2) BY <1>1, <2>1, <2>3
    <3> QED BY <1>2, <2>2, <2>3, <3>1
  <2>4. CASE i > Len(b2)
    <3>1. i - Len(b2) \in 1 .. Len(c2) /\ (i - Len(b2)) + n = i - Len(b) /\ ~(i <= Len(b)) /\ ~(i <= Len(b2))
      BY <1>1, <2>1, <2>4
    <3>2. c2[i - Len(b2)] = c[(i - Len(b2)) + n] BY <1>3, <3>1
    <3> QED BY <2>2, <3>1, <3>2
  <2> QED BY <1>1, <2>1, <2>3, <2>4
<1>7. b2 \o c2 = b \o c BY <1>4, <1>5, <1>6
<1> QED BY <1>1, <1>7 DEF b2, c2

\* Leading, part by part.
LEMMA LeadingParts ==
  ASSUME NEW b \in Seq(Piece), NEW k \in Nat
  PROVE  Leading(b, k) <=>
           /\ Start(k) <= Len(b)
           /\ \A j \in 0 .. k - 1, p \in 1 .. Parts :
                b[Start(j) + p] = [doc |-> b[Start(j) + 1].doc, part |-> p]
<1> SUFFICES ASSUME Start(k) <= Len(b)
             PROVE (\A j \in 0 .. k - 1 : SubSeq(b, Start(j) + 1, Start(j) + Parts) = PiecesOf(b[Start(j) + 1].doc))
                   <=> \A j \in 0 .. k - 1 : \A p \in 1 .. Parts :
                         b[Start(j) + p] = [doc |-> b[Start(j) + 1].doc, part |-> p]
  BY DEF Leading
<1> SUFFICES ASSUME NEW j \in 0 .. k - 1
             PROVE (SubSeq(b, Start(j) + 1, Start(j) + Parts) = PiecesOf(b[Start(j) + 1].doc))
                   <=> \A p \in 1 .. Parts : b[Start(j) + p] = [doc |-> b[Start(j) + 1].doc, part |-> p]
  OBVIOUS
<1> DEFINE a == Start(j)
           q == SubSeq(b, a + 1, a + Parts)
           d == b[a + 1].doc
<1>1. a \in Nat /\ a + Parts <= Len(b)
  <2>1. j \in Nat /\ j < k OBVIOUS
  <2>2. Start(j) \in Nat /\ Start(k) \in Nat BY <2>1, Starts
  <2>3. Start(j) + Parts <= Start(k) BY <2>1, StartsApart
  <2> QED BY <2>2, <2>3, EventsAssumption
<1> HIDE DEF a
<1>2. q = [i \in 1 .. Parts |-> b[a + i]]
  <2>1. Len(b) \in Nat /\ Parts \in Nat BY EventsAssumption
  <2> QED BY <1>1, <2>1
<1> HIDE DEF q, d
<1>3. PiecesOf(d) = [i \in 1 .. Parts |-> [doc |-> d, part |-> i]] BY DEF PiecesOf
<1>4. q = PiecesOf(d) <=> \A p \in 1 .. Parts : b[a + p] = [doc |-> d, part |-> p] BY <1>2, <1>3
<1> QED BY <1>4 DEF a, q, d

\* The documents at the start of a sequence do not depend on what follows them.
LEMMA LeadingPrefix ==
  ASSUME NEW b \in Seq(Piece), NEW c \in Seq(Piece), NEW k \in Nat, Start(k) <= Len(b)
  PROVE  Leading(b, k) <=> Leading(b \o c, k)
<1>1. b \o c \in Seq(Piece) /\ Start(k) <= Len(b \o c)
  <2>1. Start(k) \in Nat BY Starts
  <2> QED BY <2>1
<1>2. \A i \in 1 .. Len(b) : (b \o c)[i] = b[i] OBVIOUS
<1>3. ASSUME NEW j \in 0 .. k - 1, NEW p \in 1 .. Parts
      PROVE  Start(j) + p \in 1 .. Len(b)
  <2>1. j \in Nat /\ j < k OBVIOUS
  <2>2. Start(j) \in Nat /\ Start(k) \in Nat BY <2>1, Starts
  <2>3. Start(j) + Parts <= Start(k) BY <2>1, StartsApart
  <2> QED BY <2>2, <2>3, EventsAssumption
<1>4. \A j \in 0 .. k - 1 : Start(j) + 1 \in 1 .. Len(b) BY <1>3, EventsAssumption
<1>5. Leading(b, k) <=> \A j \in 0 .. k - 1, p \in 1 .. Parts :
                             b[Start(j) + p] = [doc |-> b[Start(j) + 1].doc, part |-> p] BY LeadingParts
<1>6. Leading(b \o c, k) <=> \A j \in 0 .. k - 1, p \in 1 .. Parts :
                    (b \o c)[Start(j) + p] = [doc |-> (b \o c)[Start(j) + 1].doc, part |-> p] BY <1>1, LeadingParts
<1> HIDE DEF Leading
<1> QED BY <1>2, <1>3, <1>4, <1>5, <1>6

\* What the loop parses: documents, and all that the buffer begins with.
LEMMA ParsedIs ==
  ASSUME NEW b \in Seq(Piece)
  PROVE  /\ ParsedDocs(b) \in Nat /\ Leading(b, ParsedDocs(b))
         /\ \A k \in Nat : Leading(b, k) => k <= ParsedDocs(b)
<1> DEFINE T == {k \in 0 .. Len(b) : Leading(b, k)}
<1>1. 0 \in T
  <2>1. Start(0) <= Len(b) BY Starts
  <2>2. Leading(b, 0) BY <2>1 DEF Leading
  <2> QED BY <2>2
<1>2. Max(T) \in T /\ \A y \in T : y <= Max(T)
  <2>1. T \subseteq 0 .. Len(b) /\ T # {} /\ Len(b) \in Nat BY <1>1
  <2> HIDE DEF T
  <2> QED BY <2>1, Greatest
<1>3. ASSUME NEW k \in Nat, Leading(b, k) PROVE k \in T
  <2>1. Start(k) <= Len(b) BY <1>3 DEF Leading
  <2>2. k <= Len(b) BY <2>1, Starts
  <2> QED BY <1>3, <2>2
<1> QED BY <1>2, <1>3 DEF ParsedDocs

\* A sequence of whole documents, part by part.
LEMMA WholeParts ==
  ASSUME NEW s \in Seq(Piece), WholeDocs(s)
  PROVE  \E m \in Nat :
           /\ Len(s) = Start(m) /\ Leading(s, m)
           /\ \A j \in 0 .. m - 1, p \in 1 .. Parts :
                s[Start(j) + p] = [doc |-> s[Start(j) + 1].doc, part |-> p]
<1>1. PICK m \in 0 .. Len(s) : Len(s) = Start(m) /\ Leading(s, m) BY DEF WholeDocs
<1>2. m \in Nat OBVIOUS
<1>3. \A j \in 0 .. m - 1, p \in 1 .. Parts :
        s[Start(j) + p] = [doc |-> s[Start(j) + 1].doc, part |-> p]
  BY <1>1, <1>2, LeadingParts
<1> QED BY <1>1, <1>2, <1>3

LEMMA PartsWhole ==
  ASSUME NEW s \in Seq(Piece), NEW m \in Nat, Len(s) = Start(m),
         \A j \in 0 .. m - 1, p \in 1 .. Parts :
           s[Start(j) + p] = [doc |-> s[Start(j) + 1].doc, part |-> p]
  PROVE  WholeDocs(s)
<1>1. m \in 0 .. Len(s) BY Starts
<1>2. Start(m) <= Len(s) BY Starts
<1>3. Leading(s, m) BY <1>2, LeadingParts
<1> QED BY <1>1, <1>3 DEF WholeDocs

\* The loop stops when less than a document is left.
LEMMA LoopEmpties ==
  ASSUME NEW b \in Seq(Piece), NEW c \in Seq(Piece), WholeDocs(b \o c)
  PROVE  Len(b) - Start(ParsedDocs(b)) < Parts
<1> DEFINE s == b \o c
           k == ParsedDocs(b)
<1>1. k \in Nat /\ Leading(b, k) /\ \A n \in Nat : Leading(b, n) => n <= k BY ParsedIs
<1>2. s \in Seq(Piece) /\ Len(s) = Len(b) + Len(c) /\ Len(b) \in Nat /\ Len(c) \in Nat BY Concat
<1> HIDE DEF k
<1> SUFFICES ASSUME Len(b) - Start(k) >= Parts PROVE FALSE
  <2>1. Start(k) \in Nat BY <1>1, Starts
  <2> QED BY <1>2, <2>1, EventsAssumption DEF k
<1>3. PICK m \in Nat : /\ Len(s) = Start(m) /\ Leading(s, m)
                       /\ \A j \in 0 .. m - 1, p \in 1 .. Parts :
                            s[Start(j) + p] = [doc |-> s[Start(j) + 1].doc, part |-> p] BY <1>2, WholeParts
<1> HIDE DEF s
<1>4. Start(k) \in Nat /\ Start(k + 1) = Start(k) + Parts /\ Start(m) \in Nat BY <1>1, Starts
<1>5. Start(k + 1) <= Len(b) BY <1>2, <1>4, EventsAssumption
<1>6. k + 1 <= m
  <2> SUFFICES ASSUME m < k + 1 PROVE FALSE BY <1>1
  <2>1. Start(m) + Parts <= Start(k + 1) BY <1>1, StartsApart
  <2> QED BY <1>2, <1>3, <1>4, <1>5, <2>1, EventsAssumption
<1>7. \A j \in 0 .. (k + 1) - 1, p \in 1 .. Parts :
        s[Start(j) + p] = [doc |-> s[Start(j) + 1].doc, part |-> p] BY <1>1, <1>3, <1>6
<1>8. Start(k + 1) <= Len(s) BY <1>2, <1>4, <1>5, EventsAssumption
<1>9. Leading(s, k + 1)
  <2>1. k + 1 \in Nat BY <1>1
  <2> QED BY <1>2, <1>7, <1>8, <2>1, LeadingParts
<1>10. Leading(b, k + 1)
  <2>1. k + 1 \in Nat BY <1>1
  <2> QED BY <1>5, <1>9, <2>1, LeadingPrefix DEF s
<1> QED BY <1>1, <1>10

\* Without the first documents the others remain.
LEMMA RestWhole ==
  ASSUME NEW s \in Seq(Piece), NEW r \in Seq(Piece), NEW k \in Nat, WholeDocs(s),
         Start(k) <= Len(s), Len(r) = Len(s) - Start(k), \A i \in 1 .. Len(r) : r[i] = s[Start(k) + i]
  PROVE  WholeDocs(r)
<1>1. PICK m \in Nat : /\ Len(s) = Start(m)
                       /\ \A j \in 0 .. m - 1, p \in 1 .. Parts :
                            s[Start(j) + p] = [doc |-> s[Start(j) + 1].doc, part |-> p] BY WholeParts
<1>2. Start(k) \in Nat /\ Start(m) \in Nat BY Starts
<1>3. k <= m
  <2> SUFFICES ASSUME m < k PROVE FALSE OBVIOUS
  <2>1. Start(m) + Parts <= Start(k) BY StartsApart
  <2> QED BY <1>1, <1>2, <2>1, EventsAssumption
<1> DEFINE d == m - k
<1>4. d \in Nat /\ m = k + d BY <1>3
<1> HIDE DEF d
<1>5. Start(d) \in Nat /\ Start(m) = Start(k) + Start(d) BY <1>4, Starts
<1>6. Len(r) = Start(d) BY <1>1, <1>2, <1>5
<1>7. ASSUME NEW j \in 0 .. d - 1, NEW p \in 1 .. Parts
      PROVE  r[Start(j) + p] = [doc |-> r[Start(j) + 1].doc, part |-> p]
  <2>1. j \in Nat /\ j < d /\ k + j \in 0 .. m - 1 BY <1>4
  <2>2. Start(j) \in Nat /\ Start(k + j) = Start(k) + Start(j) BY <2>1, Starts
  <2>3. Start(j) + Parts <= Start(d) BY <1>4, <2>1, StartsApart
  <2>4. Start(j) + p \in 1 .. Len(r) /\ Start(j) + 1 \in 1 .. Len(r)
    BY <1>5, <1>6, <2>2, <2>3, EventsAssumption
  <2>5. Start(k) + (Start(j) + p) = Start(k + j) + p /\ Start(k) + (Start(j) + 1) = Start(k + j) + 1
    BY <1>2, <2>2, EventsAssumption
  <2>6. r[Start(j) + p] = s[Start(k + j) + p] /\ r[Start(j) + 1] = s[Start(k + j) + 1] BY <2>4, <2>5
  <2>7. s[Start(k + j) + p] = [doc |-> s[Start(k + j) + 1].doc, part |-> p] BY <1>1, <2>1
  <2> QED BY <2>6, <2>7
<1> QED BY <1>4, <1>6, <1>7, PartsWhole

\* No document.
LEMMA NoDocs == WholeDocs(<<>>)
<1>1. <<>> \in Seq(Piece) /\ 0 \in Nat /\ Len(<<>>) = 0 OBVIOUS
<1>2. Start(0) = 0 BY Starts
<1>3. \A j \in 0 .. 0 - 1, p \in 1 .. Parts :
        (<<>>)[Start(j) + p] = [doc |-> (<<>>)[Start(j) + 1].doc, part |-> p] OBVIOUS
<1> QED BY <1>1, <1>2, <1>3, PartsWhole

\* One document more.
LEMMA OneMore ==
  ASSUME NEW s \in Seq(Piece), WholeDocs(s), NEW d \in Doc
  PROVE  WholeDocs(s \o PiecesOf(d))
<1> DEFINE r == s \o PiecesOf(d)
<1>1. PiecesOf(d) \in Seq(Piece) /\ Len(PiecesOf(d)) = Parts
      /\ \A p \in 1 .. Parts : PiecesOf(d)[p] = [doc |-> d, part |-> p]
  BY EventsAssumption DEF PiecesOf, Piece
<1>2. /\ r \in Seq(Piece) /\ Len(r) = Len(s) + Parts
      /\ \A i \in 1 .. Len(s) + Parts : r[i] = IF i <= Len(s) THEN s[i] ELSE PiecesOf(d)[i - Len(s)]
  BY <1>1, Concat
<1>3. PICK m \in Nat : /\ Len(s) = Start(m)
                       /\ \A j \in 0 .. m - 1, p \in 1 .. Parts :
                            s[Start(j) + p] = [doc |-> s[Start(j) + 1].doc, part |-> p] BY WholeParts
<1> HIDE DEF r
<1>4. m + 1 \in Nat /\ Start(m) \in Nat /\ Start(m + 1) = Start(m) + Parts
  <2>1. m \in Nat OBVIOUS
  <2>2. m + 1 \in Nat BY ONLY <2>1
  <2> QED BY ONLY <2>1, <2>2, Starts
<1>5. ASSUME NEW j \in 0 .. (m + 1) - 1, NEW p \in 1 .. Parts
      PROVE  r[Start(j) + p] = [doc |-> r[Start(j) + 1].doc, part |-> p]
  <2>0. j \in Nat OBVIOUS
  <2>1. j \in Nat /\ Start(j) \in Nat BY ONLY <2>0, Starts
  <2>2. CASE j < m
    <3>1. Start(j) + Parts <= Start(m) BY <2>1, <2>2, StartsApart
    <3>2. Start(j) + p \in 1 .. Len(s) /\ Start(j) + 1 \in 1 .. Len(s)
      BY <1>3, <1>4, <2>1, <3>1, EventsAssumption
    <3>3. r[Start(j) + p] = s[Start(j) + p] /\ r[Start(j) + 1] = s[Start(j) + 1]
      BY <1>2, <3>2, EventsAssumption
    <3>4. j \in 0 .. m - 1 BY <2>1, <2>2
    <3> QED BY <1>3, <3>3, <3>4
  <2>3. CASE j = m
    <3>1. /\ Start(j) + p \in 1 .. Len(s) + Parts /\ Start(j) + 1 \in 1 .. Len(s) + Parts
          /\ ~(Start(j) + p <= Len(s)) /\ ~(Start(j) + 1 <= Len(s))
          /\ (Start(j) + p) - Len(s) = p /\ (Start(j) + 1) - Len(s) = 1 /\ 1 \in 1 .. Parts
      BY <1>3, <1>4, <2>3, EventsAssumption
    <3>2. r[Start(j) + p] = PiecesOf(d)[p] /\ r[Start(j) + 1] = PiecesOf(d)[1] BY <1>2, <3>1
    <3> QED BY <1>1, <3>1, <3>2
  <2> QED BY <2>2, <2>3
<1>6. Len(r) = Start(m + 1) BY <1>2, <1>3, <1>4
<1> QED BY <1>2, <1>4, <1>5, <1>6, PartsWhole DEF r

\* The documents that end behind the first n parts are those the loop parses.
LEMMA Completed ==
  ASSUME NEW b \in Seq(Piece), NEW c \in Seq(Piece), WholeDocs(b \o c),
         NEW n \in Nat, n < Parts, n <= Len(b)
  PROVE  /\ \A i \in n + 1 .. Len(b) : b[i].part = Parts =>
              \E j \in 1 .. ParsedDocs(b) : b[Start(j - 1) + 1].doc = b[i].doc
         /\ \A j \in 1 .. ParsedDocs(b) : \E i \in n + 1 .. Len(b) :
              b[i].part = Parts /\ b[i].doc = b[Start(j - 1) + 1].doc
<1> DEFINE s == b \o c
           k == ParsedDocs(b)
<1>1. k \in Nat /\ Leading(b, k) BY ParsedIs
<1>2. Len(b) - Start(k) < Parts BY LoopEmpties
<1>3. /\ s \in Seq(Piece) /\ Len(s) = Len(b) + Len(c) /\ Len(b) \in Nat /\ Len(c) \in Nat
      /\ \A i \in 1 .. Len(b) : s[i] = b[i] BY Concat
<1>4. PICK m \in Nat : /\ Len(s) = Start(m)
                       /\ \A j \in 0 .. m - 1, p \in 1 .. Parts :
                            s[Start(j) + p] = [doc |-> s[Start(j) + 1].doc, part |-> p] BY <1>3, WholeParts
<1> HIDE DEF s, k
<1>5. Start(k) \in Nat /\ Start(m) \in Nat BY <1>1, <1>4, Starts
<1>6. ASSUME NEW i \in n + 1 .. Len(b), b[i].part = Parts
      PROVE  \E j \in 1 .. k : b[Start(j - 1) + 1].doc = b[i].doc
  <2>1. i \in Nat \ {0} /\ i \in 1 .. Len(b) BY <1>3
  <2>2. PICK j \in Nat, p \in 1 .. Parts : i = Start(j) + p BY <2>1, Position
  <2>3. Start(j) \in Nat /\ p \in Nat /\ p >= 1 /\ p <= Parts
    <3>1. j \in Nat OBVIOUS
    <3>2. Start(j) \in Nat BY ONLY <3>1, Starts
    <3> QED BY <3>2, EventsAssumption
  <2>4. j < m
    <3> SUFFICES ASSUME ~(j < m) PROVE FALSE OBVIOUS
    <3>1. j = m \/ m < j OBVIOUS
    <3>2. m < j => Start(m) + Parts <= Start(j) BY ONLY m \in Nat, j \in Nat, StartsApart
    <3>3. Start(m) <= Start(j) BY <1>5, <2>3, <3>1, <3>2, EventsAssumption
    <3>4. i <= Len(s) BY <1>3, <2>1
    <3> QED BY <1>4, <1>5, <2>2, <2>3, <3>3, <3>4
  <2>5. s[i] = [doc |-> s[Start(j) + 1].doc, part |-> p] BY <1>4, <2>2, <2>4
  <2>6. p = Parts /\ s[i] = b[i] BY <1>3, <1>6, <2>1, <2>5
  <2>7. Start(j) + 1 \in 1 .. Len(b) BY <1>3, <2>1, <2>2, <2>3
  <2>8. b[Start(j) + 1].doc = b[i].doc BY <1>3, <2>5, <2>6, <2>7
  <2>9. j < k
    <3> SUFFICES ASSUME ~(j < k) PROVE FALSE OBVIOUS
    <3>1. j = k \/ k < j BY <1>1
    <3>2. k < j => Start(k) + Parts <= Start(j) BY ONLY <1>1, j \in Nat, StartsApart
    <3>3. Start(k) <= Start(j) BY <1>5, <2>3, <3>1, <3>2, EventsAssumption
    <3>4. Start(j) + Parts <= Len(b) BY <2>1, <2>2, <2>6
    <3> QED BY <1>2, <1>3, <1>5, <2>3, <3>3, <3>4, EventsAssumption DEF k
  <2>10. j + 1 \in 1 .. k /\ (j + 1) - 1 = j BY <1>1, <2>9
  <2> QED BY <2>8, <2>10
<1>7. ASSUME NEW j \in 1 .. k
      PROVE  \E i \in n + 1 .. Len(b) : b[i].part = Parts /\ b[i].doc = b[Start(j - 1) + 1].doc
  <2>1. j - 1 \in Nat /\ j - 1 \in 0 .. k - 1 /\ j - 1 < k BY <1>1
  <2>2. Start(j - 1) \in Nat BY ONLY <2>1, Starts
  <2>3. Start(j - 1) + Parts <= Start(k) BY ONLY <1>1, <2>1, StartsApart
  <2>4. Start(k) <= Len(b) BY <1>1 DEF Leading
  <2> DEFINE i == Start(j - 1) + Parts
  <2>5. i \in n + 1 .. Len(b) BY <1>3, <1>5, <2>2, <2>3, <2>4, EventsAssumption
  <2>6. Parts \in 1 .. Parts BY EventsAssumption
  <2>7. b[i] = [doc |-> b[Start(j - 1) + 1].doc, part |-> Parts] BY <1>1, <2>1, <2>6, LeadingParts
  <2> QED BY <2>5, <2>7
<1> QED BY <1>6, <1>7 DEF k

\* The events of the documents that are parsed.
LEMMA EventsOf ==
  ASSUME NEW b \in Seq(Piece), NEW k \in Nat, Leading(b, k)
  PROVE  /\ Dispatched(b, k) \in Seq(Event) /\ Len(Dispatched(b, k)) = k
         /\ \A j \in 1 .. k : /\ Dispatched(b, k)[j] = Handed(b[Start(j - 1) + 1].doc)
                              /\ Dispatched(b, k)[j].doc = b[Start(j - 1) + 1].doc
<1>1. ASSUME NEW j \in 1 .. k PROVE b[Start(j - 1) + 1].doc \in Doc
  <2>1. j - 1 \in Nat /\ j - 1 < k OBVIOUS
  <2>2. Start(j - 1) \in Nat /\ Start(k) \in Nat BY ONLY <2>1, k \in Nat, Starts
  <2>3. Start(j - 1) + Parts <= Start(k) BY ONLY <2>1, k \in Nat, StartsApart
  <2>4. Start(k) <= Len(b) BY DEF Leading
  <2>5. Start(j - 1) + 1 \in 1 .. Len(b) BY <2>2, <2>3, <2>4, EventsAssumption
  <2>6. b[Start(j - 1) + 1] \in Piece BY <2>5
  <2> QED BY <2>6 DEF Piece
<1>2. \A d \in Doc : Handed(d) \in Event /\ Handed(d).doc = d BY DEF Handed, Event
<1>3. \A j \in 1 .. k : Handed(b[Start(j - 1) + 1].doc) \in Event BY <1>1, <1>2
<1>4. Dispatched(b, k) = [j \in 1 .. k |-> Handed(b[Start(j - 1) + 1].doc)] BY DEF Dispatched
<1>5. Dispatched(b, k) \in Seq(Event) /\ Len(Dispatched(b, k)) = k BY <1>3, <1>4
<1> QED BY <1>1, <1>2, <1>4, <1>5

-----------------------------------------------------------------------------
(* The steps.                                                                *)

LEMMA EventsStart == EvInit => EventsInv
<1> SUFFICES ASSUME EvInit PROVE EventsInv OBVIOUS
<1>1. EvTypeOK
  <2>1. rt_json_buf = <<>> /\ stream = <<>> /\ delivered = <<>> /\ whole = {} /\ capacity = 0 /\ block = 0
        /\ nextDoc = 1 /\ drops = 0 /\ cut = FALSE BY DEF EvInit
  <2>2. <<>> \in Seq(Piece) /\ <<>> \in Seq(Event) /\ Len(<<>>) <= 0 /\ 0 \in Nat OBVIOUS
  <2>3. 1 \in 1 .. MaxDocs + 1 /\ 0 \in 0 .. MaxDrops BY EventsAssumption
  <2> QED BY <2>1, <2>2, <2>3 DEF EvTypeOK
<1>2. DeliveredInOrder BY DEF EvInit, DeliveredInOrder
<1>3. WholeEventsDelivered BY EventsAssumption DEF EvInit, WholeEventsDelivered
<1>4. pending = <<>> BY DEF EvInit, pending
<1>5. PendingOrdered /\ NumbersUsed BY <1>4 DEF PendingOrdered, NumbersUsed, EvInit
<1>6. WholeDocs(<<>>) BY NoDocs
<1>7. PendingWhole /\ Allocated BY <1>4, <1>6 DEF PendingWhole, Allocated, EvInit
<1> QED BY <1>1, <1>2, <1>3, <1>5, <1>7 DEF EventsInv, EventsDelivered

\* The buffer is large enough when a fragment of n parts is copied into it.
LEMMA Fits ==
  ASSUME EventsInv, NEW n \in 1 .. Len(stream)
  PROVE  /\ Grown(Len(rt_json_buf), n) \in Nat /\ Len(rt_json_buf) + n <= Grown(Len(rt_json_buf), n)
         /\ Grown(Len(rt_json_buf), n) = capacity => block # 0
<1>1. /\ Len(rt_json_buf) \in Nat /\ n \in Nat /\ n > 0 /\ capacity \in Nat /\ block \in Nat
      /\ Len(rt_json_buf) <= capacity /\ (block = 0 => rt_json_buf = <<>> /\ capacity = 0)
      /\ (~cut => block = capacity)
  BY DEF EventsInv, EventsDelivered, EvTypeOK, Allocated, PendingWhole
<1>2. block = 0 => Len(rt_json_buf) = 0 BY <1>1
<1>3. CASE block = 0
  <2>1. Grown(Len(rt_json_buf), n) = n * 2 BY <1>3 DEF Grown
  <2> QED BY <1>1, <1>2, <1>3, <2>1
<1>4. CASE block # 0 /\ capacity < Len(rt_json_buf) + n
  <2>1. Grown(Len(rt_json_buf), n) = (Len(rt_json_buf) + n) * 2 BY <1>4 DEF Grown
  <2> QED BY <1>1, <1>2, <1>4, <2>1
<1>5. CASE block # 0 /\ ~(capacity < Len(rt_json_buf) + n)
  <2>1. Grown(Len(rt_json_buf), n) = capacity BY <1>5 DEF Grown
  <2> QED BY <1>1, <1>2, <1>5, <2>1
<1> QED BY <1>3, <1>4, <1>5

\* What a fragment does: k documents leave the front of the pending parts.
LEMMA ReceiveMoves ==
  ASSUME EventsInv, NEW n \in 1 .. Len(stream), RtReceive(n)
  PROVE  LET b == rt_json_buf \o Fragment(n)
             k == ParsedDocs(b)
         IN  /\ b \in Seq(Piece) /\ stream' \in Seq(Piece) /\ pending \in Seq(Piece)
             /\ b \o stream' = pending /\ Len(b) = Len(rt_json_buf) + n
             /\ k \in Nat /\ Leading(b, k) /\ Leading(pending, k)
             /\ Start(k) \in Nat /\ Start(k) <= Len(b)
             /\ rt_json_buf' \in Seq(Piece) /\ Len(rt_json_buf') = Len(b) - Start(k)
             /\ pending' \in Seq(Piece) /\ Len(pending') = Len(pending) - Start(k)
             /\ \A i \in 1 .. Len(pending') : pending'[i] = pending[Start(k) + i]
<1> DEFINE b == rt_json_buf \o Fragment(n)
           k == ParsedDocs(b)
<1>1. rt_json_buf \in Seq(Piece) /\ stream \in Seq(Piece) BY DEF EventsInv, EventsDelivered, EvTypeOK
<1>2. /\ b \in Seq(Piece) /\ stream' \in Seq(Piece) /\ Len(b) = Len(rt_json_buf) + n /\ b \o stream' = pending
      /\ stream' = SubSeq(stream, n + 1, Len(stream))
  <2>1. stream' = SubSeq(stream, n + 1, Len(stream)) BY DEF RtReceive
  <2>2. /\ b \in Seq(Piece) /\ SubSeq(stream, n + 1, Len(stream)) \in Seq(Piece) /\ Len(b) = Len(rt_json_buf) + n
        /\ b \o SubSeq(stream, n + 1, Len(stream)) = pending
    <3>1. b = rt_json_buf \o SubSeq(stream, 1, n) /\ pending = rt_json_buf \o stream BY DEF Fragment, pending
    <3> HIDE DEF b
    <3> QED BY ONLY <1>1, <3>1, n \in 1 .. Len(stream), Moved
  <2> HIDE DEF b
  <2> QED BY ONLY <2>1, <2>2
<1>3. rt_json_buf' = Rest(b, k) BY DEF RtReceive
<1> HIDE DEF b
<1>4. k \in Nat /\ Leading(b, k) BY <1>2, ParsedIs
<1> HIDE DEF k
<1>5. Start(k) <= Len(b) BY <1>4 DEF Leading
<1>6. Start(k) \in Nat BY <1>4, Starts
<1>7. Leading(pending, k) BY <1>2, <1>4, <1>5, LeadingPrefix
<1>8. Start(k) \in 0 .. Len(b) /\ Len(b) \in Nat BY <1>2, <1>5, <1>6
<1>9. rt_json_buf' = SubSeq(b, Start(k) + 1, Len(b)) /\ pending' = SubSeq(b, Start(k) + 1, Len(b)) \o stream'
  BY <1>3 DEF Rest, pending
<1> DEFINE c == stream'
           m == Start(k)
           r == SubSeq(b, m + 1, Len(b))
<1>10. b \in Seq(Piece) /\ c \in Seq(Piece) /\ m \in 0 .. Len(b) BY <1>2, <1>8
<1>11. rt_json_buf' = r /\ pending' = r \o c /\ pending = b \o c BY <1>2, <1>9
<1> HIDE DEF c, m
<1>12. /\ r \in Seq(Piece) /\ Len(r) = Len(b) - m
       /\ r \o c \in Seq(Piece) /\ Len(r \o c) = Len(b) + Len(c) - m
       /\ \A i \in 1 .. Len(b) + Len(c) - m : (r \o c)[i] = (b \o c)[m + i] BY <1>10, Dropped
<1>13. b \o c \in Seq(Piece) /\ Len(b \o c) = Len(b) + Len(c) BY <1>10, Concat
<1> HIDE DEF r
<1>14. /\ rt_json_buf' \in Seq(Piece) /\ Len(rt_json_buf') = Len(b) - m
       /\ pending' \in Seq(Piece) /\ Len(pending') = Len(pending) - m
       /\ \A i \in 1 .. Len(pending') : pending'[i] = pending[m + i]
  <2>1. rt_json_buf' \in Seq(Piece) /\ Len(rt_json_buf') = Len(b) - m BY ONLY <1>11, <1>12
  <2>2. pending' \in Seq(Piece) BY ONLY <1>11, <1>12
  <2>3. Len(pending') = Len(b) + Len(c) - m BY ONLY <1>11, <1>12
  <2>4. Len(pending) = Len(b) + Len(c) BY ONLY <1>11, <1>13
  <2>5. Len(pending') = Len(pending) - m
    <3>1. Len(b) \in Nat /\ Len(c) \in Nat /\ m \in Nat BY <1>10
    <3> QED BY ONLY <2>3, <2>4, <3>1
  <2>6. \A i \in 1 .. Len(b) + Len(c) - m : pending'[i] = pending[m + i] BY ONLY <1>11, <1>12
  <2> QED BY ONLY <2>1, <2>2, <2>3, <2>5, <2>6
<1> HIDE DEF pending, Leading, ParsedDocs, Start
<1> QED BY <1>2, <1>4, <1>5, <1>6, <1>7, <1>11, <1>13, <1>14 DEF b, k, c, m

\* The documents that are parsed: in order, later than every earlier event, and
\* earlier than every part that remains.
LEMMA ParsedInOrder ==
  ASSUME NEW s \in Seq(Piece), NEW k \in Nat, Leading(s, k),
         \A i, j \in 1 .. Len(s) : i < j => Before(s[i], s[j])
  PROVE  \A j \in 1 .. k : \A i \in 1 .. Len(s) :
           Start(j - 1) + Parts < i => s[Start(j - 1) + 1].doc.id < s[i].doc.id
<1> SUFFICES ASSUME NEW j \in 1 .. k, NEW i \in 1 .. Len(s), Start(j - 1) + Parts < i
             PROVE  s[Start(j - 1) + 1].doc.id < s[i].doc.id OBVIOUS
<1> DEFINE a == Start(j - 1)
<1>1. j - 1 \in Nat /\ j - 1 \in 0 .. k - 1 /\ Parts \in 1 .. Parts BY EventsAssumption
<1>2. a \in Nat BY ONLY <1>1, Starts
<1>3. s[a + Parts] = [doc |-> s[a + 1].doc, part |-> Parts] BY <1>1, LeadingParts
<1>4. a + Parts \in 1 .. Len(s) BY <1>2, EventsAssumption
<1> HIDE DEF a
<1>5. Before(s[a + Parts], s[i]) BY <1>4 DEF a
<1>6. s[i] \in Piece BY <1>4
<1>7. ~(Parts < s[i].part) BY <1>6, EventsAssumption DEF Piece
<1> QED BY <1>3, <1>5, <1>7 DEF Before, a

\* rt_recv_cb keeps the invariant.
LEMMA ReceiveStep ==
  ASSUME EventsInv, NEW n \in 1 .. Len(stream), RtReceive(n)
  PROVE  EventsInv'
<1> DEFINE b == rt_json_buf \o Fragment(n)
           k == ParsedDocs(b)
           e == Dispatched(b, k)
<1>1. /\ b \in Seq(Piece) /\ stream' \in Seq(Piece) /\ pending \in Seq(Piece)
      /\ b \o stream' = pending /\ Len(b) = Len(rt_json_buf) + n
      /\ k \in Nat /\ Leading(b, k) /\ Leading(pending, k)
      /\ Start(k) \in Nat /\ Start(k) <= Len(b)
      /\ rt_json_buf' \in Seq(Piece) /\ Len(rt_json_buf') = Len(b) - Start(k)
      /\ pending' \in Seq(Piece) /\ Len(pending') = Len(pending) - Start(k)
      /\ \A i \in 1 .. Len(pending') : pending'[i] = pending[Start(k) + i]
  BY ReceiveMoves
<1>2. /\ delivered' = delivered \o e /\ whole' = whole \cup Completes(n)
      /\ capacity' = Grown(Len(rt_json_buf), n)
      /\ block' = IF capacity' # capacity THEN capacity' ELSE block
      /\ UNCHANGED <<nextDoc, drops, cut>> BY DEF RtReceive
<1>3. EvTypeOK /\ WholeEventsDelivered /\ DeliveredInOrder /\ PendingOrdered /\ NumbersUsed
      /\ PendingWhole /\ Allocated BY DEF EventsInv, EventsDelivered
<1>4. /\ e \in Seq(Event) /\ Len(e) = k
      /\ \A j \in 1 .. k : e[j] = Handed(b[Start(j - 1) + 1].doc) /\ e[j].doc = b[Start(j - 1) + 1].doc
  BY <1>1, EventsOf
<1> HIDE DEF e
<1>5. delivered \in Seq(Event) BY <1>3 DEF EvTypeOK
<1>6. /\ delivered' \in Seq(Event) /\ Len(delivered') = Len(delivered) + k
      /\ \A i \in 1 .. Len(delivered) : delivered'[i] = delivered[i]
      /\ \A j \in 1 .. k : delivered'[Len(delivered) + j] = e[j]
      /\ \A i \in 1 .. Len(delivered') : i > Len(delivered) =>
           i - Len(delivered) \in 1 .. k /\ delivered'[i] = e[i - Len(delivered)]
  <2>1. /\ delivered \o e \in Seq(Event) /\ Len(delivered \o e) = Len(delivered) + Len(e)
        /\ \A i \in 1 .. Len(delivered) : (delivered \o e)[i] = delivered[i]
        /\ \A j \in 1 .. Len(e) : (delivered \o e)[Len(delivered) + j] = e[j]
        /\ \A i \in 1 .. Len(delivered) + Len(e) : i > Len(delivered) =>
             i - Len(delivered) \in 1 .. Len(e) /\ (delivered \o e)[i] = e[i - Len(delivered)]
    BY <1>4, <1>5, Appended
  <2>2. delivered' = delivered \o e /\ Len(e) = k BY <1>2, <1>4
  <2> HIDE DEF k
  <2> QED BY ONLY <2>1, <2>2
<1> HIDE DEF k
<1>7. \A i \in 1 .. Len(b) : b[i] = pending[i]
  <2>1. b \in Seq(Piece) /\ stream' \in Seq(Piece) /\ b \o stream' = pending BY <1>1
  <2>2. \A i \in 1 .. Len(b) : (b \o stream')[i] = b[i] BY ONLY <2>1, Appended
  <2> QED BY ONLY <2>1, <2>2
<1> HIDE DEF b
<1>7a. Len(b) \in Nat /\ Len(b) <= Len(pending) /\ Len(pending) \in Nat
  <2>1. b \in Seq(Piece) /\ stream' \in Seq(Piece) /\ b \o stream' = pending BY <1>1
  <2>2. Len(b \o stream') = Len(b) + Len(stream') BY ONLY <2>1, Concat
  <2>3. Len(b) \in Nat /\ Len(stream') \in Nat BY ONLY <2>1
  <2> QED BY ONLY <2>1, <2>2, <2>3
<1>8. ASSUME NEW j \in 1 .. k
      PROVE  /\ j - 1 \in Nat /\ Start(j - 1) \in Nat /\ Start(j - 1) + Parts <= Start(k)
             /\ Start(j - 1) + 1 \in 1 .. Len(b) /\ Start(j - 1) + 1 \in 1 .. Len(pending)
             /\ e[j].doc = pending[Start(j - 1) + 1].doc
  <2>1. j - 1 \in Nat /\ j - 1 < k BY <1>1
  <2>2. Start(j - 1) \in Nat BY ONLY <2>1, Starts
  <2>3. Start(j - 1) + Parts <= Start(k) BY ONLY <1>1, <2>1, StartsApart
  <2>5. Start(j - 1) + 1 \in 1 .. Len(b) /\ Start(j - 1) + 1 \in 1 .. Len(pending)
    <3>1. Start(k) \in Nat /\ Start(k) <= Len(b) BY <1>1
    <3> QED BY ONLY <1>7a, <2>2, <2>3, <3>1, EventsAssumption
  <2> QED BY <1>4, <1>7, <2>1, <2>2, <2>3, <2>5
<1>9. \A j \in 1 .. k : \A i \in 1 .. Len(pending) :
        Start(j - 1) + Parts < i => e[j].doc.id < pending[i].doc.id
  <2>1. \A i, j \in 1 .. Len(pending) : i < j => Before(pending[i], pending[j]) BY <1>3 DEF PendingOrdered
  <2>2. \A j \in 1 .. k : \A i \in 1 .. Len(pending) :
          Start(j - 1) + Parts < i => pending[Start(j - 1) + 1].doc.id < pending[i].doc.id
    <3>1. pending \in Seq(Piece) /\ k \in Nat /\ Leading(pending, k) BY <1>1
    <3> QED BY ONLY <2>1, <3>1, ParsedInOrder
  <2> QED BY <1>8, <2>2
<1>10. EvTypeOK'
  <2>1. /\ Grown(Len(rt_json_buf), n) \in Nat /\ Len(rt_json_buf) + n <= Grown(Len(rt_json_buf), n)
    BY Fits
  <2>2. capacity \in Nat /\ block \in Nat /\ (~cut => block = capacity) BY <1>3 DEF EvTypeOK, PendingWhole
  <2>3. capacity' \in Nat /\ block' \in Nat /\ (~cut => block' = capacity') BY <1>2, <2>1, <2>2
  <2>4. Len(rt_json_buf') <= capacity'
    <3>1. Len(rt_json_buf') = Len(b) - Start(k) /\ Start(k) \in Nat /\ Len(b) = Len(rt_json_buf) + n BY <1>1
    <3> QED BY ONLY <1>2, <1>7a, <2>1, <3>1
  <2>5. cut' \/ Len(rt_json_buf') <= block' BY <1>2, <2>3, <2>4
  <2>6. whole' \subseteq Doc
    <3>1. \A i \in 1 .. n : stream[i].doc \in Doc
      <4>1. stream \in Seq(Piece) BY <1>3 DEF EvTypeOK
      <4>2. \A i \in 1 .. n : stream[i] \in Piece BY ONLY <4>1, n \in 1 .. Len(stream)
      <4> QED BY <4>2 DEF Piece
    <3>2. Completes(n) \subseteq Doc BY <3>1 DEF Completes
    <3> QED BY <1>2, <1>3, <3>2 DEF EvTypeOK
  <2>7. nextDoc' \in 1 .. MaxDocs + 1 /\ drops' \in 0 .. MaxDrops /\ cut' \in BOOLEAN BY <1>2, <1>3 DEF EvTypeOK
  <2>8. rt_json_buf' \in Seq(Piece) /\ stream' \in Seq(Piece) /\ delivered' \in Seq(Event) BY <1>1, <1>6
  <2> QED BY ONLY <2>3, <2>4, <2>5, <2>6, <2>7, <2>8 DEF EvTypeOK
<1>11. DeliveredInOrder'
  <2> SUFFICES ASSUME NEW x \in 1 .. Len(delivered'), NEW y \in 1 .. Len(delivered'), x < y
               PROVE  delivered'[x].doc.id < delivered'[y].doc.id
    BY <1>6 DEF DeliveredInOrder
  <2> DEFINE m == Len(delivered)
  <2>0. m \in Nat BY <1>5
  <2>1. CASE y <= m
    <3>1. x \in 1 .. m /\ y \in 1 .. m /\ DOMAIN delivered = 1 .. m BY <2>0, <2>1, <1>5
    <3>2. delivered[x].doc.id < delivered[y].doc.id BY <1>3, <3>1 DEF DeliveredInOrder
    <3> QED BY <1>6, <3>1, <3>2
  <2>2. CASE x <= m /\ y > m
    <3>1. x \in 1 .. m /\ delivered'[x] = delivered[x] BY <1>6, <2>0, <2>2
    <3>2. y - m \in 1 .. k /\ delivered'[y] = e[y - m] BY <1>6, <2>2
    <3>3. Start((y - m) - 1) + 1 \in 1 .. Len(pending) /\ e[y - m].doc = pending[Start((y - m) - 1) + 1].doc
      BY <1>8, <3>2
    <3>4. delivered[x].doc.id < pending[Start((y - m) - 1) + 1].doc.id BY <1>3, <3>1, <3>3 DEF PendingOrdered
    <3> QED BY <3>1, <3>2, <3>3, <3>4
  <2>3. CASE x > m
    <3>1. x - m \in 1 .. k /\ y - m \in 1 .. k /\ delivered'[x] = e[x - m] /\ delivered'[y] = e[y - m]
      BY <1>6, <2>0, <2>3
    <3> DEFINE i == x - m
               j == y - m
    <3>2. i \in 1 .. k /\ j \in 1 .. k /\ i < j BY <2>0, <3>1
    <3> HIDE DEF i, j
    <3>3. i - 1 \in Nat /\ j - 1 \in Nat /\ i - 1 < j - 1 BY <1>1, <3>2
    <3>4. Start(i - 1) + Parts <= Start(j - 1) BY ONLY <3>3, StartsApart
    <3>5. Start(i - 1) \in Nat /\ Start(j - 1) \in Nat /\ Start(j - 1) + 1 \in 1 .. Len(pending)
          /\ e[j].doc = pending[Start(j - 1) + 1].doc BY <1>8, <3>2
    <3>6. Start(i - 1) + Parts < Start(j - 1) + 1 BY <3>4, <3>5, EventsAssumption
    <3>7. e[i].doc.id < pending[Start(j - 1) + 1].doc.id BY <1>9, <3>2, <3>5, <3>6
    <3> QED BY <3>1, <3>5, <3>7 DEF i, j
  <2> QED BY <2>0, <2>1, <2>2, <2>3
<1>12. PendingOrdered'
  <2>1. \A i \in 1 .. Len(pending') : Start(k) + i \in 1 .. Len(pending)
    <3>1. Len(pending') = Len(pending) - Start(k) /\ Start(k) \in Nat BY <1>1
    <3> QED BY ONLY <1>7a, <3>1
  <2>2. ASSUME NEW i \in 1 .. Len(pending'), NEW j \in 1 .. Len(pending'), i < j
        PROVE  Before(pending'[i], pending'[j])
    <3>1. Start(k) + i < Start(k) + j BY <1>1, <2>2
    <3>2. Before(pending[Start(k) + i], pending[Start(k) + j]) BY <1>3, <2>1, <3>1 DEF PendingOrdered
    <3> QED BY <1>1, <3>2
  <2>3. ASSUME NEW i \in 1 .. Len(pending'), NEW x \in 1 .. Len(delivered')
        PROVE  delivered'[x].doc.id < pending'[i].doc.id
    <3>1. pending'[i] = pending[Start(k) + i] /\ Start(k) + i \in 1 .. Len(pending) BY <1>1, <2>1
    <3>2. CASE x <= Len(delivered)
      <4>1. x \in 1 .. Len(delivered) /\ delivered'[x] = delivered[x] BY <1>5, <1>6, <3>2
      <4> QED BY <1>3, <3>1, <4>1 DEF PendingOrdered
    <3>3. CASE x > Len(delivered)
      <4> DEFINE j == x - Len(delivered)
      <4>1. j \in 1 .. k /\ delivered'[x] = e[j] BY <1>6, <3>3
      <4> HIDE DEF j
      <4>2. Start(j - 1) \in Nat /\ Start(j - 1) + Parts <= Start(k) BY <1>8, <4>1
      <4>3. Start(j - 1) + Parts < Start(k) + i
        <5>1. Start(k) \in Nat /\ i \in Nat /\ i > 0 BY <1>1
        <5> QED BY ONLY <4>2, <5>1, EventsAssumption
      <4> QED BY <1>9, <3>1, <4>1, <4>3
    <3> QED BY <1>5, <3>2, <3>3
  <2>4. (\A i, j \in 1 .. Len(pending') : i < j => Before(pending'[i], pending'[j]))
        /\ \A i \in 1 .. Len(pending') : \A x \in 1 .. Len(delivered') :
             delivered'[x].doc.id < pending'[i].doc.id BY <2>2, <2>3
  <2> QED BY ONLY <2>4 DEF PendingOrdered, Before
<1>13. NumbersUsed'
  <2>1. \A i \in 1 .. Len(pending') : pending'[i].doc.id < nextDoc
    <3>1. Len(pending') = Len(pending) - Start(k) /\ Start(k) \in Nat BY <1>1
    <3>2. \A i \in 1 .. Len(pending') : Start(k) + i \in 1 .. Len(pending) BY ONLY <1>7a, <3>1
    <3> QED BY <1>1, <1>3, <3>2 DEF NumbersUsed
  <2>2. ASSUME NEW x \in 1 .. Len(delivered') PROVE delivered'[x].doc.id < nextDoc
    <3>2. CASE x <= Len(delivered)
      <4>1. x \in 1 .. Len(delivered) /\ delivered'[x] = delivered[x] BY <1>5, <1>6, <3>2
      <4> QED BY <1>3, <4>1 DEF NumbersUsed
    <3>3. CASE x > Len(delivered)
      <4>1. x - Len(delivered) \in 1 .. k /\ delivered'[x] = e[x - Len(delivered)] BY <1>6, <3>3
      <4> QED BY <1>3, <1>8, <4>1 DEF NumbersUsed
    <3> QED BY <1>5, <3>2, <3>3
  <2>3. nextDoc' = nextDoc BY <1>2
  <2> QED BY ONLY <2>1, <2>2, <2>3 DEF NumbersUsed
<1>14. PendingWhole'
  <2> SUFFICES ASSUME ~cut' PROVE WholeDocs(pending') /\ block' = capacity' BY DEF PendingWhole
  <2>1. ~cut /\ WholeDocs(pending) /\ block = capacity BY <1>2, <1>3 DEF PendingWhole
  <2>2. Start(k) <= Len(pending)
    <3>1. Start(k) \in Nat /\ Start(k) <= Len(b) BY <1>1
    <3> QED BY ONLY <3>1, <1>7a
  <2>3. WholeDocs(pending') BY ONLY <1>1, <2>1, <2>2, RestWhole
  <2>4. block' = capacity' BY <1>2, <2>1
  <2> QED BY <2>3, <2>4
<1>15. Allocated'
  <2>1. Grown(Len(rt_json_buf), n) \in Nat /\ (Grown(Len(rt_json_buf), n) = capacity => block # 0)
        /\ Len(rt_json_buf) + n <= Grown(Len(rt_json_buf), n) BY Fits
  <2>2. Grown(Len(rt_json_buf), n) > 0
    <3>1. Len(rt_json_buf) \in Nat /\ n > 0 BY <1>3 DEF EvTypeOK
    <3> QED BY <2>1, <3>1
  <2>3. block' # 0 BY <1>2, <2>1, <2>2
  <2> QED BY <2>3 DEF Allocated
<1>16. WholeEventsDelivered'
  <2> SUFFICES ASSUME ~cut'
               PROVE  /\ {delivered'[i] : i \in DOMAIN delivered'} = {Handed(d) : d \in whole'}
                      /\ Len(rt_json_buf') < Parts
    BY DEF WholeEventsDelivered, Handed
  <2>1. /\ WholeDocs(b \o stream') /\ Len(rt_json_buf) < Parts
        /\ {delivered[i] : i \in DOMAIN delivered} = {Handed(d) : d \in whole}
    BY <1>1, <1>2, <1>3 DEF PendingWhole, WholeEventsDelivered
  <2>2. Len(rt_json_buf') < Parts
    <3>1. Len(b) - Start(ParsedDocs(b)) < Parts BY ONLY <1>1, <2>1, LoopEmpties
    <3> QED BY <1>1, <3>1 DEF k
  <2> DEFINE m == Len(rt_json_buf)
  <2>3. m \in Nat /\ m <= Len(b) /\ Len(b) = m + n
    <3>1. Len(b) = m + n /\ n \in Nat BY <1>1
    <3>2. m \in Nat BY <1>3 DEF EvTypeOK
    <3> QED BY ONLY <3>1, <3>2
  <2>4. /\ \A i \in m + 1 .. Len(b) : b[i].part = Parts =>
             \E j \in 1 .. ParsedDocs(b) : b[Start(j - 1) + 1].doc = b[i].doc
        /\ \A j \in 1 .. ParsedDocs(b) : \E i \in m + 1 .. Len(b) :
             b[i].part = Parts /\ b[i].doc = b[Start(j - 1) + 1].doc
    BY ONLY <1>1, <2>1, <2>3, Completed
  <2>5. \A i \in 1 .. n : m + i \in m + 1 .. Len(b) /\ b[m + i] = stream[i]
    <3>1. b = rt_json_buf \o SubSeq(stream, 1, n) BY DEF b, Fragment
    <3>2. rt_json_buf \in Seq(Piece) /\ stream \in Seq(Piece) BY <1>3 DEF EvTypeOK
    <3>3. \A i \in 1 .. n : (rt_json_buf \o SubSeq(stream, 1, n))[m + i] = stream[i] BY ONLY <3>2, n \in 1 .. Len(stream)
    <3> QED BY <2>3, <3>1, <3>3
  <2>6. Completes(n) = {b[Start(j - 1) + 1].doc : j \in 1 .. k}
    <3>1. ASSUME NEW d \in Completes(n) PROVE \E j \in 1 .. k : d = b[Start(j - 1) + 1].doc
      <4>1. PICK i \in 1 .. n : stream[i].part = Parts /\ d = stream[i].doc BY DEF Completes
      <4>2. m + i \in m + 1 .. Len(b) /\ b[m + i] = stream[i] BY <2>5
      <4> QED BY <2>4, <4>1, <4>2 DEF k
    <3>2. ASSUME NEW j \in 1 .. k PROVE b[Start(j - 1) + 1].doc \in Completes(n)
      <4>1. PICK i \in m + 1 .. Len(b) : b[i].part = Parts /\ b[i].doc = b[Start(j - 1) + 1].doc BY <2>4 DEF k
      <4>2. i - m \in 1 .. n /\ m + (i - m) = i BY <2>3
      <4>3. b[i] = stream[i - m] BY <2>5, <4>2
      <4> QED BY <4>1, <4>2, <4>3 DEF Completes
    <3> QED BY <3>1, <3>2
  <2>7. {delivered'[i] : i \in DOMAIN delivered'} = {delivered[i] : i \in DOMAIN delivered} \cup {e[j] : j \in 1 .. k}
    <3>1. /\ DOMAIN delivered = 1 .. Len(delivered) /\ DOMAIN delivered' = 1 .. Len(delivered')
          /\ Len(delivered) \in Nat BY <1>5, <1>6
    <3>2. ASSUME NEW i \in 1 .. Len(delivered')
          PROVE  delivered'[i] \in {delivered[x] : x \in 1 .. Len(delivered)} \cup {e[j] : j \in 1 .. k}
      <4>1. CASE i <= Len(delivered)
        <5>1. i \in 1 .. Len(delivered) BY <3>1, <4>1
        <5> QED BY <1>6, <5>1
      <4>2. CASE i > Len(delivered) BY <1>6, <4>2
      <4> QED BY <3>1, <4>1, <4>2
    <3>3. ASSUME NEW i \in 1 .. Len(delivered)
          PROVE  delivered[i] \in {delivered'[x] : x \in 1 .. Len(delivered')}
      <4>1. i \in 1 .. Len(delivered') BY <1>1, <1>6, <3>1
      <4> QED BY <1>6, <4>1
    <3>4. ASSUME NEW j \in 1 .. k PROVE e[j] \in {delivered'[x] : x \in 1 .. Len(delivered')}
      <4>1. Len(delivered) + j \in 1 .. Len(delivered') BY <1>1, <1>6, <3>1
      <4> QED BY <1>6, <4>1
    <3> QED BY <3>1, <3>2, <3>3, <3>4
  <2>8. {e[j] : j \in 1 .. k} = {Handed(d) : d \in Completes(n)} BY <1>4, <2>6
  <2> QED BY <1>2, <2>1, <2>2, <2>7, <2>8
<1> QED BY <1>10, <1>11, <1>12, <1>13, <1>14, <1>15, <1>16 DEF EventsInv, EventsDelivered

\* A document is sent: whole, and later than all others.
LEMMA SendStep ==
  ASSUME EventsInv, NEW kind \in DocKinds, ServerSends(kind)
  PROVE  EventsInv'
<1> DEFINE d == [id |-> nextDoc, kind |-> kind]
           c == PiecesOf(d)
<1>1. /\ EvTypeOK /\ WholeEventsDelivered /\ DeliveredInOrder /\ PendingOrdered /\ NumbersUsed
      /\ PendingWhole /\ Allocated BY DEF EventsInv, EventsDelivered
<1>2. /\ nextDoc <= MaxDocs /\ stream' = stream \o c /\ nextDoc' = nextDoc + 1
      /\ UNCHANGED <<rt_json_buf, capacity, block, drops, cut, whole, delivered>> BY DEF ServerSends
<1>3. rt_json_buf \in Seq(Piece) /\ stream \in Seq(Piece) /\ nextDoc \in 1 .. MaxDocs + 1 /\ nextDoc \in Nat
  BY <1>1, EventsAssumption DEF EvTypeOK
<1>4. d \in Doc BY <1>2, <1>3, EventsAssumption DEF Doc
<1> HIDE DEF d
<1>5. /\ c \in Seq(Piece) /\ Len(c) = Parts
      /\ \A p \in 1 .. Parts : c[p] = [doc |-> d, part |-> p]
  BY <1>4, EventsAssumption DEF PiecesOf, Piece
<1> HIDE DEF c
<1>6. pending \in Seq(Piece) /\ stream' \in Seq(Piece) /\ pending' = pending \o c
  <2>1. pending \in Seq(Piece) /\ stream \o c \in Seq(Piece) BY <1>3, <1>5, Concat DEF pending
  <2>2. rt_json_buf \o (stream \o c) = (rt_json_buf \o stream) \o c BY ONLY <1>3, <1>5, Associative
  <2> QED BY <1>2, <2>1, <2>2 DEF pending
<1>7. /\ pending \o c \in Seq(Piece) /\ Len(pending \o c) = Len(pending) + Len(c)
      /\ \A i \in 1 .. Len(pending) : (pending \o c)[i] = pending[i]
      /\ \A i \in 1 .. Len(pending) + Len(c) : i > Len(pending) =>
           i - Len(pending) \in 1 .. Len(c) /\ (pending \o c)[i] = c[i - Len(pending)]
  <2>1. pending \in Seq(Piece) /\ c \in Seq(Piece) BY <1>5, <1>6
  <2> QED BY <2>1, Appended
<1>8. Len(pending) \in Nat BY <1>6
<1>9. /\ Len(pending') = Len(pending) + Parts
      /\ \A i \in 1 .. Len(pending) : pending'[i] = pending[i]
      /\ \A i \in 1 .. Len(pending) + Parts : i > Len(pending) =>
           pending'[i] = [doc |-> d, part |-> i - Len(pending)]
  BY ONLY <1>5, <1>6, <1>7
<1>10. \A i \in 1 .. Len(pending') :
         \/ i \in 1 .. Len(pending) /\ pending'[i] = pending[i]
         \/ i > Len(pending) /\ pending'[i] = [doc |-> d, part |-> i - Len(pending)] /\ pending'[i].doc = d
  <2> SUFFICES ASSUME NEW i \in 1 .. Len(pending')
               PROVE  \/ i \in 1 .. Len(pending) /\ pending'[i] = pending[i]
                      \/ i > Len(pending) /\ pending'[i] = [doc |-> d, part |-> i - Len(pending)] /\ pending'[i].doc = d
    OBVIOUS
  <2>1. CASE i > Len(pending)
    <3>1. pending'[i] = [doc |-> d, part |-> i - Len(pending)] BY <1>9, <2>1
    <3> QED BY <2>1, <3>1
  <2>2. CASE ~(i > Len(pending))
    <3>1. i \in 1 .. Len(pending) BY <1>8, <1>9, <2>2, EventsAssumption
    <3> QED BY <1>9, <3>1
  <2> QED BY <2>1, <2>2
<1>11. d.id = nextDoc BY DEF d
<1>12. EvTypeOK'
  <2>1. nextDoc' \in 1 .. MaxDocs + 1 BY <1>2, <1>3, EventsAssumption
  <2> QED BY <1>1, <1>2, <1>6, <2>1 DEF EvTypeOK
<1>13. WholeEventsDelivered' /\ DeliveredInOrder' /\ Allocated'
  BY <1>1, <1>2 DEF WholeEventsDelivered, DeliveredInOrder, Allocated, Handed
<1>14. PendingOrdered'
  <2>1. ASSUME NEW i \in 1 .. Len(pending'), NEW j \in 1 .. Len(pending'), i < j
        PROVE  Before(pending'[i], pending'[j])
    <3>1. CASE i \in 1 .. Len(pending) /\ pending'[i] = pending[i] /\ j \in 1 .. Len(pending) /\ pending'[j] = pending[j]
      BY <1>1, <2>1, <3>1 DEF PendingOrdered
    <3>2. CASE i \in 1 .. Len(pending) /\ pending'[i] = pending[i] /\ pending'[j].doc = d
      <4>1. pending[i].doc.id < nextDoc BY <1>1, <3>2 DEF NumbersUsed
      <4> QED BY <1>11, <3>2, <4>1 DEF Before
    <3>3. CASE /\ pending'[i] = [doc |-> d, part |-> i - Len(pending)]
               /\ pending'[j] = [doc |-> d, part |-> j - Len(pending)]
      <4>1. i - Len(pending) < j - Len(pending) BY <1>8, <2>1
      <4> QED BY <3>3, <4>1 DEF Before
    <3>4. ~(i > Len(pending) /\ j \in 1 .. Len(pending)) BY <1>8, <2>1
    <3> QED BY <1>10, <3>1, <3>2, <3>3, <3>4
  <2>2. ASSUME NEW i \in 1 .. Len(pending'), NEW x \in 1 .. Len(delivered)
        PROVE  delivered[x].doc.id < pending'[i].doc.id
    <3>1. CASE i \in 1 .. Len(pending) /\ pending'[i] = pending[i] BY <1>1, <3>1 DEF PendingOrdered
    <3>2. CASE pending'[i].doc = d BY <1>1, <1>11, <3>2 DEF NumbersUsed
    <3> QED BY <1>10, <3>1, <3>2
  <2> QED BY ONLY <1>2, <2>1, <2>2 DEF PendingOrdered, Before
<1>15. NumbersUsed'
  <2>1. ASSUME NEW i \in 1 .. Len(pending') PROVE pending'[i].doc.id < nextDoc + 1
    <3>1. CASE i \in 1 .. Len(pending) /\ pending'[i] = pending[i]
      <4>1. pending[i].doc.id < nextDoc BY <1>1, <3>1 DEF NumbersUsed
      <4>2. pending[i].doc.id \in Nat
        <5>1. pending[i] \in Piece BY <1>6, <3>1
        <5>2. pending[i].doc \in Doc BY <5>1 DEF Piece
        <5> QED BY <5>2, EventsAssumption DEF Doc
      <4> QED BY <1>3, <3>1, <4>1, <4>2
    <3>2. CASE pending'[i].doc = d BY <1>3, <1>11, <3>2
    <3> QED BY <1>10, <3>1, <3>2
  <2>2. ASSUME NEW x \in 1 .. Len(delivered) PROVE delivered[x].doc.id < nextDoc + 1
    <3>1. delivered[x].doc.id < nextDoc BY <1>1 DEF NumbersUsed
    <3>2. delivered[x].doc.id \in Nat
      <4>1. delivered[x] \in Event BY <1>1 DEF EvTypeOK
      <4>2. delivered[x].doc \in Doc BY <4>1 DEF Event
      <4> QED BY <4>2, EventsAssumption DEF Doc
    <3> QED BY <1>3, <3>1, <3>2
  <2> QED BY ONLY <1>2, <2>1, <2>2 DEF NumbersUsed
<1>16. PendingWhole'
  <2> SUFFICES ASSUME ~cut' PROVE WholeDocs(pending') /\ block' = capacity' BY DEF PendingWhole
  <2>1. WholeDocs(pending) /\ block = capacity BY <1>1, <1>2 DEF PendingWhole
  <2>2. WholeDocs(pending \o c) BY <1>4, <1>6, <2>1, OneMore DEF c
  <2> QED BY <1>2, <1>6, <2>1, <2>2
<1> QED BY <1>12, <1>13, <1>14, <1>15, <1>16 DEF EventsInv, EventsDelivered

\* A connection is lost with the parts it carried.
LEMMA ReconnectStep ==
  ASSUME EventsInv, Reconnected
  PROVE  EventsInv'
<1>1. /\ EvTypeOK /\ WholeEventsDelivered /\ DeliveredInOrder /\ PendingOrdered /\ NumbersUsed
      /\ PendingWhole /\ Allocated BY DEF EventsInv, EventsDelivered
<1>2. /\ drops < MaxDrops /\ drops' = drops + 1 /\ stream' = <<>> /\ cut' = (cut \/ rt_json_buf # <<>>)
      /\ UNCHANGED <<rt_json_buf, capacity, block, nextDoc, whole, delivered>> BY DEF Reconnected
<1>3. rt_json_buf \in Seq(Piece) /\ stream \in Seq(Piece) /\ Len(rt_json_buf) \in Nat BY <1>1 DEF EvTypeOK
<1>4. pending' = rt_json_buf BY <1>2, <1>3 DEF pending
<1>5. Len(rt_json_buf) <= Len(pending) /\ \A i \in 1 .. Len(rt_json_buf) : pending[i] = rt_json_buf[i] BY <1>3 DEF pending
<1>6. \A i \in 1 .. Len(rt_json_buf) : i \in 1 .. Len(pending)
  <2>1. Len(pending) \in Nat BY <1>3 DEF pending
  <2> QED BY <1>3, <1>5, <2>1
<1>7. EvTypeOK'
  <2>1. drops' \in 0 .. MaxDrops BY <1>1, <1>2, EventsAssumption DEF EvTypeOK
  <2>2. <<>> \in Seq(Piece) OBVIOUS
  <2>3. cut' \in BOOLEAN /\ (cut' \/ Len(rt_json_buf) <= block) BY <1>1, <1>2 DEF EvTypeOK
  <2> QED BY <1>1, <1>2, <2>1, <2>2, <2>3 DEF EvTypeOK
<1>8. WholeEventsDelivered' /\ DeliveredInOrder' /\ Allocated'
  BY <1>1, <1>2 DEF WholeEventsDelivered, DeliveredInOrder, Allocated, Handed
<1>9. PendingOrdered'
  <2>1. \A i, j \in 1 .. Len(rt_json_buf) : i < j => Before(rt_json_buf[i], rt_json_buf[j]) BY <1>1, <1>5, <1>6 DEF PendingOrdered
  <2>2. \A i \in 1 .. Len(rt_json_buf) : \A x \in 1 .. Len(delivered) : delivered[x].doc.id < rt_json_buf[i].doc.id
    BY <1>1, <1>5, <1>6 DEF PendingOrdered
  <2> QED BY ONLY <1>2, <1>4, <2>1, <2>2 DEF PendingOrdered, Before
<1>10. NumbersUsed' BY <1>1, <1>2, <1>4, <1>5, <1>6 DEF NumbersUsed
<1>11. PendingWhole'
  <2> SUFFICES ASSUME ~cut' PROVE WholeDocs(pending') /\ block' = capacity' BY DEF PendingWhole
  <2>1. pending' = <<>> /\ block = capacity BY <1>1, <1>2, <1>4 DEF PendingWhole
  <2> QED BY <1>2, <2>1, NoDocs
<1> QED BY <1>7, <1>8, <1>9, <1>10, <1>11 DEF EventsInv, EventsDelivered

\* A fragment meets no memory: the parts that are left keep their order.
LEMMA NoMemoryStep ==
  ASSUME EventsInv, NEW n \in 1 .. Len(stream), ReceiveNoMemory(n)
  PROVE  EventsInv'
<1>1. /\ EvTypeOK /\ WholeEventsDelivered /\ DeliveredInOrder /\ PendingOrdered /\ NumbersUsed
      /\ PendingWhole /\ Allocated BY DEF EventsInv, EventsDelivered
<1>2. /\ stream' = SubSeq(stream, n + 1, Len(stream)) /\ capacity' = Grown(Len(rt_json_buf), n) /\ cut' = TRUE
      /\ block # 0 /\ UNCHANGED <<rt_json_buf, block, nextDoc, drops, whole, delivered>> BY DEF ReceiveNoMemory
<1>3. rt_json_buf \in Seq(Piece) /\ stream \in Seq(Piece) BY <1>1 DEF EvTypeOK
<1>4. /\ stream' \in Seq(Piece) /\ Len(stream') = Len(stream) - n
      /\ \A i \in 1 .. Len(stream') : stream'[i] = stream[n + i] BY <1>2, <1>3
<1> DEFINE m == Len(rt_json_buf)
<1>5. m \in Nat /\ Len(stream) \in Nat /\ n \in Nat /\ n <= Len(stream) BY <1>3
<1>6. /\ pending \in Seq(Piece) /\ Len(pending) = m + Len(stream)
      /\ \A i \in 1 .. m : pending[i] = rt_json_buf[i]
      /\ \A i \in 1 .. Len(stream) : pending[m + i] = stream[i]
  BY <1>3, Appended DEF pending
<1>7. /\ Len(pending') = m + Len(stream')
      /\ \A i \in 1 .. m : pending'[i] = rt_json_buf[i]
      /\ \A i \in 1 .. m + Len(stream') : i > m => i - m \in 1 .. Len(stream') /\ pending'[i] = stream'[i - m]
  <2> DEFINE c == stream'
  <2>1. c \in Seq(Piece) BY <1>4
  <2>2. pending' = rt_json_buf \o c BY <1>2 DEF pending
  <2> HIDE DEF c
  <2>3. /\ Len(rt_json_buf \o c) = m + Len(c)
        /\ \A i \in 1 .. m : (rt_json_buf \o c)[i] = rt_json_buf[i]
        /\ \A i \in 1 .. m + Len(c) : i > m => i - m \in 1 .. Len(c) /\ (rt_json_buf \o c)[i] = c[i - m]
    BY <1>3, <2>1, Appended
  <2> QED BY ONLY <2>2, <2>3 DEF c
<1> HIDE DEF m
<1>8. ASSUME NEW i \in 1 .. Len(pending')
      PROVE  /\ (IF i <= m THEN i ELSE n + i) \in 1 .. Len(pending)
             /\ pending'[i] = pending[IF i <= m THEN i ELSE n + i]
  <2>1. CASE i <= m
    <3>1. i \in 1 .. m /\ i \in 1 .. Len(pending) BY <1>5, <1>6, <2>1
    <3> QED BY <1>6, <1>7, <2>1, <3>1
  <2>2. CASE i > m
    <3>1. i \in 1 .. m + Len(stream') BY <1>7
    <3>2. i - m \in 1 .. Len(stream') /\ pending'[i] = stream'[i - m] BY <1>7, <2>2, <3>1
    <3>3. stream'[i - m] = stream[n + (i - m)] BY <1>4, <3>2
    <3>4. n + (i - m) \in 1 .. Len(stream) /\ m + (n + (i - m)) = n + i BY <1>4, <1>5, <3>2
    <3>5. pending[n + i] = stream[n + (i - m)] BY <1>6, <3>4
    <3>6. n + i \in 1 .. Len(pending) /\ ~(i <= m) BY <1>5, <1>6, <2>2, <3>4
    <3> QED BY <3>2, <3>3, <3>5, <3>6
  <2> QED BY <1>5, <2>1, <2>2
<1>9. EvTypeOK'
  <2>1. capacity' \in Nat /\ Len(rt_json_buf) <= capacity' BY <1>2, <1>5, Fits DEF m
  <2> QED BY <1>1, <1>2, <1>4, <2>1 DEF EvTypeOK
<1>10. WholeEventsDelivered' /\ DeliveredInOrder' /\ Allocated' /\ PendingWhole'
  BY <1>1, <1>2 DEF WholeEventsDelivered, DeliveredInOrder, Allocated, PendingWhole
<1>11. PendingOrdered'
  <2>1. ASSUME NEW i \in 1 .. Len(pending'), NEW j \in 1 .. Len(pending'), i < j
        PROVE  Before(pending'[i], pending'[j])
    <3>1. (IF i <= m THEN i ELSE n + i) < (IF j <= m THEN j ELSE n + j) BY <1>5, <2>1
    <3> QED BY <1>1, <1>8, <3>1 DEF PendingOrdered
  <2>2. \A i \in 1 .. Len(pending') : \A x \in 1 .. Len(delivered) : delivered[x].doc.id < pending'[i].doc.id
    BY <1>1, <1>8 DEF PendingOrdered
  <2> QED BY ONLY <1>2, <2>1, <2>2 DEF PendingOrdered, Before
<1>12. NumbersUsed' BY <1>1, <1>2, <1>8 DEF NumbersUsed
<1> QED BY <1>9, <1>10, <1>11, <1>12 DEF EventsInv, EventsDelivered

LEMMA EventsStep == EventsInv /\ [EvNext]_evVars => EventsInv'
<1> SUFFICES ASSUME EventsInv, [EvNext]_evVars PROVE EventsInv' OBVIOUS
<1>1. CASE \E k \in DocKinds : ServerSends(k) BY <1>1, SendStep
<1>2. CASE \E n \in 1 .. Len(stream) : RtReceive(n) BY <1>2, ReceiveStep
<1>3. CASE \E n \in 1 .. Len(stream) : ReceiveNoMemory(n) BY <1>3, NoMemoryStep
<1>4. CASE Reconnected BY <1>4, ReconnectStep
<1>5. CASE UNCHANGED evVars
  <2>1. UNCHANGED <<rt_json_buf, capacity, block, stream, nextDoc, drops, cut, whole, delivered>> BY <1>5 DEF evVars
  <2>2. pending' = pending BY <2>1 DEF pending
  <2>3. EvTypeOK' /\ WholeEventsDelivered' /\ DeliveredInOrder'
    BY <2>1 DEF EventsInv, EventsDelivered, EvTypeOK, WholeEventsDelivered, DeliveredInOrder, Handed
  <2>4. PendingOrdered' /\ NumbersUsed' /\ PendingWhole' /\ Allocated'
    BY <2>1, <2>2 DEF EventsInv, PendingOrdered, NumbersUsed, PendingWhole, Allocated, Before
  <2> QED BY <2>3, <2>4 DEF EventsInv, EventsDelivered
<1> QED BY <1>1, <1>2, <1>3, <1>4, <1>5 DEF EvNext

\* For every number of parts, documents, connections and failing allocations, and
\* every way to cut the stream in fragments: until a part is lost, rt_recv_cb has
\* handed over exactly the documents that have arrived whole; no document is handed
\* over twice or after a later one, whatever is lost; the buffer is large enough.
THEOREM EventsReassembled == EvSpec => []EventsDelivered
<1>1. EventsInv => EventsDelivered BY DEF EventsInv
<1> QED BY <1>1, EventsStart, EventsStep, PTL DEF EvSpec
=================================================================================
