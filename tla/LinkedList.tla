------------------------------ MODULE LinkedList ------------------------------
(* aws-c-common's intrusive doubly linked list (linked_list.c), pointer by     *)
(* pointer: two lists that exchange nodes the caller owns.                     *)
EXTENDS Naturals, SequencesExt, FiniteSetsExt

CONSTANTS LlLists,  \* the struct aws_linked_list objects
          LlNodes   \* nodes embedded in the caller's objects

VARIABLE llHeap     \* next and prev of every node, the lists' own included

LlHead(l) == <<l, "head">>
LlTail(l) == <<l, "tail">>
Null == <<>>
LlCells == LlNodes \union { LlHead(l) : l \in LlLists } \union { LlTail(l) : l \in LlLists }

\* aws_linked_list_init
EmptyList(h, l) == [h EXCEPT !.next[LlHead(l)] = LlTail(l), !.prev[LlHead(l)] = Null,
                             !.prev[LlTail(l)] = LlHead(l), !.next[LlTail(l)] = Null]
IsEmpty(h, l) == h.next[LlHead(l)] = LlTail(l)

NextIsValid(h, n) == n # Null /\ h.next[n] # Null /\ h.prev[h.next[n]] = n
PrevIsValid(h, n) == n # Null /\ h.prev[n] # Null /\ h.next[h.prev[n]] = n
InList(h, n) == PrevIsValid(h, n) /\ NextIsValid(h, n)

\* The statements of each function in their order: a later one may read what
\* an earlier one wrote.
InsertAfter(h, after, n) ==
  LET h1 == [h EXCEPT !.prev[n] = after, !.next[n] = h.next[after]]
      h2 == [h1 EXCEPT !.prev[h1.next[after]] = n]
  IN  [h2 EXCEPT !.next[after] = n]

InsertBefore(h, before, n) ==
  LET h1 == [h EXCEPT !.next[n] = before, !.prev[n] = h.prev[before]]
      h2 == [h1 EXCEPT !.next[h1.prev[before]] = n]
  IN  [h2 EXCEPT !.prev[before] = n]

RemoveNode(h, n) ==
  LET h1 == [h EXCEPT !.next[h.prev[n]] = h.next[n]]
      h2 == [h1 EXCEPT !.prev[h1.next[n]] = h1.prev[n]]
  IN  [h2 EXCEPT !.next[n] = Null, !.prev[n] = Null]

SwapNodes(h, a, b) ==
  LET tmp == [next |-> h.next[b], prev |-> h.prev[b]]
      h1 == [h EXCEPT !.next[h.prev[a]] = b]
      h2 == [h1 EXCEPT !.prev[h1.next[a]] = b]
      h3 == [h2 EXCEPT !.next[tmp.prev] = a]
      h4 == [h3 EXCEPT !.prev[tmp.next] = a]
  IN  IF a = b THEN h
      ELSE [h4 EXCEPT !.next[a] = h4.next[b], !.prev[a] = h4.prev[b],
                      !.next[b] = h4.next[a], !.prev[b] = h4.prev[a]]

\* The tail of swap_contents and of its mirror image: list l takes the chain
\* from first to last.
TakeChain(h, l, first, last) ==
  LET h1 == [h EXCEPT !.next[LlHead(l)] = first]
      h2 == [h1 EXCEPT !.prev[first] = LlHead(l), !.prev[LlTail(l)] = last]
  IN  [h2 EXCEPT !.next[last] = LlTail(l)]
SwapContents(h, a, b) ==
  LET first == h.next[LlHead(a)]
      last == h.prev[LlTail(a)]
      h1 == IF IsEmpty(h, b) THEN EmptyList(h, a)
            ELSE TakeChain(h, a, h.next[LlHead(b)], h.prev[LlTail(b)])
  IN  IF first = LlTail(a) THEN EmptyList(h1, b) ELSE TakeChain(h1, b, first, last)

MoveAllBack(h, dst, src) ==
  LET back == h.prev[LlTail(dst)]
      first == h.next[LlHead(src)]
      last == h.prev[LlTail(src)]
  IN  IF IsEmpty(h, src) THEN h
      ELSE [h EXCEPT !.next[back] = first, !.prev[first] = back,
                     !.prev[LlTail(dst)] = last, !.next[last] = LlTail(dst),
                     !.next[LlHead(src)] = LlTail(src), !.prev[LlTail(src)] = LlHead(src)]
\* Mutant: the nodes go to the wrong end.
MoveAllFrontAtBack(h, dst, src) == MoveAllBack(h, dst, src)
MoveAllFront(h, dst, src) ==
  LET front == h.next[LlHead(dst)]
      first == h.next[LlHead(src)]
      last == h.prev[LlTail(src)]
  IN  IF IsEmpty(h, src) THEN h
      ELSE [h EXCEPT !.next[LlHead(dst)] = first, !.prev[first] = LlHead(dst),
                     !.next[last] = front, !.prev[front] = last,
                     !.next[LlHead(src)] = LlTail(src), !.prev[LlTail(src)] = LlHead(src)]

Unlinked(n) == ~InList(llHeap, n)
LlInit ==
  LET blank == [next |-> [c \in LlCells |-> Null], prev |-> [c \in LlCells |-> Null]]
  IN  llHeap = FoldSet(LAMBDA l, h : EmptyList(h, l), blank, LlLists)

LlPushBack(l, n) == Unlinked(n) /\ llHeap' = InsertBefore(llHeap, LlTail(l), n)
LlPushFront(l, n) == Unlinked(n) /\ llHeap' = InsertBefore(llHeap, llHeap.next[LlHead(l)], n)
LlInsertAfter(m, n) == Unlinked(n) /\ InList(llHeap, m) /\ llHeap' = InsertAfter(llHeap, m, n)
LlInsertBefore(m, n) == Unlinked(n) /\ InList(llHeap, m) /\ llHeap' = InsertBefore(llHeap, m, n)
LlRemove(n) == InList(llHeap, n) /\ llHeap' = RemoveNode(llHeap, n)
LlPopBack(l) == ~IsEmpty(llHeap, l) /\ llHeap' = RemoveNode(llHeap, llHeap.prev[LlTail(l)])
LlPopFront(l) == ~IsEmpty(llHeap, l) /\ llHeap' = RemoveNode(llHeap, llHeap.next[LlHead(l)])
LlSwapNodes(m, n) == InList(llHeap, m) /\ InList(llHeap, n) /\ llHeap' = SwapNodes(llHeap, m, n)
LlSwapContents(l, k) == llHeap' = SwapContents(llHeap, l, k)
LlMoveAllBack(l, k) == llHeap' = MoveAllBack(llHeap, l, k)
LlMoveAllFront(l, k) == llHeap' = MoveAllFront(llHeap, l, k)

LlNext ==
  \/ \E l \in LlLists : LlPopBack(l) \/ LlPopFront(l)
  \/ \E l \in LlLists, n \in LlNodes : LlPushBack(l, n) \/ LlPushFront(l, n)
  \/ \E n \in LlNodes : LlRemove(n)
  \/ \E m, n \in LlNodes : LlInsertAfter(m, n) \/ LlInsertBefore(m, n) \/ LlSwapNodes(m, n)
  \/ \E l, k \in LlLists : l # k /\ (LlSwapContents(l, k) \/ LlMoveAllBack(l, k) \/ LlMoveAllFront(l, k))

LlSpec == LlInit /\ [][LlNext]_llHeap

\* The cells met from c on by following f, at most as many as there are.
Chain(f, c) ==
  LET cell[i \in 0..Cardinality(LlCells)] ==
        IF i = 0 THEN c ELSE IF cell[i - 1] = Null THEN Null ELSE f[cell[i - 1]]
  IN  SelectSeq([i \in 1..Cardinality(LlCells) |-> cell[i]], LAMBDA x : x \in LlNodes)
Contents(l) == Chain(llHeap.next, LlHead(l))

\* aws_linked_list_is_valid_deep, strengthened: from either end every list
\* meets the same nodes, in opposite order, each once and in no other list, and
\* a node outside the lists points nowhere.
ListsWellLinked ==
  /\ \A l \in LlLists :
       /\ Reverse(Contents(l)) = Chain(llHeap.prev, LlTail(l))
       /\ IsInjective(Contents(l))
       /\ \A n \in Range(Contents(l)) \union {LlHead(l)} : NextIsValid(llHeap, n)
  /\ \A l, k \in LlLists : l # k => Range(Contents(l)) \intersect Range(Contents(k)) = {}
  /\ \A n \in LlNodes \ UNION { Range(Contents(l)) : l \in LlLists } :
       llHeap.next[n] = Null /\ llHeap.prev[n] = Null

\* What each call means for the sequences of nodes.
ListStep ==
  /\ \A l \in LlLists, n \in LlNodes :
       /\ LlPushBack(l, n) => Contents(l)' = Append(Contents(l), n)
       /\ LlPushFront(l, n) => Contents(l)' = <<n>> \o Contents(l)
  /\ \A l \in LlLists : /\ LlPopBack(l) => Contents(l)' = Front(Contents(l))
                        /\ LlPopFront(l) => Contents(l)' = Tail(Contents(l))
  /\ \A l \in LlLists : \A i, j \in DOMAIN Contents(l) : \A n \in LlNodes :
       LET s == Contents(l)
       IN  /\ LlRemove(s[i]) => Contents(l)' = RemoveAt(s, i)
           /\ LlInsertBefore(s[i], n) => Contents(l)' = InsertAt(s, i, n)
           /\ LlInsertAfter(s[i], n) => Contents(l)' = InsertAt(s, i + 1, n)
           /\ LlSwapNodes(s[i], s[j]) => Contents(l)' = [s EXCEPT ![i] = s[j], ![j] = s[i]]
  /\ \A l, k \in LlLists : \A i \in DOMAIN Contents(l), j \in DOMAIN Contents(k) :
       l # k /\ LlSwapNodes(Contents(l)[i], Contents(k)[j]) =>
         /\ Contents(l)' = [Contents(l) EXCEPT ![i] = Contents(k)[j]]
         /\ Contents(k)' = [Contents(k) EXCEPT ![j] = Contents(l)[i]]
  /\ \A l, k \in LlLists : l # k =>
       /\ LlSwapContents(l, k) => Contents(l)' = Contents(k) /\ Contents(k)' = Contents(l)
       /\ LlMoveAllBack(l, k) => Contents(l)' = Contents(l) \o Contents(k) /\ Contents(k)' = <<>>
       /\ LlMoveAllFront(l, k) => Contents(l)' = Contents(k) \o Contents(l) /\ Contents(k)' = <<>>

\* What each call means for the sequence of nodes: the lists other than its
\* own, and the order of the nodes it does not name, stay as they are, also
\* when the two nodes of a swap are neighbours and when a list is empty.
\* (Nothing is said of a step that leaves all as it was.)
ListCallsAsSequences == [][llHeap' # llHeap => ListStep]_llHeap /\ []ListsWellLinked
===============================================================================
