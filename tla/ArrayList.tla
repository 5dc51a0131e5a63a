------------------------------- MODULE ArrayList -------------------------------
(* aws-c-common's array list (array_list.c), the container of the cursors that *)
(* topic and URL splitting produce.  Sizes are counted in items.               *)
EXTENDS Integers, SequencesExt, FiniteSetsExt

CONSTANTS AlLists, AlItems,
          StaticLists, \* lists that may be laid over an array of the caller
          StaticSize,  \* items in such an array
          AllocLimit,  \* aws_mem_acquire of more items than this fails
          Garbage      \* memory that holds no item

ASSUME ArrayAssumption ==
  /\ StaticLists \subseteq AlLists /\ StaticSize \in Nat /\ AllocLimit \in Nat

VARIABLES alList,  \* per list: mode, capacity as the length of data, length, data
          alOut    \* result of the last call: "ok", an error, or an item
alVars == <<alList, alOut>>

Blank(n) == [i \in 1..n |-> Garbage]
Zeroed == [mode |-> "zeroed", len |-> 0, data |-> <<>>]
Cap(v) == Len(v.data)
Holds(v) == SubSeq(v.data, 1, v.len)

\* Memory behind the last item counts as garbage, as DEBUG_BUILD fills it.
Trim(v) == [v EXCEPT !.data = Holds(v) \o Blank(Cap(v) - v.len)]

\* memmove/memcpy of src over data, from item i on (1 is the first)
Overwrite(data, i, src) ==
  [j \in DOMAIN data |-> IF j >= i /\ j < i + Len(src) THEN src[j - i + 1] ELSE data[j]]

\* aws_array_list_ensure_capacity: "ok" or an error, and the list
EnsureCapacity(v, index) ==
  LET need == index + 1
      new == IF 2 * Cap(v) > need THEN 2 * Cap(v) ELSE need
  IN  IF Cap(v) >= need THEN <<"ok", v>>
      ELSE IF v.mode = "static" THEN <<"invalid index", v>>
      ELSE IF new > AllocLimit THEN <<"oom", v>>
      ELSE <<"ok", [v EXCEPT !.data = v.data \o Blank(new - Cap(v))]>>

SetAt(v, x, index) ==
  LET e == EnsureCapacity(v, index)
      w == [e[2] EXCEPT !.data[index + 1] = x,
                        !.len = IF index >= v.len THEN index + 1 ELSE @]
  IN  IF e[1] = "ok" THEN <<"ok", w>> ELSE e

\* A static list reports its end differently from the two pushes.
Exceeds(v, r) == IF r[1] = "invalid index" /\ v.mode = "static" THEN <<"exceeds max size", r[2]>> ELSE r
PushBack(v, x) == Exceeds(v, SetAt(v, x, v.len))
PushFront(v, x) ==
  LET e == EnsureCapacity(v, v.len)
      w == e[2]
  IN  IF e[1] # "ok" THEN Exceeds(v, e)
      ELSE <<"ok", [w EXCEPT !.data = Overwrite(Overwrite(w.data, 2, Holds(w)), 1, <<x>>), !.len = @ + 1]>>

ClearList(v) == IF Cap(v) > 0 THEN Trim([v EXCEPT !.len = 0]) ELSE v
PopFrontN(v, n) ==
  IF n >= v.len THEN ClearList(v)
  ELSE Trim([v EXCEPT !.data = Overwrite(v.data, 1, SubSeq(v.data, n + 1, v.len)), !.len = @ - n])
PopFront(v) == IF v.len > 0 THEN <<"ok", PopFrontN(v, 1)>> ELSE <<"empty", v>>
\* the item is zeroed before it is dropped
PopBack(v) == IF v.len > 0 THEN <<"ok", [v EXCEPT !.data[v.len] = Garbage, !.len = @ - 1]>> ELSE <<"empty", v>>
\* Mutant: the last item is not moved down.
EraseMovesTooLittle(v, index) ==
  IF index >= v.len THEN <<"invalid index", v>>
  ELSE IF index = 0 THEN PopFront(v)
  ELSE PopBack([v EXCEPT !.data = Overwrite(v.data, index + 1, SubSeq(v.data, index + 2, v.len - 1))])
Erase(v, index) ==
  IF index >= v.len THEN <<"invalid index", v>>
  ELSE IF index = 0 THEN PopFront(v)
  ELSE IF index = v.len - 1 THEN PopBack(v)
  ELSE PopBack([v EXCEPT !.data = Overwrite(v.data, index + 1, SubSeq(v.data, index + 2, v.len))])

\* aws_array_list_front, _back, _get_at, _get_at_ptr
ItemAt(v, index, err) == IF index >= 0 /\ index < v.len THEN v.data[index + 1] ELSE err

ShrinkToFit(v) ==
  IF v.mode = "static" THEN <<"static mode cant shrink", v>> ELSE <<"ok", [v EXCEPT !.data = Holds(v)]>>

\* to keeps its memory where it is large enough
CopyTo(from, to) ==
  IF Cap(to) >= from.len
    THEN <<"ok", Trim([to EXCEPT !.data = Overwrite(@, 1, Holds(from)), !.len = from.len])>>
  ELSE IF to.mode = "static" THEN <<"dest copy too small", to>>
  ELSE <<"ok", [to EXCEPT !.data = Holds(from), !.len = from.len]>>

SwapItems(v, a, b) == [v EXCEPT !.data[a + 1] = v.data[b + 1], !.data[b + 1] = v.data[a + 1]]

AlInit == alList = [l \in AlLists |-> Zeroed] /\ alOut = "ok"

Live(l) == alList[l].mode # "zeroed"
Apply(l, r) == alList' = [alList EXCEPT ![l] = r[2]] /\ alOut' = r[1]
Update(l, v) == alList' = [alList EXCEPT ![l] = v] /\ alOut' = "ok"
Read(x) == UNCHANGED alList /\ alOut' = x

InitDynamic(l, n) == /\ ~Live(l)
                     /\ IF n > AllocLimit THEN Read("oom")
                        ELSE Update(l, [mode |-> "dynamic", len |-> 0, data |-> Blank(n)])
InitStatic(l) == ~Live(l) /\ Update(l, [mode |-> "static", len |-> 0, data |-> Blank(StaticSize)])
InitStaticFromInitialized(l, s) ==
  ~Live(l) /\ Update(l, [mode |-> "static", len |-> Len(s), data |-> s])
AlCleanUp(l) == Update(l, Zeroed)
AlPushBack(l, x) == Live(l) /\ Apply(l, PushBack(alList[l], x))
AlPushFront(l, x) == Live(l) /\ Apply(l, PushFront(alList[l], x))
AlSetAt(l, x, i) == Live(l) /\ Apply(l, SetAt(alList[l], x, i))
AlPopFront(l) == Live(l) /\ Apply(l, PopFront(alList[l]))
AlPopFrontN(l, n) == Live(l) /\ Update(l, PopFrontN(alList[l], n))
AlPopBack(l) == Live(l) /\ Apply(l, PopBack(alList[l]))
AlErase(l, i) == Live(l) /\ Apply(l, Erase(alList[l], i))
AlClear(l) == Live(l) /\ Update(l, ClearList(alList[l]))
AlFront(l) == Live(l) /\ Read(ItemAt(alList[l], 0, "empty"))
AlBack(l) == Live(l) /\ Read(ItemAt(alList[l], alList[l].len - 1, "empty"))
AlGetAt(l, i) == Live(l) /\ Read(ItemAt(alList[l], i, "invalid index"))
AlShrink(l) == Live(l) /\ Apply(l, ShrinkToFit(alList[l]))
AlCopy(l, k) == Live(l) /\ Live(k) /\ Apply(k, CopyTo(alList[l], alList[k]))
AlSwap(l, a, b) == /\ Live(l) /\ a < alList[l].len /\ b < alList[l].len
                   /\ Update(l, SwapItems(alList[l], a, b))
\* Static lists are not exchanged: their arrays belong to different owners.
AlSwapContents(l, k) ==
  /\ alList[l].mode = "dynamic" /\ alList[k].mode = "dynamic"
  /\ alList' = [alList EXCEPT ![l] = alList[k], ![k] = alList[l]] /\ alOut' = "ok"

Indices == 0..AllocLimit
AlNext ==
  \E l \in AlLists :
    \/ \E n \in {0, 1, AllocLimit + 1} : InitDynamic(l, n)
    \/ l \in StaticLists /\ InitStatic(l)
    \/ l \in StaticLists /\ \E s \in [1..StaticSize -> AlItems] : InitStaticFromInitialized(l, s)
    \/ Live(l) /\ AlCleanUp(l)
    \/ \E x \in AlItems : AlPushBack(l, x) \/ AlPushFront(l, x) \/ \E i \in Indices : AlSetAt(l, x, i)
    \/ AlPopFront(l) \/ AlPopBack(l) \/ AlClear(l) \/ AlFront(l) \/ AlBack(l) \/ AlShrink(l)
    \/ \E n \in Indices : AlPopFrontN(l, n) \/ AlErase(l, n) \/ AlGetAt(l, n)
    \/ \E a, b \in Indices : a <= b /\ AlSwap(l, a, b)
    \/ \E k \in AlLists \ {l} : AlCopy(l, k) \/ AlSwapContents(l, k)
AlSpec == AlInit /\ [][AlNext]_alVars

\* What each call means for the sequence of items.
ArrayStep ==
  \A l \in AlLists :
    LET s == Holds(alList[l])
        s2 == Holds(alList'[l])
        fails == alOut' \in {"oom", "invalid index", "exceeds max size", "empty", "dest copy too small"}
    IN  /\ alList'[l].len <= Cap(alList'[l])
        /\ alList[l].mode = "static" /\ alList'[l].mode = "static" => Cap(alList'[l]) = Cap(alList[l])
        /\ fails => s2 = s
        /\ \A x \in AlItems :
             /\ AlPushBack(l, x) /\ ~fails => s2 = Append(s, x)
             /\ AlPushFront(l, x) /\ ~fails => s2 = <<x>> \o s
             /\ \A i \in Indices : AlSetAt(l, x, i) /\ ~fails =>
                  IF i < Len(s) THEN s2 = [s EXCEPT ![i + 1] = x]
                  ELSE Len(s2) = i + 1 /\ s2[i + 1] = x /\ IsPrefix(s, s2)
        /\ AlPopFront(l) => (fails <=> s = <<>>) /\ (~fails => s2 = Tail(s))
        /\ AlPopBack(l) => (fails <=> s = <<>>) /\ (~fails => s2 = Front(s))
        /\ \A i \in Indices :
             /\ AlErase(l, i) => (fails <=> i >= Len(s)) /\ (~fails => s2 = RemoveAt(s, i + 1))
             /\ AlPopFrontN(l, i) => s2 = SubSeq(s, i + 1, Len(s))
             /\ AlGetAt(l, i) => alOut' = IF i < Len(s) THEN s[i + 1] ELSE "invalid index"
        /\ AlShrink(l) => s2 = s
        /\ \A k \in AlLists \ {l} : AlCopy(k, l) /\ ~fails => s2 = Holds(alList[k])

\* Reading a list gives its items in order and nothing else: each call changes
\* the sequence of items as its name says, or fails and leaves it alone, however
\* the memory was grown, shifted or shrunk before; a static list is never given
\* other memory; an index at or behind the end is refused.
\* (Nothing is said of a step that leaves all as it was.)
ArrayListIsSequence == [][alVars' # alVars => ArrayStep]_alVars
================================================================================
