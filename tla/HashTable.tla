------------------------------- MODULE HashTable -------------------------------
(* aws-c-common's hash table (src/src/aws/common/hash_table.c), in which OTA   *)
(* keeps its tasks: open addressing with robin-hood probing, backward-shift    *)
(* deletion, growth, and an iterator that may delete while it walks.           *)
EXTENDS Naturals, FiniteSetsExt

CONSTANTS HtKeys, HtKeyOf, HtVals,
          HashFn,      \* what hash_fn returns for a key object
          NullKey,     \* the key object NULL
          MaxSlots    \* allocations of more slots than this fail

VARIABLES htTbl,   \* Unallocated, or the hash_table_state
          htIter,  \* the iterator
          htOut    \* result of the last call
htVars == <<htTbl, htIter, htOut>>

NoKey == "no key"
NullVal == "NULL"
Unallocated == [none |-> TRUE]
EmptySlot == [hash |-> 0, key |-> NoKey, val |-> NullVal]
Entry(h, k, v) == [hash |-> h, key |-> k, val |-> v]
NoIter == [slot |-> 0, limit |-> 0, status |-> "done"]
Out(rv, flag, elem, freed) == [rv |-> rv, flag |-> flag, elem |-> elem, freed |-> freed]
Ok == Out("ok", FALSE, <<>>, {})
Err == Out("err", FALSE, <<>>, {})

\* s_hash_for: 0 marks an empty slot, so no key may hash to it.
HashFor(k) == IF k = NullKey THEN 42 ELSE IF HashFn[k] = 0 THEN 1 ELSE HashFn[k]
\* s_safe_eq_check, s_hash_keys_eq
KeysEq(a, b) == a = b \/ (a # NullKey /\ b # NullKey /\ HtKeyOf[a] = HtKeyOf[b])

\* s_update_template_size: a power of two, of which one slot stays empty.
RoundUpPow2(n) == Min({ p \in {2^i : i \in 0..10} : p >= n })
SizeFor(expected) == RoundUpPow2(IF expected < 2 THEN 2 ELSE expected)
MaxLoad(size) == Min({(95 * size) \div 100, size - 1})
\* s_alloc_state
Allocates(size) == size <= MaxSlots
NewState(size, own) ==
  [size |-> size, count |-> 0, own |-> own, slots |-> [i \in 0..(size - 1) |-> EmptySlot]]

Index(s, h, probe) == (h + probe) % s.size
ProbeOf(s, i) == (s.size * (s.slots[i].hash + 1) + i - s.slots[i].hash) % s.size

\* s_find_entry, s_find_entry1: probes until an empty slot, the key, or an entry
\* that is nearer to its home than the key would be.
FindEntry(s, k) ==
  LET h == HashFor(k)
      At(p) == s.slots[Index(s, h, p)]
      Is(p) == At(p).hash = h /\ KeysEq(k, At(p).key)
      probe == Min({ p \in 0..s.size : At(p).hash = 0 \/ Is(p) \/ ProbeOf(s, Index(s, h, p)) < p })
  IN  [found |-> At(probe).hash # 0 /\ Is(probe), slot |-> Index(s, h, probe), probe |-> probe]

\* s_emplace_item: an entry evicts the first one nearer to its home, which is
\* then placed in the same way.
RECURSIVE Emplace(_, _, _)
Emplace(s, e, probe) ==
  IF e.hash = 0 THEN s
  ELSE LET i == Index(s, e.hash, probe)
           victim == s.slots[i]
           victimProbe == ProbeOf(s, i)
       IN  IF victim.hash = 0 \/ victimProbe < probe
             THEN Emplace([s EXCEPT !.slots[i] = e], victim, victimProbe + 1)
             ELSE Emplace(s, e, probe + 1)

\* s_expand_table
RECURSIVE EmplaceAll(_, _, _)
EmplaceAll(new, old, i) ==
  IF i = old.size THEN new ELSE EmplaceAll(Emplace(new, old.slots[i], 0), old, i + 1)
Expand(s) ==
  EmplaceAll([NewState(SizeFor(2 * s.size), s.own) EXCEPT !.count = s.count], s, 0)

\* s_remove_entry: shifts the following entries back until one is at home;
\* answers the state and the last slot touched.
RemoveEntry(s, i) ==
  LET At(n) == (i + n) % s.size
      shifted == Min({ n \in 0..s.size : LET e == s.slots[At(n + 1)]
                                         IN  e.hash = 0 \/ e.hash % s.size = At(n + 1) })
      Offset(j) == (j + s.size - i) % s.size
  IN  [last |-> At(shifted),
       state |-> [s EXCEPT !.count = @ - 1,
                           !.slots = [j \in DOMAIN s.slots |->
                              CASE Offset(j) < shifted -> s.slots[(j + 1) % s.size]
                                [] Offset(j) = shifted -> EmptySlot
                                [] OTHER -> s.slots[j]]]]

Element(e) == <<e.key, e.val>>
Full(s) == { i \in DOMAIN s.slots : s.slots[i].hash # 0 }
\* destroy_key_fn and destroy_value_fn, where the table was given them
Destroyed(s, es) == IF s.own THEN UNION { {e.key, e.val} : e \in es } ELSE {}

Walking == htIter.status # "done"
HtReady == htTbl # Unallocated /\ ~Walking
SetTable(s) == htTbl' = s /\ UNCHANGED htIter
KeepTables == UNCHANGED <<htTbl, htIter>>

HtInit == /\ htTbl = Unallocated
          /\ htIter = NoIter /\ htOut = Ok

TableInit(expected, own) ==
  /\ htTbl = Unallocated
  /\ IF Allocates(SizeFor(expected))
       THEN SetTable(NewState(SizeFor(expected), own)) /\ htOut' = Ok
       ELSE KeepTables /\ htOut' = Err

Clear ==
  /\ HtReady
  /\ LET s == htTbl
     IN  /\ htOut' = Out("ok", FALSE, <<>>, Destroyed(s, { s.slots[i] : i \in Full(s) }))
         /\ SetTable(NewState(s.size, s.own))

CleanUp ==
  /\ ~Walking
  /\ LET s == htTbl
     IN  htOut' = Out("ok", FALSE, <<>>,
           IF s = Unallocated THEN {} ELSE Destroyed(s, { s.slots[i] : i \in Full(s) }))
  /\ SetTable(Unallocated)

Find(k) ==
  /\ HtReady /\ KeepTables
  /\ LET f == FindEntry(htTbl, k)
     IN  htOut' = Out("ok", FALSE, IF f.found THEN Element(htTbl.slots[f.slot]) ELSE <<>>, {})

\* aws_hash_table_create; the caller's value is put's, NULL for create itself
CreateWith(s, f, k, v) ==
  LET grow == s.count + 1 > MaxLoad(s.size)
  IN  IF grow /\ ~Allocates(SizeFor(2 * s.size))
        THEN KeepTables /\ htOut' = Err
        ELSE LET base == IF grow THEN Expand(s) ELSE s
             IN  /\ SetTable(Emplace([base EXCEPT !.count = @ + 1], Entry(HashFor(k), k, v),
                                        IF grow THEN 0 ELSE f.probe))
                 /\ htOut' = Out("ok", TRUE, <<>>, {})
Create(k) ==
  /\ HtReady
  /\ LET s == htTbl
         f == FindEntry(s, k)
     IN  IF f.found THEN KeepTables /\ htOut' = Ok ELSE CreateWith(s, f, k, NullVal)

Put(k, v) ==
  /\ HtReady
  /\ LET s == htTbl
         f == FindEntry(s, k)
         old == s.slots[f.slot]
     IN  IF f.found
           THEN /\ SetTable([s EXCEPT !.slots[f.slot] = Entry(HashFor(k), k, v)])
                /\ htOut' = Out("ok", FALSE, <<>>, Destroyed(s, {old}) \ {k})
           ELSE CreateWith(s, f, k, v)

Remove(k, take) ==
  /\ HtReady
  /\ LET s == htTbl
         f == FindEntry(s, k)
         e == s.slots[f.slot]
     IN  IF f.found
           THEN /\ SetTable(RemoveEntry(s, f.slot).state)
                /\ htOut' = Out("ok", TRUE, IF take THEN Element(e) ELSE <<>>,
                                IF take THEN {} ELSE Destroyed(s, {e}))
           ELSE KeepTables /\ htOut' = Ok
\* aws_hash_table_remove_element, of an element the caller has found
RemoveElement(i) ==
  /\ HtReady /\ i \in Full(htTbl)
  /\ htOut' = Out("ok", TRUE, Element(htTbl.slots[i]), {})
  /\ SetTable(RemoveEntry(htTbl, i).state)

\* Mutant: the entry counts are not compared.
TableEqNoCount(a, b) ==
  \A i \in Full(a) : LET f == FindEntry(b, a.slots[i].key)
                     IN  f.found /\ b.slots[f.slot].val = a.slots[i].val
\* aws_hash_table_eq
TableEq(a, b) ==
  /\ a.count = b.count
  /\ \A i \in Full(a) : LET f == FindEntry(b, a.slots[i].key)
                        IN  f.found /\ b.slots[f.slot].val = a.slots[i].val

\* s_get_next_element; slot is one more than the code's, so that 0 stands for
\* the SIZE_MAX that a deletion in slot 0 leaves.
NextElement(s, it) ==
  LET here == { i \in Full(s) : i >= it.slot /\ i < it.limit }
  IN  IF here = {} THEN NoIter
      ELSE [it EXCEPT !.slot = Min(here) + 1, !.status = "ready"]

IterBegin ==
  /\ HtReady
  /\ htIter' = NextElement(htTbl, [slot |-> 0, limit |-> htTbl.size, status |-> "done"])
  /\ UNCHANGED htTbl /\ htOut' = Ok

IterNext == /\ Walking
            /\ htIter' = NextElement(htTbl, htIter)
            /\ UNCHANGED htTbl /\ htOut' = Ok
\* The program leaves its loop and forgets the iterator.
IterAbandon == Walking /\ htIter' = NoIter /\ UNCHANGED htTbl /\ htOut' = Ok

\* Mutant: an entry that the deletion moved in from the front of the array is
\* visited again.
DeletedKeepsLimit(s, it) ==
  LET r == RemoveEntry(s, it.slot - 1)
  IN  [state |-> r.state, iter |-> [it EXCEPT !.slot = @ - 1, !.status = "deleted"]]
\* aws_hash_iter_delete
Deleted(s, it) ==
  LET r == RemoveEntry(s, it.slot - 1)
  IN  [state |-> r.state,
       iter |-> [it EXCEPT !.limit = IF r.last < it.slot - 1 \/ r.last >= it.limit THEN @ - 1 ELSE @,
                           !.slot = @ - 1, !.status = "deleted"]]
IterDelete(destroy) ==
  /\ htIter.status = "ready"
  /\ LET s == htTbl
         d == Deleted(s, htIter)
     IN  /\ htTbl' = d.state
         /\ htIter' = d.iter
         /\ htOut' = Out("ok", FALSE, <<>>,
                         IF destroy THEN Destroyed(s, {s.slots[htIter.slot - 1]}) ELSE {})

\* One round of aws_hash_table_foreach after its callback has answered.
ForeachCallback(err, del, continue) ==
  /\ htIter.status = "ready"
  /\ LET s == htTbl
         d == IF del /\ ~err THEN Deleted(s, htIter) ELSE [state |-> s, iter |-> htIter]
     IN  /\ htTbl' = d.state
         /\ htIter' = IF err \/ ~continue THEN NoIter ELSE NextElement(d.state, d.iter)
         /\ htOut' = IF err THEN Err ELSE Ok

HtNext ==
  \/ \E n \in 0..(MaxSlots + 1), own \in BOOLEAN : TableInit(n, own)
  \/ Clear \/ CleanUp
  \/ \E k \in HtKeys : \/ Find(k) \/ Create(k)
                       \/ \E v \in HtVals : Put(k, v)
                       \/ \E take \in BOOLEAN : Remove(k, take)
  \/ \E i \in 0..(MaxSlots - 1) : RemoveElement(i)
  \/ IterBegin \/ IterNext \/ IterAbandon
  \/ \E destroy \in BOOLEAN : IterDelete(destroy)
  \/ \E err, del, continue \in BOOLEAN : ForeachCallback(err, del, continue)

HtSpec == HtInit /\ [][HtNext]_htVars

\* What the slots hold, as the map they stand for.
KeysIn(is) == { HtKeyOf[htTbl.slots[i].key] : i \in is }
HtMap == INSTANCE MapSpec WITH
  KeyObjects <- HtKeys, KeyOf <- HtKeyOf, Vals <- HtVals, NoVal <- NullVal,
  live <- htTbl # Unallocated,
  own <- htTbl # Unallocated /\ htTbl.own,
  map <- IF htTbl = Unallocated THEN <<>>
         ELSE [x \in KeysIn(Full(htTbl)) |->
                 Element(htTbl.slots[CHOOSE i \in Full(htTbl) : HtKeyOf[htTbl.slots[i].key] = x])],
  walking <- Walking,
  cur <- IF htIter.status = "ready" THEN HtKeyOf[htTbl.slots[htIter.slot - 1].key] ELSE NoKey,
  todo <- IF ~Walking THEN {}
          ELSE KeysIn({ i \in Full(htTbl) : i >= htIter.slot /\ i < htIter.limit }),
  out <- htOut

\* Every call of the hash table does what the map does: whatever was put, moved
\* by other insertions, growth and deletions, is found under its key and nowhere
\* else, elements are released exactly when they leave an owning table, a failed
\* call changes nothing, and an iteration that deletes on its way skips no
\* element and meets none twice (hash_table.c, aws_hash_iter_delete).
HashTableIsMap == HtMap!MapSpecification

\* The bookkeeping the loops depend on for their termination: entry_count is
\* the number of full slots, one slot is always empty, and no entry lies beyond
\* an empty slot or behind one that is nearer to its home (the comments of
\* s_emplace_item, s_remove_entry and s_find_entry1).
ProbeOrder ==
  htTbl # Unallocated =>
    /\ htTbl.count = Cardinality(Full(htTbl)) /\ htTbl.count <= MaxLoad(htTbl.size)
    /\ \A i \in Full(htTbl) : \A n \in 1..ProbeOf(htTbl, i) :
         LET j == (i + htTbl.size - n) % htTbl.size
         IN  htTbl.slots[j].hash # 0 /\ ProbeOf(htTbl, j) + n >= ProbeOf(htTbl, i)

\* aws_hash_table_eq compares contents, whatever the sizes and the order in
\* which the entries came to lie: a table equals its rebuilt copy, and no table
\* that lacks one of its elements.
EqIgnoresLayout ==
  htTbl # Unallocated =>
    /\ TableEq(htTbl, Expand(htTbl)) /\ TableEq(Expand(htTbl), htTbl)
    /\ \A i \in Full(htTbl) : LET less == RemoveEntry(htTbl, i).state
                              IN  ~TableEq(htTbl, less) /\ ~TableEq(less, htTbl)
================================================================================
