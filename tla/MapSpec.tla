-------------------------------- MODULE MapSpec --------------------------------
(* What hash_table.h promises its callers: a table that is a partial function *)
(* from keys to elements, and an iteration that meets every element that is   *)
(* not deleted exactly once.  Nothing here speaks of slots, probing or sizes. *)
EXTENDS Naturals

CONSTANTS KeyObjects, \* addresses passed as keys
          KeyOf,      \* what a key object denotes to equals_fn
          Vals, NoVal \* values, and NULL

VARIABLES live,    \* the table is initialised
          own,     \* it was given destroy_key_fn and destroy_value_fn
          map,     \* its elements by key: <<key object, value>>
          walking, \* an iteration is under way
          cur,     \* the key of the element it stands on, or NoKey
          todo,    \* the keys it has still to visit
          out      \* result of the last call
walk == <<walking, cur, todo>>
mapVars == <<live, own, map, walk, out>>

NoKey == "no key"
Result(rv, flag, elem, freed) ==
  [rv |-> rv, flag |-> flag, elem |-> elem, freed |-> freed]
Returns(rv, flag, elem, freed) == out' = Result(rv, flag, elem, freed)
Quietly == Returns("ok", FALSE, <<>>, {})

Has(k) == KeyOf[k] \in DOMAIN map
At(k) == map[KeyOf[k]]
With(k, e) == [x \in DOMAIN map \union {KeyOf[k]} |-> IF x = KeyOf[k] THEN e ELSE map[x]]
Without(x) == [y \in DOMAIN map \ {x} |-> map[y]]
Freed(es) == IF own THEN UNION { {e[1], e[2]} : e \in es } ELSE {}
All == { map[x] : x \in DOMAIN map }

Idle == live /\ ~walking
Becomes(m) == map' = m /\ UNCHANGED <<live, own, walk>>
Kept == UNCHANGED <<live, own, map, walk>>

MapInit == /\ ~live /\ ~own /\ map = <<>> /\ ~walking /\ cur = NoKey /\ todo = {}
           /\ out = Result("ok", FALSE, <<>>, {})

New == /\ ~live
       /\ \/ /\ live' = TRUE /\ own' \in BOOLEAN /\ UNCHANGED <<map, walk>> /\ Quietly
          \/ Kept /\ Returns("err", FALSE, <<>>, {})
CleanUp == /\ ~walking /\ live' = FALSE /\ own' = FALSE /\ map' = <<>> /\ UNCHANGED walk
           /\ Returns("ok", FALSE, <<>>, Freed(All))
Clear == Idle /\ Becomes(<<>>) /\ Returns("ok", FALSE, <<>>, Freed(All))

Find(k) == Idle /\ Kept /\ Returns("ok", FALSE, IF Has(k) THEN At(k) ELSE <<>>, {})
\* A new element may fail to be entered, and then nothing changes.
Enter(k, v) == /\ Idle /\ ~Has(k)
               /\ \/ Becomes(With(k, <<k, v>>)) /\ Returns("ok", TRUE, <<>>, {})
                  \/ Kept /\ Returns("err", FALSE, <<>>, {})
Create(k) == \/ Idle /\ Has(k) /\ Kept /\ Quietly
             \/ Enter(k, NoVal)
Put(k, v) == \/ /\ Idle /\ Has(k) /\ Becomes(With(k, <<k, v>>))
                /\ Returns("ok", FALSE, <<>>, Freed({At(k)}) \ {k})
             \/ Enter(k, v)
Remove(k, take) ==
  \/ /\ Idle /\ Has(k) /\ Becomes(Without(KeyOf[k]))
     /\ Returns("ok", TRUE, IF take THEN At(k) ELSE <<>>, IF take THEN {} ELSE Freed({At(k)}))
  \/ Idle /\ ~Has(k) /\ Kept /\ Quietly

\* The iteration may be left at any element, and ends by itself only when
\* nothing is left to visit.
Leave == walking' = FALSE /\ cur' = NoKey /\ todo' = {}
Visit(left) == \/ \E x \in left : walking' = TRUE /\ cur' = x /\ todo' = left \ {x}
               \/ left = {} /\ Leave
Begin == Idle /\ Visit(DOMAIN map) /\ UNCHANGED <<live, own, map>> /\ Quietly
Advance == walking /\ Visit(todo) /\ UNCHANGED <<live, own, map>> /\ Quietly
Stop == /\ walking /\ Leave /\ UNCHANGED <<live, own, map>>
        /\ \E rv \in {"ok", "err"} : Returns(rv, FALSE, <<>>, {})
DeleteCurrent(destroy) ==
  /\ walking /\ cur # NoKey /\ map' = Without(cur) /\ UNCHANGED <<live, own>>
  /\ Returns("ok", FALSE, <<>>, IF destroy THEN Freed({map[cur]}) ELSE {})
  /\ \/ walking' = TRUE /\ cur' = NoKey /\ UNCHANGED todo   \* until the next Advance
     \/ Visit(todo) \/ Leave                               \* within aws_hash_table_foreach

MapNext ==
  \/ New \/ CleanUp \/ Clear
  \/ \E k \in KeyObjects : \/ Find(k) \/ Create(k)
                           \/ \E v \in Vals : Put(k, v)
                           \/ \E take \in BOOLEAN : Remove(k, take)
  \/ Begin \/ Advance \/ Stop \/ \E destroy \in BOOLEAN : DeleteCurrent(destroy)
MapSpecification == MapInit /\ [][MapNext]_mapVars
================================================================================
