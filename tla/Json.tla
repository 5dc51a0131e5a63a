---------------------------------- MODULE Json ----------------------------------
(* JSON values: src/aws/common/json.c over cJSON (external), and the helpers of    *)
(* src/util/aws_json.c.  The values live in a heap; a record with fields heap and  *)
(* bad is handed through the calls, and bad says that freed memory was used.       *)
EXTENDS Integers, Sequences, SequencesExt, FiniteSets

CONSTANT Fold(_)   \* a key in lower case

NULL == 0
Wild == -1      \* a pointer nobody has set

\* A value: its type, the key it has in its object, its content, the value that
\* holds it.  The members of an object or array are in the order of their places.
Node(type, val) == [type |-> type, key |-> "", val |-> val, up |-> NULL, place |-> 0, alive |-> TRUE]
\* aws_json_value_new_...; the new value is the last one.
New(p, type, val) == [p EXCEPT !.heap = Append(@, Node(type, val))]
NewObject(p) == New(p, "object", "")
Newest(p) == Len(p.heap)

Members(p, o) == {n \in DOMAIN p.heap : p.heap[n].up = o}
Below(p, nodes) == nodes \cup UNION {Members(p, n) : n \in nodes}
Tree(p, o) == Below(p, Below(p, Below(p, Below(p, {o}))))
Usable(p, o) == o # Wild /\ \A n \in Tree(p, o) : p.heap[n].alive
Bad(p) == [p EXCEPT !.bad = TRUE]
IsA(p, o, type) == o # NULL /\ p.heap[o].type = type

\* aws_json_value_destroy: the value and all below it; NULL is fine.
Destroy(p, o) ==
  CASE o = NULL        -> p
    [] ~Usable(p, o)   -> Bad(p)
    [] OTHER           -> [p EXCEPT !.heap = [n \in DOMAIN @ |-> [@[n] EXCEPT !.alive = @ /\ n \notin Tree(p, o)]]]
\* cJSON_DetachItem and Delete: the places of the ones behind it close up.
DeleteMember(p, o, n) ==
  [Destroy(p, n) EXCEPT !.heap = [x \in DOMAIN @ |->
     [@[x] EXCEPT !.up = IF x = n THEN NULL ELSE @,
                  !.place = IF p.heap[x].up = o /\ @ > p.heap[n].place THEN @ - 1 ELSE @]]]
Attach(p, o, key, child) ==
  [p EXCEPT !.heap[child].up = o, !.heap[child].key = key, !.heap[child].place = Cardinality(Members(p, o)) + 1]

-----------------------------------------------------------------------------
(* Objects.  cJSON compares keys without regard to case.                      *)

HasObjectItem(p, o, key) == \E n \in Members(p, o) : Fold(p.heap[n].key) = Fold(key)
GetObjectItem(p, o, key) ==
  LET hits == {n \in Members(p, o) : Fold(p.heap[n].key) = Fold(key)}
  IN  IF hits = {} THEN NULL ELSE CHOOSE n \in hits : \A m \in hits : p.heap[n].place <= p.heap[m].place

\* Mutant: a second value for a key is taken as well.
AddObjectTwice(p, o, key, child) ==
  CASE child = NULL \/ ~IsA(p, o, "object")    -> p
    [] ~Usable(p, o) \/ ~Usable(p, child)      -> Bad(p)
    [] OTHER                                   -> Attach(p, o, key, child)
\* aws_json_value_add_to_object refuses a second value for a key, and nobody frees it.
AddObject(p, o, key, child) ==
  CASE child = NULL \/ ~IsA(p, o, "object")    -> p
    [] ~Usable(p, o) \/ ~Usable(p, child)      -> Bad(p)
    [] HasObjectItem(p, o, key)                -> p
    [] OTHER                                   -> Attach(p, o, key, child)
\* aws_json_value_get_from_object
GetFromObject(p, o, key) == IF IsA(p, o, "object") THEN GetObjectItem(p, o, key) ELSE NULL
\* aws_json_value_remove_from_object
RemoveFromObject(p, o, key) ==
  LET n == GetFromObject(p, o, key) IN IF n = NULL THEN p ELSE DeleteMember(p, o, n)

\* aws_json_add_str_val, aws_json_add_num_val: NULL removes the key; otherwise a new
\* value, which stays behind when it is refused.
AddValue(p, o, key, val) == LET made == New(p, "value", val) IN AddObject(made, o, key, Newest(made))
aws_json_add_str_val(p, o, key, val) == IF val = "" THEN RemoveFromObject(p, o, key) ELSE AddValue(p, o, key, val)
\* aws_json_get_str, aws_json_get_num_val: the text, or none; a number that is not
\* there leaves the result as the stack was.
aws_json_get_str(p, o, key) == LET n == GetFromObject(p, o, key) IN IF IsA(p, n, "value") THEN p.heap[n].val ELSE ""
\* The parameters of an object, as aws_json_obj_to_byte_buf writes them
Values(p, o) == {<<p.heap[n].key, p.heap[n].val>> : n \in {x \in Tree(p, o) : p.heap[x].type = "value"}}

-----------------------------------------------------------------------------
(* Arrays                                                                     *)

AddElement(p, o, child) == IF ~IsA(p, o, "array") \/ child = NULL THEN p ELSE Attach(p, o, "", child)
Size(p, o) == IF IsA(p, o, "array") THEN Cardinality(Members(p, o)) ELSE 0
\* cJSON_GetArrayItem: NULL behind the end
ItemAt(p, o, i) == LET at == {n \in Members(p, o) : p.heap[n].place = i + 1}
                   IN  IF at = {} THEN NULL ELSE CHOOSE n \in at : TRUE
\* The index may be the size, which finds no element.
aws_json_get_array_element(p, o, i) ==
  IF ~IsA(p, o, "array") \/ i > Size(p, o) THEN NULL ELSE ItemAt(p, o, i)
\* aws_json_value_remove_array_element
RemoveElement(p, o, i) ==
  LET n == aws_json_get_array_element(p, o, i) IN IF n = NULL THEN p ELSE DeleteMember(p, o, n)
\* aws_json_const_iterate_object and _array: the members in order
Iterated(p, o) == [i \in 1 .. Cardinality(Members(p, o)) |-> ItemAt(p, o, i - 1)]
\* aws_json_value_duplicate, as far as one level of members goes
Duplicate(p, o) ==
  LET made == New(p, p.heap[o].type, p.heap[o].val)
      copy == Newest(made)
      of == Iterated(p, o)
  IN  [made EXCEPT !.heap = @ \o [i \in DOMAIN of |-> [p.heap[of[i]] EXCEPT !.up = copy]]]
================================================================================
