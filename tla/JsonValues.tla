------------------------------- MODULE JsonValues -------------------------------
(* An object and an array of module Json under any sequence of calls, beside the   *)
(* map and the sequence they stand for.                                           *)
EXTENDS Json

CONSTANTS JvKeys, JvVals,   \* keys and values
          MaxValues         \* bound: values made

VARIABLE jv   \* heap and bad; the object and the array; what they should hold
jvVars == <<jv>>

JvInit == jv = New(NewObject([heap |-> <<>>, bad |-> FALSE, map |-> <<>>, seq |-> <<>>]), "array", "")
Object == 1
Array == 2
Room == Newest(jv) < MaxValues

JvPut(key, val) ==
  /\ Room
  /\ jv' = [aws_json_add_str_val(jv, Object, key, val) EXCEPT !.map =
              CASE val = ""                    -> [k \in DOMAIN @ \ {Fold(key)} |-> @[k]]
                [] Fold(key) \in DOMAIN @      -> @
                [] OTHER                       -> (Fold(key) :> val) @@ @]
JvAppend(val) ==
  /\ Room
  /\ LET made == New(jv, "value", val)
     IN  jv' = [AddElement(made, Array, Newest(made)) EXCEPT !.seq = Append(@, val)]
\* An index behind the end removes nothing.
JvRemove(i) == jv' = [RemoveElement(jv, Array, i) EXCEPT !.seq = IF i < Len(@) THEN RemoveAt(@, i + 1) ELSE @]
JvDestroy == jv' = Destroy(jv, Array)
JvNext ==
  /\ jv.heap[Array].alive
  /\ \/ \E key \in JvKeys, val \in JvVals \cup {""} : JvPut(key, val)
     \/ \E val \in JvVals : JvAppend(val)
     \/ \E i \in 0 .. Len(jv.seq) : JvRemove(i)
     \/ JvDestroy

\* json.c:98, :164 and :250.  An object keeps the first value of a key, in any case,
\* until it is removed; an array keeps its order when an element is removed, and an
\* index behind its end finds nothing; a copy holds the same members; no value is freed
\* twice, and what is not held by either is freed or was refused.
JsonIsMap ==
  /\ ~jv.bad
  /\ \A key \in JvKeys : aws_json_get_str(jv, Object, key) =
                           IF Fold(key) \in DOMAIN jv.map THEN jv.map[Fold(key)] ELSE ""
  /\ jv.heap[Array].alive =>
       /\ Size(jv, Array) = Len(jv.seq)
       /\ [i \in DOMAIN jv.seq |-> jv.heap[Iterated(jv, Array)[i]].val] = jv.seq
       /\ aws_json_get_array_element(jv, Array, Len(jv.seq)) = NULL
       /\ LET copied == Duplicate(jv, Array)
              copy == Newest(jv) + 1
          IN  [i \in DOMAIN jv.seq |-> copied.heap[Iterated(copied, copy)[i]].val] = jv.seq
  /\ \A n \in DOMAIN jv.heap : jv.heap[n].up # NULL => jv.heap[n].alive = jv.heap[jv.heap[n].up].alive
================================================================================
