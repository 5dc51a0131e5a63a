-------------------------------- MODULE TmPosts --------------------------------
(* The messages an application builds for the thing model and sends with         *)
(* iot_tm_send: property.c, event.c, service.c, shadow.c, custom_topic.c and      *)
(* webshell.c of src/iot/thingmodel.  The state is the JSON objects of a message: *)
(* which hangs under which, and which are freed.                                  *)
EXTENDS Json

CONSTANTS PostKeys, PostVals,   \* parameters
          MaxAdds, MaxSends     \* bounds: parameters and sends of a message

VARIABLE post   \* the message: its kind, its pointers, its JSON objects and what was sent;
                \* late: parameters were replaced after a send, or an event was sent again
postVars == <<post>>

WithParams == {"property_post", "event_post", "service_call_reply", "shadow_post"}
NotZeroed == {"event_post", "shadow_get"}
\* a text and no JSON
Plain == {"custom_topic_post", "webshell_command_reply"}
Kinds == WithParams \cup {"property_set_reply", "shadow_get", "shadow_clear", "webshell_command_pong"} \cup Plain

-----------------------------------------------------------------------------
(* init                                                                       *)

NoPost == [kind |-> "none", params |-> NULL, report |-> NULL, root |-> NULL, heap |-> <<>>, bad |-> FALSE,
           freed |-> FALSE, sends |-> <<>>, added |-> <<>>, adds |-> 0, wild |-> FALSE, late |-> FALSE]
iot_shadow_post_init_with_id(p) == LET q == NewObject(NewObject(p)) IN [q EXCEPT !.params = 1, !.report = 2]
iot_property_post_init_with_id(p) == [NewObject(p) EXCEPT !.params = 1]
Created(kind) ==
  LET p == [NoPost EXCEPT !.kind = kind]
  IN  CASE kind = "shadow_post"  -> iot_shadow_post_init_with_id(p)
        [] kind \in WithParams   -> iot_property_post_init_with_id(p)
        [] OTHER                 -> p
\* malloc without memset leaves the pointer to the payload as the memory was.
PostInit(kind, root) ==
  /\ post.kind = "none" \/ post.freed
  /\ root = Wild => kind \in NotZeroed
  /\ post' = [Created(kind) EXCEPT !.root = root, !.wild = root = Wild]

InUse(kinds) == post.kind \in kinds /\ ~post.freed /\ ~post.bad
\* The parameters of a shadow are put into its report.
Target(p) == IF p.kind = "shadow_post" THEN p.report ELSE p.params
AddParam(key, val) ==
  /\ InUse(WithParams \ {"service_call_reply"}) /\ post.adds < MaxAdds
  /\ post' = [AddValue(post, Target(post), key, val) EXCEPT !.adds = @ + 1,
                  !.added = IF Target(post) = NULL THEN @ ELSE Append(@, <<key, val>>)]

\* ..._set_prams_json_str of events and replies: other parameters, or none if the text is no JSON
SetParams(key, val, json) ==
  /\ InUse({"event_post", "service_call_reply"}) /\ post.adds < MaxAdds
  /\ LET p == Destroy(post, post.params)
         q == NewObject(p)
         new == [q EXCEPT !.params = Len(q.heap), !.added = <<<<key, val>>>>]
         none == [p EXCEPT !.params = NULL, !.added = <<>>]
     IN  post' = [IF json THEN AddValue(new, new.params, key, val) ELSE none EXCEPT
                    !.adds = @ + 1, !.late = @ \/ post.sends # <<>>]

-----------------------------------------------------------------------------
(* payload and send                                                           *)

\* The object is made once: the parameters hang under it.
iot_property_post_payload(p) ==
  LET q == NewObject(p)
      made == [q EXCEPT !.root = Len(q.heap)]
  IN  AddObject(made, made.root, "params", made.params)
iot_shadow_post_payload(p) ==
  LET q == NewObject(p)
      made == [q EXCEPT !.root = Len(q.heap)]
  IN  AddObject(AddObject(made, made.params, "report", made.report), made.root, "params", made.params)
\* An event makes it again for every send and frees the one before it.
iot_tm_msg_event_post_payload(p) ==
  LET q == NewObject(NewObject(Destroy(p, p.root)))
      made == [q EXCEPT !.root = Len(q.heap)]
      value == Len(q.heap) - 1
  IN  AddObject(AddObject(made, value, "Value", made.params), made.root, "Params", value)
\* The pong is never put into the message: its topic is made from a NULL pointer.
webshell_command_pong(p) == Bad(p)
Payload(p) ==
  CASE p.kind \in Plain        -> p
    [] p.kind = "webshell_command_pong" -> webshell_command_pong(p)
    [] p.kind = "event_post"   -> iot_tm_msg_event_post_payload(p)
    [] p.root # NULL           -> p
    [] p.kind = "shadow_post"  -> iot_shadow_post_payload(p)
    [] OTHER                   -> iot_property_post_payload(p)

\* iot_tm_send and the _tm_send_ of the kind; refused without an MQTT client
iot_tm_send(hasMqtt) ==
  /\ InUse(Kinds) /\ Len(post.sends) < MaxSends
  /\ LET p == Payload([post EXCEPT !.late = @ \/ (post.kind = "event_post" /\ post.sends # <<>>)])
     IN  post' = CASE ~hasMqtt                             -> post
                   [] p.bad                                -> p
                   [] p.root # NULL /\ ~Usable(p, p.root)  -> Bad(p)
                   [] OTHER -> [p EXCEPT !.sends = Append(@, [added |-> p.added,
                                 values |-> IF p.root = NULL THEN {} ELSE Values(p, p.root)])]

-----------------------------------------------------------------------------
(* free                                                                       *)

\* Mutant: the parameters are freed as well when they hang under the payload.
iot_property_post_freeBoth(p) == Destroy(Destroy(p, p.root), p.params)
\* The parameters go with the payload, or alone if there is none.
iot_property_post_free(p) == IF p.root # NULL THEN Destroy(p, p.root) ELSE Destroy(p, p.params)
\* The condition is the wrong way round: the payload is never freed.
iot_tm_msg_service_call_reply_free(p) == IF p.root = NULL THEN p ELSE Destroy(p, p.params)
\* The parameters are freed with the payload and again.
iot_shadow_post_free(p) == LET q == Destroy(p, p.root) IN Destroy(q, q.params)
Free ==
  /\ InUse(Kinds)
  /\ post' = [CASE post.kind = "shadow_post"        -> iot_shadow_post_free(post)
                [] post.kind = "service_call_reply" -> iot_tm_msg_service_call_reply_free(post)
                [] OTHER                            -> iot_property_post_free(post)
              EXCEPT !.freed = TRUE]

PostInitial == post = NoPost
PostNext ==
  \/ \E kind \in Kinds, root \in {NULL, Wild} : PostInit(kind, root)
  \/ \E key \in PostKeys, val \in PostVals : AddParam(key, val)
  \/ \E key \in PostKeys, val \in PostVals, json \in BOOLEAN : SetParams(key, val, json)
  \/ \E hasMqtt \in BOOLEAN : iot_tm_send(hasMqtt)
  \/ Free

-----------------------------------------------------------------------------
FirstOf(added) == {added[i] : i \in {i \in DOMAIN added : \A j \in 1 .. i - 1 : added[j][1] # added[i][1]}}
Alive(p) == {n \in DOMAIN p.heap : p.heap[n].alive}
\* What a caller has to keep to: the payload pointer of an event or a shadow get is
\* zeroed by luck; an event is sent once; parameters are not replaced after a send; a
\* shadow post that was sent is not freed; and no pong.
Careful(p) == /\ ~p.wild /\ ~p.late /\ p.kind # "webshell_command_pong"
              /\ p.kind = "shadow_post" => ~(p.freed /\ p.root # NULL)

\* property.c:83, event.c:74, service.c:59, shadow.c:88.  No JSON object of a message is
\* freed twice or used after it was freed, however often parameters are added and sent;
\* but for replies and shadow posts a freed message leaves no object behind, only values
\* that were refused because their key was taken; and what is sent holds the first value
\* added for every key, also of the ones added after an earlier send.
PostsOwned ==
  /\ Careful(post) => /\ ~post.bad
                      /\ \A i \in DOMAIN post.sends : post.sends[i].values = FirstOf(post.sends[i].added)
  /\ (post.freed /\ Careful(post) /\ post.kind \notin {"service_call_reply", "shadow_post"})
       => \A n \in Alive(post) : post.heap[n].up = NULL /\ post.heap[n].type = "value"
===============================================================================
