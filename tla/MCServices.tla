------------------------------ MODULE MCServices ------------------------------
(* What the SDK offers on top of its connections, one part per service: Init   *)
(* chooses the part and only its steps are taken, so the parts' state spaces   *)
(* add up.  The parts that are proved about are extended, so that the run and   *)
(* the theorems speak of the same properties; the others are instances.  The    *)
(* names without a prefix (Init, Next, vars, Fairness) are those of Ota.        *)
EXTENDS Chat, Mcp, Log, Setup, Ota, RealtimeEvents, TLC

CONSTANTS job1, job2  \* two OTA jobs

VARIABLES
  part,
  \* ChatJson, TmPosts, JsonValues
  js, post, jv

-----------------------------------------------------------------------------
(* The constants, and the instances.                                          *)

\* A device of version 1.
MCVersionOf == job1 :> 2 @@ job2 :> 3

\* Two keys that differ in case are one key to cJSON.
MCFold(k) == IF k = "A" THEN "a" ELSE k
Po == INSTANCE TmPosts WITH PostKeys <- {"a", "b"}, PostVals <- {"1", "2"}, MaxAdds <- 3, MaxSends <- 2,
                            Fold <- MCFold
Jv == INSTANCE JsonValues WITH JvKeys <- {"a", "A", "b"}, JvVals <- {"1", "2"}, MaxValues <- 6, Fold <- MCFold

-----------------------------------------------------------------------------
(* The documents of ChatJson: every combination of fields that its parsers    *)
(* tell apart, and the requests of a conversation.                            *)

J0 == INSTANCE ChatJson WITH JsRequests <- {}, JsDocs <- {}
None == [x \in {} |-> x]
Maybe(f, v) == {None, f :> v}
Calls(n) == [i \in 1..n |-> J0!ToolCallJson([id |-> <<"call1", "call2">>[i], type |-> "function",
                                              name |-> "now", arguments |-> <<"{}", J0!Nil>>[i]])]
Speeches ==
  { "role" :> J0!Str("assistant") @@ content @@ calls @@ function :
    content \in Maybe("content", J0!Str("hi")) \cup {"content" :> J0!JsNull},
    calls \in {None} \cup {"tool_calls" :> J0!Arr(Calls(n)) : n \in 1..2},
    function \in Maybe("function_call", J0!Obj(None)) }
AnyChoices ==
  { "index" :> J0!Num("1") @@ "message" :> J0!Obj(speech) @@ "delta" :> J0!Obj(speech) @@ finish @@ filter :
    speech \in Speeches,
    finish \in {"finish_reason" :> J0!Str("stop"), "finish_reason" :> J0!JsNull, None},
    filter \in Maybe("content_filter_results",
                     J0!Obj("hate" :> J0!Obj("filtered" :> J0!Bool(TRUE)))) }
OneChoice == CHOOSE c \in AnyChoices : "finish_reason" \in DOMAIN c
MCDocs ==
  { "choices" :> J0!Arr(choices) @@ "object" :> J0!Str("o") @@ id @@ request @@ usage @@ metadata :
    choices \in {<<>>} \cup {<<J0!Obj(c)>> : c \in AnyChoices}
                \cup {<<J0!Obj(OneChoice), J0!Obj(c)>> : c \in AnyChoices},
    id \in Maybe("id", J0!Str("i")), request \in Maybe("request_id", J0!Str("q")),
    usage \in Maybe("usage", J0!Obj("total_tokens" :> J0!Num("7"))),
    metadata \in Maybe("metadata", J0!Obj(None)) }

Said(role, content, parts, calls, id) ==
  [role |-> role, content |-> content, parts |-> parts, calls |-> calls, callId |-> id]
Asks == Said("user", "what time is it", <<>>, <<>>, J0!Nil)
Shows == Said("user", J0!Nil, << [type |-> "text", value |-> "what is this", detail |-> J0!Nil],
                                  [type |-> "image_url", value |-> "u", detail |-> "low"] >>, <<>>, J0!Nil)
ToolAsked == Said("assistant", J0!Nil, <<>>,
                  << [id |-> "call1", type |-> "function", name |-> "now", arguments |-> "{}"],
                     [id |-> "call2", type |-> "function", name |-> "now", arguments |-> J0!Nil] >>, J0!Nil)
ToolSays(id) == Said("tool", "noon", <<>>, <<>>, id)
Tool == [name |-> "now", description |-> "the time", parameters |-> J0!Obj(None), required |-> J0!Nil]
MCRequests ==
  [model : {"m", J0!Nil},
   messages : {<<Asks>>, <<Shows>>, <<Asks, ToolAsked, ToolSays("call2"), ToolSays("call1")>>},
   store : BOOLEAN, stream : BOOLEAN, maxTokens : {0, 1}, temperature : {0, 1}, topP : {0},
   tools : {<<>>, <<Tool>>, <<Tool, [Tool EXCEPT !.parameters = [t |-> "bad"]]>>},
   choice : {J0!Nil, "auto"}]
Js == INSTANCE ChatJson WITH JsRequests <- MCRequests, JsDocs <- MCDocs

-----------------------------------------------------------------------------
ServicesInit ==
  /\ part \in {"chat", "chat_json", "mcp", "log", "setup", "posts", "json", "ota", "events"}
  /\ ChatInit /\ Js!JsInit /\ McpInit /\ LogInit /\ SetupInit
  /\ Po!PostInitial /\ Jv!JvInit /\ Init /\ EvInit

Talking ==
  \/ part = "chat" /\ ChatNext /\ UNCHANGED <<js, mcpVars>>
  \/ part = "chat_json" /\ Js!JsNext /\ UNCHANGED <<chatVars, mcpVars>>
  \/ part = "mcp" /\ McpNext /\ UNCHANGED <<chatVars, js>>
Managing ==
  \/ part = "log" /\ LogNext /\ UNCHANGED <<setupVars, post, jv>>
  \/ part = "setup" /\ SetupNext /\ UNCHANGED <<logVars, post, jv>>
  \/ part = "posts" /\ Po!PostNext /\ UNCHANGED <<logVars, setupVars, jv>>
  \/ part = "json" /\ Jv!JvNext /\ UNCHANGED <<logVars, setupVars, post>>

talkVars == <<chatVars, js, mcpVars>>
manageVars == <<logVars, setupVars, post, jv>>
eventVars == <<vars, evVars>>
servicesVars == <<part, talkVars, manageVars, eventVars>>

Receiving ==
  \/ part = "ota" /\ Next /\ UNCHANGED evVars
  \/ part = "events" /\ EvNext /\ UNCHANGED vars
ServicesNext ==
  /\ UNCHANGED part
  /\ \/ Talking /\ UNCHANGED <<manageVars, eventVars>>
     \/ Managing /\ UNCHANGED <<talkVars, eventVars>>
     \/ Receiving /\ UNCHANGED <<talkVars, manageVars>>

\* Only the steps of an update are owed: Fairness of Ota, in its part.
ServicesFairness ==
  /\ WF_vars(part = "ota" /\ Boot)
  /\ WF_vars(part = "ota" /\ Handle)
  /\ WF_vars(part = "ota" /\ Send)
ServicesSpec == ServicesInit /\ [][ServicesNext]_servicesVars /\ ServicesFairness

-----------------------------------------------------------------------------
(* The properties of the instances, each in its part.                         *)

\* infer_inner_chat.c:79 and :668: an answer goes back to the server as it came, its
\* tool calls included, and only what the parser allocated is freed.
AnswersKept == part = "chat_json" => Js!MessagesEchoed /\ Js!AnswersFreed
\* event.c:74, shadow.c:88, json.c:98: no JSON value of a message is freed twice, used
\* afterwards or forgotten, and objects and arrays hold what was put into them.
JsonOwned == /\ part = "posts" => Po!PostsOwned
             /\ part = "json" => Jv!JsonIsMap
=============================================================================
