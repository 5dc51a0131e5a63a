------------------------------- MODULE ChatJson -------------------------------
(* The JSON of a chat: the request that chat_request_context_init builds and    *)
(* the answers that parse_response and parse_stream_response take apart         *)
(* (infer_inner_chat.c).  A JSON object is a function from its field names; a   *)
(* value has a type t, a scalar's text s and the members of an object or array. *)
EXTENDS Integers, Sequences, SequencesExt, FiniteSetsExt, TLC

CONSTANTS JsRequests,  \* requests of the application
          JsDocs       \* answers of the server: objects

VARIABLE js            \* the last conversion
jsVars == <<js>>

Str(s) == [t |-> "string", s |-> s, m |-> <<>>]
Num(s) == [t |-> "number", s |-> s, m |-> <<>>]
Bool(b) == [t |-> "bool", s |-> IF b THEN "true" ELSE "false", m |-> <<>>]
JsNull == [t |-> "null", s |-> "", m |-> <<>>]
Obj(m) == [t |-> "object", s |-> "", m |-> m]
Arr(m) == [t |-> "array", s |-> "", m |-> m]

\* The C value NULL or 0.
Nil == "NULL"
Absent == [x \in {} |-> x]
Field(f, v) == f :> v
\* cJSON_AddStringToObject: with NULL nothing is added.
OptStr(f, s) == IF s = Nil THEN Absent ELSE Field(f, Str(s))
Opt(f, cond, v) == IF cond THEN Field(f, v) ELSE Absent

-----------------------------------------------------------------------------
(* chat_request_context_init: the request body.                              *)

ToolCallJson(c) ==
  Obj(Field("id", Str(c.id)) @@ Field("type", Str(c.type))
      @@ Field("function", Obj(OptStr("name", c.name) @@ OptStr("arguments", c.arguments))))

PartJson(p) ==
  Obj(Field("type", Str(p.type))
      @@ Opt("image_url", p.type = "image_url", Obj(OptStr("url", p.value) @@ OptStr("detail", p.detail)))
      @@ Opt("text", p.type = "text", Str(p.value)))

\* Mutant: the tool calls of a message are not sent back.
MessageJsonNoCalls(x) ==
  Obj(OptStr("role", x.role) @@ OptStr("content", x.content) @@ OptStr("tool_call_id", x.callId))
\* Contents of several parts replace the text.
MessageJson(x) ==
  Obj(OptStr("role", x.role)
      @@ (IF x.parts # <<>> THEN Field("content", Arr([i \in DOMAIN x.parts |-> PartJson(x.parts[i])]))
          ELSE OptStr("content", x.content))
      @@ Opt("tool_calls", x.calls # <<>>, Arr([i \in DOMAIN x.calls |-> ToolCallJson(x.calls[i])]))
      @@ OptStr("tool_call_id", x.callId))

\* The parameters are JSON, or left out when they cannot be parsed.
ToolJson(f) ==
  Obj(Field("type", Str("function"))
      @@ Field("function", Obj(OptStr("name", f.name) @@ OptStr("description", f.description)
                               @@ Opt("parameters", f.parameters.t # "bad", f.parameters)
                               @@ OptStr("required", f.required))))

Refused(r) == r.tools # <<>> /\ r.stream

\* tool_choice is JSON or else a string.
Body(r) ==
  OptStr("model", r.model)
  @@ Field("messages", Arr([i \in DOMAIN r.messages |-> MessageJson(r.messages[i])]))
  @@ Field("store", Bool(r.store)) @@ Field("stream", Bool(r.stream))
  @@ Opt("max_tokens", r.maxTokens > 0, Num(ToString(r.maxTokens)))
  @@ Opt("temperature", r.temperature > 0, Num(ToString(r.temperature)))
  @@ Opt("top_p", r.topP > 0, Num(ToString(r.topP)))
  @@ Opt("tools", r.tools # <<>>, Arr([i \in DOMAIN r.tools |-> ToolJson(r.tools[i])]))
  @@ Opt("tool_choice", r.choice # Nil, Str(r.choice))

-----------------------------------------------------------------------------
(* The answers.                                                              *)

Has(o, f, t) == f \in DOMAIN o /\ o[f].t = t
\* strdup of a string field; the value of a number field
Dup(o, f) == IF Has(o, f, "string") THEN o[f].s ELSE Nil
Number(o, f) == IF Has(o, f, "number") THEN o[f].s ELSE "0"
Members(o, f, t) == IF Has(o, f, t) THEN o[f].m ELSE <<>>

\* The ids and types are read unchecked: a call without them is none of ours.
ToolCall(o) ==
  LET f == Members(o, "function", "object")
  IN  [id |-> o["id"].s, type |-> o["type"].s, name |-> Dup(f, "name"), arguments |-> Dup(f, "arguments")]
ToolCalls(o) == LET a == Members(o, "tool_calls", "array") IN [i \in DOMAIN a |-> ToolCall(a[i].m)]

parse_choice(o) ==
  LET m == Members(o, "message", "object")
  IN  [index |-> Number(o, "index"), finish |-> Dup(o, "finish_reason"), role |-> Dup(m, "role"),
       content |-> Dup(m, "content"), calls |-> ToolCalls(m), function |-> Has(m, "function_call", "object")]

\* A nested object of numbers contributes its fields.
parse_usage(o) ==
  LET d == Members(o, "completion_tokens_details", "object")
  IN  [f \in {"prompt_tokens", "completion_tokens", "total_tokens"} |-> Number(o, f)]
      @@ [f \in {"reasoning_tokens", "accepted_prediction_tokens", "rejected_prediction_tokens"} |-> Number(d, f)]

Strings == {"id", "object", "model", "system_fingerprint", "request_id", "service_tier"}
Numbers == {"created", "seed", "top_p", "temperature", "presence_penalty", "frequency_penalty"}

\* parse_response; metadata still points into the tree that is deleted.
parse_response(o) ==
  LET a == Members(o, "choices", "array")
  IN  [strings |-> [f \in Strings |-> Dup(o, f)], numbers |-> [f \in Numbers |-> Number(o, f)],
       choices |-> [i \in DOMAIN a |-> parse_choice(a[i].m)],
       usage |-> parse_usage(Members(o, "usage", "object")), dangling |-> Has(o, "metadata", "object")]

\* content_filter_results_t
parse_content_filter_results(o) ==
  [f \in {"hate", "self_harm", "sexual", "violence"} |->
     LET r == Members(o, f, "object") IN Has(r, "filtered", "bool") /\ r["filtered"].s = "true"]

parse_delta(o) == [role |-> Dup(o, "role"), content |-> Dup(o, "content"), calls |-> ToolCalls(o)]
parse_stream_choice(o) ==
  [index |-> Number(o, "index"), finish |-> Dup(o, "finish_reason"),
   delta |-> parse_delta(Members(o, "delta", "object")),
   filter |-> parse_content_filter_results(Members(o, "content_filter_results", "object"))]
parse_stream_response(o) ==
  LET a == Members(o, "choices", "array")
  IN  [strings |-> [f \in {"id", "object", "model", "system_fingerprint"} |-> Dup(o, f)],
       created |-> Number(o, "created"), choices |-> [i \in DOMAIN a |-> parse_stream_choice(a[i].m)]]

-----------------------------------------------------------------------------
(* Who frees what: an allocation is named by its place in the structure.     *)

CallStrings(calls, at) ==
  UNION {{<<at, "call", i, f>> : f \in {g \in {"id", "type", "name", "arguments"} : calls[i][g] # Nil}} : i \in DOMAIN calls}
  \cup {<<at, "calls">> : x \in {y \in {1} : calls # <<>>}}
ChoiceStrings(c, i, fields) == {<<i, f>> : f \in {g \in fields : c[g] # Nil}}

Allocated(r) ==
  {<<0, f>> : f \in {g \in Strings : r.strings[g] # Nil}}
  \cup UNION {ChoiceStrings(r.choices[i], i, {"finish", "role", "content"}) \cup CallStrings(r.choices[i].calls, i)
              : i \in DOMAIN r.choices}
  \cup {<<i, "function">> : i \in {k \in DOMAIN r.choices : r.choices[k].function}}

\* Mutant: the tool calls are freed only along with a text.
chat_free_responseWithText(r) ==
  {<<0, f>> : f \in {g \in {"id", "object", "model", "system_fingerprint"} : r.strings[g] # Nil}}
  \cup UNION {ChoiceStrings(r.choices[i], i, {"finish", "role"})
              \cup (IF r.choices[i].content # Nil THEN CallStrings(r.choices[i].calls, i) ELSE {}) : i \in DOMAIN r.choices}
\* chat_free_response; a role only together with tool calls
chat_free_response(r) ==
  {<<0, f>> : f \in {g \in {"id", "object", "model", "system_fingerprint"} : r.strings[g] # Nil}}
  \cup UNION {ChoiceStrings(r.choices[i], i, {"finish"} \cup (IF r.choices[i].calls # <<>> THEN {"role"} ELSE {}))
              \cup CallStrings(r.choices[i].calls, i) : i \in DOMAIN r.choices}

StreamAllocated(r) ==
  {<<0, f>> : f \in {g \in DOMAIN r.strings : r.strings[g] # Nil}}
  \cup UNION {ChoiceStrings(r.choices[i].delta, i, {"role", "content"}) \cup ChoiceStrings(r.choices[i], i, {"finish"})
              \cup CallStrings(r.choices[i].delta.calls, i) : i \in DOMAIN r.choices}
\* chat_free_stream_response, chat_free_stream_choice, chat_free_stream_delta
chat_free_stream_response(r) ==
  {<<0, f>> : f \in {g \in DOMAIN r.strings : r.strings[g] # Nil}}
  \cup UNION {ChoiceStrings(r.choices[i].delta, i, {"role", "content"}) \cup ChoiceStrings(r.choices[i], i, {"finish"})
              : i \in DOMAIN r.choices}

-----------------------------------------------------------------------------
JsInit == js = [kind |-> "none", in |-> <<>>]
JsNext ==
  /\ js.kind = "none"
  /\ \/ \E r \in JsRequests : js' = [kind |-> "request", in |-> r]
     \/ \E d \in JsDocs, k \in {"answer", "event"} : js' = [kind |-> k, in |-> d]

\* What a message of the server looks like when it is sent back.
Echo(c) == MessageJson([role |-> c.role, content |-> c.content, parts |-> <<>>, calls |-> c.calls, callId |-> Nil])
Sendable(m) == [f \in {g \in DOMAIN m : g # "function_call" /\ m[g].t # "null"} |-> m[f]]

\* infer_inner_chat.c:79 and :218.  The message of an answer, its tool calls
\* included, goes back to the server as it came, so that a tool's result finds its
\* call; and no request that streams asks for tools.
MessagesEchoed ==
  /\ js.kind = "answer" => \A i \in DOMAIN parse_response(js.in).choices :
       Echo(parse_response(js.in).choices[i]) = Obj(Sendable(js.in["choices"].m[i].m["message"].m))
  /\ js.kind = "request" /\ ~Refused(js.in) =>
       /\ "tools" \in DOMAIN Body(js.in) => Body(js.in)["stream"] = Bool(FALSE)
       /\ \A i \in DOMAIN js.in.messages : js.in.messages[i].callId # Nil =>
            \E k \in 1 .. i - 1, n \in 1 .. 2 :
              /\ n \in DOMAIN js.in.messages[k].calls
              /\ "tool_calls" \in DOMAIN Body(js.in)["messages"].m[k].m
              /\ Body(js.in)["messages"].m[k].m["tool_calls"].m[n].m["id"]
                 = Body(js.in)["messages"].m[i].m["tool_call_id"]

\* infer_inner_chat.c:668 and :751.  Only what the parser allocated is freed, and
\* what is left behind is the text and role of a plain answer, function_call, two
\* strings of the answer, and the tool calls of an event.
AnswersFreed ==
  /\ js.kind = "answer" =>
       LET r == parse_response(js.in) IN
       /\ chat_free_response(r) \subseteq Allocated(r)
       /\ \A x \in Allocated(r) \ chat_free_response(r) :
            x[2] \in {"content", "role", "function", "request_id", "service_tier"}
  /\ js.kind = "event" =>
       LET r == parse_stream_response(js.in) IN
       /\ chat_free_stream_response(r) \subseteq StreamAllocated(r)
       /\ \A x \in StreamAllocated(r) \ chat_free_stream_response(r) : x[2] \in {"call", "calls"}
===============================================================================
