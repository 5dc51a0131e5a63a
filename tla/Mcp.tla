---------------------------------- MODULE Mcp ----------------------------------
(* The MCP client, mcp_client.c.  One thread receives server-sent events and     *)
(* leaves the last message in ctx->messages; callers post a request and look at  *)
(* that place until its id is theirs or their time is over.  The server and the  *)
(* network are external: an answer comes, late, as an error, or never.           *)
EXTENDS Integers, FiniteSets

CONSTANTS
  Callers,     \* threads that call mcp_tool_call or mcp_tools_list
  MaxId,       \* 65535
  MaxCalls,    \* bound: calls
  MaxNotes,    \* bound: messages of the server that answer nothing
  Budget       \* 5000 ms in steps of 10 ms

\* What the theorems assume of them: there is an id to hand out.
McpConstants == MaxId \in Nat \ {0} /\ MaxCalls \in Nat /\ MaxNotes \in Nat /\ Budget \in Nat
ASSUME McpAssumption == McpConstants

VARIABLES
  mcp,         \* mcp_context_t: endpoint_got, initialized, initialize_request_id
  mbox,        \* ctx->messages: the request id and whose result it is, 0 for NULL
  recv,        \* the receiver: the event it handles and how far it is
  nextId,      \* static jsonrpc_requestID
  server,      \* requests the server may still answer: [id, call]
  caller,      \* per caller: where it is, its call, id, time left, result; fresh:
               \* no other request has had the id, before it or while it waits
  ncall, nnote,
  used,        \* ids handed out so far
  answered     \* calls whose result the server has sent
mcpVars == <<mcp, mbox, recv, nextId, server, caller, ncall, nnote, used, answered>>

\* get_jsonrpc_requestID: 1 is handed out again by the next call.
NextId(n) == IF n < MaxId THEN [id |-> n, next |-> n + 1] ELSE [id |-> 1, next |-> 1]
TakeId == nextId' = NextId(nextId).next /\ used' = used + 1

IdleCaller == [at |-> "idle", call |-> 0, id |-> 0, time |-> 0, result |-> 0, fresh |-> TRUE, mine |-> FALSE]
NoEvent == [at |-> "none", kind |-> "", id |-> 0, call |-> 0]

\* mcp_ctx_new, mcp_receiver_init
McpInit ==
  /\ mcp = [endpoint |-> FALSE, ready |-> FALSE, initId |-> 0]
  /\ mbox = [id |-> 0, result |-> 0] /\ recv = NoEvent /\ nextId = 1 /\ used = 0
  /\ server = {} /\ caller = [c \in Callers |-> IdleCaller] /\ ncall = 0 /\ nnote = 0 /\ answered = {}

\* The bodies of the requests; the notification has no id and gets no answer.
Request(id, method, call) == [id |-> id, method |-> method, call |-> call]
build_initialize_request(id) == Request(id, "initialize", 0)
build_tools_list_request(id, call) == Request(id, "tools/list", call)
build_tool_call_request(id, call) == Request(id, "tools/call", call)

\* The first call lists the tools, the others use one.
Lists(call) == call = 1
\* sse_get_response_result: the result, or NULL for an error
sse_get_response_result(r, ok) == IF ok THEN r.call ELSE 0
\* A result that has no tools, or no content, is none; NULL is not parsed.
mcp_tools_list_parse(result) == IF Lists(result) THEN result ELSE 0
mcp_tool_result_parse(result) == IF Lists(result) THEN 0 ELSE result

Locked == recv.at # "none"

-----------------------------------------------------------------------------
(* mcp_packet_handle, on the thread in block_receive_from_sse_server.         *)

\* The first event names the endpoint: mcp_client_init posts the initialize
\* request while the lock is held.
EndpointEvent ==
  /\ ~Locked /\ ~mcp.endpoint
  /\ mcp' = [mcp EXCEPT !.endpoint = TRUE, !.initId = NextId(nextId).id]
  /\ TakeId
  /\ server' = server \cup {build_initialize_request(NextId(nextId).id)}
  /\ UNCHANGED <<mbox, recv, caller, ncall, nnote, answered>>

\* An answer arrives, with a result or an error, or a message without an id
\* (sse_parse_request_id: -1): the old result is freed and the id is set ...
mcp_packet_handle(id, call) ==
  /\ ~Locked /\ mcp.endpoint
  /\ recv' = [at |-> "id set", kind |-> "message", id |-> id, call |-> call]
  /\ mbox' = [id |-> id, result |-> 0]
  /\ UNCHANGED <<mcp, nextId, used, caller, ncall>>
AnswerArrives == \E r \in server, ok \in BOOLEAN :
  /\ mcp_packet_handle(r.id, sse_get_response_result(r, ok))
  /\ server' = server \ {r}
  /\ answered' = IF ok THEN answered \cup {r.call} ELSE answered
  /\ UNCHANGED nnote
NoteArrives == /\ nnote < MaxNotes /\ nnote' = nnote + 1
               /\ mcp_packet_handle(-1, 0) /\ UNCHANGED <<server, answered>>

\* ... the answer to initialize is confirmed with a notification, which uses an
\* id, and then the result is set and the lock released.
mcp_send_initialize_notification == mcp' = [mcp EXCEPT !.ready = TRUE] /\ TakeId
Store ==
  /\ recv.at = "id set"
  /\ IF ~mcp.ready /\ recv.id = mcp.initId
     THEN mcp_send_initialize_notification
     ELSE UNCHANGED <<mcp, nextId, used>>
  /\ mbox' = [mbox EXCEPT !.result = recv.call]
  /\ recv' = NoEvent
  /\ UNCHANGED <<server, caller, ncall, nnote, answered>>

-----------------------------------------------------------------------------
(* mcp_tool_call and mcp_tools_list.                                          *)

Moves(c, r) == caller' = [caller EXCEPT ![c] = r]
CallerOnly(c, r) == Moves(c, r) /\ UNCHANGED <<mcp, mbox, recv, nextId, used, server, ncall, nnote, answered>>

Call(c) ==
  /\ caller[c].at = "idle" /\ ncall < MaxCalls
  /\ ncall' = ncall + 1
  /\ Moves(c, [IdleCaller EXCEPT !.at = "wait", !.call = ncall + 1, !.time = Budget])
  /\ UNCHANGED <<mcp, mbox, recv, nextId, used, server, nnote, answered>>

\* mcp_endpoint_got and mcp_initialized: the two waits share the budget.
Wait(c) == /\ caller[c].at = "wait" /\ ~(mcp.endpoint /\ mcp.ready) /\ caller[c].time > 0
           /\ CallerOnly(c, [caller[c] EXCEPT !.time = @ - 1])
GiveUp(c) == /\ caller[c].at = "wait" /\ ~(mcp.endpoint /\ mcp.ready) /\ caller[c].time = 0
             /\ CallerOnly(c, [caller[c] EXCEPT !.at = "idle"])

\* The request is posted; the answer may be on its way before the post returns.
Post(c) ==
  /\ caller[c].at = "wait" /\ mcp.endpoint /\ mcp.ready
  /\ LET id == NextId(nextId).id IN
     /\ caller' = [d \in Callers |->
          IF d = c THEN [caller[c] EXCEPT !.at = "poll", !.id = id, !.fresh = (used < MaxId - 1)]
          ELSE [caller[d] EXCEPT !.fresh = @ /\ ~(caller[d].at \in {"poll", "found"} /\ caller[d].id = id)]]
     /\ server' = server \cup {IF Lists(caller[c].call) THEN build_tools_list_request(id, caller[c].call)
                               ELSE build_tool_call_request(id, caller[c].call)}
  /\ TakeId
  /\ UNCHANGED <<mcp, mbox, recv, ncall, nnote, answered>>

\* while (ctx->messages.request_id != request_id && timeout_ms > 0), unlocked
Poll(c) == /\ caller[c].at = "poll" /\ mbox.id # caller[c].id /\ caller[c].time > 0
           /\ CallerOnly(c, [caller[c] EXCEPT !.time = @ - 1])
\* An answer that is there when the time is over is not looked at.
Timeout(c) == /\ caller[c].at = "poll" /\ caller[c].time = 0
              /\ CallerOnly(c, [caller[c] EXCEPT !.at = "idle"])
Found(c) == /\ caller[c].at = "poll" /\ mbox.id = caller[c].id /\ caller[c].time > 0
            /\ CallerOnly(c, [caller[c] EXCEPT !.at = "found"])
Parsed(c) == IF Lists(caller[c].call) THEN mcp_tools_list_parse(mbox.result)
             ELSE mcp_tool_result_parse(mbox.result)
Took(c) == CallerOnly(c, [caller[c] EXCEPT !.at = "idle", !.result = Parsed(c),
                                           !.mine = (mbox.id = caller[c].id)])
\* Mutant: the result is taken without the lock.
TakeResultUnlocked(c) == caller[c].at = "found" /\ Took(c)
\* The lock is taken after the look: the result is parsed, NULL gives NULL.
TakeResult(c) == caller[c].at = "found" /\ ~Locked /\ Took(c)

McpNext ==
  \/ EndpointEvent \/ AnswerArrives \/ NoteArrives \/ Store
  \/ \E c \in Callers : \/ Call(c) \/ Wait(c) \/ GiveUp(c) \/ Post(c) \/ Poll(c)
                        \/ Timeout(c) \/ Found(c) \/ TakeResult(c)

McpSpec == McpInit /\ [][McpNext]_mcpVars

-----------------------------------------------------------------------------
\* mcp_client.c:305 and :410.  A call whose id is still the last message's when it
\* takes the lock returns the result of its own request, or none when the answer
\* was an error; late answers and other messages do not change that.  (Between the
\* look at line 420 and the lock another message may replace the answer, and its
\* result is returned; from the 65535th id on an id may be used twice, and a call
\* whose id is not its own alone may get another's result.)
OwnAnswer ==
  \A c \in Callers : LET k == caller[c] IN k.at = "idle" /\ k.fresh /\ k.mine =>
    k.result = IF k.call \in answered THEN k.call ELSE 0
===============================================================================
