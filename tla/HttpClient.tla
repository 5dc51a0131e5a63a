------------------------------ MODULE HttpClient ------------------------------
(***************************************************************************)
(* The HTTP client, src/protocols/http.c and lws_http_client.c, with the    *)
(* chat calls of src/infer_inner_chat.c and src/onesdk_chat.c on top of it. *)
(*                                                                         *)
(* Each request has a context and a libwebsockets context of its own, and   *)
(* its callbacks run on the thread that waits for it: http_request and      *)
(* http_wait_complete call lws_service in a loop.  What the requests share  *)
(* are two static variables, interrupted and status.                       *)
(*                                                                         *)
(* An answer is a status and a body of events, each of a number of parts    *)
(* that a fragment may cut anywhere; the last part of an event completes    *)
(* its separator.  Server, network and the cuts are external.              *)
(***************************************************************************)
EXTENDS Naturals, Sequences, SequencesExt, FiniteSetsExt

CONSTANTS
  Threads,     \* application threads that send requests
  Answers,     \* answers of the server: [status, sse, sizes]
  MaxReqs,     \* bound: number of requests
  MaxFrag,     \* parts in one READ callback (the receive buffer of lws)
  SseSize,     \* parts sse->buffer holds (SSE_BUFFER_SIZE - 1 bytes)
  MaxBody,     \* ONESDK_HTTP_MAX_BODY_SIZE
  MayFail      \* may lws fail to create a context or a connection?

ASSUME HttpAssumption ==
  /\ {MaxReqs, SseSize, MaxBody} \subseteq Nat /\ MaxFrag \in Nat \ {0}
  /\ MayFail \in BOOLEAN
  /\ \A a \in Answers :
       /\ a.status \in 200 .. 599 /\ a.sse \in BOOLEAN
       /\ a.sizes \in Seq(Nat \ {0})

VARIABLES
  interrupted,   \* static int interrupted: set by a failed connection, never reset
  status,        \* static int status
  at,            \* where each thread is
  req,           \* the request context of each thread
  nreq

vars == <<interrupted, status, at, req, nreq>>

-----------------------------------------------------------------------------
\* "sent": http_request_async has returned and nobody waits yet; "head" and
\* "service": at the loop condition and inside lws_service; "copy": between the
\* two uses of status; "back": the call has returned to the application.
Places == {"idle", "sent", "head", "service", "copy", "back"}
\* "connecting" until the handshake is written, "asking" until the body is,
\* "asked" until the answer's headers are there, "answered" until lws reports
\* the answer, "open" while its body arrives.
BeforeAnswer == {"connecting", "asking", "asked", "answered"}
ConnState == BeforeAnswer \cup {"none", "open", "done", "closed"}

\* Part i of event e, which has n parts.
Part(e, i, n) == [event |-> e, part |-> i, of |-> n]
Separator(p)  == p.part = p.of
EventParts(e, n) == [i \in 1 .. n |-> Part(e, i, n)]
BodyOf(a) == FlattenSeq([e \in DOMAIN a.sizes |-> EventParts(e, a.sizes[e])])

\* new_http_ctx
NewContext(async, answer) ==
  [async |-> async, answer |-> answer, todo |-> BodyOf(answer), conn |-> "none",
   isSse |-> FALSE, completed |-> FALSE, code |-> 0, result |-> 0,
   sse |-> <<>>, events |-> <<>>, cut |-> FALSE, body |-> <<>>, ends |-> <<>>]

\* The error codes of a call that did not start, as one number.
StartError == 1000

NoAnswer == [status |-> 200, sse |-> FALSE, sizes |-> <<>>]

Init ==
  /\ interrupted = FALSE /\ status = 0 /\ nreq = 0
  /\ at = [t \in Threads |-> "idle"]
  /\ req = [t \in Threads |-> NewContext(FALSE, NoAnswer)]

\* The connection exists and lws has callbacks left for it.
Serviced(t, states) == at[t] = "service" /\ req[t].conn \in states
Goto(t, place) == at' = [at EXCEPT ![t] = place]

-----------------------------------------------------------------------------
(* The application's calls.                                                *)

\* onesdk_chat: http_request or http_request_async up to its loop.  A streamed
\* request that nobody waits for is replaced in chat_ctx->request_context.
Start(t, async, answer) ==
  /\ at[t] \in {"idle", "sent", "back"} /\ nreq < MaxReqs
  /\ nreq' = nreq + 1
  /\ req' = [req EXCEPT ![t] = [NewContext(async, answer) EXCEPT !.conn = "connecting"]]
  /\ Goto(t, IF async THEN "sent" ELSE "head")
  /\ UNCHANGED <<interrupted, status>>

\* lws_create_context or lws_client_connect_via_info returns NULL, the latter
\* with or without a CONNECTION_ERROR callback before it: the call returns an
\* error.
StartFails(t, async, answer, told) ==
  /\ MayFail
  /\ at[t] \in {"idle", "sent", "back"} /\ nreq < MaxReqs
  /\ nreq' = nreq + 1
  /\ interrupted' = (interrupted \/ told)
  /\ req' = [req EXCEPT ![t] = [NewContext(async, answer) EXCEPT
                 !.conn = "closed", !.completed = told, !.result = StartError,
                 !.ends = IF told THEN <<"error">> ELSE <<>>]]
  /\ Goto(t, "back")
  /\ UNCHANGED status

\* onesdk_chat_wait -> http_wait_complete
Wait(t) ==
  /\ at[t] = "sent"
  /\ Goto(t, "head")
  /\ UNCHANGED <<interrupted, status, req, nreq>>

\* Mutant: the wait ends with the status line.
GoesOnUntilStatus(t) == ~req[t].completed /\ req[t].code = 0 /\ (req[t].async \/ ~interrupted)
\* The loop conditions of lws_http_client_send_request and http_wait_complete.
GoesOn(t) == ~req[t].completed /\ (req[t].async \/ ~interrupted)

LoopServices(t) ==
  /\ at[t] = "head" /\ GoesOn(t)
  /\ Goto(t, "service")
  /\ UNCHANGED <<interrupted, status, req, nreq>>

\* chat_wait_complete turns the code into its result: 0 for 1 to 299, else the
\* code itself.
ResultOf(code) == IF code > 0 /\ code < 300 THEN 0 ELSE code

\* The wait is over: onesdk_chat and onesdk_chat_wait release the request.  Of a
\* synchronous one the result is the body (parse_response), whatever the code.
LoopEnds(t) ==
  /\ at[t] = "head" /\ ~GoesOn(t)
  /\ req' = [req EXCEPT ![t].result = IF req[t].async THEN ResultOf(req[t].code) ELSE 0]
  /\ Goto(t, "back")
  /\ UNCHANGED <<interrupted, status, nreq>>

\* onesdk_chat_release_context with a streamed request that nobody waits for:
\* lws_context_destroy reports a connection that is still being made as failed.
Release(t) ==
  /\ at[t] = "sent"
  /\ interrupted' = TRUE
  /\ req' = [req EXCEPT ![t] = NewContext(FALSE, NoAnswer)]
  /\ Goto(t, "idle")
  /\ UNCHANGED <<status, nreq>>

-----------------------------------------------------------------------------
(* callback_onesdk_http, inside lws_service.                               *)

\* CLIENT_CONNECTION_ERROR: the connection cannot be made, times out or is lost
\* before the answer, or one of the three callbacks below returned -1 because the
\* headers do not fit lws's buffer or malloc failed.
ConnectionError(t) ==
  /\ Serviced(t, BeforeAnswer)
  /\ interrupted' = TRUE
  /\ req' = [req EXCEPT ![t].conn = "closed", ![t].completed = TRUE,
                        ![t].ends = Append(@, "error")]
  /\ Goto(t, "head")
  /\ UNCHANGED <<status, nreq>>

\* The context of t changes its state inside lws_service and nothing else does.
Advances(t, from, r) ==
  /\ Serviced(t, {from})
  /\ req' = [req EXCEPT ![t] = r]
  /\ Goto(t, "head")
  /\ UNCHANGED <<interrupted, status, nreq>>

\* CLIENT_APPEND_HANDSHAKE_HEADER: all the headers are added and a body is
\* announced.
Handshake(t) == Advances(t, "connecting", [req[t] EXCEPT !.conn = "asking"])

\* CLIENT_HTTP_WRITEABLE: post_buf in one write, or nothing when there is none.
SendBody(t) == Advances(t, "asking", [req[t] EXCEPT !.conn = "asked"])

\* CLIENT_FILTER_PRE_ESTABLISH: the content type decides on is_sse.
ReadHeaders(t) ==
  Advances(t, "asked", [req[t] EXCEPT !.conn = "answered", !.isSse = req[t].answer.sse])

\* ESTABLISHED_CLIENT_HTTP: status = lws_http_client_http_response(wsi) ...
EstablishedStatus(t) ==
  /\ Serviced(t, {"answered"})
  /\ status' = req[t].answer.status
  /\ Goto(t, "copy")
  /\ UNCHANGED <<interrupted, req, nreq>>

\* ... and http_ctx->response->error_code = status.
EstablishedCopy(t) ==
  /\ at[t] = "copy"
  /\ req' = [req EXCEPT ![t].conn = "open", ![t].code = status]
  /\ Goto(t, "head")
  /\ UNCHANGED <<interrupted, status, nreq>>

\* What sse->buffer still takes of a fragment.
Taken(r, fragment) ==
  SubSeq(fragment, 1, Min({Len(fragment), SseSize - Len(r.sse)}))

\* The loop over the buffer: the events it begins with, each up to and with its
\* separator, and what remains of it.
Ends(b)      == {i \in DOMAIN b : Separator(b[i])}
Blocks(b)    == LET n(i) == Cardinality({j \in Ends(b) : j < i})
                    end(k) == CHOOSE i \in Ends(b) : n(i) = k - 1
                    begin(k) == IF k = 1 THEN 1 ELSE end(k - 1) + 1
                IN [k \in 1 .. Cardinality(Ends(b)) |-> SubSeq(b, begin(k), end(k))]
\* Mutant: the bytes behind the last event are dropped.
RemainingNone(b) == <<>>
Remaining(b) == SubSeq(b, (IF Ends(b) = {} THEN 0 ELSE Max(Ends(b))) + 1, Len(b))

\* Does this fragment go to response_body?
Stored(r) == ~r.async \/ r.code > 300
TooLarge(r, f) == Stored(r) /\ r.body # <<>> /\ Len(r.body) + Len(f) > MaxBody

\* RECEIVE_CLIENT_HTTP_READ of a fragment: the SSE buffer, the callbacks for
\* the events in it, and the response body.  A body that grows too large makes
\* the callback fail, and lws closes the connection.
Read(t, n) ==
  /\ Serviced(t, {"open"})
  /\ n \in 1 .. Min({MaxFrag, Len(req[t].todo)})
  /\ LET r == req[t]
         fragment == SubSeq(r.todo, 1, n)
         f == IF r.isSse THEN Taken(r, fragment) ELSE fragment
         b == r.sse \o f
     IN req' = [req EXCEPT ![t] =
          [r EXCEPT
             !.todo   = SubSeq(@, n + 1, Len(@)),
             !.sse    = IF r.isSse THEN Remaining(b) ELSE @,
             !.events = IF r.isSse THEN @ \o Blocks(b) ELSE @,
             !.cut    = @ \/ f # fragment,
             !.body   = IF Stored(r) /\ ~TooLarge(r, f) THEN @ \o f ELSE @,
             !.conn   = IF TooLarge(r, f) THEN "done" ELSE @]]
  /\ Goto(t, "head")
  /\ UNCHANGED <<interrupted, status, nreq>>

\* COMPLETED_CLIENT_HTTP: the body has been received.  An error answer is
\* reported with the error callback and ends with the close that follows.
Completed(t) ==
  /\ Serviced(t, {"open"}) /\ req[t].todo = <<>>
  /\ LET r == req[t] IN req' = [req EXCEPT ![t] =
       IF r.code > 300
       THEN [r EXCEPT !.conn = "done", !.ends = Append(@, "error")]
       ELSE [r EXCEPT !.conn = "done", !.ends = Append(@, "complete"), !.completed = TRUE]]
  /\ Goto(t, "head")
  /\ UNCHANGED <<interrupted, status, nreq>>

\* Mutant: every close is reported as an error.
ClosedReports(t) ==
  /\ Serviced(t, {"open", "done"})
  /\ status' = req[t].answer.status
  /\ req' = [req EXCEPT ![t].conn = "closed", ![t].completed = TRUE,
                        ![t].ends = Append(@, "error")]
  /\ Goto(t, "head")
  /\ UNCHANGED <<interrupted, nreq>>

\* Mutant: a close that was not completed counts as the end of the body.
ClosedCompletes(t) ==
  /\ Serviced(t, {"open", "done"})
  /\ status' = req[t].answer.status
  /\ req' = [req EXCEPT ![t].conn = "closed", ![t].completed = TRUE,
                        ![t].ends = IF @ = <<>> THEN <<"complete">> ELSE @]
  /\ Goto(t, "head")
  /\ UNCHANGED <<interrupted, nreq>>

\* Mutant: the close is not noted.
ClosedForgets(t) ==
  /\ Serviced(t, {"open", "done"})
  /\ req' = [req EXCEPT ![t].conn = "closed"]
  /\ Goto(t, "head")
  /\ UNCHANGED <<interrupted, status, nreq>>

\* CLOSED_CLIENT_HTTP, after COMPLETED or because the peer closed or a timeout
\* ended the connection before: no callback of the application.  The response
\* code lws still knows goes to status.
Closed(t) ==
  /\ Serviced(t, {"open", "done"})
  /\ status' \in {0, req[t].answer.status}
  /\ req' = [req EXCEPT ![t].conn = "closed", ![t].completed = TRUE]
  /\ Goto(t, "head")
  /\ UNCHANGED <<interrupted, nreq>>

-----------------------------------------------------------------------------
Callback(t) ==
  \/ ConnectionError(t) \/ Handshake(t) \/ SendBody(t) \/ ReadHeaders(t)
  \/ EstablishedStatus(t) \/ EstablishedCopy(t)
  \/ \E n \in 1 .. MaxFrag : Read(t, n)
  \/ Completed(t) \/ Closed(t)

Step(t) == LoopServices(t) \/ LoopEnds(t) \/ Callback(t)

Next == \E t \in Threads :
  \/ \E async \in BOOLEAN, a \in Answers : 
       Start(t, async, a) \/ \E told \in BOOLEAN : StartFails(t, async, a, told)
  \/ Wait(t) \/ Release(t) \/ Step(t)

Spec == Init /\ [][Next]_vars

\* A thread that waits keeps running, and lws reports a callback for every
\* connection in the end: its timeouts bound the wait for the peer.
Fairness == \A t \in Threads : WF_vars(Step(t))
FairSpec == Spec /\ Fairness

-----------------------------------------------------------------------------
(* What must hold.                                                         *)

\* Every field of the state has its type; a thread serves a connection only
\* while its request has one (callback_onesdk_http and the loops around it).
TypeOK ==
  /\ interrupted \in BOOLEAN /\ nreq \in 0 .. MaxReqs
  /\ status \in {0} \cup {a.status : a \in Answers}
  /\ at \in [Threads -> Places]
  /\ \A t \in Threads :
       /\ req[t].conn \in ConnState /\ req[t].answer \in Answers \cup {NoAnswer}
       /\ {req[t].async, req[t].isSse, req[t].completed, req[t].cut} \subseteq BOOLEAN
       /\ req[t].code \in Nat /\ req[t].result \in Nat
       /\ Len(req[t].sse) <= SseSize
       /\ at[t] \in {"service", "copy"} => req[t].conn # "none"

\* Every event of the answer leaves room for one more fragment in sse->buffer.
Fits(a) == \A e \in DOMAIN a.sizes : a.sizes[e] - 1 + MaxFrag <= SseSize
EventsOf(a) == [e \in DOMAIN a.sizes |-> EventParts(e, a.sizes[e])]

\* However the fragments cut a stream of events that fit, on_get_sse_cb is called
\* once for each event, in order and with all of it, before on_complete_cb; the
\* state keeps its types, so sse->buffer is never overrun.
StreamDelivered ==
  /\ TypeOK
  /\ \A t \in Threads : LET r == req[t] IN
       r.answer.sse /\ Fits(r.answer) =>
         /\ IsPrefix(r.events, EventsOf(r.answer))
         /\ "complete" \in Range(r.ends) => r.events = EventsOf(r.answer)

\* A synchronous request that is reported complete has the whole body.
BodyWhole ==
  \A t \in Threads : LET r == req[t] IN
    /\ ~r.async /\ "complete" \in Range(r.ends)
    /\ ~r.answer.sse \/ Fits(r.answer)
    => r.body = BodyOf(r.answer)

\* A request ends with one call of on_complete_cb or on_error_cb at most, and no
\* event or body is delivered after it.
EndsOnce ==
  [][\A t \in Threads :
       req[t].ends # <<>> /\ nreq' = nreq /\ at'[t] # "idle" =>
         UNCHANGED <<req[t].ends, req[t].events, req[t].body>>]_vars

\* http_request does not return before its exchange is over, as long as no
\* connection has failed in this process (interrupted).
SyncAnswered ==
  \A t \in Threads :
    at[t] = "back" /\ ~req[t].async /\ ~interrupted => req[t].conn \in {"done", "closed"}

\* http_request and http_wait_complete return.
EveryWaitReturns ==
  \A t \in Threads : at[t] \in {"head", "service", "copy"} ~> at[t] = "back"

\* docs/apidocs.md of onesdk_chat_wait: 0 on success, a negative value on error.
\* A wait that returns 0 has seen on_complete_cb.
WaitReportsOutcome ==
  \A t \in Threads :
    at[t] = "back" /\ req[t].async /\ req[t].result = 0 => req[t].ends = <<"complete">>
=============================================================================
