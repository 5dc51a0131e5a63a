--------------------------------- MODULE Chat ---------------------------------
(* The chat calls: onesdk_chat.c and the requests of infer_inner_chat.c.  The   *)
(* HTTP client below them is HttpClient; here an answer is what its callbacks   *)
(* bring.  All of it runs on the application's thread: a stream is read inside  *)
(* onesdk_chat_wait.                                                           *)
EXTENDS Integers, Sequences, SequencesExt, FiniteSetsExt

CONSTANTS
  ChatCaps,     \* sizes of the caller's buffer: at least 1
  Pieces,       \* lengths of the texts of a stream's events
  Texts,        \* lengths of the text of a whole answer
  MaxChats,     \* bound: calls of onesdk_chat
  MaxStream     \* bound: bytes of one stream

\* What the theorems assume of them.
ChatConstants ==
  /\ ChatCaps \subseteq Nat \ {0} /\ Pieces \subseteq Nat /\ Texts \subseteq Nat
  /\ MaxChats \in Nat /\ MaxStream \in Nat
ASSUME ChatAssumption == ChatConstants

VARIABLES
  chat,     \* the onesdk_chat_context_t of the SDK context
  buf,      \* the caller's buffer of the last call, with the byte behind it
  heap,     \* live objects: <<"request", n>>, <<"response", n>>
  nchat,    \* requests made
  left      \* was an object left behind that nothing refers to?
chatVars == <<chat, buf, heap, nchat, left>>

\* Bytes of a text are numbered from 1; 0 is the terminator, -1 an untouched byte.
Untouched(n) == [i \in 1 .. n |-> -1]
Put(mem, at, bytes) ==
  [i \in DOMAIN mem |-> IF i - at \in DOMAIN bytes THEN bytes[i - at] ELSE mem[i]]
Buffer(cap) == [cap |-> cap, cur |-> 0, mem |-> Untouched(cap + 1), sent |-> 0, seen |-> <<>>, told |-> 0]

\* onesdk_chat_context_init
onesdk_chat_context_init ==
  [up |-> TRUE, request |-> 0, streaming |-> FALSE, reading |-> FALSE,
   callbacks |-> FALSE, keep |-> FALSE, out |-> 0, ended |-> "no"]

ChatInit == /\ chat = onesdk_chat_context_init /\ buf = Buffer(1)
            /\ heap = {} /\ nchat = 0 /\ left = FALSE

-----------------------------------------------------------------------------
Idle == chat.up /\ ~chat.reading
onesdk_chat_set_callbacks == /\ Idle /\ chat' = [chat EXCEPT !.callbacks = TRUE]
                             /\ UNCHANGED <<buf, heap, nchat, left>>
onesdk_chat_set_functioncall_data == /\ Idle /\ chat' = [chat EXCEPT !.keep = TRUE]
                                     /\ UNCHANGED <<buf, heap, nchat, left>>

Called == Idle /\ nchat < MaxChats /\ nchat' = nchat + 1

\* chat_request_context_init refuses tools with a stream and an empty endpoint;
\* its HTTP context (and the JSON tree) is left behind.
ChatRefused == Called /\ left' = TRUE /\ UNCHANGED <<chat, buf, heap>>

\* onesdk_chat_send_inner with a stream: chat_send_stream_request returns and the
\* events come with the wait.  A request nobody waited for is forgotten.  One that
\* does not start stays until the wait as well.
ChatStream(cap) ==
  /\ Called
  /\ chat' = [chat EXCEPT !.request = nchat + 1, !.streaming = TRUE, !.ended = "no"]
  /\ buf' = Buffer(cap)
  /\ heap' = heap \cup {<<"request", nchat + 1>>}
  /\ left' = (left \/ chat.request # 0)

\* strncpy(output, content, *output_len - 1) fills up with zeros and leaves the
\* last byte alone; the length is reported when the text is shorter.
Strncpy(b, n) == Put(b.mem, 0, [i \in 1 .. b.cap - 1 |-> IF i <= n THEN i ELSE 0])
\* Mutant: the length is that of the text, however much was copied.
ReportedAll(b, n) == n
Reported(b, n) == IF n >= b.cap THEN b.cap ELSE n

\* onesdk_chat_send_inner without a stream: the request is released at once.
\* There is no answer, or one without text, or one of n bytes.
NoResponse(cap) == buf' = Buffer(cap)
ResponseText(cap, n) ==
  LET b == Buffer(cap)
  IN  buf' = [b EXCEPT !.mem = Strncpy(b, n), !.sent = n, !.told = Reported(b, n)]
\* The response is freed, or given to the application; *_response_out may still
\* hold an earlier one, which is lost.
ChatSync(response) ==
  LET kept == response /\ chat.keep
  IN  /\ Called
      /\ chat' = [chat EXCEPT !.request = 0, !.streaming = FALSE, !.ended = "no",
                              !.out = IF kept THEN nchat + 1 ELSE @]
      /\ heap' = IF kept THEN heap \cup {<<"response", nchat + 1>>} ELSE heap
      /\ left' = (left \/ chat.request # 0 \/ (kept /\ chat.out # 0))

-----------------------------------------------------------------------------
\* onesdk_chat_wait of a stream; otherwise it returns at once.
WaitBegins ==
  /\ Idle /\ chat.streaming /\ chat.request # 0
  /\ chat' = [chat EXCEPT !.reading = TRUE]
  /\ UNCHANGED <<buf, heap, nchat, left>>

\* Mutant: the room is compared with the piece alone.
MaxCopyPiece(b, n) == IF n >= b.cap - 1 THEN b.cap - b.cur ELSE n
\* How much of a piece _chat_internal_stream_callback copies.
MaxCopy(b, n) == IF b.cur + n >= b.cap - 1 THEN b.cap - b.cur ELSE n

\* An event with a piece of text: memcpy (of its terminator as well where that is
\* within max_copy_len), the terminator, the application's callback.  Events
\* without text or that are not JSON change nothing.
StreamPiece(n) ==
  /\ chat.up /\ chat.reading /\ chat.ended = "no" /\ buf.sent + n <= MaxStream
  /\ LET m == MaxCopy(buf, n)
         bytes == SubSeq([i \in 1 .. n |-> buf.sent + i] \o <<0>>, 1, m)
     IN  buf' = [buf EXCEPT !.mem = Put(Put(@, buf.cur, bytes), buf.cur + m, <<0>>),
                            !.cur = @ + m, !.sent = @ + n,
                            !.seen = IF chat.callbacks THEN @ \o bytes ELSE @]
  /\ UNCHANGED <<chat, heap, nchat, left>>

\* The internal callback of the end or of an error: the application's own is called.
StreamEnds(end) ==
  /\ chat.up /\ chat.reading /\ chat.ended = "no"
  /\ chat' = [chat EXCEPT !.ended = end]
  /\ UNCHANGED <<buf, heap, nchat, left>>
\* chat_wait_complete returns after one of these, or after a mere close: the request
\* is released.
onesdk_chat_wait_inner ==
  /\ chat.up /\ chat.reading
  /\ chat' = [chat EXCEPT !.request = 0, !.reading = FALSE]
  /\ heap' = heap \ {<<"request", chat.request>>}
  /\ UNCHANGED <<buf, nchat, left>>

\* Mutant: a stream that nobody waited for is not released.
ReleasedOnlyResponse(c) == {<<"response", c.out>>}
\* What onesdk_chat_release_context_inner frees.
Released(c) == {<<"request", c.request>>, <<"response", c.out>>}
onesdk_chat_release_context ==
  /\ Idle
  /\ heap' = heap \ Released(chat)
  /\ chat' = [chat EXCEPT !.up = FALSE, !.request = 0, !.out = 0]
  /\ UNCHANGED <<buf, nchat, left>>

ChatNext ==
  \/ onesdk_chat_set_callbacks \/ onesdk_chat_set_functioncall_data \/ ChatRefused
  \/ \E cap \in ChatCaps :
       \/ ChatStream(cap)
       \/ ChatSync(FALSE) /\ NoResponse(cap)
       \/ ChatSync(TRUE) /\ (NoResponse(cap) \/ \E n \in Texts : ResponseText(cap, n))
  \/ WaitBegins \/ \E n \in Pieces : StreamPiece(n)
  \/ (\E end \in {"completed", "error"} : StreamEnds(end))
  \/ onesdk_chat_wait_inner \/ onesdk_chat_release_context

ChatSpec == ChatInit /\ [][ChatNext]_chatVars

-----------------------------------------------------------------------------
(* What must hold.                                                           *)

\* onesdk_chat.c:100 and :245.  However a text is cut, the buffer holds a prefix
\* of it, in full unless the buffer is full; only the terminator of a full buffer
\* lies behind it; the callbacks got what the buffer holds since they were set;
\* and every byte of the reported length was written.
TextInBuffer ==
  LET n == Min({buf.sent, buf.cap})
      text == SubSeq(buf.mem, 1, buf.cur)
      terminated == buf.mem[buf.cap] = 0
  IN  /\ buf.cur <= buf.cap
      /\ \A i \in 1 .. buf.cur : text[i] = i \/ (i = buf.cap /\ terminated)
      /\ buf.cur < buf.cap => buf.told > 0 \/ buf.cur = buf.sent
      /\ buf.mem[buf.cap + 1] # -1 => buf.cur = buf.cap
      /\ IsSuffix(buf.seen, text)
      /\ \A i \in 1 .. buf.told : i < buf.cap => buf.mem[i] = i
      /\ buf.told <= n \/ buf.told = buf.cap

\* onesdk_chat.c:229, :261, :305.  What the context refers to is live, and when it
\* is released nothing is left but what a refused call, a chat over an unfinished
\* stream or a second kept response had lost.
ChatObjectsOwned ==
  /\ chat.request # 0 => <<"request", chat.request>> \in heap
  /\ chat.out # 0 => <<"response", chat.out>> \in heap
  /\ ~chat.up /\ ~left => heap = {}
===============================================================================
