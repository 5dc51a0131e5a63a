---------------------------- MODULE RealtimeEvents ----------------------------
(***************************************************************************)
(* The receiving side of the realtime agent: rt_recv_cb of src/onesdk_rt.c, *)
(* which CLIENT_RECEIVE in src/infer_realtime_ws.c calls for every fragment. *)
(* It appends the fragment to rt_json_buf and then parses and dispatches as *)
(* many JSON documents as the buffer begins with.                          *)
(*                                                                         *)
(* A document is cut in Parts parts; only the whole of them, in order and   *)
(* at the start of the buffer, parses (no proper prefix of a JSON object    *)
(* is a JSON object).  Its kind is the callback its type and fields select. *)
(* The server, the network and the point where a fragment ends are          *)
(* external: a fragment is any run of the parts that are on their way.      *)
(***************************************************************************)
EXTENDS Naturals, Sequences, FiniteSetsExt

CONSTANTS
  Parts,        \* parts of a document
  DocKinds,     \* kinds of the documents the server sends
  Callbacks,    \* members of onesdk_rt_event_cb_t that are not NULL
  MaxDocs,      \* bound: number of documents
  MaxDrops,     \* bound: number of lost connections
  ReallocMayFail

\* The six callbacks, and documents that select none of them: another type, no
\* event_id, or a field of the event missing.
AllKinds == {"on_audio", "on_text", "on_translation_text", "on_transcript_text",
             "on_response_done", "on_error", "none"}

ASSUME EventsAssumption ==
  /\ Parts \in Nat \ {0} /\ MaxDocs \in Nat /\ MaxDrops \in Nat
  /\ DocKinds \subseteq AllKinds /\ Callbacks \subseteq AllKinds \ {"none"}
  /\ ReallocMayFail \in BOOLEAN

VARIABLES
  rt_json_buf,  \* rt_json_buf up to rt_json_buf_size
  capacity,   \* rt_json_buf_capacity
  block,      \* the size of the heap block behind rt_json_buf, 0 for NULL
  stream,     \* parts the connection still carries
  nextDoc, drops,
  cut,        \* part of a document in rt_json_buf was lost, with its connection
              \* or for want of memory
  whole,      \* documents whose last part has been received
  delivered   \* documents parsed, in that order, each with the callback it went to

evVars == <<rt_json_buf, capacity, block, stream, nextDoc, drops, cut, whole, delivered>>

Doc   == [id : 1 .. MaxDocs, kind : DocKinds]
Piece == [doc : Doc, part : 1 .. Parts]
Event == [doc : Doc, callback : Callbacks \cup {"none"}]

EvTypeOK ==
  /\ rt_json_buf \in Seq(Piece) /\ stream \in Seq(Piece)
  /\ capacity \in Nat /\ block \in Nat
  /\ Len(rt_json_buf) <= capacity /\ (cut \/ Len(rt_json_buf) <= block)
  /\ nextDoc \in 1 .. MaxDocs + 1 /\ drops \in 0 .. MaxDrops /\ cut \in BOOLEAN
  /\ whole \subseteq Doc /\ delivered \in Seq(Event)

EvInit ==
  /\ rt_json_buf = <<>> /\ capacity = 0 /\ block = 0 /\ stream = <<>>
  /\ nextDoc = 1 /\ drops = 0 /\ cut = FALSE /\ whole = {} /\ delivered = <<>>

PiecesOf(d) == [i \in 1 .. Parts |-> [doc |-> d, part |-> i]]

-----------------------------------------------------------------------------
\* The server sends a document on the current connection.
ServerSends(kind) ==
  /\ nextDoc <= MaxDocs
  /\ stream' = stream \o PiecesOf([id |-> nextDoc, kind |-> kind])
  /\ nextDoc' = nextDoc + 1
  /\ UNCHANGED <<rt_json_buf, capacity, block, drops, cut, whole, delivered>>

\* The connection is lost, with the parts it still carried, and replaced.
\* No callback of the client touches rt_json_buf.
Reconnected ==
  /\ drops < MaxDrops
  /\ drops' = drops + 1
  /\ stream' = <<>>
  /\ cut' = (cut \/ rt_json_buf # <<>>)
  /\ UNCHANGED <<rt_json_buf, capacity, block, nextDoc, whole, delivered>>

\* Where the document after the first j begins.
Start(j) == j * Parts

\* cJSON_ParseWithLengthOpts in a loop: b begins with k documents.
Leading(b, k) ==
  /\ Start(k) <= Len(b)
  /\ \A j \in 0 .. k - 1 : SubSeq(b, Start(j) + 1, Start(j) + Parts) = PiecesOf(b[Start(j) + 1].doc)
\* Mutant: an if instead of the while.
ParsedOnce(b) == IF Leading(b, 1) THEN 1 ELSE 0
\* The while: how many documents are parsed.
ParsedDocs(b)  == Max({k \in 0 .. Len(b) : Leading(b, k)})

\* Mutant: only what was parsed last is removed.
RestShort(b, k) == SubSeq(b, Start(Max({0, k - 1})) + 1, Len(b))
\* The memmove after each document.
Rest(b, k) == SubSeq(b, Start(k) + 1, Len(b))

\* The callback a document selects, if it is registered.
Handed(d) == [doc |-> d, callback |-> IF d.kind \in Callbacks THEN d.kind ELSE "none"]
Dispatched(b, k) == [j \in 1 .. k |-> Handed(b[Start(j - 1) + 1].doc)]

\* The capacity after a fragment of n parts met a buffer that holds size parts.
Grown(size, n) ==
  IF block = 0 THEN n * 2
  ELSE IF capacity < size + n THEN (size + n) * 2
  ELSE capacity

\* The fragment the connection delivers next, and the documents it completes.
Fragment(n)  == SubSeq(stream, 1, n)
Completes(n) == {stream[i].doc : i \in {i \in 1 .. n : stream[i].part = Parts}}

\* rt_recv_cb.  (When the very first malloc returns NULL the memcpy ends the
\* process: no further step.)
RtReceive(n) ==
  /\ n \in 1 .. Len(stream)
  /\ stream' = SubSeq(stream, n + 1, Len(stream))
  /\ whole' = whole \cup Completes(n)
  /\ capacity' = Grown(Len(rt_json_buf), n)
  /\ block' = IF capacity' # capacity THEN capacity' ELSE block
  /\ LET b == rt_json_buf \o Fragment(n)
     IN /\ rt_json_buf' = Rest(b, ParsedDocs(b))
        /\ delivered' = delivered \o Dispatched(b, ParsedDocs(b))
  /\ UNCHANGED <<nextDoc, drops, cut>>

\* rt_recv_cb when realloc fails: the fragment is dropped, and the capacity has
\* already been raised.  (A later fragment may then be copied past the end of
\* the block, which is undefined; the model takes the outcome that harms nothing.)
ReceiveNoMemory(n) ==
  /\ ReallocMayFail
  /\ n \in 1 .. Len(stream) /\ block # 0 /\ capacity < Len(rt_json_buf) + n
  /\ stream' = SubSeq(stream, n + 1, Len(stream))
  /\ capacity' = Grown(Len(rt_json_buf), n)
  /\ cut' = TRUE
  /\ UNCHANGED <<rt_json_buf, block, nextDoc, drops, whole, delivered>>

EvNext ==
  \/ \E k \in DocKinds : ServerSends(k)
  \/ \E n \in 1 .. Len(stream) : RtReceive(n) \/ ReceiveNoMemory(n)
  \/ Reconnected

EvSpec == EvInit /\ [][EvNext]_evVars

-----------------------------------------------------------------------------
(* Properties.                                                             *)

\* However the stream is cut in fragments, the documents that have arrived whole
\* are those that were parsed and handed to their callback, and at most an
\* incomplete one is buffered - also on the connections that replace lost ones,
\* unless one was lost inside a document or a fragment met no memory: the buffer
\* then begins with half a document for ever and nothing parses any more.
WholeEventsDelivered ==
  ~cut => /\ {delivered[i] : i \in DOMAIN delivered} = {Handed(d) : d \in whole}
          /\ Len(rt_json_buf) < Parts

\* Whatever is lost, no event is delivered twice or after a later one.
DeliveredInOrder ==
  \A i, j \in DOMAIN delivered : i < j => delivered[i].doc.id < delivered[j].doc.id

\* onesdk_rt.c:24, rt_recv_cb: until part of a document is lost, every event received
\* whole has been delivered, once and in order, however the stream was cut; no loss
\* makes it deliver twice or out of order; rt_json_buf is never overrun.
EventsDelivered == EvTypeOK /\ WholeEventsDelivered /\ DeliveredInOrder
=============================================================================
