------------------------------ MODULE AgentProofs ------------------------------
(***************************************************************************)
(* Proofs about Chat and Mcp, the two components through which an           *)
(* application talks to an agent.                                           *)
(***************************************************************************)
EXTENDS Chat, Mcp, TLAPS

-----------------------------------------------------------------------------
(* Chat, for buffers of every size, however a text is cut into events and   *)
(* whatever calls the application makes.  The objects: what the context     *)
(* refers to is all there is, until something is left behind.  The text: a  *)
(* stream fills the buffer in order up to cur, which is all of it until the *)
(* buffer is full.                                                          *)

Ends == {"no", "completed", "error"}
Context == [up : BOOLEAN, request : Nat, streaming : BOOLEAN, reading : BOOLEAN,
            callbacks : BOOLEAN, keep : BOOLEAN, out : Nat, ended : Ends]

\* What is live, and what the context refers to.
Owned ==
  /\ chat \in Context /\ left \in BOOLEAN /\ nchat \in Nat
  /\ <<"request", 0>> \notin heap /\ <<"response", 0>> \notin heap
  /\ chat.request # 0 => <<"request", chat.request>> \in heap
  /\ chat.out # 0 => <<"response", chat.out>> \in heap
  /\ ~left => heap \subseteq Released(chat)
  /\ ~chat.up => chat.request = 0 /\ chat.out = 0

\* The buffer of a stream holds, up to cur, the text received, and falls behind only
\* when it is full; the last byte may be the terminator of a piece.
Streamed(b) ==
  /\ b.told = 0
  /\ b.cur < b.cap => b.cur = b.sent
  /\ \A i \in 1 .. b.cur : b.mem[i] = i \/ (i = b.cap /\ b.mem[i] = 0)
  /\ b.mem[b.cap + 1] # -1 => b.cur = b.cap
\* The application's callback got the last bytes of it.
Told(b) ==
  /\ Len(b.seen) <= b.cur
  /\ \A i \in 1 .. Len(b.seen) : b.seen[i] = b.mem[b.cur - Len(b.seen) + i]
\* The buffer of a whole answer.
Copied(b) ==
  /\ b.cur = 0 /\ b.seen = <<>> /\ b.mem[b.cap + 1] = -1
  /\ b.told = IF b.sent < b.cap THEN b.sent ELSE b.cap
  /\ \A i \in 1 .. b.cap - 1 : i <= b.sent => b.mem[i] = i

BufType(b) ==
  /\ b = [cap |-> b.cap, cur |-> b.cur, mem |-> b.mem, sent |-> b.sent, seen |-> b.seen, told |-> b.told]
  /\ b.cap \in Nat \ {0} /\ b.cur \in 0 .. b.cap /\ b.sent \in Nat /\ b.told \in Nat
  /\ b.mem \in [1 .. b.cap + 1 -> Int] /\ b.seen \in Seq(Int)
Buffered ==
  /\ BufType(buf)
  /\ (Streamed(buf) /\ Told(buf)) \/ Copied(buf)
  /\ chat.reading => chat.streaming
  /\ chat.streaming => Streamed(buf) /\ Told(buf)
  /\ ~chat.callbacks => buf.seen = <<>>

ChatInv == Owned /\ Buffered

-----------------------------------------------------------------------------
(* The objects.                                                              *)

\* What a record of the context type has.
LEMMA ContextFields ==
  ASSUME NEW c \in Context
  PROVE  /\ c.up \in BOOLEAN /\ c.request \in Nat /\ c.streaming \in BOOLEAN /\ c.reading \in BOOLEAN
         /\ c.callbacks \in BOOLEAN /\ c.keep \in BOOLEAN /\ c.out \in Nat /\ c.ended \in Ends
BY DEF Context

\* The steps that change neither the objects nor who refers to them.
LEMMA SameOwned ==
  ASSUME Owned, chat' \in Context, chat'.request = chat.request, chat'.out = chat.out, chat'.up = chat.up,
         heap' = heap, left' \in BOOLEAN, left => left', nchat' \in Nat
  PROVE  Owned'
BY DEF Owned, Released

LEMMA OwnedStep == ChatConstants /\ Owned /\ [ChatNext]_chatVars => Owned'
<1> SUFFICES ASSUME ChatConstants, Owned, [ChatNext]_chatVars PROVE Owned'
  OBVIOUS
<1>0. /\ chat \in Context /\ left \in BOOLEAN /\ nchat \in Nat /\ nchat + 1 \in Nat /\ nchat + 1 # 0
      /\ chat.request \in Nat /\ chat.out \in Nat
  BY ContextFields DEF Owned
<1>1. CASE UNCHANGED chatVars
  BY <1>0, <1>1, SameOwned DEF chatVars
<1>2. CASE onesdk_chat_set_callbacks
  <2>1. chat' \in Context /\ chat'.request = chat.request /\ chat'.out = chat.out /\ chat'.up = chat.up
    BY <1>0, <1>2 DEF onesdk_chat_set_callbacks, Context
  <2> QED BY <1>0, <1>2, <2>1, SameOwned DEF onesdk_chat_set_callbacks
<1>3. CASE onesdk_chat_set_functioncall_data
  <2>1. chat' \in Context /\ chat'.request = chat.request /\ chat'.out = chat.out /\ chat'.up = chat.up
    BY <1>0, <1>3 DEF onesdk_chat_set_functioncall_data, Context
  <2> QED BY <1>0, <1>3, <2>1, SameOwned DEF onesdk_chat_set_functioncall_data
<1>4. CASE ChatRefused
  <2>1. nchat' = nchat + 1 /\ left' = TRUE /\ chat' = chat /\ heap' = heap BY <1>4 DEF ChatRefused, Called
  <2> QED BY <1>0, <2>1, SameOwned
<1>5. ASSUME NEW cap \in ChatCaps, ChatStream(cap) PROVE Owned'
  <2>1. /\ nchat' = nchat + 1 /\ heap' = heap \cup {<<"request", nchat + 1>>}
        /\ chat' = [chat EXCEPT !.request = nchat + 1, !.streaming = TRUE, !.ended = "no"]
    BY <1>5 DEF ChatStream, Called
  <2>2. left' \in BOOLEAN /\ (~left' => ~left /\ chat.request = 0) BY <1>0, <1>5, Zenon DEF ChatStream
  <2>3. chat' \in Context /\ chat'.request = nchat + 1 /\ chat'.out = chat.out /\ chat'.up
    BY <1>0, <1>5, <2>1 DEF Context, Ends, ChatStream, Called, Idle
  <2>4. ~left' => heap' \subseteq {<<"request", nchat + 1>>, <<"response", chat.out>>}
    BY <2>1, <2>2 DEF Owned, Released
  <2> QED BY <1>0, <2>1, <2>2, <2>3, <2>4 DEF Owned, Released
<1>6. ASSUME NEW response \in BOOLEAN, ChatSync(response) PROVE Owned'
  <2>1. PICK kept \in BOOLEAN : kept <=> response /\ chat.keep OBVIOUS
  <2>2. /\ nchat' = nchat + 1
        /\ chat' = [chat EXCEPT !.request = 0, !.streaming = FALSE, !.ended = "no",
                                !.out = IF kept THEN nchat + 1 ELSE chat.out]
        /\ heap' = IF kept THEN heap \cup {<<"response", nchat + 1>>} ELSE heap
    BY <1>6, <2>1 DEF ChatSync, Called
  <2>3. left' \in BOOLEAN /\ (~left' => ~left /\ chat.request = 0 /\ (kept => chat.out = 0))
    BY <1>0, <1>6, <2>1, Zenon DEF ChatSync
  <2>4. chat' \in Context /\ chat'.request = 0 /\ chat'.up /\ chat'.out = IF kept THEN nchat + 1 ELSE chat.out
    <3>1. chat.up BY <1>6 DEF ChatSync, Called, Idle
    <3> QED BY <1>0, <2>2, <3>1 DEF Context, Ends
  <2>5. CASE kept
    <3>1. chat'.out = nchat + 1 /\ heap' = heap \cup {<<"response", nchat + 1>>} BY <2>2, <2>4, <2>5
    <3>2. ~left' => heap' \subseteq {<<"request", 0>>, <<"response", nchat + 1>>}
      BY <2>3, <2>5, <3>1 DEF Owned, Released
    <3> QED BY <1>0, <2>2, <2>3, <2>4, <3>1, <3>2 DEF Owned, Released
  <2>6. CASE ~kept
    <3>1. chat'.out = chat.out /\ heap' = heap BY <2>2, <2>4, <2>6
    <3> QED BY <1>0, <2>2, <2>3, <2>4, <3>1 DEF Owned, Released
  <2> QED BY <2>5, <2>6
<1>7. CASE WaitBegins
  <2>1. chat' \in Context /\ chat'.request = chat.request /\ chat'.out = chat.out /\ chat'.up = chat.up
    BY <1>0, <1>7 DEF WaitBegins, Context
  <2> QED BY <1>0, <1>7, <2>1, SameOwned DEF WaitBegins
<1>8. ASSUME NEW n \in Pieces, StreamPiece(n) PROVE Owned'
  BY <1>0, <1>8, SameOwned DEF StreamPiece
<1>9. ASSUME NEW end \in {"completed", "error"}, StreamEnds(end) PROVE Owned'
  <2>1. chat' \in Context /\ chat'.request = chat.request /\ chat'.out = chat.out /\ chat'.up = chat.up
    BY <1>0, <1>9 DEF StreamEnds, Context, Ends
  <2> QED BY <1>0, <1>9, <2>1, SameOwned DEF StreamEnds
<1>10. CASE onesdk_chat_wait_inner
  <2>1. /\ heap' = heap \ {<<"request", chat.request>>} /\ left' = left /\ nchat' = nchat
        /\ chat' = [chat EXCEPT !.request = 0, !.reading = FALSE]
    BY <1>10 DEF onesdk_chat_wait_inner
  <2>2. chat' \in Context /\ chat'.request = 0 /\ chat'.out = chat.out /\ chat'.up
    <3>1. chat.up BY <1>10 DEF onesdk_chat_wait_inner
    <3> QED BY <1>0, <2>1, <3>1 DEF Context
  <2>3. <<"response", chat.out>> # <<"request", chat.request>> OBVIOUS
  <2> QED BY <1>0, <2>1, <2>2, <2>3 DEF Owned, Released
<1>11. CASE onesdk_chat_release_context
  <2>1. /\ heap' = heap \ Released(chat) /\ left' = left /\ nchat' = nchat
        /\ chat' = [chat EXCEPT !.up = FALSE, !.request = 0, !.out = 0]
    BY <1>11 DEF onesdk_chat_release_context
  <2>2. chat' \in Context /\ chat'.request = 0 /\ chat'.out = 0 BY <1>0, <2>1 DEF Context
  <2> QED BY <1>0, <2>1, <2>2 DEF Owned
<1> QED BY <1>1, <1>2, <1>3, <1>4, <1>5, <1>6, <1>7, <1>8, <1>9, <1>10, <1>11 DEF ChatNext

LEMMA OwnedInit == ChatInit => Owned
<1> SUFFICES ASSUME ChatInit PROVE Owned
  OBVIOUS
<1>1. chat = onesdk_chat_context_init /\ heap = {} /\ nchat = 0 /\ left = FALSE BY DEF ChatInit
<1>2. chat \in Context /\ chat.up /\ chat.request = 0 /\ chat.out = 0 BY <1>1 DEF onesdk_chat_context_init, Context, Ends
<1> QED BY <1>1, <1>2 DEF Owned

\* The context refers to live objects only, and once it is released nothing is left but
\* what a refused call, a chat over an unfinished stream or a second kept response had
\* lost: for any sequence of calls.
THEOREM ObjectsOwned == ChatSpec => []ChatObjectsOwned
<1>1. Owned => ChatObjectsOwned BY DEF Owned, ChatObjectsOwned, Released
<1>2. Owned /\ [ChatNext]_chatVars => Owned' BY ChatAssumption, OwnedStep
<1> QED BY OwnedInit, <1>1, <1>2, PTL DEF ChatSpec

-----------------------------------------------------------------------------
(* The text.                                                                 *)

\* memcpy
LEMMA PutBytes ==
  ASSUME NEW c \in Nat, NEW mem \in [1 .. c -> Int], NEW at \in Nat, NEW bytes \in Seq(Int)
  PROVE  /\ Put(mem, at, bytes) \in [1 .. c -> Int]
         /\ \A i \in 1 .. c : Put(mem, at, bytes)[i] = IF at < i /\ i <= at + Len(bytes) THEN bytes[i - at] ELSE mem[i]
<1>1. DOMAIN bytes = 1 .. Len(bytes) /\ Len(bytes) \in Nat /\ \A k \in 1 .. Len(bytes) : bytes[k] \in Int OBVIOUS
<1>2. \A i \in 1 .. c : i - at \in 1 .. Len(bytes) <=> at < i /\ i <= at + Len(bytes) BY <1>1
<1>3. Put(mem, at, bytes) = [i \in 1 .. c |-> IF i - at \in 1 .. Len(bytes) THEN bytes[i - at] ELSE mem[i]]
  BY <1>1 DEF Put
<1> QED BY <1>1, <1>2, <1>3

\* The bytes of a piece that are copied, its terminator included when it is within m.
LEMMA PieceBytes ==
  ASSUME NEW sent \in Nat, NEW n \in Nat, NEW m \in 0 .. n + 1
  PROVE  LET bytes == SubSeq([i \in 1 .. n |-> sent + i] \o <<0>>, 1, m)
         IN  bytes \in Seq(Int) /\ Len(bytes) = m /\ \A i \in 1 .. m : bytes[i] = IF i <= n THEN sent + i ELSE 0
<1> DEFINE p == [i \in 1 .. n |-> sent + i]
<1>1. p \in Seq(Int) /\ Len(p) = n /\ \A i \in 1 .. n : p[i] = sent + i OBVIOUS
<1> HIDE DEF p
<1> DEFINE q == p \o <<0>>
<1>2. q \in Seq(Int) /\ Len(q) = n + 1 /\ \A i \in 1 .. n + 1 : q[i] = IF i <= n THEN p[i] ELSE 0 BY <1>1
<1> HIDE DEF q
<1>3. \A i \in 1 .. n + 1 : q[i] = IF i <= n THEN sent + i ELSE 0 BY <1>1, <1>2
<1>4. SubSeq(q, 1, m) \in Seq(Int) /\ Len(SubSeq(q, 1, m)) = m /\ \A i \in 1 .. m : SubSeq(q, 1, m)[i] = q[i]
  BY <1>2
<1> QED BY <1>3, <1>4 DEF p, q

\* s is b after _chat_internal_stream_callback with a piece of n bytes, m of which fit.
PieceTaken(b, s, n, m, bytes) ==
  /\ m = MaxCopy(b, n)
  /\ bytes \in Seq(Int) /\ Len(bytes) = m /\ \A i \in 1 .. m : bytes[i] = IF i <= n THEN b.sent + i ELSE 0
  /\ s = [cap |-> s.cap, cur |-> s.cur, mem |-> s.mem, sent |-> s.sent, seen |-> s.seen, told |-> s.told]
  /\ s.cap = b.cap /\ s.cur = b.cur + m /\ s.sent = b.sent + n /\ s.told = b.told
  /\ s.mem = Put(Put(b.mem, b.cur, bytes), b.cur + m, <<0>>)
  /\ s.seen = b.seen \o bytes \/ s.seen = <<>>

LEMMA PieceStreamed ==
  ASSUME NEW b, NEW s, NEW n \in Nat, NEW m, NEW bytes, BufType(b), Streamed(b), Told(b), PieceTaken(b, s, n, m, bytes)
  PROVE  BufType(s) /\ Streamed(s) /\ Told(s)
<1> USE DEF PieceTaken
<1>1. /\ b.cap \in Nat \ {0} /\ b.cur \in 0 .. b.cap /\ b.sent \in Nat /\ b.told \in Nat
      /\ b.mem \in [1 .. b.cap + 1 -> Int] /\ b.seen \in Seq(Int)
  BY DEF BufType
<1>2. /\ m \in 0 .. n + 1 /\ b.cur + m <= b.cap
      /\ b.cur < b.cap /\ m > n => b.cur + m = b.cap
      /\ b.cur + m < b.cap => m = n /\ b.cur < b.cap
      /\ b.cur = b.cap => m = 0
  <2>1. m = MaxCopy(b, n) OBVIOUS
  <2>2. b.cap \in Nat \ {0} /\ b.cur \in 0 .. b.cap /\ n \in Nat BY <1>1
  <2> QED BY ONLY <2>1, <2>2 DEF MaxCopy
<1> DEFINE mem1 == Put(b.mem, b.cur, bytes)
<1>3. /\ mem1 \in [1 .. b.cap + 1 -> Int]
      /\ \A i \in 1 .. b.cap + 1 : mem1[i] = IF b.cur < i /\ i <= b.cur + m THEN bytes[i - b.cur] ELSE b.mem[i]
  <2>1. b.cap + 1 \in Nat /\ b.cur \in Nat /\ Len(bytes) = m BY <1>1
  <2>2. PICK c \in Nat : c = b.cap + 1 BY <2>1
  <2>3. PICK at \in Nat : at = b.cur BY <2>1
  <2>4. PICK mem \in [1 .. c -> Int] : mem = b.mem BY <1>1, <2>2
  <2>5. /\ Put(mem, at, bytes) \in [1 .. c -> Int]
        /\ \A i \in 1 .. c : Put(mem, at, bytes)[i] = IF at < i /\ i <= at + Len(bytes) THEN bytes[i - at] ELSE mem[i]
    BY PutBytes
  <2> QED BY <2>1, <2>2, <2>3, <2>4, <2>5
<1>4. s.mem = Put(mem1, b.cur + m, <<0>>) OBVIOUS
<1> HIDE DEF mem1
<1>5. /\ s.mem \in [1 .. b.cap + 1 -> Int]
      /\ \A i \in 1 .. b.cap + 1 : s.mem[i] = IF i = b.cur + m + 1 THEN 0 ELSE mem1[i]
  <2>1. b.cur + m \in Nat /\ b.cap + 1 \in Nat /\ <<0>> \in Seq(Int) /\ Len(<<0>>) = 1 /\ <<0>>[1] = 0 BY <1>1, <1>2
  <2>2. /\ s.mem \in [1 .. b.cap + 1 -> Int]
        /\ \A i \in 1 .. b.cap + 1 :
             s.mem[i] = IF b.cur + m < i /\ i <= b.cur + m + 1 THEN <<0>>[i - (b.cur + m)] ELSE mem1[i]
    <3>1. PICK at : at = b.cur + m OBVIOUS
    <3>2. PICK c : c = b.cap + 1 OBVIOUS
    <3>3. at \in Nat /\ c \in Nat /\ mem1 \in [1 .. c -> Int] BY <1>3, <2>1, <3>1, <3>2
    <3>4. PICK z \in Seq(Int) : z = <<0>> BY <2>1
    <3>5. /\ Put(mem1, at, z) \in [1 .. c -> Int]
          /\ \A i \in 1 .. c : Put(mem1, at, z)[i] = IF at < i /\ i <= at + Len(z) THEN z[i - at] ELSE mem1[i]
      BY <3>3, PutBytes
    <3>6. s.mem = Put(mem1, at, z) /\ Len(z) = 1 BY <1>4, <2>1, <3>1, <3>4
    <3> QED BY <3>1, <3>2, <3>4, <3>5, <3>6
  <2>3. \A i \in 1 .. b.cap + 1 : b.cur + m < i /\ i <= b.cur + m + 1 <=> i = b.cur + m + 1 BY <2>1
  <2>4. (b.cur + m + 1) - (b.cur + m) = 1 BY <2>1
  <2> QED BY <2>1, <2>2, <2>3, <2>4
<1>6. \A i \in 1 .. b.cap + 1 : /\ i <= b.cur => s.mem[i] = b.mem[i]
                                /\ b.cur < i /\ i <= b.cur + m => s.mem[i] = bytes[i - b.cur]
                                /\ b.cur + m + 1 < i => s.mem[i] = b.mem[i]
  <2> SUFFICES ASSUME NEW i \in 1 .. b.cap + 1
               PROVE  /\ i <= b.cur => s.mem[i] = b.mem[i]
                      /\ b.cur < i /\ i <= b.cur + m => s.mem[i] = bytes[i - b.cur]
                      /\ b.cur + m + 1 < i => s.mem[i] = b.mem[i]
    OBVIOUS
  <2>1. CASE i <= b.cur
    <3>1. i # b.cur + m + 1 /\ ~(b.cur < i) /\ ~(b.cur + m + 1 < i) BY <1>1, <1>2, <2>1
    <3> QED BY <1>3, <1>5, <3>1
  <2>2. CASE b.cur < i /\ i <= b.cur + m
    <3>1. i # b.cur + m + 1 /\ ~(i <= b.cur) /\ ~(b.cur + m + 1 < i) BY <1>1, <1>2, <2>2
    <3> QED BY <1>3, <1>5, <2>2, <3>1
  <2>3. CASE b.cur + m < i
    <3>1. ~(i <= b.cur) /\ ~(i <= b.cur + m) /\ (b.cur + m + 1 < i => i # b.cur + m + 1) BY <1>1, <1>2, <2>3
    <3> QED BY <1>3, <1>5, <3>1
  <2> QED BY <1>1, <1>2, <2>1, <2>2, <2>3
<1>7. BufType(s)
  <2>1. s.cur \in 0 .. s.cap /\ s.sent \in Nat BY <1>1, <1>2
  <2>2. s.seen \in Seq(Int)
    <3>1. b.seen \o bytes \in Seq(Int) /\ <<>> \in Seq(Int) BY <1>1
    <3> QED BY <3>1
  <2> QED BY <1>1, <1>5, <2>1, <2>2 DEF BufType
<1>8. Streamed(s)
  <2>1. s.told = 0 BY DEF Streamed
  <2>2. s.cur < s.cap => s.cur = s.sent BY <1>1, <1>2 DEF Streamed
  <2>3. ASSUME NEW i \in 1 .. s.cur PROVE s.mem[i] = i \/ (i = s.cap /\ s.mem[i] = 0)
    <3>1. i \in 1 .. b.cap + 1 /\ i \in Nat BY <1>1, <1>2
    <3>2. CASE i <= b.cur
      <4>1. i \in 1 .. b.cur BY <1>1, <3>1, <3>2
      <4>2. b.mem[i] = i \/ (i = b.cap /\ b.mem[i] = 0) BY <4>1 DEF Streamed
      <4> QED BY <1>6, <3>1, <3>2, <4>2
    <3>3. CASE b.cur < i
      <4>1. i <= b.cur + m /\ i - b.cur \in 1 .. m
        <5>1. i <= b.cur + m /\ i \in Nat /\ b.cur \in Nat /\ m \in Nat /\ b.cur < i BY <1>1, <1>2, <3>1, <3>3
        <5> QED BY ONLY <5>1
      <4>2. s.mem[i] = IF i - b.cur <= n THEN b.sent + (i - b.cur) ELSE 0 BY <1>6, <3>1, <3>3, <4>1
      <4>3. b.cur < b.cap BY <1>1, <1>2, <3>1, <3>3, <4>1
      <4>4. b.sent = b.cur BY <4>3 DEF Streamed
      <4>5. CASE i - b.cur <= n
        <5>1. b.sent + (i - b.cur) = i BY <1>1, <3>1, <4>4
        <5> QED BY <4>2, <4>5, <5>1
      <4>6. CASE ~(i - b.cur <= n)
        <5>1. i = s.cap BY <1>1, <1>2, <3>1, <4>1, <4>3, <4>6
        <5> QED BY <4>2, <4>6, <5>1
      <4> QED BY <4>5, <4>6
    <3> QED BY <1>1, <3>1, <3>2, <3>3
  <2>4. ASSUME s.mem[s.cap + 1] # -1 PROVE s.cur = s.cap
    <3>a. b.cur + m < b.cap \/ b.cur + m = b.cap
      <4>1. b.cap \in Nat /\ b.cur \in Nat /\ m \in Nat /\ b.cur + m <= b.cap BY <1>1, <1>2
      <4> QED BY ONLY <4>1
    <3>1. SUFFICES ASSUME b.cur + m < b.cap PROVE FALSE BY <3>a
    <3>2. b.cap + 1 \in 1 .. b.cap + 1 /\ b.cur + m + 1 < b.cap + 1 /\ b.cur # b.cap BY <1>1, <1>2, <3>1
    <3>3. s.mem[b.cap + 1] = b.mem[b.cap + 1] BY <1>6, <3>2
    <3> QED BY <2>4, <3>2, <3>3 DEF Streamed
  <2> QED BY <2>1, <2>2, <2>3, <2>4 DEF Streamed
<1>9. Told(s)
  <2>1. CASE s.seen = <<>> BY <1>1, <1>2, <2>1 DEF Told
  <2>2. CASE s.seen = b.seen \o bytes
    <3>1. PICK l : l = Len(b.seen) OBVIOUS
    <3>2. /\ Len(s.seen) = l + m /\ l \in Nat /\ l <= b.cur
          /\ \A i \in 1 .. l + m : s.seen[i] = IF i <= l THEN b.seen[i] ELSE bytes[i - l]
      <4>1. b.seen \in Seq(Int) /\ Len(b.seen) = l /\ l \in Nat /\ m \in Nat BY <1>1, <1>2, <3>1
      <4>2. l <= b.cur BY <3>1 DEF Told
      <4>3. /\ Len(b.seen \o bytes) = l + m
            /\ \A i \in 1 .. l + m : (b.seen \o bytes)[i] = IF i <= l THEN b.seen[i] ELSE bytes[i - l]
        <5>1. PICK f \in Seq(Int) : f = b.seen BY <4>1
        <5>2. /\ Len(f \o bytes) = Len(f) + Len(bytes)
              /\ \A i \in 1 .. Len(f) + Len(bytes) : (f \o bytes)[i] = IF i <= Len(f) THEN f[i] ELSE bytes[i - Len(f)]
          <6>1. bytes \in Seq(Int) OBVIOUS
          <6> QED BY ONLY <6>1, f \in Seq(Int)
        <5> QED BY <4>1, <5>1, <5>2
      <4> QED BY <2>2, <4>1, <4>2, <4>3
    <3>3. Len(s.seen) <= s.cur BY <1>1, <1>2, <3>2
    <3>4. ASSUME NEW i \in 1 .. l + m PROVE s.seen[i] = s.mem[s.cur - (l + m) + i]
      <4>1. /\ s.cur - (l + m) + i = b.cur - l + i /\ b.cur - l + i \in 1 .. b.cap + 1 /\ i \in Nat
        <5>1. b.cap \in Nat /\ b.cur \in Nat /\ m \in Nat /\ l \in Nat /\ l <= b.cur /\ b.cur + m <= b.cap
          BY <1>1, <1>2, <3>2
        <5>2. i \in 1 .. l + m /\ s.cur = b.cur + m OBVIOUS
        <5> QED BY ONLY <5>1, <5>2
      <4>2. CASE i <= l
        <5>1. b.cur - l + i <= b.cur /\ i \in 1 .. l BY <1>1, <3>2, <4>1, <4>2
        <5>2. b.seen[i] = b.mem[b.cur - l + i] BY <3>1, <5>1 DEF Told
        <5> QED BY <1>6, <3>2, <4>1, <4>2, <5>1, <5>2
      <4>3. CASE ~(i <= l)
        <5>1. /\ b.cur < b.cur - l + i /\ b.cur - l + i <= b.cur + m /\ (b.cur - l + i) - b.cur = i - l
          <6>1. b.cur \in Nat /\ m \in Nat /\ l \in Nat BY <1>1, <1>2, <3>2
          <6>2. i \in 1 .. l + m /\ ~(i <= l) BY <4>3
          <6> QED BY ONLY <6>1, <6>2
        <5> QED BY <1>6, <3>2, <4>1, <4>3, <5>1
      <4> QED BY <4>2, <4>3
    <3> QED BY <3>2, <3>3, <3>4 DEF Told
  <2> QED BY <2>1, <2>2
<1> QED BY <1>7, <1>8, <1>9

\* The buffer of a new call.
LEMMA NewBuffer ==
  ASSUME NEW cap \in Nat \ {0}, NEW b, b = Buffer(cap)
  PROVE  BufType(b) /\ Streamed(b) /\ Told(b) /\ b.seen = <<>> /\ b.cap = cap /\ b.cur = 0
<1>1. /\ b.cap = cap /\ b.cur = 0 /\ b.sent = 0 /\ b.told = 0 /\ b.seen = <<>> /\ b.mem = Untouched(cap + 1)
      /\ b = [cap |-> b.cap, cur |-> b.cur, mem |-> b.mem, sent |-> b.sent, seen |-> b.seen, told |-> b.told]
  BY DEF Buffer
<1>2. cap + 1 \in Nat /\ cap + 1 \in 1 .. cap + 1 /\ -1 \in Int OBVIOUS
<1>3. b.mem \in [1 .. cap + 1 -> Int] /\ b.mem[cap + 1] = -1
  <2>1. PICK z \in Int : z = -1 BY <1>2
  <2>2. b.mem = [i \in 1 .. cap + 1 |-> z] BY <1>1, <2>1, Zenon DEF Untouched
  <2> QED BY <1>2, <2>1, <2>2, Zenon
<1>4. 0 \in 0 .. cap /\ <<>> \in Seq(Int) /\ Len(<<>>) = 0 OBVIOUS
<1>5. BufType(b)
  <2>1. b.cur \in 0 .. b.cap /\ b.sent \in Nat /\ b.told \in Nat /\ b.seen \in Seq(Int) BY <1>1, <1>4
  <2> QED BY <1>1, <1>3, <2>1, Zenon DEF BufType
<1>6. Streamed(b)
  <2>1. b.mem[b.cap + 1] = -1 BY <1>1, <1>3, Zenon
  <2>2. \A i \in 1 .. b.cur : FALSE BY <1>1
  <2>3. b.cur = b.sent /\ b.told = 0 BY <1>1
  <2> QED BY <2>1, <2>2, <2>3, Zenon DEF Streamed
<1>7. Told(b)
  <2>1. Len(b.seen) = 0 /\ \A i \in 1 .. Len(b.seen) : FALSE BY <1>1
  <2>2. Len(b.seen) <= b.cur BY <1>1
  <2> QED BY <2>1, <2>2, Zenon DEF Told
<1> QED BY <1>1, <1>5, <1>6, <1>7

\* strncpy and the length reported, for an answer of n bytes
LEMMA TextCopied ==
  ASSUME NEW cap \in Nat \ {0}, NEW n \in Nat, NEW b, b = Buffer(cap),
         NEW s, s = [b EXCEPT !.mem = Strncpy(b, n), !.sent = n, !.told = Reported(b, n)]
  PROVE  BufType(s) /\ Copied(s)
<1>1. /\ b.cap = cap /\ b.cur = 0 /\ b.seen = <<>> /\ b.mem \in [1 .. cap + 1 -> Int] /\ b.mem[cap + 1] = -1
  <2>1. BufType(b) /\ b.seen = <<>> /\ b.cap = cap /\ b.cur = 0 BY NewBuffer
  <2>2. b.mem = Untouched(cap + 1) BY DEF Buffer
  <2>3. cap + 1 \in 1 .. cap + 1 OBVIOUS
  <2>4. b.mem[cap + 1] = -1 BY <2>2, <2>3, Zenon DEF Untouched
  <2> QED BY <2>1, <2>4, Zenon DEF BufType
<1>2. /\ s.cap = cap /\ s.cur = 0 /\ s.seen = <<>> /\ s.mem = Strncpy(b, n) /\ s.sent = n /\ s.told = Reported(b, n)
      /\ s = [cap |-> s.cap, cur |-> s.cur, mem |-> s.mem, sent |-> s.sent, seen |-> s.seen, told |-> s.told]
  BY DEF Buffer
<1>3. s.told = IF n < cap THEN n ELSE cap BY <1>1, <1>2 DEF Reported
<1>4. PICK q : q = [i \in 1 .. cap - 1 |-> IF i <= n THEN i ELSE 0] OBVIOUS
<1>5. q \in Seq(Int) /\ Len(q) = cap - 1 /\ \A i \in 1 .. cap - 1 : q[i] = IF i <= n THEN i ELSE 0 BY <1>4
<1>6. s.mem = Put(b.mem, 0, q) BY <1>1, <1>2, <1>4 DEF Strncpy
<1>7. PICK c \in Nat : c = cap + 1 OBVIOUS
<1>8. PICK mem \in [1 .. c -> Int] : mem = b.mem BY <1>1, <1>7
<1>9. /\ Put(mem, 0, q) \in [1 .. c -> Int]
      /\ \A i \in 1 .. c : Put(mem, 0, q)[i] = IF 0 < i /\ i <= 0 + Len(q) THEN q[i - 0] ELSE mem[i]
  <2>1. DOMAIN q = 1 .. Len(q) /\ Len(q) \in Nat /\ \A k \in 1 .. Len(q) : q[k] \in Int BY <1>5
  <2>2. \A i \in 1 .. c : i - 0 \in 1 .. Len(q) <=> 0 < i /\ i <= 0 + Len(q) BY <2>1
  <2>3. Put(mem, 0, q) = [i \in 1 .. c |-> IF i - 0 \in 1 .. Len(q) THEN q[i - 0] ELSE mem[i]]
    BY <2>1 DEF Put
  <2> QED BY ONLY <2>1, <2>2, <2>3
<1>10. s.mem \in [1 .. cap + 1 -> Int] BY <1>6, <1>7, <1>8, <1>9
<1>11. s.mem[cap + 1] = -1
  <2>1. c \in 1 .. c /\ ~(c <= 0 + Len(q)) BY <1>5, <1>7
  <2>2. s.mem[c] = mem[c] BY <1>6, <1>8, <1>9, <2>1
  <2> QED BY <1>1, <1>7, <1>8, <2>2, Zenon
<1>12. ASSUME NEW i \in 1 .. cap - 1, i <= n PROVE s.mem[i] = i
  <2>1. i \in 1 .. c /\ 0 < i /\ i <= 0 + Len(q) /\ i - 0 = i BY <1>5, <1>7
  <2> QED BY <1>5, <1>6, <1>8, <1>9, <1>12, <2>1
<1>13. BufType(s)
  <2>1. s.cur \in 0 .. s.cap /\ s.sent \in Nat /\ s.told \in Nat /\ s.seen \in Seq(Int)
    <3>1. s.cap = cap /\ s.cur = 0 /\ s.sent = n /\ s.seen = <<>> BY <1>2
    <3>2. 0 \in 0 .. cap /\ n \in Nat /\ cap \in Nat /\ <<>> \in Seq(Int) OBVIOUS
    <3> QED BY <1>3, <3>1, <3>2, Zenon
  <2> QED BY <1>2, <1>10, <2>1, Zenon DEF BufType
<1>14. Copied(s)
  <2>1. s.told = IF s.sent < s.cap THEN s.sent ELSE s.cap BY <1>2, <1>3
  <2>2. \A i \in 1 .. s.cap - 1 : i <= s.sent => s.mem[i] = i BY <1>2, <1>12
  <2> QED BY <1>2, <1>11, <2>1, <2>2, Zenon DEF Copied
<1> QED BY <1>13, <1>14

\* Steps that leave the buffer alone.
LEMMA SameBuffer ==
  ASSUME Buffered, buf' = buf, chat'.reading => chat'.streaming, chat'.streaming => chat.streaming,
         ~chat'.callbacks => ~chat.callbacks
  PROVE  Buffered'
BY DEF Buffered

\* What the steps that read or begin a call do with the buffer.
LEMMA BufferedStep == ChatConstants /\ Owned /\ Buffered /\ [ChatNext]_chatVars => Buffered'
<1> SUFFICES ASSUME ChatConstants, Owned, Buffered, [ChatNext]_chatVars PROVE Buffered'
  OBVIOUS
<1>0. chat \in Context /\ ChatCaps \subseteq Nat \ {0} /\ Pieces \subseteq Nat /\ Texts \subseteq Nat
  BY DEF Owned, ChatConstants
<1>1. CASE UNCHANGED chatVars
  BY <1>1, SameBuffer DEF chatVars, Buffered
<1>2. CASE onesdk_chat_set_callbacks
  <2>1. chat'.reading = chat.reading /\ chat'.streaming = chat.streaming /\ chat'.callbacks
    BY <1>0, <1>2 DEF onesdk_chat_set_callbacks, Context
  <2> QED BY <1>2, <2>1, SameBuffer DEF onesdk_chat_set_callbacks, Buffered
<1>3. CASE onesdk_chat_set_functioncall_data
  <2>1. chat'.reading = chat.reading /\ chat'.streaming = chat.streaming /\ chat'.callbacks = chat.callbacks
    BY <1>0, <1>3 DEF onesdk_chat_set_functioncall_data, Context
  <2> QED BY <1>3, <2>1, SameBuffer DEF onesdk_chat_set_functioncall_data, Buffered
<1>4. CASE ChatRefused
  BY <1>4, SameBuffer DEF ChatRefused, Buffered
<1>5. ASSUME NEW cap \in ChatCaps, ChatStream(cap) PROVE Buffered'
  <2>1. chat'.streaming BY <1>0, <1>5 DEF ChatStream, Context
  <2>2. buf' = Buffer(cap) /\ cap \in Nat \ {0} BY <1>0, <1>5 DEF ChatStream
  <2>3. BufType(buf') /\ Streamed(buf') /\ Told(buf') /\ buf'.seen = <<>> BY <2>2, NewBuffer
  <2> QED BY <2>1, <2>3 DEF Buffered
<1>6. ASSUME NEW response \in BOOLEAN, ChatSync(response) PROVE ~chat'.streaming /\ ~chat'.reading
  <2>1. ~chat'.streaming BY <1>0, <1>6 DEF ChatSync, Context
  <2>2. chat'.reading = chat.reading /\ ~chat.reading BY <1>0, <1>6 DEF ChatSync, Context, Called, Idle
  <2> QED BY <2>1, <2>2
<1>7. ASSUME NEW response \in BOOLEAN, ChatSync(response), NEW cap \in ChatCaps, NoResponse(cap) PROVE Buffered'
  <2>1. ~chat'.streaming /\ ~chat'.reading BY <1>6, <1>7
  <2>2. buf' = Buffer(cap) /\ cap \in Nat \ {0} BY <1>0, <1>7 DEF NoResponse
  <2>3. BufType(buf') /\ Streamed(buf') /\ Told(buf') /\ buf'.seen = <<>> BY <2>2, NewBuffer
  <2> QED BY <2>1, <2>3 DEF Buffered
<1>8. ASSUME ChatSync(TRUE), NEW cap \in ChatCaps, NEW n \in Texts, ResponseText(cap, n) PROVE Buffered'
  <2>1. ~chat'.streaming /\ ~chat'.reading BY <1>6, <1>8
  <2>2. PICK b : b = Buffer(cap) OBVIOUS
  <2>3. buf' = [b EXCEPT !.mem = Strncpy(b, n), !.sent = n, !.told = Reported(b, n)] /\ cap \in Nat \ {0} /\ n \in Nat
    BY <1>0, <1>8, <2>2 DEF ResponseText
  <2>4. BufType(buf') /\ Copied(buf') BY <2>2, <2>3, TextCopied
  <2>5. buf'.seen = <<>> BY <2>4 DEF Copied
  <2> QED BY <2>1, <2>4, <2>5 DEF Buffered
<1>9. CASE WaitBegins
  <2>1. chat.streaming /\ chat'.streaming = chat.streaming /\ chat'.callbacks = chat.callbacks
    BY <1>0, <1>9 DEF WaitBegins, Context
  <2> QED BY <1>9, <2>1, SameBuffer DEF WaitBegins
<1>10. ASSUME NEW n \in Pieces, StreamPiece(n) PROVE Buffered'
  <2>1. BufType(buf) /\ Streamed(buf) /\ Told(buf) /\ chat.reading /\ chat' = chat BY <1>10 DEF Buffered, StreamPiece
  <2>2. PICK m : m = MaxCopy(buf, n) OBVIOUS
  <2>3. n \in Nat /\ buf.sent \in Nat /\ m \in 0 .. n + 1
    <3>1. n \in Nat /\ buf.cap \in Nat \ {0} /\ buf.cur \in 0 .. buf.cap /\ buf.sent \in Nat
      BY <1>0, <2>1 DEF BufType
    <3> QED BY <2>2, <3>1 DEF MaxCopy
  <2>4. PICK bytes : bytes = SubSeq([i \in 1 .. n |-> buf.sent + i] \o <<0>>, 1, m) OBVIOUS
  <2>5. bytes \in Seq(Int) /\ Len(bytes) = m /\ \A i \in 1 .. m : bytes[i] = IF i <= n THEN buf.sent + i ELSE 0
    BY <2>3, <2>4, PieceBytes
  <2>6. buf' = [buf EXCEPT !.mem = Put(Put(buf.mem, buf.cur, bytes), buf.cur + m, <<0>>),
                           !.cur = buf.cur + m, !.sent = buf.sent + n,
                           !.seen = IF chat.callbacks THEN buf.seen \o bytes ELSE buf.seen]
    BY <1>10, <2>2, <2>4 DEF StreamPiece
  <2>7. PICK s : s = buf' OBVIOUS
  <2>8. /\ s = [cap |-> s.cap, cur |-> s.cur, mem |-> s.mem, sent |-> s.sent, seen |-> s.seen, told |-> s.told]
        /\ s.cap = buf.cap /\ s.cur = buf.cur + m /\ s.sent = buf.sent + n /\ s.told = buf.told
        /\ s.mem = Put(Put(buf.mem, buf.cur, bytes), buf.cur + m, <<0>>)
        /\ s.seen = IF chat.callbacks THEN buf.seen \o bytes ELSE buf.seen
    BY <2>1, <2>6, <2>7 DEF BufType
  <2>9. s.seen = buf.seen \o bytes \/ s.seen = <<>> BY <2>8 DEF Buffered
  <2>10. BufType(s) /\ Streamed(s) /\ Told(s)
    <3>1. BufType(buf) /\ Streamed(buf) /\ Told(buf) BY <2>1
    <3>2. PieceTaken(buf, s, n, m, bytes) BY <2>2, <2>5, <2>8, <2>9 DEF PieceTaken
    <3> QED BY <2>3, <3>1, <3>2, PieceStreamed
  <2>11. ~chat.callbacks => s.seen = <<>> BY <2>8 DEF Buffered
  <2> QED BY <2>1, <2>7, <2>10, <2>11 DEF Buffered
<1>11. ASSUME NEW end \in {"completed", "error"}, StreamEnds(end) PROVE Buffered'
  <2>1. chat'.reading = chat.reading /\ chat'.streaming = chat.streaming /\ chat'.callbacks = chat.callbacks
    BY <1>0, <1>11 DEF StreamEnds, Context
  <2> QED BY <1>11, <2>1, SameBuffer DEF StreamEnds, Buffered
<1>12. CASE onesdk_chat_wait_inner
  <2>1. ~chat'.reading /\ chat'.streaming = chat.streaming /\ chat'.callbacks = chat.callbacks
    BY <1>0, <1>12 DEF onesdk_chat_wait_inner, Context
  <2> QED BY <1>12, <2>1, SameBuffer DEF onesdk_chat_wait_inner
<1>13. CASE onesdk_chat_release_context
  <2>1. chat'.reading = chat.reading /\ chat'.streaming = chat.streaming /\ chat'.callbacks = chat.callbacks
    BY <1>0, <1>13 DEF onesdk_chat_release_context, Context
  <2> QED BY <1>13, <2>1, SameBuffer DEF onesdk_chat_release_context, Buffered
<1> QED BY <1>1, <1>2, <1>3, <1>4, <1>5, <1>7, <1>8, <1>9, <1>10, <1>11, <1>12, <1>13 DEF ChatNext

LEMMA BufferedInit == ChatInit => Buffered
<1> SUFFICES ASSUME ChatInit PROVE Buffered
  OBVIOUS
<1>1. buf = Buffer(1) /\ ~chat.reading /\ ~chat.streaming BY DEF ChatInit, onesdk_chat_context_init
<1>2. 1 \in Nat \ {0} OBVIOUS
<1>3. BufType(buf) /\ Streamed(buf) /\ Told(buf) /\ buf.seen = <<>> BY <1>1, <1>2, NewBuffer
<1> QED BY <1>1, <1>3 DEF Buffered

\* The last bytes of the text, as a suffix.
LEMMA SuffixByIndex ==
  ASSUME NEW s \in Seq(Int), NEW t \in Seq(Int), Len(s) <= Len(t),
         \A i \in 1 .. Len(s) : s[i] = t[Len(t) - Len(s) + i]
  PROVE  IsSuffix(s, t)
<1> DEFINE a == Reverse(s)
           b == Reverse(t)
<1>1. Len(s) \in Nat /\ Len(t) \in Nat OBVIOUS
<1>2. a \in Seq(Int) /\ Len(a) = Len(s) /\ \A i \in 1 .. Len(s) : a[i] = s[(Len(s) - i) + 1] BY DEF Reverse
<1>3. b \in Seq(Int) /\ Len(b) = Len(t) /\ \A i \in 1 .. Len(t) : b[i] = t[(Len(t) - i) + 1] BY DEF Reverse
<1> HIDE DEF a, b
<1>4. ASSUME NEW i \in 1 .. Len(s) PROVE a[i] = b[i]
  <2>1. /\ (Len(s) - i) + 1 \in 1 .. Len(s) /\ i \in 1 .. Len(t)
        /\ Len(t) - Len(s) + ((Len(s) - i) + 1) = (Len(t) - i) + 1
    BY <1>1
  <2> QED BY <1>2, <1>3, <2>1
<1>5. SubSeq(a, 1, Len(a)) = SubSeq(b, 1, Len(a)) BY <1>1, <1>2, <1>3, <1>4
<1> QED BY <1>2, <1>3, <1>5 DEF a, b, IsSuffix, IsPrefix

\* The smaller of two numbers.
LEMMA MinOfTwo ==
  ASSUME NEW a \in Nat, NEW b \in Nat
  PROVE  Min({a, b}) = IF a <= b THEN a ELSE b
<1>1. \E x \in {a, b} : \A y \in {a, b} : x <= y OBVIOUS
<1>2. PICK x : x = Min({a, b}) OBVIOUS
<1>3. x \in {a, b} /\ \A y \in {a, b} : x <= y BY <1>1, <1>2 DEF Min
<1> QED BY <1>2, <1>3

LEMMA TextFromInv == Buffered => TextInBuffer
<1> SUFFICES ASSUME Buffered PROVE TextInBuffer
  OBVIOUS
<1>1. /\ buf.cap \in Nat \ {0} /\ buf.cur \in 0 .. buf.cap /\ buf.sent \in Nat /\ buf.told \in Nat
      /\ buf.mem \in [1 .. buf.cap + 1 -> Int] /\ buf.seen \in Seq(Int)
  BY DEF Buffered, BufType
<1>2. PICK text : text = SubSeq(buf.mem, 1, buf.cur) OBVIOUS
<1>3. text \in Seq(Int) /\ Len(text) = buf.cur /\ \A i \in 1 .. buf.cur : text[i] = buf.mem[i]
  <2>1. PICK c \in Nat : c = buf.cap + 1 BY <1>1
  <2>2. PICK k \in 0 .. c : k = buf.cur BY <1>1, <2>1
  <2>3. PICK mem \in [1 .. c -> Int] : mem = buf.mem BY <1>1, <2>1
  <2>4. mem \in Seq(Int) /\ Len(mem) = c BY <2>1, <2>3
  <2>5. SubSeq(mem, 1, k) \in Seq(Int) /\ Len(SubSeq(mem, 1, k)) = k /\ \A i \in 1 .. k : SubSeq(mem, 1, k)[i] = mem[i]
    BY ONLY <2>4, c \in Nat, k \in 0 .. c
  <2> QED BY <1>2, <2>2, <2>3, <2>5
<1>4. PICK n : n = Min({buf.sent, buf.cap}) OBVIOUS
<1>5. n = IF buf.sent <= buf.cap THEN buf.sent ELSE buf.cap BY <1>1, <1>4, MinOfTwo
<1>6. SUFFICES /\ buf.cur <= buf.cap
               /\ \A i \in 1 .. buf.cur : text[i] = i \/ (i = buf.cap /\ buf.mem[buf.cap] = 0)
               /\ buf.cur < buf.cap => buf.told > 0 \/ buf.cur = buf.sent
               /\ buf.mem[buf.cap + 1] # -1 => buf.cur = buf.cap
               /\ IsSuffix(buf.seen, text)
               /\ \A i \in 1 .. buf.told : i < buf.cap => buf.mem[i] = i
               /\ buf.told <= n \/ buf.told = buf.cap
  BY <1>2, <1>4 DEF TextInBuffer
<1>7. buf.cur <= buf.cap BY <1>1
<1>8. CASE Streamed(buf) /\ Told(buf)
  <2>1. \A i \in 1 .. buf.cur : text[i] = i \/ (i = buf.cap /\ buf.mem[buf.cap] = 0) BY <1>3, <1>8 DEF Streamed
  <2>2. buf.cur < buf.cap => buf.cur = buf.sent BY <1>8 DEF Streamed
  <2>3. buf.mem[buf.cap + 1] # -1 => buf.cur = buf.cap BY <1>8, Zenon DEF Streamed
  <2>4. IsSuffix(buf.seen, text)
    <3>1. Len(buf.seen) <= Len(text) BY <1>3, <1>8 DEF Told
    <3>2. ASSUME NEW i \in 1 .. Len(buf.seen) PROVE buf.seen[i] = text[Len(text) - Len(buf.seen) + i]
      <4>1. Len(buf.seen) \in Nat /\ Len(buf.seen) <= buf.cur /\ buf.cur \in Nat BY <1>1, <1>8 DEF Told
      <4>2. buf.cur - Len(buf.seen) + i \in 1 .. buf.cur BY ONLY <4>1, i \in 1 .. Len(buf.seen)
      <4>3. buf.seen[i] = buf.mem[buf.cur - Len(buf.seen) + i] BY <1>8 DEF Told
      <4> QED BY <1>3, <4>2, <4>3
    <3> QED BY <1>1, <1>3, <3>1, <3>2, SuffixByIndex
  <2>5. buf.told = 0 BY <1>8 DEF Streamed
  <2>6. \A i \in 1 .. buf.told : FALSE BY <2>5
  <2>7. buf.told <= n BY <1>1, <1>5, <2>5
  <2> QED BY <1>7, <2>1, <2>2, <2>3, <2>4, <2>6, <2>7, Zenon
<1>9. CASE Copied(buf)
  <2>1. buf.cur = 0 /\ buf.seen = <<>> /\ buf.told = (IF buf.sent < buf.cap THEN buf.sent ELSE buf.cap)
    BY <1>9 DEF Copied
  <2>2. \A i \in 1 .. buf.cur : FALSE BY <2>1
  <2>3. buf.told > 0 \/ buf.cur = buf.sent BY <1>1, <2>1
  <2>4. buf.mem[buf.cap + 1] = -1 BY <1>9, Zenon DEF Copied
  <2>5. IsSuffix(buf.seen, text)
    <3>1. Len(buf.seen) = 0 /\ Len(text) = 0 /\ \A i \in 1 .. Len(buf.seen) : FALSE BY <1>3, <2>1
    <3>2. Len(buf.seen) <= Len(text) BY <3>1
    <3> QED BY <1>1, <1>3, <3>1, <3>2, SuffixByIndex
  <2>6. ASSUME NEW i \in 1 .. buf.told, i < buf.cap PROVE buf.mem[i] = i
    <3>1. i \in 1 .. buf.cap - 1 /\ i <= buf.sent BY <1>1, <2>1, <2>6
    <3> QED BY <1>9, <3>1 DEF Copied
  <2>7. buf.told <= n \/ buf.told = buf.cap BY <1>1, <1>5, <2>1
  <2> QED BY <1>7, <2>2, <2>3, <2>4, <2>5, <2>6, <2>7, Zenon
<1> QED BY <1>8, <1>9 DEF Buffered

\* However an answer is cut into events, and whatever the size of the caller's buffer:
\* it holds a prefix of the text, in full unless it is full, no byte but the terminator
\* is written behind it, the callbacks got what it holds since they were set, and the
\* reported length was written.
THEOREM BufferHoldsText == ChatSpec => []TextInBuffer
<1>1. ChatInit => ChatInv BY ChatAssumption, OwnedInit, BufferedInit DEF ChatInv
<1>2. ChatInv /\ [ChatNext]_chatVars => ChatInv' BY ChatAssumption, OwnedStep, BufferedStep DEF ChatInv
<1>3. ChatInv => TextInBuffer BY TextFromInv DEF ChatInv
<1> QED BY <1>1, <1>2, <1>3, PTL DEF ChatSpec
-----------------------------------------------------------------------------
(* Mcp, for any number of callers, calls, ids and messages.  The mailbox    *)
(* holds one message and callers look at it without the lock, so what ties  *)
(* an answer to its call is the id alone: the invariant says that a fresh   *)
(* id leads to one call, wherever the request or its answer is.             *)

Caller == [at : {"idle", "wait", "poll", "found"}, call : Nat, id : Nat, time : Nat, result : Nat,
           fresh : BOOLEAN, mine : BOOLEAN]
Mail == [id : Int, result : Nat]
Event == [at : {"none", "id set"}, kind : {"", "message"}, id : Int, call : Nat]
Requests == [id : Nat, method : {"initialize", "tools/list", "tools/call"}, call : Nat]

McpTypes ==
  /\ mcp \in [endpoint : BOOLEAN, ready : BOOLEAN, initId : Nat]
  /\ mbox \in Mail
  /\ recv \in Event
  /\ nextId \in 1 .. MaxId /\ used \in Nat /\ ncall \in Nat /\ nnote \in Nat
  /\ server \subseteq Requests /\ caller \in [Callers -> Caller] /\ answered \subseteq Nat

\* Where the request or the answer of a posted call is looked for.
Posted(k) == k.at \in {"poll", "found"}
ResultOf(call) == IF call \in answered THEN call ELSE 0

\* Until the ids begin again, they are handed out in order, and none seen is new.
IdsInOrder ==
  used < MaxId =>
    /\ nextId = used + 1
    /\ \A r \in server : r.id <= used
    /\ mbox.id <= used
    /\ \A c \in Callers : Posted(caller[c]) => caller[c].id <= used

\* No request of a call before its post, and one at most; an answered one is gone.
CallsOnce ==
  /\ ~mcp.endpoint => server = {} /\ answered = {} /\ \A c \in Callers : ~Posted(caller[c])
  /\ mcp.ready => mcp.endpoint
  /\ \A r \in server : r.call <= ncall /\ r.call \notin answered
  /\ \A r1, r2 \in server : r1.call = r2.call => r1 = r2
  /\ \A j \in answered : j <= ncall
  /\ \A c \in Callers : /\ caller[c].call <= ncall
                        /\ caller[c].at # "idle" => caller[c].call > 0
                        /\ caller[c].at = "wait" =>
                             caller[c].call \notin answered /\ \A r \in server : r.call # caller[c].call
  /\ \A c, d \in Callers : c # d /\ caller[c].call > 0 => caller[c].call # caller[d].call

\* While the receiver has the lock, the mailbox has the id of its event and no result.
LockedBox == recv.at = "id set" => mbox.id = recv.id /\ mcp.endpoint

\* A fresh id leads to the call that has it.
FreshId ==
  \A c \in Callers : LET k == caller[c] IN Posted(k) /\ k.fresh =>
    /\ \A r \in server : r.id = k.id => r.call = k.call
    /\ mbox.id = k.id =>
         /\ \A r \in server : r.call # k.call
         /\ IF Locked THEN recv.call = ResultOf(k.call) ELSE mbox.result = ResultOf(k.call)

\* A call that has taken its own answer will not be answered any more.
Taken ==
  \A c \in Callers : LET k == caller[c] IN
    /\ k.at # "idle" => ~k.mine
    /\ k.fresh /\ k.mine => k.call > 0 /\ \A r \in server : r.call # k.call

McpInv == McpTypes /\ IdsInOrder /\ CallsOnce /\ LockedBox /\ FreshId /\ Taken /\ OwnAnswer

-----------------------------------------------------------------------------
\* get_jsonrpc_requestID
LEMMA IdTaken ==
  ASSUME McpConstants, McpInv, NEW n, n = NextId(nextId)
  PROVE  /\ n.id \in Nat /\ n.next \in 1 .. MaxId
         /\ used < MaxId - 1 => n.id = used + 1 /\ n.next = used + 2
<1>1. nextId \in 1 .. MaxId /\ used \in Nat /\ MaxId \in Nat \ {0} /\ (used < MaxId => nextId = used + 1)
  BY DEF McpConstants, McpInv, McpTypes, IdsInOrder
<1>2. CASE nextId < MaxId
  <2>1. n.id = nextId /\ n.next = nextId + 1 BY <1>2 DEF NextId
  <2> QED BY <1>1, <1>2, <2>1
<1>3. CASE ~(nextId < MaxId)
  <2>1. n.id = 1 /\ n.next = 1 BY <1>3 DEF NextId
  <2>2. ~(used < MaxId - 1) BY <1>1, <1>3
  <2> QED BY <1>1, <2>1, <2>2
<1> QED BY <1>2, <1>3

\* The messages and the events the receiver makes are of their types.
LEMMA MailTypes ==
  ASSUME NEW i \in Int, NEW v \in Nat
  PROVE  /\ [id |-> i, result |-> v] \in Mail
         /\ [at |-> "id set", kind |-> "message", id |-> i, call |-> v] \in Event
<1>1. "id set" \in {"none", "id set"} /\ "message" \in {"", "message"} OBVIOUS
<1> QED BY <1>1, Zenon DEF Mail, Event
LEMMA NoEventType == NoEvent \in Event
<1>1. "none" \in {"none", "id set"} /\ "" \in {"", "message"} /\ 0 \in Int /\ 0 \in Nat OBVIOUS
<1> QED BY <1>1, Zenon DEF NoEvent, Event

\* What the invariant says of one caller.
LEMMA OfCaller ==
  ASSUME McpInv, NEW c \in Callers, NEW k, k = caller[c]
  PROVE  /\ k \in Caller /\ k.at \in {"idle", "wait", "poll", "found"} /\ k.call \in Nat /\ k.id \in Nat
         /\ k.time \in Nat /\ k.result \in Nat /\ k.fresh \in BOOLEAN /\ k.mine \in BOOLEAN
         /\ k.call <= ncall /\ (k.at # "idle" => k.call > 0 /\ ~k.mine)
<1>1. k \in Caller BY DEF McpInv, McpTypes
<1>2. /\ k.at \in {"idle", "wait", "poll", "found"} /\ k.call \in Nat /\ k.id \in Nat
      /\ k.time \in Nat /\ k.result \in Nat /\ k.fresh \in BOOLEAN /\ k.mine \in BOOLEAN
  BY ONLY <1>1 DEF Caller
<1>3. k.call <= ncall /\ (k.at # "idle" => k.call > 0 /\ ~k.mine) BY DEF McpInv, CallsOnce, Taken
<1> QED BY <1>1, <1>2, <1>3

\* A step of caller c that changes its own record only, and not its call or id.
LEMMA OnlyCaller ==
  ASSUME McpInv, NEW c \in Callers, NEW s \in Caller, caller' = [caller EXCEPT ![c] = s],
         UNCHANGED <<mcp, mbox, recv, nextId, used, server, ncall, nnote, answered>>,
         s.call = caller[c].call, s.id = caller[c].id, s.fresh = caller[c].fresh,
         Posted(s) => Posted(caller[c]), s.at # "idle" => caller[c].at # "idle",
         s.at = "wait" => caller[c].at = "wait", s.at # "idle" => ~s.mine,
         s.fresh /\ s.mine => /\ s.result = ResultOf(s.call) /\ s.call > 0
                              /\ \A r \in server : r.call # s.call
  PROVE  McpInv'
<1>1. caller \in [Callers -> Caller] /\ caller' \in [Callers -> Caller] BY DEF McpInv, McpTypes
<1>2. \A d \in Callers : caller'[d] = IF d = c THEN s ELSE caller[d] BY <1>1
<1>3. McpTypes' BY <1>1 DEF McpInv, McpTypes
<1>4. IdsInOrder' BY <1>2 DEF McpInv, IdsInOrder
<1>5. CallsOnce'
  <2>1. \A d \in Callers : caller'[d].call = caller[d].call BY <1>2
  <2>2. \A d \in Callers : Posted(caller'[d]) => Posted(caller[d]) BY <1>2
  <2>3. \A d \in Callers : /\ caller'[d].at # "idle" => caller[d].at # "idle"
                           /\ caller'[d].at = "wait" => caller[d].at = "wait"
    BY <1>2
  <2> QED BY <2>1, <2>2, <2>3 DEF McpInv, CallsOnce
<1>6. LockedBox' BY DEF McpInv, LockedBox
<1>7. FreshId'
  <2> SUFFICES ASSUME NEW d \in Callers, Posted(caller'[d]), caller'[d].fresh
               PROVE  /\ \A r \in server : r.id = caller'[d].id => r.call = caller'[d].call
                      /\ mbox.id = caller'[d].id =>
                           /\ \A r \in server : r.call # caller'[d].call
                           /\ IF Locked THEN recv.call = ResultOf(caller'[d].call)
                                        ELSE mbox.result = ResultOf(caller'[d].call)
    BY DEF FreshId, Locked, ResultOf
  <2>1. /\ Posted(caller[d]) /\ caller[d].fresh /\ caller'[d].id = caller[d].id /\ caller'[d].call = caller[d].call
    BY <1>2
  <2> QED BY <2>1 DEF McpInv, FreshId
<1>8. Taken' BY <1>2 DEF McpInv, Taken
<1>9. OwnAnswer' BY <1>2 DEF McpInv, OwnAnswer, ResultOf
<1> QED BY <1>3, <1>4, <1>5, <1>6, <1>7, <1>8, <1>9 DEF McpInv

\* mcp_tool_call and mcp_tools_list, except the call itself and its post.
LEMMA WaitInv ==
  ASSUME McpInv, NEW c \in Callers, Wait(c) \/ GiveUp(c) \/ Poll(c) \/ Timeout(c) \/ Found(c)
  PROVE  McpInv'
<1>0. PICK k : k = caller[c] OBVIOUS
<1>1. /\ k \in Caller /\ k.at \in {"idle", "wait", "poll", "found"} /\ k.time \in Nat
      /\ (k.at # "idle" => k.call > 0 /\ ~k.mine)
  BY <1>0, OfCaller
<1>2. UNCHANGED <<mcp, mbox, recv, nextId, used, server, ncall, nnote, answered>>
  BY DEF Wait, GiveUp, Poll, Timeout, Found, CallerOnly
<1>3. k.at # "idle" /\ ~k.mine BY <1>0, <1>1 DEF Wait, GiveUp, Poll, Timeout, Found
<1>4. CASE Wait(c) \/ Poll(c)
  <2>1. PICK s : s = [k EXCEPT !.time = k.time - 1] OBVIOUS
  <2>2. caller' = [caller EXCEPT ![c] = s] /\ k.time > 0 BY <1>0, <1>4, <2>1 DEF Wait, Poll, CallerOnly, Moves
  <2>3. k.time - 1 \in Nat BY <1>1, <2>2
  <2>4. s \in Caller BY <1>1, <2>1, <2>3 DEF Caller
  <2>5. /\ s.call = k.call /\ s.id = k.id /\ s.fresh = k.fresh /\ s.at = k.at /\ ~s.mine
    BY <1>1, <1>3, <2>1 DEF Caller
  <2> QED BY <1>0, <1>2, <1>3, <2>2, <2>4, <2>5, OnlyCaller DEF Posted
<1>5. CASE GiveUp(c) \/ Timeout(c)
  <2>1. PICK s : s = [k EXCEPT !.at = "idle"] OBVIOUS
  <2>2. caller' = [caller EXCEPT ![c] = s] BY <1>0, <1>5, <2>1 DEF GiveUp, Timeout, CallerOnly, Moves
  <2>4. s \in Caller BY <1>1, <2>1 DEF Caller
  <2>5. /\ s.call = k.call /\ s.id = k.id /\ s.fresh = k.fresh /\ s.at = "idle" /\ ~s.mine
    BY <1>1, <1>3, <2>1 DEF Caller
  <2> QED BY <1>0, <1>2, <1>3, <2>2, <2>4, <2>5, OnlyCaller DEF Posted
<1>6. CASE Found(c)
  <2>1. PICK s : s = [k EXCEPT !.at = "found"] OBVIOUS
  <2>2. caller' = [caller EXCEPT ![c] = s] /\ k.at = "poll" BY <1>0, <1>6, <2>1 DEF Found, CallerOnly, Moves
  <2>4. s \in Caller BY <1>1, <2>1 DEF Caller
  <2>5. /\ s.call = k.call /\ s.id = k.id /\ s.fresh = k.fresh /\ s.at = "found" /\ ~s.mine
    BY <1>1, <1>3, <2>1 DEF Caller
  <2> QED BY <1>0, <1>2, <1>3, <2>2, <2>4, <2>5, OnlyCaller DEF Posted
<1> QED BY <1>4, <1>5, <1>6

\* The result is parsed under the lock.
LEMMA TakeInv ==
  ASSUME McpInv, NEW c \in Callers, TakeResult(c)
  PROVE  McpInv'
<1>0. PICK k : k = caller[c] OBVIOUS
<1>1. /\ k \in Caller /\ k.call \in Nat /\ (k.at # "idle" => k.call > 0 /\ ~k.mine)
  BY <1>0, OfCaller
<1>2. UNCHANGED <<mcp, mbox, recv, nextId, used, server, ncall, nnote, answered>> /\ k.at = "found" /\ ~Locked
  BY <1>0 DEF TakeResult, Took, CallerOnly
<1>3. PICK result : result = Parsed(c) OBVIOUS
<1>4. PICK mine \in BOOLEAN : mine <=> mbox.id = k.id OBVIOUS
<1>5. PICK s : s = [k EXCEPT !.at = "idle", !.result = result, !.mine = mine] OBVIOUS
<1>6. caller' = [caller EXCEPT ![c] = s]
  BY <1>0, <1>3, <1>4, <1>5 DEF TakeResult, Took, CallerOnly, Moves
<1>7. mbox.result \in Nat BY DEF McpInv, McpTypes, Mail
<1>8. result \in Nat
  BY <1>3, <1>7 DEF Parsed, mcp_tools_list_parse, mcp_tool_result_parse
<1>9. s \in Caller BY <1>1, <1>5, <1>8 DEF Caller
<1>10. s.call = k.call /\ s.id = k.id /\ s.fresh = k.fresh /\ s.at = "idle" /\ s.result = result /\ s.mine = mine
  BY <1>1, <1>5 DEF Caller
<1>11. ASSUME k.fresh, mine
       PROVE  /\ result = ResultOf(k.call) /\ k.call > 0
              /\ \A r \in server : r.call # k.call
  <2>1. mbox.id = k.id /\ Posted(k) /\ k.call > 0 BY <1>1, <1>2, <1>4, <1>11 DEF Posted
  <2>2. /\ mbox.result = ResultOf(k.call) /\ \A r \in server : r.call # k.call
    BY <1>0, <1>2, <1>11, <2>1 DEF McpInv, FreshId
  <2>3. ResultOf(k.call) \in {0, k.call} BY DEF ResultOf
  <2>4. Lists(mbox.result) => Lists(k.call)
    BY <2>2, <2>3 DEF Lists
  <2>5. result = mbox.result
    BY <1>0, <1>1, <1>3, <2>2, <2>3, <2>4 DEF Parsed, mcp_tools_list_parse, mcp_tool_result_parse, Lists
  <2> QED BY <2>1, <2>2, <2>5
<1>12. s.fresh /\ s.mine => /\ s.result = ResultOf(s.call) /\ s.call > 0
                            /\ \A r \in server : r.call # s.call
  BY <1>10, <1>11
<1> QED BY <1>0, <1>2, <1>6, <1>9, <1>10, <1>12, OnlyCaller DEF Posted

\* A call gets a number of its own.
LEMMA CallInv == ASSUME McpConstants, McpInv, NEW c \in Callers, Call(c) PROVE McpInv'
<1>1. PICK s : s = [IdleCaller EXCEPT !.at = "wait", !.call = ncall + 1, !.time = Budget] OBVIOUS
<1>2. /\ caller' = [caller EXCEPT ![c] = s] /\ ncall' = ncall + 1
      /\ UNCHANGED <<mcp, mbox, recv, nextId, used, server, nnote, answered>>
  BY <1>1 DEF Call, Moves
<1>3. caller \in [Callers -> Caller] /\ ncall \in Nat /\ Budget \in Nat BY DEF McpInv, McpTypes, McpConstants
<1>4. s.at = "wait" /\ s.call = ncall + 1 /\ s.id = 0 /\ s.fresh /\ ~s.mine BY <1>1 DEF IdleCaller
<1>5. s \in Caller
  <2>1. s = [at |-> "wait", call |-> ncall + 1, id |-> 0, time |-> Budget, result |-> 0, fresh |-> TRUE, mine |-> FALSE]
    BY <1>1 DEF IdleCaller
  <2>2. ncall + 1 \in Nat /\ 0 \in Nat /\ "wait" \in {"idle", "wait", "poll", "found"} BY <1>3
  <2> QED BY <1>3, <2>1, <2>2, Zenon DEF Caller
<1>6. caller' \in [Callers -> Caller] /\ \A d \in Callers : caller'[d] = IF d = c THEN s ELSE caller[d]
  BY <1>2, <1>3, <1>5
<1>7. McpTypes'
  <2>1. ncall' \in Nat BY <1>2, <1>3
  <2>2. McpTypes BY DEF McpInv
  <2> QED BY ONLY <1>2, <1>6, <2>1, <2>2 DEF McpTypes
<1>8. IdsInOrder' BY <1>2, <1>4, <1>6 DEF McpInv, IdsInOrder, Posted
<1>9. CallsOnce'
  <2>1. \A d \in Callers : caller[d].call \in Nat /\ caller[d].call <= ncall BY OfCaller
  <2>2. /\ \A r \in server : r.call \in Nat /\ r.call <= ncall /\ r.call \notin answered
        /\ \A j \in answered : j \in Nat /\ j <= ncall
        /\ \A r1, r2 \in server : r1.call = r2.call => r1 = r2
        /\ ~mcp.endpoint => server = {} /\ answered = {} /\ \A d \in Callers : ~Posted(caller[d])
        /\ mcp.ready => mcp.endpoint
    BY DEF McpInv, McpTypes, Requests, CallsOnce
  <2>3. ncall + 1 \notin answered /\ \A r \in server : r.call # ncall + 1 BY <1>3, <2>2
  <2>4. ASSUME NEW d \in Callers
        PROVE  /\ caller'[d].call <= ncall + 1 /\ (caller'[d].at # "idle" => caller'[d].call > 0)
               /\ caller'[d].at = "wait" =>
                     caller'[d].call \notin answered /\ \A r \in server : r.call # caller'[d].call
    <3>1. CASE d = c BY <1>3, <1>4, <1>6, <2>3, <3>1
    <3>2. CASE d # c BY <1>3, <1>6, <2>1, <3>2 DEF McpInv, CallsOnce
    <3> QED BY <3>1, <3>2
  <2>5. ASSUME NEW d \in Callers, NEW e \in Callers, d # e, caller'[d].call > 0
        PROVE  caller'[d].call # caller'[e].call
    <3>1. CASE d = c BY <1>3, <1>4, <1>6, <2>1, <2>5, <3>1
    <3>2. CASE e = c BY <1>3, <1>4, <1>6, <2>1, <2>5, <3>2
    <3>3. CASE d # c /\ e # c BY <1>6, <2>5, <3>3 DEF McpInv, CallsOnce
    <3> QED BY <3>1, <3>2, <3>3
  <2>6. \A d \in Callers : Posted(caller'[d]) => Posted(caller[d]) BY <1>4, <1>6 DEF Posted
  <2>7. \A r \in server : r.call <= ncall + 1 BY <1>3, <2>2
  <2>8. \A j \in answered : j <= ncall + 1 BY <1>3, <2>2
  <2> QED BY <1>2, <2>2, <2>4, <2>5, <2>6, <2>7, <2>8 DEF CallsOnce
<1>10. LockedBox' BY <1>2 DEF McpInv, LockedBox
<1>11. FreshId'
  <2> SUFFICES ASSUME NEW d \in Callers, Posted(caller'[d]), caller'[d].fresh
               PROVE  /\ \A r \in server : r.id = caller'[d].id => r.call = caller'[d].call
                      /\ mbox.id = caller'[d].id =>
                           /\ \A r \in server : r.call # caller'[d].call
                           /\ IF Locked THEN recv.call = ResultOf(caller'[d].call)
                                        ELSE mbox.result = ResultOf(caller'[d].call)
    BY <1>2 DEF FreshId, Locked, ResultOf
  <2>1. caller'[d] = caller[d] BY <1>4, <1>6 DEF Posted
  <2> QED BY <2>1 DEF McpInv, FreshId
<1>12. Taken' BY <1>2, <1>4, <1>6 DEF McpInv, Taken
<1>13. OwnAnswer' BY <1>2, <1>4, <1>6 DEF McpInv, OwnAnswer
<1> QED BY <1>7, <1>8, <1>9, <1>10, <1>11, <1>12, <1>13 DEF McpInv

\* A request is posted with the next id.
LEMMA PostInv == ASSUME McpConstants, McpInv, NEW c \in Callers, Post(c) PROVE McpInv'
<1>0. PICK k : k = caller[c] OBVIOUS
<1>1. PICK n : n = NextId(nextId) OBVIOUS
<1>2. /\ n.id \in Nat /\ n.next \in 1 .. MaxId
      /\ used < MaxId - 1 => n.id = used + 1 /\ n.next = used + 2
  BY <1>1, IdTaken
<1>3. PICK fresh \in BOOLEAN : fresh <=> used < MaxId - 1 OBVIOUS
<1>4. PICK s : s = [k EXCEPT !.at = "poll", !.id = n.id, !.fresh = fresh] OBVIOUS
<1>5. PICK q : q = IF Lists(k.call) THEN build_tools_list_request(n.id, k.call)
                   ELSE build_tool_call_request(n.id, k.call)
  OBVIOUS
<1>t. /\ caller \in [Callers -> Caller] /\ used \in Nat /\ MaxId \in Nat \ {0} /\ ncall \in Nat /\ mbox.id \in Int
      /\ server \subseteq Requests
  BY DEF McpInv, McpTypes, McpConstants, Mail
<1>6. /\ \A d \in Callers \ {c} : caller'[d] =
            [caller[d] EXCEPT !.fresh = @ /\ ~(caller[d].at \in {"poll", "found"} /\ caller[d].id = n.id)]
      /\ caller'[c] = s /\ server' = server \cup {q} /\ nextId' = n.next /\ used' = used + 1
      /\ UNCHANGED <<mcp, mbox, recv, ncall, nnote, answered>>
      /\ k.at = "wait" /\ mcp.endpoint /\ mcp.ready
      /\ caller' = [d \in Callers |-> caller'[d]]
  <2>1. caller' = [d \in Callers |->
          IF d = c THEN [caller[c] EXCEPT !.at = "poll", !.id = n.id, !.fresh = (used < MaxId - 1)]
          ELSE [caller[d] EXCEPT !.fresh = @ /\ ~(caller[d].at \in {"poll", "found"} /\ caller[d].id = n.id)]]
    BY <1>1 DEF Post
  <2>2. caller'[c] = s
    <3>1. caller'[c] = [caller[c] EXCEPT !.at = "poll", !.id = n.id, !.fresh = (used < MaxId - 1)]
      BY ONLY <2>1, c \in Callers
    <3>2. (used < MaxId - 1) = fresh BY <1>3
    <3> QED BY ONLY <1>0, <1>4, <3>1, <3>2, Zenon
  <2>3. server' = server \cup {q} BY <1>0, <1>1, <1>5 DEF Post
  <2>4. nextId' = n.next /\ used' = used + 1 BY <1>1 DEF Post, TakeId
  <2>5. UNCHANGED <<mcp, mbox, recv, ncall, nnote, answered>> /\ k.at = "wait" /\ mcp.endpoint /\ mcp.ready
    BY <1>0 DEF Post
  <2>6. caller' = [d \in Callers |-> caller'[d]] BY <2>1
  <2>7. \A d \in Callers \ {c} : caller'[d] =
            [caller[d] EXCEPT !.fresh = @ /\ ~(caller[d].at \in {"poll", "found"} /\ caller[d].id = n.id)]
    BY ONLY <2>1
  <2> QED BY <2>2, <2>3, <2>4, <2>5, <2>6, <2>7
<1>7. /\ k \in Caller /\ k.call \in Nat /\ k.call > 0 /\ k.call <= ncall /\ ~k.mine BY <1>0, <1>6, OfCaller
<1>8. /\ s \in Caller /\ s.at = "poll" /\ s.id = n.id /\ s.fresh = fresh /\ s.call = k.call /\ s.mine = k.mine
  BY <1>2, <1>4, <1>7 DEF Caller
<1>9. q \in Requests /\ q.id = n.id /\ q.call = k.call
  BY <1>2, <1>5, <1>7 DEF build_tools_list_request, build_tool_call_request, Request, Requests
<1>10. ASSUME NEW d \in Callers, d # c
       PROVE  /\ caller'[d] \in Caller /\ caller'[d].at = caller[d].at /\ caller'[d].id = caller[d].id
              /\ caller'[d].call = caller[d].call /\ caller'[d].mine = caller[d].mine
              /\ caller'[d].result = caller[d].result
              /\ (caller'[d].fresh => caller[d].fresh)
              /\ (caller'[d].fresh /\ Posted(caller[d]) => caller[d].id # n.id)
  <2>1. PICK e : e = caller[d] OBVIOUS
  <2>2. e \in Caller /\ e.fresh \in BOOLEAN BY <2>1, OfCaller
  <2>3. PICK f \in BOOLEAN : f <=> e.fresh /\ ~(e.at \in {"poll", "found"} /\ e.id = n.id) OBVIOUS
  <2>4. caller'[d] = [e EXCEPT !.fresh = f] BY <1>6, <1>10, <2>1, <2>2, <2>3
  <2>5. [e EXCEPT !.fresh = f] \in Caller BY <2>2 DEF Caller
  <2>6. /\ caller'[d].at = e.at /\ caller'[d].id = e.id /\ caller'[d].call = e.call /\ caller'[d].mine = e.mine
        /\ caller'[d].result = e.result /\ caller'[d].fresh = f
    BY <2>2, <2>4 DEF Caller
  <2> QED BY <2>1, <2>3, <2>4, <2>5, <2>6 DEF Posted
<1>11. caller' \in [Callers -> Caller] BY <1>6, <1>8, <1>10
<1>12. McpTypes'
  <2>1. server' \subseteq Requests BY <1>6, <1>9, <1>t
  <2>2. used' \in Nat /\ nextId' \in 1 .. MaxId BY <1>2, <1>6, <1>t
  <2>3. McpTypes BY DEF McpInv
  <2>4. mcp' = mcp /\ mbox' = mbox /\ recv' = recv /\ ncall' = ncall /\ nnote' = nnote /\ answered' = answered BY <1>6
  <2> QED BY ONLY <1>11, <2>1, <2>2, <2>3, <2>4 DEF McpTypes
<1>i. used < MaxId =>
        /\ nextId = used + 1
        /\ \A r \in server : r.id \in Nat /\ r.id <= used
        /\ mbox.id <= used
        /\ \A d \in Callers : Posted(caller[d]) => caller[d].id \in Nat /\ caller[d].id <= used
  <2>1. \A r \in server : r.id \in Nat BY <1>t DEF Requests
  <2>2. \A d \in Callers : caller[d].id \in Nat BY OfCaller
  <2> QED BY <2>1, <2>2 DEF McpInv, IdsInOrder
<1>13. IdsInOrder'
  <2> SUFFICES ASSUME used + 1 < MaxId
               PROVE  /\ n.next = used + 2
                      /\ \A r \in server \cup {q} : r.id <= used + 1
                      /\ mbox.id <= used + 1
                      /\ \A d \in Callers : Posted(caller'[d]) => caller'[d].id <= used + 1
    <3>1. used + 1 + 1 = used + 2 BY <1>t
    <3> QED BY <1>6, <3>1 DEF IdsInOrder
  <2>1. used < MaxId /\ n.id = used + 1 /\ n.next = used + 2 BY <1>2, <1>t
  <2>2. \A r \in server \cup {q} : r.id <= used + 1 BY <1>9, <1>i, <1>t, <2>1
  <2>3. mbox.id <= used + 1 BY <1>i, <1>t, <2>1
  <2>4. ASSUME NEW d \in Callers, Posted(caller'[d]) PROVE caller'[d].id <= used + 1
    <3>1. CASE d = c BY <1>6, <1>8, <1>t, <2>1, <3>1
    <3>2. CASE d # c BY <1>10, <1>i, <1>t, <2>1, <2>4, <3>2 DEF Posted
    <3> QED BY <3>1, <3>2
  <2> QED BY <2>1, <2>2, <2>3, <2>4
<1>d. \A d \in Callers : d # c => caller[d].call # k.call
  BY <1>0, <1>7 DEF McpInv, CallsOnce
<1>w. k.call \notin answered /\ \A r \in server : r.call # k.call BY <1>0, <1>6 DEF McpInv, CallsOnce
<1>14. CallsOnce'
  <2>1. /\ \A r \in server : r.call <= ncall /\ r.call \notin answered
        /\ \A j \in answered : j <= ncall
        /\ \A r1, r2 \in server : r1.call = r2.call => r1 = r2
    BY DEF McpInv, CallsOnce
  <2>2. \A d \in Callers : caller'[d].call = caller[d].call BY <1>0, <1>6, <1>8, <1>10
  <2>3. ASSUME NEW d \in Callers
        PROVE  /\ caller'[d].call <= ncall /\ (caller'[d].at # "idle" => caller'[d].call > 0)
               /\ caller'[d].at = "wait" =>
                     caller'[d].call \notin answered /\ \A r \in server \cup {q} : r.call # caller'[d].call
    <3>1. CASE d = c BY <1>6, <1>7, <1>8, <3>1
    <3>2. CASE d # c BY <1>9, <1>10, <1>d, <3>2 DEF McpInv, CallsOnce
    <3> QED BY <3>1, <3>2
  <2>4. \A d, e \in Callers : d # e /\ caller'[d].call > 0 => caller'[d].call # caller'[e].call
    BY <2>2 DEF McpInv, CallsOnce
  <2>5. \A r1, r2 \in server \cup {q} : r1.call = r2.call => r1 = r2 BY <1>9, <1>w, <2>1
  <2>6. \A r \in server \cup {q} : r.call <= ncall /\ r.call \notin answered BY <1>7, <1>9, <1>w, <2>1
  <2> QED BY <1>6, <2>1, <2>3, <2>4, <2>5, <2>6 DEF CallsOnce
<1>15. LockedBox' BY <1>6 DEF McpInv, LockedBox
<1>16. FreshId'
  <2> SUFFICES ASSUME NEW d \in Callers, Posted(caller'[d]), caller'[d].fresh
               PROVE  /\ \A r \in server \cup {q} : r.id = caller'[d].id => r.call = caller'[d].call
                      /\ mbox.id = caller'[d].id =>
                           /\ \A r \in server \cup {q} : r.call # caller'[d].call
                           /\ IF Locked THEN recv.call = ResultOf(caller'[d].call)
                                        ELSE mbox.result = ResultOf(caller'[d].call)
    BY <1>6 DEF FreshId, Locked, ResultOf
  <2>1. CASE d = c
    <3>1. used < MaxId - 1 BY <1>3, <1>6, <1>8, <2>1
    <3>2. n.id = used + 1 /\ used < MaxId BY <1>2, <1>t, <3>1
    <3>3. mbox.id # n.id /\ \A r \in server : r.id # n.id BY <1>i, <1>t, <3>2
    <3> QED BY <1>6, <1>8, <1>9, <2>1, <3>3
  <2>2. CASE d # c
    <3>1. /\ Posted(caller[d]) /\ caller[d].fresh /\ caller[d].id # n.id
          /\ caller'[d].id = caller[d].id /\ caller'[d].call = caller[d].call
      BY <1>10, <2>2 DEF Posted
    <3>2. q.id # caller[d].id /\ q.call # caller[d].call BY <1>9, <1>d, <2>2, <3>1
    <3> QED BY <3>1, <3>2 DEF McpInv, FreshId
  <2> QED BY <2>1, <2>2
<1>17. Taken'
  <2> SUFFICES ASSUME NEW d \in Callers
               PROVE  /\ caller'[d].at # "idle" => ~caller'[d].mine
                      /\ caller'[d].fresh /\ caller'[d].mine =>
                           caller'[d].call > 0 /\ \A r \in server \cup {q} : r.call # caller'[d].call
    BY <1>6 DEF Taken
  <2>1. CASE d = c BY <1>6, <1>7, <1>8, <2>1
  <2>2. CASE d # c BY <1>9, <1>10, <1>d, <2>2 DEF McpInv, Taken
  <2> QED BY <2>1, <2>2
<1>18. OwnAnswer'
  <2> SUFFICES ASSUME NEW d \in Callers, caller'[d].at = "idle", caller'[d].fresh, caller'[d].mine
               PROVE  caller'[d].result = IF caller'[d].call \in answered THEN caller'[d].call ELSE 0
    BY <1>6 DEF OwnAnswer
  <2>1. d # c BY <1>6, <1>8
  <2> QED BY <1>10, <2>1 DEF McpInv, OwnAnswer
<1> QED BY <1>12, <1>13, <1>14, <1>15, <1>16, <1>17, <1>18 DEF McpInv

\* The first event: mcp_client_init.
LEMMA EndpointInv == ASSUME McpConstants, McpInv, EndpointEvent PROVE McpInv'
<1>1. PICK n : n = NextId(nextId) OBVIOUS
<1>2. /\ n.id \in Nat /\ n.next \in 1 .. MaxId
      /\ used < MaxId - 1 => n.id = used + 1 /\ n.next = used + 2
  BY <1>1, IdTaken
<1>3. PICK q : q = build_initialize_request(n.id) OBVIOUS
<1>4. /\ mcp' = [mcp EXCEPT !.endpoint = TRUE, !.initId = n.id] /\ server' = server \cup {q}
      /\ nextId' = n.next /\ used' = used + 1 /\ ~mcp.endpoint
      /\ UNCHANGED <<mbox, recv, caller, ncall, nnote, answered>>
  BY <1>1, <1>3 DEF EndpointEvent, TakeId
<1>5. /\ mcp \in [endpoint : BOOLEAN, ready : BOOLEAN, initId : Nat] /\ used \in Nat /\ MaxId \in Nat \ {0}
      /\ ncall \in Nat /\ mbox \in Mail /\ mbox.id \in Int /\ caller \in [Callers -> Caller]
  BY DEF McpInv, McpTypes, McpConstants, Mail
<1>6. server = {} /\ answered = {} /\ \A c \in Callers : ~Posted(caller[c]) BY <1>4 DEF McpInv, CallsOnce
<1>7. q \in Requests /\ q.id = n.id /\ q.call = 0
  BY <1>2, <1>3 DEF build_initialize_request, Request, Requests
<1>8. McpTypes'
  <2>1. mcp' \in [endpoint : BOOLEAN, ready : BOOLEAN, initId : Nat] BY <1>2, <1>4, <1>5
  <2>2. used' \in Nat /\ nextId' \in 1 .. MaxId /\ server' \subseteq Requests BY <1>2, <1>4, <1>5, <1>6, <1>7
  <2>3. McpTypes /\ UNCHANGED <<mbox, recv, caller, ncall, nnote, answered>> BY <1>4 DEF McpInv
  <2> QED BY ONLY <2>1, <2>2, <2>3 DEF McpTypes
<1>9. IdsInOrder'
  <2> SUFFICES ASSUME used + 1 < MaxId
               PROVE  n.next = used + 2 /\ q.id <= used + 1 /\ mbox.id <= used + 1
    <3>1. used + 1 + 1 = used + 2 BY <1>5
    <3> QED BY <1>4, <1>6, <3>1 DEF IdsInOrder
  <2>1. used < MaxId /\ n.id = used + 1 /\ n.next = used + 2 BY <1>2, <1>5
  <2>2. mbox.id <= used BY <2>1 DEF McpInv, IdsInOrder
  <2> QED BY <1>5, <1>7, <2>1, <2>2
<1>10. CallsOnce'
  <2>1. mcp'.endpoint /\ mcp'.ready = mcp.ready BY <1>4, <1>5
  <2>2. server' = {q} BY <1>4, <1>6
  <2>3. ASSUME NEW c \in Callers
        PROVE  /\ caller[c].call <= ncall
               /\ caller[c].at # "idle" => caller[c].call > 0
               /\ caller[c].at = "wait" => caller[c].call # 0
    <3>1. caller[c].call \in Nat /\ caller[c].call <= ncall /\ (caller[c].at # "idle" => caller[c].call > 0)
      BY OfCaller
    <3> QED BY <3>1
  <2>4. \A c, d \in Callers : c # d /\ caller[c].call > 0 => caller[c].call # caller[d].call BY DEF McpInv, CallsOnce
  <2>5. q.call <= ncall BY <1>5, <1>7
  <2> QED BY <1>4, <1>6, <1>7, <2>1, <2>2, <2>3, <2>4, <2>5 DEF CallsOnce
<1>11. LockedBox' BY <1>4, <1>5 DEF McpInv, LockedBox
<1>12. FreshId' BY <1>4, <1>6 DEF FreshId
<1>13. Taken'
  <2> SUFFICES ASSUME NEW c \in Callers, caller[c].fresh, caller[c].mine PROVE caller[c].call > 0 /\ q.call # caller[c].call
    BY <1>4, <1>6 DEF McpInv, Taken
  <2>1. caller[c].call > 0 /\ caller[c].call \in Nat BY OfCaller DEF McpInv, Taken
  <2> QED BY <1>7, <2>1
<1>14. OwnAnswer' BY <1>4 DEF McpInv, OwnAnswer
<1> QED BY <1>8, <1>9, <1>10, <1>11, <1>12, <1>13, <1>14 DEF McpInv

\* The answer to a request arrives: sse_parse_request_id and sse_get_response_result.
LEMMA AnswerInv == ASSUME McpConstants, McpInv, AnswerArrives PROVE McpInv'
<1>1. PICK q \in server, ok \in BOOLEAN :
        /\ mcp_packet_handle(q.id, sse_get_response_result(q, ok))
        /\ server' = server \ {q}
        /\ answered' = (IF ok THEN answered \cup {q.call} ELSE answered)
        /\ nnote' = nnote
  BY DEF AnswerArrives
<1>2. PICK got : got = IF ok THEN q.call ELSE 0 OBVIOUS
<1>3. /\ recv' = [at |-> "id set", kind |-> "message", id |-> q.id, call |-> got]
      /\ mbox' = [id |-> q.id, result |-> 0] /\ ~Locked
      /\ UNCHANGED <<mcp, nextId, used, caller, ncall>>
  BY <1>1, <1>2 DEF mcp_packet_handle, sse_get_response_result
<1>4. /\ server \subseteq Requests /\ answered \subseteq Nat /\ ncall \in Nat /\ used \in Nat BY DEF McpInv, McpTypes
<1>5. q.id \in Nat /\ q.call \in Nat /\ got \in Nat BY <1>2, <1>4 DEF Requests
<1>6. /\ q.call <= ncall /\ q.call \notin answered /\ \A r \in server : r.call = q.call => r = q
      /\ mcp.endpoint
  BY DEF McpInv, CallsOnce
<1>7. McpTypes'
  <2>1. recv' \in Event
    <3>1. q.id \in Int BY <1>5
    <3> QED BY <1>3, <1>5, <3>1, MailTypes
  <2>2. mbox' \in Mail
    <3>1. q.id \in Int /\ 0 \in Nat BY <1>5
    <3> QED BY <1>3, <3>1, MailTypes
  <2>3. answered' \subseteq Nat /\ server' \subseteq Requests BY <1>1, <1>4, <1>5
  <2>4. McpTypes /\ UNCHANGED <<mcp, nextId, used, caller, ncall>> /\ nnote' = nnote BY <1>1, <1>3 DEF McpInv
  <2> QED BY ONLY <2>1, <2>2, <2>3, <2>4 DEF McpTypes
<1>8. IdsInOrder'
  <2>1. mbox'.id = q.id BY <1>3
  <2> QED BY <1>1, <1>3, <2>1 DEF McpInv, IdsInOrder
<1>9. ASSUME NEW j, j # q.call PROVE j \in answered' <=> j \in answered
  BY <1>1, <1>9
<1>10. CallsOnce'
  <2>1. ASSUME NEW r \in server' PROVE r.call <= ncall /\ r.call \notin answered'
    <3>1. r \in server /\ r.call # q.call BY <1>1, <1>6
    <3> QED BY <1>9, <3>1 DEF McpInv, CallsOnce
  <2>2. \A r1, r2 \in server' : r1.call = r2.call => r1 = r2 BY <1>1 DEF McpInv, CallsOnce
  <2>3. \A j \in answered' : j <= ncall BY <1>1, <1>6 DEF McpInv, CallsOnce
  <2>4. ASSUME NEW c \in Callers, caller[c].at = "wait"
        PROVE  caller[c].call \notin answered' /\ \A r \in server' : r.call # caller[c].call
    <3>1. caller[c].call \notin answered /\ \A r \in server : r.call # caller[c].call BY <2>4 DEF McpInv, CallsOnce
    <3> QED BY <1>1, <1>9, <3>1
  <2>5. mcp.endpoint BY <1>6
  <2>6. \A c \in Callers : /\ caller[c].call <= ncall
                           /\ caller[c].at # "idle" => caller[c].call > 0
    BY DEF McpInv, CallsOnce
  <2>7. \A c, d \in Callers : c # d /\ caller[c].call > 0 => caller[c].call # caller[d].call BY DEF McpInv, CallsOnce
  <2> QED BY <1>3, <2>1, <2>2, <2>3, <2>4, <2>5, <2>6, <2>7 DEF CallsOnce
<1>11. LockedBox' BY <1>3, <1>6 DEF LockedBox
<1>12. FreshId'
  <2> SUFFICES ASSUME NEW c \in Callers, Posted(caller[c]), caller[c].fresh
               PROVE  /\ \A r \in server' : r.id = caller[c].id => r.call = caller[c].call
                      /\ q.id = caller[c].id =>
                           /\ \A r \in server' : r.call # caller[c].call
                           /\ got = IF caller[c].call \in answered' THEN caller[c].call ELSE 0
    <3>1. mbox'.id = q.id /\ recv'.call = got /\ Locked' BY <1>3 DEF Locked
    <3> QED BY <1>3, <3>1 DEF FreshId, ResultOf
  <2>1. \A r \in server : r.id = caller[c].id => r.call = caller[c].call BY DEF McpInv, FreshId
  <2>2. ASSUME q.id = caller[c].id
        PROVE  /\ \A r \in server' : r.call # caller[c].call
               /\ got = IF caller[c].call \in answered' THEN caller[c].call ELSE 0
    <3>1. q.call = caller[c].call BY <2>1, <2>2
    <3>2. \A r \in server' : r.call # caller[c].call BY <1>1, <1>6, <3>1
    <3>3. CASE ok
      <4>1. got = q.call /\ q.call \in answered' BY <1>1, <1>2, <3>3, Zenon
      <4> QED BY <3>1, <3>2, <4>1
    <3>4. CASE ~ok
      <4>1. got = 0 /\ q.call \notin answered' BY <1>1, <1>2, <1>6, <3>4, Zenon
      <4> QED BY <3>1, <3>2, <4>1
    <3> QED BY <3>2, <3>3, <3>4
  <2> QED BY <1>1, <2>1, <2>2
<1>13. Taken' BY <1>1, <1>3 DEF McpInv, Taken
<1>14. OwnAnswer'
  <2> SUFFICES ASSUME NEW c \in Callers, caller[c].at = "idle", caller[c].fresh, caller[c].mine
               PROVE  caller[c].result = IF caller[c].call \in answered' THEN caller[c].call ELSE 0
    BY <1>3 DEF OwnAnswer
  <2>1. caller[c].call # q.call BY DEF McpInv, Taken
  <2> QED BY <1>9, <2>1 DEF McpInv, OwnAnswer
<1> QED BY <1>7, <1>8, <1>10, <1>11, <1>12, <1>13, <1>14 DEF McpInv

\* A message that answers nothing.
LEMMA NoteInv == ASSUME McpConstants, McpInv, NoteArrives PROVE McpInv'
<1>1. /\ recv' = [at |-> "id set", kind |-> "message", id |-> -1, call |-> 0]
      /\ mbox' = [id |-> -1, result |-> 0] /\ nnote' = nnote + 1
      /\ UNCHANGED <<mcp, nextId, used, caller, ncall, server, answered>>
  BY DEF NoteArrives, mcp_packet_handle
<1>2. nnote \in Nat /\ used \in Nat BY DEF McpInv, McpTypes
<1>3. McpTypes'
  <2>1. recv' \in Event /\ mbox' \in Mail
    <3>1. -1 \in Int /\ 0 \in Nat OBVIOUS
    <3> QED BY <1>1, <3>1, MailTypes
  <2>2. nnote' \in Nat
    <3>1. nnote' = nnote + 1 BY DEF NoteArrives
    <3> QED BY ONLY <1>2, <3>1
  <2>3. McpTypes /\ UNCHANGED <<mcp, nextId, used, caller, ncall, server, answered>> BY <1>1 DEF McpInv
  <2> QED BY ONLY <2>1, <2>2, <2>3 DEF McpTypes
<1>4. mbox'.id = -1 /\ -1 <= used
  <2>1. mbox'.id = -1 BY <1>1, Zenon
  <2>2. -1 <= used BY ONLY <1>2
  <2> QED BY <2>1, <2>2
<1>5. IdsInOrder' BY <1>1, <1>4 DEF McpInv, IdsInOrder
<1>6. CallsOnce' BY <1>1 DEF McpInv, CallsOnce
<1>7. LockedBox'
  <2>1. mcp.endpoint BY DEF NoteArrives, mcp_packet_handle
  <2>2. recv'.id = -1 /\ mcp' = mcp BY <1>1, Zenon
  <2> QED BY <1>4, <2>1, <2>2, Zenon DEF LockedBox
<1>8. FreshId'
  <2>1. \A c \in Callers : caller[c].id # -1
    <3>1. \A c \in Callers : caller[c].id \in Nat BY OfCaller
    <3> QED BY <3>1
  <2>2. \A c \in Callers : Posted(caller[c]) /\ caller[c].fresh =>
          \A r \in server : r.id = caller[c].id => r.call = caller[c].call
    BY DEF McpInv, FreshId
  <2> QED BY <1>1, <1>4, <2>1, <2>2 DEF FreshId
<1>9. Taken' /\ OwnAnswer' BY <1>1 DEF McpInv, Taken, OwnAnswer
<1> QED BY <1>3, <1>5, <1>6, <1>7, <1>8, <1>9 DEF McpInv

\* The result is set and the lock released.
LEMMA StoreInv == ASSUME McpConstants, McpInv, Store PROVE McpInv'
<1>1. PICK n : n = NextId(nextId) OBVIOUS
<1>2. /\ n.id \in Nat /\ n.next \in 1 .. MaxId
      /\ used < MaxId - 1 => n.id = used + 1 /\ n.next = used + 2
  BY <1>1, IdTaken
<1>3. /\ recv.at = "id set" /\ mbox' = [mbox EXCEPT !.result = recv.call] /\ recv' = NoEvent
      /\ UNCHANGED <<server, caller, ncall, nnote, answered>>
  BY DEF Store
<1>4. \/ mcp' = [mcp EXCEPT !.ready = TRUE] /\ nextId' = n.next /\ used' = used + 1
      \/ mcp' = mcp /\ nextId' = nextId /\ used' = used
  BY <1>1 DEF Store, mcp_send_initialize_notification, TakeId
<1>5. /\ mcp \in [endpoint : BOOLEAN, ready : BOOLEAN, initId : Nat] /\ used \in Nat /\ MaxId \in Nat \ {0}
      /\ mbox \in Mail /\ nextId \in 1 .. MaxId
      /\ recv \in Event
      /\ server \subseteq Requests /\ caller \in [Callers -> Caller]
  BY DEF McpInv, McpTypes, McpConstants
<1>a. mbox.id \in Int BY <1>5 DEF Mail
<1>b. \/ nextId' = n.next /\ used' = used + 1
      \/ nextId' = nextId /\ used' = used
  BY <1>4
<1>6. mbox'.id = mbox.id /\ mbox'.result = recv.call /\ recv.call \in Nat BY <1>3, <1>5 DEF Mail, Event
<1>7. mcp'.endpoint = mcp.endpoint /\ mcp' \in [endpoint : BOOLEAN, ready : BOOLEAN, initId : Nat] BY <1>4, <1>5
<1>8. McpTypes'
  <2>1. recv' \in Event BY <1>3, NoEventType
  <2>2. mbox' \in Mail BY <1>3, <1>5, <1>6 DEF Mail
  <2>3. used' \in Nat /\ nextId' \in 1 .. MaxId BY ONLY <1>2, <1>b, <1>5
  <2>4. McpTypes /\ UNCHANGED <<server, caller, ncall, nnote, answered>> BY <1>3 DEF McpInv
  <2> QED BY ONLY <1>7, <2>1, <2>2, <2>3, <2>4 DEF McpTypes
<1>9. IdsInOrder'
  <2> SUFFICES ASSUME used' < MaxId
               PROVE  /\ nextId' = used' + 1 /\ \A r \in server : r.id <= used'
                      /\ mbox.id <= used' /\ \A c \in Callers : Posted(caller[c]) => caller[c].id <= used'
    BY <1>3, <1>6 DEF IdsInOrder
  <2>1. used < MaxId /\ used <= used' BY ONLY <1>b, <1>5, used' < MaxId
  <2>2. /\ nextId = used + 1 /\ \A r \in server : r.id <= used
        /\ mbox.id <= used /\ \A c \in Callers : Posted(caller[c]) => caller[c].id <= used
    BY <2>1 DEF McpInv, IdsInOrder
  <2>3. nextId' = used' + 1 BY ONLY <1>2, <1>b, <1>5, <2>1, <2>2, used' < MaxId
  <2>4. used' \in Nat BY ONLY <1>b, <1>5
  <2>5. \A r \in server : r.id \in Nat BY <1>5 DEF Requests
  <2>6. \A c \in Callers : caller[c].id \in Nat BY OfCaller
  <2>7. \A r \in server : r.id <= used' BY ONLY <1>5, <2>1, <2>2, <2>4, <2>5
  <2>8. \A c \in Callers : Posted(caller[c]) => caller[c].id <= used' BY ONLY <1>5, <2>1, <2>2, <2>4, <2>6
  <2>9. mbox.id <= used' BY ONLY <1>5, <1>a, <2>1, <2>2, <2>4
  <2> QED BY <2>3, <2>7, <2>8, <2>9
<1>10. CallsOnce'
  <2>1. mcp'.ready => mcp.endpoint
    BY <1>3 DEF McpInv, LockedBox
  <2> QED BY <1>3, <1>7, <2>1 DEF McpInv, CallsOnce
<1>11. LockedBox' BY <1>3 DEF LockedBox, NoEvent
<1>12. FreshId'
  <2>1. Locked /\ ~Locked' BY <1>3 DEF Locked, NoEvent
  <2> QED BY <1>3, <1>6, <2>1 DEF McpInv, FreshId, ResultOf
<1>13. Taken' /\ OwnAnswer' BY <1>3 DEF McpInv, Taken, OwnAnswer
<1> QED BY <1>8, <1>9, <1>10, <1>11, <1>12, <1>13 DEF McpInv

-----------------------------------------------------------------------------
\* Every step keeps the invariant.
LEMMA McpStep == McpConstants /\ McpInv /\ [McpNext]_mcpVars => McpInv'
<1> SUFFICES ASSUME McpConstants, McpInv, [McpNext]_mcpVars PROVE McpInv'
  OBVIOUS
<1>1. CASE UNCHANGED mcpVars
  BY <1>1 DEF mcpVars, McpInv, McpTypes, IdsInOrder, CallsOnce, LockedBox, FreshId, Locked, ResultOf, Taken, OwnAnswer
<1>2. CASE McpNext
  BY <1>2, EndpointInv, AnswerInv, NoteInv, StoreInv, CallInv, WaitInv, PostInv, TakeInv DEF McpNext
<1> QED BY <1>1, <1>2

\* Nobody has called, and the server has been asked nothing.
LEMMA McpStarts == McpConstants /\ McpInit => McpInv
<1> SUFFICES ASSUME McpConstants, McpInit PROVE McpInv
  OBVIOUS
<1>1. IdleCaller \in Caller
  <2>1. 0 \in Nat /\ "idle" \in {"idle", "wait", "poll", "found"} OBVIOUS
  <2> QED BY <2>1, Zenon DEF IdleCaller, Caller
<1>2. \A c \in Callers : caller[c] = IdleCaller BY DEF McpInit
<1>3. IdleCaller.at = "idle" /\ ~IdleCaller.mine /\ IdleCaller.call = 0 BY DEF IdleCaller
<1>4. McpTypes
  <2>1. mcp \in [endpoint : BOOLEAN, ready : BOOLEAN, initId : Nat] BY DEF McpInit
  <2>2. mbox \in Mail BY DEF McpInit, Mail
  <2>3. recv \in Event BY NoEventType DEF McpInit
  <2>4. nextId \in 1 .. MaxId /\ used \in Nat /\ ncall \in Nat /\ nnote \in Nat BY DEF McpInit, McpConstants
  <2>5. caller \in [Callers -> Caller] /\ server \subseteq Requests /\ answered \subseteq Nat BY <1>1 DEF McpInit
  <2> QED BY <2>1, <2>2, <2>3, <2>4, <2>5 DEF McpTypes
<1>5. IdsInOrder BY <1>2, <1>3 DEF McpInit, IdsInOrder, Posted
<1>6. CallsOnce BY <1>2, <1>3 DEF McpInit, CallsOnce, Posted
<1>7. LockedBox BY DEF McpInit, LockedBox, NoEvent
<1>8. FreshId /\ Taken /\ OwnAnswer BY <1>2, <1>3 DEF FreshId, Posted, Taken, OwnAnswer
<1> QED BY <1>4, <1>5, <1>6, <1>7, <1>8 DEF McpInv

\* For any number of callers, late answers, errors and other messages: a call whose id no
\* other request has had returns the result of its own request, or none when the answer
\* was an error, if its id is still in the mailbox when it takes the lock.
THEOREM AnswersOwned == McpSpec => []OwnAnswer
<1>1. McpInit => McpInv BY McpAssumption, McpStarts
<1>2. McpInv /\ [McpNext]_mcpVars => McpInv' BY McpAssumption, McpStep
<1>3. McpInv => OwnAnswer BY DEF McpInv
<1> QED BY <1>1, <1>2, <1>3, PTL DEF McpSpec
================================================================================
