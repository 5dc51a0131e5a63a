--------------------------- MODULE RealtimeWsProofs ---------------------------
(***************************************************************************)
(* Proofs about RealtimeWs, for any number of threads, calls, connections  *)
(* and failures.  FifoExactlyOnce is inductive together with the types: only *)
(* Insert and WriteableSends touch ring, wire and queued, and each keeps    *)
(* wire \o ring = queued.  CommitAfterAudio needs the order of the requests  *)
(* that the threads have still to send, and the refinement of SendQueue that *)
(* none of those has been sent.                                             *)
(***************************************************************************)
EXTENDS RealtimeWs, TLAPS

IInv == TypeOK /\ FifoExactlyOnce

\* The requests of an API call form a non-empty sequence of requests.
LEMMA ScriptRequests ==
  ASSUME NEW s \in Scripts, NEW n \in 1 .. MaxCalls
  PROVE  /\ [i \in DOMAIN s |-> [call |-> n, kind |-> s[i]]] \in Seq(Request)
         /\ [i \in DOMAIN s |-> [call |-> n, kind |-> s[i]]] # <<>>
<1> DEFINE q == [i \in DOMAIN s |-> [call |-> n, kind |-> s[i]]]
<1> DEFINE K == {"update", "append", "commit", "create"}
<1>1. s \in Seq(K) /\ Len(s) \in Nat /\ Len(s) > 0
  <2>1. CASE s = <<"update">>                      BY <2>1
  <2>2. CASE s = <<"append">>                      BY <2>2
  <2>3. CASE s = <<"append", "commit", "create">>  BY <2>3
  <2>4. CASE s = <<"commit", "create">>            BY <2>4
  <2> QED BY <2>1, <2>2, <2>3, <2>4 DEF Scripts
<1>2. \A i \in 1 .. Len(s) : [call |-> n, kind |-> s[i]] \in Request
  BY <1>1 DEF Request
<1>3. q \in [1 .. Len(s) -> Request]
  BY <1>1, <1>2
<1>4. q \in Seq(Request) /\ Len(q) = Len(s)
  BY <1>1, <1>3
<1> QED BY <1>1, <1>4

\* Appending to the second sequence appends to the concatenation.
LEMMA AppendConcat ==
  ASSUME NEW S, NEW a \in Seq(S), NEW b \in Seq(S), NEW x \in S
  PROVE  a \o Append(b, x) = Append(a \o b, x)
OBVIOUS

\* Moving the head of the second sequence to the end of the first changes nothing.
LEMMA MoveHead ==
  ASSUME NEW S, NEW a \in Seq(S), NEW b \in Seq(S), b # <<>>
  PROVE  Append(a, Head(b)) \o Tail(b) = a \o b
OBVIOUS

\* The tail of a sequence, and of one with more than one element.
LEMMA TailType ==
  ASSUME NEW S, NEW q \in Seq(S), q # <<>>
  PROVE  Tail(q) \in Seq(S) /\ (Len(q) > 1 => Tail(q) # <<>>)
<1>1. Tail(q) \in Seq(S) /\ Len(Tail(q)) = Len(q) - 1 /\ Len(q) \in Nat
  OBVIOUS
<1>2. \A e \in Seq(S) : Len(e) # 0 => e # <<>>
  OBVIOUS
<1>3. Len(q) > 1 => Len(Tail(q)) # 0
  BY <1>1
<1> QED BY <1>1, <1>2, <1>3, Zenon

\* The types of the initial state.
LEMMA InitInv == Init => IInv
<1> SUFFICES ASSUME Init PROVE IInv
  OBVIOUS
<1>1. TypeOK
  <2> USE DEF Init
  <2>1. /\ connected \in BOOLEAN /\ tryConnect \in BOOLEAN /\ alive \in BOOLEAN
    OBVIOUS
  <2>2. /\ active \in Conns \cup {NoConn} /\ conns \in [Conns -> ConnState]
        /\ writable \subseteq Conns /\ timers \subseteq Conns /\ lost \subseteq Request
    BY DEF NoConn, ConnState
  <2>3. ring \in Seq(Request) /\ wire \in Seq(Request) /\ queued \in Seq(Request) /\ Len(ring) = 0
    OBVIOUS
  <2>4. /\ Len(ring) <= RingSize
        /\ pingCount \in 0 .. PingInterval /\ reconnects \in 0 .. MaxReconnectTimes
        /\ calls \in 0 .. MaxCalls /\ drops \in 0 .. MaxDrops /\ fails \in 0 .. MaxFails
    BY <2>3, RealtimeAssumption
  <2>5. /\ pc \in [Threads -> Steps] /\ todo \in [Threads -> Seq(Request)]
        /\ \A t \in Threads : pc[t] # "idle" => todo[t] # <<>>
    BY DEF Steps
  <2> QED BY <2>1, <2>2, <2>3, <2>4, <2>5 DEF TypeOK
<1>2. FifoExactlyOnce
  BY DEF Init, FifoExactlyOnce
<1> QED BY <1>1, <1>2 DEF IInv

\* aigw_ws_connect keeps the types of the connections.
LEMMA OpensType ==
  ASSUME NEW cs \in [Conns -> ConnState], active \in Conns \cup {NoConn}, OpensIn(cs)
  PROVE  conns' \in [Conns -> ConnState] /\ active' \in Conns \cup {NoConn}
BY DEF OpensIn, ConnState, NoConn

\* Going on with the next request keeps the types of the threads.
LEMMA ProceedType ==
  ASSUME NEW t \in Threads, TypeOK, pc[t] # "idle", Proceed(t)
  PROVE  /\ pc' \in [Threads -> Steps] /\ todo' \in [Threads -> Seq(Request)]
         /\ \A u \in Threads : pc'[u] # "idle" => todo'[u] # <<>>
<1>1. /\ pc \in [Threads -> Steps] /\ todo \in [Threads -> Seq(Request)]
      /\ \A u \in Threads : pc[u] # "idle" => todo[u] # <<>>
  BY DEF TypeOK
<1>2. todo[t] \in Seq(Request) /\ todo[t] # <<>>
  BY <1>1
<1>3. Tail(todo[t]) \in Seq(Request) /\ (Len(todo[t]) > 1 => Tail(todo[t]) # <<>>)
  BY <1>2, TailType
<1>4. /\ todo' = [todo EXCEPT ![t] = Tail(todo[t])]
      /\ pc' = [pc EXCEPT ![t] = IF Len(todo[t]) > 1 THEN "connected" ELSE "idle"]
  BY DEF Proceed, Goto
<1>5. pc' \in [Threads -> Steps] /\ todo' \in [Threads -> Seq(Request)]
  BY <1>1, <1>3, <1>4 DEF Steps
<1>6. ASSUME NEW u \in Threads, pc'[u] # "idle" PROVE todo'[u] # <<>>
  BY <1>1, <1>3, <1>4, <1>6
<1> QED BY <1>5, <1>6

\* Going to another step of the same request does so too.
LEMMA GotoType ==
  ASSUME NEW t \in Threads, NEW s \in Steps, TypeOK, pc[t] # "idle", Goto(t, s), todo' = todo
  PROVE  /\ pc' \in [Threads -> Steps] /\ todo' \in [Threads -> Seq(Request)]
         /\ \A u \in Threads : pc'[u] # "idle" => todo'[u] # <<>>
BY DEF TypeOK, Goto

\* Every step keeps the types.
LEMMA TypeStep == TypeOK /\ [Next]_vars => TypeOK'
<1> SUFFICES ASSUME TypeOK, [Next]_vars PROVE TypeOK'
  OBVIOUS
<1> USE DEF ctxVars, lwsVars, appVars, hisVars
<1>1. CASE UNCHANGED vars
  BY <1>1 DEF TypeOK, vars
<1>2. CASE Connect
  <2>1. conns' \in [Conns -> ConnState] /\ active' \in Conns \cup {NoConn}
    BY <1>2, OpensType DEF Connect, TypeOK
  <2> QED BY <1>2, <2>1 DEF Connect, TypeOK
<1>3. CASE Disconnect
  BY <1>3 DEF Disconnect, TypeOK, vars
<1>4. CASE Deinit
  <2>1. Len(<<>>) <= RingSize /\ <<>> \in Seq(Request)
    BY RealtimeAssumption
  <2> QED BY <1>4, <2>1 DEF Deinit, TypeOK, ConnState
<1>5. ASSUME NEW t \in Threads, NEW s \in Scripts, Call(t, s) PROVE TypeOK'
  <2>1. calls + 1 \in 1 .. MaxCalls
    BY <1>5, RealtimeAssumption DEF Call, TypeOK
  <2> DEFINE q == [i \in DOMAIN s |-> [call |-> calls + 1, kind |-> s[i]]]
  <2>2. q \in Seq(Request) /\ q # <<>>
    BY <2>1, ScriptRequests
  <2>3. /\ calls' = calls + 1
        /\ todo' = [todo EXCEPT ![t] = q]
        /\ pc' = [pc EXCEPT ![t] = "connected"]
        /\ UNCHANGED <<ctxVars, lwsVars, alive, drops, fails, queued, lost>>
    BY <1>5 DEF Call
  <2>4. calls' \in 0 .. MaxCalls
    BY <2>1, <2>3
  <2> HIDE DEF q
  <2>5. /\ pc' \in [Threads -> Steps] /\ todo' \in [Threads -> Seq(Request)]
        /\ \A u \in Threads : pc'[u] # "idle" => todo'[u] # <<>>
    BY <2>2, <2>3 DEF TypeOK, Steps
  <2> QED BY <2>3, <2>4, <2>5 DEF TypeOK
<1>6. ASSUME NEW t \in Threads, ThreadStep(t) PROVE TypeOK'
  <2>1. CASE ReadConnected(t)
    <3>1. \E st \in Steps : pc[t] # "idle" /\ Goto(t, st)
      BY <2>1 DEF ReadConnected, Steps
    <3> QED BY <2>1, <3>1, GotoType DEF ReadConnected, TypeOK
  <2>2. CASE ReadTryConnect(t)
    <3>1. \E st \in Steps : pc[t] # "idle" /\ Goto(t, st)
      BY <2>2 DEF ReadTryConnect, Steps
    <3> QED BY <2>2, <3>1, GotoType DEF ReadTryConnect, TypeOK
  <2>3. CASE SendConnects(t)
    <3>1. \E st \in Steps : pc[t] # "idle" /\ Goto(t, st)
      BY <2>3 DEF SendConnects, Steps
    <3>2. conns' \in [Conns -> ConnState] /\ active' \in Conns \cup {NoConn}
      BY <2>3, OpensType DEF SendConnects, TypeOK
    <3> QED BY <2>3, <3>1, <3>2, GotoType DEF SendConnects, TypeOK
  <2>4. CASE ClearTryConnect(t)
    <3>1. \E st \in Steps : pc[t] # "idle" /\ Goto(t, st)
      BY <2>4 DEF ClearTryConnect, Steps
    <3> QED BY <2>4, <3>1, GotoType DEF ClearTryConnect, TypeOK
  <2>5. CASE Insert(t)
    <3>1. \E st \in Steps : pc[t] # "idle" /\ Goto(t, st)
      BY <2>5 DEF Insert, Steps
    <3>2. Head(todo[t]) \in Request
      BY <2>5 DEF Insert, TypeOK
    <3>3. /\ ring' \in Seq(Request) /\ Len(ring') <= RingSize
          /\ queued' \in Seq(Request) /\ lost' \subseteq Request
      <4>1. CASE Len(ring) < RingSize
        <5>1. ring' = Append(ring, Head(todo[t])) /\ queued' = Append(queued, Head(todo[t])) /\ lost' = lost
          BY <2>5, <4>1 DEF Insert, Inserted
        <5>2. ring' \in Seq(Request) /\ queued' \in Seq(Request) /\ Len(ring') = Len(ring) + 1
          BY <3>2, <5>1 DEF TypeOK
        <5>3. Len(ring) \in Nat
          BY DEF TypeOK
        <5> QED BY <4>1, <5>1, <5>2, <5>3, RealtimeAssumption DEF TypeOK
      <4>2. CASE ~(Len(ring) < RingSize)
        BY <2>5, <3>2, <4>2 DEF Insert, TypeOK
      <4> QED BY <4>1, <4>2
    <3> QED BY <2>5, <3>1, <3>3, GotoType DEF Insert, TypeOK
  <2>6. CASE InsertNoMemory(t)
    <3>1. /\ pc' = [pc EXCEPT ![t] = "idle"] /\ todo' = [todo EXCEPT ![t] = <<>>]
      BY <2>6 DEF InsertNoMemory, Goto
    <3>2. /\ pc' \in [Threads -> Steps] /\ todo' \in [Threads -> Seq(Request)]
          /\ \A u \in Threads : pc'[u] # "idle" => todo'[u] # <<>>
      BY <3>1 DEF TypeOK, Steps
    <3> QED BY <2>6, <3>2 DEF InsertNoMemory, TypeOK
  <2>7. CASE SendNothing(t)
    <3>1. pc[t] # "idle" /\ Proceed(t)
      BY <2>7 DEF SendNothing
    <3> QED BY <2>7, <3>1, ProceedType DEF SendNothing, TypeOK
  <2>8. CASE WakeRead(t)
    <3>1. CASE connected
      <4>1. \E st \in Steps : pc[t] # "idle" /\ Goto(t, st)
        BY <2>8, <3>1 DEF WakeRead, Steps
      <4> QED BY <2>8, <3>1, <4>1, GotoType DEF WakeRead, TypeOK
    <3>2. CASE ~connected
      <4>1. pc[t] # "idle" /\ Proceed(t)
        BY <2>8, <3>2 DEF WakeRead
      <4> QED BY <2>8, <4>1, ProceedType DEF WakeRead, TypeOK
    <3> QED BY <3>1, <3>2
  <2>9. CASE WakePoke(t)
    <3>1. pc[t] # "idle" /\ Proceed(t)
      BY <2>9 DEF WakePoke
    <3>2. writable' \subseteq Conns
      BY <2>9 DEF WakePoke, AskWritable, TypeOK
    <3> QED BY <2>9, <3>1, <3>2, ProceedType DEF WakePoke, TypeOK
  <2> QED BY <1>6, <2>1, <2>2, <2>3, <2>4, <2>5, <2>6, <2>7, <2>8, <2>9 DEF ThreadStep
<1>7. ASSUME NEW c \in Conns, Service(c) PROVE TypeOK'
  <2>1. CASE Established(c)
    <3>1. writable' \subseteq Conns
      BY <2>1 DEF Established, AskWritable, TypeOK
    <3>2. pingCount' \in 0 .. PingInterval /\ reconnects' \in 0 .. MaxReconnectTimes
      BY <2>1, RealtimeAssumption DEF Established
    <3> QED BY <2>1, <3>1, <3>2 DEF Established, TypeOK, ConnState
  <2>2. CASE ConnectionError(c)
    <3>1. CASE reconnects < MaxReconnectTimes
      <4>1. [conns EXCEPT ![c] = "dead"] \in [Conns -> ConnState]
        BY DEF TypeOK, ConnState
      <4>2. conns' \in [Conns -> ConnState] /\ active' \in Conns \cup {NoConn}
        BY <2>2, <3>1, <4>1, OpensType DEF ConnectionError, TypeOK
      <4>3. reconnects' \in 0 .. MaxReconnectTimes
        BY <2>2, <3>1, RealtimeAssumption DEF ConnectionError, TypeOK
      <4> QED BY <2>2, <4>2, <4>3 DEF ConnectionError, TypeOK
    <3>2. CASE ~(reconnects < MaxReconnectTimes)
      BY <2>2, <3>2 DEF ConnectionError, TypeOK, ConnState
    <3> QED BY <3>1, <3>2
  <2>3. CASE Closed(c)
    <3>1. drops' \in 0 .. MaxDrops
      BY <2>3, RealtimeAssumption DEF Closed, TypeOK
    <3> QED BY <2>3, <3>1 DEF Closed, TypeOK, ConnState
  <2>4. CASE WriteableUnconnected(c)
    BY <2>4 DEF WriteableUnconnected, ReturnsError, TypeOK, ConnState
  <2>5. CASE WriteableEmpty(c)
    BY <2>5 DEF WriteableEmpty, TypeOK
  <2>6. CASE WriteableFails(c)
    <3>1. fails' \in 0 .. MaxFails
      BY <2>6, RealtimeAssumption DEF WriteableFails, TypeOK
    <3> QED BY <2>6, <3>1 DEF WriteableFails, ReturnsError, TypeOK, ConnState
  <2>7. CASE WriteableSends(c)
    <3>1. ring \in Seq(Request) /\ wire \in Seq(Request) /\ ring # <<>>
      BY <2>7 DEF WriteableSends, TypeOK
    <3>2. ring' = Tail(ring) /\ wire' = Append(wire, Head(ring))
      BY <2>7 DEF WriteableSends
    <3>3. ring' \in Seq(Request) /\ wire' \in Seq(Request) /\ Len(ring') = Len(ring) - 1 /\ Len(ring) \in Nat
      BY <3>1, <3>2
    <3>4. Len(ring') <= RingSize
      BY <3>3, RealtimeAssumption DEF TypeOK
    <3>5. writable' \subseteq Conns
      BY <2>7 DEF WriteableSends, Up, TypeOK
    <3> QED BY <2>7, <3>3, <3>4, <3>5 DEF WriteableSends, TypeOK
  <2>8. CASE Timer(c)
    <3>1. pingCount' \in 0 .. PingInterval
      BY <2>8, RealtimeAssumption DEF Timer, TypeOK
    <3>2. writable' \subseteq Conns /\ timers' \subseteq Conns
      BY <2>8 DEF Timer, AskWritable, TypeOK
    <3> QED BY <2>8, <3>1, <3>2 DEF Timer, TypeOK
  <2> QED BY <1>7, <2>1, <2>2, <2>3, <2>4, <2>5, <2>6, <2>7, <2>8 DEF Service, Writeable
<1> QED BY <1>1, <1>2, <1>3, <1>4, <1>5, <1>6, <1>7 DEF Next

\* Every step keeps the order and the content of what was queued.
LEMMA FifoStep == IInv /\ [Next]_vars => FifoExactlyOnce'
<1> SUFFICES ASSUME IInv, [Next]_vars, alive' PROVE wire' \o ring' = queued'
  BY DEF FifoExactlyOnce
<1> USE DEF ctxVars, lwsVars, appVars, hisVars
<1>1. /\ ring \in Seq(Request) /\ wire \in Seq(Request) /\ queued \in Seq(Request)
      /\ alive => wire \o ring = queued
  BY DEF IInv, TypeOK, FifoExactlyOnce
<1>2. ASSUME UNCHANGED <<ring, wire, queued, alive>> PROVE wire' \o ring' = queued'
  BY <1>1, <1>2
<1>3. CASE UNCHANGED vars
  BY <1>2, <1>3 DEF vars
<1>4. CASE Connect \/ Disconnect \/ Deinit
  BY <1>2, <1>4 DEF Connect, Disconnect, Deinit, vars
<1>5. ASSUME NEW t \in Threads, NEW s \in Scripts, Call(t, s) PROVE wire' \o ring' = queued'
  BY <1>2, <1>5 DEF Call
<1>6. ASSUME NEW t \in Threads, ThreadStep(t) PROVE wire' \o ring' = queued'
  <2>1. CASE Insert(t)
    <3>1. Head(todo[t]) \in Request /\ alive
      BY <1>6, <2>1 DEF Insert, IInv, TypeOK
    <3>2. CASE Len(ring) < RingSize
      <4>1. ring' = Append(ring, Head(todo[t])) /\ queued' = Append(queued, Head(todo[t])) /\ wire' = wire
        BY <2>1, <3>2 DEF Insert, Inserted
      <4>2. wire \o Append(ring, Head(todo[t])) = Append(wire \o ring, Head(todo[t]))
        BY <1>1, <3>1, AppendConcat
      <4> QED BY <1>1, <3>1, <4>1, <4>2
    <3>3. CASE ~(Len(ring) < RingSize)
      BY <1>2, <2>1, <3>3 DEF Insert
    <3> QED BY <3>2, <3>3
  <2>2. CASE ~Insert(t)
    BY <1>2, <1>6, <2>2 DEF ThreadStep, ReadConnected, ReadTryConnect, SendConnects, ClearTryConnect,
       InsertNoMemory, SendNothing, WakeRead, WakePoke
  <2> QED BY <2>1, <2>2
<1>7. ASSUME NEW c \in Conns, Service(c) PROVE wire' \o ring' = queued'
  <2>1. CASE WriteableSends(c)
    <3>1. /\ ring # <<>> /\ ring' = Tail(ring) /\ wire' = Append(wire, Head(ring))
          /\ queued' = queued /\ alive
      BY <2>1 DEF WriteableSends
    <3>2. Append(wire, Head(ring)) \o Tail(ring) = wire \o ring
      BY <1>1, <3>1, MoveHead
    <3> QED BY <1>1, <3>1, <3>2
  <2>2. CASE ~WriteableSends(c)
    BY <1>2, <1>7, <2>2 DEF Service, Writeable, Established, ConnectionError, Closed,
       WriteableUnconnected, WriteableEmpty, WriteableFails, Timer
  <2> QED BY <2>1, <2>2
<1> QED BY <1>3, <1>4, <1>5, <1>6, <1>7 DEF Next

\* The inductive invariant of RealtimeWs.
LEMMA StepInv == IInv /\ [Next]_vars => IInv'
BY TypeStep, FifoStep DEF IInv

\* Types are right in every reachable state: in particular the ring never holds
\* more than RingSize requests and a thread inside a call has a request to send.
THEOREM RealtimeTypes == Spec => []TypeOK
<1>1. IInv => TypeOK
  BY DEF IInv
<1> QED BY InitInv, StepInv, <1>1, PTL DEF Spec

\* The ring is a lossless FIFO between aigw_ws_send_request and lws_write, for
\* any number of threads, connections, lost links and short writes.
THEOREM RealtimeFifo == Spec => []FifoExactlyOnce
<1>1. IInv => FifoExactlyOnce
  BY DEF IInv
<1> QED BY InitInv, StepInv, <1>1, PTL DEF Spec

-----------------------------------------------------------------------------
(* CommitAfterAudio.  The order of two requests of one call is fixed when the  *)
(* call begins; what keeps it is that a thread queues the head of its todo     *)
(* list and that no two calls have the same number.                            *)

\* May x be written before y?
InOrder(x, y) == ~(x.kind = "commit" /\ y.kind = "append" /\ x.call = y.call)
Ordered(q) == \A i, j \in DOMAIN q : i < j => InOrder(q[i], q[j])

\* The requests of the list l are behind those queued, in order, and of a known call.
ListOrdered(l) ==
  /\ Ordered(l)
  /\ \A i \in DOMAIN l : l[i].call <= calls /\ \A k \in DOMAIN queued : InOrder(queued[k], l[i])

CallsOrdered ==
  /\ Ordered(queued) /\ Ordered(wire)
  /\ \A k \in DOMAIN queued : queued[k].call <= calls
  /\ \A t \in Threads : ListOrdered(todo[t])
  /\ \A t, u \in Threads : t # u =>
       \A i \in DOMAIN todo[t], j \in DOMAIN todo[u] : todo[t][i].call # todo[u][j].call
  /\ ~alive => ring = <<>> /\ \A t \in Threads : pc[t] = "idle"

OrderInv == IInv /\ CallsOrdered

\* The requests of an API call are in order and have its number.
LEMMA ScriptOrdered ==
  ASSUME NEW s \in Scripts, NEW n, NEW q, q = [i \in DOMAIN s |-> [call |-> n, kind |-> s[i]]]
  PROVE  Ordered(q) /\ \A i \in DOMAIN q : q[i].call = n
<1>1. DOMAIN q = DOMAIN s /\ \A i \in DOMAIN q : q[i].call = n /\ q[i].kind = s[i] OBVIOUS
<1>2. ASSUME NEW i \in DOMAIN s, NEW j \in DOMAIN s, i < j, s[i] = "commit", s[j] = "append" PROVE FALSE
  <2>1. CASE s = <<"update">>                      BY <1>2, <2>1
  <2>2. CASE s = <<"append">>                      BY <1>2, <2>2
  <2>3. CASE s = <<"append", "commit", "create">>  BY <1>2, <2>3
  <2>4. CASE s = <<"commit", "create">>            BY <1>2, <2>4
  <2> QED BY <2>1, <2>2, <2>3, <2>4 DEF Scripts
<1> QED BY <1>1, <1>2 DEF Ordered, InOrder

\* The tail of an ordered list is ordered, and holds requests of the list.
LEMMA TailOrdered ==
  ASSUME NEW q \in Seq(Request), q # <<>>, Ordered(q)
  PROVE  Ordered(Tail(q)) /\ \A i \in DOMAIN Tail(q) : \E j \in DOMAIN q : Tail(q)[i] = q[j]
<1> DEFINE l == Tail(q)
<1>1. \A i \in DOMAIN l : i \in Nat /\ i + 1 \in DOMAIN q /\ l[i] = q[i + 1] OBVIOUS
<1> HIDE DEF l
<1>2. ASSUME NEW i \in DOMAIN l, NEW j \in DOMAIN l, i < j PROVE InOrder(l[i], l[j])
  <2>1. i \in Nat /\ j \in Nat /\ i + 1 \in DOMAIN q /\ j + 1 \in DOMAIN q /\ l[i] = q[i + 1] /\ l[j] = q[j + 1]
    BY <1>1
  <2>2. i + 1 < j + 1 BY <1>2, <2>1
  <2> QED BY <2>1, <2>2 DEF Ordered
<1>3. Ordered(l) /\ \A i \in DOMAIN l : \E j \in DOMAIN q : l[i] = q[j] BY <1>1, <1>2 DEF Ordered
<1> QED BY <1>3 DEF l

\* What comes first in an ordered list is ordered.
LEMMA PrefixOrdered ==
  ASSUME NEW a \in Seq(Request), NEW b \in Seq(Request), Ordered(a \o b)
  PROVE  Ordered(a)
<1>1. \A i \in DOMAIN a : i \in DOMAIN (a \o b) /\ (a \o b)[i] = a[i] OBVIOUS
<1> QED BY <1>1 DEF Ordered

\* A request that may follow all of an ordered list is appended to it.
LEMMA AppendOrdered ==
  ASSUME NEW q \in Seq(Request), NEW r \in Request, Ordered(q), \A k \in DOMAIN q : InOrder(q[k], r)
  PROVE  /\ Ordered(Append(q, r))
         /\ \A k \in DOMAIN Append(q, r) : (k \in DOMAIN q /\ Append(q, r)[k] = q[k]) \/ Append(q, r)[k] = r
<1> DEFINE l == Append(q, r)
<1>1. \A k \in DOMAIN l : k \in 1 .. Len(q) + 1 /\ Len(q) \in Nat
                          /\ IF k = Len(q) + 1 THEN l[k] = r ELSE k \in DOMAIN q /\ l[k] = q[k]
  OBVIOUS
<1> HIDE DEF l
<1>2. ASSUME NEW i \in DOMAIN l, NEW j \in DOMAIN l, i < j PROVE InOrder(l[i], l[j])
  <2>1. i # Len(q) + 1 BY <1>1, <1>2
  <2>2. i \in DOMAIN q /\ l[i] = q[i] BY <1>1, <2>1
  <2>3. CASE j = Len(q) + 1
    <3>1. l[j] = r BY <1>1, <2>3
    <3> QED BY <2>2, <3>1
  <2>4. CASE j # Len(q) + 1
    <3>1. j \in DOMAIN q /\ l[j] = q[j] BY <1>1, <2>4
    <3> QED BY <1>2, <2>2, <3>1 DEF Ordered
  <2> QED BY <2>3, <2>4
<1>3. Ordered(l) BY <1>2 DEF Ordered
<1>4. \A k \in DOMAIN l : (k \in DOMAIN q /\ l[k] = q[k]) \/ l[k] = r BY <1>1
<1> QED BY <1>3, <1>4 DEF l

\* A thread's list loses requests at its head, all of them included.
LEMMA ShorterList ==
  ASSUME IInv, CallsOrdered, NEW t \in Threads, pc[t] # "idle", NEW l, todo' = [todo EXCEPT ![t] = l],
         Ordered(l), \A i \in DOMAIN l : \E j \in DOMAIN todo[t] : l[i] = todo[t][j],
         UNCHANGED <<queued, wire, calls, ring, alive>>
  PROVE  CallsOrdered'
<1>1. \A u \in Threads : todo'[u] = IF u = t THEN l ELSE todo[u] BY DEF IInv, TypeOK
<1>2. alive BY DEF CallsOrdered
<1>3. \A u \in Threads : ListOrdered(todo[u]) BY DEF CallsOrdered
<1>4. ASSUME NEW u \in Threads PROVE \A i \in DOMAIN todo'[u] : \E j \in DOMAIN todo[u] : todo'[u][i] = todo[u][j]
  BY <1>1
<1>5. ASSUME NEW u \in Threads PROVE ListOrdered(todo[u])'
  <2>1. Ordered(todo'[u]) BY <1>1, <1>3 DEF ListOrdered
  <2>2. ASSUME NEW i \in DOMAIN todo'[u]
        PROVE  todo'[u][i].call <= calls /\ \A k \in DOMAIN queued : InOrder(queued[k], todo'[u][i])
    <3>1. PICK j \in DOMAIN todo[u] : todo'[u][i] = todo[u][j] BY <1>4
    <3> QED BY <1>3, <3>1 DEF ListOrdered
  <2> QED BY <2>1, <2>2 DEF ListOrdered, Ordered
<1>6. ASSUME NEW u \in Threads, NEW v \in Threads, u # v, NEW i \in DOMAIN todo'[u], NEW j \in DOMAIN todo'[v]
      PROVE  todo'[u][i].call # todo'[v][j].call
  <2>1. PICK a \in DOMAIN todo[u] : todo'[u][i] = todo[u][a] BY <1>4
  <2>2. PICK b \in DOMAIN todo[v] : todo'[v][j] = todo[v][b] BY <1>4
  <2> QED BY <1>6, <2>1, <2>2 DEF CallsOrdered
<1> QED BY <1>2, <1>5, <1>6 DEF CallsOrdered, Ordered

\* Proceed
LEMMA ProceedOrdered ==
  ASSUME IInv, CallsOrdered, NEW t \in Threads, pc[t] # "idle", Proceed(t),
         UNCHANGED <<queued, wire, calls, ring, alive>>
  PROVE  CallsOrdered'
<1>1. todo[t] \in Seq(Request) /\ todo[t] # <<>> /\ Ordered(todo[t])
  BY DEF IInv, TypeOK, CallsOrdered, ListOrdered
<1>2. PICK l : l = Tail(todo[t]) OBVIOUS
<1>3. Ordered(l) /\ \A i \in DOMAIN l : \E j \in DOMAIN todo[t] : l[i] = todo[t][j] BY <1>1, <1>2, TailOrdered
<1>4. todo' = [todo EXCEPT ![t] = l] BY <1>2 DEF Proceed
<1> QED BY <1>3, <1>4, ShorterList

\* Nothing the property is about changes.
LEMMA QuietOrdered ==
  ASSUME CallsOrdered, UNCHANGED <<queued, wire, calls, todo, alive>>,
         ring' = ring \/ alive, pc' = pc \/ alive
  PROVE  CallsOrdered'
<1>1. Ordered(queued)' /\ Ordered(wire)' BY DEF CallsOrdered, Ordered
<1>2. \A t \in Threads : ListOrdered(todo[t])' BY DEF CallsOrdered, ListOrdered, Ordered
<1> QED BY <1>1, <1>2 DEF CallsOrdered

\* lws_ring_insert of the head of the list
LEMMA InsertOrdered ==
  ASSUME IInv, CallsOrdered, NEW t \in Threads, Insert(t)
  PROVE  CallsOrdered'
<1>1. /\ todo[t] \in Seq(Request) /\ todo[t] # <<>> /\ pc[t] # "idle" /\ queued \in Seq(Request) /\ alive
  BY DEF Insert, IInv, TypeOK, CallsOrdered
<1>2. PICK r : r = Head(todo[t]) OBVIOUS
<1>3. r \in Request /\ 1 \in DOMAIN todo[t] /\ r = todo[t][1] /\ \A i \in DOMAIN todo[t] : i \in Nat /\ (i = 1 \/ 1 < i)
  BY <1>1, <1>2
<1>4. UNCHANGED <<wire, calls, todo, alive>> BY DEF Insert, lwsVars
<1>5. CASE queued' = queued
  BY <1>1, <1>4, <1>5, QuietOrdered
<1>6. CASE queued' = Append(queued, r)
  <2>1. \A k \in DOMAIN queued : InOrder(queued[k], r) BY <1>3 DEF CallsOrdered, ListOrdered
  <2>2. /\ Ordered(queued')
        /\ \A k \in DOMAIN queued' : (k \in DOMAIN queued /\ queued'[k] = queued[k]) \/ queued'[k] = r
    BY <1>1, <1>3, <1>6, <2>1, AppendOrdered DEF CallsOrdered
  <2>3. ASSUME NEW u \in Threads, NEW i \in DOMAIN todo[u] PROVE InOrder(r, todo[u][i])
    <3>1. CASE u # t BY <1>3, <3>1 DEF CallsOrdered, InOrder
    <3>2. CASE u = t /\ i = 1 BY <1>3, <3>2 DEF InOrder
    <3>3. CASE u = t /\ 1 < i BY <1>3, <3>3 DEF CallsOrdered, ListOrdered, Ordered
    <3> QED BY <1>3, <3>1, <3>2, <3>3
  <2>4. ASSUME NEW u \in Threads PROVE ListOrdered(todo[u])'
    <3>1. Ordered(todo[u]) /\ \A i \in DOMAIN todo[u] : todo[u][i].call <= calls BY DEF CallsOrdered, ListOrdered
    <3>2. ASSUME NEW i \in DOMAIN todo[u], NEW k \in DOMAIN queued' PROVE InOrder(queued'[k], todo[u][i])
      BY <2>2, <2>3 DEF CallsOrdered, ListOrdered
    <3> QED BY <1>4, <3>1, <3>2 DEF ListOrdered, Ordered
  <2>5. \A k \in DOMAIN queued' : queued'[k].call <= calls
    <3>1. r.call <= calls BY <1>3 DEF CallsOrdered, ListOrdered
    <3> QED BY <2>2, <3>1 DEF CallsOrdered
  <2> QED BY <1>1, <1>4, <2>2, <2>4, <2>5 DEF CallsOrdered, Ordered
<1> QED BY <1>2, <1>5, <1>6 DEF Insert

\* An API call begins.
LEMMA CallOrdered ==
  ASSUME IInv, CallsOrdered, NEW t \in Threads, NEW s \in Scripts, Call(t, s)
  PROVE  CallsOrdered'
<1>1. PICK q : q = [i \in DOMAIN s |-> [call |-> calls + 1, kind |-> s[i]]] OBVIOUS
<1>2. Ordered(q) /\ \A i \in DOMAIN q : q[i].call = calls + 1 BY <1>1, ScriptOrdered
<1>3. /\ alive /\ calls' = calls + 1 /\ todo' = [todo EXCEPT ![t] = q] /\ UNCHANGED <<queued, wire, ring, alive>>
  BY <1>1 DEF Call, ctxVars, lwsVars
<1>4. /\ calls \in Nat /\ todo \in [Threads -> Seq(Request)] /\ queued \in Seq(Request)
  BY RealtimeAssumption DEF IInv, TypeOK
<1>5. \A r \in Request : r.call \in Nat BY RealtimeAssumption DEF Request
<1>6. \A u \in Threads : todo'[u] = IF u = t THEN q ELSE todo[u] BY <1>3, <1>4
<1>7. \A k \in DOMAIN queued : queued[k].call \in Nat /\ queued[k].call <= calls
  <2>1. \A k \in DOMAIN queued : queued[k] \in Request BY <1>4
  <2> QED BY <1>5, <2>1 DEF CallsOrdered
<1>8. ASSUME NEW u \in Threads PROVE \A i \in DOMAIN todo[u] : todo[u][i].call \in Nat /\ todo[u][i].call <= calls
  <2>1. todo[u] \in Seq(Request) BY <1>4
  <2>2. \A i \in DOMAIN todo[u] : todo[u][i] \in Request BY <2>1
  <2> QED BY <1>5, <2>2 DEF CallsOrdered, ListOrdered
<1>9. \A n \in Nat : n <= calls => n <= calls + 1 /\ n # calls + 1 BY <1>4
<1>10. ASSUME NEW u \in Threads PROVE ListOrdered(todo[u])'
  <2>1. CASE u = t
    <3>1. \A i \in DOMAIN q, k \in DOMAIN queued : InOrder(queued[k], q[i]) BY <1>2, <1>7, <1>9 DEF InOrder
    <3>2. calls + 1 <= calls + 1 BY <1>4
    <3>3. \A i \in DOMAIN q : q[i].call <= calls + 1 BY <1>2, <3>2
    <3>4. todo'[u] = q BY <1>6, <2>1
    <3> QED BY <1>2, <1>3, <3>1, <3>3, <3>4 DEF ListOrdered, Ordered
  <2>2. CASE u # t
    <3>1. todo'[u] = todo[u] /\ ListOrdered(todo[u]) BY <1>6, <2>2 DEF CallsOrdered
    <3>2. \A i \in DOMAIN todo[u] : todo[u][i].call <= calls + 1 BY <1>8, <1>9
    <3> QED BY <1>3, <3>1, <3>2 DEF ListOrdered, Ordered
  <2> QED BY <2>1, <2>2
<1>11. ASSUME NEW u \in Threads, NEW v \in Threads, u # v, NEW i \in DOMAIN todo'[u], NEW j \in DOMAIN todo'[v]
       PROVE  todo'[u][i].call # todo'[v][j].call
  <2>1. CASE u = t
    <3>1. todo'[u] = q /\ todo'[v] = todo[v] BY <1>6, <1>11, <2>1
    <3> QED BY <1>2, <1>8, <1>9, <3>1
  <2>2. CASE v = t
    <3>1. todo'[v] = q /\ todo'[u] = todo[u] BY <1>6, <1>11, <2>2
    <3> QED BY <1>2, <1>8, <1>9, <3>1
  <2>3. CASE u # t /\ v # t
    <3>1. todo'[u] = todo[u] /\ todo'[v] = todo[v] BY <1>6, <2>3
    <3> QED BY <1>11, <3>1 DEF CallsOrdered
  <2> QED BY <2>1, <2>2, <2>3
<1>12. \A k \in DOMAIN queued : queued[k].call <= calls + 1 BY <1>7, <1>9
<1>13. Ordered(queued)' /\ Ordered(wire)' BY <1>3 DEF CallsOrdered, Ordered
<1> QED BY <1>3, <1>10, <1>11, <1>12, <1>13 DEF CallsOrdered

\* One request is written.
LEMMA SendOrdered ==
  ASSUME IInv, CallsOrdered, NEW c \in Conns, WriteableSends(c)
  PROVE  CallsOrdered'
<1>1. /\ ring # <<>> /\ wire' = Append(wire, Head(ring)) /\ ring' = Tail(ring)
      /\ UNCHANGED <<pc, todo, alive, calls, queued>>
  BY DEF WriteableSends, appVars, hisVars
<1>2. alive /\ ring \in Seq(Request) /\ wire \in Seq(Request) /\ wire \o ring = queued
  BY <1>1 DEF CallsOrdered, IInv, TypeOK, FifoExactlyOnce
<1>3. wire' \o ring' = queued BY <1>1, <1>2, MoveHead
<1>4. wire' \in Seq(Request) /\ ring' \in Seq(Request) BY <1>1, <1>2
<1>5. Ordered(wire') BY <1>3, <1>4, PrefixOrdered DEF CallsOrdered
<1>6. Ordered(queued)' /\ \A t \in Threads : ListOrdered(todo[t])' BY <1>1 DEF CallsOrdered, ListOrdered, Ordered
<1> QED BY <1>1, <1>2, <1>5, <1>6 DEF CallsOrdered, Ordered

\* Every step keeps the order of the requests of a call.
LEMMA OrderStep == OrderInv /\ [Next]_vars => OrderInv'
<1> SUFFICES ASSUME IInv, CallsOrdered, [Next]_vars PROVE CallsOrdered'
  BY StepInv DEF OrderInv
<1> USE DEF ctxVars, lwsVars, appVars, hisVars
<1>1. CASE UNCHANGED vars BY <1>1, QuietOrdered DEF vars
<1>2. CASE Connect \/ Disconnect BY <1>2, QuietOrdered DEF Connect, Disconnect, vars
<1>3. CASE Deinit
  <2>1. /\ ring' = <<>> /\ ~alive' /\ UNCHANGED <<queued, wire, calls, todo, pc>> /\ \A t \in Threads : pc[t] = "idle"
    BY <1>3 DEF Deinit
  <2>2. Ordered(queued)' /\ Ordered(wire)' /\ \A t \in Threads : ListOrdered(todo[t])'
    BY <2>1 DEF CallsOrdered, ListOrdered, Ordered
  <2> QED BY <2>1, <2>2 DEF CallsOrdered
<1>4. ASSUME NEW t \in Threads, NEW s \in Scripts, Call(t, s) PROVE CallsOrdered'
  BY <1>4, CallOrdered
<1>5. ASSUME NEW t \in Threads, ThreadStep(t) PROVE CallsOrdered'
  <2>1. pc[t] # "idle"
    BY <1>5 DEF ThreadStep, ReadConnected, ReadTryConnect, SendConnects, ClearTryConnect, Insert,
       InsertNoMemory, SendNothing, WakeRead, WakePoke
  <2>2. alive BY <2>1 DEF CallsOrdered
  <2>3. CASE ReadConnected(t) \/ ReadTryConnect(t) \/ SendConnects(t) \/ ClearTryConnect(t)
    BY <2>2, <2>3, QuietOrdered DEF ReadConnected, ReadTryConnect, SendConnects, ClearTryConnect
  <2>4. CASE Insert(t) BY <2>4, InsertOrdered
  <2>5. CASE InsertNoMemory(t)
    <3>1. PICK l : l = <<>> OBVIOUS
    <3>2. Ordered(l) /\ \A i \in DOMAIN l : \E j \in DOMAIN todo[t] : l[i] = todo[t][j] BY <3>1 DEF Ordered
    <3>3. todo' = [todo EXCEPT ![t] = l] /\ UNCHANGED <<queued, wire, calls, ring, alive>>
      BY <2>5, <3>1 DEF InsertNoMemory
    <3> QED BY <2>1, <3>2, <3>3, ShorterList
  <2>6. CASE SendNothing(t) BY <2>1, <2>6, ProceedOrdered DEF SendNothing
  <2>7. CASE WakeRead(t)
    <3>1. CASE connected BY <2>2, <2>7, <3>1, QuietOrdered DEF WakeRead
    <3>2. CASE ~connected BY <2>1, <2>7, <3>2, ProceedOrdered DEF WakeRead
    <3> QED BY <3>1, <3>2
  <2>8. CASE WakePoke(t) BY <2>1, <2>8, ProceedOrdered DEF WakePoke
  <2> QED BY <1>5, <2>3, <2>4, <2>5, <2>6, <2>7, <2>8 DEF ThreadStep
<1>6. ASSUME NEW c \in Conns, Service(c) PROVE CallsOrdered'
  <2>1. CASE WriteableSends(c) BY <2>1, SendOrdered
  <2>2. CASE ~WriteableSends(c)
    <3>1. UNCHANGED <<queued, wire, calls, todo, alive, ring, pc>>
      BY <1>6, <2>2 DEF Service, Writeable, Established, ConnectionError, Closed,
         WriteableUnconnected, WriteableEmpty, WriteableFails, Timer
    <3> QED BY <3>1, QuietOrdered
  <2> QED BY <2>1, <2>2
<1> QED BY <1>1, <1>2, <1>3, <1>4, <1>5, <1>6 DEF Next

LEMMA OrderInit == Init => OrderInv
<1> SUFFICES ASSUME Init PROVE CallsOrdered
  BY InitInv DEF OrderInv
<1>1. \A t \in Threads : todo[t] = <<>> BY DEF Init
<1>2. Ordered(<<>>) /\ ListOrdered(<<>>) BY DEF Ordered, ListOrdered
<1>3. queued = <<>> /\ wire = <<>> /\ alive BY DEF Init
<1> QED BY <1>1, <1>2, <1>3 DEF CallsOrdered

\* The audio of a call never follows its commit on the wire, for any number of threads
\* and calls, whatever the ring refuses and however often a connection breaks.
THEOREM RealtimeCommit == Spec => []CommitAfterAudio
<1>1. OrderInv => CommitAfterAudio
  BY DEF OrderInv, CallsOrdered, Ordered, InOrder, CommitAfterAudio
<1> QED BY OrderInit, OrderStep, <1>1, PTL DEF Spec

-----------------------------------------------------------------------------
(* RealtimeIsQueue.  A request stays at the head of its thread's list for the  *)
(* wake-up after its insertion, so what a thread has still to insert depends   *)
(* on where it is.                                                             *)

\* The requests that thread t has still to insert.
Inserting(t) == IF pc[t] \in {"wake", "poke"} THEN Tail(todo[t]) ELSE todo[t]

\* The list of a thread is in the order of its call, and what is still to be
\* inserted comes behind everything that is queued.
Follows(q, l) == \A k \in DOMAIN q, i \in DOMAIN l : Queue!Before(q[k], l[i])
CallsInOrder ==
  /\ \A t \in Threads : \A i, j \in DOMAIN todo[t] : i < j => Queue!Before(todo[t][i], todo[t][j])
  /\ \A t \in Threads : Follows(queued, Inserting(t))

QueueInv == OrderInv /\ CallsInOrder

\* The requests of an API call are in the order of Before.
LEMMA ScriptBefore ==
  ASSUME NEW s \in Scripts, NEW n, NEW q, q = [i \in DOMAIN s |-> [call |-> n, kind |-> s[i]]]
  PROVE  \A i, j \in DOMAIN q : i < j => Queue!Before(q[i], q[j])
<1> DEFINE Later == {<<"append", "commit">>, <<"append", "create">>, <<"commit", "create">>}
<1>1. DOMAIN q = DOMAIN s /\ \A i \in DOMAIN q : q[i].call = n /\ q[i].kind = s[i] OBVIOUS
<1>2. ASSUME NEW i \in DOMAIN s, NEW j \in DOMAIN s, i < j PROVE <<s[i], s[j]>> \in Later
  <2>1. CASE s = <<"update">>                      BY <1>2, <2>1
  <2>2. CASE s = <<"append">>                      BY <1>2, <2>2
  <2>3. CASE s = <<"append", "commit", "create">>
    <3>1. DOMAIN s = 1 .. 3 /\ s[1] = "append" /\ s[2] = "commit" /\ s[3] = "create" BY <2>3
    <3>2. (i = 1 /\ j = 2) \/ (i = 1 /\ j = 3) \/ (i = 2 /\ j = 3) BY <1>2, <3>1
    <3> QED BY <3>1, <3>2
  <2>4. CASE s = <<"commit", "create">>
    <3>1. DOMAIN s = 1 .. 2 /\ s[1] = "commit" /\ s[2] = "create" BY <2>4
    <3>2. i = 1 /\ j = 2 BY <1>2, <3>1
    <3> QED BY <3>1, <3>2
  <2> QED BY <2>1, <2>2, <2>3, <2>4 DEF Scripts
<1> QED BY <1>1, <1>2 DEF Queue!Before

\* What a thread has still to insert is in its list.
LEMMA InsertingListed ==
  ASSUME IInv, NEW t \in Threads
  PROVE  \A i \in DOMAIN Inserting(t) : \E j \in DOMAIN todo[t] : Inserting(t)[i] = todo[t][j]
<1>1. CASE pc[t] \in {"wake", "poke"}
  <2>1. todo[t] \in Seq(Request) /\ todo[t] # <<>> BY <1>1 DEF IInv, TypeOK
  <2>2. \A i \in DOMAIN Tail(todo[t]) : i + 1 \in DOMAIN todo[t] /\ Tail(todo[t])[i] = todo[t][i + 1] BY <2>1
  <2> QED BY <1>1, <2>2 DEF Inserting
<1>2. CASE pc[t] \notin {"wake", "poke"} BY <1>2 DEF Inserting
<1> QED BY <1>1, <1>2

\* Nothing is queued, and a thread goes on with its list or with what is behind its head.
LEMMA AdvanceInOrder ==
  ASSUME IInv, CallsInOrder, NEW t \in Threads, queued' = queued,
         \A u \in Threads \ {t} : todo'[u] = todo[u] /\ pc'[u] = pc[u],
         NEW l, l = Inserting(t)',
         \A i, j \in DOMAIN todo'[t] : i < j => Queue!Before(todo'[t][i], todo'[t][j]),
         \A i \in DOMAIN l : \E j \in DOMAIN Inserting(t) : l[i] = Inserting(t)[j]
  PROVE  CallsInOrder'
<1>1. \A u \in Threads : \A i, j \in DOMAIN todo'[u] : i < j => Queue!Before(todo'[u][i], todo'[u][j])
  BY DEF CallsInOrder
<1>2. ASSUME NEW u \in Threads PROVE Follows(queued, Inserting(u)')
  <2>1. CASE u # t BY <2>1 DEF CallsInOrder, Inserting
  <2>2. CASE u = t
    <3>1. Follows(queued, Inserting(t)) BY DEF CallsInOrder
    <3> QED BY <2>2, <3>1 DEF Follows
  <2> QED BY <2>1, <2>2
<1> QED BY <1>1, <1>2 DEF CallsInOrder, Follows, Queue!Before

\* The tail of a list in order is in order.
LEMMA TailBefore ==
  ASSUME NEW q \in Seq(Request), q # <<>>, \A i, j \in DOMAIN q : i < j => Queue!Before(q[i], q[j]),
         NEW l, l = Tail(q)
  PROVE  /\ \A i, j \in DOMAIN l : i < j => Queue!Before(l[i], l[j])
         /\ \A i \in DOMAIN l : Queue!Before(Head(q), l[i]) /\ \E j \in DOMAIN q : l[i] = q[j]
<1>1. 1 \in DOMAIN q /\ Head(q) = q[1] BY ONLY q \in Seq(Request), q # <<>>
<1>2. \A i \in DOMAIN l : i \in Nat /\ 1 < i + 1 /\ i + 1 \in DOMAIN q /\ l[i] = q[i + 1]
  BY ONLY q \in Seq(Request), q # <<>>, l = Tail(q)
<1>3. \A i \in DOMAIN l : Queue!Before(Head(q), l[i]) /\ \E j \in DOMAIN q : l[i] = q[j]
  BY <1>1, <1>2
<1>4. ASSUME NEW i \in DOMAIN l, NEW j \in DOMAIN l, i < j PROVE Queue!Before(l[i], l[j])
  <2>1. i \in Nat /\ j \in Nat /\ i + 1 \in DOMAIN q /\ j + 1 \in DOMAIN q /\ l[i] = q[i + 1] /\ l[j] = q[j + 1]
    BY <1>2
  <2>2. i + 1 < j + 1 BY ONLY <2>1, i < j
  <2> QED BY <2>1, <2>2
<1> QED BY <1>3, <1>4

\* Proceed, after the insertion or instead of it
LEMMA ProceedInOrder ==
  ASSUME IInv, CallsInOrder, NEW t \in Threads, pc[t] # "idle", Proceed(t), queued' = queued
  PROVE  CallsInOrder'
<1>1. todo \in [Threads -> Seq(Request)] /\ todo[t] \in Seq(Request) /\ todo[t] # <<>> /\ pc \in [Threads -> Steps]
  BY DEF IInv, TypeOK
<1>2. PICK l : l = Tail(todo[t]) OBVIOUS
<1>3. /\ \A i, j \in DOMAIN l : i < j => Queue!Before(l[i], l[j])
      /\ \A i \in DOMAIN l : \E j \in DOMAIN todo[t] : l[i] = todo[t][j]
  BY <1>1, <1>2, TailBefore DEF CallsInOrder
<1>4. /\ todo'[t] = l /\ pc'[t] \in {"connected", "idle"}
      /\ \A u \in Threads \ {t} : todo'[u] = todo[u] /\ pc'[u] = pc[u]
  BY <1>1, <1>2 DEF Proceed, Goto
<1>5. Inserting(t)' = l BY <1>4 DEF Inserting
<1>6. \A i \in DOMAIN l : \E j \in DOMAIN Inserting(t) : l[i] = Inserting(t)[j]
  BY <1>2, <1>3 DEF Inserting
<1> QED BY <1>3, <1>4, <1>5, <1>6, AdvanceInOrder

\* A thread moves without touching its list.
LEMMA MoveInOrder ==
  ASSUME IInv, CallsInOrder, NEW t \in Threads, NEW step, Goto(t, step), UNCHANGED <<todo, queued>>,
         pc[t] \in {"wake", "poke"} <=> step \in {"wake", "poke"}
  PROVE  CallsInOrder'
<1>1. pc'[t] = step /\ \A u \in Threads \ {t} : pc'[u] = pc[u] BY DEF Goto, IInv, TypeOK
<1>2. Inserting(t)' = Inserting(t) BY <1>1 DEF Inserting
<1>3. \A i, j \in DOMAIN todo'[t] : i < j => Queue!Before(todo'[t][i], todo'[t][j]) BY DEF CallsInOrder
<1> QED BY <1>1, <1>2, <1>3, AdvanceInOrder

\* The threads and what is queued are as they were.
LEMMA QuietInOrder ==
  ASSUME CallsInOrder, UNCHANGED <<pc, todo, queued>> PROVE CallsInOrder'
BY DEF CallsInOrder, Inserting, Follows, Queue!Before

\* lws_ring_insert, or a full ring: either way the head of the list is done with
LEMMA InsertInOrder ==
  ASSUME IInv, CallsOrdered, CallsInOrder, NEW t \in Threads, Insert(t)
  PROVE  CallsInOrder'
<1>1. /\ todo \in [Threads -> Seq(Request)] /\ todo[t] \in Seq(Request) /\ todo[t] # <<>>
      /\ pc \in [Threads -> Steps] /\ queued \in Seq(Request) /\ pc[t] = "insert"
  BY DEF Insert, IInv, TypeOK
<1>2. PICK r : r = Head(todo[t]) OBVIOUS
<1>3. PICK l : l = Tail(todo[t]) OBVIOUS
<1>4. /\ \A i, j \in DOMAIN l : i < j => Queue!Before(l[i], l[j])
      /\ \A i \in DOMAIN l : Queue!Before(r, l[i]) /\ \E j \in DOMAIN todo[t] : l[i] = todo[t][j]
  BY <1>1, <1>2, <1>3, TailBefore DEF CallsInOrder
<1>5. /\ todo' = todo /\ pc'[t] = "wake" /\ \A u \in Threads \ {t} : pc'[u] = pc[u]
  BY <1>1 DEF Insert, Goto
<1>6. Inserting(t) = todo[t] /\ Inserting(t)' = l BY <1>1, <1>3, <1>5 DEF Inserting
<1>7. CASE queued' = queued
  <2>1. \A i, j \in DOMAIN todo'[t] : i < j => Queue!Before(todo'[t][i], todo'[t][j]) BY <1>5 DEF CallsInOrder
  <2>2. \A i \in DOMAIN l : \E j \in DOMAIN Inserting(t) : l[i] = Inserting(t)[j] BY <1>4, <1>6
  <2>3. \A u \in Threads \ {t} : todo'[u] = todo[u] /\ pc'[u] = pc[u] BY <1>5
  <2> QED BY <1>6, <1>7, <2>1, <2>2, <2>3, AdvanceInOrder
<1>8. CASE queued' = Append(queued, r)
  <2>1. r \in Request /\ 1 \in DOMAIN todo[t] /\ r = todo[t][1] BY <1>1, <1>2
  <2>2. \A k \in DOMAIN queued' : (k \in DOMAIN queued /\ queued'[k] = queued[k]) \/ queued'[k] = r
    BY <1>1, <1>8, <2>1
  <2>3. ASSUME NEW u \in Threads PROVE Follows(queued', Inserting(u)')
    <3>1. CASE u = t
      <4>1. \A k \in DOMAIN queued, i \in DOMAIN l : Queue!Before(queued[k], l[i])
        <5>1. Follows(queued, todo[t]) BY <1>6 DEF CallsInOrder
        <5> QED BY <1>4, <5>1 DEF Follows
      <4> QED BY <1>4, <1>6, <2>2, <3>1, <4>1 DEF Follows
    <3>2. CASE u # t
      <4>1. Inserting(u)' = Inserting(u) BY <1>5, <3>2 DEF Inserting
      <4>2. \A i \in DOMAIN Inserting(u) : r.call # Inserting(u)[i].call
        <5>1. \A i \in DOMAIN todo[u] : r.call # todo[u][i].call BY <2>1, <3>2 DEF CallsOrdered
        <5> QED BY <5>1, InsertingListed
      <4>3. \A i \in DOMAIN Inserting(u) : Queue!Before(r, Inserting(u)[i]) BY <4>2 DEF Queue!Before
      <4>4. Follows(queued, Inserting(u)) BY DEF CallsInOrder
      <4> QED BY <2>2, <4>1, <4>3, <4>4 DEF Follows
    <3> QED BY <3>1, <3>2
  <2>4. \A u \in Threads : \A i, j \in DOMAIN todo'[u] : i < j => Queue!Before(todo'[u][i], todo'[u][j])
    BY <1>5 DEF CallsInOrder
  <2> QED BY <2>3, <2>4 DEF CallsInOrder, Follows, Queue!Before
<1> QED BY <1>2, <1>7, <1>8 DEF Insert, Inserted

\* An API call begins: its number is new.
LEMMA CallInOrder ==
  ASSUME IInv, CallsOrdered, CallsInOrder, NEW t \in Threads, NEW s \in Scripts, Call(t, s)
  PROVE  CallsInOrder'
<1>1. PICK q : q = [i \in DOMAIN s |-> [call |-> calls + 1, kind |-> s[i]]] OBVIOUS
<1>2. /\ \A i, j \in DOMAIN q : i < j => Queue!Before(q[i], q[j])
      /\ \A i \in DOMAIN q : q[i].call = calls + 1
  BY <1>1, ScriptBefore, ScriptOrdered
<1>3. /\ queued' = queued /\ todo'[t] = q /\ pc'[t] = "connected"
      /\ \A u \in Threads \ {t} : todo'[u] = todo[u] /\ pc'[u] = pc[u]
  BY <1>1 DEF Call, IInv, TypeOK
<1>4. \A k \in DOMAIN queued : queued[k].call # calls + 1
  <2>1. queued \in Seq(Request) /\ calls \in Nat BY RealtimeAssumption DEF IInv, TypeOK
  <2>2. \A x \in Request : x.call \in Nat BY RealtimeAssumption DEF Request
  <2>3. \A k \in DOMAIN queued : queued[k].call \in Nat /\ queued[k].call <= calls
    <3>1. \A k \in DOMAIN queued : queued[k] \in Request BY <2>1
    <3> QED BY <2>2, <3>1 DEF CallsOrdered
  <2>4. \A n \in Nat : n <= calls => n # calls + 1 BY <2>1
  <2> QED BY <2>3, <2>4
<1>5. ASSUME NEW u \in Threads PROVE Follows(queued, Inserting(u)')
  <2>1. CASE u = t
    <3>1. Inserting(u)' = q BY <1>3, <2>1 DEF Inserting
    <3> QED BY <1>2, <1>4, <3>1 DEF Follows, Queue!Before
  <2>2. CASE u # t
    <3>1. Inserting(u)' = Inserting(u) BY <1>3, <2>2 DEF Inserting
    <3> QED BY <3>1 DEF CallsInOrder
  <2> QED BY <2>1, <2>2
<1>6. \A u \in Threads : \A i, j \in DOMAIN todo'[u] : i < j => Queue!Before(todo'[u][i], todo'[u][j])
  <2>1. ASSUME NEW u \in Threads, u # t PROVE todo'[u] = todo[u] BY <1>3, <2>1
  <2> QED BY <1>2, <1>3, <2>1 DEF CallsInOrder
<1> QED BY <1>3, <1>5, <1>6 DEF CallsInOrder, Follows, Queue!Before

\* Every step keeps the order of what is still to be inserted.
LEMMA QueueStep == QueueInv /\ [Next]_vars => QueueInv'
<1> SUFFICES ASSUME IInv, CallsOrdered, CallsInOrder, [Next]_vars PROVE CallsInOrder'
  BY OrderStep DEF QueueInv, OrderInv
<1> USE DEF ctxVars, lwsVars, appVars, hisVars
<1>1. CASE UNCHANGED vars BY <1>1, QuietInOrder DEF vars
<1>2. CASE Connect \/ Disconnect \/ Deinit BY <1>2, QuietInOrder DEF Connect, Disconnect, Deinit, vars
<1>3. ASSUME NEW t \in Threads, NEW s \in Scripts, Call(t, s) PROVE CallsInOrder'
  BY <1>3, CallInOrder
<1>4. ASSUME NEW t \in Threads, ThreadStep(t) PROVE CallsInOrder'
  <2>1. CASE ReadConnected(t)
    <3>1. Goto(t, IF connected THEN "insert" ELSE "try") /\ pc[t] = "connected" /\ UNCHANGED <<todo, queued>>
      BY <2>1 DEF ReadConnected
    <3>2. (IF connected THEN "insert" ELSE "try") \notin {"wake", "poke"} OBVIOUS
    <3> QED BY <3>1, <3>2, MoveInOrder
  <2>2. CASE ReadTryConnect(t)
    <3>1. Goto(t, IF tryConnect THEN "connect" ELSE "insert") /\ pc[t] = "try" /\ UNCHANGED <<todo, queued>>
      BY <2>2 DEF ReadTryConnect
    <3>2. (IF tryConnect THEN "connect" ELSE "insert") \notin {"wake", "poke"} OBVIOUS
    <3> QED BY <3>1, <3>2, MoveInOrder
  <2>3. CASE SendConnects(t) BY <2>3, MoveInOrder DEF SendConnects
  <2>4. CASE ClearTryConnect(t) BY <2>4, MoveInOrder DEF ClearTryConnect
  <2>5. CASE Insert(t) BY <2>5, InsertInOrder
  <2>6. CASE InsertNoMemory(t)
    <3>1. PICK l : l = <<>> OBVIOUS
    <3>2. /\ todo'[t] = l /\ pc'[t] = "idle" /\ queued' = queued
          /\ \A u \in Threads \ {t} : todo'[u] = todo[u] /\ pc'[u] = pc[u]
      BY <2>6, <3>1 DEF InsertNoMemory, Goto, IInv, TypeOK
    <3>3. Inserting(t)' = l BY <3>2 DEF Inserting
    <3>4. DOMAIN l = {} BY <3>1
    <3> QED BY <3>2, <3>3, <3>4, AdvanceInOrder
  <2>7. CASE SendNothing(t) BY <2>7, ProceedInOrder DEF SendNothing
  <2>8. CASE WakeRead(t)
    <3>1. CASE connected BY <2>8, <3>1, MoveInOrder DEF WakeRead
    <3>2. CASE ~connected BY <2>8, <3>2, ProceedInOrder DEF WakeRead
    <3> QED BY <3>1, <3>2
  <2>9. CASE WakePoke(t) BY <2>9, ProceedInOrder DEF WakePoke
  <2> QED BY <1>4, <2>1, <2>2, <2>3, <2>4, <2>5, <2>6, <2>7, <2>8, <2>9 DEF ThreadStep
<1>5. ASSUME NEW c \in Conns, Service(c) PROVE CallsInOrder'
  <2>1. UNCHANGED <<pc, todo, queued>>
    BY <1>5 DEF Service, Writeable, Established, ConnectionError, Closed,
       WriteableUnconnected, WriteableEmpty, WriteableFails, WriteableSends, Timer
  <2> QED BY <2>1, QuietInOrder
<1> QED BY <1>1, <1>2, <1>3, <1>4, <1>5 DEF Next

LEMMA QueueStarts == Init => QueueInv
<1> SUFFICES ASSUME Init PROVE CallsInOrder
  BY OrderInit DEF QueueInv
<1>1. queued = <<>> /\ \A t \in Threads : todo[t] = <<>> BY DEF Init
<1> QED BY <1>1 DEF CallsInOrder, Follows

\* A step of the client is a step of the queue, or none.
LEMMA QueueRefined == QueueInv /\ [Next]_vars => [Queue!QueueNext]_(Queue!queueVars)
<1> SUFFICES ASSUME IInv, CallsOrdered, CallsInOrder, [Next]_vars
             PROVE  Queue!QueueNext \/ UNCHANGED <<alive, queued, wire>>
  BY DEF QueueInv, OrderInv, Queue!queueVars
<1> USE DEF ctxVars, lwsVars, appVars, hisVars
<1>1. /\ ring \in Seq(Request) /\ wire \in Seq(Request) /\ queued \in Seq(Request) /\ RingSize \in Nat
      /\ alive => wire \o ring = queued
  BY RealtimeAssumption DEF IInv, TypeOK, FifoExactlyOnce
<1>2. CASE UNCHANGED vars BY <1>2 DEF vars
<1>3. CASE Connect \/ Disconnect BY <1>3 DEF Connect, Disconnect, vars
<1>4. CASE Deinit BY <1>4 DEF Deinit, Queue!QueueNext, Queue!Close
<1>5. ASSUME NEW t \in Threads, NEW s \in Scripts, Call(t, s) PROVE UNCHANGED <<alive, queued, wire>>
  BY <1>5 DEF Call
<1>6. ASSUME NEW t \in Threads, ThreadStep(t) PROVE Queue!QueueNext \/ UNCHANGED <<alive, queued, wire>>
  <2>1. CASE Insert(t) /\ Len(ring) < RingSize
    <3>1. /\ queued' = Append(queued, Head(todo[t])) /\ UNCHANGED <<alive, wire>> /\ pc[t] = "insert"
      BY <2>1 DEF Insert
    <3>2. todo[t] \in Seq(Request) /\ todo[t] # <<>> /\ alive
      BY <3>1 DEF IInv, TypeOK, CallsOrdered
    <3>3. PICK r : r = Head(todo[t]) OBVIOUS
    <3>4. r \in Request /\ 1 \in DOMAIN todo[t] /\ r = todo[t][1] BY <3>2, <3>3
    <3>5. \A i \in DOMAIN queued : Queue!Before(queued[i], r)
      <4>1. Inserting(t) = todo[t] BY <3>1 DEF Inserting
      <4>2. Follows(queued, todo[t]) BY <4>1 DEF CallsInOrder
      <4> QED BY <3>4, <4>2 DEF Follows
    <3>6. Len(queued) < Len(wire) + RingSize
      <4>1. Len(wire \o ring) = Len(wire) + Len(ring) /\ Len(wire) \in Nat /\ Len(ring) \in Nat BY <1>1
      <4>2. Len(queued) = Len(wire) + Len(ring) BY <1>1, <3>2, <4>1
      <4>3. Len(ring) < RingSize /\ RingSize \in Nat BY <1>1, <2>1
      <4> QED BY ONLY <4>1, <4>2, <4>3
    <3>7. Queue!Accept(r) BY <3>1, <3>2, <3>3, <3>5, <3>6 DEF Queue!Accept
    <3> QED BY <3>4, <3>7 DEF Queue!QueueNext
  <2>2. CASE ~(Insert(t) /\ Len(ring) < RingSize)
    BY <1>6, <2>2 DEF ThreadStep, ReadConnected, ReadTryConnect, SendConnects, ClearTryConnect, Insert,
       InsertNoMemory, SendNothing, WakeRead, WakePoke
  <2> QED BY <2>1, <2>2
<1>7. ASSUME NEW c \in Conns, Service(c) PROVE Queue!QueueNext \/ UNCHANGED <<alive, queued, wire>>
  <2>1. CASE WriteableSends(c)
    <3>1. ring # <<>> /\ wire' = Append(wire, Head(ring)) /\ UNCHANGED <<alive, queued>> BY <2>1 DEF WriteableSends
    <3>2. alive BY <3>1 DEF CallsOrdered
    <3>3. queued = wire \o ring BY <1>1, <3>2
    <3>4. Len(wire) < Len(wire \o ring) /\ (wire \o ring)[Len(wire) + 1] = Head(ring) BY <1>1, <3>1
    <3>5. Queue!Write BY <3>1, <3>2, <3>3, <3>4 DEF Queue!Write
    <3> QED BY <3>5 DEF Queue!QueueNext
  <2>2. CASE ~WriteableSends(c)
    BY <1>7, <2>2 DEF Service, Writeable, Established, ConnectionError, Closed,
       WriteableUnconnected, WriteableEmpty, WriteableFails, Timer
  <2> QED BY <2>1, <2>2
<1> QED BY <1>2, <1>3, <1>4, <1>5, <1>6, <1>7 DEF Next

\* The websocket client implements the queue of SendQueue: whatever the interleaving of the
\* senders, the reconnections and the short writes, each request is taken at most once,
\* in the order of its call, at most RingSize wait, and they are written in that order.
THEOREM RealtimeRefinesQueue == Spec => RealtimeIsQueue
<1>1. Init => Queue!QueueInit BY DEF Init, Queue!QueueInit
<1> QED BY <1>1, QueueStarts, QueueStep, QueueRefined, PTL DEF Spec, RealtimeIsQueue, Queue!QueueSpec
=============================================================================
