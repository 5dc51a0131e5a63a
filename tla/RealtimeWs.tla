------------------------------ MODULE RealtimeWs ------------------------------
(***************************************************************************)
(* The websocket client of the realtime agent, src/infer_realtime_ws.c,    *)
(* with the calls of src/onesdk_rt.c that send through it.                  *)
(*                                                                         *)
(* Application threads insert requests in a ring under a mutex; the service *)
(* thread (onesdk_rt_session_keepalive -> lws_service) runs                 *)
(* aigw_lws_callback and writes one request per WRITEABLE callback.         *)
(* ctx->connected and ctx->try_connect are read and written by both sides   *)
(* without the mutex, so aigw_ws_send_request takes one step per access.    *)
(*                                                                         *)
(* Every aigw_ws_connect makes a new wsi; they are numbered, and            *)
(* active_conn is the last one made.  libwebsockets and the network are     *)
(* external.  Using an active_conn that is not established is undefined in  *)
(* lws: here a write to it fails and a wake-up of it has no effect.         *)
(***************************************************************************)
EXTENDS Naturals, Sequences, Functions

CONSTANTS
  Threads,            \* application threads
  MaxCalls,           \* bound: number of onesdk_rt_* calls
  MaxConns,           \* bound: number of connection attempts
  MaxDrops,           \* bound: number of lost connections
  MaxFails,           \* bound: number of short lws_write calls
  RingSize,           \* elements the send ring holds (49 of the 50 slots)
  MaxReconnectTimes,  \* MAX_RECONNECT_TIMES (3)
  PingInterval,       \* config->ping_interval_s, 0 when send_ping is off
  AppWaits,           \* does the application wait for the first connection?
  MayFail             \* may malloc, or a connection attempt, fail?

ASSUME RealtimeAssumption ==
  /\ {MaxCalls, MaxConns, MaxDrops, MaxFails, MaxReconnectTimes, PingInterval} \subseteq Nat
  /\ RingSize \in Nat \ {0}
  /\ AppWaits \in BOOLEAN /\ MayFail \in BOOLEAN

VARIABLES
  \* aigw_ws_ctx_t
  connected, tryConnect, active, ring, pingCount,
  reconnects,   \* the static reconnect_times
  \* libwebsockets (external)
  conns,        \* state of each connection
  writable,     \* connections with a requested WRITEABLE callback
  timers,       \* connections with an armed timer
  wire,         \* requests written whole, in the order of the writes
  \* application threads
  pc, todo,     \* where a thread is, and the requests of its call still to send
  alive,
  \* bounds and history
  calls, drops, fails,
  queued,       \* every request lws_ring_insert took, in that order
  lost          \* requests a full ring refused although VOLC_OK was returned

ctxVars == <<connected, tryConnect, active, ring, pingCount, reconnects>>
lwsVars == <<conns, writable, timers, wire>>
appVars == <<pc, todo, alive>>
hisVars == <<calls, drops, fails, queued, lost>>
vars    == <<ctxVars, lwsVars, appVars, hisVars>>

-----------------------------------------------------------------------------
Conns     == 1 .. MaxConns
NoConn    == 0
ConnState == {"unused", "connecting", "up", "dead"}
Steps     == {"idle", "connected", "try", "connect", "clear", "insert", "wake", "poke"}

\* Mutant: the commit is sent before its audio.
ScriptsSwapped == { <<"update">>, <<"append">>, <<"commit", "append", "create">> }

\* The requests the API calls send, in their order: the single requests
\* (session.update, response.cancel, conversation_item.create), audio without
\* and with commit (response.create, or input_audio.done for a translation),
\* and a commit whose audio is empty and therefore not sent.
Scripts == { <<"update">>, <<"append">>, <<"append", "commit", "create">>,
             <<"commit", "create">> }
Request == [call : 1 .. MaxCalls, kind : {"update", "append", "commit", "create"}]

TypeOK ==
  /\ connected \in BOOLEAN /\ tryConnect \in BOOLEAN
  /\ active \in Conns \cup {NoConn}
  /\ ring \in Seq(Request) /\ Len(ring) <= RingSize
  /\ pingCount \in 0 .. PingInterval
  /\ reconnects \in 0 .. MaxReconnectTimes
  /\ conns \in [Conns -> ConnState]
  /\ writable \subseteq Conns /\ timers \subseteq Conns
  /\ wire \in Seq(Request) /\ queued \in Seq(Request)
  /\ pc \in [Threads -> Steps]
  /\ todo \in [Threads -> Seq(Request)]
  /\ \A t \in Threads : pc[t] # "idle" => todo[t] # <<>>
  /\ alive \in BOOLEAN
  /\ calls \in 0 .. MaxCalls /\ drops \in 0 .. MaxDrops /\ fails \in 0 .. MaxFails
  /\ lost \subseteq Request

\* aigw_ws_init: memset(ctx, 0) and an empty ring.
Init ==
  /\ connected = FALSE /\ tryConnect = FALSE /\ active = NoConn
  /\ ring = <<>> /\ pingCount = 0 /\ reconnects = 0
  /\ conns = [c \in Conns |-> "unused"]
  /\ writable = {} /\ timers = {} /\ wire = <<>>
  /\ pc = [t \in Threads |-> "idle"] /\ todo = [t \in Threads |-> <<>>]
  /\ alive = TRUE
  /\ calls = 0 /\ drops = 0 /\ fails = 0 /\ queued = <<>> /\ lost = {}

Live(c)  == conns[c] \in {"connecting", "up"}
Up(c)    == c # NoConn /\ conns[c] = "up"

\* lws_callback_on_writable(ctx->active_conn)
AskWritable == writable' = IF active # NoConn /\ Live(active) THEN writable \cup {active} ELSE writable

\* aigw_ws_connect, in a state where cs are the connections: a new wsi, or NULL
\* when lws_client_connect_via_info fails at once.
OpensIn(cs) ==
  \/ \E c \in Conns :
       /\ cs[c] = "unused" /\ \A d \in Conns : d < c => cs[d] # "unused"
       /\ conns' = [cs EXCEPT ![c] = "connecting"]
       /\ active' = c
  \/ MayFail /\ conns' = cs /\ active' = NoConn

-----------------------------------------------------------------------------
(* Application threads.                                                    *)

\* The first onesdk_connect.
Connect ==
  /\ alive /\ \A c \in Conns : conns[c] = "unused"
  /\ OpensIn(conns)
  /\ UNCHANGED <<connected, tryConnect, ring, pingCount, reconnects,
                 writable, timers, wire, appVars, hisVars>>

\* An onesdk_rt_* call begins with its first request.
Call(t, script) ==
  /\ alive /\ pc[t] = "idle" /\ calls < MaxCalls
  /\ AppWaits => connected \/ calls > 0
  /\ calls' = calls + 1
  /\ todo' = [todo EXCEPT ![t] = [i \in DOMAIN script |-> [call |-> calls + 1, kind |-> script[i]]]]
  /\ pc' = [pc EXCEPT ![t] = "connected"]
  /\ UNCHANGED <<ctxVars, lwsVars, alive, drops, fails, queued, lost>>

Goto(t, step) == pc' = [pc EXCEPT ![t] = step]

\* aigw_ws_send_request: !ctx->connected ...
ReadConnected(t) ==
  /\ pc[t] = "connected"
  /\ Goto(t, IF connected THEN "insert" ELSE "try")
  /\ UNCHANGED <<ctxVars, lwsVars, todo, alive, hisVars>>

\* ... && ctx->try_connect
ReadTryConnect(t) ==
  /\ pc[t] = "try"
  /\ Goto(t, IF tryConnect THEN "connect" ELSE "insert")
  /\ UNCHANGED <<ctxVars, lwsVars, todo, alive, hisVars>>

\* aigw_ws_connect(ctx), whose result is ignored
SendConnects(t) ==
  /\ pc[t] = "connect"
  /\ OpensIn(conns)
  /\ Goto(t, "clear")
  /\ UNCHANGED <<connected, tryConnect, ring, pingCount, reconnects,
                 writable, timers, wire, todo, alive, hisVars>>

\* ctx->try_connect = false, then sleep(1)
ClearTryConnect(t) ==
  /\ pc[t] = "clear"
  /\ tryConnect' = FALSE
  /\ Goto(t, "insert")
  /\ UNCHANGED <<connected, active, ring, pingCount, reconnects, lwsVars,
                 todo, alive, hisVars>>

\* lws_ring_insert
Inserted(r) == Append(ring, r)

\* The critical section: the copy enters the ring, or is destroyed when the ring
\* is full; VOLC_OK is returned either way.
Insert(t) ==
  /\ pc[t] = "insert"
  /\ LET r == Head(todo[t])
     IN IF Len(ring) < RingSize
        THEN ring' = Inserted(r) /\ queued' = Append(queued, r) /\ UNCHANGED lost
        ELSE lost' = lost \cup {r} /\ UNCHANGED <<ring, queued>>
  /\ Goto(t, "wake")
  /\ UNCHANGED <<connected, tryConnect, active, pingCount, reconnects, lwsVars,
                 todo, alive, calls, drops, fails>>

\* VOLC_ERR_MALLOC_FAILED: the call gives up, and with it its later requests.
InsertNoMemory(t) ==
  /\ pc[t] = "insert" /\ MayFail
  /\ Goto(t, "idle")
  /\ todo' = [todo EXCEPT ![t] = <<>>]
  /\ UNCHANGED <<ctxVars, lwsVars, alive, hisVars>>

\* Mutant: a request is sent again when the connection is lost after its insertion.
ProceedAgain(t) ==
  /\ todo' = [todo EXCEPT ![t] = IF connected THEN Tail(@) ELSE @]
  /\ Goto(t, IF ~connected \/ Len(todo[t]) > 1 THEN "connected" ELSE "idle")

\* The call goes on with its next request, or returns VOLC_OK.
Proceed(t) ==
  /\ todo' = [todo EXCEPT ![t] = Tail(@)]
  /\ Goto(t, IF Len(todo[t]) > 1 THEN "connected" ELSE "idle")

\* json_str is NULL when cJSON_PrintUnformatted has no memory: nothing is sent.
SendNothing(t) ==
  /\ pc[t] = "connected" /\ MayFail
  /\ Proceed(t)
  /\ UNCHANGED <<ctxVars, lwsVars, alive, hisVars>>

\* if (ctx->connected) ...
WakeRead(t) ==
  /\ pc[t] = "wake"
  /\ IF connected THEN Goto(t, "poke") /\ UNCHANGED todo ELSE Proceed(t)
  /\ UNCHANGED <<ctxVars, lwsVars, alive, hisVars>>

\* ... lws_callback_on_writable(ctx->active_conn)
WakePoke(t) ==
  /\ pc[t] = "poke"
  /\ AskWritable
  /\ Proceed(t)
  /\ UNCHANGED <<ctxVars, conns, timers, wire, alive, hisVars>>

\* aigw_ws_disconnect: lws_close_reason only stores a reason for a later close,
\* and nothing the callbacks read changes.
Disconnect == alive /\ connected /\ UNCHANGED vars

\* aigw_ws_deinit, when no thread is inside the API any more.
Deinit ==
  /\ alive /\ \A t \in Threads : pc[t] = "idle"
  /\ alive' = FALSE
  /\ connected' = FALSE
  /\ conns' = [c \in Conns |-> "dead"] /\ writable' = {} /\ timers' = {}
  /\ ring' = <<>>
  /\ UNCHANGED <<tryConnect, active, pingCount, reconnects, wire, pc, todo, hisVars>>

-----------------------------------------------------------------------------
(* aigw_lws_callback, on the service thread.                               *)

\* CLIENT_ESTABLISHED
Established(c) ==
  /\ conns[c] = "connecting"
  /\ conns' = [conns EXCEPT ![c] = "up"]
  /\ connected' = TRUE /\ tryConnect' = TRUE
  /\ AskWritable
  /\ timers' = timers \cup {c}
  /\ pingCount' = 0 /\ reconnects' = 0
  /\ UNCHANGED <<active, ring, wire, appVars, hisVars>>

\* CLIENT_CONNECTION_ERROR: another attempt while the budget lasts.
ConnectionError(c) ==
  /\ conns[c] = "connecting" /\ MayFail
  /\ writable' = writable \ {c}
  /\ connected' = FALSE
  /\ IF reconnects < MaxReconnectTimes
     THEN reconnects' = reconnects + 1 /\ OpensIn([conns EXCEPT ![c] = "dead"])
     ELSE conns' = [conns EXCEPT ![c] = "dead"] /\ UNCHANGED <<reconnects, active>>
  /\ UNCHANGED <<tryConnect, ring, pingCount, timers, wire, appVars, hisVars>>

\* Mutant: connected survives the close.
ClosedStaysConnected(c) ==
  /\ conns[c] = "up" /\ drops < MaxDrops /\ drops' = drops + 1
  /\ conns' = [conns EXCEPT ![c] = "dead"]
  /\ writable' = writable \ {c} /\ timers' = timers \ {c}
  /\ UNCHANGED <<connected, tryConnect, active, ring, pingCount, reconnects, wire, appVars,
                 calls, fails, queued, lost>>

\* CLIENT_CLOSED and CLOSED: the peer or the network ended the connection.
\* Nothing reconnects before the next request.
Closed(c) ==
  /\ conns[c] = "up" /\ drops < MaxDrops /\ drops' = drops + 1
  /\ conns' = [conns EXCEPT ![c] = "dead"]
  /\ connected' = FALSE
  /\ writable' = writable \ {c} /\ timers' = timers \ {c}
  /\ UNCHANGED <<tryConnect, active, ring, pingCount, reconnects, wire, appVars,
                 calls, fails, queued, lost>>

\* The callback returns -1: before it reports anything else, lws closes this
\* connection and runs the CLIENT_CLOSED case for it.
ReturnsError(c) ==
  /\ conns' = [conns EXCEPT ![c] = "dead"]
  /\ connected' = FALSE
  /\ writable' = writable \ {c} /\ timers' = timers \ {c}

\* CLIENT_WRITEABLE while ctx->connected is false
WriteableUnconnected(c) ==
  /\ Up(c) /\ c \in writable /\ ~connected
  /\ ReturnsError(c)
  /\ UNCHANGED <<tryConnect, active, ring, pingCount, reconnects, wire, appVars, hisVars>>

\* CLIENT_WRITEABLE with an empty ring
WriteableEmpty(c) ==
  /\ Up(c) /\ c \in writable /\ connected /\ ring = <<>>
  /\ writable' = writable \ {c}
  /\ UNCHANGED <<ctxVars, conns, timers, wire, appVars, hisVars>>

\* Mutant: the element is consumed before it is written whole.
WriteableFailsConsumes(c) ==
  /\ Up(c) /\ c \in writable /\ connected /\ ring # <<>>
  /\ \/ Up(active) /\ fails < MaxFails /\ fails' = fails + 1
     \/ ~Up(active) /\ UNCHANGED fails
  /\ ring' = Tail(ring)
  /\ ReturnsError(c)
  /\ UNCHANGED <<tryConnect, active, pingCount, reconnects, wire, appVars,
                 calls, drops, queued, lost>>

\* CLIENT_WRITEABLE when lws_write writes less than the request: the element
\* stays at the tail and is written again on a later connection.
WriteableFails(c) ==
  /\ Up(c) /\ c \in writable /\ connected /\ ring # <<>>
  /\ \/ Up(active) /\ fails < MaxFails /\ fails' = fails + 1
     \/ ~Up(active) /\ UNCHANGED fails
  /\ ReturnsError(c)
  /\ UNCHANGED <<tryConnect, active, ring, pingCount, reconnects, wire, appVars,
                 calls, drops, queued, lost>>

\* CLIENT_WRITEABLE: one request is written to active_conn and consumed.
WriteableSends(c) ==
  /\ Up(c) /\ c \in writable /\ connected /\ ring # <<>> /\ Up(active)
  /\ wire' = Append(wire, Head(ring))
  /\ ring' = Tail(ring)
  /\ writable' = (writable \ {c}) \cup (IF Len(ring) > 1 THEN {active} ELSE {})
  /\ UNCHANGED <<connected, tryConnect, active, pingCount, reconnects, conns, timers,
                 appVars, hisVars>>

\* CALLBACK_TIMER, every second while connected: a ping when its time has come,
\* and a WRITEABLE callback when requests wait.
Timer(c) ==
  /\ Up(c) /\ c \in timers
  /\ IF connected
     THEN /\ UNCHANGED timers
          /\ pingCount' = IF PingInterval = 0 \/ pingCount = PingInterval THEN 0 ELSE pingCount + 1
          /\ IF ring # <<>> THEN AskWritable ELSE UNCHANGED writable
     ELSE /\ timers' = timers \ {c}
          /\ UNCHANGED <<pingCount, writable>>
  /\ UNCHANGED <<connected, tryConnect, active, ring, reconnects, conns, wire, appVars, hisVars>>

-----------------------------------------------------------------------------
ThreadStep(t) ==
  \/ ReadConnected(t) \/ ReadTryConnect(t) \/ SendConnects(t) \/ ClearTryConnect(t)
  \/ Insert(t) \/ InsertNoMemory(t) \/ SendNothing(t) \/ WakeRead(t) \/ WakePoke(t)

Writeable(c) ==
  \/ WriteableUnconnected(c) \/ WriteableEmpty(c) \/ WriteableFails(c) \/ WriteableSends(c)

Service(c) ==
  \/ Established(c) \/ ConnectionError(c) \/ Closed(c) \/ Writeable(c) \/ Timer(c)

Next ==
  \/ Connect \/ Disconnect \/ Deinit
  \/ \E t \in Threads : ThreadStep(t) \/ \E s \in Scripts : Call(t, s)
  \/ \E c \in Conns : Service(c)

Spec == Init /\ [][Next]_vars

\* onesdk_rt_session_keepalive calls lws_service in a loop, so each connection
\* gets its callbacks; a thread finishes the call it is in; the application
\* connects.  Nothing obliges it to call, or a connection to break.
Fairness ==
  /\ WF_vars(Connect)
  /\ \A t \in Threads : WF_vars(ThreadStep(t))
  /\ \A c \in Conns : WF_vars(Established(c)) /\ WF_vars(Writeable(c)) /\ WF_vars(Timer(c))

FairSpec == Spec /\ Fairness

-----------------------------------------------------------------------------
(* Properties.                                                             *)

\* The ring is a lossless FIFO between the threads and the wire: the requests
\* written whole, followed by the ones in the ring, are exactly the requests
\* lws_ring_insert took, in that order - across short writes, connections that
\* break and connections that overlap.  So nothing is written twice, skipped
\* or overtaken.
FifoExactlyOnce == alive => wire \o ring = queued

\* onesdk_rt_audio_send with commit: the audio of a call never follows the
\* commit it belongs to, whatever other threads send in between and whatever
\* the ring refuses.
CommitAfterAudio ==
  \A i, j \in DOMAIN wire :
    i < j /\ wire[i].kind = "commit" /\ wire[j].call = wire[i].call => wire[j].kind # "append"

\* The ring, the flags, the connections and the threads together are a queue of
\* SendQueue: requests are taken once, in the order of their calls, and written
\* once, in the order in which they were taken.
Queue == INSTANCE SendQueue WITH
           Requests <- Request, Room <- RingSize, open <- alive, accepted <- queued, written <- wire
RealtimeIsQueue == Queue!QueueSpec

\* infer_realtime_ws.h says of aigw_ws_send_request that it returns VOLC_OK on
\* success and VOLC_ERR_SEND_QUEUE_FULL when the queue is full: no request
\* reported with VOLC_OK is thrown away.
AcceptedNotLost == lost = {}

\* A request whose send begins after the last lost connection is written (or
\* refused by a full ring): the send itself reconnects, and ESTABLISHED and the
\* timer drain the ring.
RequestEventuallyWritten ==
  \A r \in Request :
    (drops = MaxDrops /\ \E t \in Threads : pc[t] = "connected" /\ Head(todo[t]) = r)
      ~> (r \in Range(wire) \/ r \in lost \/ ~alive)
=============================================================================
