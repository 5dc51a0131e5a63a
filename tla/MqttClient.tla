------------------------------ MODULE MqttClient ------------------------------
(***************************************************************************)
(* The MQTT client of the IoT side of the SDK, src/iot/iot_mqtt.c.          *)
(*                                                                         *)
(* Application threads call iot_mqtt_publish and iot_mqtt_subscribe, which  *)
(* append to two mutex protected lists of the context.  One service thread *)
(* (onesdk_iot_keepalive -> lws_service) runs callback_mqtt for every event *)
(* libwebsockets reports and drains the lists when the socket is writable. *)
(*                                                                         *)
(* A callback is one action: callback_mqtt runs to its end on the service  *)
(* thread, and everything it shares with the application threads it        *)
(* touches inside one critical section.  An API call of an application     *)
(* thread is split where the code releases the lock or reads shared state  *)
(* without it.  libwebsockets, the TCP link and the broker are external:   *)
(* they are modelled from how callback_mqtt uses them.                     *)
(*                                                                         *)
(* Messages are numbered in the order in which iot_mqtt_publish accepted    *)
(* them.  pending_pub_list only ever appends at its end and compacts in     *)
(* place, so it is the set of its entries, in the order of their numbers.  *)
(***************************************************************************)
EXTENDS Naturals, Sequences, FiniteSets, Functions

CONSTANTS
  Threads,        \* application threads that call the API
  Topics,         \* topic filters the application may subscribe to
  MaxMsgs,        \* bound: number of accepted publishes
  MaxSubs,        \* bound: number of iot_mqtt_subscribe calls
  MaxDrops,       \* bound: number of lost links and failed connection attempts
  MaxSendFails,   \* bound: number of failing lws_mqtt_client_send_* calls
  SubBatch,       \* topics in one SUBSCRIBE packet (7 in the code)
  PubLimit,       \* pending_pub_list->count above which a publish is refused (10)
  AutoReconnect,  \* config->auto_reconnect
  AppReconnect,   \* does the application reopen a dead link with
                  \* iot_mqtt_reconnect (TRUE) or with onesdk_connect (FALSE)?
  AllocMayFail    \* may malloc, strdup and realloc return NULL?

ASSUME ConstantsAssumption ==
  /\ MaxMsgs \in Nat /\ MaxSubs \in Nat /\ MaxDrops \in Nat /\ MaxSendFails \in Nat
  /\ SubBatch \in Nat \ {0}
  /\ PubLimit \in Nat
  /\ AutoReconnect \in BOOLEAN /\ AppReconnect \in BOOLEAN
  /\ AllocMayFail \in BOOLEAN
  /\ IsFiniteSet(Topics) /\ "no_topic" \notin Topics

VARIABLES
  \* iot_mqtt_ctx_t
  isConnected,    \* is_connected
  pendSub,        \* pending_sub_list: topics not yet sent in a SUBSCRIBE
  subs,           \* sub_topic_maps: topics with a registered handler
  pendPub,        \* entries of pending_pub_list with their sent_list flags
  waitSuback,     \* waiting_for_suback
  waitPuback,     \* waiting_for_puback
  \* libwebsockets (external)
  link,           \* the client connection behind ctx->wsi
  writable,       \* a WRITEABLE callback has been requested
  timer,          \* the wsi timer is armed
  wire,           \* set of packets on their way to the broker
  back,           \* set of acknowledgements on their way to the client
  \* broker (external)
  bsubs,          \* filters of the broker's session
  received,       \* messages the broker has taken
  \* application threads
  pc,             \* where each thread is in its API call
  arg,            \* the topic of a subscribe in progress
  alive,          \* FALSE after iot_mqtt_deinit
  discReq,        \* iot_mqtt_disconnect has been called
  \* bounds and history
  nextId, nsubs, drops, fails,
  tx              \* how often each message has been handed to lws

ctxVars  == <<isConnected, pendSub, subs, pendPub, waitSuback, waitPuback>>
lwsVars  == <<link, writable, timer, wire, back>>
brkVars  == <<bsubs, received>>
appVars  == <<pc, arg, alive, discReq>>
cntVars  == <<nextId, nsubs, drops, fails>>
vars     == <<ctxVars, lwsVars, brkVars, appVars, cntVars, tx>>

-----------------------------------------------------------------------------
Ids     == 1 .. MaxMsgs
QoS     == {0, 1}        \* iot_mqtt_qos_t has no QoS 2
Links   == {"none", "connecting", "up"}
Steps   == {"idle", "pubCheck", "pubWake", "subAppend"}

\* One element of publish_params together with its sent_list flag.
PubEntry == [id : Ids, qos : QoS, sent : BOOLEAN]

\* Packets from client to broker, and acknowledgements back.
PubPacket == [type : {"PUBLISH"}, id : Ids, qos : QoS]
SubPacket == [type : {"SUBSCRIBE"}, topics : SUBSET Topics]
PubAck    == [type : {"PUBACK"}, id : Ids]
SubAck    == [type : {"SUBACK"}, topics : SUBSET Topics]

NoTopic == "no_topic"

TypeOK ==
  /\ isConnected \in BOOLEAN /\ waitSuback \in BOOLEAN /\ waitPuback \in BOOLEAN
  /\ pendSub \in Seq(Topics)
  /\ subs \subseteq Topics
  /\ pendPub \in SUBSET PubEntry
  /\ link \in Links
  /\ writable \in BOOLEAN /\ timer \in BOOLEAN
  /\ wire \in SUBSET (PubPacket \cup SubPacket)
  /\ back \in SUBSET (PubAck \cup SubAck)
  /\ bsubs \subseteq Topics
  /\ received \subseteq Ids
  /\ pc \in [Threads -> Steps]
  /\ arg \in [Threads -> Topics \cup {NoTopic}]
  /\ \A t \in Threads : pc[t] = "subAppend" => arg[t] \in Topics
  /\ alive \in BOOLEAN /\ discReq \in BOOLEAN
  /\ nextId \in 1 .. MaxMsgs + 1
  /\ nsubs \in 0 .. MaxSubs /\ drops \in 0 .. MaxDrops /\ fails \in 0 .. MaxSendFails
  /\ tx \in [Ids -> Nat]

\* iot_mqtt_init: memset(ctx, 0) and no connection yet.
Init ==
  /\ isConnected = FALSE /\ waitSuback = FALSE /\ waitPuback = FALSE
  /\ pendSub = <<>> /\ subs = {} /\ pendPub = {}
  /\ link = "none" /\ writable = FALSE /\ timer = FALSE
  /\ wire = {} /\ back = {}
  /\ bsubs = {} /\ received = {}
  /\ pc = [t \in Threads |-> "idle"] /\ arg = [t \in Threads |-> NoTopic]
  /\ alive = TRUE /\ discReq = FALSE
  /\ nextId = 1 /\ nsubs = 0 /\ drops = 0 /\ fails = 0
  /\ tx = [m \in Ids |-> 0]

-----------------------------------------------------------------------------
(* Helpers.                                                                *)

\* Sent messages that still wait for an acknowledgement.
Unacked(q) == {e \in q : e.sent /\ e.qos # 0}

\* The entry that comes first in the list.
First(q) == CHOOSE e \in q : \A f \in q : e.id <= f.id

\* The order in which iot_mqtt_reconnect walks sub_topic_maps does not matter
\* for what is re-subscribed, so any order of the topics is allowed.
Orders(S) == {q \in [1 .. Cardinality(S) -> S] : Range(q) = S}

\* The topics that append_sub_topic manages to copy for a re-subscription.
Copied(S) == IF AllocMayFail THEN SUBSET S ELSE {S}

-----------------------------------------------------------------------------
(* Application threads.                                                    *)

\* iot_mqtt_connect, called by onesdk_connect: the first connection, or a later
\* one the application opens itself.  Nothing is subscribed again.  When
\* lws_client_connect_via_info returns NULL nothing changes.
Connect ==
  /\ alive /\ link = "none"
  /\ drops = 0 \/ ~AppReconnect
  /\ link' = "connecting"
  /\ UNCHANGED <<ctxVars, writable, timer, wire, back, brkVars, appVars, cntVars, tx>>

\* iot_mqtt_reconnect once the link is gone and the client gave up: connect,
\* then append every topic of sub_topic_maps to the pending list again.
Reconnect ==
  /\ alive /\ link = "none" /\ drops > 0 /\ AppReconnect
  /\ link' = "connecting"
  /\ \E S \in Copied(subs) : \E q \in Orders(S) : pendSub' = pendSub \o q
  /\ UNCHANGED <<isConnected, subs, pendPub, waitSuback, waitPuback,
                 writable, timer, wire, back, brkVars, appVars, cntVars, tx>>

\* iot_mqtt_disconnect only wakes the service loop.
Disconnect ==
  /\ alive /\ ~discReq
  /\ discReq' = TRUE
  /\ UNCHANGED <<ctxVars, lwsVars, brkVars, pc, arg, alive, cntVars, tx>>

\* iot_mqtt_publish up to the unlock: append, or refuse above the limit.
PublishAppend(t, qos) ==
  /\ alive /\ pc[t] = "idle"
  /\ nextId <= MaxMsgs
  /\ Cardinality(pendPub) <= PubLimit
  /\ pendPub' = pendPub \cup {[id |-> nextId, qos |-> qos, sent |-> FALSE]}
  /\ nextId' = nextId + 1
  /\ pc' = [pc EXCEPT ![t] = "pubCheck"]
  /\ UNCHANGED <<isConnected, pendSub, subs, waitSuback, waitPuback, lwsVars, brkVars,
                 arg, alive, discReq, nsubs, drops, fails, tx>>

\* VOLC_ERR_MQTT_PUB or VOLC_ERR_MALLOC: the message is freed, and the wake-up
\* after finish_with_free still runs.  A publish that runs out of memory before
\* it takes the lock changes nothing.
PublishRefuse(t) ==
  /\ alive /\ pc[t] = "idle"
  /\ Cardinality(pendPub) > PubLimit \/ AllocMayFail
  /\ pc' = [pc EXCEPT ![t] = "pubCheck"]
  /\ UNCHANGED <<ctxVars, lwsVars, brkVars, arg, alive, discReq, cntVars, tx>>

\* After the unlock: read is_connected ...
PublishCheck(t) ==
  /\ pc[t] = "pubCheck"
  /\ pc' = [pc EXCEPT ![t] = IF isConnected THEN "pubWake" ELSE "idle"]
  /\ UNCHANGED <<ctxVars, lwsVars, brkVars, arg, alive, discReq, cntVars, tx>>

\* ... and call lws_callback_on_writable(ctx->wsi).
PublishWake(t) ==
  /\ pc[t] = "pubWake"
  /\ writable' = (link # "none" \/ writable)
  /\ pc' = [pc EXCEPT ![t] = "idle"]
  /\ UNCHANGED <<ctxVars, link, timer, wire, back, brkVars, arg, alive, discReq, cntVars, tx>>

\* Mutant: the topic of the call is not copied.
SubscribeCheckNoCopy(t, topic) ==
  /\ alive /\ pc[t] = "idle" /\ nsubs < MaxSubs
  /\ nsubs' = nsubs + 1
  /\ pc' = [pc EXCEPT ![t] = IF topic \in subs THEN "idle" ELSE "subAppend"]
  /\ UNCHANGED <<ctxVars, lwsVars, brkVars, arg, alive, discReq, nextId, drops, fails, tx>>

\* iot_mqtt_subscribe: the unlocked search of sub_topic_maps; a topic that is
\* found there needs nothing more.
SubscribeCheck(t, topic) ==
  /\ alive /\ pc[t] = "idle" /\ nsubs < MaxSubs
  /\ nsubs' = nsubs + 1
  /\ IF topic \in subs
     THEN UNCHANGED <<pc, arg>>
     ELSE /\ pc' = [pc EXCEPT ![t] = "subAppend"]
          /\ arg' = [arg EXCEPT ![t] = topic]
  /\ UNCHANGED <<ctxVars, lwsVars, brkVars, alive, discReq, nextId, drops, fails, tx>>

\* _iot_mqtt_append_sub_topic, which returns nothing when memory is short.
SubscribeAppend(t) ==
  /\ pc[t] = "subAppend"
  /\ \/ pendSub' = Append(pendSub, arg[t])
     \/ AllocMayFail /\ UNCHANGED pendSub
  /\ pc' = [pc EXCEPT ![t] = "idle"]
  /\ arg' = [arg EXCEPT ![t] = NoTopic]
  /\ UNCHANGED <<isConnected, subs, pendPub, waitSuback, waitPuback, lwsVars, brkVars,
                 alive, discReq, cntVars, tx>>

\* iot_mqtt_deinit, when no thread is inside the API any more.
Deinit ==
  /\ alive /\ \A t \in Threads : pc[t] = "idle"
  /\ alive' = FALSE
  /\ isConnected' = FALSE
  /\ link' = "none" /\ writable' = FALSE /\ timer' = FALSE
  /\ wire' = {} /\ back' = {} /\ bsubs' = {}
  /\ subs' = {} /\ pendSub' = <<>> /\ pendPub' = {}
  /\ UNCHANGED <<waitSuback, waitPuback, received, pc, arg, discReq, cntVars, tx>>

-----------------------------------------------------------------------------
(* callback_mqtt, on the service thread.                                   *)

\* Mutant: waiting_for_puback survives the reconnect.
EstablishedStaleFlag ==
  /\ link = "connecting"
  /\ link' = "up" /\ isConnected' = TRUE
  /\ waitSuback' = FALSE
  /\ writable' = TRUE /\ timer' = TRUE
  /\ bsubs' = {}
  /\ UNCHANGED <<waitPuback, pendSub, subs, pendPub, wire, back, received, appVars, cntVars, tx>>

\* MQTT_CLIENT_ESTABLISHED.  clean_start: the broker begins an empty session.
Established ==
  /\ link = "connecting"
  /\ link' = "up" /\ isConnected' = TRUE
  /\ waitPuback' = FALSE /\ waitSuback' = FALSE
  /\ writable' = TRUE /\ timer' = TRUE
  /\ bsubs' = {}
  /\ UNCHANGED <<pendSub, subs, pendPub, wire, back, received, appVars, cntVars, tx>>

\* CLIENT_CONNECTION_ERROR: no further attempt is made.
ConnectionError ==
  /\ link = "connecting" /\ drops < MaxDrops
  /\ drops' = drops + 1
  /\ link' = "none" /\ isConnected' = FALSE /\ writable' = FALSE
  /\ UNCHANGED <<pendSub, subs, pendPub, waitSuback, waitPuback, timer, wire, back,
                 brkVars, appVars, nextId, nsubs, fails, tx>>

\* Mutant: the reconnect does not append the topics again.
ClosedForgets ==
  /\ link = "up" /\ drops < MaxDrops
  /\ drops' = drops + 1
  /\ isConnected' = FALSE
  /\ writable' = FALSE /\ timer' = FALSE /\ wire' = {} /\ back' = {}
  /\ link' \in IF AutoReconnect THEN {"connecting", "none"} ELSE {"none"}
  /\ UNCHANGED <<pendSub, subs, pendPub, waitSuback, waitPuback, brkVars, appVars,
                 nextId, nsubs, fails, tx>>

\* MQTT_CLIENT_CLOSED: packets in flight are lost.  With auto_reconnect the
\* callback runs iot_mqtt_reconnect, whose connect may fail at once.  lws also
\* closes the link when WRITEABLE returns VOLC_ERR_MALLOC, having sent nothing.
Closed ==
  /\ link = "up" /\ drops < MaxDrops
  /\ drops' = drops + 1
  /\ isConnected' = FALSE
  /\ writable' = FALSE /\ timer' = FALSE /\ wire' = {} /\ back' = {}
  /\ \/ /\ AutoReconnect
        /\ link' = "connecting"
        /\ \E S \in Copied(subs) : \E q \in Orders(S) : pendSub' = pendSub \o q
     \/ /\ link' = "none"
        /\ UNCHANGED pendSub
  /\ UNCHANGED <<subs, pendPub, waitSuback, waitPuback, brkVars, appVars,
                 nextId, nsubs, fails, tx>>

\* MQTT_SUBSCRIBED
Subscribed ==
  /\ link = "up"
  /\ \E a \in back : a.type = "SUBACK" /\ back' = back \ {a}
  /\ waitSuback' = FALSE
  /\ writable' = (writable \/ pendSub # <<>> \/ pendPub # {})
  /\ UNCHANGED <<isConnected, pendSub, subs, pendPub, waitPuback, link, timer, wire,
                 brkVars, appVars, cntVars, tx>>

\* The size of the next SUBSCRIBE packet and what it holds.
BatchLen == IF Len(pendSub) > SubBatch THEN SubBatch ELSE Len(pendSub)
Batch    == {pendSub[i] : i \in 1 .. BatchLen}

\* MQTT_CLIENT_WRITEABLE while a SUBACK is awaited: nothing is sent.
WriteableWaiting ==
  /\ link = "up" /\ writable /\ waitSuback
  /\ writable' = FALSE
  /\ UNCHANGED <<ctxVars, link, timer, wire, back, brkVars, appVars, cntVars, tx>>

\* MQTT_CLIENT_WRITEABLE with pending subscriptions: one SUBSCRIBE packet is
\* sent, its topics move to sub_topic_maps (a topic already there is dropped),
\* and the callback returns without looking at the publishes.
WriteableSubscribe ==
  /\ link = "up" /\ writable /\ ~waitSuback /\ pendSub # <<>>
  /\ wire' = wire \cup {[type |-> "SUBSCRIBE", topics |-> Batch]}
  /\ waitSuback' = TRUE
  /\ \E S \in Copied(Batch \ subs) : subs' = subs \cup S
  /\ pendSub' = SubSeq(pendSub, BatchLen + 1, Len(pendSub))
  /\ writable' = (BatchLen < Len(pendSub))
  /\ UNCHANGED <<isConnected, pendPub, waitPuback, link, timer, back, brkVars, appVars,
                 cntVars, tx>>

\* lws_mqtt_client_send_subcribe fails: everything stays, nothing is requested.
WriteableSubscribeFails ==
  /\ link = "up" /\ writable /\ ~waitSuback /\ pendSub # <<>> /\ fails < MaxSendFails
  /\ fails' = fails + 1
  /\ writable' = FALSE
  /\ UNCHANGED <<ctxVars, link, timer, wire, back, brkVars, appVars,
                 nextId, nsubs, drops, tx>>

\* Mutants: the loop ignores sent_list; it does not stop after a QoS1 message;
\* it runs from the end of the list.
AllEntries(q)          == q
ReachedNoBreak(q, F)   == {e \in q : ~e.sent}
ReachedBackwards(q, F) ==
  {e \in q : ~e.sent /\ \A s \in {f \in q \ F : ~f.sent /\ f.qos = 1} : e.id >= s.id}

\* The publish loop skips what was sent, sends QoS0 messages as it meets them
\* and stops after the first QoS1 message; F holds the messages whose send
\* fails, which the loop passes over.
Unsent(q)      == {e \in q : ~e.sent}
Stops(q, F)    == {e \in Unsent(q) \ F : e.qos = 1}
Reached(q, F)  == {e \in Unsent(q) : \A s \in Stops(q, F) : e.id <= s.id}
SendSet(q, F)  == Reached(q, F) \ F

\* sent_list is set for what was sent; the compaction then frees sent QoS0
\* messages and keeps unsent messages and the QoS1 message in flight.
Marked(q, S)   == {IF e \in S THEN [e EXCEPT !.sent = TRUE] ELSE e : e \in q}
Compact(q)     == {e \in q : ~(e.sent /\ e.qos = 0)}

Publish(e)     == [type |-> "PUBLISH", id |-> e.id, qos |-> e.qos]

\* MQTT_CLIENT_WRITEABLE with no pending subscription: the publish loop, the
\* PUBLISH packets, and the compaction of the list.
WriteablePublish ==
  /\ link = "up" /\ writable /\ ~waitSuback /\ pendSub = <<>> /\ ~waitPuback
  /\ \E F \in SUBSET Unsent(pendPub) :
       LET S == SendSet(pendPub, F)
       IN /\ F \subseteq Reached(pendPub, F)
          /\ fails + Cardinality(F) <= MaxSendFails
          /\ fails' = fails + Cardinality(F)
          /\ waitPuback' = (\E e \in S : e.qos = 1)
          /\ pendPub' = Compact(Marked(pendPub, S))
          /\ wire' = wire \cup {Publish(e) : e \in S}
          /\ tx' = [m \in Ids |-> IF \E e \in S : e.id = m THEN tx[m] + 1 ELSE tx[m]]
  /\ writable' = FALSE
  /\ UNCHANGED <<isConnected, pendSub, subs, waitSuback, link, timer, back, brkVars,
                 appVars, nextId, nsubs, drops>>

\* The same callback while a PUBACK is awaited: the loop is skipped.
WriteableUnacked ==
  /\ link = "up" /\ writable /\ ~waitSuback /\ pendSub = <<>> /\ waitPuback
  /\ writable' = FALSE
  /\ UNCHANGED <<ctxVars, link, timer, wire, back, brkVars, appVars, cntVars, tx>>

\* Mutant: the head of the list is removed, sent or not.
AfterAckHead(q) == IF Unacked(q) = {} THEN q ELSE q \ {First(q)}

\* The list after a PUBACK: the first sent QoS1 message leaves it.
AfterAck(q) == IF Unacked(q) = {} THEN q ELSE q \ {First(Unacked(q))}

\* MQTT_ACK
Ack ==
  /\ link = "up"
  /\ \E a \in back : a.type = "PUBACK" /\ back' = back \ {a}
  /\ waitPuback' = FALSE
  /\ pendPub' = IF waitPuback THEN AfterAck(pendPub) ELSE pendPub
  /\ writable' = TRUE
  /\ UNCHANGED <<isConnected, pendSub, subs, waitSuback, link, timer, wire, brkVars,
                 appVars, cntVars, tx>>

\* MQTT_RESEND and MQTT_CLIENT_RX ask for a WRITEABLE callback and keep the
\* lists: lws reports RESEND for a PUBLISH whose PUBACK is late, RX for a
\* message on a subscribed topic.
Resend ==
  /\ link = "up" /\ waitPuback
  /\ writable' = TRUE
  /\ UNCHANGED <<ctxVars, link, timer, wire, back, brkVars, appVars, cntVars, tx>>

Receive ==
  /\ link = "up" /\ bsubs # {}
  /\ writable' = TRUE
  /\ UNCHANGED <<ctxVars, link, timer, wire, back, brkVars, appVars, cntVars, tx>>

\* Mutant: the timer is not armed again.
TimerOnce ==
  /\ link = "up" /\ timer
  /\ timer' = FALSE
  /\ writable' = (writable \/ isConnected)
  /\ UNCHANGED <<ctxVars, link, wire, back, brkVars, appVars, cntVars, tx>>

\* CALLBACK_TIMER every ping_interval: re-arm and ask for WRITEABLE.
Timer ==
  /\ link = "up" /\ timer
  /\ timer' = isConnected
  /\ writable' = (writable \/ isConnected)
  /\ UNCHANGED <<ctxVars, link, wire, back, brkVars, appVars, cntVars, tx>>

-----------------------------------------------------------------------------
(* The broker (external): it takes a packet and acknowledges it.           *)
BrokerTakes ==
  /\ link = "up"
  /\ \E p \in wire :
       /\ wire' = wire \ {p}
       /\ \/ /\ p.type = "SUBSCRIBE"
             /\ bsubs' = bsubs \cup p.topics
             /\ back' = back \cup {[type |-> "SUBACK", topics |-> p.topics]}
             /\ UNCHANGED received
          \/ /\ p.type = "PUBLISH"
             /\ received' = received \cup {p.id}
             /\ back' = IF p.qos = 1 THEN back \cup {[type |-> "PUBACK", id |-> p.id]} ELSE back
             /\ UNCHANGED bsubs
  /\ UNCHANGED <<ctxVars, link, writable, timer, appVars, cntVars, tx>>

App(t) ==
  \/ \E q \in QoS : PublishAppend(t, q)
  \/ PublishRefuse(t) \/ PublishCheck(t) \/ PublishWake(t)
  \/ \E x \in Topics : SubscribeCheck(t, x)
  \/ SubscribeAppend(t)

Writeable ==
  \/ WriteableWaiting \/ WriteableSubscribe \/ WriteableSubscribeFails
  \/ WriteablePublish \/ WriteableUnacked

Service ==
  \/ Established \/ ConnectionError \/ Closed \/ Subscribed \/ Writeable
  \/ Ack \/ Resend \/ Receive \/ Timer

Next ==
  \/ Connect \/ Reconnect \/ Disconnect \/ Deinit
  \/ \E t \in Threads : App(t)
  \/ Service \/ BrokerTakes

Spec == Init /\ [][Next]_vars

\* The service thread never stops calling lws_service (onesdk_iot_keepalive),
\* so every callback lws has to deliver is delivered; an application thread
\* finishes the API call it is in; the broker answers on a link that is up;
\* the application opens the connection.  Nothing obliges the application to
\* publish or subscribe, nor the link to break.
Fairness ==
  /\ WF_vars(Connect) /\ WF_vars(Reconnect)
  /\ WF_vars(Established) /\ WF_vars(Subscribed) /\ WF_vars(Ack)
  /\ WF_vars(Writeable) /\ WF_vars(Timer) /\ WF_vars(BrokerTakes)
  /\ \A t \in Threads : WF_vars(PublishCheck(t) \/ PublishWake(t) \/ SubscribeAppend(t))

FairSpec == Spec /\ Fairness

-----------------------------------------------------------------------------
(* Properties.                                                             *)

IdsOf(q) == {e.id : e \in q}

\* Acknowledged publishing is serialised: among the QoS1 PUBLISH packets on the
\* wire and the PUBACKs on the way back there is at most one, and while there is
\* one waiting_for_puback is set, across any interleaving of publishes,
\* reconnects and subscriptions (lws tracks one unacked publish per connection).
InFlight == {p \in wire : p.type = "PUBLISH" /\ p.qos = 1} \cup {a \in back : a.type = "PUBACK"}
OnePublishInFlight ==
  /\ \A p, q \in InFlight : p = q
  /\ InFlight # {} => waitPuback

\* No accepted message is lost inside the client: until iot_mqtt_deinit each
\* one is in pending_pub_list or has been handed to lws, whatever the
\* compactions after sends and PUBACKs moved or removed.
AcceptedPendingOrSent ==
  alive => \A m \in 1 .. nextId - 1 : m \in IdsOf(pendPub) \/ tx[m] > 0

\* sent_list protects against a second transmission: no message is handed to
\* lws twice, not even by the WRITEABLE callbacks after a reconnect.
NoDuplicateSend == \A m \in Ids : tx[m] <= 1

\* As long as no send failed, the messages of all threads leave in the order in
\* which iot_mqtt_publish accepted them, although a QoS1 message stops the
\* loop and subscriptions overtake publishes: nothing unsent is older than
\* something sent.
SentInAcceptOrder ==
  fails = 0 => \A e \in Unsent(pendPub), m \in Ids : tx[m] > 0 => m < e.id

\* A topic with a registered handler is never silently without subscription:
\* when the connection is up and no SUBSCRIBE is pending or on the wire, the
\* broker's (clean start) session holds every topic of sub_topic_maps, also
\* after any number of reconnects.  (A link the application reopens with
\* onesdk_connect is left without them: only iot_mqtt_reconnect appends again.)
HandlersSubscribed ==
  ~AllocMayFail /\ AppReconnect /\ link = "up" /\ pendSub = <<>> /\ wire = {}
    => subs \subseteq bsubs

\* The comment in the MQTT_ACK case says "Find and remove the acknowledged QoS1
\* message": the message that leaves the list is the one the broker acknowledged.
AckStep(a) == link' = "up" /\ a.type = "PUBACK" /\ back' = back \ {a}
RemovesAcked(a) == IdsOf(pendPub) \ IdsOf(pendPub') = {a.id}
AckRemovesAcknowledged == [][\A a \in back : AckStep(a) => RemovesAcked(a)]_vars

\* The same on the first connection of a context, where no message that was
\* sent on an earlier connection can be left over in the list.
AckRemovesAcknowledgedFirstLink == 
  [][drops = 0 => \A a \in back : AckStep(a) => RemovesAcked(a)]_vars

\* As long as the link stays up every accepted message reaches the broker, also
\* when a send fails (the timer asks for another WRITEABLE callback).  A message
\* on its way when a link is lost is not sent again.
PublishReachesBroker ==
  \A m \in Ids : (nextId > m) ~> (m \in received \/ drops > 0 \/ ~alive)

\* Every topic handed to the pending list reaches the broker's session, although
\* iot_mqtt_subscribe itself wakes nobody, and although the SUBSCRIBE packet may
\* fail or be lost with the link: iot_mqtt_reconnect appends the topic again.
SubscribeReachesBroker ==
  \A x \in Topics : (\E i \in DOMAIN pendSub : pendSub[i] = x) ~> (x \in bsubs \/ ~alive)

\* Across lost links and failed connection attempts, a message that has not been
\* sent does not stay in the list for ever.
PendingEventuallySent ==
  \A m \in Ids : (nextId > m) ~> (tx[m] > 0 \/ ~alive)

-----------------------------------------------------------------------------
(* The inductive invariant behind the safety properties.                   *)

\* The session of the link: nothing travels on a link that is down, and only a
\* live context has one.
LinkSound ==
  /\ link # "up" => wire = {} /\ back = {}
  /\ link # "none" => alive

\* Every topic with a handler is with the broker, on its way there, or pending.
Requested(x) == \E p \in wire : p.type = "SUBSCRIBE" /\ x \in p.topics
SubsCovered ==
  ~AllocMayFail /\ AppReconnect =>
    /\ link = "none" /\ drops = 0 => subs = {}
    /\ link = "connecting" => subs \subseteq Range(pendSub)
    /\ link = "up" => \A x \in subs : x \in bsubs \/ Requested(x) \/ x \in Range(pendSub)

\* What pending_pub_list holds between two callbacks.
PubListSound ==
  /\ \A e \in pendPub : e.id < nextId /\ (e.sent => e.qos = 1)
  /\ \A e, f \in pendPub : e.id = f.id => e = f
  /\ \A e \in pendPub : tx[e.id] = (IF e.sent THEN 1 ELSE 0)
  /\ \A m \in Ids : m >= nextId => tx[m] = 0

\* Before the first lost link, waiting_for_puback and the sent entry of the list
\* speak of the same message as the packet in flight.
FirstLinkSound ==
  alive /\ drops = 0 =>
    /\ \A e, f \in Unacked(pendPub) : e = f
    /\ waitPuback <=> Unacked(pendPub) # {}
    /\ link # "up" => ~waitPuback
    /\ \A p \in InFlight : \E e \in Unacked(pendPub) : e.id = p.id

IInv ==
  /\ TypeOK /\ LinkSound /\ SubsCovered
  /\ PubListSound /\ NoDuplicateSend /\ AcceptedPendingOrSent /\ SentInAcceptOrder
  /\ OnePublishInFlight /\ FirstLinkSound
=============================================================================
