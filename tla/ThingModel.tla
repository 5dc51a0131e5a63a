------------------------------ MODULE ThingModel ------------------------------
(***************************************************************************)
(* The thing model on top of TopicDispatch: src/iot/thingmodel/ and the     *)
(* onesdk_iot_tm_* calls of src/onesdk_iot.c.  The handler that             *)
(* MQTT_CLIENT_RX finds runs to its end in the same step: it calls the      *)
(* application's recv_handler and may publish an answer.                   *)
(*                                                                         *)
(* A message has a topic, an id and a code; other contents and the JSON     *)
(* around them are left out.  What the handlers publish is handed to        *)
(* iot_mqtt_publish (module MqttClient), whose result they ignore.  How the *)
(* application builds its own posts is in module TmPosts.                  *)
(***************************************************************************)
EXTENDS TopicDispatch

CONSTANT MaxMessages   \* bound: number of messages received

ASSUME ThingModelAssumption == MaxMessages \in Nat

VARIABLES
  handler,   \* ctx->iot_tm_handler: absent, without or with a recv_handler
  heard,     \* was recv_handler called for the last message?
  given,     \* the messages recv_handler got that ask for an answer, in order
  sent,      \* answers handed to iot_mqtt_publish, in order
  messages

tmVars == <<handler, heard, given, sent, messages>>
allVars == <<vars, tmVars>>

Ids   == 1 .. MaxMessages
Codes == {0, 1}

\* The answers: a reply with the id of the property set, and a clear of the
\* shadow, which has an id of its own.
SetReply(id) == [kind |-> "property_set_reply", id |-> id]
ShadowClear  == [kind |-> "shadow_clear", id |-> 0]
ServiceReply(id) == [kind |-> "service_call_reply", id |-> id]
WebshellReply    == [kind |-> "webshell_command_reply", id |-> 0]
DelayReply(id)   == [kind |-> "delay_reply", id |-> id]

TmInit ==
  /\ Init
  /\ handler = "absent" /\ heard = FALSE /\ given = <<>> /\ sent = <<>>
  /\ messages = 0

-----------------------------------------------------------------------------
(* The application's calls.                                                *)

\* onesdk_iot_tm_init: the handler exists, and all its topics are subscribed.
\* A second call finds it and does nothing.
OnesdkTmInit ==
  /\ handler = "absent"
  /\ SetUpThingModel
  /\ handler' = "silent"
  /\ UNCHANGED <<heard, given, sent, messages>>

\* onesdk_iot_tm_set_recv_cb, which needs a handler; cb is not NULL
SetRecvCb ==
  /\ handler # "absent"
  /\ handler' = "hears"
  /\ UNCHANGED <<vars, heard, given, sent, messages>>

\* onesdk_iot_tm_custom_topic_sub
CustomTopicSub(suffix) ==
  /\ handler # "absent"
  /\ SubCustomTopic(suffix)
  /\ UNCHANGED tmVars

\* The other features that share the MQTT client.
EnableOtaOrLog == (SetUpOta \/ SetUpLog) /\ UNCHANGED tmVars

-----------------------------------------------------------------------------
(* The handlers.                                                           *)

\* What a handler does: it calls recv_handler, and then publishes answers.  While
\* there is no recv_handler every handler returns at once.
Ignored == [calls |-> FALSE, answers |-> <<>>]
HandsOn(answers) == IF handler = "hears" THEN [calls |-> TRUE, answers |-> answers] ELSE Ignored

\* Mutant: the reply does not wait for a recv_handler.
RecvPropertySetAlways(m) == [calls |-> handler = "hears", answers |-> <<SetReply(m.id)>>]
\* _tm_recv_property_set_handler
RecvPropertySet(m) == HandsOn(<<SetReply(m.id)>>)

\* _tm_recv_property_set_post_reply
RecvPropertySetPostReply(m) == HandsOn(<<>>)

\* Mutant: the code of the reply is not looked at.
RecvShadowGetReplyAny(m) == HandsOn(<<ShadowClear>>)
\* _tm_recv_shadow_get_reply_handler returns early for an error code.
RecvShadowGetReply(m) == IF m.code # 0 THEN Ignored ELSE HandsOn(<<ShadowClear>>)

\* _tm_recv_shadow_set_handler
RecvShadowSet(m) == HandsOn(<<>>)

\* _tm_recv_custom_topic
RecvCustomTopic(m) == HandsOn(<<>>)

\* The handlers of the filters with an inner +, which no message reaches through
\* MQTT_CLIENT_RX (EveryMessageHandled of TopicDispatch).
\* _tm_recv_event_post_reply
RecvEventPostReply(m) == HandsOn(<<>>)
\* _tm_recv_service_call answers with code 0 after recv_handler has returned.
RecvServiceCall(m) == HandsOn(<<ServiceReply(m.id)>>)
\* _tm_recv_webshell_command_handler answers before it runs the command, and looks at
\* recv_handler without calling it; the command itself is left out.
RecvWebshellCommand(m) == [HandsOn(<<WebshellReply>>) EXCEPT !.calls = FALSE]
\* _tm_recv_device_delay_info echoes the payload, with or without recv_handler.
RecvDeviceDelayInfo(m) == [calls |-> FALSE, answers |-> <<DelayReply(m.id)>>]

\* The handlers of shadow_report_reply and of NTP are empty; those of OTA and of
\* log upload belong to other modules.
Outcome(c, m) ==
  CASE c = "property_set"            -> RecvPropertySet(m)
    [] c = "property_set_post_reply" -> RecvPropertySetPostReply(m)
    [] c = "shadow_get_reply"        -> RecvShadowGetReply(m)
    [] c = "shadow_set"              -> RecvShadowSet(m)
    [] c = "custom_topic"            -> RecvCustomTopic(m)
    [] c = "event_post_reply"        -> RecvEventPostReply(m)
    [] c = "service_call"            -> RecvServiceCall(m)
    [] c = "webshell_command"        -> RecvWebshellCommand(m)
    [] c = "device_delay_info"       -> RecvDeviceDelayInfo(m)
    [] OTHER                         -> Ignored

\* iot_tm_send of each answer: its topic is found by its type, and it is published.
TmSend(answers) == sent' = sent \o answers

\* A message of the server, or one that is delivered again (QoS 1).  Only the
\* handlers with an answer look at the id and the code.
Answered == {Levels(<<"thingmodel", "service", "preset", "propertySet", "post">>),
             Levels(<<"shadow", "desired", "get", "reply">>)}
Messages == [topic : Answered, id : Ids, code : Codes]
              \cup [topic : ServerTopics \ Answered, id : {1}, code : {0}]

\* MQTT_CLIENT_RX with the handler it calls.
ReceiveMessage(m) ==
  /\ messages < MaxMessages
  /\ messages' = messages + 1
  /\ Receive(m.topic)
  /\ LET c == last'.called
         o == Outcome(c, m)
     IN /\ heard' = o.calls
        /\ given' = IF o.calls /\ m.topic \in Answered
                    THEN Append(given, [kind |-> c, id |-> m.id, code |-> m.code]) ELSE given
        /\ TmSend(o.answers)
  /\ UNCHANGED handler

TmNext ==
  \/ OnesdkTmInit \/ SetRecvCb \/ EnableOtaOrLog
  \/ \E s \in CustomSuffixes : CustomTopicSub(s)
  \/ \E m \in Messages : ReceiveMessage(m)

TmSpec == TmInit /\ [][TmNext]_allVars

-----------------------------------------------------------------------------
(* Properties.                                                             *)

\* The types, and what the handlers rely on: topics of the thing model are
\* subscribed only when its handler exists.
TmTypeOK ==
  /\ TypeOK
  /\ handler \in {"absent", "silent", "hears"} /\ heard \in BOOLEAN
  /\ messages \in 0 .. MaxMessages
  /\ \A i \in DOMAIN maps :
       maps[i].callback \in {"property_set", "custom_topic"} => handler # "absent"

\* The server is told that a property was set once for every time the application
\* was given it, with the id of that message, in that order, and never when
\* recv_handler has not seen it; and a topic of the thing model is subscribed only
\* when the handler its callback gets exists.
SetsAnswered ==
  /\ TmTypeOK
  /\ SelectSeq(sent, LAMBDA a : a.kind = "property_set_reply") =
       LET sets == SelectSeq(given, LAMBDA g : g.kind = "property_set")
       IN [i \in DOMAIN sets |-> SetReply(sets[i].id)]

\* The desired state on the server is cleared only after the application has got
\* it: once for every get reply without an error.
ClearedAfterHandedOver ==
  LET gets == SelectSeq(given, LAMBDA g : g.kind = "shadow_get_reply")
  IN /\ Len(SelectSeq(sent, LAMBDA a : a = ShadowClear)) = Len(gets)
     /\ \A i \in DOMAIN gets : gets[i].code = 0
=============================================================================
