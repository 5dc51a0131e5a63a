----------------------------- MODULE TopicDispatch -----------------------------
(***************************************************************************)
(* How a message the broker delivers finds its handler: the MQTT_CLIENT_RX  *)
(* case of src/iot/iot_mqtt.c over sub_topic_maps, and the filters that the *)
(* thing model, OTA, log upload and custom topics register.                *)
(*                                                                         *)
(* A topic is a sequence of levels and a level a sequence of words, because *)
(* the RX case compares texts, not levels: "get" is a prefix of "getAll".   *)
(* The common levels sys/<product_key>/<device_name> are left out.  The     *)
(* subscriptions reach sub_topic_maps in the order of the calls, without    *)
(* duplicates (module MqttClient).  The broker is external and matches      *)
(* level by level as MQTT says.                                            *)
(***************************************************************************)
EXTENDS Naturals, Sequences, SequencesExt

CONSTANT CustomSuffixes   \* suffixes the application gives to tm_sub_custom_topic

VARIABLES
  maps,     \* sub_topic_maps: filters and their message_callback
  last      \* the last message received and the callback that was called

vars == <<maps, last>>

Nobody    == "nobody"
Levels(w) == [i \in DOMAIN w |-> <<w[i]>>]
Entry(w, callback) == [filter |-> Levels(w), callback |-> callback]

\* g_dm_recv_topic_mapping; the entry for custom/+ has no callback.
RecvTopicMapping == <<
  Entry(<<"thingmodel", "service", "preset", "propertySet", "post">>, "property_set"),
  Entry(<<"thingmodel", "property", "post_reply">>, "property_set_post_reply"),
  Entry(<<"shadow", "report_reply">>, "shadow_report_reply"),
  Entry(<<"shadow", "desired", "get", "reply">>, "shadow_get_reply"),
  Entry(<<"shadow", "desired", "set">>, "shadow_set"),
  Entry(<<"webshell", "cmd", "+", "post">>, "webshell_command"),
  Entry(<<"thingmodel", "event", "+", "+", "post_reply">>, "event_post_reply"),
  Entry(<<"thingmodel", "service", "+", "+", "post", "+">>, "service_call"),
  Entry(<<"custom", "+">>, Nobody),
  Entry(<<"ntp", "response">>, "device_ntp_info") >>

DelayTopic == Entry(<<"delay", "+", "post">>, "device_delay_info")
OtaTopics  == << Entry(<<"ota", "notify", "+">>, "ota_notify_info"),
                 Entry(<<"ota", "upgrade", "post_reply">>, "ota_upgrade_post_reply") >>
LogTopic   == Entry(<<"log", "batch", "config">>, "log_report_config")

Custom(suffix)      == << <<"custom">>, suffix >>
CustomTopic(suffix) == [filter |-> Custom(suffix), callback |-> "custom_topic"]


\* iot_mqtt_subscribe of several topics, as far as sub_topic_maps is concerned.
Subscribe(es) ==
  maps' = maps \o SelectSeq(es, LAMBDA e : \A i \in DOMAIN maps : maps[i].filter # e.filter)

-----------------------------------------------------------------------------
\* The text of a topic, with its slashes.
Text(t) == FlattenSeq([i \in DOMAIN t |-> IF i = 1 THEN t[i] ELSE <<"/">> \o t[i]])

Wildcard == <<"+">>

\* The broker: + stands for exactly one level.
MqttMatches(filter, t) ==
  /\ Len(filter) = Len(t)
  /\ \A i \in DOMAIN t : filter[i] \in {t[i], Wildcard}

\* strncmp of the topic with the filter over topic_len: the topic is a prefix.
TopicIsPrefix(filter, t) == IsPrefix(Text(t), Text(filter))

\* Mutant: the last character is cut from every filter.
EndsInPlusAlways(filter, t) == IsPrefix(Front(Text(filter)), Text(t))
\* Mutant: filters that end in + are not looked at.
EndsInPlusNever(filter, t)  == FALSE

\* The filter ends in + and what precedes it is a prefix of the topic.
EndsInPlus(filter, t) ==
  /\ Last(Text(filter)) = "+"
  /\ IsPrefix(Front(Text(filter)), Text(t))

CodeMatches(filter, t) == TopicIsPrefix(filter, t) \/ EndsInPlus(filter, t)

\* The loop over sub_topic_maps stops at the first entry that matches.
Called(t) ==
  LET hits == {i \in DOMAIN maps : CodeMatches(maps[i].filter, t)}
  IN IF hits = {} THEN Nobody
     ELSE maps[CHOOSE i \in hits : \A j \in hits : i <= j].callback

-----------------------------------------------------------------------------
\* What the server publishes: for each filter a topic without wildcards, and the
\* custom topics.
Concrete(filter) == [i \in DOMAIN filter |-> IF filter[i] = Wildcard THEN <<"id">> ELSE filter[i]]
AllEntries == RecvTopicMapping \o <<DelayTopic>> \o OtaTopics \o <<LogTopic>>
ServerTopics ==
  {Concrete(AllEntries[i].filter) : i \in DOMAIN AllEntries}
    \cup {Concrete(Custom(s)) : s \in CustomSuffixes}

NoMessage == [topic |-> <<>>, called |-> Nobody]

TypeOK ==
  /\ \A i \in DOMAIN maps : maps[i].callback # Nobody
  /\ \A i, j \in DOMAIN maps : maps[i].filter = maps[j].filter => i = j
  /\ last = NoMessage \/ last.topic \in ServerTopics

Init == maps = <<>> /\ last = NoMessage

\* iot_tm_set_mqtt_handler: the table without the entries that have no callback,
\* then the delay topic.
SetUpThingModel ==
  /\ Subscribe(SelectSeq(RecvTopicMapping, LAMBDA e : e.callback # Nobody) \o <<DelayTopic>>)
  /\ UNCHANGED last

\* iot_ota_set_mqtt_handler
SetUpOta == Subscribe(OtaTopics) /\ UNCHANGED last

\* aiot_log_set_mqtt_handler
SetUpLog == Subscribe(<<LogTopic>>) /\ UNCHANGED last

\* tm_sub_custom_topic
SubCustomTopic(suffix) == Subscribe(<<CustomTopic(suffix)>>) /\ UNCHANGED last

\* MQTT_CLIENT_RX for a message the broker delivers to this client.
Receive(t) ==
  /\ \E i \in DOMAIN maps : MqttMatches(maps[i].filter, t)
  /\ last' = [topic |-> t, called |-> Called(t)]
  /\ UNCHANGED maps

Next ==
  \/ SetUpThingModel \/ SetUpOta \/ SetUpLog
  \/ \E s \in CustomSuffixes : SubCustomTopic(s)
  \/ \E t \in ServerTopics : Receive(t)

Spec == Init /\ [][Next]_vars

-----------------------------------------------------------------------------
(* Properties.                                                             *)

Received == last # NoMessage

\* The textual comparison never routes a message to a foreign component: the
\* callback that runs belongs to a filter that the message's topic matches,
\* whatever the order in which the components subscribed; and no filter is
\* registered twice.
RightCallback ==
  /\ TypeOK
  /\ Received /\ last.called # Nobody =>
       \E i \in DOMAIN maps : maps[i].callback = last.called /\ MqttMatches(maps[i].filter, last.topic)

\* A filter without wildcard, or with one as its last level only, is enough: its
\* messages reach a callback.
Simple(filter) == \A i \in 1 .. Len(filter) - 1 : filter[i] # Wildcard
SimpleFiltersReached ==
  \A i \in DOMAIN maps :
    Received /\ Simple(maps[i].filter) /\ MqttMatches(maps[i].filter, last.topic)
      => last.called # Nobody

\* iot_tm_api.h lists the replies to events, the service calls and the web shell
\* commands among the messages the receive handler gets: every message the
\* broker delivers reaches a callback.
EveryMessageHandled == Received => last.called # Nobody
=============================================================================
