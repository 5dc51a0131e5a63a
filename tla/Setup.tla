--------------------------------- MODULE Setup ---------------------------------
(* The life of an SDK context: onesdk.c, with iot_basic.c, dynreg.c, llm.c and    *)
(* the switches of onesdk_iot.c.  An object is a part and the number of the call  *)
(* that made it, and is live until its release function runs; the connections     *)
(* are MqttClient and RealtimeWs.  The platform's answers are external.           *)
EXTENDS Integers, FiniteSets, Sequences

CONSTANTS MaxMade    \* bound: calls that make objects

VARIABLES
  sdk,      \* onesdk_ctx_t: the object of each part, 0 for NULL, and config
  cfgLlm,   \* config->aigw_llm_config, in the application's configuration
  live,     \* live objects: <<part, number>>
  lost,     \* live objects that nothing refers to
  handlers, \* iot_tm_handler_t in the MQTT client's sub_topic_maps: user_data
  app,      \* "closed", "ready" or "failed"
  made,
  slips,    \* what the application, or the platform, did that breaks the SDK
  bad       \* has a released object been released or used, or NULL been used?
setupVars == <<sdk, cfgLlm, live, lost, handlers, app, made, slips, bad>>

\* The parts in the order of onesdk_init, and those enabled later.
Stages == <<"basic", "llm", "chat", "ws", "mqtt">>
Switched == {"log", "ota", "tm"}
SdkParts == {Stages[i] : i \in 1 .. 5} \cup Switched
Before(k) == {Stages[i] : i \in 1 .. k - 1}
Zeroed == [p \in SdkParts |-> 0]

SetupInit ==
  /\ sdk = [obj |-> Zeroed, config |-> FALSE] /\ cfgLlm = 0 /\ live = {} /\ lost = {}
  /\ handlers = 0 /\ app = "closed" /\ made = 0 /\ slips = {} /\ bad = FALSE

-----------------------------------------------------------------------------
(* Registration, signing and the LLM configuration.                            *)

Secrets == {"null", "given"}
RegisterAnswers == {"none", "status", "no result", "undecodable", "secret"}

\* dynamic_register: an answer whose secret cannot be decoded is a success.
dynamic_register(secret, answer) ==
  CASE secret # "null"          -> [ok |-> TRUE, secret |-> secret]
    [] answer = "undecodable"   -> [ok |-> TRUE, secret |-> "null"]
    [] answer = "secret"        -> [ok |-> TRUE, secret |-> "registered"]
    [] OTHER                    -> [ok |-> FALSE, secret |-> secret]

\* get_llm_config registers again when there is no secret; the status of its own
\* answer is not looked at, its Result is: an APIKey and an URL.
LlmAnswers == {"none", "no key", "no url", "whole"}
get_llm_config(secret, again, answer) ==
  LET r == dynamic_register(secret, again)
  IN  [ok |-> r.ok /\ r.secret # "null" /\ answer = "whole",
       \* aes_decode of the key duplicates the secret
       null |-> r.ok /\ r.secret = "null" /\ answer \in {"no url", "whole"}]

\* What a credential signs with iot_hmac_sha256_encrypt and says it has signed:
\* the body of a registration, a header of a chat or of the websocket (as text), the
\* MQTT password, which knows only 0 and 1, and the LLM request, which says nothing.
AuthTypes == {-1, 0, 1}
Credential(use, auth) ==
  CASE use \in {"register", "chat", "ws"} -> [signs |-> auth, says |-> auth]
    [] use = "mqtt" -> LET a == IF auth = -1 THEN 0 ELSE auth IN [signs |-> a, says |-> a]
    [] use = "llm"  -> [signs |-> 0, says |-> 0]

-----------------------------------------------------------------------------
(* onesdk_init.                                                                *)

Makes == made < MaxMade /\ made' = made + 1
Objects(parts, n) == {<<p, n>> : p \in parts}
Pointing(parts) == [p \in SdkParts |-> IF p \in parts THEN made + 1 ELSE 0]
\* memset: what the context still referred to is lost.
Forgotten == {o \in live : sdk.obj[o[1]] = o[2]}

\* No device_config.
InitNoConfig ==
  /\ app # "ready" /\ Makes
  /\ sdk' = [obj |-> Zeroed, config |-> FALSE] /\ app' = "failed" /\ lost' = lost \cup Forgotten
  /\ UNCHANGED <<cfgLlm, live, handlers, slips, bad>>

\* A failing stage frees the basic context, and leaves its address in ctx; only
\* when there is no memory for the MQTT context it keeps it.
InitFails(k, keep) ==
  LET n == made + 1
      parts == IF k = 1 THEN {} ELSE (Before(k) \ {"basic"}) \cup keep
  IN  /\ app # "ready" /\ Makes
      /\ sdk' = [obj |-> Pointing(Before(k)), config |-> TRUE] /\ app' = "failed"
      /\ cfgLlm' = IF k > 2 THEN n ELSE cfgLlm
      \* the LLM configuration of a failed fetch is not kept anywhere
      /\ live' = live \cup Objects(parts, n) \cup (IF k = 2 THEN {<<"llm", n>>} ELSE {})
      /\ lost' = lost \cup Forgotten \cup (IF k = 2 THEN {<<"llm", n>>} ELSE {})
      /\ UNCHANGED handlers

RegisterFails(secret) == /\ \E a \in RegisterAnswers : ~dynamic_register(secret, a).ok
                         /\ InitFails(1, {}) /\ UNCHANGED <<slips, bad>>
LlmFails(secret) == \E a, b \in RegisterAnswers, c \in LlmAnswers :
  LET r == dynamic_register(secret, a)
      g == get_llm_config(r.secret, b, c)
  IN  /\ r.ok /\ ~g.ok /\ InitFails(2, {})
      /\ bad' = (bad \/ g.null) /\ slips' = IF g.null THEN slips \cup {"no secret"} ELSE slips
\* onesdk_chat_context_init, the websocket's configuration or context, iot_mqtt_init
LaterFails == /\ \E k \in 3 .. 5 : InitFails(k, {})
              /\ UNCHANGED <<slips, bad>>
MqttNoMemory == InitFails(5, {"basic"}) /\ UNCHANGED <<slips, bad>>

\* Without mqtt_config there is no MQTT context.
InitSucceeds(mqtt) ==
  LET parts == Before(5) \cup (IF mqtt THEN {"mqtt"} ELSE {})
  IN  /\ app # "ready" /\ Makes
      /\ sdk' = [obj |-> Pointing(parts), config |-> TRUE] /\ cfgLlm' = made + 1 /\ app' = "ready"
      /\ live' = live \cup Objects(parts, made + 1) /\ lost' = lost \cup Forgotten
      /\ handlers' = 0
      /\ UNCHANGED <<slips, bad>>

-----------------------------------------------------------------------------
(* The switches, and the end.                                                   *)

\* onesdk_iot_enable_log_upload, onesdk_iot_enable_ota: a second call replaces the
\* handler of the first.
Enable(p) ==
  /\ app = "ready" /\ sdk.obj["mqtt"] # 0 /\ Makes
  /\ sdk' = [sdk EXCEPT !.obj[p] = made + 1]
  /\ live' = live \cup {<<p, made + 1>>} /\ lost' = lost \cup ({<<p, sdk.obj[p]>>} \cap live)
  /\ UNCHANGED <<cfgLlm, handlers, app, slips, bad>>

\* onesdk_iot_tm_init: once; iot_mqtt_subscribe keeps the handler a topic has.
onesdk_iot_tm_init ==
  /\ app = "ready" /\ sdk.obj["mqtt"] # 0 /\ sdk.obj["tm"] = 0 /\ Makes
  /\ sdk' = [sdk EXCEPT !.obj["tm"] = made + 1] /\ live' = live \cup {<<"tm", made + 1>>}
  /\ handlers' = IF handlers = 0 THEN made + 1 ELSE handlers
  /\ UNCHANGED <<cfgLlm, lost, app, slips, bad>>
\* The topics stay subscribed, with the freed handler as their user_data.
onesdk_iot_tm_deinit ==
  /\ app = "ready" /\ sdk.obj["tm"] # 0
  /\ live' = live \ {<<"tm", sdk.obj["tm"]>>} /\ sdk' = [sdk EXCEPT !.obj["tm"] = 0]
  /\ slips' = slips \cup {"tm deinit"}
  /\ UNCHANGED <<cfgLlm, lost, handlers, app, made, bad>>
\* A message for the thing model arrives.
TmMessage ==
  /\ app = "ready" /\ handlers # 0
  /\ bad' = (bad \/ <<"tm", handlers>> \notin live)
  /\ UNCHANGED <<sdk, cfgLlm, live, lost, handlers, app, made, slips>>

\* Mutant: ctx->chat_ctx is not cleared.
DisconnectKeepsPointer ==
  /\ app = "ready"
  /\ live' = live \ {<<"chat", sdk.obj["chat"]>>}
  /\ bad' = (bad \/ sdk.obj["mqtt"] = 0)
  /\ slips' = IF sdk.obj["mqtt"] = 0 THEN slips \cup {"disconnect without mqtt"} ELSE slips
  /\ UNCHANGED <<sdk, cfgLlm, lost, handlers, app, made>>
\* onesdk_disconnect: the chat context is released; the MQTT client's is used.
onesdk_disconnect ==
  /\ app = "ready"
  /\ live' = live \ {<<"chat", sdk.obj["chat"]>>}
  /\ sdk' = [sdk EXCEPT !.obj["chat"] = 0]
  /\ bad' = (bad \/ sdk.obj["mqtt"] = 0)
  /\ slips' = IF sdk.obj["mqtt"] = 0 THEN slips \cup {"disconnect without mqtt"} ELSE slips
  /\ UNCHANGED <<cfgLlm, lost, handlers, app, made>>

\* What onesdk_deinit releases: everything but the thing model.
ContextObjects ==
  {<<p, sdk.obj[p]>> : p \in {q \in SdkParts \ {"llm", "tm"} : sdk.obj[q] # 0}}
  \cup (IF sdk.config /\ cfgLlm # 0 THEN {<<"llm", cfgLlm>>} ELSE {})
\* The pointers stay, except the one to the chat context.
onesdk_deinit ==
  /\ app # "closed" \/ (made > 0 /\ slips = {})
  /\ live' = live \ ContextObjects
  /\ bad' = (bad \/ ~(ContextObjects \subseteq live))
  /\ sdk' = [sdk EXCEPT !.obj["chat"] = 0]
  /\ app' = "closed"
  /\ slips' = CASE app = "failed" -> slips \cup {"deinit after a failure"}
                [] app = "closed" -> slips \cup {"second deinit"}
                [] OTHER -> slips
  /\ UNCHANGED <<cfgLlm, lost, handlers, made>>

SetupNext ==
  \/ InitNoConfig \/ \E s \in Secrets : RegisterFails(s) \/ LlmFails(s)
  \/ LaterFails \/ MqttNoMemory \/ \E mqtt \in BOOLEAN : InitSucceeds(mqtt)
  \/ Enable("log") \/ Enable("ota") \/ onesdk_iot_tm_init \/ onesdk_iot_tm_deinit \/ TmMessage
  \/ onesdk_disconnect \/ onesdk_deinit

SetupSpec == SetupInit /\ [][SetupNext]_setupVars

-----------------------------------------------------------------------------
\* onesdk.c:60 and :190.  Through failing and repeated initialisations nothing is
\* released twice or used afterwards, and a deinit leaves only what the context had
\* lost sight of and the thing model - as long as the application does not call
\* onesdk_deinit after a failed or without an onesdk_init, onesdk_disconnect without
\* MQTT or onesdk_iot_tm_deinit on a live client.  Every credential says what it
\* has signed.
SetupReleasesOnce ==
  /\ bad => slips # {}
  /\ app = "closed" /\ slips = {} => live \subseteq lost \cup {<<"tm", sdk.obj["tm"]>>}
  /\ \A use \in {"register", "chat", "ws", "mqtt", "llm"}, a \in AuthTypes :
       Credential(use, a).signs = Credential(use, a).says
================================================================================
