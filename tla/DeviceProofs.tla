------------------------------ MODULE DeviceProofs ------------------------------
(***************************************************************************)
(* Proofs about Setup and Log, the two components an application uses on    *)
(* the device itself: for any number of initialisations, and for any number *)
(* of logging threads, lines and configurations.                           *)
(***************************************************************************)
EXTENDS Setup, Log, TLAPS

-----------------------------------------------------------------------------
(* Setup.  While nothing has gone wrong, the context's pointers and the live *)
(* objects correspond: what a pointer of a ready context says is live, and   *)
(* what is live and not lost is what a pointer says.                        *)

\* Every field has its type; an object has a number of its own, from 1.
SetupTypes ==
  /\ made \in Nat /\ cfgLlm \in Nat /\ handlers \in Nat /\ app \in {"closed", "ready", "failed"}
  /\ sdk \in [obj : [SdkParts -> Nat], config : BOOLEAN]
  /\ live \subseteq SdkParts \X (Nat \ {0})

\* An object that the context has not lost is the one it points to.
Reachable ==
  \A p \in SdkParts, n \in Nat : <<p, n>> \in live /\ <<p, n>> \notin lost => sdk.obj[p] = n

\* A ready context points to live objects only, and so do the configuration and the
\* topics of the thing model.
PointersLive ==
  app = "ready" =>
    /\ \A p \in SdkParts \ {"tm"} : sdk.obj[p] # 0 => <<p, sdk.obj[p]>> \in live
    /\ sdk.config /\ cfgLlm = sdk.obj["llm"] /\ cfgLlm # 0
    /\ handlers # 0 => <<"tm", handlers>> \in live

\* After a deinit only the thing model is reachable.
ClosedEmpty ==
  app = "closed" =>
    \A p \in SdkParts, n \in Nat : <<p, n>> \in live /\ <<p, n>> \notin lost => p = "tm"

SetupInv ==
  /\ SetupTypes
  /\ slips = {} => ~bad /\ Reachable /\ PointersLive /\ ClosedEmpty

-----------------------------------------------------------------------------
\* The parts, one by one.
LEMMA PartNames ==
  /\ SdkParts = {"basic", "llm", "chat", "ws", "mqtt", "log", "ota", "tm"}
  /\ \A k \in 1 .. 5 : Before(k) \subseteq SdkParts \ {"tm"}
  /\ \A k \in 3 .. 5 : "llm" \in Before(k)
  /\ Before(2) = {"basic"} /\ Before(1) = {} /\ Before(5) = {"basic", "llm", "chat", "ws"}
<1>1. Len(Stages) = 5 /\ Stages[1] = "basic" /\ Stages[2] = "llm" /\ Stages[3] = "chat" /\ Stages[4] = "ws"
      /\ Stages[5] = "mqtt"
  BY DEF Stages
<1>2. \A i \in 1 .. 5 : i = 1 \/ i = 2 \/ i = 3 \/ i = 4 \/ i = 5 OBVIOUS
<1>3. {Stages[i] : i \in 1 .. 5} = {"basic", "llm", "chat", "ws", "mqtt"} BY <1>1, <1>2
<1>4. SdkParts = {"basic", "llm", "chat", "ws", "mqtt", "log", "ota", "tm"}
  BY <1>3 DEF SdkParts, Switched
<1>5. ASSUME NEW k \in 1 .. 5 PROVE Before(k) \subseteq SdkParts \ {"tm"}
  <2>1. \A i \in 1 .. k - 1 : i \in 1 .. 5 OBVIOUS
  <2>2. Before(k) \subseteq {"basic", "llm", "chat", "ws", "mqtt"} BY <1>1, <1>2, <2>1 DEF Before
  <2> QED BY <1>4, <2>2
<1>6. ASSUME NEW k \in 3 .. 5 PROVE "llm" \in Before(k)
  <2>1. 2 \in 1 .. k - 1 OBVIOUS
  <2> QED BY <1>1, <2>1 DEF Before
<1>7. Before(2) = {"basic"} /\ Before(1) = {}
  <2>1. 1 .. 2 - 1 = {1} /\ 1 .. 1 - 1 = {} OBVIOUS
  <2> QED BY <1>1, <2>1 DEF Before
<1>8. Before(5) = {"basic", "llm", "chat", "ws"}
  <2>1. \A i : i \in 1 .. 5 - 1 <=> i = 1 \/ i = 2 \/ i = 3 \/ i = 4 OBVIOUS
  <2> QED BY <1>1, <2>1 DEF Before
<1> QED BY <1>4, <1>5, <1>6, <1>7, <1>8

\* A context that is filled in anew: onesdk_init, whatever it comes to.
LEMMA NewContextInv ==
  ASSUME SetupInv, NEW parts \in SUBSET (SdkParts \ {"tm"}), NEW here \in SUBSET SdkParts,
         NEW gone \in SUBSET (SdkParts \X {made + 1}), here \subseteq parts, NEW config \in BOOLEAN,
         sdk' = [obj |-> Pointing(parts), config |-> config], made' = made + 1,
         live' = live \cup Objects(here, made + 1) \cup gone, lost' = lost \cup Forgotten \cup gone
  PROVE  /\ made' \in Nat /\ sdk' \in [obj : [SdkParts -> Nat], config : BOOLEAN]
         /\ live' \subseteq SdkParts \X (Nat \ {0})
         /\ slips = {} => Reachable'
         /\ \A p \in SdkParts : sdk'.obj[p] = IF p \in parts THEN made + 1 ELSE 0
<1>0. made \in Nat /\ live \subseteq SdkParts \X (Nat \ {0}) /\ made + 1 \in Nat \ {0} BY DEF SetupInv, SetupTypes
<1>1. sdk'.obj = [p \in SdkParts |-> IF p \in parts THEN made + 1 ELSE 0] BY DEF Pointing
<1>2. sdk'.obj \in [SdkParts -> Nat] BY <1>0, <1>1
<1>3. Objects(here, made + 1) \subseteq SdkParts \X (Nat \ {0}) BY <1>0 DEF Objects
<1>4. live' \subseteq SdkParts \X (Nat \ {0}) BY <1>0, <1>3
<1>5. ASSUME slips = {}, NEW p \in SdkParts, NEW n \in Nat, <<p, n>> \in live', <<p, n>> \notin lost'
      PROVE  sdk'.obj[p] = n
  <2>1. <<p, n>> \notin live
    <3>1. <<p, n>> \in live => sdk.obj[p] = n BY <1>5 DEF SetupInv, Reachable
    <3>2. <<p, n>> \in live => <<p, n>> \in Forgotten BY <3>1 DEF Forgotten
    <3> QED BY <1>5, <3>2
  <2>2. <<p, n>> \in Objects(here, made + 1) BY <1>5, <2>1
  <2>3. p \in here /\ n = made + 1 BY <2>2 DEF Objects
  <2> QED BY <1>1, <2>3
<1>6. sdk' \in [obj : [SdkParts -> Nat], config : BOOLEAN] BY <1>1, <1>2
<1> QED BY <1>0, <1>1, <1>4, <1>5, <1>6 DEF Reachable

\* onesdk_init without a device_config
LEMMA NoConfigInv == ASSUME SetupInv, InitNoConfig PROVE SetupInv'
<1>1. /\ sdk' = [obj |-> Pointing({}), config |-> FALSE] /\ made' = made + 1
      /\ live' = live \cup Objects({}, made + 1) \cup {} /\ lost' = lost \cup Forgotten \cup {}
      /\ cfgLlm' = cfgLlm /\ handlers' = handlers /\ app' = "failed" /\ slips' = slips /\ bad' = bad
  BY DEF InitNoConfig, Makes, Objects, Pointing, Zeroed
<1>2. FALSE \in BOOLEAN OBVIOUS
<1>3. /\ made' \in Nat /\ sdk' \in [obj : [SdkParts -> Nat], config : BOOLEAN]
      /\ live' \subseteq SdkParts \X (Nat \ {0}) /\ (slips = {} => Reachable')
  BY <1>1, <1>2, NewContextInv
<1> QED BY <1>1, <1>3 DEF SetupInv, SetupTypes, PointersLive, ClosedEmpty

\* onesdk_init with a stage that fails.  A secret that cannot be decoded is a slip.
LEMMA InitFailsInv ==
  ASSUME SetupInv, NEW k \in 1 .. 5, NEW keep \in SUBSET {"basic"}, keep # {} => k = 5, InitFails(k, keep),
         slips' = {} => slips = {} /\ (bad' => bad)
  PROVE  SetupInv'
<1> DEFINE here == IF k = 1 THEN {} ELSE (Before(k) \ {"basic"}) \cup keep
           gone == IF k = 2 THEN {<<"llm", made + 1>>} ELSE {}
<1>1. /\ sdk' = [obj |-> Pointing(Before(k)), config |-> TRUE] /\ made' = made + 1
      /\ live' = live \cup Objects(here, made + 1) \cup gone /\ lost' = lost \cup Forgotten \cup gone
      /\ cfgLlm' = (IF k > 2 THEN made + 1 ELSE cfgLlm) /\ handlers' = handlers /\ app' = "failed"
  BY DEF InitFails, Makes
<1>2. Before(k) \in SUBSET (SdkParts \ {"tm"}) /\ here \in SUBSET SdkParts /\ here \subseteq Before(k)
  <2>1. Before(k) \in SUBSET (SdkParts \ {"tm"}) BY PartNames
  <2>2. keep \subseteq Before(k)
    <3>1. CASE keep = {} BY <3>1
    <3>2. CASE keep # {} BY <3>2, PartNames
    <3> QED BY <3>1, <3>2
  <2> QED BY <2>1, <2>2
<1>3. gone \in SUBSET (SdkParts \X {made + 1}) BY PartNames
<1>4. TRUE \in BOOLEAN OBVIOUS
<1> HIDE DEF here, gone
<1>5. /\ made' \in Nat /\ sdk' \in [obj : [SdkParts -> Nat], config : BOOLEAN]
      /\ live' \subseteq SdkParts \X (Nat \ {0}) /\ (slips = {} => Reachable')
  BY <1>1, <1>2, <1>3, <1>4, NewContextInv
<1>6. cfgLlm' \in Nat BY <1>1 DEF SetupInv, SetupTypes
<1> QED BY <1>1, <1>5, <1>6 DEF SetupInv, SetupTypes, PointersLive, ClosedEmpty

\* onesdk_init that succeeds, with or without MQTT
LEMMA InitSucceedsInv == ASSUME SetupInv, NEW mqtt \in BOOLEAN, InitSucceeds(mqtt) PROVE SetupInv'
<1> DEFINE parts == Before(5) \cup (IF mqtt THEN {"mqtt"} ELSE {})
<1>1. /\ sdk' = [obj |-> Pointing(parts), config |-> TRUE] /\ made' = made + 1
      /\ live' = live \cup Objects(parts, made + 1) \cup {} /\ lost' = lost \cup Forgotten \cup {}
      /\ cfgLlm' = made + 1 /\ handlers' = 0 /\ app' = "ready" /\ slips' = slips /\ bad' = bad
  BY DEF InitSucceeds, Makes
<1>2. parts \in SUBSET (SdkParts \ {"tm"}) /\ "llm" \in parts /\ parts \in SUBSET SdkParts /\ parts \subseteq parts
  BY PartNames
<1>3. TRUE \in BOOLEAN OBVIOUS
<1> HIDE DEF parts
<1>4. /\ made' \in Nat /\ sdk' \in [obj : [SdkParts -> Nat], config : BOOLEAN]
      /\ live' \subseteq SdkParts \X (Nat \ {0}) /\ (slips = {} => Reachable')
      /\ \A p \in SdkParts : sdk'.obj[p] = IF p \in parts THEN made + 1 ELSE 0
  BY <1>1, <1>2, <1>3, NewContextInv
<1>5. made \in Nat BY DEF SetupInv, SetupTypes
<1>6. PointersLive'
  <2>1. ASSUME NEW p \in SdkParts \ {"tm"}, sdk'.obj[p] # 0 PROVE <<p, sdk'.obj[p]>> \in live'
    <3>1. p \in parts /\ sdk'.obj[p] = made + 1 BY <1>4, <2>1
    <3> QED BY <1>1, <3>1 DEF Objects
  <2>2. sdk'.obj["llm"] = made + 1 BY <1>2, <1>4
  <2> QED BY <1>1, <1>5, <2>1, <2>2 DEF PointersLive
<1> QED BY <1>1, <1>4, <1>5, <1>6 DEF SetupInv, SetupTypes, ClosedEmpty

\* onesdk_iot_enable_log_upload, onesdk_iot_enable_ota
LEMMA EnableInv == ASSUME SetupInv, NEW q \in {"log", "ota"}, Enable(q) PROVE SetupInv'
<1>1. q \in SdkParts /\ q # "tm" /\ q # "llm" BY PartNames
<1>2. /\ made \in Nat /\ made' = made + 1 /\ live \subseteq SdkParts \X (Nat \ {0}) /\ cfgLlm \in Nat /\ handlers \in Nat
      /\ sdk \in [obj : [SdkParts -> Nat], config : BOOLEAN]
      /\ sdk' = [sdk EXCEPT !.obj[q] = made + 1] /\ live' = live \cup {<<q, made + 1>>}
      /\ lost' = lost \cup ({<<q, sdk.obj[q]>>} \cap live)
      /\ cfgLlm' = cfgLlm /\ handlers' = handlers /\ app = "ready" /\ app' = "ready" /\ slips' = slips /\ bad' = bad
  BY DEF SetupInv, SetupTypes, Enable, Makes
<1>3. /\ sdk'.config = sdk.config /\ sdk'.obj \in [SdkParts -> Nat]
      /\ \A p \in SdkParts : sdk'.obj[p] = IF p = q THEN made + 1 ELSE sdk.obj[p]
  BY <1>1, <1>2
<1>4. SetupTypes'
  <2>1. sdk' \in [obj : [SdkParts -> Nat], config : BOOLEAN] BY <1>1, <1>2
  <2>2. live' \subseteq SdkParts \X (Nat \ {0}) BY <1>1, <1>2
  <2> QED BY <1>2, <2>1, <2>2 DEF SetupTypes
<1>5. ASSUME slips = {} PROVE Reachable'
  <2> SUFFICES ASSUME NEW p \in SdkParts, NEW n \in Nat, <<p, n>> \in live', <<p, n>> \notin lost'
               PROVE  sdk'.obj[p] = n
    BY DEF Reachable
  <2>1. CASE <<p, n>> \in live
    <3>1. sdk.obj[p] = n BY <1>2, <1>5, <2>1 DEF SetupInv, Reachable
    <3>2. p # q BY <1>2, <2>1, <3>1
    <3> QED BY <1>3, <3>1, <3>2
  <2>2. CASE <<p, n>> = <<q, made + 1>> BY <1>3, <2>2
  <2> QED BY <1>2, <2>1, <2>2
<1>6. ASSUME slips = {} PROVE PointersLive'
  <2>1. ASSUME NEW p \in SdkParts \ {"tm"}, sdk'.obj[p] # 0 PROVE <<p, sdk'.obj[p]>> \in live'
    <3>1. CASE p = q BY <1>2, <1>3, <3>1
    <3>2. CASE p # q BY <1>2, <1>3, <1>6, <2>1, <3>2 DEF SetupInv, PointersLive
    <3> QED BY <3>1, <3>2
  <2>2. sdk'.obj["llm"] = sdk.obj["llm"] BY <1>1, <1>3, PartNames
  <2>3. /\ sdk.config /\ cfgLlm = sdk.obj["llm"] /\ cfgLlm # 0
        /\ handlers # 0 => <<"tm", handlers>> \in live
    BY <1>2, <1>6 DEF SetupInv, PointersLive
  <2> QED BY <1>2, <1>3, <2>1, <2>2, <2>3 DEF PointersLive
<1> QED BY <1>2, <1>4, <1>5, <1>6 DEF SetupInv, ClosedEmpty

\* onesdk_iot_tm_init
LEMMA TmInitInv == ASSUME SetupInv, onesdk_iot_tm_init PROVE SetupInv'
<1>1. "tm" \in SdkParts /\ "llm" \in SdkParts BY PartNames
<1>2. /\ made \in Nat /\ made' = made + 1 /\ live \subseteq SdkParts \X (Nat \ {0}) /\ cfgLlm \in Nat /\ handlers \in Nat
      /\ sdk \in [obj : [SdkParts -> Nat], config : BOOLEAN] /\ sdk.obj["tm"] = 0
      /\ sdk' = [sdk EXCEPT !.obj["tm"] = made + 1] /\ live' = live \cup {<<"tm", made + 1>>}
      /\ lost' = lost /\ handlers' = (IF handlers = 0 THEN made + 1 ELSE handlers)
      /\ cfgLlm' = cfgLlm /\ app = "ready" /\ app' = "ready" /\ slips' = slips /\ bad' = bad
  BY DEF SetupInv, SetupTypes, onesdk_iot_tm_init, Makes
<1>3. /\ sdk'.config = sdk.config /\ sdk'.obj \in [SdkParts -> Nat]
      /\ \A p \in SdkParts : sdk'.obj[p] = IF p = "tm" THEN made + 1 ELSE sdk.obj[p]
  BY <1>1, <1>2
<1>4. SetupTypes'
  <2>1. sdk' \in [obj : [SdkParts -> Nat], config : BOOLEAN] BY <1>1, <1>2
  <2>2. live' \subseteq SdkParts \X (Nat \ {0}) BY <1>1, <1>2
  <2> QED BY <1>2, <2>1, <2>2 DEF SetupTypes
<1>5. ASSUME slips = {} PROVE Reachable'
  <2> SUFFICES ASSUME NEW p \in SdkParts, NEW n \in Nat, <<p, n>> \in live', <<p, n>> \notin lost'
               PROVE  sdk'.obj[p] = n
    BY DEF Reachable
  <2>1. CASE <<p, n>> \in live
    <3>1. sdk.obj[p] = n BY <1>2, <1>5, <2>1 DEF SetupInv, Reachable
    <3>2. n # 0 BY <1>2, <2>1
    <3> QED BY <1>2, <1>3, <3>1, <3>2
  <2>2. CASE <<p, n>> = <<"tm", made + 1>> BY <1>3, <2>2
  <2> QED BY <1>2, <2>1, <2>2
<1>6. ASSUME slips = {} PROVE PointersLive'
  <2>1. \A p \in SdkParts \ {"tm"} : sdk'.obj[p] # 0 => <<p, sdk'.obj[p]>> \in live'
    BY <1>2, <1>3, <1>6 DEF SetupInv, PointersLive
  <2>2. /\ sdk.config /\ cfgLlm = sdk.obj["llm"] /\ cfgLlm # 0
        /\ handlers # 0 => <<"tm", handlers>> \in live
    BY <1>2, <1>6 DEF SetupInv, PointersLive
  <2> QED BY <1>1, <1>2, <1>3, <2>1, <2>2 DEF PointersLive
<1> QED BY <1>2, <1>4, <1>5, <1>6 DEF SetupInv, ClosedEmpty

\* onesdk_iot_tm_deinit: what follows is a slip, only the types matter.
LEMMA TmDeinitInv == ASSUME SetupInv, onesdk_iot_tm_deinit PROVE SetupInv'
<1>1. "tm" \in SdkParts BY PartNames
<1>2. slips' # {} BY DEF onesdk_iot_tm_deinit
<1>3. sdk' \in [obj : [SdkParts -> Nat], config : BOOLEAN] BY <1>1 DEF onesdk_iot_tm_deinit, SetupInv, SetupTypes
<1> QED BY <1>2, <1>3 DEF SetupInv, SetupTypes, onesdk_iot_tm_deinit

\* A message for the thing model meets a live handler.
LEMMA TmMessageInv == ASSUME SetupInv, TmMessage PROVE SetupInv'
<1>1. slips = {} => ~bad' BY DEF SetupInv, PointersLive, TmMessage
<1> QED BY <1>1 DEF SetupInv, SetupTypes, TmMessage, Reachable, PointersLive, ClosedEmpty

\* onesdk_disconnect
LEMMA DisconnectInv == ASSUME SetupInv, onesdk_disconnect PROVE SetupInv'
<1>1. "chat" \in SdkParts /\ "llm" \in SdkParts BY PartNames
<1>2. /\ made \in Nat /\ made' = made /\ live \subseteq SdkParts \X (Nat \ {0}) /\ cfgLlm \in Nat /\ handlers \in Nat
      /\ sdk \in [obj : [SdkParts -> Nat], config : BOOLEAN]
      /\ sdk' = [sdk EXCEPT !.obj["chat"] = 0] /\ live' = live \ {<<"chat", sdk.obj["chat"]>>}
      /\ lost' = lost /\ handlers' = handlers /\ cfgLlm' = cfgLlm /\ app = "ready" /\ app' = "ready"
  BY DEF SetupInv, SetupTypes, onesdk_disconnect
<1>3. /\ sdk'.config = sdk.config /\ sdk'.obj \in [SdkParts -> Nat]
      /\ \A p \in SdkParts : sdk'.obj[p] = IF p = "chat" THEN 0 ELSE sdk.obj[p]
  BY <1>1, <1>2
<1>4. SetupTypes'
  <2>1. sdk' \in [obj : [SdkParts -> Nat], config : BOOLEAN] BY <1>1, <1>2
  <2> QED BY <1>2, <2>1 DEF SetupTypes
<1>5. ASSUME slips' = {} PROVE slips = {} /\ ~bad'
  BY <1>5 DEF SetupInv, onesdk_disconnect
<1>6. ASSUME slips = {} PROVE Reachable'
  <2> SUFFICES ASSUME NEW p \in SdkParts, NEW n \in Nat, <<p, n>> \in live', <<p, n>> \notin lost'
               PROVE  sdk'.obj[p] = n
    BY DEF Reachable
  <2>1. sdk.obj[p] = n BY <1>2, <1>6 DEF SetupInv, Reachable
  <2>2. p # "chat" BY <1>2, <2>1
  <2> QED BY <1>3, <2>1, <2>2
<1>7. ASSUME slips = {} PROVE PointersLive'
  <2>1. ASSUME NEW p \in SdkParts \ {"tm"}, sdk'.obj[p] # 0 PROVE <<p, sdk'.obj[p]>> \in live'
    <3>1. p # "chat" /\ sdk'.obj[p] = sdk.obj[p] BY <1>3, <2>1
    <3>2. <<p, sdk.obj[p]>> \in live BY <1>2, <1>7, <2>1, <3>1 DEF SetupInv, PointersLive
    <3> QED BY <1>2, <3>1, <3>2
  <2>2. /\ sdk.config /\ cfgLlm = sdk.obj["llm"] /\ cfgLlm # 0
        /\ handlers # 0 => <<"tm", handlers>> \in live
    BY <1>2, <1>7 DEF SetupInv, PointersLive
  <2> QED BY <1>1, <1>2, <1>3, <2>1, <2>2 DEF PointersLive
<1> QED BY <1>2, <1>4, <1>5, <1>6, <1>7 DEF SetupInv, ClosedEmpty

\* onesdk_deinit
LEMMA DeinitInv == ASSUME SetupInv, onesdk_deinit PROVE SetupInv'
<1>1. "chat" \in SdkParts /\ "llm" \in SdkParts BY PartNames
<1>2. /\ made \in Nat /\ made' = made /\ live \subseteq SdkParts \X (Nat \ {0}) /\ cfgLlm \in Nat /\ handlers \in Nat
      /\ sdk \in [obj : [SdkParts -> Nat], config : BOOLEAN]
      /\ sdk' = [sdk EXCEPT !.obj["chat"] = 0] /\ live' = live \ ContextObjects
      /\ lost' = lost /\ handlers' = handlers /\ cfgLlm' = cfgLlm /\ app' = "closed"
      /\ app \in {"closed", "ready", "failed"}
  BY DEF SetupInv, SetupTypes, onesdk_deinit
<1>3. \A p \in SdkParts : sdk'.obj[p] = IF p = "chat" THEN 0 ELSE sdk.obj[p] BY <1>1, <1>2
<1>4. SetupTypes'
  <2>1. sdk' \in [obj : [SdkParts -> Nat], config : BOOLEAN] BY <1>1, <1>2
  <2>2. live' \subseteq SdkParts \X (Nat \ {0}) BY <1>2
  <2> QED BY <1>2, <2>1, <2>2 DEF SetupTypes
<1> SUFFICES ASSUME slips' = {} PROVE ~bad' /\ Reachable' /\ PointersLive' /\ ClosedEmpty'
  BY <1>4 DEF SetupInv
<1>5. app = "ready" /\ slips = {}
  <2>1. CASE app = "ready" BY <2>1 DEF onesdk_deinit
  <2>2. CASE app = "closed" BY <2>2 DEF onesdk_deinit
  <2>3. CASE app = "failed" BY <2>3 DEF onesdk_deinit
  <2> QED BY <1>2, <2>1, <2>2, <2>3
<1>6. /\ ~bad /\ Reachable /\ sdk.config /\ cfgLlm = sdk.obj["llm"] /\ cfgLlm # 0
      /\ \A p \in SdkParts \ {"tm"} : sdk.obj[p] # 0 => <<p, sdk.obj[p]>> \in live
  BY <1>5 DEF SetupInv, PointersLive
<1>7. ContextObjects \subseteq live BY <1>1, <1>6 DEF ContextObjects
<1>8. ~bad' BY <1>6, <1>7 DEF onesdk_deinit
<1>9. ASSUME NEW p \in SdkParts, NEW n \in Nat, <<p, n>> \in live', <<p, n>> \notin lost'
      PROVE  p = "tm" /\ sdk'.obj[p] = n
  <2>1. <<p, n>> \in live /\ <<p, n>> \notin ContextObjects /\ n # 0 BY <1>2, <1>9
  <2>2. sdk.obj[p] = n BY <1>2, <1>6, <1>9, <2>1 DEF Reachable
  <2>3. p # "llm" BY <1>6, <2>1, <2>2 DEF ContextObjects
  <2>4. p = "tm"
    <3>1. p \notin SdkParts \ {"llm", "tm"} BY <2>1, <2>2 DEF ContextObjects
    <3> QED BY <2>3, <3>1
  <2> QED BY <1>3, <2>2, <2>4
<1> QED BY <1>2, <1>8, <1>9 DEF Reachable, PointersLive, ClosedEmpty

-----------------------------------------------------------------------------
\* Every step keeps the invariant.
LEMMA SetupStep == SetupInv /\ [SetupNext]_setupVars => SetupInv'
<1> SUFFICES ASSUME SetupInv, [SetupNext]_setupVars PROVE SetupInv'
  OBVIOUS
<1>1. ASSUME NEW s \in Secrets, RegisterFails(s) PROVE SetupInv'
  <2>1. InitFails(1, {}) /\ slips' = slips /\ bad' = bad BY <1>1 DEF RegisterFails
  <2>2. 1 \in 1 .. 5 /\ {} \in SUBSET {"basic"} OBVIOUS
  <2> QED BY <2>1, <2>2, InitFailsInv
<1>2. ASSUME NEW s \in Secrets, LlmFails(s) PROVE SetupInv'
  <2>1. InitFails(2, {}) BY <1>2 DEF LlmFails
  <2>2. slips' = {} => slips = {} /\ (bad' => bad) BY <1>2 DEF LlmFails
  <2>3. 2 \in 1 .. 5 /\ {} \in SUBSET {"basic"} OBVIOUS
  <2> QED BY <2>1, <2>2, <2>3, InitFailsInv
<1>3. ASSUME LaterFails PROVE SetupInv'
  <2>1. PICK k \in 3 .. 5 : InitFails(k, {}) BY <1>3 DEF LaterFails
  <2>2. slips' = slips /\ bad' = bad BY <1>3 DEF LaterFails
  <2>3. k \in 1 .. 5 /\ {} \in SUBSET {"basic"} OBVIOUS
  <2> QED BY <2>1, <2>2, <2>3, InitFailsInv
<1>4. ASSUME MqttNoMemory PROVE SetupInv'
  <2>1. InitFails(5, {"basic"}) /\ slips' = slips /\ bad' = bad BY <1>4 DEF MqttNoMemory
  <2>2. 5 \in 1 .. 5 /\ {"basic"} \in SUBSET {"basic"} OBVIOUS
  <2> QED BY <2>1, <2>2, InitFailsInv
<1>5. CASE UNCHANGED setupVars
  BY <1>5 DEF setupVars, SetupInv, SetupTypes, Reachable, PointersLive, ClosedEmpty
<1>6. CASE SetupNext
  BY <1>1, <1>2, <1>3, <1>4, <1>6, NoConfigInv, InitSucceedsInv, EnableInv, TmInitInv, TmDeinitInv, TmMessageInv,
     DisconnectInv, DeinitInv DEF SetupNext
<1> QED BY <1>5, <1>6

\* The application has a zeroed context and no object.
LEMMA SetupStarts == SetupInit => SetupInv
BY PartNames DEF SetupInit, SetupInv, SetupTypes, Reachable, PointersLive, ClosedEmpty, Zeroed

\* Every credential says what it has signed.
LEMMA CredentialsSay ==
  \A use \in {"register", "chat", "ws", "mqtt", "llm"}, a \in AuthTypes :
    Credential(use, a).signs = Credential(use, a).says
BY DEF Credential, AuthTypes

\* The invariant gives SetupReleasesOnce.
LEMMA SetupReleases == SetupInv => SetupReleasesOnce
<1> SUFFICES ASSUME SetupInv PROVE SetupReleasesOnce
  OBVIOUS
<1>1. bad => slips # {} BY DEF SetupInv
<1>2. ASSUME app = "closed", slips = {} PROVE live \subseteq lost \cup {<<"tm", sdk.obj["tm"]>>}
  <2> SUFFICES ASSUME NEW o \in live, o \notin lost PROVE o = <<"tm", sdk.obj["tm"]>>
    OBVIOUS
  <2>1. PICK p \in SdkParts, n \in Nat : o = <<p, n>> BY DEF SetupInv, SetupTypes
  <2>2. p = "tm" /\ sdk.obj[p] = n BY <1>2, <2>1 DEF SetupInv, Reachable, ClosedEmpty
  <2> QED BY <2>1, <2>2
<1> QED BY <1>1, <1>2, CredentialsSay DEF SetupReleasesOnce

\* Through any number of initialisations, failed ones included, switches and deinits:
\* no object of an SDK context is released twice or used afterwards, and a deinit
\* leaves only what was lost and the thing model, unless the application has slipped.
THEOREM ContextReleasedOnce == SetupSpec => []SetupReleasesOnce
<1> QED BY SetupStarts, SetupStep, SetupReleases, PTL DEF SetupSpec
-----------------------------------------------------------------------------
(* Log.  A thread takes one line at a time through the list, so its batch is *)
(* that line or nothing, and a line is younger than all its thread has       *)
(* published.                                                              *)

Line == [id : Nat, level : Int, by : AllThreads]
LogThread(a) == a = [pc |-> a.pc, batch |-> a.batch, then |-> a.then, config |-> a.config]

LogTypes ==
  /\ log = [finished |-> log.finished, save |-> log.save, lines |-> <<>>]
  /\ handler = [exists |-> handler.exists, on |-> handler.on, lowest |-> handler.lowest, owner |-> handler.owner]
  /\ nline \in Nat /\ nconf \in Nat /\ published \in Seq(Line)
  /\ at = [t \in AllThreads |-> at[t]] /\ \A t \in AllThreads : LogThread(at[t])

\* The mutex of the handler is the service thread's, while it handles a configuration.
HandlerMutex ==
  /\ handler.owner = Nobody \/ (handler.owner = LogService /\ nconf > 0)
  /\ at[LogService].pc = "config" \/ at[LogService].then = "config" => nconf > 0

\* b is what thread t has on its way: nothing, or a line younger than those it published.
Batch(t, b) ==
  \/ b = <<>>
  \/ \E x \in Line : /\ b = <<x>> /\ x.by = t /\ x.id <= nline
                     /\ \A i \in DOMAIN published : published[i].by = t => published[i].id < x.id
SentInOrder ==
  /\ \A i, j \in DOMAIN published : i < j /\ published[i].by = published[j].by => published[i].id < published[j].id
  /\ \A i \in DOMAIN published : published[i].id <= nline
  /\ \A t \in AllThreads : Batch(t, at[t].batch)

LogInv == LogTypes /\ HandlerMutex /\ SentInOrder

\* s_common_log_report publishes a line or not.
LEMMA ReportedLine ==
  ASSUME NEW x PROVE LinesToReport(<<x>>) \in {<<>>, <<x>>}
<1> DEFINE G(f) == [i \in 0 .. Len(<<x>>) |->
                      IF i = 0 THEN <<>>
                      ELSE IF <<x>>[i].level <= handler.lowest THEN Append(f[i - 1], <<x>>[i]) ELSE f[i - 1]]
           one == IF x.level <= handler.lowest THEN <<x>> ELSE <<>>
           h == [i \in 0 .. 1 |-> IF i = 0 THEN <<>> ELSE one]
           kept == CHOOSE f : f = G(f)
<1>1. Len(<<x>>) = 1 /\ <<x>>[1] = x /\ Append(<<>>, x) = <<x>> /\ 1 - 1 = 0 /\ 1 # 0 /\ 0 .. 1 = {0, 1} OBVIOUS
<1>2. h[0] = <<>> /\ h[1] = one OBVIOUS
<1>3. h = G(h)
  <2>1. ASSUME NEW i \in 0 .. 1 PROVE h[i] = G(h)[i]
    <3>1. CASE i = 0 BY <1>1, <1>2, <3>1
    <3>2. CASE i = 1 BY <1>1, <1>2, <3>2
    <3> QED BY <1>1, <3>1, <3>2
  <2> QED BY <1>1, <2>1
<1>4. kept = G(kept) BY <1>3
<1>5. kept[0] = <<>> /\ kept[1] \in {<<>>, <<x>>}
  <2> HIDE DEF kept
  <2>1. kept[0] = <<>> BY <1>1, <1>4
  <2>2. kept[1] = IF x.level <= handler.lowest THEN Append(kept[0], x) ELSE kept[0] BY <1>1, <1>4
  <2> QED BY <1>1, <2>1, <2>2
<1>6. LinesToReport(<<x>>) = IF handler.on THEN kept[1] ELSE <<>> BY <1>1 DEF LinesToReport
<1> QED BY <1>5, <1>6

\* No lines, nothing to publish.
LEMMA EmptyReported == LinesToReport(<<>>) = <<>>
<1> DEFINE G(f) == [i \in 0 .. Len(<<>>) |->
                      IF i = 0 THEN <<>>
                      ELSE IF <<>>[i].level <= handler.lowest THEN Append(f[i - 1], <<>>[i]) ELSE f[i - 1]]
           h == [i \in 0 .. 0 |-> <<>>]
           kept == CHOOSE f : f = G(f)
<1>1. Len(<<>>) = 0 /\ 0 .. 0 = {0} OBVIOUS
<1>2. h = G(h) BY <1>1
<1>3. kept = G(kept) BY <1>2
<1>4. kept[0] = <<>>
  <2> HIDE DEF kept
  <2> QED BY <1>1, <1>3
<1>5. LinesToReport(<<>>) = IF handler.on THEN kept[0] ELSE <<>> BY <1>1 DEF LinesToReport
<1> QED BY <1>4, <1>5

\* _log_format: nothing is cut while the prefix has the length the code reckons with.
LEMMA FormatWhole ==
  ASSUME LogConstants, NEW p \in 0 .. MaxPrefix + 8, NEW n \in Nat
  PROVE  _log_format(p, n) = [prefix |-> p, text |-> n, newline |-> 1]
<1>1. PICK room : room = (n + 10 + MaxPrefix) - 1 OBVIOUS
<1>2. MaxPrefix \in Nat /\ ~(p > room) /\ ~(n > room - p) /\ ~(1 > room - p - n) BY <1>1 DEF LogConstants
<1> QED BY <1>1, <1>2 DEF _log_format

\* A thread changes its own record, nothing is published, and lines are numbered upwards.
LEMMA ThreadMoves ==
  ASSUME LogInv, NEW t \in AllThreads, NEW r, LogThread(r), at' = [at EXCEPT ![t] = r],
         nline' \in Nat, nline <= nline', published' = published,
         r.batch = <<>> \/ r.batch = at[t].batch
           \/ \E x \in Line : r.batch = <<x>> /\ x.by = t /\ x.id = nline' /\ nline < nline'
  PROVE  SentInOrder' /\ (at = [u \in AllThreads |-> at[u]] /\ \A u \in AllThreads : LogThread(at[u]))'
<1>1. at = [u \in AllThreads |-> at[u]] /\ \A u \in AllThreads : LogThread(at[u]) BY DEF LogInv, LogTypes
<1>2. \A u \in AllThreads : at'[u] = IF u = t THEN r ELSE at[u] BY <1>1
<1>3. at' = [u \in AllThreads |-> at'[u]] /\ \A u \in AllThreads : LogThread(at'[u])
  <2>1. DOMAIN at = AllThreads BY <1>1
  <2>2. DOMAIN at' = AllThreads BY <2>1
  <2> QED BY <1>1, <1>2, <2>2
<1>4. published \in Seq(Line) /\ nline \in Nat BY DEF LogInv, LogTypes
<1>5. \A i \in DOMAIN published : published[i].id \in Nat /\ published[i].id <= nline
  <2>1. \A i \in DOMAIN published : published[i] \in Line BY <1>4
  <2> QED BY <2>1 DEF LogInv, SentInOrder, Line
<1>6. \A k \in Nat : k <= nline => k <= nline' BY <1>4
<1>7. \A k \in Nat : k <= nline /\ nline < nline' => k < nline' BY <1>4
<1>8. ASSUME NEW u \in AllThreads PROVE Batch(u, at[u].batch)'
  <2>1. ASSUME at'[u].batch = at[u].batch PROVE Batch(u, at[u].batch)'
    <3>1. Batch(u, at[u].batch) BY DEF LogInv, SentInOrder
    <3>2. CASE at[u].batch = <<>> BY <2>1, <3>2 DEF Batch
    <3>3. CASE at[u].batch # <<>>
      <4>1. PICK x \in Line : /\ at[u].batch = <<x>> /\ x.by = u /\ x.id <= nline
                              /\ \A i \in DOMAIN published : published[i].by = u => published[i].id < x.id
        BY <3>1, <3>3 DEF Batch
      <4>2. x.id <= nline' BY <1>6, <4>1 DEF Line
      <4> QED BY <2>1, <4>1, <4>2 DEF Batch
    <3> QED BY <3>2, <3>3
  <2>2. CASE u # t
    <3>1. at'[u] = at[u] BY <1>2, <2>2
    <3> QED BY <2>1, <3>1
  <2>3. CASE u = t
    <3>1. at'[u] = r BY <1>2, <2>3
    <3>2. CASE r.batch = <<>> BY <3>1, <3>2 DEF Batch
    <3>3. CASE r.batch = at[t].batch BY <2>1, <2>3, <3>1, <3>3
    <3>4. ASSUME NEW x \in Line, r.batch = <<x>>, x.by = t, x.id = nline', nline < nline' PROVE Batch(u, at[u].batch)'
      <4>1. \A i \in DOMAIN published : published[i].id < x.id BY <1>5, <1>7, <3>4
      <4>2. x.id <= nline' BY <3>4
      <4> QED BY <2>3, <3>1, <3>4, <4>1, <4>2 DEF Batch
    <3> QED BY <3>2, <3>3, <3>4
  <2> QED BY <2>2, <2>3
<1>9. \A i \in DOMAIN published : published[i].id <= nline' BY <1>5, <1>6
<1> QED BY <1>3, <1>8, <1>9 DEF SentInOrder, LogInv

\* A thread goes to another step, and the service thread not to a configuration.
LEMMA GoesInv ==
  ASSUME LogInv, NEW t \in AllThreads, NEW r, LogThread(r), at' = [at EXCEPT ![t] = r],
         r.batch = <<>> \/ r.batch = at[t].batch, r.then = at[t].then, r.pc # "config" \/ r.pc = at[t].then,
         UNCHANGED <<log, handler, nline, nconf, published>>
  PROVE  LogInv'
<1>1. nline \in Nat /\ nline <= nline BY DEF LogInv, LogTypes
<1>2. SentInOrder' /\ (at = [u \in AllThreads |-> at[u]] /\ \A u \in AllThreads : LogThread(at[u]))'
  BY <1>1, ThreadMoves
<1>3. LogTypes' BY <1>2 DEF LogInv, LogTypes
<1>4. LogService \in AllThreads /\ DOMAIN at = AllThreads BY DEF AllThreads, LogInv, LogTypes
<1>5. at'[LogService] = IF LogService = t THEN r ELSE at[LogService] BY <1>4
<1>6. HandlerMutex' BY <1>5 DEF LogInv, HandlerMutex
<1> QED BY <1>2, <1>3, <1>6 DEF LogInv

\* sdk_log_print
LEMMA FormatsInv ==
  ASSUME LogInv, NEW t \in AllThreads, NEW level \in Int, NEW then, Formats(t, level, then),
         then # "config", log' = log, nconf' = nconf, published' = published,
         handler' = [handler EXCEPT !.owner = handler'.owner],
         handler'.owner = handler.owner \/ (handler'.owner = LogService /\ nconf > 0)
  PROVE  LogInv'
<1>1. nline \in Nat /\ nline <= nline /\ LogThread(at[t]) /\ DOMAIN at = AllThreads /\ nline + 1 \in Nat
      /\ nline <= nline + 1 /\ nline < nline + 1
  BY DEF LogInv, LogTypes
<1>2. PICK r : /\ at' = [at EXCEPT ![t] = r] /\ LogThread(r)
               /\ \/ r.pc = then /\ r.then = at[t].then /\ r.batch = at[t].batch /\ nline' = nline
                  \/ /\ r.pc = "formatted" /\ r.then = then /\ nline' = nline + 1
                     /\ r.batch = <<[id |-> nline + 1, level |-> level, by |-> t]>>
  <2>1. CASE log.finished
    <3>1. PICK r : r = [at[t] EXCEPT !.pc = then] OBVIOUS
    <3>2. at' = [at EXCEPT ![t] = r] /\ nline' = nline BY <1>1, <2>1, <3>1 DEF Formats
    <3>3. LogThread(r) /\ r.pc = then /\ r.then = at[t].then /\ r.batch = at[t].batch BY <1>1, <3>1 DEF LogThread
    <3> QED BY <3>2, <3>3
  <2>2. CASE ~log.finished
    <3>1. PICK b : b = <<[id |-> nline + 1, level |-> level, by |-> t]>> OBVIOUS
    <3>2. PICK r : r = [at[t] EXCEPT !.pc = "formatted", !.then = then, !.batch = b] OBVIOUS
    <3>3. at' = [at EXCEPT ![t] = r] /\ nline' = nline + 1 BY <1>1, <2>2, <3>1, <3>2 DEF Formats
    <3>4. LogThread(r) /\ r.pc = "formatted" /\ r.then = then /\ r.batch = b BY <1>1, <3>2 DEF LogThread
    <3> QED BY <3>1, <3>3, <3>4
  <2> QED BY <2>1, <2>2
<1>3. nline' \in Nat /\ nline <= nline' BY <1>1, <1>2
<1>4. \/ r.batch = at[t].batch
      \/ \E x \in Line : r.batch = <<x>> /\ x.by = t /\ x.id = nline' /\ nline < nline'
  <2>1. PICK x : x = [id |-> nline + 1, level |-> level, by |-> t] OBVIOUS
  <2>2. x \in Line /\ x.by = t /\ x.id = nline + 1 BY <1>1, <2>1 DEF Line
  <2> QED BY <1>1, <1>2, <2>1, <2>2
<1>5. SentInOrder' /\ (at = [u \in AllThreads |-> at[u]] /\ \A u \in AllThreads : LogThread(at[u]))'
  BY <1>2, <1>3, <1>4, ThreadMoves
<1>6. handler' = [exists |-> handler'.exists, on |-> handler'.on, lowest |-> handler'.lowest, owner |-> handler'.owner]
  BY DEF LogInv, LogTypes
<1>7. LogTypes' BY <1>3, <1>5, <1>6 DEF LogInv, LogTypes
<1>8. LogService \in AllThreads BY DEF AllThreads
<1>9. at'[LogService] = IF LogService = t THEN r ELSE at[LogService] BY <1>1, <1>2, <1>8
<1>10. HandlerMutex' BY <1>2, <1>9 DEF LogInv, HandlerMutex
<1> QED BY <1>5, <1>7, <1>10 DEF LogInv

\* The calls of the application leave the threads where they are.
LEMMA AppInv ==
  ASSUME LogInv, UNCHANGED <<at, nline, nconf, published>>, handler'.owner = handler.owner,
         log' = [finished |-> log'.finished, save |-> log'.save, lines |-> <<>>],
         handler' = [exists |-> handler'.exists, on |-> handler'.on, lowest |-> handler'.lowest, owner |-> handler'.owner]
  PROVE  LogInv'
<1>1. LogTypes' BY DEF LogInv, LogTypes
<1>2. HandlerMutex' BY DEF LogInv, HandlerMutex
<1>3. SentInOrder' BY DEF LogInv, SentInOrder, Batch
<1> QED BY <1>1, <1>2, <1>3 DEF LogInv

\* s_log_report_on_log_save_fn and the publish, which may be refused
LEMMA SaveInv == ASSUME LogInv, NEW t \in AllThreads, Save(t) PROVE LogInv'
<1>1. PICK b : b = at[t].batch OBVIOUS
<1>2. Batch(t, b) /\ LogThread(at[t]) /\ DOMAIN at = AllThreads /\ published \in Seq(Line)
  BY <1>1 DEF LogInv, LogTypes, SentInOrder
<1>3. PICK r : r = [at[t] EXCEPT !.pc = "saved", !.batch = <<>>] OBVIOUS
<1>4. at' = [at EXCEPT ![t] = r] /\ UNCHANGED <<log, handler, nline, nconf>> BY <1>2, <1>3 DEF Save
<1>5. LogThread(r) /\ r.pc = "saved" /\ r.batch = <<>> /\ r.then = at[t].then BY <1>2, <1>3 DEF LogThread
<1>6. CASE published' = published BY <1>4, <1>5, <1>6, GoesInv
<1>7. CASE published' # published
  <2>1. published' = published \o LinesToReport(b) BY <1>1, <1>7 DEF Save
  <2>2. b # <<>>
    <3>1. ASSUME b = <<>> PROVE LinesToReport(b) = <<>>
      BY <3>1, EmptyReported
    <3>2. published \o <<>> = published BY <1>2
    <3> QED BY <1>7, <2>1, <3>1, <3>2
  <2>3. PICK x \in Line : /\ b = <<x>> /\ x.by = t /\ x.id <= nline
                          /\ \A i \in DOMAIN published : published[i].by = t => published[i].id < x.id
    BY <1>2, <2>2 DEF Batch
  <2>4. LinesToReport(b) \in {<<>>, <<x>>} BY <2>3, ReportedLine
  <2>5. published' = Append(published, x)
    <3>1. published \o <<>> = published /\ published \o <<x>> = Append(published, x) BY <1>2
    <3> QED BY <1>7, <2>1, <2>4, <3>1
  <2>6. /\ published' \in Seq(Line)
        /\ \A i \in DOMAIN published' : (i \in DOMAIN published /\ published'[i] = published[i]) \/ (i = Len(published) + 1 /\ published'[i] = x)
    BY <1>2, <2>5
  <2>7. \A i \in DOMAIN published : i \in 1 .. Len(published) /\ Len(published) \in Nat BY <1>2
  <2>8. ASSUME NEW i \in DOMAIN published', NEW j \in DOMAIN published', i < j, published'[i].by = published'[j].by
        PROVE  published'[i].id < published'[j].id
    <3>1. CASE j \in DOMAIN published /\ published'[j] = published[j]
      <4>1. i # Len(published) + 1 BY <2>7, <2>8, <3>1
      <4>2. i \in DOMAIN published /\ published'[i] = published[i] BY <2>6, <4>1
      <4> QED BY <2>8, <3>1, <4>2 DEF LogInv, SentInOrder
    <3>2. CASE j = Len(published) + 1 /\ published'[j] = x
      <4>1. i # Len(published) + 1 BY <2>8, <3>2, <1>2
      <4>2. i \in DOMAIN published /\ published'[i] = published[i] BY <2>6, <4>1
      <4> QED BY <2>3, <2>8, <3>2, <4>2
    <3> QED BY <2>6, <3>1, <3>2
  <2>9. \A i \in DOMAIN published' : published'[i].id <= nline BY <2>3, <2>6 DEF LogInv, SentInOrder
  <2>10. \A u \in AllThreads : at'[u] = IF u = t THEN r ELSE at[u] BY <1>2, <1>4
  <2>11. ASSUME NEW u \in AllThreads PROVE Batch(u, at[u].batch)'
    <3>1. CASE u = t BY <1>5, <2>10, <3>1 DEF Batch
    <3>2. CASE u # t
      <4>1. at'[u] = at[u] /\ Batch(u, at[u].batch) BY <2>10, <3>2 DEF LogInv, SentInOrder
      <4>2. \A i \in DOMAIN published' : published'[i].by = u => i \in DOMAIN published /\ published'[i] = published[i] BY <2>3, <2>6, <3>2
      <4>3. CASE at[u].batch = <<>> BY <4>1, <4>3 DEF Batch
      <4>4. CASE at[u].batch # <<>>
        <5>1. PICK y \in Line : /\ at[u].batch = <<y>> /\ y.by = u /\ y.id <= nline
                                /\ \A i \in DOMAIN published : published[i].by = u => published[i].id < y.id
          BY <4>1, <4>4 DEF Batch
        <5>2. \A i \in DOMAIN published' : published'[i].by = u => published'[i].id < y.id BY <4>2, <5>1
        <5> QED BY <1>4, <4>1, <5>1, <5>2 DEF Batch
      <4> QED BY <4>3, <4>4
    <3> QED BY <3>1, <3>2
  <2>12. SentInOrder' BY <1>4, <2>8, <2>9, <2>11 DEF SentInOrder
  <2>13. at' = [u \in AllThreads |-> at'[u]] /\ \A u \in AllThreads : LogThread(at'[u])
    <3>1. DOMAIN at' = AllThreads BY <1>2, <1>4
    <3>2. \A u \in AllThreads : LogThread(at[u]) BY DEF LogInv, LogTypes
    <3>3. at' = [u \in AllThreads |-> at'[u]] BY <1>2, <1>4, <3>1 DEF LogInv, LogTypes
    <3> QED BY <1>5, <2>10, <3>2, <3>3
  <2>14. LogTypes' BY <1>4, <2>6, <2>13 DEF LogInv, LogTypes
  <2>15. LogService \in AllThreads BY DEF AllThreads
  <2>16. HandlerMutex' BY <1>4, <1>5, <2>10, <2>15 DEF LogInv, HandlerMutex
  <2> QED BY <2>12, <2>14, <2>16 DEF LogInv
<1> QED BY <1>6, <1>7

\* s_log_rev_log_report_config begins: its first line.
LEMMA ConfigArrivesInv == ASSUME LogInv, NEW c, ConfigArrives(c) PROVE LogInv'
<1>1. PICK x : x = [id |-> nline + 1, level |-> DEBUG, by |-> LogService] OBVIOUS
<1>2. PICK r : r = [pc |-> "formatted", then |-> "config", config |-> c, batch |-> <<x>>] OBVIOUS
<1>3. /\ at' = [at EXCEPT ![LogService] = r] /\ nline' = nline + 1 /\ nconf' = nconf + 1
      /\ UNCHANGED <<log, handler, published>>
  BY <1>1, <1>2 DEF ConfigArrives
<1>4. nline \in Nat /\ nconf \in Nat /\ DOMAIN at = AllThreads /\ LogService \in AllThreads
  BY DEF LogInv, LogTypes, AllThreads
<1>5. nline' \in Nat /\ nline <= nline' /\ nline < nline' /\ nconf' \in Nat /\ nconf' > 0
  <2>1. nline' = nline + 1 /\ nconf' = nconf + 1 BY <1>3
  <2> QED BY ONLY <1>4, <2>1
<1>6. x \in Line /\ x.by = LogService /\ x.id = nline'
  <2>1. nline + 1 \in Nat /\ DEBUG \in Int BY <1>4 DEF DEBUG
  <2> QED BY <1>1, <1>3, <1>4, <2>1 DEF Line
<1>7. LogThread(r) /\ r.batch = <<x>> BY <1>2 DEF LogThread
<1>8. SentInOrder' /\ (at = [u \in AllThreads |-> at[u]] /\ \A u \in AllThreads : LogThread(at[u]))'
  BY <1>3, <1>4, <1>5, <1>6, <1>7, ThreadMoves
<1>9. LogTypes' BY <1>3, <1>5, <1>8 DEF LogInv, LogTypes
<1>10. HandlerMutex' BY <1>3, <1>5 DEF LogInv, HandlerMutex
<1> QED BY <1>8, <1>9, <1>10 DEF LogInv

\* The configuration is applied and the mutex released.
LEMMA ConfigAppliedInv == ASSUME LogInv, ConfigApplied PROVE LogInv'
<1>1. PICK r : r = [at[LogService] EXCEPT !.pc = "idle"] OBVIOUS
<1>2. LogService \in AllThreads /\ DOMAIN at = AllThreads /\ LogThread(at[LogService]) /\ nline \in Nat /\ nline <= nline
  <2>1. LogService \in AllThreads BY DEF AllThreads
  <2>2. nline \in Nat /\ nline <= nline BY DEF LogInv, LogTypes
  <2> QED BY <2>1, <2>2 DEF LogInv, LogTypes
<1>3. /\ at' = [at EXCEPT ![LogService] = r] /\ UNCHANGED <<log, nline, nconf, published>> /\ handler'.owner = Nobody
      /\ handler' = [exists |-> handler'.exists, on |-> handler'.on, lowest |-> handler'.lowest, owner |-> handler'.owner]
  <2>1. at' = [at EXCEPT ![LogService] = r] /\ UNCHANGED <<log, nline, nconf, published>>
    BY <1>1, <1>2 DEF ConfigApplied, Goes
  <2>2. PICK on, lowest : handler' = [handler EXCEPT !.owner = Nobody, !.on = on, !.lowest = lowest]
    BY DEF ConfigApplied
  <2> QED BY <2>1, <2>2 DEF LogInv, LogTypes
<1>4. LogThread(r) /\ r.pc = "idle" /\ r.batch = at[LogService].batch /\ r.then = at[LogService].then
  BY <1>1, <1>2 DEF LogThread
<1>5. SentInOrder' /\ (at = [u \in AllThreads |-> at[u]] /\ \A u \in AllThreads : LogThread(at[u]))'
  BY <1>2, <1>3, <1>4, ThreadMoves
<1>6. LogTypes' BY <1>3, <1>5 DEF LogInv, LogTypes
<1>7. at'[LogService] = r BY <1>2, <1>3
<1>8. HandlerMutex' BY <1>3, <1>4, <1>7 DEF LogInv, HandlerMutex
<1> QED BY <1>5, <1>6, <1>8 DEF LogInv

\* Every step keeps the invariant.
LEMMA LogStep == LogConstants /\ LogInv /\ [LogNext]_logVars => LogInv'
<1> SUFFICES ASSUME LogConstants, LogInv, [LogNext]_logVars PROVE LogInv'
  OBVIOUS
<1>0. /\ log = [finished |-> log.finished, save |-> log.save, lines |-> <<>>]
      /\ handler = [exists |-> handler.exists, on |-> handler.on, lowest |-> handler.lowest, owner |-> handler.owner]
      /\ DOMAIN at = AllThreads /\ \A t \in AllThreads : LogThread(at[t])
  BY DEF LogInv, LogTypes
<1>1. CASE UNCHANGED logVars
  BY <1>0, <1>1, AppInv DEF logVars
<1>2. ASSUME NEW t \in AllThreads, NEW pc, pc # "config" \/ pc = at[t].then, Goes(t, pc),
             UNCHANGED <<log, handler, nline, nconf, published>>
      PROVE  LogInv'
  <2>1. PICK r : r = [at[t] EXCEPT !.pc = pc] OBVIOUS
  <2>2. LogThread(r) /\ r.pc = pc /\ r.batch = at[t].batch /\ r.then = at[t].then BY <1>0, <2>1 DEF LogThread
  <2>3. at' = [at EXCEPT ![t] = r] BY <1>0, <1>2, <2>1 DEF Goes
  <2> QED BY <1>2, <2>2, <2>3, GoesInv
<1>3. ASSUME NEW t \in AllThreads, Lock(t) PROVE LogInv' BY <1>2, <1>3 DEF Lock
<1>4. ASSUME NEW t \in AllThreads, WriteLog(t) PROVE LogInv'
  <2>1. PICK r : r = [at[t] EXCEPT !.pc = "swapped"] OBVIOUS
  <2>2. LogThread(r) /\ r.pc = "swapped" /\ r.batch = at[t].batch /\ r.then = at[t].then BY <1>0, <2>1 DEF LogThread
  <2>3. log.lines = <<>> /\ log' = log
    <3>1. log.lines = <<>> BY <1>0
    <3>2. log' = [log EXCEPT !.lines = <<>>] BY <1>4 DEF WriteLog
    <3> QED BY <1>0, <3>1, <3>2
  <2>4. <<>> \o at[t].batch = at[t].batch
    <3>1. Batch(t, at[t].batch) BY DEF LogInv, SentInOrder
    <3>2. at[t].batch \in Seq(Line)
      <4>1. <<>> \in Seq(Line) /\ \A x \in Line : <<x>> \in Seq(Line) OBVIOUS
      <4> QED BY <3>1, <4>1 DEF Batch
    <3> QED BY <3>2
  <2>5. at' = [at EXCEPT ![t] = [at[t] EXCEPT !.pc = "swapped", !.batch = log.lines \o at[t].batch]]
    BY <1>0, <1>4 DEF WriteLog
  <2>6. [at[t] EXCEPT !.pc = "swapped", !.batch = at[t].batch] = r BY <1>0, <2>1 DEF LogThread
  <2>7. at' = [at EXCEPT ![t] = r] BY <2>3, <2>4, <2>5, <2>6
  <2> QED BY <1>4, <2>2, <2>3, <2>7, GoesInv DEF WriteLog
<1>5. ASSUME NEW t \in AllThreads, Save(t) PROVE LogInv' BY <1>5, SaveInv
<1>6. ASSUME NEW t \in AllThreads, UnlockAgain(t) PROVE LogInv'
  BY <1>2, <1>6 DEF UnlockAgain
<1>7. ASSUME NEW t \in AllThreads, NEW l \in {ERROR, INFO}, sdk_log_print(t, l) PROVE LogInv'
  <2>1. l \in Int BY DEF ERROR, INFO
  <2>2. /\ Formats(t, l, "idle") /\ UNCHANGED <<log, handler, nconf, published>> BY <1>7 DEF sdk_log_print
  <2>3. handler' = [handler EXCEPT !.owner = handler'.owner] BY <1>0, <2>2
  <2> QED BY <2>1, <2>2, <2>3, FormatsInv
<1>8. ASSUME NEW c, ConfigArrives(c) PROVE LogInv' BY <1>8, ConfigArrivesInv
<1>9. CASE ConfigLocks
  <2>1. /\ Formats(LogService, DEBUG, "apply") /\ handler' = [handler EXCEPT !.owner = LogService]
        /\ UNCHANGED <<log, nconf, published>> /\ at[LogService].pc = "config"
    BY <1>9 DEF ConfigLocks
  <2>2. handler'.owner = LogService /\ nconf > 0 BY <1>0, <2>1 DEF LogInv, HandlerMutex
  <2>3. handler' = [handler EXCEPT !.owner = handler'.owner] BY <1>0, <2>1, <2>2
  <2>4. DEBUG \in Int /\ LogService \in AllThreads BY DEF DEBUG, AllThreads
  <2> QED BY <2>1, <2>2, <2>3, <2>4, FormatsInv
<1>10. CASE ConfigApplied BY <1>10, ConfigAppliedInv
<1>11. CASE aiot_log_init
  <2>1. handler' = [handler EXCEPT !.exists = TRUE] /\ log' = [log EXCEPT !.save = "report"]
        /\ UNCHANGED <<at, nline, nconf, published>>
    BY <1>11 DEF aiot_log_init
  <2>2. handler'.owner = handler.owner
        /\ handler' = [exists |-> handler'.exists, on |-> handler'.on, lowest |-> handler'.lowest, owner |-> handler'.owner]
    BY <1>0, <2>1
  <2>3. log' = [finished |-> log'.finished, save |-> log'.save, lines |-> <<>>] BY <1>0, <2>1
  <2> QED BY <2>1, <2>2, <2>3, AppInv
<1>12. CASE iot_log_set_on_log_save_fn
  <2>1. log' = [log EXCEPT !.save = "other"] /\ UNCHANGED <<handler, at, nline, nconf, published>>
    BY <1>12 DEF iot_log_set_on_log_save_fn
  <2>2. log' = [finished |-> log'.finished, save |-> log'.save, lines |-> <<>>] BY <1>0, <2>1
  <2> QED BY <1>0, <2>1, <2>2, AppInv
<1>13. ASSUME SetSwitch \/ \E l \in {ERROR, DEBUG} : SetLevel(l) PROVE LogInv'
  <2>1. PICK on, lowest : /\ handler' = [handler EXCEPT !.on = on] \/ handler' = [handler EXCEPT !.lowest = lowest]
                          /\ UNCHANGED <<log, at, nline, nconf, published>>
    BY <1>13 DEF SetSwitch, SetLevel
  <2>2. handler'.owner = handler.owner
        /\ handler' = [exists |-> handler'.exists, on |-> handler'.on, lowest |-> handler'.lowest, owner |-> handler'.owner]
    BY <1>0, <2>1
  <2> QED BY <1>0, <2>1, <2>2, AppInv
<1>14. CASE iot_log_deinit
  <2>1. log' = [log EXCEPT !.finished = TRUE, !.lines = <<>>] /\ UNCHANGED <<handler, at, nline, nconf, published>>
    BY <1>14 DEF iot_log_deinit
  <2>2. log' = [finished |-> log'.finished, save |-> log'.save, lines |-> <<>>] BY <1>0, <2>1
  <2> QED BY <1>0, <2>1, <2>2, AppInv
<1> QED BY <1>1, <1>3, <1>4, <1>5, <1>6, <1>7, <1>8, <1>9, <1>10, <1>11, <1>12, <1>13, <1>14 DEF LogNext

\* Nobody has printed.
LEMMA LogStarts == LogInit => LogInv
<1> SUFFICES ASSUME LogInit PROVE LogInv
  OBVIOUS
<1>1. LogService \in AllThreads BY DEF AllThreads
<1>2. PICK r : r = [pc |-> "idle", batch |-> <<>>, then |-> "idle", config |-> <<>>] OBVIOUS
<1>3. at = [t \in AllThreads |-> r] BY <1>2 DEF LogInit
<1>4. LogThread(r) /\ r.pc = "idle" /\ r.then = "idle" /\ r.batch = <<>> BY <1>2 DEF LogThread
<1>5. published = <<>> /\ nline = 0 /\ nconf = 0 /\ handler.owner = Nobody BY DEF LogInit
<1>6. LogTypes BY <1>3, <1>4, <1>5 DEF LogInit, LogTypes
<1>7. HandlerMutex BY <1>1, <1>3, <1>4, <1>5 DEF HandlerMutex
<1>8. SentInOrder BY <1>3, <1>4, <1>5 DEF SentInOrder, Batch
<1> QED BY <1>6, <1>7, <1>8 DEF LogInv

\* For any number of threads that print while the service thread handles configurations:
\* until two threads are at the list at once, a line is published at most once and after
\* the earlier lines of its thread, none waits in the list, none is cut, and only the
\* service thread, inside a configuration, ever waits for a mutex it holds itself.
THEOREM LinesInOrder == LogSpec => []LinesReported
<1>1. LogInv => LinesReported
  <2> SUFFICES ASSUME LogInv PROVE LinesReported
    OBVIOUS
  <2>1. log.lines = <<>> BY DEF LogInv, LogTypes
  <2>2. \A i, j \in DOMAIN published : i < j /\ published[i].by = published[j].by => published[i].id < published[j].id
    BY DEF LogInv, SentInOrder
  <2>3. PICK stuck : stuck = {t \in AllThreads : at[t].pc = "swapped" /\ handler.owner = t} OBVIOUS
  <2>4. Nobody \notin AllThreads BY LogAssumption DEF LogConstants, Nobody, AllThreads, LogService
  <2>5. ASSUME NEW t \in stuck PROVE t = LogService /\ nconf > 0 BY <2>3, <2>4 DEF LogInv, HandlerMutex
  <2>6. \A p \in 0 .. MaxPrefix + 8, n \in 0 .. 3 : _log_format(p, n) = [prefix |-> p, text |-> n, newline |-> 1]
    <3>1. \A n \in 0 .. 3 : n \in Nat OBVIOUS
    <3> QED BY <3>1, LogAssumption, FormatWhole
  <2> QED BY <2>1, <2>2, <2>3, <2>5, <2>6 DEF LinesReported
<1>2. LogInv /\ [LogNext]_logVars => LogInv' BY LogAssumption, LogStep
<1> QED BY LogAssumption, LogStarts, <1>1, <1>2, PTL DEF LogSpec
=================================================================================
