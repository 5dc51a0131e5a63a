--------------------------- MODULE MqttClientProofs ---------------------------
(***************************************************************************)
(* Proofs about MqttClient for every number of threads, topics, messages   *)
(* and lost links.  Each part of the inductive invariant IInv is preserved *)
(* by every action; the properties the runs check follow from it.          *)
(***************************************************************************)
EXTENDS MqttClient, SequenceTheorems, FiniteSetTheorems, TLAPS

\* Every set of handlers is finite, so that reconnect can enumerate it, and an
\* enumeration is a sequence of topics with exactly these topics in it.
LEMMA OrdersAreSequences ==
  ASSUME NEW S, S \subseteq Topics, NEW q \in Orders(S)
  PROVE  q \in Seq(Topics) /\ Range(q) = S
<1>1. IsFiniteSet(S)
  BY FS_Subset, ConstantsAssumption
<1>2. Cardinality(S) \in Nat
  BY <1>1, FS_CardinalityType
<1>3. q \in [1 .. Cardinality(S) -> Topics]
  BY DEF Orders
<1> QED BY <1>2, <1>3 DEF Orders

\* What append_sub_topic copies are topics of the set it is given, and all of
\* them when memory lasts.
LEMMA CopiedSubset ==
  ASSUME NEW S, NEW C \in Copied(S)
  PROVE  C \subseteq S /\ (~AllocMayFail => C = S)
BY DEF Copied

\* A SUBSCRIBE packet takes between one topic and all of them.
LEMMA BatchBounds ==
  ASSUME TypeOK, pendSub # <<>>
  PROVE  /\ BatchLen \in 1 .. Len(pendSub)
         /\ Batch \subseteq Topics
         /\ SubSeq(pendSub, BatchLen + 1, Len(pendSub)) \in Seq(Topics)
         /\ Range(pendSub) \subseteq
              Batch \cup Range(SubSeq(pendSub, BatchLen + 1, Len(pendSub)))
<1> DEFINE n == BatchLen
           r == SubSeq(pendSub, n + 1, Len(pendSub))
<1>1. pendSub \in Seq(Topics) /\ Len(pendSub) \in Nat \ {0}
  BY EmptySeq, LenProperties DEF TypeOK
<1>2. n \in 1 .. Len(pendSub)
  BY <1>1, ConstantsAssumption DEF BatchLen
<1>3. Batch \subseteq Topics
  BY <1>1, <1>2, ElementOfSeq DEF Batch
<1>4. /\ r \in Seq(Topics)
      /\ Len(r) = Len(pendSub) - n
      /\ \A i \in 1 .. Len(pendSub) - n : r[i] = pendSub[n + i]
  BY <1>1, <1>2, SubSeqProperties
<1>5. ASSUME NEW x \in Range(pendSub)
      PROVE  x \in Batch \cup Range(r)
  <2>1. PICK i \in 1 .. Len(pendSub) : x = pendSub[i]
    BY <1>1, LenProperties DEF Range
  <2>2. CASE i <= n
    BY <2>1, <2>2, <1>2 DEF Batch
  <2>3. CASE i > n
    <3>1. i - n \in 1 .. Len(r) /\ r[i - n] = pendSub[n + (i - n)]
      BY <2>1, <2>3, <1>2, <1>4, <1>1
    <3>2. DOMAIN r = 1 .. Len(r)
      BY <1>4, LenProperties
    <3>3. n + (i - n) = i
      BY <1>1, <1>2
    <3> QED BY <2>1, <3>1, <3>2, <3>3 DEF Range
  <2> QED BY <2>2, <2>3, <1>1, <1>2
<1> HIDE DEF n, r
<1> QED BY <1>2, <1>3, <1>4, <1>5 DEF n, r

\* There are finitely many list entries, so a failure count is a number.
LEMMA PubEntryFinite == IsFiniteSet(PubEntry)
<1> DEFINE N    == 0 .. 4 * MaxMsgs + 3
           code == [e \in PubEntry |-> 4 * e.id + 2 * e.qos + (IF e.sent THEN 1 ELSE 0)]
<1>1. code \in [PubEntry -> N]
  BY ConstantsAssumption DEF PubEntry, Ids, QoS
<1>2. ASSUME NEW e \in PubEntry, NEW f \in PubEntry, code[e] = code[f] PROVE e = f
  BY <1>2 DEF PubEntry, Ids, QoS
<1>3. code \in Injection(PubEntry, N)
  BY <1>1, <1>2 DEF Injection, IsInjective
<1>4. IsFiniteSet(N)
  BY FS_Interval, ConstantsAssumption
<1> HIDE DEF N, code
<1> QED BY <1>3, <1>4, FS_Injection

-----------------------------------------------------------------------------
\* Every action keeps the types.
LEMMA TypeStep == TypeOK /\ [Next]_vars => TypeOK'
<1> SUFFICES ASSUME TypeOK, [Next]_vars PROVE TypeOK'
  OBVIOUS
<1> USE ConstantsAssumption DEF TypeOK, ctxVars, lwsVars, brkVars, appVars, cntVars,
        Links, Steps, QoS
<1>1. CASE Connect
  BY <1>1 DEF Connect
<1>2. ASSUME NEW C \in Copied(subs), NEW q \in Orders(C), pendSub' = pendSub \o q
      PROVE  pendSub' \in Seq(Topics)
  BY <1>2, CopiedSubset, OrdersAreSequences, ConcatProperties
<1>3. CASE Reconnect
  BY <1>2, <1>3 DEF Reconnect
<1>4. CASE Disconnect
  BY <1>4 DEF Disconnect
<1>5. CASE Deinit
  BY <1>5, EmptySeq DEF Deinit
<1>6. ASSUME NEW t \in Threads, App(t) PROVE TypeOK'
  <2>1. ASSUME NEW k \in QoS, PublishAppend(t, k) PROVE TypeOK'
    <3>1. [id |-> nextId, qos |-> k, sent |-> FALSE] \in PubEntry
      BY <2>1 DEF PublishAppend, PubEntry, Ids
    <3>2. nextId' \in 1 .. MaxMsgs + 1
      BY <2>1 DEF PublishAppend
    <3>3. pendPub' \in SUBSET PubEntry
      BY <2>1, <3>1 DEF PublishAppend
    <3> QED BY <2>1, <3>2, <3>3 DEF PublishAppend
  <2>2. CASE PublishRefuse(t)
    BY <2>2 DEF PublishRefuse
  <2>3. CASE PublishCheck(t)
    BY <2>3 DEF PublishCheck
  <2>4. CASE PublishWake(t)
    BY <2>4 DEF PublishWake
  <2>5. ASSUME NEW x \in Topics, SubscribeCheck(t, x) PROVE TypeOK'
    BY <2>5 DEF SubscribeCheck
  <2>6. CASE SubscribeAppend(t)
    <3>1. pendSub' \in Seq(Topics)
      BY <2>6, AppendProperties DEF SubscribeAppend
    <3> QED BY <2>6, <3>1 DEF SubscribeAppend
  <2> QED BY <1>6, <2>1, <2>2, <2>3, <2>4, <2>5, <2>6 DEF App
<1>7. CASE Established
  BY <1>7 DEF Established
<1>8. CASE ConnectionError
  <2>1. drops' \in 0 .. MaxDrops
    BY <1>8 DEF ConnectionError
  <2> QED BY <1>8, <2>1 DEF ConnectionError
<1>9. CASE Closed
  <2>1. drops' \in 0 .. MaxDrops
    BY <1>9 DEF Closed
  <2>2. pendSub' \in Seq(Topics)
    BY <1>2, <1>9 DEF Closed
  <2> QED BY <1>9, <2>1, <2>2 DEF Closed
<1>10. CASE Subscribed
  BY <1>10 DEF Subscribed
<1>11. CASE WriteableWaiting
  BY <1>11 DEF WriteableWaiting
<1>12. CASE WriteableSubscribe
  <2>1. Batch \subseteq Topics /\ SubSeq(pendSub, BatchLen + 1, Len(pendSub)) \in Seq(Topics)
    BY <1>12, BatchBounds DEF WriteableSubscribe
  <2>2. [type |-> "SUBSCRIBE", topics |-> Batch] \in SubPacket
    BY <2>1 DEF SubPacket
  <2>3. subs' \subseteq Topics
    BY <1>12, <2>1, CopiedSubset DEF WriteableSubscribe
  <2> QED BY <1>12, <2>1, <2>2, <2>3 DEF WriteableSubscribe
<1>13. CASE WriteableSubscribeFails
  <2>1. fails' \in 0 .. MaxSendFails
    BY <1>13 DEF WriteableSubscribeFails
  <2> QED BY <1>13, <2>1 DEF WriteableSubscribeFails
<1>14. CASE WriteablePublish
  <2>1. PICK F \in SUBSET Unsent(pendPub) :
          LET S == SendSet(pendPub, F)
          IN /\ fails + Cardinality(F) <= MaxSendFails
             /\ fails' = fails + Cardinality(F)
             /\ waitPuback' = (\E e \in S : e.qos = 1)
             /\ pendPub' = Compact(Marked(pendPub, S))
             /\ wire' = wire \cup {Publish(e) : e \in S}
             /\ tx' = [m \in Ids |-> IF \E e \in S : e.id = m THEN tx[m] + 1 ELSE tx[m]]
    BY <1>14 DEF WriteablePublish
  <2>2. SendSet(pendPub, F) \subseteq PubEntry
    BY DEF SendSet, Reached, Unsent
  <2>3. pendPub' \in SUBSET PubEntry
    <3>1. ASSUME NEW e \in PubEntry PROVE [e EXCEPT !.sent = TRUE] \in PubEntry
      BY DEF PubEntry
    <3>2. Marked(pendPub, SendSet(pendPub, F)) \subseteq PubEntry
      BY <3>1 DEF Marked
    <3> QED BY <2>1, <3>2 DEF Compact
  <2>4. wire' \in SUBSET (PubPacket \cup SubPacket)
    BY <2>1, <2>2 DEF Publish, PubPacket, PubEntry
  <2>5. waitPuback' \in BOOLEAN /\ tx' \in [Ids -> Nat]
    BY <2>1
  <2>6. fails' \in 0 .. MaxSendFails
    <3>1. F \subseteq PubEntry
      BY DEF Unsent
    <3>2. Cardinality(F) \in Nat
      BY <3>1, PubEntryFinite, FS_Subset, FS_CardinalityType
    <3> QED BY <2>1, <3>2
  <2> QED BY <1>14, <2>3, <2>4, <2>5, <2>6 DEF WriteablePublish
<1>15. CASE WriteableUnacked
  BY <1>15 DEF WriteableUnacked
<1>16. CASE Ack
  BY <1>16 DEF Ack, AfterAck
<1>17. CASE Resend
  BY <1>17 DEF Resend
<1>18. CASE Receive
  BY <1>18 DEF Receive
<1>19. CASE Timer
  BY <1>19 DEF Timer
<1>20. CASE BrokerTakes
  BY <1>20 DEF BrokerTakes, PubPacket, SubPacket, PubAck, SubAck
<1>21. CASE UNCHANGED vars
  BY <1>21 DEF vars
<1> QED
  BY <1>1, <1>3, <1>4, <1>5, <1>6, <1>7, <1>8, <1>9, <1>10, <1>11, <1>12, <1>13, <1>14,
     <1>15, <1>16, <1>17, <1>18, <1>19, <1>20, <1>21 DEF Next, Service, Writeable

-----------------------------------------------------------------------------
\* Nothing travels on a link that is down, and a released context has no link.
LEMMA LinkStep == TypeOK /\ LinkSound /\ [Next]_vars => LinkSound'
<1> SUFFICES ASSUME TypeOK, LinkSound, [Next]_vars PROVE LinkSound'
  OBVIOUS
<1> USE DEF LinkSound, ctxVars, lwsVars, brkVars, appVars, cntVars
<1>1. CASE Connect
  BY <1>1 DEF Connect
<1>2. CASE Reconnect
  BY <1>2 DEF Reconnect
<1>3. CASE Disconnect
  BY <1>3 DEF Disconnect
<1>4. CASE Deinit
  BY <1>4 DEF Deinit
<1>5. ASSUME NEW t \in Threads, App(t) PROVE LinkSound'
  BY <1>5 DEF App, PublishAppend, PublishRefuse, PublishCheck, PublishWake, SubscribeCheck,
              SubscribeAppend
<1>6. CASE Established
  BY <1>6 DEF Established
<1>7. CASE ConnectionError
  BY <1>7 DEF ConnectionError
<1>8. CASE Closed
  BY <1>8 DEF Closed
<1>9. CASE Subscribed \/ Ack \/ Resend \/ Receive \/ Timer
  BY <1>9 DEF Subscribed, Ack, Resend, Receive, Timer
<1>10. CASE Writeable
  BY <1>10 DEF Writeable, WriteableWaiting, WriteableSubscribe, WriteableSubscribeFails,
               WriteablePublish, WriteableUnacked
<1>11. CASE BrokerTakes
  BY <1>11 DEF BrokerTakes
<1>12. CASE UNCHANGED vars
  BY <1>12 DEF vars
<1> QED
  BY <1>1, <1>2, <1>3, <1>4, <1>5, <1>6, <1>7, <1>8, <1>9, <1>10, <1>11, <1>12 DEF Next, Service

-----------------------------------------------------------------------------
\* Appending to a sequence adds what is appended to its elements.
LEMMA RangeConcat ==
  ASSUME NEW S, NEW s \in Seq(S), NEW q \in Seq(S)
  PROVE  Range(s \o q) = Range(s) \cup Range(q)
<1>1. /\ Len(s) \in Nat /\ Len(q) \in Nat
      /\ DOMAIN s = 1 .. Len(s) /\ DOMAIN q = 1 .. Len(q)
  BY LenProperties
<1>2. /\ DOMAIN (s \o q) = 1 .. Len(s) + Len(q)
      /\ \A i \in 1 .. Len(s) + Len(q) :
           (s \o q)[i] = IF i <= Len(s) THEN s[i] ELSE q[i - Len(s)]
  BY <1>1, ConcatProperties, LenProperties
<1>3. ASSUME NEW x \in Range(s) PROVE x \in Range(s \o q)
  BY <1>1, <1>2 DEF Range
<1>4. ASSUME NEW x \in Range(q) PROVE x \in Range(s \o q)
  <2>1. PICK i \in 1 .. Len(q) : x = q[i]
    BY <1>1 DEF Range
  <2>2. Len(s) + i \in DOMAIN (s \o q) /\ (s \o q)[Len(s) + i] = q[i]
    BY <1>1, <1>2
  <2> QED BY <2>1, <2>2 DEF Range
<1>5. ASSUME NEW x \in Range(s \o q) PROVE x \in Range(s) \cup Range(q)
  <2>1. PICK i \in 1 .. Len(s) + Len(q) : x = (s \o q)[i]
    BY <1>2 DEF Range
  <2>2. CASE i <= Len(s)
    BY <2>1, <2>2, <1>1, <1>2 DEF Range
  <2>3. CASE i > Len(s)
    <3>1. i - Len(s) \in DOMAIN q /\ x = q[i - Len(s)]
      BY <2>1, <2>3, <1>1, <1>2
    <3> QED BY <3>1 DEF Range
  <2> QED BY <2>2, <2>3, <1>1
<1> QED BY <1>3, <1>4, <1>5

\* A subscription that is appended joins the pending topics.
LEMMA RangeAppend ==
  ASSUME NEW S, NEW s \in Seq(S), NEW x \in S
  PROVE  Range(s) \subseteq Range(Append(s, x))
<1>1. DOMAIN s = 1 .. Len(s) /\ Len(s) \in Nat
  BY LenProperties
<1>2. /\ DOMAIN Append(s, x) = 1 .. Len(s) + 1
      /\ \A i \in 1 .. Len(s) : Append(s, x)[i] = s[i]
  BY <1>1, AppendProperties, LenProperties
<1> QED BY <1>1, <1>2 DEF Range

\* Every topic with a handler stays with the broker, on its way there, or
\* pending: closing a link puts all of them back on the pending list before the
\* next session starts empty.
LEMMA SubsStep == TypeOK /\ LinkSound /\ SubsCovered /\ [Next]_vars => SubsCovered'
<1> SUFFICES ASSUME TypeOK, LinkSound, SubsCovered, [Next]_vars,
                    ~AllocMayFail, AppReconnect
             PROVE  /\ link' = "none" /\ drops' = 0 => subs' = {}
                    /\ link' = "connecting" => subs' \subseteq Range(pendSub')
                    /\ link' = "up" => \A x \in subs' : \/ x \in bsubs'
                                                      \/ Requested(x)'
                                                      \/ x \in Range(pendSub')
  BY DEF SubsCovered
<1>0. /\ link = "none" /\ drops = 0 => subs = {}
      /\ link = "connecting" => subs \subseteq Range(pendSub)
      /\ link = "up" => \A x \in subs : x \in bsubs \/ Requested(x) \/ x \in Range(pendSub)
  BY DEF SubsCovered
<1>t. pendSub \in Seq(Topics) /\ subs \subseteq Topics /\ drops \in Nat
  BY ConstantsAssumption DEF TypeOK
<1>a. ASSUME NEW C \in Copied(subs), NEW q \in Orders(C), pendSub' = pendSub \o q
      PROVE  subs \subseteq Range(pendSub')
  <2>1. C = subs
    BY CopiedSubset
  <2> QED BY <1>a, <1>t, <2>1, OrdersAreSequences, RangeConcat
<1>u. ASSUME UNCHANGED <<link, drops, subs, bsubs, wire, pendSub>>
      PROVE  /\ link' = "none" /\ drops' = 0 => subs' = {}
             /\ link' = "connecting" => subs' \subseteq Range(pendSub')
             /\ link' = "up" => \A x \in subs' : \/ x \in bsubs'
                                               \/ Requested(x)'
                                               \/ x \in Range(pendSub')
  BY <1>0, <1>u DEF Requested
<1> USE DEF ctxVars, lwsVars, brkVars, appVars, cntVars
<1>1. CASE Connect
  BY <1>1, <1>0 DEF Connect
<1>2. CASE Reconnect
  BY <1>2, <1>a DEF Reconnect
<1>3. CASE Disconnect
  BY <1>3, <1>u DEF Disconnect
<1>4. CASE Deinit
  BY <1>4 DEF Deinit
<1>5. ASSUME NEW t \in Threads, App(t)
      PROVE  /\ link' = "none" /\ drops' = 0 => subs' = {}
             /\ link' = "connecting" => subs' \subseteq Range(pendSub')
             /\ link' = "up" => \A x \in subs' : \/ x \in bsubs'
                                               \/ Requested(x)'
                                               \/ x \in Range(pendSub')
  <2>1. CASE SubscribeAppend(t)
    <3>1. Range(pendSub) \subseteq Range(pendSub')
      BY <2>1, <1>t, RangeAppend DEF SubscribeAppend, TypeOK
    <3> QED BY <2>1, <3>1, <1>0 DEF SubscribeAppend, Requested
  <2>2. CASE ~SubscribeAppend(t)
    BY <1>5, <2>2, <1>u
       DEF App, PublishAppend, PublishRefuse, PublishCheck, PublishWake, SubscribeCheck
  <2> QED BY <2>1, <2>2
<1>6. CASE Established
  BY <1>6, <1>0 DEF Established
<1>7. CASE ConnectionError
  BY <1>7, <1>t DEF ConnectionError
<1>8. CASE Closed
  BY <1>8, <1>t, <1>a DEF Closed
<1>9. CASE Subscribed \/ Ack \/ Resend \/ Receive \/ Timer
  BY <1>9, <1>u DEF Subscribed, Ack, Resend, Receive, Timer
<1>10. CASE WriteableSubscribe
  <2>1. subs' = subs \cup Batch
    BY <1>10, CopiedSubset DEF WriteableSubscribe
  <2>2. Range(pendSub) \subseteq Batch \cup Range(pendSub')
    BY <1>10, BatchBounds DEF WriteableSubscribe
  <2>3. ASSUME NEW x, x \in Batch \/ Requested(x) PROVE Requested(x)'
    <3>1. CASE x \in Batch
      <4> DEFINE p == [type |-> "SUBSCRIBE", topics |-> Batch]
      <4>1. p \in wire' /\ p.type = "SUBSCRIBE" /\ x \in p.topics
        BY <1>10, <3>1 DEF WriteableSubscribe
      <4> QED BY <4>1 DEF Requested
    <3>2. CASE Requested(x)
      BY <1>10, <3>2 DEF WriteableSubscribe, Requested
    <3> QED BY <2>3, <3>1, <3>2
  <2> QED BY <1>10, <2>1, <2>2, <2>3, <1>0 DEF WriteableSubscribe
<1>11. CASE WriteableWaiting \/ WriteableSubscribeFails \/ WriteableUnacked
  BY <1>11, <1>u DEF WriteableWaiting, WriteableSubscribeFails, WriteableUnacked
<1>12. CASE WriteablePublish
  <2>1. wire \subseteq wire' /\ UNCHANGED <<link, drops, subs, bsubs, pendSub>>
    BY <1>12 DEF WriteablePublish
  <2> QED BY <2>1, <1>0 DEF Requested
<1>13. CASE BrokerTakes
  <2>1. PICK p \in wire : /\ wire' = wire \ {p}
                          /\ bsubs' = IF p.type = "SUBSCRIBE" THEN bsubs \cup p.topics ELSE bsubs
    BY <1>13 DEF BrokerTakes
  <2>2. ASSUME NEW x, Requested(x) PROVE x \in bsubs' \/ Requested(x)'
    BY <2>1, <2>2 DEF Requested
  <2> QED BY <1>13, <2>1, <2>2, <1>0 DEF BrokerTakes
<1>14. CASE UNCHANGED vars
  BY <1>14, <1>u DEF vars
<1> QED
  BY <1>1, <1>2, <1>3, <1>4, <1>5, <1>6, <1>7, <1>8, <1>9, <1>10, <1>11, <1>12, <1>13, <1>14
     DEF Next, Service, Writeable

-----------------------------------------------------------------------------
\* A set of numbers that is not empty has a least element.
LEMMA NatLeast ==
  ASSUME NEW N, N \subseteq Nat, N # {}
  PROVE  \E n \in N : \A k \in N : n <= k
<1>1. PICK b \in N : TRUE
  OBVIOUS
<1>2. IsWellFoundedOn(OpToRel(<, Nat), Nat)
  BY NatLessThanWellFounded
<1>3. PICK n \in N : \A k \in N : ~(<<k, n>> \in OpToRel(<, Nat))
  BY <1>2, WFMin
<1>4. ASSUME NEW k \in N PROVE n <= k
  <2>1. k \in Nat /\ n \in Nat
    OBVIOUS
  <2>2. ~(k < n)
    BY <1>3, <2>1, Zenon DEF OpToRel
  <2> QED BY <2>1, <2>2
<1> QED BY <1>4

-----------------------------------------------------------------------------
\* What one pass of the publish loop and the compaction do: every entry that
\* remains is an old one, sent now or left as it was; every entry that goes was
\* sent; only unsent messages are transmitted, each once, and at most one of
\* them is a QoS1 message.
LEMMA PublishPass ==
  ASSUME TypeOK, PubListSound, WriteablePublish
  PROVE  \E F \in SUBSET Unsent(pendPub) : \E S \in SUBSET Unsent(pendPub) :
           /\ S = SendSet(pendPub, F)
           /\ fails' = fails + Cardinality(F) /\ Cardinality(F) \in Nat
           /\ (Cardinality(F) = 0) = (F = {})
           /\ \A e \in pendPub' :
                \E d \in pendPub : /\ d.id = e.id /\ d.qos = e.qos
                                  /\ IF d \in S THEN e.sent /\ e.qos = 1 ELSE e = d
           /\ \A d \in pendPub \ S : d \in pendPub'
           /\ \A d \in S : d.qos = 1 => [d EXCEPT !.sent = TRUE] \in pendPub'
           /\ \A d \in S : tx'[d.id] = tx[d.id] + 1
           /\ \A m \in Ids : (\A d \in S : d.id # m) => tx'[m] = tx[m]
           /\ \A d, e \in S : d.qos = 1 /\ e.qos = 1 => d = e
           /\ wire' = wire \cup {Publish(e) : e \in S}
           /\ waitPuback' = (\E e \in S : e.qos = 1)
<1>1. PICK F \in SUBSET Unsent(pendPub) :
        LET S == SendSet(pendPub, F)
        IN /\ fails' = fails + Cardinality(F)
           /\ waitPuback' = (\E e \in S : e.qos = 1)
           /\ pendPub' = Compact(Marked(pendPub, S))
           /\ wire' = wire \cup {Publish(e) : e \in S}
           /\ tx' = [m \in Ids |-> IF \E e \in S : e.id = m THEN tx[m] + 1 ELSE tx[m]]
  BY DEF WriteablePublish
<1> DEFINE S == SendSet(pendPub, F)
<1>2. S \in SUBSET Unsent(pendPub) /\ Unsent(pendPub) \subseteq pendPub /\ pendPub \subseteq PubEntry
  BY DEF SendSet, Reached, Unsent, TypeOK
<1>3. Cardinality(F) \in Nat /\ (Cardinality(F) = 0) = (F = {})
  BY <1>2, PubEntryFinite, FS_Subset, FS_CardinalityType, FS_EmptySet
<1>4. ASSUME NEW e \in pendPub'
      PROVE  \E d \in pendPub : /\ d.id = e.id /\ d.qos = e.qos
                                /\ IF d \in S THEN e.sent /\ e.qos = 1 ELSE e = d
  <2>1. e \in Marked(pendPub, S) /\ ~(e.sent /\ e.qos = 0)
    BY <1>1, <1>4 DEF Compact
  <2>2. PICK d \in pendPub : e = IF d \in S THEN [d EXCEPT !.sent = TRUE] ELSE d
    BY <2>1 DEF Marked
  <2>3. CASE d \in S
    <3>1. e.id = d.id /\ e.qos = d.qos /\ e.sent = TRUE /\ d.qos \in {0, 1}
      BY <2>2, <2>3, <1>2 DEF PubEntry, QoS
    <3>2. e.qos = 1
      BY <2>1, <3>1
    <3> QED BY <3>1, <3>2, <2>3
  <2>4. CASE d \notin S
    BY <2>2, <2>4
  <2> QED BY <2>3, <2>4
<1>5. ASSUME NEW d \in pendPub \ S PROVE d \in pendPub'
  <2>1. ~(d.sent /\ d.qos = 0)
    BY <1>2 DEF PubListSound
  <2>2. d \in Marked(pendPub, S)
    BY DEF Marked
  <2> QED BY <2>1, <2>2, <1>1 DEF Compact
<1>6. /\ \A d \in S : tx'[d.id] = tx[d.id] + 1
      /\ \A m \in Ids : (\A d \in S : d.id # m) => tx'[m] = tx[m]
  <2>1. \A d \in S : d.id \in Ids
    BY <1>2 DEF PubEntry
  <2> HIDE DEF S
  <2>2. tx' = [m \in Ids |-> IF \E e \in S : e.id = m THEN tx[m] + 1 ELSE tx[m]]
    BY <1>1 DEF S
  <2> QED BY <2>1, <2>2
<1>7. ASSUME NEW d \in S, NEW e \in S, d.qos = 1, e.qos = 1 PROVE d = e
  <2>1. d \in Stops(pendPub, F) /\ e \in Stops(pendPub, F)
    BY <1>7 DEF SendSet, Reached, Stops
  <2>2. d.id <= e.id /\ e.id <= d.id
    BY <2>1 DEF SendSet, Reached
  <2>3. d.id \in Nat /\ e.id \in Nat
    BY <1>2 DEF PubEntry, Ids
  <2>4. d.id = e.id
    BY <2>2, <2>3
  <2> QED BY <2>4, <1>2 DEF PubListSound
<1>10. ASSUME NEW d \in S, d.qos = 1 PROVE [d EXCEPT !.sent = TRUE] \in pendPub'
  <2>1. [d EXCEPT !.sent = TRUE] \in Marked(pendPub, S)
    BY <1>2 DEF Marked
  <2>2. [d EXCEPT !.sent = TRUE].qos = 1
    BY <1>2, <1>10 DEF PubEntry
  <2> DEFINE x == [d EXCEPT !.sent = TRUE]
  <2>3. ~(x.sent /\ x.qos = 0)
    BY <2>2
  <2> HIDE DEF x
  <2>4. x \in Compact(Marked(pendPub, S))
    BY <2>1, <2>3 DEF Compact, x
  <2> QED BY <2>4, <1>1 DEF x
<1> HIDE DEF S
<1>8. /\ S = SendSet(pendPub, F)
      /\ fails' = fails + Cardinality(F)
      /\ wire' = wire \cup {Publish(e) : e \in S}
      /\ waitPuback' = (\E e \in S : e.qos = 1)
  BY <1>1 DEF S
<1> WITNESS F \in SUBSET Unsent(pendPub)
<1>9. S \in SUBSET Unsent(pendPub)
  BY <1>2
<1> WITNESS S \in SUBSET Unsent(pendPub)
<1> QED BY <1>3, <1>4, <1>5, <1>6, <1>7, <1>8, <1>10

\* The list that pending messages are kept in is well formed after every step,
\* and no message is lost from it, sent twice, or overtaken.
PubInv == PubListSound /\ NoDuplicateSend /\ AcceptedPendingOrSent /\ SentInAcceptOrder

LEMMA PubStep == TypeOK /\ PubInv /\ [Next]_vars => PubInv'
<1> SUFFICES ASSUME TypeOK, PubInv, [Next]_vars PROVE PubInv'
  OBVIOUS
<1>t. /\ pendPub \subseteq PubEntry /\ nextId \in Nat /\ fails \in Nat
      /\ \A e \in pendPub : e.id \in Ids /\ e.qos \in {0, 1} /\ e.sent \in BOOLEAN
      /\ \A m \in Ids : tx[m] \in Nat /\ m \in Nat
      /\ 1 .. nextId - 1 \subseteq Ids
  BY ConstantsAssumption DEF TypeOK, PubEntry, QoS, Ids
<1>p. /\ \A e \in pendPub : e.id < nextId /\ (e.sent => e.qos = 1)
      /\ \A e, f \in pendPub : e.id = f.id => e = f
      /\ \A e \in pendPub : tx[e.id] = (IF e.sent THEN 1 ELSE 0)
      /\ \A m \in Ids : m >= nextId => tx[m] = 0
      /\ \A m \in Ids : tx[m] <= 1
      /\ alive => \A m \in 1 .. nextId - 1 : (\E e \in pendPub : e.id = m) \/ tx[m] > 0
      /\ fails = 0 => \A e \in pendPub, m \in Ids : ~e.sent /\ tx[m] > 0 => m < e.id
  BY DEF PubInv, PubListSound, NoDuplicateSend, AcceptedPendingOrSent, SentInAcceptOrder,
         IdsOf, Unsent
<1>g. ASSUME /\ \A e \in pendPub' : e.id < nextId' /\ (e.sent => e.qos = 1)
             /\ \A e, f \in pendPub' : e.id = f.id => e = f
             /\ \A e \in pendPub' : tx'[e.id] = (IF e.sent THEN 1 ELSE 0)
             /\ \A m \in Ids : m >= nextId' => tx'[m] = 0
             /\ \A m \in Ids : tx'[m] <= 1
             /\ alive' => \A m \in 1 .. nextId' - 1 :
                            (\E e \in pendPub' : e.id = m) \/ tx'[m] > 0
             /\ fails' = 0 => \A e \in pendPub', m \in Ids : ~e.sent /\ tx'[m] > 0 => m < e.id
      PROVE  PubInv'
  BY <1>g DEF PubInv, PubListSound, NoDuplicateSend, AcceptedPendingOrSent, SentInAcceptOrder,
              IdsOf, Unsent
<1>u. ASSUME UNCHANGED <<pendPub, nextId, fails, tx, alive>> PROVE PubInv'
  BY <1>u, <1>p, <1>g
<1> USE DEF ctxVars, lwsVars, brkVars, appVars, cntVars
<1>1. CASE Connect \/ Reconnect \/ Disconnect
  BY <1>1, <1>u DEF Connect, Reconnect, Disconnect
<1>2. CASE Deinit
  <2>1. pendPub' = {} /\ ~alive' /\ UNCHANGED <<nextId, fails, tx>>
    BY <1>2 DEF Deinit
  <2> QED BY <2>1, <1>p, <1>g
<1>3. ASSUME NEW t \in Threads, App(t) PROVE PubInv'
  <2>1. ASSUME NEW k \in QoS, PublishAppend(t, k) PROVE PubInv'
    <3> DEFINE new == [id |-> nextId, qos |-> k, sent |-> FALSE]
    <3>1. /\ pendPub' = pendPub \cup {new} /\ nextId' = nextId + 1 /\ alive
          /\ UNCHANGED <<fails, tx, alive>> /\ nextId <= MaxMsgs
      BY <2>1 DEF PublishAppend
    <3>2. new.id = nextId /\ new.sent = FALSE /\ new.qos = k
      OBVIOUS
    <3>3. nextId \in Ids
      BY <3>1, <1>t, ConstantsAssumption DEF TypeOK, Ids
    <3> HIDE DEF new
    <3>4. \A e \in pendPub' : e.id < nextId' /\ (e.sent => e.qos = 1)
      BY <3>1, <3>2, <1>t, <1>p DEF Ids
    <3>5. \A e, f \in pendPub' : e.id = f.id => e = f
      BY <3>1, <3>2, <1>t, <1>p DEF Ids
    <3>6. \A e \in pendPub' : tx'[e.id] = (IF e.sent THEN 1 ELSE 0)
      BY <3>1, <3>2, <3>3, <1>t, <1>p
    <3>7. \A m \in Ids : m >= nextId' => tx'[m] = 0
      BY <3>1, <1>t, <1>p
    <3>8. alive' => \A m \in 1 .. nextId' - 1 : (\E e \in pendPub' : e.id = m) \/ tx'[m] > 0
      BY <3>1, <3>2, <1>t, <1>p
    <3>9. fails' = 0 => \A e \in pendPub', m \in Ids : ~e.sent /\ tx'[m] > 0 => m < e.id
      BY <3>1, <3>2, <1>t, <1>p
    <3> QED BY <3>1, <3>4, <3>5, <3>6, <3>7, <3>8, <3>9, <1>p, <1>g
  <2>2. CASE PublishRefuse(t) \/ PublishCheck(t) \/ PublishWake(t) \/ SubscribeAppend(t)
    BY <2>2, <1>u DEF PublishRefuse, PublishCheck, PublishWake, SubscribeAppend
  <2>3. ASSUME NEW x \in Topics, SubscribeCheck(t, x) PROVE PubInv'
    BY <2>3, <1>u DEF SubscribeCheck
  <2> QED BY <1>3, <2>1, <2>2, <2>3 DEF App
<1>4. CASE Established \/ ConnectionError \/ Closed \/ Subscribed \/ Resend \/ Receive \/ Timer
  BY <1>4, <1>u DEF Established, ConnectionError, Closed, Subscribed, Resend, Receive, Timer
<1>5. CASE WriteableWaiting \/ WriteableSubscribe \/ WriteableUnacked
  BY <1>5, <1>u DEF WriteableWaiting, WriteableSubscribe, WriteableUnacked
<1>6. CASE WriteableSubscribeFails
  <2>1. UNCHANGED <<pendPub, nextId, tx, alive>> /\ fails' = fails + 1
    BY <1>6 DEF WriteableSubscribeFails
  <2>2. fails' # 0
    BY <2>1, <1>t
  <2> QED BY <2>1, <2>2, <1>p, <1>g
<1>7. CASE WriteablePublish
  <2>1. PICK F \in SUBSET Unsent(pendPub), S \in SUBSET Unsent(pendPub) :
           /\ S = SendSet(pendPub, F)
           /\ fails' = fails + Cardinality(F) /\ Cardinality(F) \in Nat
           /\ (Cardinality(F) = 0) = (F = {})
           /\ \A e \in pendPub' :
                \E d \in pendPub : /\ d.id = e.id /\ d.qos = e.qos
                                  /\ IF d \in S THEN e.sent /\ e.qos = 1 ELSE e = d
           /\ \A d \in pendPub \ S : d \in pendPub'
           /\ \A d \in S : tx'[d.id] = tx[d.id] + 1
           /\ \A m \in Ids : (\A d \in S : d.id # m) => tx'[m] = tx[m]
    BY <1>7, PublishPass DEF PubInv
  <2>2. S \subseteq pendPub /\ \A d \in S : ~d.sent /\ tx[d.id] = 0
    BY <1>p DEF Unsent
  <2>3. UNCHANGED <<nextId, alive>>
    BY <1>7 DEF WriteablePublish
  <2>t. pendPub' \subseteq PubEntry /\ \A e \in pendPub' : e.sent \in BOOLEAN
    BY <1>7, TypeStep DEF TypeOK, PubEntry
  <2>4. \A e \in pendPub' : e.id < nextId' /\ (e.sent => e.qos = 1)
    BY <2>1, <2>3, <1>p
  <2>5. ASSUME NEW e \in pendPub', NEW f \in pendPub', e.id = f.id PROVE e = f
    <3>1. PICK d \in pendPub : /\ d.id = e.id /\ d.qos = e.qos
                               /\ IF d \in S THEN e.sent /\ e.qos = 1 ELSE e = d
      BY <2>1
    <3>2. PICK c \in pendPub : /\ c.id = f.id /\ c.qos = f.qos
                               /\ IF c \in S THEN f.sent /\ f.qos = 1 ELSE f = c
      BY <2>1
    <3>3. c = d
      BY <3>1, <3>2, <2>5, <1>p
    <3>4. CASE d \in S
      <4>1. e.sent = TRUE /\ f.sent = TRUE /\ e.qos = f.qos
        BY <3>1, <3>2, <3>3, <3>4, <2>t
      <4> QED BY <4>1, <2>5, <2>t DEF PubEntry
    <3> QED BY <3>1, <3>2, <3>3, <3>4
  <2>6. ASSUME NEW e \in pendPub' PROVE tx'[e.id] = (IF e.sent THEN 1 ELSE 0)
    <3>1. PICK d \in pendPub : /\ d.id = e.id /\ d.qos = e.qos
                               /\ IF d \in S THEN e.sent /\ e.qos = 1 ELSE e = d
      BY <2>1
    <3>2. CASE d \in S
      <4>1. tx'[d.id] = tx[d.id] + 1 /\ tx[d.id] = 0
        BY <2>1, <2>2, <3>2
      <4> QED BY <3>1, <3>2, <4>1
    <3>3. CASE d \notin S
      <4>1. \A c \in S : c.id # d.id
        BY <2>2, <3>3, <1>p
      <4>2. tx'[d.id] = tx[d.id]
        BY <4>1, <2>1, <1>t
      <4> QED BY <3>1, <3>3, <4>2, <1>p
    <3> QED BY <3>2, <3>3
  <2>7. ASSUME NEW m \in Ids
        PROVE  /\ m >= nextId' => tx'[m] = 0
               /\ tx'[m] <= 1
               /\ tx'[m] = tx[m] \/ (tx'[m] = 1 /\ \E d \in S : d.id = m)
    <3>1. CASE \E d \in S : d.id = m
      <4>1. PICK d \in S : d.id = m
        BY <3>1
      <4>2. tx'[m] = 1 /\ m < nextId
        BY <4>1, <2>1, <2>2, <1>p
      <4> QED BY <4>1, <4>2, <2>3, <1>t
    <3>2. CASE \A d \in S : d.id # m
      BY <3>2, <2>1, <2>3, <1>p
    <3> QED BY <3>1, <3>2
  <2>8. ASSUME alive', NEW m \in 1 .. nextId' - 1
        PROVE  (\E e \in pendPub' : e.id = m) \/ tx'[m] > 0
    <3>1. m \in Ids /\ ((\E e \in pendPub : e.id = m) \/ tx[m] > 0)
      BY <2>3, <2>8, <1>t, <1>p
    <3>2. CASE tx[m] > 0
      BY <3>1, <3>2, <2>7, <1>t
    <3>3. ASSUME NEW e \in pendPub, e.id = m PROVE (\E d \in pendPub' : d.id = m) \/ tx'[m] > 0
      BY <3>3, <2>1, <2>2
    <3> QED BY <3>1, <3>2, <3>3
  <2>9. ASSUME fails' = 0, NEW e \in pendPub', NEW m \in Ids, ~e.sent, tx'[m] > 0
        PROVE  m < e.id
    <3>1. fails = 0 /\ F = {}
      BY <2>9, <2>1, <1>t
    <3>2. e \in pendPub /\ e \notin S
      BY <2>9, <2>1
    <3>3. CASE tx[m] > 0
      BY <3>1, <3>2, <3>3, <2>9, <1>p
    <3>4. ASSUME NEW d \in S, d.id = m PROVE m < e.id
      <4>1. PICK s \in Stops(pendPub, F) : ~(e.id <= s.id)
        BY <3>1, <3>2, <2>1, <2>9 DEF SendSet, Reached, Unsent
      <4>2. d.id <= s.id
        BY <4>1, <2>1 DEF SendSet, Reached
      <4>3. s \in pendPub
        BY <4>1 DEF Stops, Unsent
      <4>4. s.id \in Nat /\ d.id \in Nat /\ e.id \in Nat
        BY <4>3, <3>2, <2>2, <1>t
      <4> QED BY <3>4, <4>1, <4>2, <4>4
    <3> QED BY <3>3, <3>4, <2>7, <2>9
  <2> QED BY <2>4, <2>5, <2>6, <2>7, <2>8, <2>9, <1>g
<1>8. CASE Ack
  <2>1. UNCHANGED <<nextId, alive, fails, tx>> /\ pendPub' \subseteq pendPub
    BY <1>8 DEF Ack, AfterAck
  <2>2. ASSUME NEW e \in pendPub, e \notin pendPub' PROVE tx'[e.id] > 0
    <3>1. e = First(Unacked(pendPub)) /\ Unacked(pendPub) # {}
      BY <1>8, <2>2 DEF Ack, AfterAck
    <3>2. PICK l \in Unacked(pendPub) : \A f \in Unacked(pendPub) : l.id <= f.id
      <4>1. PICK u \in Unacked(pendPub) : TRUE
        BY <3>1
      <4>2. Unacked(pendPub) \subseteq pendPub
        BY DEF Unacked
      <4> DEFINE N == {f.id : f \in Unacked(pendPub)}
      <4>3. N \subseteq Nat /\ N # {}
        BY <4>1, <4>2, <1>t
      <4>4. PICK n \in N : \A k \in N : n <= k
        BY <4>3, NatLeast
      <4> QED BY <4>4
    <3>3. First(Unacked(pendPub)) \in Unacked(pendPub)
      BY <3>2 DEF First
    <3> QED BY <3>1, <3>3, <2>1, <1>p, <1>t DEF Unacked
  <2>3. alive' => \A m \in 1 .. nextId' - 1 : (\E e \in pendPub' : e.id = m) \/ tx'[m] > 0
    BY <2>1, <2>2, <1>p
  <2> QED BY <2>1, <2>3, <1>p, <1>g
<1>9. CASE BrokerTakes
  BY <1>9, <1>u DEF BrokerTakes
<1>10. CASE UNCHANGED vars
  BY <1>10, <1>u DEF vars
<1> QED
  BY <1>1, <1>2, <1>3, <1>4, <1>5, <1>6, <1>7, <1>8, <1>9, <1>10 DEF Next, Service, Writeable

-----------------------------------------------------------------------------
\* At most one acknowledged publish is in flight after every step.
LEMMA FlightStep ==
  TypeOK /\ LinkSound /\ PubListSound /\ OnePublishInFlight /\ [Next]_vars => OnePublishInFlight'
<1> SUFFICES ASSUME TypeOK, LinkSound, PubListSound, OnePublishInFlight, [Next]_vars
             PROVE  OnePublishInFlight'
  OBVIOUS
<1>1d. \A p : p \in InFlight <=>
                ((p \in wire /\ p.type = "PUBLISH" /\ p.qos = 1) \/ (p \in back /\ p.type = "PUBACK"))
  BY DEF InFlight
<1>2d. \A p : p \in InFlight' <=>
                ((p \in wire' /\ p.type = "PUBLISH" /\ p.qos = 1) \/ (p \in back' /\ p.type = "PUBACK"))
  BY DEF InFlight
<1>p. /\ \A p, q \in InFlight : p = q
      /\ InFlight # {} => waitPuback
  BY DEF OnePublishInFlight
<1>g. ASSUME /\ \A p, q \in InFlight' : p = q
             /\ InFlight' # {} => waitPuback'
      PROVE  OnePublishInFlight'
  BY <1>g DEF OnePublishInFlight
<1>e. ASSUME InFlight' = {} PROVE OnePublishInFlight'
  BY <1>e, <1>g
<1>u. ASSUME UNCHANGED <<wire, back, waitPuback>> PROVE OnePublishInFlight'
  BY <1>u, <1>p, <1>g DEF InFlight
<1> USE DEF ctxVars, lwsVars, brkVars, appVars, cntVars
<1>1. CASE Connect \/ Reconnect \/ Disconnect
  BY <1>1, <1>u DEF Connect, Reconnect, Disconnect
<1>2. CASE Deinit \/ Closed
  BY <1>2, <1>1d, <1>2d, <1>e DEF Deinit, Closed
<1>3. ASSUME NEW t \in Threads, App(t) PROVE OnePublishInFlight'
  BY <1>3, <1>u DEF App, PublishAppend, PublishRefuse, PublishCheck, PublishWake,
                    SubscribeCheck, SubscribeAppend
<1>4. CASE Established
  BY <1>4, <1>1d, <1>2d, <1>e DEF Established, LinkSound
<1>5. CASE ConnectionError \/ Resend \/ Receive \/ Timer
  BY <1>5, <1>u DEF ConnectionError, Resend, Receive, Timer
<1>6. CASE Subscribed
  <2>1. UNCHANGED <<wire, waitPuback>> /\ back' \subseteq back
    BY <1>6 DEF Subscribed
  <2>2. InFlight' \subseteq InFlight
    BY <2>1, <1>1d, <1>2d
  <2> QED BY <2>1, <2>2, <1>p, <1>g
<1>7. CASE WriteableWaiting \/ WriteableSubscribeFails \/ WriteableUnacked
  BY <1>7, <1>u DEF WriteableWaiting, WriteableSubscribeFails, WriteableUnacked
<1>8. CASE WriteableSubscribe
  <2> DEFINE b == [type |-> "SUBSCRIBE", topics |-> Batch]
  <2>1. UNCHANGED <<back, waitPuback>> /\ wire' = wire \cup {b}
    BY <1>8 DEF WriteableSubscribe
  <2>2. b.type = "SUBSCRIBE"
    OBVIOUS
  <2> HIDE DEF b
  <2>3. InFlight' \subseteq InFlight
    BY <2>1, <2>2, <1>1d, <1>2d
  <2> QED BY <2>1, <2>3, <1>p, <1>g
<1>9. CASE WriteablePublish
  <2>1. PICK S \in SUBSET Unsent(pendPub) :
           /\ \A d, e \in S : d.qos = 1 /\ e.qos = 1 => d = e
           /\ wire' = wire \cup {Publish(e) : e \in S}
           /\ waitPuback' = (\E e \in S : e.qos = 1)
    BY <1>9, PublishPass
  <2>2. InFlight = {} /\ UNCHANGED back
    BY <1>9, <1>p DEF WriteablePublish
  <2>3. ASSUME NEW p \in InFlight' PROVE \E e \in S : e.qos = 1 /\ p = Publish(e)
    <3>1. p \in wire' /\ p.type = "PUBLISH" /\ p.qos = 1 /\ p \notin wire
      BY <2>2, <2>3, <1>1d, <1>2d
    <3>2. PICK e \in S : p = Publish(e)
      BY <3>1, <2>1
    <3> QED BY <3>1, <3>2 DEF Publish
  <2>4. \A p, q \in InFlight' : p = q
    BY <2>1, <2>3
  <2>5. InFlight' # {} => waitPuback'
    BY <2>1, <2>3
  <2> QED BY <2>4, <2>5, <1>g
<1>10. CASE Ack
  <2>1. PICK a \in back : a.type = "PUBACK" /\ back' = back \ {a}
    BY <1>10 DEF Ack
  <2>2. UNCHANGED wire
    BY <1>10 DEF Ack
  <2> QED BY <2>1, <2>2, <1>1d, <1>2d, <1>p, <1>e
<1>11. CASE BrokerTakes
  <2>1. PICK p \in wire :
           /\ wire' = wire \ {p}
           /\ \/ p.type = "SUBSCRIBE" /\ back' = back \cup {[type |-> "SUBACK", topics |-> p.topics]}
              \/ /\ p.type = "PUBLISH"
                 /\ back' = IF p.qos = 1 THEN back \cup {[type |-> "PUBACK", id |-> p.id]}
                                         ELSE back
    BY <1>11 DEF BrokerTakes
  <2>2. UNCHANGED waitPuback
    BY <1>11 DEF BrokerTakes
  <2>3. CASE p.type = "PUBLISH" /\ p.qos = 1
    <3>0. p \in InFlight
      BY <2>3, <1>1d, <1>2d
    <3>1. InFlight = {p}
      BY <3>0, <1>p
    <3>2. InFlight' \subseteq {[type |-> "PUBACK", id |-> p.id]}
      BY <2>1, <2>3, <3>1, <1>1d, <1>2d
    <3> QED BY <2>2, <3>1, <3>2, <1>p, <1>g
  <2>4. CASE ~(p.type = "PUBLISH" /\ p.qos = 1)
    <3>1. InFlight' \subseteq InFlight
      BY <2>1, <2>4, <1>1d, <1>2d
    <3> QED BY <2>2, <3>1, <1>p, <1>g
  <2> QED BY <2>3, <2>4
<1>12. CASE UNCHANGED vars
  BY <1>12, <1>u DEF vars
<1> QED
  BY <1>1, <1>2, <1>3, <1>4, <1>5, <1>6, <1>7, <1>8, <1>9, <1>10, <1>11, <1>12
     DEF Next, Service, Writeable

-----------------------------------------------------------------------------
\* With one unacknowledged entry in the list, a PUBACK removes exactly that one.
LEMMA AckTakesOnly ==
  ASSUME NEW u, u.id \in Nat, Unacked(pendPub) = {u}
  PROVE  AfterAck(pendPub) = pendPub \ {u}
<1>1. u.id <= u.id
  OBVIOUS
<1>2. First({u}) = u
  BY <1>1 DEF First
<1> QED BY <1>2 DEF AfterAck

\* Before the first lost link the flag, the sent entry and the packet in flight
\* speak of one and the same message.
LEMMA FirstLinkStep ==
  TypeOK /\ LinkSound /\ PubListSound /\ OnePublishInFlight /\ FirstLinkSound /\ [Next]_vars
    => FirstLinkSound'
<1> SUFFICES ASSUME TypeOK, LinkSound, PubListSound, OnePublishInFlight, FirstLinkSound,
                    [Next]_vars, alive', drops' = 0
             PROVE  /\ \A e, f \in Unacked(pendPub') : e = f
                    /\ waitPuback' <=> Unacked(pendPub') # {}
                    /\ link' # "up" => ~waitPuback'
                    /\ \A p \in InFlight' : \E e \in Unacked(pendPub') : e.id = p.id
  BY DEF FirstLinkSound, InFlight, Unacked
<1> DEFINE Goal == /\ \A e, f \in Unacked(pendPub') : e = f
                   /\ waitPuback' <=> Unacked(pendPub') # {}
                   /\ link' # "up" => ~waitPuback'
                   /\ \A p \in InFlight' : \E e \in Unacked(pendPub') : e.id = p.id
<1>1d. \A p : p \in InFlight <=>
                ((p \in wire /\ p.type = "PUBLISH" /\ p.qos = 1) \/ (p \in back /\ p.type = "PUBACK"))
  BY DEF InFlight
<1>2d. \A p : p \in InFlight' <=>
                ((p \in wire' /\ p.type = "PUBLISH" /\ p.qos = 1) \/ (p \in back' /\ p.type = "PUBACK"))
  BY DEF InFlight
<1>t. drops \in Nat /\ waitPuback \in BOOLEAN /\ pendPub \subseteq PubEntry
  BY ConstantsAssumption DEF TypeOK
<1> USE DEF ctxVars, lwsVars, brkVars, appVars, cntVars
<1>a. alive /\ drops = 0
  <2>1. \/ drops' = drops \/ drops' = drops + 1
    BY DEF Next, Connect, Reconnect, Disconnect, Deinit, App, PublishAppend, PublishRefuse,
           PublishCheck, PublishWake, SubscribeCheck, SubscribeAppend, Service, Established,
           ConnectionError, Closed, Subscribed, Writeable, WriteableWaiting, WriteableSubscribe,
           WriteableSubscribeFails, WriteablePublish, WriteableUnacked, Ack, Resend, Receive,
           Timer, BrokerTakes, vars
  <2>2. alive' => alive
    BY DEF Next, Connect, Reconnect, Disconnect, Deinit, App, PublishAppend, PublishRefuse,
           PublishCheck, PublishWake, SubscribeCheck, SubscribeAppend, Service, Established,
           ConnectionError, Closed, Subscribed, Writeable, WriteableWaiting, WriteableSubscribe,
           WriteableSubscribeFails, WriteablePublish, WriteableUnacked, Ack, Resend, Receive,
           Timer, BrokerTakes, vars
  <2> QED BY <2>1, <2>2, <1>t
<1>p. /\ \A e, f \in Unacked(pendPub) : e = f
      /\ waitPuback <=> Unacked(pendPub) # {}
      /\ link # "up" => ~waitPuback
      /\ \A p \in InFlight : \E e \in Unacked(pendPub) : e.id = p.id
  BY <1>a DEF FirstLinkSound
<1>u. ASSUME UNCHANGED <<pendPub, waitPuback, link>>, \A p \in InFlight' : p \in InFlight
      PROVE  Goal
  BY <1>u, <1>p
<1> SUFFICES Goal
  OBVIOUS
<1> HIDE DEF Goal
<1>v. ASSUME UNCHANGED <<pendPub, waitPuback, link, wire, back>> PROVE Goal
  BY <1>v, <1>u, <1>1d, <1>2d
<1>1. CASE Connect \/ Reconnect
  <2>1. UNCHANGED <<pendPub, waitPuback, wire, back>> /\ link = "none"
    BY <1>1 DEF Connect, Reconnect
  <2>2. ~waitPuback' /\ Unacked(pendPub') = {} /\ InFlight' = {}
    BY <2>1, <1>p, <1>2d DEF LinkSound
  <2> QED BY <2>2 DEF Goal
<1>2. CASE Disconnect
  BY <1>2, <1>v DEF Disconnect
<1>3. CASE Deinit
  BY <1>3 DEF Deinit
<1>4. ASSUME NEW t \in Threads, App(t) PROVE Goal
  <2>1. ASSUME NEW k \in QoS, PublishAppend(t, k) PROVE Goal
    <3> DEFINE new == [id |-> nextId, qos |-> k, sent |-> FALSE]
    <3>1. /\ pendPub' = pendPub \cup {new} /\ UNCHANGED <<waitPuback, link, wire, back>>
      BY <2>1 DEF PublishAppend
    <3>2. ~new.sent
      OBVIOUS
    <3> HIDE DEF new
    <3>3. Unacked(pendPub') = Unacked(pendPub)
      BY <3>1, <3>2 DEF Unacked
    <3>4. \A p \in InFlight' : p \in InFlight
      BY <3>1, <1>1d, <1>2d
    <3> QED BY <3>1, <3>3, <3>4, <1>p DEF Goal
  <2>2. CASE PublishRefuse(t) \/ PublishCheck(t) \/ PublishWake(t) \/ SubscribeAppend(t)
    BY <2>2, <1>v DEF PublishRefuse, PublishCheck, PublishWake, SubscribeAppend
  <2>3. ASSUME NEW x \in Topics, SubscribeCheck(t, x) PROVE Goal
    BY <2>3, <1>v DEF SubscribeCheck
  <2> QED BY <1>4, <2>1, <2>2, <2>3 DEF App
<1>5. CASE Established
  <2>1. ~waitPuback' /\ ~waitPuback /\ UNCHANGED <<pendPub, wire, back>> /\ link = "connecting"
    BY <1>5, <1>p DEF Established
  <2>2. Unacked(pendPub') = {} /\ InFlight' = {}
    BY <2>1, <1>p, <1>2d DEF LinkSound
  <2> QED BY <2>1, <2>2 DEF Goal
<1>6. CASE ConnectionError \/ Closed
  BY <1>6, <1>a DEF ConnectionError, Closed
<1>7. CASE Subscribed
  <2>1. back' \subseteq back /\ UNCHANGED <<wire, pendPub, waitPuback, link>>
    BY <1>7 DEF Subscribed
  <2>2. \A p \in InFlight' : p \in InFlight
    BY <2>1, <1>1d, <1>2d
  <2> QED BY <2>1, <2>2, <1>u
<1>8. CASE Resend \/ Receive \/ Timer \/ WriteableWaiting \/ WriteableSubscribeFails
           \/ WriteableUnacked
  BY <1>8, <1>v
     DEF Resend, Receive, Timer, WriteableWaiting, WriteableSubscribeFails, WriteableUnacked
<1>9. CASE WriteableSubscribe
  <2> DEFINE b == [type |-> "SUBSCRIBE", topics |-> Batch]
  <2>1. UNCHANGED <<back, pendPub, waitPuback, link>> /\ wire' = wire \cup {b}
    BY <1>9 DEF WriteableSubscribe
  <2>2. b.type = "SUBSCRIBE"
    OBVIOUS
  <2> HIDE DEF b
  <2>3. \A p \in InFlight' : p \in InFlight
    BY <2>1, <2>2, <1>1d, <1>2d
  <2> QED BY <2>1, <2>3, <1>u
<1>10. CASE WriteablePublish
  <2>1. PICK S \in SUBSET Unsent(pendPub) :
           /\ \A e \in pendPub' :
                \E d \in pendPub : /\ d.id = e.id /\ d.qos = e.qos
                                  /\ IF d \in S THEN e.sent /\ e.qos = 1 ELSE e = d
           /\ \A d \in S : d.qos = 1 => [d EXCEPT !.sent = TRUE] \in pendPub'
           /\ \A d, e \in S : d.qos = 1 /\ e.qos = 1 => d = e
           /\ wire' = wire \cup {Publish(e) : e \in S}
           /\ waitPuback' = (\E e \in S : e.qos = 1)
    BY <1>10, PublishPass
  <2>2. ~waitPuback /\ Unacked(pendPub) = {} /\ InFlight = {} /\ UNCHANGED <<back, link>>
        /\ link = "up"
    BY <1>10, <1>p, <1>1d DEF WriteablePublish, OnePublishInFlight
  <2>3. S \subseteq PubEntry /\ pendPub' \subseteq PubEntry
    BY <1>10, <1>t, TypeStep DEF Unsent, TypeOK
  <2>4. ASSUME NEW e \in Unacked(pendPub')
        PROVE  \E d \in S : d.qos = 1 /\ e.sent = TRUE /\ d.id = e.id /\ d.qos = e.qos
    <3>1. e \in pendPub' /\ e.sent /\ e.qos # 0 /\ e \notin Unacked(pendPub)
      BY <2>2, <2>4 DEF Unacked
    <3>2. PICK d \in pendPub : /\ d.id = e.id /\ d.qos = e.qos
                               /\ IF d \in S THEN e.sent /\ e.qos = 1 ELSE e = d
      BY <2>1, <3>1
    <3>3. d \in S
      BY <3>1, <3>2 DEF Unacked
    <3>4. e.sent = TRUE
      BY <3>1, <2>3 DEF PubEntry
    <3> QED BY <3>2, <3>3, <3>4
  <2>5. \A e, f \in Unacked(pendPub') : e = f
    <3> SUFFICES ASSUME NEW e \in Unacked(pendPub'), NEW f \in Unacked(pendPub') PROVE e = f
      OBVIOUS
    <3>1. PICK d \in S : d.qos = 1 /\ e.sent = TRUE /\ d.id = e.id /\ d.qos = e.qos
      BY <2>4
    <3>2. PICK c \in S : c.qos = 1 /\ f.sent = TRUE /\ c.id = f.id /\ c.qos = f.qos
      BY <2>4
    <3>3. c = d
      BY <3>1, <3>2, <2>1
    <3> QED BY <3>1, <3>2, <3>3, <2>3 DEF Unacked, PubEntry
  <2>6. ASSUME NEW d \in S, d.qos = 1
        PROVE  \E e \in Unacked(pendPub') : e.id = d.id
    <3> DEFINE x == [d EXCEPT !.sent = TRUE]
    <3>1. x \in pendPub' /\ x.sent = TRUE /\ x.qos = 1 /\ x.id = d.id
      BY <2>1, <2>3, <2>6 DEF PubEntry
    <3> HIDE DEF x
    <3>2. x \in Unacked(pendPub')
      BY <3>1 DEF Unacked
    <3> QED BY <3>1, <3>2
  <2>7. waitPuback' <=> Unacked(pendPub') # {}
    BY <2>1, <2>4, <2>6
  <2>8. ASSUME NEW p \in InFlight' PROVE \E e \in Unacked(pendPub') : e.id = p.id
    <3>1. p \in wire' /\ p.type = "PUBLISH" /\ p.qos = 1 /\ p \notin wire
      BY <2>2, <2>8, <1>1d, <1>2d
    <3>2. PICK d \in S : p = Publish(d)
      BY <3>1, <2>1
    <3>3. d.qos = 1 /\ p.id = d.id
      BY <3>1, <3>2 DEF Publish
    <3> QED BY <3>3, <2>6
  <2> QED BY <2>2, <2>5, <2>7, <2>8 DEF Goal
<1>11. CASE Ack
  <2>1. PICK a \in back : a.type = "PUBACK" /\ back' = back \ {a}
    BY <1>11 DEF Ack
  <2>2. a \in InFlight /\ waitPuback
    BY <2>1, <1>1d DEF OnePublishInFlight
  <2>3. PICK u \in Unacked(pendPub) : Unacked(pendPub) = {u}
    BY <2>2, <1>p
  <2>4. u.id \in Nat
    BY <2>3, <1>t DEF Unacked, PubEntry, Ids
  <2>5. pendPub' = pendPub \ {u} /\ ~waitPuback' /\ UNCHANGED wire
    BY <1>11, <2>2, <2>3, <2>4, AckTakesOnly DEF Ack
  <2>6. Unacked(pendPub') = {}
    BY <2>3, <2>5 DEF Unacked
  <2>7. InFlight' = {}
    BY <2>1, <2>2, <2>5, <1>1d, <1>2d DEF OnePublishInFlight
  <2> QED BY <2>5, <2>6, <2>7 DEF Goal
<1>12. CASE BrokerTakes
  <2>1. PICK p \in wire :
           /\ wire' = wire \ {p}
           /\ \/ p.type = "SUBSCRIBE" /\ back' = back \cup {[type |-> "SUBACK", topics |-> p.topics]}
              \/ /\ p.type = "PUBLISH"
                 /\ back' = IF p.qos = 1 THEN back \cup {[type |-> "PUBACK", id |-> p.id]}
                                         ELSE back
    BY <1>12 DEF BrokerTakes
  <2>2. UNCHANGED <<pendPub, waitPuback, link>>
    BY <1>12 DEF BrokerTakes
  <2>3. ASSUME NEW q \in InFlight' PROVE \E r \in InFlight : r.id = q.id
    BY <2>1, <2>3, <1>1d, <1>2d
  <2> QED BY <2>2, <2>3, <1>p DEF Goal
<1>13. CASE UNCHANGED vars
  BY <1>13, <1>v DEF vars
<1> QED
  BY <1>1, <1>2, <1>3, <1>4, <1>5, <1>6, <1>7, <1>8, <1>9, <1>10, <1>11, <1>12, <1>13
     DEF Next, Service, Writeable

-----------------------------------------------------------------------------
(* The theorems.                                                           *)

\* The invariant holds initially and is preserved by every step.
LEMMA InitInv == Init => IInv
<1> SUFFICES ASSUME Init PROVE IInv
  OBVIOUS
<1> USE DEF Init
<1>1. TypeOK
  <2>1. pendSub \in Seq(Topics)
    BY EmptySeq
  <2>2. /\ pc \in [Threads -> Steps] /\ arg \in [Threads -> Topics \cup {NoTopic}]
        /\ \A t \in Threads : pc[t] = "subAppend" => arg[t] \in Topics
        /\ tx \in [Ids -> Nat]
    BY DEF Steps
  <2>3. /\ nextId \in 1 .. MaxMsgs + 1 /\ nsubs \in 0 .. MaxSubs
        /\ drops \in 0 .. MaxDrops /\ fails \in 0 .. MaxSendFails
    BY ConstantsAssumption
  <2> QED BY <2>1, <2>2, <2>3 DEF TypeOK, Links
<1>2. LinkSound /\ SubsCovered
  BY DEF LinkSound, SubsCovered
<1>3. PubListSound /\ NoDuplicateSend /\ AcceptedPendingOrSent /\ SentInAcceptOrder
  BY DEF PubListSound, NoDuplicateSend, AcceptedPendingOrSent, SentInAcceptOrder, Unsent
<1>4. OnePublishInFlight /\ FirstLinkSound
  BY DEF OnePublishInFlight, FirstLinkSound, InFlight, Unacked
<1> QED BY <1>1, <1>2, <1>3, <1>4 DEF IInv

LEMMA StepInv == IInv /\ [Next]_vars => IInv'
BY TypeStep, LinkStep, SubsStep, PubStep, FlightStep, FirstLinkStep DEF IInv, PubInv

\* Every reachable state satisfies the inductive invariant.
THEOREM Invariant == Spec => []IInv
<1>1. Init => IInv
  BY InitInv
<1>2. IInv /\ [Next]_vars => IInv'
  BY StepInv
<1> QED BY <1>1, <1>2, PTL DEF Spec

\* The lists and flags of the context, the link and the threads keep their types.
THEOREM TypeCorrect == Spec => []TypeOK
<1>1. IInv => TypeOK
  BY DEF IInv
<1> QED BY <1>1, Invariant, PTL

\* However many threads publish and however often the link breaks, at most one
\* QoS1 PUBLISH or PUBACK is in flight, and waiting_for_puback covers it.
THEOREM PublishSerialised == Spec => []OnePublishInFlight
<1>1. IInv => OnePublishInFlight
  BY DEF IInv
<1> QED BY <1>1, Invariant, PTL

\* The compactions of pending_pub_list lose no accepted message.
THEOREM NothingLost == Spec => []AcceptedPendingOrSent
<1>1. IInv => AcceptedPendingOrSent
  BY DEF IInv
<1> QED BY <1>1, Invariant, PTL

\* sent_list keeps every message from being transmitted twice.
THEOREM SentOnce == Spec => []NoDuplicateSend
<1>1. IInv => NoDuplicateSend
  BY DEF IInv
<1> QED BY <1>1, Invariant, PTL

\* Without failing sends messages leave in the order of acceptance.
THEOREM InOrder == Spec => []SentInAcceptOrder
<1>1. IInv => SentInAcceptOrder
  BY DEF IInv
<1> QED BY <1>1, Invariant, PTL

\* Reconnects bring back the subscription of every registered handler.
THEOREM HandlersStaySubscribed == Spec => []HandlersSubscribed
<1>1. IInv => HandlersSubscribed
  <2> SUFFICES ASSUME IInv, ~AllocMayFail, AppReconnect, link = "up", pendSub = <<>>, wire = {}
               PROVE  subs \subseteq bsubs
    BY DEF HandlersSubscribed
  <2>1. \A x \in subs : x \in bsubs \/ Requested(x) \/ x \in Range(pendSub)
    BY DEF IInv, SubsCovered
  <2>2. Range(pendSub) = {}
    BY DEF Range
  <2> QED BY <2>1, <2>2 DEF Requested
<1> QED BY <1>1, Invariant, PTL

\* On the first connection a PUBACK removes the message it acknowledges.
THEOREM AckExactOnFirstLink == Spec => AckRemovesAcknowledgedFirstLink
<1>1. IInv /\ [Next]_vars =>
        [drops = 0 => \A a \in back : AckStep(a) => RemovesAcked(a)]_vars
  <2> SUFFICES ASSUME IInv, Next, drops = 0, NEW a \in back, AckStep(a)
               PROVE  RemovesAcked(a)
    OBVIOUS
  <2> USE DEF ctxVars, lwsVars, brkVars, appVars, cntVars
  <2>1. a \notin back' /\ link' = "up" /\ a.type = "PUBACK" /\ back' = back \ {a}
    BY DEF AckStep
  <2>2. Ack
    BY <2>1 DEF Next, Connect, Reconnect, Disconnect, Deinit, App, PublishAppend, PublishRefuse,
           PublishCheck, PublishWake, SubscribeCheck, SubscribeAppend, Service, Established,
           ConnectionError, Closed, Subscribed, Writeable, WriteableWaiting, WriteableSubscribe,
           WriteableSubscribeFails, WriteablePublish, WriteableUnacked, Resend, Receive,
           Timer, BrokerTakes
  <2>3. a \in InFlight /\ waitPuback /\ alive
    BY <2>1, <2>2 DEF IInv, OnePublishInFlight, InFlight, LinkSound, Ack
  <2>4. PICK u \in Unacked(pendPub) : Unacked(pendPub) = {u} /\ u.id = a.id
    BY <2>3 DEF IInv, FirstLinkSound
  <2>5. u.id \in Nat /\ u \in pendPub
    BY <2>4 DEF IInv, TypeOK, Unacked, PubEntry, Ids
  <2>6. pendPub' = pendPub \ {u}
    BY <2>2, <2>3, <2>4, <2>5, AckTakesOnly DEF Ack
  <2>7. \A e \in pendPub : e.id = u.id => e = u
    BY <2>5 DEF IInv, PubListSound
  <2> QED BY <2>4, <2>5, <2>6, <2>7 DEF RemovesAcked, IdsOf
<1> QED BY <1>1, Invariant, PTL DEF Spec, AckRemovesAcknowledgedFirstLink
=============================================================================
