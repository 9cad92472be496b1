----------------------- MODULE OtaCoordination_proofs -----------------------
(***************************************************************************)
(* Proofs about OtaCoordination, for every set of manifests, every channel *)
(* depth and every bound.                                                  *)
(***************************************************************************)
EXTENDS OtaCoordination, TLAPS

\* The two slots: the other one is a slot, and another one.
LEMMA OtherSlotFact ==
  ASSUME NEW s \in Slots
  PROVE  OtherSlot(s) \in Slots /\ OtherSlot(s) # s
<1>1. \E t \in Slots : t # s
  BY SlotsAssumption
<1>. QED
  BY <1>1 DEF OtherSlot

\* Taking the first element off a channel.
LEMMA HeadTail ==
  ASSUME NEW S, NEW q \in Seq(S), q # <<>>
  PROVE  Head(q) \in S /\ Tail(q) \in Seq(S) /\ Len(Tail(q)) = Len(q) - 1
  OBVIOUS

\* A reset with well-formed flash contents leads to a well-formed state.
LEMMA BootType ==
  ASSUME TypeOK,
         NEW img \in [Slots -> {"Whole", "Broken"}],
         NEW st \in [Slots -> ImageState],
         NEW sel \in Slots,
         resets' \in 0..MaxResets,
         Boot(img, st, sel)
  PROVE  TypeOK'
<1>. DEFINE checked == AfterRollbackCheck(st, sel)
            slot == BootSlot(img, checked, sel)
<1>1. checked \in [Slots -> ImageState]
  BY DEF AfterRollbackCheck, ImageState
<1>2. slot \in Slots
  BY OtherSlotFact DEF BootSlot
<1>3. slotState' \in [Slots -> ImageState]
  BY <1>1, <1>2 DEF Boot, ImageState
<1>4. FlashType'
  BY <1>2, <1>3 DEF Boot, TasksStart, FlashType
<1>5. BrokerType'
  BY BoundsAssumption DEF Boot, TasksStart, TypeOK, BrokerType
<1>6. QueueType'
  BY BoundsAssumption DEF Boot, TasksStart, QueueType
<1>7. SharedType'
  BY DEF Boot, TasksStart, SharedType, OtaState
<1>8. TaskType'
  BY DEF Boot, TasksStart, TaskType, OtaState, MqttPc, OtaPc, ConfirmPc,
         MQTT_MIN_BACKOFF_SECS, MQTT_MAX_BACKOFF_SECS
<1>9. FlagType'
  BY DEF Boot, TasksStart, FlagType
<1>. QED
  BY <1>4, <1>5, <1>6, <1>7, <1>8, <1>9 DEF TypeOK

\* Opening a session: the part of the state the head of the loop writes.
LEMMA OpenSessionType ==
  ASSUME TypeOK, NEW t \in {"none", "mqtt", "ota"}, OpenSession(t)
  PROVE  /\ mqttPc' \in {"gate", "tlsBusy", "connecting"}
         /\ tls' \in {"none", "mqtt", "ota"} /\ sessionOta' \in OtaState
         /\ seen' \in BOOLEAN
         /\ inbox' \in Seq(Delivery)
         /\ Len(inbox') <= InboxDepth
  BY BoundsAssumption DEF OpenSession, TypeOK, TaskType, SharedType

\* Every step of mqtt_task keeps the types.
LEMMA MqttTypeStep ==
  ASSUME TypeOK, MqttNext
  PROVE  TypeOK'
<1>. USE BoundsAssumption DEF TypeOK, FlashType, FlagType, BrokerType, QueueType, SharedType,
            TaskType, flashVars, boundVars, otaVars, confirmVars, mqttVars,
            OtaState, MqttPc, OtaPc, ConfirmPc
<1>1. CASE MqttStart
  <2>1. tls \in {"none", "mqtt", "ota"} /\ OpenSession(tls)
    BY <1>1 DEF MqttStart
  <2>. QED
    BY <1>1, <2>1, OpenSessionType DEF MqttStart
<1>2. CASE MqttGateOpens
  <2>1. tls \in {"none", "mqtt", "ota"} /\ OpenSession(tls)
    BY <1>2 DEF MqttGateOpens
  <2>. QED
    BY <1>2, <2>1, OpenSessionType DEF MqttGateOpens
<1>3. CASE MqttBackoffExpires
  <2>1. TlsReleasedBy("mqtt") \in {"none", "mqtt", "ota"}
    BY DEF TlsReleasedBy
  <2>2. OpenSession(TlsReleasedBy("mqtt"))
    BY <1>3 DEF MqttBackoffExpires
  <2>3. backoff' \in 1..MQTT_MAX_BACKOFF_SECS
    BY <1>3 DEF MqttBackoffExpires, next_mqtt_backoff_secs, MQTT_MAX_BACKOFF_SECS
  <2>. QED
    BY <1>3, <2>1, <2>2, <2>3, OpenSessionType DEF MqttBackoffExpires
<1>4. CASE MqttConnects
  <2>1. ASSUME retained # NoManifest
        PROVE  [m |-> retained, retain |-> TRUE] \in Delivery
    BY <2>1 DEF Delivery
  <2>2. inbox' \in Seq(Delivery) /\ Len(inbox') <= InboxDepth
    BY <1>4, <2>1 DEF MqttConnects
  <2>. QED
    BY <1>4, <2>2 DEF MqttConnects
<1>5. CASE MqttSetupFails
  BY <1>5 DEF MqttSetupFails, SetupFailed
<1>6. CASE MqttEarlyForward
  <2>1. otaQueue' \in Seq(Manifests) /\ Len(otaQueue') <= 1
    <3>1. Head(inbox).m \in Manifests
      <4>1. Head(inbox) \in Delivery
        BY <1>6, HeadTail DEF MqttEarlyForward
      <4>. QED
        BY <4>1 DEF Delivery
    <3>2. otaQueue' = <<Head(inbox).m>>
      BY <1>6 DEF MqttEarlyForward, ForwardManifest
    <3>. QED
      BY <3>1, <3>2
  <2>2. mqttPc' = "setupBackoff" /\ inbox' = <<>>
    BY <1>6 DEF MqttEarlyForward, SetupFailed
  <2>. QED
    BY <1>6, <2>1, <2>2 DEF MqttEarlyForward
<1>7. CASE MqttEarlyClear
  BY <1>7 DEF MqttEarlyClear, ClearRetained
<1>8. CASE MqttSubscribed
  BY <1>8 DEF MqttSubscribed, MQTT_MIN_BACKOFF_SECS, MQTT_MAX_BACKOFF_SECS
<1>9. CASE MqttTakeReading
  <2>1. FlagType'
    BY <1>9 DEF MqttTakeReading
  <2>2. mqttQueue' \in Seq({"reading", "confirmed"}) /\ Len(mqttQueue') <= CommandDepth
    BY <1>9 DEF MqttTakeReading, ReadingAtHand
  <2>. QED
    BY <1>9, <2>1, <2>2 DEF MqttTakeReading
<1>10. CASE MqttIdleReconnect
  BY <1>10 DEF MqttIdleReconnect, ReadingAtHand, EndSession, TlsReleasedBy
<1>11. CASE MqttPublished
  BY <1>11 DEF MqttPublished
<1>12. CASE MqttDeepSleep
  BY <1>12, BootType DEF MqttDeepSleep
<1>13. CASE MqttPublishFails
  BY <1>13 DEF MqttPublishFails, EndSession, TlsReleasedBy
<1>14. CASE MqttTakeConfirmed
  BY <1>14 DEF MqttTakeConfirmed
<1>15. CASE MqttConfirmedSent
  BY <1>15 DEF MqttConfirmedSent
<1>16. CASE MqttSessionFails
  <2>1. FlagType'
    BY <1>16 DEF MqttSessionFails, EndSession
  <2>2. tls' \in {"none", "mqtt", "ota"} /\ inbox' = <<>>
    BY <1>16 DEF MqttSessionFails, EndSession, TlsReleasedBy
  <2>3. mqttPc' \in MqttPc /\ health' \in {"Unset", "Disconnected", "HeartbeatPublished"}
    BY <1>16 DEF MqttSessionFails, EndSession
  <2>. QED
    BY <1>16, <2>1, <2>2, <2>3 DEF MqttSessionFails
<1>17. CASE MqttForward
  <2>4. otaQueue' \in Seq(Manifests) /\ Len(otaQueue') <= 1
    <3>1. Head(inbox).m \in Manifests
      <4>1. Head(inbox) \in Delivery
        BY <1>17, HeadTail DEF MqttForward
      <4>. QED
        BY <4>1 DEF Delivery
    <3>2. otaQueue' = <<Head(inbox).m>>
      BY <1>17 DEF MqttForward, ForwardManifest
    <3>. QED
      BY <3>1, <3>2
  <2>1. FlagType'
    BY <1>17 DEF MqttForward, EndSession
  <2>2. tls' \in {"none", "mqtt", "ota"} /\ inbox' = <<>>
    BY <1>17 DEF MqttForward, EndSession, TlsReleasedBy
  <2>3. mqttPc' \in MqttPc /\ health' \in {"Unset", "Disconnected", "HeartbeatPublished"}
    BY <1>17 DEF MqttForward, EndSession
  <2>. QED
    BY <1>17, <2>1, <2>2, <2>3, <2>4 DEF MqttForward
<1>18. CASE MqttClear
  BY <1>18 DEF MqttClear, ClearRetained
<1>19. CASE MqttOtaStateChanged
  <2>1. FlagType'
    BY <1>19 DEF MqttOtaStateChanged, EndSession, TlsReleasedBy
  <2>2. FlashType'
    BY <1>19 DEF MqttOtaStateChanged, EndSession, TlsReleasedBy
  <2>3. BrokerType'
    <3>1. inbox' = inbox \/ inbox' = <<>>
      BY <1>19 DEF MqttOtaStateChanged, EndSession
    <3>2. UNCHANGED <<retained, published, resets>>
      BY <1>19 DEF MqttOtaStateChanged
    <3>3. CASE inbox' = inbox
      BY <3>2, <3>3
    <3>4. CASE inbox' = <<>>
      BY <3>2, <3>4
    <3>. QED
      BY <3>1, <3>3, <3>4
  <2>4. QueueType'
    BY <1>19 DEF MqttOtaStateChanged, EndSession, TlsReleasedBy
  <2>5. SharedType'
    BY <1>19 DEF MqttOtaStateChanged, EndSession, TlsReleasedBy
  <2>6. TaskType'
    BY <1>19 DEF MqttOtaStateChanged, EndSession, TlsReleasedBy
  <2>. QED
    BY <2>1, <2>2, <2>3, <2>4, <2>5, <2>6
<1>. QED
  BY <1>1, <1>2, <1>3, <1>4, <1>5, <1>6, <1>7, <1>8, <1>9, <1>10, <1>11, <1>12, <1>13, <1>14, <1>15, <1>16, <1>17, <1>18, <1>19 DEF MqttNext

\* Every step of ota_task keeps the types.
LEMMA OtaTypeStep ==
  ASSUME TypeOK, OtaNext
  PROVE  TypeOK'
<1>. USE BoundsAssumption DEF TypeOK, FlashType, FlagType, BrokerType, QueueType, SharedType,
            TaskType, flashVars, boundVars, otaVars, confirmVars, mqttVars,
            OtaState, MqttPc, OtaPc, ConfirmPc
<1>1. CASE OtaReject
  BY <1>1, HeadTail DEF OtaReject, OtaUntouched
<1>2. CASE OtaReceive
  <2>1. FlagType'
    BY <1>2 DEF OtaReceive, OtaUntouched, SendOtaState
  <2>2. FlashType'
    BY <1>2, HeadTail DEF OtaReceive, OtaUntouched, SendOtaState
  <2>3. BrokerType'
    BY <1>2 DEF OtaReceive, OtaUntouched, SendOtaState
  <2>4. QueueType'
    BY <1>2, HeadTail DEF OtaReceive, OtaUntouched, SendOtaState
  <2>5. SharedType'
    BY <1>2 DEF OtaReceive, OtaUntouched, SendOtaState
  <2>6. TaskType'
    BY <1>2 DEF OtaReceive, OtaUntouched, SendOtaState
  <2>. QED
    BY <2>1, <2>2, <2>3, <2>4, <2>5, <2>6
<1>3. CASE OtaStoodDown
  <2>1. FlagType'
    BY <1>3 DEF OtaStoodDown, OtaUntouched, SendOtaState
  <2>2. FlashType'
    BY <1>3 DEF OtaStoodDown, OtaUntouched, SendOtaState
  <2>3. BrokerType'
    BY <1>3 DEF OtaStoodDown, OtaUntouched, SendOtaState
  <2>4. QueueType'
    BY <1>3 DEF OtaStoodDown, OtaUntouched, SendOtaState
  <2>5. SharedType'
    BY <1>3 DEF OtaStoodDown, OtaUntouched, SendOtaState
  <2>6. TaskType'
    BY <1>3 DEF OtaStoodDown, OtaUntouched, SendOtaState
  <2>. QED
    BY <2>1, <2>2, <2>3, <2>4, <2>5, <2>6
<1>4. CASE OtaStandDownTimeout
  <2>1. FlagType'
    BY <1>4 DEF OtaStandDownTimeout, OtaUntouched, SendOtaState
  <2>2. FlashType'
    BY <1>4 DEF OtaStandDownTimeout, OtaUntouched, SendOtaState
  <2>3. BrokerType'
    BY <1>4 DEF OtaStandDownTimeout, OtaUntouched, SendOtaState
  <2>4. QueueType'
    BY <1>4 DEF OtaStandDownTimeout, OtaUntouched, SendOtaState
  <2>5. SharedType'
    BY <1>4 DEF OtaStandDownTimeout, OtaUntouched, SendOtaState
  <2>6. TaskType'
    BY <1>4 DEF OtaStandDownTimeout, OtaUntouched, SendOtaState
  <2>. QED
    BY <2>1, <2>2, <2>3, <2>4, <2>5, <2>6
<1>5. CASE OtaPrepare
  BY <1>5, OtherSlotFact DEF OtaPrepare, OtaUntouched, InactiveSlot
<1>6. CASE OtaPrepareFails
  <2>1. FlagType'
    BY <1>6 DEF OtaPrepareFails, OtaAbandoned, OtaUntouched, SendOtaState, TlsReleasedBy, InactiveSlot
  <2>2. FlashType'
    BY <1>6, OtherSlotFact DEF OtaPrepareFails, OtaAbandoned, OtaUntouched, SendOtaState, TlsReleasedBy, InactiveSlot
  <2>3. BrokerType'
    BY <1>6 DEF OtaPrepareFails, OtaAbandoned, OtaUntouched, SendOtaState, TlsReleasedBy, InactiveSlot
  <2>4. QueueType'
    BY <1>6, OtherSlotFact DEF OtaPrepareFails, OtaAbandoned, OtaUntouched, SendOtaState, TlsReleasedBy, InactiveSlot
  <2>5. SharedType'
    BY <1>6 DEF OtaPrepareFails, OtaAbandoned, OtaUntouched, SendOtaState, TlsReleasedBy, InactiveSlot
  <2>6. TaskType'
    BY <1>6 DEF OtaPrepareFails, OtaAbandoned, OtaUntouched, SendOtaState, TlsReleasedBy, InactiveSlot
  <2>. QED
    BY <2>1, <2>2, <2>3, <2>4, <2>5, <2>6
<1>7. CASE OtaAcquireTls
  BY <1>7 DEF OtaAcquireTls, OtaUntouched
<1>8. CASE OtaTlsTimeout
  <2>1. FlagType'
    BY <1>8 DEF OtaTlsTimeout, OtaAbandoned, OtaUntouched, SendOtaState, TlsReleasedBy, InactiveSlot
  <2>2. FlashType'
    BY <1>8 DEF OtaTlsTimeout, OtaAbandoned, OtaUntouched, SendOtaState, TlsReleasedBy, InactiveSlot
  <2>3. BrokerType'
    BY <1>8 DEF OtaTlsTimeout, OtaAbandoned, OtaUntouched, SendOtaState, TlsReleasedBy, InactiveSlot
  <2>4. QueueType'
    BY <1>8 DEF OtaTlsTimeout, OtaAbandoned, OtaUntouched, SendOtaState, TlsReleasedBy, InactiveSlot
  <2>5. SharedType'
    BY <1>8 DEF OtaTlsTimeout, OtaAbandoned, OtaUntouched, SendOtaState, TlsReleasedBy, InactiveSlot
  <2>6. TaskType'
    BY <1>8 DEF OtaTlsTimeout, OtaAbandoned, OtaUntouched, SendOtaState, TlsReleasedBy, InactiveSlot
  <2>. QED
    BY <2>1, <2>2, <2>3, <2>4, <2>5, <2>6
<1>9. CASE OtaRedirect
  BY <1>9 DEF OtaRedirect, OtaUntouched
<1>10. CASE OtaFetchFails
  <2>1. FlagType'
    BY <1>10 DEF OtaFetchFails, OtaAbandoned, OtaUntouched, SendOtaState, TlsReleasedBy, InactiveSlot
  <2>2. FlashType'
    BY <1>10 DEF OtaFetchFails, OtaAbandoned, OtaUntouched, SendOtaState, TlsReleasedBy, InactiveSlot
  <2>3. BrokerType'
    BY <1>10 DEF OtaFetchFails, OtaAbandoned, OtaUntouched, SendOtaState, TlsReleasedBy, InactiveSlot
  <2>4. QueueType'
    BY <1>10 DEF OtaFetchFails, OtaAbandoned, OtaUntouched, SendOtaState, TlsReleasedBy, InactiveSlot
  <2>5. SharedType'
    BY <1>10 DEF OtaFetchFails, OtaAbandoned, OtaUntouched, SendOtaState, TlsReleasedBy, InactiveSlot
  <2>6. TaskType'
    BY <1>10 DEF OtaFetchFails, OtaAbandoned, OtaUntouched, SendOtaState, TlsReleasedBy, InactiveSlot
  <2>. QED
    BY <2>1, <2>2, <2>3, <2>4, <2>5, <2>6
<1>11. CASE OtaInstalled
  <2>1. InactiveSlot \in Slots
    BY OtherSlotFact DEF InactiveSlot
  <2>2. [image EXCEPT ![InactiveSlot] = "Whole"] \in [Slots -> {"Whole", "Broken"}]
    BY <2>1
  <2>3. [slotState EXCEPT ![InactiveSlot] = "New"] \in [Slots -> ImageState]
    BY <2>1 DEF ImageState
  <2>. QED
    BY <1>11, <2>1, <2>2, <2>3, BootType DEF OtaInstalled
<1>12. CASE OtaActivateFails
  <2>1. FlagType'
    BY <1>12 DEF OtaActivateFails, OtaAbandoned, OtaUntouched, SendOtaState, TlsReleasedBy, InactiveSlot
  <2>2. FlashType'
    BY <1>12, OtherSlotFact DEF OtaActivateFails, OtaAbandoned, OtaUntouched, SendOtaState, TlsReleasedBy, InactiveSlot
  <2>3. BrokerType'
    BY <1>12 DEF OtaActivateFails, OtaAbandoned, OtaUntouched, SendOtaState, TlsReleasedBy, InactiveSlot
  <2>4. QueueType'
    BY <1>12, OtherSlotFact DEF OtaActivateFails, OtaAbandoned, OtaUntouched, SendOtaState, TlsReleasedBy, InactiveSlot
  <2>5. SharedType'
    BY <1>12 DEF OtaActivateFails, OtaAbandoned, OtaUntouched, SendOtaState, TlsReleasedBy, InactiveSlot
  <2>6. TaskType'
    BY <1>12 DEF OtaActivateFails, OtaAbandoned, OtaUntouched, SendOtaState, TlsReleasedBy, InactiveSlot
  <2>. QED
    BY <2>1, <2>2, <2>3, <2>4, <2>5, <2>6
<1>13. CASE OtaMarkNewFails
  <2>1. FlagType'
    BY <1>13 DEF OtaMarkNewFails, OtaAbandoned, OtaUntouched, SendOtaState, TlsReleasedBy, InactiveSlot, Activated, ImageState
  <2>2. FlashType'
    BY <1>13, OtherSlotFact DEF OtaMarkNewFails, OtaAbandoned, OtaUntouched, SendOtaState, TlsReleasedBy, InactiveSlot, Activated, ImageState
  <2>3. BrokerType'
    BY <1>13 DEF OtaMarkNewFails, OtaAbandoned, OtaUntouched, SendOtaState, TlsReleasedBy, InactiveSlot, Activated, ImageState
  <2>4. QueueType'
    BY <1>13, OtherSlotFact DEF OtaMarkNewFails, OtaAbandoned, OtaUntouched, SendOtaState, TlsReleasedBy, InactiveSlot, Activated, ImageState
  <2>5. SharedType'
    BY <1>13 DEF OtaMarkNewFails, OtaAbandoned, OtaUntouched, SendOtaState, TlsReleasedBy, InactiveSlot, Activated, ImageState
  <2>6. TaskType'
    BY <1>13 DEF OtaMarkNewFails, OtaAbandoned, OtaUntouched, SendOtaState, TlsReleasedBy, InactiveSlot, Activated, ImageState
  <2>. QED
    BY <2>1, <2>2, <2>3, <2>4, <2>5, <2>6
<1>14. CASE OtaPowerLossActivated
  <2>1. InactiveSlot \in Slots
    BY OtherSlotFact DEF InactiveSlot
  <2>2. [image EXCEPT ![InactiveSlot] = "Whole"] \in [Slots -> {"Whole", "Broken"}]
    BY <2>1
  <2>3. [slotState EXCEPT ![InactiveSlot] = "Undefined"] \in [Slots -> ImageState]
    BY <2>1 DEF ImageState
  <2>4. resets' \in 0..MaxResets
    BY <1>14 DEF OtaPowerLossActivated
  <2>5. PICK st \in {slotState, [slotState EXCEPT ![InactiveSlot] = "Undefined"]} :
               Boot([image EXCEPT ![InactiveSlot] = "Whole"], st, InactiveSlot)
    BY <1>14 DEF OtaPowerLossActivated
  <2>6. st \in [Slots -> ImageState]
    BY <2>3, <2>5
  <2>. QED
    BY <2>1, <2>2, <2>4, <2>5, <2>6, BootType
<1>. QED
  BY <1>1, <1>2, <1>3, <1>4, <1>5, <1>6, <1>7, <1>8, <1>9, <1>10, <1>11, <1>12, <1>13, <1>14 DEF OtaNext

\* Every step of ota_confirm_task keeps the types.
LEMMA ConfirmTypeStep ==
  ASSUME TypeOK, ConfirmNext
  PROVE  TypeOK'
<1>. USE BoundsAssumption DEF TypeOK, FlashType, FlagType, BrokerType, QueueType, SharedType,
            TaskType, flashVars, boundVars, otaVars, confirmVars, mqttVars,
            OtaState, MqttPc, OtaPc, ConfirmPc
<1>1. CASE ConfirmStart
  <2>1. FlagType'
    BY <1>1 DEF ConfirmStart, ConfirmUntouched, SendOtaState
  <2>2. FlashType'
    BY <1>1 DEF ConfirmStart, ConfirmUntouched, SendOtaState
  <2>3. BrokerType'
    BY <1>1 DEF ConfirmStart, ConfirmUntouched, SendOtaState
  <2>4. QueueType'
    BY <1>1 DEF ConfirmStart, ConfirmUntouched, SendOtaState
  <2>5. SharedType'
    BY <1>1 DEF ConfirmStart, ConfirmUntouched, SendOtaState
  <2>6. TaskType'
    BY <1>1 DEF ConfirmStart, ConfirmUntouched, SendOtaState
  <2>. QED
    BY <2>1, <2>2, <2>3, <2>4, <2>5, <2>6
<1>2. CASE ConfirmWarmedUp
  BY <1>2 DEF ConfirmWarmedUp, ConfirmUntouched, SendOtaState
<1>3. CASE WindowElapses
  BY <1>3 DEF WindowElapses, ConfirmUntouched, SendOtaState
<1>4. CASE ConfirmHealthy
  <2>1. FlagType'
    BY <1>4 DEF ConfirmHealthy, ConfirmUntouched, SendOtaState, MarkValid, ImageState
  <2>2. FlashType'
    BY <1>4 DEF ConfirmHealthy, ConfirmUntouched, SendOtaState, MarkValid, ImageState
  <2>3. BrokerType'
    BY <1>4 DEF ConfirmHealthy, ConfirmUntouched, SendOtaState, MarkValid, ImageState
  <2>4. QueueType'
    BY <1>4 DEF ConfirmHealthy, ConfirmUntouched, SendOtaState, MarkValid, ImageState
  <2>5. SharedType'
    BY <1>4 DEF ConfirmHealthy, ConfirmUntouched, SendOtaState, MarkValid, ImageState
  <2>6. TaskType'
    BY <1>4 DEF ConfirmHealthy, ConfirmUntouched, SendOtaState, MarkValid, ImageState
  <2>. QED
    BY <2>1, <2>2, <2>3, <2>4, <2>5, <2>6
<1>5. CASE ConfirmLocks
  <2>1. FlagType'
    BY <1>5 DEF ConfirmLocks, ConfirmUntouched, SendOtaState, MarkValid, ImageState
  <2>2. FlashType'
    BY <1>5 DEF ConfirmLocks, ConfirmUntouched, SendOtaState, MarkValid, ImageState
  <2>3. BrokerType'
    BY <1>5 DEF ConfirmLocks, ConfirmUntouched, SendOtaState, MarkValid, ImageState
  <2>4. QueueType'
    BY <1>5 DEF ConfirmLocks, ConfirmUntouched, SendOtaState, MarkValid, ImageState
  <2>5. SharedType'
    BY <1>5 DEF ConfirmLocks, ConfirmUntouched, SendOtaState, MarkValid, ImageState
  <2>6. TaskType'
    BY <1>5 DEF ConfirmLocks, ConfirmUntouched, SendOtaState, MarkValid, ImageState
  <2>. QED
    BY <2>1, <2>2, <2>3, <2>4, <2>5, <2>6
<1>6. CASE ConfirmNotify
  BY <1>6 DEF ConfirmNotify, ConfirmUntouched, SendOtaState
<1>. QED
  BY <1>1, <1>2, <1>3, <1>4, <1>5, <1>6 DEF ConfirmNext

\* TypeOK is an invariant: no interleaving of the three tasks, the operator,
\* the radio and the resets overflows a channel or leaves a variable's type.
THEOREM TypeCorrect == Spec => []TypeOK
<1>1. Init => TypeOK
  <2>. SUFFICES ASSUME Init PROVE TypeOK
    OBVIOUS
  <2>. USE BoundsAssumption DEF Init
  <2>1. FlashType
    BY DEF FlashType, ImageState
  <2>2. BrokerType /\ QueueType
    BY DEF BrokerType, QueueType
  <2>3. SharedType /\ TaskType
    BY DEF SharedType, TaskType, OtaState, MqttPc, OtaPc, ConfirmPc,
           MQTT_MIN_BACKOFF_SECS, MQTT_MAX_BACKOFF_SECS
  <2>4. FlagType
    BY DEF FlagType
  <2>. QED
    BY <2>1, <2>2, <2>3, <2>4 DEF TypeOK
<1>2. TypeOK /\ [Next]_vars => TypeOK'
  <2>. SUFFICES ASSUME TypeOK, [Next]_vars PROVE TypeOK'
    OBVIOUS
  <2>. USE BoundsAssumption DEF TypeOK, FlashType, FlagType, BrokerType,
              QueueType, SharedType, TaskType
  <2>1. CASE MqttNext
    BY <2>1, MqttTypeStep
  <2>2. CASE OtaNext
    BY <2>2, OtaTypeStep
  <2>3. CASE ConfirmNext
    BY <2>3, ConfirmTypeStep
  <2>4. ASSUME NEW m \in Manifests, NEW keep \in BOOLEAN, OperatorPublishes(m, keep)
        PROVE  TypeOK'
    <3>1. [m |-> m, retain |-> FALSE] \in Delivery
      BY DEF Delivery
    <3>2. inbox' \in Seq(Delivery) /\ Len(inbox') <= InboxDepth
      BY <2>4, <3>1 DEF OperatorPublishes
    <3>3. retained' \in Manifests \cup {NoManifest}
      BY <2>4 DEF OperatorPublishes
    <3>. QED
      BY <2>4, <3>2, <3>3 DEF OperatorPublishes, flashVars, otaVars, confirmVars
  <2>5. CASE ReadingArrives
    BY <2>5 DEF ReadingArrives, flashVars, boundVars, otaVars, confirmVars
  <2>6. CASE PowerLoss
    <3>1. resets' \in 0..MaxResets
      BY <2>6 DEF PowerLoss
    <3>. QED
      BY <2>6, <3>1, BootType DEF PowerLoss
  <2>7. CASE UNCHANGED vars
    BY <2>7 DEF vars
  <2>. QED
    BY <2>1, <2>2, <2>3, <2>4, <2>5, <2>6, <2>7 DEF Next
<1>. QED
  BY <1>1, <1>2, PTL DEF Spec
============================================================================
