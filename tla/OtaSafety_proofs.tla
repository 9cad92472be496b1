-------------------------- MODULE OtaSafety_proofs --------------------------
(***************************************************************************)
(* The safety of OtaCoordination: first the invariants that need nothing   *)
(* of the scheduler and survive every flash fault, then the exclusion of   *)
(* MQTT and OTA, which needs ready tasks to run before timers (Prompt).    *)
(***************************************************************************)
EXTENDS OtaCoordination_proofs

\* The bootloader starts a whole image as long as one slot holds one.
LEMMA BootWhole ==
  ASSUME NEW img \in [Slots -> {"Whole", "Broken"}],
         NEW st \in [Slots -> ImageState],
         NEW sel \in Slots,
         \E s \in Slots : img[s] = "Whole",
         Boot(img, st, sel)
  PROVE  image'[running'] = "Whole"
<1>. DEFINE checked == AfterRollbackCheck(st, sel)
            slot == BootSlot(img, checked, sel)
<1>1. image' = img /\ running' = slot
  BY DEF Boot
<1>2. OtherSlot(sel) \in Slots /\ OtherSlot(sel) # sel
  BY OtherSlotFact
<1>3. Slots = {sel, OtherSlot(sel)}
  BY <1>2, SlotsAssumption
<1>4. CASE img[OtherSlot(sel)] = "Broken"
  <2>1. slot = sel /\ img[sel] = "Whole"
    BY <1>3, <1>4 DEF BootSlot
  <2>. QED
    BY <1>1, <2>1
<1>5. CASE img[OtherSlot(sel)] = "Whole"
  <2>1. img[slot] = "Whole"
    BY <1>5 DEF BootSlot
  <2>. QED
    BY <1>1, <2>1
<1>. QED
  BY <1>2, <1>4, <1>5

\* After a reset the tasks start over with nothing held.
LEMMA BootGuards ==
  ASSUME NEW img, NEW st, NEW sel, Boot(img, st, sel)
  PROVE  /\ GuardsHeldWhere' /\ ApplyingWhileFlashHeld' /\ WorkspaceNeverBusy'
  BY DEF Boot, TasksStart, GuardsHeldWhere, ApplyingWhileFlashHeld,
         WorkspaceNeverBusy

\* The running slot is not the target of a download.
LEMMA TargetIsOther ==
  ASSUME TypeOK, NEW v \in {"Whole", "Broken"}
  PROVE  /\ InactiveSlot \in Slots /\ InactiveSlot # running
         /\ [image EXCEPT ![InactiveSlot] = v] \in [Slots -> {"Whole", "Broken"}]
         /\ [image EXCEPT ![InactiveSlot] = v][running] = image[running]
  BY OtherSlotFact DEF InactiveSlot, TypeOK, FlashType

\* The invariant that holds under any schedule.
GuardInv ==
  /\ GuardsHeldWhere /\ ApplyingWhileFlashHeld /\ WorkspaceNeverBusy
  /\ DeviceBootable

\* mqtt_task keeps the invariant.
LEMMA MqttGuardStep ==
  ASSUME TypeOK, GuardInv, MqttNext
  PROVE  GuardInv'
<1>. USE DEF GuardInv, GuardsHeldWhere, ApplyingWhileFlashHeld, WorkspaceNeverBusy,
            DeviceBootable, TypeOK, FlashType, FlagType, SharedType, TaskType,
            OtaState, MqttPc, OtaPc, ConfirmPc, flashVars, otaVars,
            confirmVars, mqttVars
<1>1. CASE MqttStart
  BY <1>1 DEF MqttStart, OpenSession, is_mqtt_allowed
<1>2. CASE MqttGateOpens
  BY <1>2 DEF MqttGateOpens, OpenSession, is_mqtt_allowed
<1>3. CASE MqttBackoffExpires
  BY <1>3 DEF MqttBackoffExpires, OpenSession, is_mqtt_allowed, TlsReleasedBy
<1>4. CASE MqttConnects
  BY <1>4 DEF MqttConnects, Booted
<1>5. CASE MqttSetupFails
  BY <1>5 DEF MqttSetupFails, SetupFailed, Booted
<1>6. CASE MqttEarlyForward
  BY <1>6 DEF MqttEarlyForward, SetupFailed, ForwardManifest
<1>7. CASE MqttEarlyClear
  BY <1>7 DEF MqttEarlyClear
<1>8. CASE MqttSubscribed
  BY <1>8 DEF MqttSubscribed
<1>9. CASE MqttTakeReading
  BY <1>9 DEF MqttTakeReading
<1>10. CASE MqttIdleReconnect
  BY <1>10 DEF MqttIdleReconnect, EndSession, TlsReleasedBy
<1>11. CASE MqttPublished
  BY <1>11 DEF MqttPublished
<1>12. CASE MqttDeepSleep
  <2>1. \E s \in Slots : image[s] = "Whole"
    BY DEF TypeOK, FlashType
  <2>. QED
    BY <1>12, <2>1, BootWhole, BootGuards DEF MqttDeepSleep
<1>13. CASE MqttPublishFails
  BY <1>13 DEF MqttPublishFails, EndSession, TlsReleasedBy
<1>14. CASE MqttTakeConfirmed
  BY <1>14 DEF MqttTakeConfirmed
<1>15. CASE MqttConfirmedSent
  BY <1>15 DEF MqttConfirmedSent
<1>16. CASE MqttSessionFails
  BY <1>16 DEF MqttSessionFails, EndSession, TlsReleasedBy
<1>17. CASE MqttForward
  BY <1>17 DEF MqttForward, EndSession, TlsReleasedBy, ForwardManifest
<1>18. CASE MqttClear
  BY <1>18 DEF MqttClear
<1>19. CASE MqttOtaStateChanged
  BY <1>19 DEF MqttOtaStateChanged, EndSession, TlsReleasedBy
<1>. QED
  BY <1>1, <1>2, <1>3, <1>4, <1>5, <1>6, <1>7, <1>8, <1>9, <1>10, <1>11, <1>12, <1>13, <1>14, <1>15, <1>16, <1>17, <1>18, <1>19 DEF MqttNext

\* ota_task keeps the invariant.
LEMMA OtaGuardStep ==
  ASSUME TypeOK, GuardInv, OtaNext
  PROVE  GuardInv'
<1>. USE DEF GuardInv, GuardsHeldWhere, ApplyingWhileFlashHeld, WorkspaceNeverBusy,
            DeviceBootable, TypeOK, FlashType, FlagType, SharedType, TaskType,
            OtaState, MqttPc, OtaPc, ConfirmPc, flashVars, otaVars,
            confirmVars, mqttVars
<1>1. CASE OtaReject
  BY <1>1 DEF OtaReject, OtaUntouched
<1>2. CASE OtaReceive
  BY <1>2 DEF OtaReceive, OtaUntouched, SendOtaState
<1>3. CASE OtaStoodDown
  BY <1>3 DEF OtaStoodDown, OtaUntouched, SendOtaState
<1>4. CASE OtaStandDownTimeout
  BY <1>4 DEF OtaStandDownTimeout, OtaUntouched, SendOtaState
<1>5. CASE OtaPrepare
  BY <1>5, TargetIsOther DEF OtaPrepare, OtaUntouched
<1>6. CASE OtaPrepareFails
  BY <1>6, TargetIsOther DEF OtaPrepareFails, OtaAbandoned, OtaUntouched, SendOtaState, TlsReleasedBy
<1>7. CASE OtaAcquireTls
  BY <1>7 DEF OtaAcquireTls, OtaUntouched
<1>8. CASE OtaTlsTimeout
  BY <1>8 DEF OtaTlsTimeout, OtaAbandoned, OtaUntouched, SendOtaState, TlsReleasedBy
<1>9. CASE OtaRedirect
  BY <1>9 DEF OtaRedirect, OtaUntouched
<1>10. CASE OtaFetchFails
  BY <1>10 DEF OtaFetchFails, OtaAbandoned, OtaUntouched, SendOtaState, TlsReleasedBy
<1>11. CASE OtaInstalled
  <2>1. \E s \in Slots : [image EXCEPT ![InactiveSlot] = "Whole"][s] = "Whole"
    BY TargetIsOther
  <2>2. [slotState EXCEPT ![InactiveSlot] = "New"] \in [Slots -> ImageState]
    BY TargetIsOther DEF ImageState
  <2>. QED
    BY <1>11, <2>1, <2>2, TargetIsOther, BootWhole, BootGuards DEF OtaInstalled
<1>12. CASE OtaActivateFails
  BY <1>12, TargetIsOther DEF OtaActivateFails, OtaAbandoned, OtaUntouched, SendOtaState, TlsReleasedBy
<1>13. CASE OtaMarkNewFails
  BY <1>13, TargetIsOther DEF OtaMarkNewFails, OtaAbandoned, OtaUntouched, SendOtaState, TlsReleasedBy, Activated
<1>14. CASE OtaPowerLossActivated
  <2>1. \E s \in Slots : [image EXCEPT ![InactiveSlot] = "Whole"][s] = "Whole"
    BY TargetIsOther
  <2>2. [slotState EXCEPT ![InactiveSlot] = "Undefined"] \in [Slots -> ImageState]
    BY TargetIsOther DEF ImageState
  <2>3. PICK st \in {slotState, [slotState EXCEPT ![InactiveSlot] = "Undefined"]} :
           Boot([image EXCEPT ![InactiveSlot] = "Whole"], st, InactiveSlot)
    BY <1>14 DEF OtaPowerLossActivated
  <2>4. st \in [Slots -> ImageState]
    BY <2>2, <2>3
  <2>. QED
    BY <2>1, <2>3, <2>4, TargetIsOther, BootWhole, BootGuards
<1>. QED
  BY <1>1, <1>2, <1>3, <1>4, <1>5, <1>6, <1>7, <1>8, <1>9, <1>10, <1>11, <1>12, <1>13, <1>14 DEF OtaNext

\* ota_confirm_task keeps the invariant.
LEMMA ConfirmGuardStep ==
  ASSUME TypeOK, GuardInv, ConfirmNext
  PROVE  GuardInv'
<1>. USE DEF GuardInv, GuardsHeldWhere, ApplyingWhileFlashHeld, WorkspaceNeverBusy,
            DeviceBootable, TypeOK, FlashType, FlagType, SharedType, TaskType,
            OtaState, MqttPc, OtaPc, ConfirmPc, flashVars, otaVars,
            confirmVars, mqttVars
<1>1. CASE ConfirmStart
  BY <1>1 DEF ConfirmStart, ConfirmUntouched, SendOtaState
<1>2. CASE ConfirmWarmedUp
  BY <1>2 DEF ConfirmWarmedUp, ConfirmUntouched, SendOtaState
<1>3. CASE WindowElapses
  BY <1>3 DEF WindowElapses, ConfirmUntouched, SendOtaState
<1>4. CASE ConfirmHealthy
  BY <1>4 DEF ConfirmHealthy, ConfirmUntouched, SendOtaState, MarkValid
<1>5. CASE ConfirmLocks
  BY <1>5 DEF ConfirmLocks, ConfirmUntouched, SendOtaState, MarkValid
<1>6. CASE ConfirmNotify
  BY <1>6 DEF ConfirmNotify, ConfirmUntouched, SendOtaState
<1>. QED
  BY <1>1, <1>2, <1>3, <1>4, <1>5, <1>6 DEF ConfirmNext

\* GuardInv is inductive given the types.
LEMMA GuardInvariant == Spec => [](TypeOK /\ GuardInv)
<1>1. Init => GuardInv
  BY DEF Init, GuardInv, GuardsHeldWhere, ApplyingWhileFlashHeld,
         WorkspaceNeverBusy, DeviceBootable
<1>2. TypeOK /\ TypeOK' /\ GuardInv /\ [Next]_vars => GuardInv'
  <2>. SUFFICES ASSUME TypeOK, GuardInv, [Next]_vars PROVE GuardInv'
    OBVIOUS
  <2>1. CASE MqttNext
    BY <2>1, MqttGuardStep
  <2>2. CASE OtaNext
    BY <2>2, OtaGuardStep
  <2>3. CASE ConfirmNext
    BY <2>3, ConfirmGuardStep
  <2>4. ASSUME NEW m \in Manifests, NEW keep \in BOOLEAN, OperatorPublishes(m, keep)
        PROVE  GuardInv'
    BY <2>4 DEF OperatorPublishes, GuardInv, GuardsHeldWhere, ApplyingWhileFlashHeld,
          WorkspaceNeverBusy, DeviceBootable, flashVars, otaVars, confirmVars
  <2>5. CASE ReadingArrives
    BY <2>5 DEF ReadingArrives, GuardInv, GuardsHeldWhere, ApplyingWhileFlashHeld,
          WorkspaceNeverBusy, DeviceBootable, flashVars, otaVars, confirmVars
  <2>6. CASE PowerLoss
    <3>1. \E s \in Slots : image[s] = "Whole"
      BY DEF GuardInv, DeviceBootable, TypeOK, FlashType
    <3>. QED
      BY <2>6, <3>1, BootWhole, BootGuards
      DEF PowerLoss, GuardInv, DeviceBootable, TypeOK, FlashType
  <2>7. CASE UNCHANGED vars
    BY <2>7 DEF vars, GuardInv, GuardsHeldWhere, ApplyingWhileFlashHeld,
          WorkspaceNeverBusy, DeviceBootable
  <2>. QED
    BY <2>1, <2>2, <2>3, <2>4, <2>5, <2>6, <2>7 DEF Next
<1>. QED
  BY <1>1, <1>2, TypeCorrect, PTL DEF Spec

\* Whatever resets, flash faults and interleavings: the slot the device runs
\* from, and would restart from, holds a whole image.
THEOREM AlwaysBootable == Spec => []DeviceBootable
  BY GuardInvariant, PTL DEF GuardInv

\* The OTA state the other tasks are gated on says Applying for as long as
\* download_and_write_to_flash holds the flash mutex.
THEOREM ApplyingPublished == Spec => []ApplyingWhileFlashHeld
  BY GuardInvariant, PTL DEF GuardInv

\* mqtt_task never meets a TLS workspace someone else holds.
THEOREM WorkspaceFree == Spec => []WorkspaceNeverBusy
  BY GuardInvariant, PTL DEF GuardInv

\* After a reset MQTT has no session and ota_task no manifest.
LEMMA BootSessions ==
  ASSUME NEW img, NEW st, NEW sel, Boot(img, st, sel)
  PROVE  SessionsExcludeOta' /\ OtaHasNetworkAlone'
  BY DEF Boot, TasksStart, SessionsExcludeOta, OtaHasNetworkAlone, InSession

\* The invariant of a scheduler that runs ready tasks before timers.
SessionInv == SessionsExcludeOta /\ OtaHasNetworkAlone

\* mqtt_task keeps the invariant: a back-off cannot expire past a manifest
\* that waits, and the gate is shut while ota_task works on one.
LEMMA MqttSessionStep ==
  ASSUME Prompt, TypeOK, GuardInv, SessionInv, MqttNext
  PROVE  SessionInv'
<1>. USE DEF SessionInv, SessionsExcludeOta, OtaHasNetworkAlone, InSession,
            GuardInv, GuardsHeldWhere, ApplyingWhileFlashHeld,
            WorkspaceNeverBusy, TypeOK, FlagType, SharedType, TaskType,
            OtaState, MqttPc, OtaPc, ConfirmPc, otaVars, confirmVars, mqttVars
<1>1. CASE MqttStart
  BY <1>1 DEF MqttStart, OpenSession, is_mqtt_allowed
<1>2. CASE MqttGateOpens
  BY <1>2 DEF MqttGateOpens, OpenSession, is_mqtt_allowed
<1>3. CASE MqttBackoffExpires
  BY <1>3 DEF MqttBackoffExpires, OpenSession, is_mqtt_allowed, Quiet, OtaReady
<1>4. CASE MqttConnects
  BY <1>4 DEF MqttConnects
<1>5. CASE MqttSetupFails
  BY <1>5 DEF MqttSetupFails, SetupFailed
<1>6. CASE MqttEarlyForward
  BY <1>6 DEF MqttEarlyForward, SetupFailed, ForwardManifest
<1>7. CASE MqttEarlyClear
  BY <1>7 DEF MqttEarlyClear
<1>8. CASE MqttSubscribed
  BY <1>8 DEF MqttSubscribed
<1>9. CASE MqttTakeReading
  BY <1>9 DEF MqttTakeReading
<1>10. CASE MqttIdleReconnect
  BY <1>10 DEF MqttIdleReconnect, EndSession, TlsReleasedBy
<1>11. CASE MqttPublished
  BY <1>11 DEF MqttPublished
<1>12. CASE MqttDeepSleep
  BY <1>12, BootSessions DEF MqttDeepSleep
<1>13. CASE MqttPublishFails
  BY <1>13 DEF MqttPublishFails, EndSession, TlsReleasedBy
<1>14. CASE MqttTakeConfirmed
  BY <1>14 DEF MqttTakeConfirmed
<1>15. CASE MqttConfirmedSent
  BY <1>15 DEF MqttConfirmedSent
<1>16. CASE MqttSessionFails
  BY <1>16 DEF MqttSessionFails, EndSession, TlsReleasedBy
<1>17. CASE MqttForward
  BY <1>17 DEF MqttForward, EndSession, TlsReleasedBy, ForwardManifest
<1>18. CASE MqttClear
  BY <1>18 DEF MqttClear
<1>19. CASE MqttOtaStateChanged
  BY <1>19 DEF MqttOtaStateChanged, EndSession, TlsReleasedBy
<1>. QED
  BY <1>1, <1>2, <1>3, <1>4, <1>5, <1>6, <1>7, <1>8, <1>9, <1>10, <1>11, <1>12, <1>13, <1>14, <1>15, <1>16, <1>17, <1>18, <1>19 DEF MqttNext

\* ota_task keeps the invariant.
LEMMA OtaSessionStep ==
  ASSUME Prompt, TypeOK, GuardInv, SessionInv, OtaNext
  PROVE  SessionInv'
<1>. USE DEF SessionInv, SessionsExcludeOta, OtaHasNetworkAlone, InSession,
            GuardInv, GuardsHeldWhere, ApplyingWhileFlashHeld,
            WorkspaceNeverBusy, TypeOK, FlagType, SharedType, TaskType,
            OtaState, MqttPc, OtaPc, ConfirmPc, otaVars, confirmVars, mqttVars
<1>1. CASE OtaReject
  BY <1>1 DEF OtaReject, OtaUntouched, QueueType
<1>2. CASE OtaReceive
  BY <1>2 DEF OtaReceive, OtaUntouched, SendOtaState, QueueType
<1>3. CASE OtaStoodDown
  BY <1>3 DEF OtaStoodDown, OtaUntouched, SendOtaState
<1>4. CASE OtaStandDownTimeout
  BY <1>4 DEF OtaStandDownTimeout, OtaUntouched, SendOtaState
<1>5. CASE OtaPrepare
  BY <1>5 DEF OtaPrepare, OtaUntouched
<1>6. CASE OtaPrepareFails
  BY <1>6 DEF OtaPrepareFails, OtaAbandoned, OtaUntouched, SendOtaState, TlsReleasedBy
<1>7. CASE OtaAcquireTls
  BY <1>7 DEF OtaAcquireTls, OtaUntouched
<1>8. CASE OtaTlsTimeout
  BY <1>8 DEF OtaTlsTimeout, OtaAbandoned, OtaUntouched, SendOtaState, TlsReleasedBy
<1>9. CASE OtaRedirect
  BY <1>9 DEF OtaRedirect, OtaUntouched
<1>10. CASE OtaFetchFails
  BY <1>10 DEF OtaFetchFails, OtaAbandoned, OtaUntouched, SendOtaState, TlsReleasedBy
<1>11. CASE OtaInstalled
  BY <1>11, BootSessions DEF OtaInstalled
<1>12. CASE OtaActivateFails
  BY <1>12 DEF OtaActivateFails, OtaAbandoned, OtaUntouched, SendOtaState, TlsReleasedBy
<1>13. CASE OtaMarkNewFails
  BY <1>13 DEF OtaMarkNewFails, OtaAbandoned, OtaUntouched, SendOtaState, TlsReleasedBy
<1>14. CASE OtaPowerLossActivated
  BY <1>14, BootSessions DEF OtaPowerLossActivated
<1>. QED
  BY <1>1, <1>2, <1>3, <1>4, <1>5, <1>6, <1>7, <1>8, <1>9, <1>10, <1>11, <1>12, <1>13, <1>14 DEF OtaNext

\* ota_confirm_task keeps the invariant: it sends a state only before any
\* manifest or while MQTT has a session.
LEMMA ConfirmSessionStep ==
  ASSUME Prompt, TypeOK, GuardInv, SessionInv, ConfirmNext
  PROVE  SessionInv'
<1>. USE DEF SessionInv, SessionsExcludeOta, OtaHasNetworkAlone, InSession,
            GuardInv, GuardsHeldWhere, ApplyingWhileFlashHeld,
            WorkspaceNeverBusy, TypeOK, FlagType, SharedType, TaskType,
            OtaState, MqttPc, OtaPc, ConfirmPc, otaVars, confirmVars, mqttVars
<1>1. CASE ConfirmStart
  BY <1>1 DEF ConfirmStart, ConfirmUntouched, SendOtaState
<1>2. CASE ConfirmWarmedUp
  BY <1>2 DEF ConfirmWarmedUp, ConfirmUntouched, SendOtaState
<1>3. CASE WindowElapses
  BY <1>3 DEF WindowElapses, ConfirmUntouched, SendOtaState
<1>4. CASE ConfirmHealthy
  BY <1>4 DEF ConfirmHealthy, ConfirmUntouched, SendOtaState, MarkValid
<1>5. CASE ConfirmLocks
  BY <1>5 DEF ConfirmLocks, ConfirmUntouched, SendOtaState, MarkValid
<1>6. CASE ConfirmNotify
  BY <1>6 DEF ConfirmNotify, ConfirmUntouched, SendOtaState
<1>. QED
  BY <1>1, <1>2, <1>3, <1>4, <1>5, <1>6 DEF ConfirmNext

\* Both invariants together, given Prompt.
LEMMA SessionInvariant == Prompt => (Spec => [](TypeOK /\ GuardInv /\ SessionInv))
<1>. SUFFICES ASSUME Prompt PROVE Spec => [](TypeOK /\ GuardInv /\ SessionInv)
  OBVIOUS
<1>1. Init => SessionInv
  BY DEF Init, SessionInv, SessionsExcludeOta, OtaHasNetworkAlone, InSession
<1>2. TypeOK /\ GuardInv /\ SessionInv /\ [Next]_vars => SessionInv'
  <2>. SUFFICES ASSUME TypeOK, GuardInv, SessionInv, [Next]_vars PROVE SessionInv'
    OBVIOUS
  <2>1. CASE MqttNext
    BY <2>1, MqttSessionStep
  <2>2. CASE OtaNext
    BY <2>2, OtaSessionStep
  <2>3. CASE ConfirmNext
    BY <2>3, ConfirmSessionStep
  <2>4. ASSUME NEW m \in Manifests, NEW keep \in BOOLEAN, OperatorPublishes(m, keep)
        PROVE  SessionInv'
    BY <2>4 DEF OperatorPublishes, otaVars, confirmVars,
       SessionInv, SessionsExcludeOta, OtaHasNetworkAlone, InSession
  <2>5. CASE ReadingArrives
    BY <2>5 DEF ReadingArrives, otaVars, confirmVars,
       SessionInv, SessionsExcludeOta, OtaHasNetworkAlone, InSession
  <2>6. CASE PowerLoss
    BY <2>6, BootSessions DEF PowerLoss, SessionInv
  <2>7. CASE UNCHANGED vars
    BY <2>7 DEF vars, SessionInv, SessionsExcludeOta, OtaHasNetworkAlone, InSession
  <2>. QED
    BY <2>1, <2>2, <2>3, <2>4, <2>5, <2>6, <2>7 DEF Next
<1>. QED
  BY <1>1, <1>2, GuardInvariant, PTL DEF Spec

\* If ready tasks run before timers fire, MQTT has no session and sets none up
\* from the moment ota_task accepts a manifest until it gives up or resets.
THEOREM OtaAlone == Prompt => (Spec => []OtaHasNetworkAlone)
  BY SessionInvariant, PTL DEF SessionInv

\* If ready tasks run before timers fire, MQTT's health is that of its session
\* and a manifest waits only for an idle ota_task and a silent mqtt_task.
THEOREM SessionsKeepOut == Prompt => (Spec => []SessionsExcludeOta)
  BY SessionInvariant, PTL DEF SessionInv

\* If ready tasks run before timers fire, deep sleep never cuts short an OTA
\* attempt, although it is decided on a state read before the publish.
THEOREM SleepSparesOta == Prompt => (Spec => NoSleepDuringOta)
<1>. SUFFICES ASSUME Prompt PROVE Spec => NoSleepDuringOta
  OBVIOUS
<1>1. TypeOK /\ GuardInv /\ SessionInv /\ [Next]_vars =>
        [MqttDeepSleep => otaPc = "recv" /\ otaQueue = <<>> /\ otaState = "Inactive"]_vars
  BY DEF MqttDeepSleep, SessionInv, SessionsExcludeOta, OtaHasNetworkAlone, InSession
<1>. QED
  BY <1>1, SessionInvariant, PTL DEF Spec, NoSleepDuringOta

\* No slot becomes valid in a step.
NothingConfirmed == \A s \in Slots : slotState'[s] = "Valid" => slotState[s] = "Valid"

\* The bootloader selects what it starts, and makes nothing valid.
LEMMA BootSelects ==
  ASSUME NEW img, NEW st \in [Slots -> ImageState], NEW sel \in Slots,
         \A s \in Slots : st[s] = "Valid" => slotState[s] = "Valid",
         Boot(img, st, sel)
  PROVE  selected' = running' /\ NothingConfirmed
<1>1. AfterRollbackCheck(st, sel) \in [Slots -> ImageState]
      /\ \A s \in Slots : AfterRollbackCheck(st, sel)[s] = "Valid" => st[s] = "Valid"
  BY DEF AfterRollbackCheck, ImageState
<1>. QED
  BY <1>1 DEF Boot, NothingConfirmed

\* Every step but the two that mark a slot valid confirms nothing; selected and
\* running differ only after a failed mark_current_app_new.
LEMMA SlotSteps ==
  ASSUME TypeOK, [Next]_vars
  PROVE  \/ UNCHANGED <<slotState, selected, running>>
         \/ selected' = running' /\ NothingConfirmed
         \/ FlashFaults /\ UNCHANGED running /\ NothingConfirmed
         \/ (ConfirmHealthy \/ ConfirmLocks) /\ UNCHANGED <<selected, running>>
<1>. USE DEF TypeOK, FlashType, flashVars
<1>0. InactiveSlot \in Slots
  BY OtherSlotFact DEF InactiveSlot
<1>1. CASE MqttNext
  <2>1. CASE MqttDeepSleep
    BY <2>1, BootSelects DEF MqttDeepSleep
  <2>2. CASE MqttStart \/ MqttGateOpens \/ MqttBackoffExpires \/ MqttConnects
             \/ MqttSetupFails \/ MqttEarlyForward \/ MqttEarlyClear \/ MqttSubscribed
    BY <2>2 DEF MqttStart, MqttGateOpens, MqttBackoffExpires, MqttConnects,
       MqttSetupFails, MqttEarlyForward, MqttEarlyClear, MqttSubscribed
  <2>3. CASE MqttTakeReading \/ MqttIdleReconnect \/ MqttPublished \/ MqttPublishFails
             \/ MqttTakeConfirmed \/ MqttConfirmedSent \/ MqttSessionFails
             \/ MqttForward \/ MqttClear \/ MqttOtaStateChanged
    BY <2>3 DEF MqttTakeReading, MqttIdleReconnect, MqttPublished, MqttPublishFails,
       MqttTakeConfirmed, MqttConfirmedSent, MqttSessionFails, MqttForward, MqttClear,
       MqttOtaStateChanged
  <2>. QED
    BY <1>1, <2>1, <2>2, <2>3 DEF MqttNext
<1>2. CASE OtaNext
  <2>1. CASE OtaReject \/ OtaReceive \/ OtaStoodDown \/ OtaStandDownTimeout \/ OtaPrepare
             \/ OtaAcquireTls \/ OtaRedirect
    BY <2>1 DEF OtaReject, OtaReceive, OtaStoodDown, OtaStandDownTimeout, OtaPrepare,
       OtaAcquireTls, OtaRedirect
  <2>2. CASE OtaPrepareFails \/ OtaTlsTimeout \/ OtaFetchFails \/ OtaActivateFails
    BY <2>2 DEF OtaPrepareFails, OtaTlsTimeout, OtaFetchFails, OtaActivateFails, OtaAbandoned
  <2>3. CASE OtaMarkNewFails
    BY <1>0, <2>3 DEF OtaMarkNewFails, Activated, OtaAbandoned, NothingConfirmed
  <2>4. ASSUME NEW v \in {"New", "Undefined"}
        PROVE  /\ [slotState EXCEPT ![InactiveSlot] = v] \in [Slots -> ImageState]
               /\ \A s \in Slots : [slotState EXCEPT ![InactiveSlot] = v][s] = "Valid"
                                     => slotState[s] = "Valid"
    BY <1>0, <2>4 DEF ImageState
  <2>5. CASE OtaInstalled
    BY <1>0, <2>4, <2>5, BootSelects DEF OtaInstalled
  <2>6. CASE OtaPowerLossActivated
    BY <1>0, <2>4, <2>6, BootSelects DEF OtaPowerLossActivated
  <2>. QED
    BY <1>2, <2>1, <2>2, <2>3, <2>5, <2>6 DEF OtaNext
<1>3. CASE ConfirmNext
  BY <1>3 DEF ConfirmNext, ConfirmStart, ConfirmWarmedUp, WindowElapses, ConfirmHealthy,
     ConfirmLocks, ConfirmNotify, ConfirmUntouched
<1>4. ASSUME NEW m \in Manifests, NEW keep \in BOOLEAN, OperatorPublishes(m, keep)
      PROVE  UNCHANGED <<slotState, selected, running>>
  BY <1>4 DEF OperatorPublishes
<1>5. CASE ReadingArrives \/ UNCHANGED vars
  BY <1>5 DEF ReadingArrives, vars
<1>6. CASE PowerLoss
  BY <1>6, BootSelects DEF PowerLoss
<1>. QED
  BY <1>1, <1>2, <1>3, <1>4, <1>5, <1>6 DEF Next

\* The device runs the slot the boot metadata selects, unless marking a newly
\* activated slot failed.
SelectedRuns == selected = running \/ FlashFaults

\* If ready tasks run before timers fire, a slot is confirmed only after a
\* healthy confirmation window, and it is the selected one, whatever fails.
THEOREM ConfirmedHealthy == Prompt => (Spec => ConfirmedOnlyWhenHealthy)
<1>. SUFFICES ASSUME Prompt PROVE Spec => ConfirmedOnlyWhenHealthy
  OBVIOUS
<1>1. TypeOK /\ SessionInv /\ [Next]_vars =>
        [\A s \in Slots : slotState'[s] = "Valid" /\ slotState[s] # "Valid" =>
            /\ s = selected
            /\ windowElapsed /\ health = "HeartbeatPublished"]_vars
  <2>. SUFFICES ASSUME TypeOK, SessionInv, [Next]_vars,
                       NEW s \in Slots, slotState'[s] = "Valid", slotState[s] # "Valid"
                PROVE  s = selected /\ windowElapsed /\ health = "HeartbeatPublished"
    OBVIOUS
  <2>1. ConfirmHealthy
    BY SlotSteps DEF NothingConfirmed, ConfirmLocks, SessionInv, SessionsExcludeOta
  <2>2. slotState' = [slotState EXCEPT ![selected] = "Valid"]
    BY <2>1 DEF ConfirmHealthy, MarkValid
  <2>3. s = selected
    BY <2>2 DEF TypeOK, FlashType
  <2>. QED
    BY <2>1, <2>3 DEF ConfirmHealthy
<1>. QED
  BY <1>1, SessionInvariant, PTL DEF Spec, ConfirmedOnlyWhenHealthy

\* Unless boot-metadata writes fail, the slot that is confirmed is the running
\* one: under any schedule, for any manifests, resets and power losses.
THEOREM ConfirmedIsRunning == ~FlashFaults => (Spec => ConfirmsRunningImage)
<1>. SUFFICES ASSUME ~FlashFaults PROVE Spec => ConfirmsRunningImage
  OBVIOUS
<1>1. Init => SelectedRuns
  BY DEF Init, SelectedRuns
<1>2. TypeOK /\ SelectedRuns /\ [Next]_vars => SelectedRuns'
  BY SlotSteps DEF SelectedRuns
<1>3. TypeOK /\ SelectedRuns /\ [Next]_vars =>
        [\A s \in Slots : slotState'[s] = "Valid" /\ slotState[s] # "Valid" =>
            s = running]_vars
  <2>. SUFFICES ASSUME TypeOK, SelectedRuns, [Next]_vars,
                       NEW s \in Slots, slotState'[s] = "Valid", slotState[s] # "Valid"
                PROVE  s = running
    OBVIOUS
  <2>1. ConfirmHealthy \/ ConfirmLocks
    BY SlotSteps DEF NothingConfirmed
  <2>2. slotState' = [slotState EXCEPT ![selected] = "Valid"]
    BY <2>1 DEF ConfirmHealthy, ConfirmLocks, MarkValid
  <2>. QED
    BY <2>2 DEF TypeOK, FlashType, SelectedRuns
<1>. QED
  BY <1>1, <1>2, <1>3, TypeCorrect, PTL DEF Spec, ConfirmsRunningImage
============================================================================
