-------------------------- MODULE OtaCoordination --------------------------
(***************************************************************************)
(* How the OTA task, the post-update confirmation task and the MQTT task   *)
(* share one device: the OTA-state and MQTT-health watches, the OTA        *)
(* command channel, the TLS workspace, the flash mutex, the two firmware   *)
(* slots with their boot metadata, and the broker's retained manifest.     *)
(*                                                                         *)
(* The firmware runs one cooperative executor, so an action is one stretch *)
(* of a task between two awaits.  Nothing here counts time: a timer is an  *)
(* action that may fire once no task is ready to run (Quiet), because the  *)
(* shortest timer is a second and a ready task is polled at once.          *)
(***************************************************************************)
EXTENDS Naturals, Sequences

CONSTANTS
  Slots,          \* the two OTA app partitions of partitions.csv
  Manifests,      \* the manifests the operator may publish
  NoManifest,     \* no manifest
  MqttUseTls,     \* secrets::MQTT_USE_TLS
  CommandDepth,   \* depth of MQTT_COMMAND_CHANNEL (16 in the code)
  Readings,       \* does the radio deliver readings?
  InboxDepth,     \* bound: deliveries in flight from the broker
  MaxPublishes,   \* bound: manifests the operator publishes
  MaxResets,      \* bound: power losses
  FlashFaults,    \* may boot-metadata reads and writes fail?
  Prompt          \* is a ready task polled before any timer fires?

(* A manifest, as far as the handlers tell manifests apart: does           *)
(* parse_and_verify accept it, do the URL policy and the key id, does it   *)
(* carry force, is its URL https.                                          *)
ManifestType ==
  [verified : BOOLEAN, policyOk : BOOLEAN, force : BOOLEAN, https : BOOLEAN]

ASSUME SlotsAssumption ==
  \E a, b \in Slots : a # b /\ Slots = {a, b}
ASSUME ManifestsAssumption ==
  Manifests \subseteq ManifestType /\ NoManifest \notin Manifests
ASSUME BoundsAssumption ==
  /\ MqttUseTls \in BOOLEAN /\ FlashFaults \in BOOLEAN /\ Prompt \in BOOLEAN
  /\ Readings \in BOOLEAN
  /\ CommandDepth \in Nat \ {0} /\ InboxDepth \in Nat \ {0}
  /\ MaxPublishes \in Nat /\ MaxResets \in Nat

\* A manifest on the wire, and the retain flag it is delivered with.
Delivery == [m : Manifests, retain : BOOLEAN]

OtaState == {"Inactive", "Downloading", "Applying", "PendingConfirmation"}
ImageState == {"New", "PendingVerify", "Valid", "Aborted", "Undefined"}

MQTT_MIN_BACKOFF_SECS == 1
MQTT_MAX_BACKOFF_SECS == 60
TLS_WORKSPACE_WAIT_SECS == 25

VARIABLES
  \* --- flash: survives a reset
  image,      \* [Slots -> {"Whole", "Broken"}]: is the slot a complete image
  slotState,  \* [Slots -> ImageState]: OTA state recorded for the slot
  selected,   \* the slot the boot metadata selects
  running,    \* the slot the bootloader started
  flashLocked,\* the flash mutex is held across an await
  \* --- broker and operator
  retained,   \* the broker's retained manifest, or NoManifest
  inbox,      \* deliveries on the wire: <<[m, retain], ...>>
  published,  \* manifests published so far (bound)
  resets,     \* power losses so far (bound)
  \* --- shared by the tasks
  otaState,   \* OTA_STATE_WATCH
  seen,       \* has mqtt_task's receiver seen the current otaState
  health,     \* MQTT health watch ("Unset" until mqtt_task first runs)
  otaQueue,   \* OTA_COMMAND_CHANNEL, depth 1
  mqttQueue,  \* MQTT_COMMAND_CHANNEL
  tls,        \* owner of the TLS workspace
  \* --- mqtt_task
  mqttPc, backoff,
  sessionOta, \* ota_state passed down into the await in progress
  deferred,   \* deferred_reading.is_some()
  \* --- ota_task and ota_confirm_task
  otaPc, manifest, confirmPc,
  windowElapsed  \* CONFIRMATION_WINDOW_SECS since the warm-up

vars == <<image, slotState, selected, running, flashLocked, retained, inbox,
          published, resets, otaState, seen, health, otaQueue, mqttQueue, tls,
          mqttPc, backoff, sessionOta, deferred, otaPc, manifest, confirmPc,
          windowElapsed>>

\* The variables an action of one task leaves alone, by their owner.
flashVars   == <<image, slotState, selected, running>>
boundVars   == <<published, resets>>
mqttVars    == <<mqttPc, backoff, sessionOta, deferred, inbox, mqttQueue>>
otaVars     == <<otaPc, manifest, flashLocked>>
confirmVars == <<confirmPc, windowElapsed>>

MqttPc == {"start", "gate", "tlsBusy", "connecting", "subscribing",
           "setupBackoff", "connected", "publishing", "confirming",
           "lostBackoff"}
OtaPc == {"recv", "standDown", "netWait", "tlsWait", "fetch"}
ConfirmPc == {"start", "warmup", "health", "mark", "notify", "done"}

\* mqtt_task is subscribed to the OTA command topic.
Subscribed == {"subscribing", "connected", "publishing", "confirming"}
\* mqtt_task is in run_connected_loop.
InSession == {"connected", "publishing", "confirming"}

OtherSlot(s) == CHOOSE t \in Slots : t # s
----------------------------------------------------------------------------
(* crates/ota-core and crates/app-core: the decisions the tasks share.     *)

\* Slip: MQTT is held back only while the manifest is being fetched.
MqttAllowedWhileApplying(s) == s # "Downloading"
\* Slip: MQTT waits for the confirmation that waits for MQTT.
MqttBarredWhilePending(s) == s = "Inactive"
is_mqtt_allowed(s) == s \in {"Inactive", "PendingConfirmation"}

\* Slip: the doubling is not capped.
UncappedBackoff(b) == 2 * b
next_mqtt_backoff_secs(b) ==
  IF 2 * b > MQTT_MAX_BACKOFF_SECS THEN MQTT_MAX_BACKOFF_SECS ELSE 2 * b

\* classify_ota_manifest_delivery, and the override by a forced manifest.
resolve_ota_manifest_action(s, d) ==
  IF ~d.retain THEN "ForwardOnly"
  ELSE IF s = "PendingConfirmation" /\ ~(d.m.verified /\ d.m.force)
       THEN "ClearRetainedOnly"
       ELSE "ForwardAndClearRetained"

Forwards(s, d) == resolve_ota_manifest_action(s, d) # "ClearRetainedOnly"

current_app_pending_confirmation ==
  slotState[selected] \in {"New", "PendingVerify"}
----------------------------------------------------------------------------
(* Which tasks can run without waiting for a timer or for the network.     *)

OtaReady ==
  \/ otaPc = "recv" /\ otaQueue # <<>>
  \/ otaPc = "standDown" /\ health = "Disconnected"

ConfirmReady ==
  \/ confirmPc = "start"
  \/ confirmPc = "health" /\ health = "HeartbeatPublished" /\ windowElapsed
  \/ confirmPc = "mark" /\ ~flashLocked
  \/ confirmPc = "notify" /\ Len(mqttQueue) < CommandDepth

MqttReady ==
  \/ mqttPc = "start"
  \/ mqttPc = "gate" /\ is_mqtt_allowed(otaState)
  \/ mqttPc = "connected" /\ (~seen \/ deferred \/ mqttQueue # <<>>)

\* A timer may fire.
Quiet == Prompt => ~OtaReady /\ ~ConfirmReady /\ ~MqttReady

\* No packet reaches the device before its tasks were polled once.
Booted == confirmPc # "start" /\ mqttPc # "start"

\* Watch::send: the value changes and every receiver has it unseen.
SendOtaState(s) == otaState' = s /\ seen' = FALSE
----------------------------------------------------------------------------
(* Reset: the bootloader picks a slot from the flash contents, and every   *)
(* task starts over.  External; esp-bootloader-esp-idf and the ESP-IDF     *)
(* bootloader with rollback, as ota_confirm.rs describes it.               *)

\* An image that was started before without being confirmed is given up.
AfterRollbackCheck(st, sel) ==
  IF st[sel] = "PendingVerify" THEN [st EXCEPT ![sel] = "Aborted"] ELSE st

BootSlot(img, st, sel) ==
  IF (st[sel] # "Aborted" /\ img[sel] = "Whole") \/ img[OtherSlot(sel)] = "Broken"
  THEN sel ELSE OtherSlot(sel)

TasksStart ==
  /\ flashLocked' = FALSE
  /\ otaState' = "Inactive" /\ seen' = FALSE /\ health' = "Unset"
  /\ otaQueue' = <<>> /\ mqttQueue' = <<>> /\ tls' = "none"
  /\ mqttPc' = "start" /\ backoff' = MQTT_MIN_BACKOFF_SECS
  /\ sessionOta' = "Inactive" /\ deferred' = FALSE /\ inbox' = <<>>
  /\ otaPc' = "recv" /\ manifest' = NoManifest
  /\ confirmPc' = "start" /\ windowElapsed' = FALSE

\* Reset with the given flash contents.
Boot(img, st, sel) ==
  LET checked == AfterRollbackCheck(st, sel)
      slot    == BootSlot(img, checked, sel)
  IN /\ image' = img
     /\ running' = slot /\ selected' = slot
     /\ slotState' = IF checked[slot] = "New"
                     THEN [checked EXCEPT ![slot] = "PendingVerify"]
                     ELSE checked
     /\ TasksStart
     /\ UNCHANGED <<retained, published>>

\* Power is lost between two steps of the tasks.
PowerLoss ==
  /\ resets < MaxResets /\ resets' = resets + 1
  /\ Boot(image, slotState, selected)
----------------------------------------------------------------------------
(* mqtt_task.                                                              *)

\* Slip: the guard is leaked.
TlsKeptBy(owner) == tls
TlsReleasedBy(owner) == IF tls = owner THEN "none" ELSE tls

\* The head of the session loop, up to the first await; t is the TLS
\* workspace's owner once the previous round's guard is dropped.
OpenSession(t) ==
  /\ seen' = TRUE /\ inbox' = <<>>
  /\ mqttPc' = IF ~is_mqtt_allowed(otaState) THEN "gate"
               ELSE IF MqttUseTls /\ t # "none" THEN "tlsBusy" ELSE "connecting"
  /\ tls' = IF mqttPc' = "connecting" /\ MqttUseTls THEN "mqtt" ELSE t
  /\ sessionOta' = IF mqttPc' = "connecting" THEN otaState ELSE sessionOta

MqttStart ==
  /\ mqttPc = "start"
  /\ health' = "Disconnected"
  /\ OpenSession(tls)
  /\ UNCHANGED <<flashVars, boundVars, otaVars, confirmVars, retained, otaState,
                 otaQueue, mqttQueue, backoff, deferred>>

MqttGateOpens ==
  /\ mqttPc = "gate" /\ is_mqtt_allowed(otaState)
  /\ OpenSession(tls)
  /\ UNCHANGED <<flashVars, boundVars, otaVars, confirmVars, retained, otaState,
                 health, otaQueue, mqttQueue, backoff, deferred>>

\* Timer::after(backoff) in any of its three places; a failed set-up holds
\* the TLS workspace until here.
MqttBackoffExpires ==
  /\ mqttPc \in {"tlsBusy", "setupBackoff", "lostBackoff"} /\ Quiet
  /\ backoff' = next_mqtt_backoff_secs(backoff)
  /\ OpenSession(TlsReleasedBy("mqtt"))
  /\ UNCHANGED <<flashVars, boundVars, otaVars, confirmVars, retained, otaState,
                 health, otaQueue, mqttQueue, deferred>>

\* TCP, TLS, CONNECT and the online status succeed and SUBSCRIBE is sent:
\* the broker answers with a SUBACK and its retained manifest, in any order.
MqttConnects ==
  /\ mqttPc = "connecting" /\ Booted
  /\ mqttPc' = "subscribing"
  /\ inbox' = IF retained = NoManifest THEN <<>>
              ELSE <<[m |-> retained, retain |-> TRUE]>>
  /\ UNCHANGED <<flashVars, boundVars, otaVars, confirmVars, retained, otaState,
                 seen, health, otaQueue, mqttQueue, tls, backoff, sessionOta,
                 deferred>>

SetupFailed == mqttPc' = "setupBackoff" /\ inbox' = <<>>

MqttSetupFails ==
  /\ mqttPc \in {"connecting", "subscribing"} /\ Booted
  /\ SetupFailed
  /\ UNCHANGED <<flashVars, boundVars, otaVars, confirmVars, retained, otaState,
                 seen, health, otaQueue, mqttQueue, tls, backoff, sessionOta,
                 deferred>>

\* ota_sender.send(manifest.bytes).await: waits while the channel is full.
ForwardManifest(m) == otaQueue = <<>> /\ otaQueue' = <<m>>

\* A manifest before the SUBACK is judged by the OTA state the session was
\* opened with; forwarding it makes the set-up fail.
MqttEarlyForward ==
  /\ mqttPc = "subscribing" /\ inbox # <<>>
  /\ Forwards(sessionOta, Head(inbox))
  /\ ForwardManifest(Head(inbox).m)
  /\ SetupFailed
  /\ UNCHANGED <<flashVars, boundVars, otaVars, confirmVars, retained, otaState,
                 seen, health, mqttQueue, tls, backoff, sessionOta, deferred>>

\* clear_ota_retained ignores a failed publish.
ClearRetained == retained' \in {NoManifest, retained} /\ inbox' = Tail(inbox)

MqttEarlyClear ==
  /\ mqttPc = "subscribing" /\ inbox # <<>>
  /\ ~Forwards(sessionOta, Head(inbox))
  /\ ClearRetained
  /\ UNCHANGED <<flashVars, boundVars, otaVars, confirmVars, otaState, seen,
                 health, otaQueue, mqttQueue, tls, mqttPc, backoff, sessionOta,
                 deferred>>

MqttSubscribed ==
  /\ mqttPc = "subscribing"
  /\ mqttPc' = "connected"
  /\ backoff' = MQTT_MIN_BACKOFF_SECS
  /\ health' = "HeartbeatPublished"
  /\ UNCHANGED <<flashVars, boundVars, otaVars, confirmVars, retained, inbox,
                 otaState, seen, otaQueue, mqttQueue, tls, sessionOta, deferred>>

\* Slip: the health watch is not told.
EndSessionUnannounced(keepReading) ==
  /\ mqttPc' = "lostBackoff" /\ inbox' = <<>>
  /\ tls' = TlsReleasedBy("mqtt")
  /\ deferred' = keepReading
  /\ UNCHANGED health

\* run_connected_loop returned: the client and the TLS guard are dropped.
EndSession(keepReading) ==
  /\ mqttPc' = "lostBackoff" /\ inbox' = <<>>
  /\ health' = "Disconnected"
  /\ tls' = TlsReleasedBy("mqtt")
  /\ deferred' = keepReading

\* A reading is at hand: a deferred one first, else the channel's next.
ReadingAtHand == deferred \/ (mqttQueue # <<>> /\ Head(mqttQueue) = "reading")

\* handle_reading up to the publish; try_get marks the OTA state as seen.
MqttTakeReading ==
  /\ mqttPc = "connected" /\ ReadingAtHand
  /\ mqttPc' = "publishing"
  /\ sessionOta' = otaState /\ seen' = TRUE
  /\ mqttQueue' = IF deferred THEN mqttQueue ELSE Tail(mqttQueue)
  /\ deferred' = FALSE
  /\ UNCHANGED <<flashVars, boundVars, otaVars, confirmVars, retained, inbox,
                 otaState, health, otaQueue, tls, backoff>>

\* should_reconnect_before_publish: the session was idle for too long.
MqttIdleReconnect ==
  /\ mqttPc = "connected" /\ ~deferred /\ ReadingAtHand
  /\ seen' = TRUE /\ mqttQueue' = Tail(mqttQueue)
  /\ EndSession(TRUE)
  /\ UNCHANGED <<flashVars, boundVars, otaVars, confirmVars, retained, otaState,
                 otaQueue, backoff, sessionOta>>

\* Published, or dropped because it could not be formatted; awake either way.
MqttPublished ==
  /\ mqttPc = "publishing"
  /\ mqttPc' = "connected"
  /\ UNCHANGED <<flashVars, boundVars, otaVars, confirmVars, retained, inbox,
                 otaState, seen, health, otaQueue, mqttQueue, tls, backoff,
                 sessionOta, deferred>>

\* Slip: the OTA state is not looked at.
SleepInAnyOtaState ==
  /\ mqttPc = "publishing" /\ mqttQueue = <<>>
  /\ Boot(image, slotState, selected)
  /\ UNCHANGED resets

\* Published, and maybe_sleep_after_publish enters deep sleep: the device
\* comes back through a reset.
MqttDeepSleep ==
  /\ mqttPc = "publishing"
  /\ sessionOta = "Inactive" /\ mqttQueue = <<>>
  /\ Boot(image, slotState, selected)
  /\ UNCHANGED resets

MqttPublishFails ==
  /\ mqttPc = "publishing"
  /\ EndSession(TRUE)
  /\ UNCHANGED <<flashVars, boundVars, otaVars, confirmVars, retained, otaState,
                 seen, otaQueue, mqttQueue, backoff, sessionOta>>

MqttTakeConfirmed ==
  /\ mqttPc = "connected" /\ ~deferred
  /\ mqttQueue # <<>> /\ Head(mqttQueue) = "confirmed"
  /\ mqttPc' = "confirming" /\ mqttQueue' = Tail(mqttQueue)
  /\ UNCHANGED <<flashVars, boundVars, otaVars, confirmVars, retained, inbox,
                 otaState, seen, health, otaQueue, tls, backoff, sessionOta,
                 deferred>>

MqttConfirmedSent ==
  /\ mqttPc = "confirming"
  /\ mqttPc' = "connected"
  /\ UNCHANGED <<flashVars, boundVars, otaVars, confirmVars, retained, inbox,
                 otaState, seen, health, otaQueue, mqttQueue, tls, backoff,
                 sessionOta, deferred>>

\* A poll, a ping or the confirmation publish fails; a confirmation in hand
\* is dropped with it.
MqttSessionFails ==
  /\ mqttPc = "confirming" \/ (mqttPc = "connected" /\ ~deferred)
  /\ EndSession(FALSE)
  /\ UNCHANGED <<flashVars, boundVars, otaVars, confirmVars, retained, otaState,
                 seen, otaQueue, mqttQueue, backoff, sessionOta>>

\* handle_mqtt_event on a manifest: both Forward actions hand it off and end
\* the session; neither touches the broker's retained copy.
MqttForward ==
  /\ mqttPc = "connected" /\ ~deferred /\ mqttQueue = <<>> /\ inbox # <<>>
  /\ Forwards(otaState, Head(inbox))
  /\ ForwardManifest(Head(inbox).m)
  /\ seen' = TRUE
  /\ EndSession(FALSE)
  /\ UNCHANGED <<flashVars, boundVars, otaVars, confirmVars, retained, otaState,
                 mqttQueue, backoff, sessionOta>>

MqttClear ==
  /\ mqttPc = "connected" /\ ~deferred /\ mqttQueue = <<>> /\ inbox # <<>>
  /\ ~Forwards(otaState, Head(inbox))
  /\ seen' = TRUE
  /\ ClearRetained
  /\ UNCHANGED <<flashVars, boundVars, otaVars, confirmVars, otaState, health,
                 otaQueue, mqttQueue, tls, mqttPc, backoff, sessionOta, deferred>>

\* select4's last branch, taken when no command is ready.
MqttOtaStateChanged ==
  /\ mqttPc = "connected" /\ ~deferred /\ mqttQueue = <<>> /\ ~seen
  /\ seen' = TRUE
  /\ IF is_mqtt_allowed(otaState)
     THEN UNCHANGED <<mqttPc, inbox, health, tls, deferred>>
     ELSE EndSession(FALSE)
  /\ UNCHANGED <<flashVars, boundVars, otaVars, confirmVars, retained, otaState,
                 otaQueue, mqttQueue, backoff, sessionOta>>
----------------------------------------------------------------------------
(* ota_task.                                                               *)

OtaUntouched == <<boundVars, confirmVars, retained, health, mqttVars>>

\* A manifest the verifier, the URL policy or the key id rejects is dropped.
OtaReject ==
  /\ otaPc = "recv" /\ otaQueue # <<>>
  /\ ~(Head(otaQueue).verified /\ Head(otaQueue).policyOk)
  /\ otaQueue' = Tail(otaQueue)
  /\ UNCHANGED <<flashVars, otaVars, OtaUntouched, otaState, seen, tls>>

OtaReceive ==
  /\ otaPc = "recv" /\ otaQueue # <<>>
  /\ Head(otaQueue).verified /\ Head(otaQueue).policyOk
  /\ manifest' = Head(otaQueue) /\ otaQueue' = Tail(otaQueue)
  /\ SendOtaState("Downloading")
  /\ otaPc' = "standDown"
  /\ UNCHANGED <<flashVars, flashLocked, OtaUntouched, tls>>

\* Slip: the flash mutex is taken under the state the wait began with.
StoodDownStillDownloading ==
  /\ otaPc = "standDown" /\ health = "Disconnected"
  /\ otaPc' = "netWait" /\ flashLocked' = TRUE
  /\ UNCHANGED <<flashVars, manifest, OtaUntouched, otaQueue, tls, otaState, seen>>

\* wait_for_mqtt_stand_down succeeds; the flash mutex is then free, since
\* nobody else keeps it across an await.
OtaStoodDown ==
  /\ otaPc = "standDown" /\ health = "Disconnected"
  /\ SendOtaState("Applying")
  /\ otaPc' = "netWait" /\ flashLocked' = TRUE
  /\ UNCHANGED <<flashVars, manifest, OtaUntouched, otaQueue, tls>>

\* 30 s without a Disconnected.
OtaStandDownTimeout ==
  /\ otaPc = "standDown" /\ health # "Disconnected" /\ Quiet
  /\ SendOtaState("Inactive")
  /\ otaPc' = "recv"
  /\ UNCHANGED <<flashVars, manifest, flashLocked, OtaUntouched, otaQueue, tls>>

\* Slip: the error path leaves the OTA state at Applying.
AbandonedSilently ==
  /\ UNCHANGED <<otaState, seen>>
  /\ otaPc' = "recv" /\ flashLocked' = FALSE
  /\ tls' = TlsReleasedBy("ota")
  /\ UNCHANGED <<running, manifest, OtaUntouched, otaQueue>>

\* download_and_write_to_flash returned an error: guards dropped, Inactive.
OtaAbandoned ==
  /\ SendOtaState("Inactive")
  /\ otaPc' = "recv" /\ flashLocked' = FALSE
  /\ tls' = TlsReleasedBy("ota")
  /\ UNCHANGED <<running, manifest, OtaUntouched, otaQueue>>

\* Slip: the slot next to the selected one, which may be the running one.
NextToSelected == OtherSlot(selected)

\* inactive_partition: the safe target of the write.
InactiveSlot == OtherSlot(running)

\* The network is up: erase the inactive slot, then take the workspace for
\* an https URL.
OtaPrepare ==
  /\ otaPc = "netWait"
  /\ image' = [image EXCEPT ![InactiveSlot] = "Broken"]
  /\ otaPc' = IF manifest.https THEN "tlsWait" ELSE "fetch"
  /\ UNCHANGED <<slotState, selected, running, manifest, flashLocked,
                 OtaUntouched, otaState, seen, otaQueue, tls>>

\* Too large for the slot, or the metadata or the erase fails.
OtaPrepareFails ==
  /\ otaPc = "netWait"
  /\ image' \in {image, [image EXCEPT ![InactiveSlot] = "Broken"]}
  /\ OtaAbandoned
  /\ UNCHANGED <<slotState, selected>>

\* acquire_ota_tls_workspace polls every 100 ms for 25 s.
OtaAcquireTls ==
  /\ otaPc = "tlsWait" /\ tls = "none"
  /\ tls' = "ota" /\ otaPc' = "fetch"
  /\ UNCHANGED <<flashVars, manifest, flashLocked, OtaUntouched, otaState, seen,
                 otaQueue>>

\* It gives up only on a holder that sleeps for longer than it waits.
OtaTlsTimeout ==
  /\ otaPc = "tlsWait" /\ tls = "mqtt"
  /\ mqttPc = "setupBackoff" => backoff > TLS_WORKSPACE_WAIT_SECS
  /\ OtaAbandoned
  /\ UNCHANGED <<image, slotState, selected>>

\* A plain-http host redirects to https: the next hop needs the workspace.
OtaRedirect ==
  /\ otaPc = "fetch" /\ tls # "ota"
  /\ otaPc' = "tlsWait"
  /\ UNCHANGED <<flashVars, manifest, flashLocked, OtaUntouched, otaState, seen,
                 otaQueue, tls>>

\* Slip: the next slot is activated before it is written and verified.
FetchFailsActivated ==
  /\ otaPc = "fetch"
  /\ selected' = InactiveSlot
  /\ OtaAbandoned
  /\ UNCHANGED <<image, slotState>>
\* Any transfer, HMAC, digest or read-back error.
OtaFetchFails ==
  /\ otaPc = "fetch"
  /\ OtaAbandoned
  /\ UNCHANGED <<image, slotState, selected>>

\* activate_next_partition selects the written slot; the entry it writes has
\* the state it had before or none.
Activated(img, st) ==
  /\ img = [image EXCEPT ![InactiveSlot] = "Whole"]
  /\ \/ st = slotState
     \/ st = [slotState EXCEPT ![InactiveSlot] = "Undefined"]

\* Verified, activated, marked new: software_reset.
OtaInstalled ==
  /\ otaPc = "fetch"
  /\ Boot([image EXCEPT ![InactiveSlot] = "Whole"],
          [slotState EXCEPT ![InactiveSlot] = "New"], InactiveSlot)
  /\ UNCHANGED resets

\* activate_next_partition fails.
OtaActivateFails ==
  /\ otaPc = "fetch" /\ FlashFaults
  /\ image' = [image EXCEPT ![InactiveSlot] = "Whole"]
  /\ OtaAbandoned
  /\ UNCHANGED <<slotState, selected>>

\* mark_current_app_new fails after the slot was activated: no reset.
OtaMarkNewFails ==
  /\ otaPc = "fetch" /\ FlashFaults
  /\ Activated(image', slotState')
  /\ selected' = InactiveSlot
  /\ OtaAbandoned

\* Power is lost between activate_next_partition and mark_current_app_new.
OtaPowerLossActivated ==
  /\ otaPc = "fetch" /\ resets < MaxResets /\ resets' = resets + 1
  /\ \E st \in {slotState, [slotState EXCEPT ![InactiveSlot] = "Undefined"]} :
        Boot([image EXCEPT ![InactiveSlot] = "Whole"], st, InactiveSlot)
----------------------------------------------------------------------------
(* ota_confirm_task.                                                       *)

ConfirmUntouched ==
  <<image, selected, running, otaVars, boundVars, retained, health, otaQueue,
    tls, mqttPc, backoff, sessionOta, deferred, inbox>>

\* PendingConfirmation is sent, and overwritten before anyone runs when the
\* boot metadata says confirmed or cannot be read.
ConfirmStart ==
  /\ confirmPc = "start"
  /\ \/ /\ current_app_pending_confirmation
        /\ SendOtaState("PendingConfirmation")
        /\ confirmPc' = "warmup"
     \/ /\ FlashFaults \/ ~current_app_pending_confirmation
        /\ SendOtaState("Inactive")
        /\ confirmPc' = "done"
  /\ UNCHANGED <<ConfirmUntouched, slotState, mqttQueue, windowElapsed>>

ConfirmWarmedUp ==
  /\ confirmPc = "warmup" /\ Quiet
  /\ confirmPc' = "health"
  /\ UNCHANGED <<ConfirmUntouched, slotState, otaState, seen, mqttQueue,
                 windowElapsed>>

\* CONFIRMATION_WINDOW_SECS have passed since the warm-up.
WindowElapses ==
  /\ confirmPc = "health" /\ ~windowElapsed /\ Quiet
  /\ windowElapsed' = TRUE
  /\ UNCHANGED <<ConfirmUntouched, slotState, otaState, seen, mqttQueue,
                 confirmPc>>

\* mark_current_app_valid writes the state of the selected slot.
MarkValid ==
  \/ /\ slotState' = [slotState EXCEPT ![selected] = "Valid"]
     /\ SendOtaState("Inactive")
     /\ confirmPc' = "notify"
  \/ /\ FlashFaults
     /\ confirmPc' = "done"
     /\ UNCHANGED <<slotState, otaState, seen>>

\* Slip: the heartbeat alone is enough.
ConfirmOnFirstHeartbeat ==
  /\ confirmPc = "health" /\ health = "HeartbeatPublished"
  /\ IF flashLocked
     THEN confirmPc' = "mark" /\ UNCHANGED <<slotState, otaState, seen>>
     ELSE MarkValid
  /\ UNCHANGED <<ConfirmUntouched, mqttQueue, windowElapsed>>

\* The health gate passes; with the flash mutex taken it waits for it.
ConfirmHealthy ==
  /\ confirmPc = "health" /\ windowElapsed /\ health = "HeartbeatPublished"
  /\ IF flashLocked
     THEN confirmPc' = "mark" /\ UNCHANGED <<slotState, otaState, seen>>
     ELSE MarkValid
  /\ UNCHANGED <<ConfirmUntouched, mqttQueue, windowElapsed>>

ConfirmLocks ==
  /\ confirmPc = "mark" /\ ~flashLocked
  /\ MarkValid
  /\ UNCHANGED <<ConfirmUntouched, mqttQueue, windowElapsed>>

ConfirmNotify ==
  /\ confirmPc = "notify" /\ Len(mqttQueue) < CommandDepth
  /\ mqttQueue' = Append(mqttQueue, "confirmed")
  /\ confirmPc' = "done"
  /\ UNCHANGED <<ConfirmUntouched, slotState, otaState, seen, windowElapsed>>
----------------------------------------------------------------------------
(* The environment.                                                        *)

\* The operator publishes a manifest, retained or not; a connected
\* subscriber gets it as a live message.
OperatorPublishes(m, keep) ==
  /\ published < MaxPublishes /\ published' = published + 1
  /\ retained' = IF keep THEN m ELSE retained
  /\ mqttPc \in Subscribed => Len(inbox) < InboxDepth
  /\ inbox' = IF mqttPc \in Subscribed
              THEN Append(inbox, [m |-> m, retain |-> FALSE]) ELSE inbox
  /\ UNCHANGED <<flashVars, otaVars, confirmVars, resets, otaState, seen, health,
                 otaQueue, mqttQueue, tls, mqttPc, backoff, sessionOta, deferred>>

\* The radio event router passes a reading on.
ReadingArrives ==
  /\ Readings /\ Booted /\ Len(mqttQueue) < CommandDepth
  /\ mqttQueue' = Append(mqttQueue, "reading")
  /\ UNCHANGED <<flashVars, boundVars, otaVars, confirmVars, retained, inbox,
                 otaState, seen, health, otaQueue, tls, mqttPc, backoff,
                 sessionOta, deferred>>
----------------------------------------------------------------------------
\* Flashed over the wire, or restarted into an image installed by OTA.
Init ==
  /\ selected \in Slots /\ running = selected
  /\ \/ /\ image = [s \in Slots |-> IF s = selected THEN "Whole" ELSE "Broken"]
        /\ slotState = [s \in Slots |-> "Undefined"]
     \/ /\ image = [s \in Slots |-> "Whole"]
        /\ slotState = [s \in Slots |->
                          IF s = selected THEN "PendingVerify" ELSE "Valid"]
  /\ flashLocked = FALSE
  /\ retained = NoManifest /\ inbox = <<>> /\ published = 0 /\ resets = 0
  /\ otaState = "Inactive" /\ seen = FALSE /\ health = "Unset"
  /\ otaQueue = <<>> /\ mqttQueue = <<>> /\ tls = "none"
  /\ mqttPc = "start" /\ backoff = MQTT_MIN_BACKOFF_SECS
  /\ sessionOta = "Inactive" /\ deferred = FALSE
  /\ otaPc = "recv" /\ manifest = NoManifest
  /\ confirmPc = "start" /\ windowElapsed = FALSE

MqttNext ==
  \/ MqttStart \/ MqttGateOpens \/ MqttBackoffExpires
  \/ MqttConnects \/ MqttSetupFails \/ MqttEarlyForward \/ MqttEarlyClear
  \/ MqttSubscribed
  \/ MqttTakeReading \/ MqttIdleReconnect \/ MqttPublished \/ MqttDeepSleep
  \/ MqttPublishFails \/ MqttTakeConfirmed \/ MqttConfirmedSent
  \/ MqttSessionFails \/ MqttForward \/ MqttClear \/ MqttOtaStateChanged

OtaNext ==
  \/ OtaReject \/ OtaReceive \/ OtaStoodDown \/ OtaStandDownTimeout
  \/ OtaPrepare \/ OtaPrepareFails \/ OtaAcquireTls \/ OtaTlsTimeout
  \/ OtaRedirect \/ OtaFetchFails \/ OtaInstalled \/ OtaActivateFails
  \/ OtaMarkNewFails \/ OtaPowerLossActivated

ConfirmNext ==
  \/ ConfirmStart \/ ConfirmWarmedUp \/ WindowElapses \/ ConfirmHealthy
  \/ ConfirmLocks \/ ConfirmNotify

Next ==
  \/ MqttNext \/ OtaNext \/ ConfirmNext
  \/ \E m \in Manifests, keep \in BOOLEAN : OperatorPublishes(m, keep)
  \/ ReadingArrives \/ PowerLoss

Spec == Init /\ [][Next]_vars
----------------------------------------------------------------------------
(* Fairness.  The executor polls a ready task: weak fairness of each       *)
(* task's own steps.  Strong fairness where readings or a flapping session *)
(* keep switching a step off: timers fire, a manifest on the wire is read, *)
(* the confirmation task gets to see a heartbeat that keeps coming back.   *)
(* Of the network: a set-up tried for ever succeeds, a fetch ends.         *)
Fairness ==
  /\ WF_vars(MqttStart) /\ WF_vars(MqttGateOpens)
  /\ WF_vars(MqttTakeReading \/ MqttIdleReconnect \/ MqttTakeConfirmed)
  /\ WF_vars(MqttPublished \/ MqttDeepSleep \/ MqttPublishFails)
  /\ WF_vars(MqttConfirmedSent \/ MqttSessionFails)
  /\ SF_vars(MqttOtaStateChanged)
  /\ SF_vars(MqttEarlyForward \/ MqttEarlyClear \/ MqttForward \/ MqttClear)
  /\ SF_vars(MqttBackoffExpires)
  /\ SF_vars(MqttConnects) /\ SF_vars(MqttSubscribed)
  /\ WF_vars(OtaNext)
  /\ WF_vars(ConfirmNext) /\ SF_vars(ConfirmHealthy)
  /\ SF_vars(ConfirmWarmedUp) /\ SF_vars(WindowElapses)

LiveSpec == Spec /\ Fairness
----------------------------------------------------------------------------
(* Properties.                                                             *)

FlashType ==
  /\ image \in [Slots -> {"Whole", "Broken"}]
  /\ slotState \in [Slots -> ImageState]
  /\ selected \in Slots /\ running \in Slots
FlagType ==
  /\ flashLocked \in BOOLEAN /\ seen \in BOOLEAN
  /\ deferred \in BOOLEAN /\ windowElapsed \in BOOLEAN
BrokerType ==
  /\ retained \in Manifests \cup {NoManifest}
  /\ inbox \in Seq(Delivery) /\ Len(inbox) <= InboxDepth
  /\ published \in 0..MaxPublishes /\ resets \in 0..MaxResets
QueueType ==
  /\ otaQueue \in Seq(Manifests) /\ Len(otaQueue) <= 1
  /\ mqttQueue \in Seq({"reading", "confirmed"}) /\ Len(mqttQueue) <= CommandDepth
SharedType ==
  /\ otaState \in OtaState
  /\ health \in {"Unset", "Disconnected", "HeartbeatPublished"}
  /\ tls \in {"none", "mqtt", "ota"}
TaskType ==
  /\ mqttPc \in MqttPc /\ backoff \in 1..MQTT_MAX_BACKOFF_SECS
  /\ sessionOta \in OtaState
  /\ otaPc \in OtaPc /\ manifest \in Manifests \cup {NoManifest}
  /\ confirmPc \in ConfirmPc

\* Every variable keeps its type: the channels stay within their depths and
\* the back-off within MQTT_MIN_BACKOFF_SECS..MQTT_MAX_BACKOFF_SECS.
TypeOK ==
  FlashType /\ FlagType /\ BrokerType /\ QueueType /\ SharedType /\ TaskType

\* Whatever resets, failed writes and rollbacks happen, the slot the device
\* runs from (and would restart from) holds a complete image.
DeviceBootable == image[running] = "Whole"

\* From the moment ota_task accepts a manifest until it gives up, MQTT has no
\* session and sets none up: wait_for_mqtt_stand_down finds it gone at once,
\* never times out, and nothing reconnects under a running download.
OtaHasNetworkAlone ==
  otaPc # "recv" => mqttPc \in {"gate", "setupBackoff", "lostBackoff"}

\* The published OTA state says Applying for as long as the flash mutex is
\* held for a download, although two tasks send states: radio capture, UI
\* input and MQTT are gated on it.
ApplyingWhileFlashHeld == flashLocked => otaState = "Applying"

\* mqtt_task never finds the TLS workspace taken when it opens a session.
WorkspaceNeverBusy == mqttPc # "tlsBusy"

\* A slot is marked valid only while MQTT is connected and after the
\* confirmation window of this boot, and it is the slot the boot metadata
\* selects, whatever metadata accesses failed and whatever was downloaded since.
ConfirmedOnlyWhenHealthy ==
  [][\A s \in Slots : slotState'[s] = "Valid" /\ slotState[s] # "Valid" =>
        /\ s = selected
        /\ windowElapsed /\ health = "HeartbeatPublished"]_vars

\* mark_current_app_valid confirms the image that was found healthy: the slot
\* it marks, the selected one, is the one that runs, although a download may
\* select another between the pending state and the confirmation.  This needs
\* ~FlashFaults: after a failed mark_current_app_new (flash_write.rs) the old
\* image goes on with the new slot selected, and confirms the new one.
ConfirmsRunningImage ==
  [][\A s \in Slots : slotState'[s] = "Valid" /\ slotState[s] # "Valid" =>
        s = running]_vars

\* Deep sleep is a reset: although handle_reading decides on the OTA state
\* it read before the publish, no manifest is being acted on when it sleeps.
NoSleepDuringOta ==
  [][MqttDeepSleep =>
        otaPc = "recv" /\ otaQueue = <<>> /\ otaState = "Inactive"]_vars

\* policy.rs: deep sleep is skipped while an OTA confirmation is pending (the
\* reset would make the bootloader give the image up).
NoSleepWhilePending ==
  [][MqttDeepSleep => slotState[running] # "PendingVerify"]_vars

\* MQTT gets back on its feet after it stood down for an OTA attempt: a
\* failed attempt, or the reset after a successful one, lets it reconnect.
MqttComesBack == mqttPc = "gate" ~> health = "HeartbeatPublished"

\* An unconfirmed image is confirmed, unless somebody publishes a manifest.
PendingIsConfirmed ==
  slotState[running] = "PendingVerify"
    ~> (slotState[running] = "Valid" \/ published > 0)

\* ota_confirm.rs: without confirmation the bootloader rolls back to the
\* previous image, so that image is there as long as this one is unconfirmed.
RollbackTargetKept ==
  slotState[running] = "PendingVerify" => image[OtherSlot(running)] = "Whole"

\* spawn.rs: the pending state is observed before any retained manifest can
\* be forwarded again.
NoReplayWhilePending ==
  [][\A m \in Manifests :
       (otaQueue = <<>> /\ otaQueue' = <<m>> /\ Head(inbox).retain) =>
         m.force \/ otaState # "PendingConfirmation"]_vars

\* OtaManifestDeliveryAction: a retained command is forwarded once and then
\* cleared at the broker.
RetainedEventuallyCleared ==
  (otaPc = "standDown" /\ retained = manifest) ~> retained = NoManifest

\* tls_workspace.rs: MQTT stands down before OTA starts its download, so one
\* workspace serves both: no attempt is given up for want of it.
OtaGetsWorkspace ==
  [][otaPc = "tlsWait" => otaPc' \in {"tlsWait", "fetch"}]_vars
----------------------------------------------------------------------------
(* The inductive invariants behind the safety properties.                  *)

\* Under any schedule and any flash fault: who holds the flash mutex and the
\* TLS workspace follows from where the tasks are, and no manifest is on its
\* way before ota_confirm_task has published its first state.
GuardsHeldWhere ==
  /\ flashLocked <=> otaPc \in {"netWait", "tlsWait", "fetch"}
  /\ tls = "ota" => otaPc = "fetch"
  /\ tls = "mqtt" => mqttPc \in {"connecting", "subscribing", "setupBackoff",
                                "connected", "publishing", "confirming"}
  /\ confirmPc = "start" => /\ otaPc = "recv" /\ otaQueue = <<>>
                            /\ mqttPc \in {"start", "gate", "connecting"}

\* When ready tasks run before timers: MQTT's health tells whether it has a
\* session, a manifest waits only for an idle ota_task and a silent MQTT, and
\* whoever sleeps decided on an OTA state that still holds.
SessionsExcludeOta ==
  /\ health = "HeartbeatPublished" <=> mqttPc \in InSession
  /\ otaQueue # <<>> =>
        otaPc = "recv" /\ mqttPc \in {"setupBackoff", "lostBackoff"}
  /\ otaPc # "recv" => otaState \in {"Downloading", "Applying"}
  /\ confirmPc # "mark"
  /\ mqttPc = "publishing" /\ sessionOta = "Inactive" => otaState = "Inactive"
============================================================================
