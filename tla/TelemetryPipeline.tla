-------------------------- MODULE TelemetryPipeline --------------------------
(***************************************************************************)
(* A reading's way from the radio to the broker: the RMT capture task with *)
(* its de-duplicating adapter, the radio telemetry channel, the event      *)
(* router, the MQTT command channel, mqtt_task's publish and retry, and    *)
(* deep sleep.  All of them react to the OTA state.  mqtt_task's sessions  *)
(* are reduced to up and down; OtaCoordination has them in full.           *)
(*                                                                         *)
(* Time is counted in ticks.  The runs take a tick of about 20 s, so that  *)
(* the age limit for sleeping and the TTL of the cache are one tick and    *)
(* the pause after a reading is two.                                       *)
(***************************************************************************)
EXTENDS Integers, FiniteSets, SequencesExt

CONSTANTS
  Keys,                            \* sensor, channel, temperature and battery
  DEDUPE_CAPACITY,                 \* 32 in the code
  RADIO_TELEMETRY_CHANNEL_DEPTH,   \* 16
  MQTT_COMMAND_CHANNEL_DEPTH,      \* 16
  DEDUPE_TTL,                      \* 30 s
  CAPTURE_PAUSE,                   \* 45 s
  MAX_MEASUREMENT_AGE,             \* 20 s
  MaxNow,                          \* bound on time
  MaxOtaChanges                    \* no attempt starts after so many OTA changes

ASSUME PipelineAssumption ==
  /\ DEDUPE_CAPACITY \in Nat \ {0}
  /\ RADIO_TELEMETRY_CHANNEL_DEPTH \in Nat \ {0}
  /\ MQTT_COMMAND_CHANNEL_DEPTH \in Nat \ {0}
  /\ DEDUPE_TTL \in Nat \ {0} /\ CAPTURE_PAUSE \in Nat
  /\ MAX_MEASUREMENT_AGE \in Nat /\ MaxNow \in Nat /\ MaxOtaChanges \in Nat

VARIABLES
  now, otaState, otaVersion,           \* OTA_STATE_WATCH
  capturePc, captureSeen, decoded, pauseUntil,
  cache,                               \* DedupeCache.entries
  radioChannel, mqttChannel,           \* RADIO_TELEMETRY_, MQTT_COMMAND_CHANNEL
  routerPc, held,                      \* the command the router is sending
  mqttPc, deferred, current, otaRead,  \* deferred_reading, reading, ota_state
  asleep,
  observed, queued, published,         \* histories: found new, queued, published
  late                                 \* admitted, routed during this OTA attempt

clockVars   == <<now, otaState, otaVersion>>
captureVars == <<capturePc, captureSeen, decoded, pauseUntil>>
channelVars == <<radioChannel, mqttChannel>>
routerVars  == <<routerPc, held>>
mqttVars    == <<mqttPc, deferred, current, otaRead>>
histories   == <<observed, queued, published>>
vars == <<clockVars, captureVars, cache, channelVars, routerVars, mqttVars, asleep,
          histories, late>>

Reading == [key : Keys, received_at : 0..MaxNow]
OtaState == {"Inactive", "Downloading", "Applying", "PendingConfirmation"}

is_radio_capture_allowed(s) == s = "Inactive"
is_mqtt_allowed(s) == s \in {"Inactive", "PendingConfirmation"}
----------------------------------------------------------------------------
(* DedupeCache: retain, remove and push keep the entries in the order they *)
(* were pushed, so each carries its number in that order.                  *)

prune_expired(c, t) == {e \in c : t < e.expires_at}

\* Slip: the entry pushed last goes.
EvictLast(c) == {e \in c : \E f \in c : e.pushed < f.pushed}
\* min_by_key: the first of the entries that expire first.
evict_oldest(c) ==
  c \ {CHOOSE e \in c :
         \A f \in c : \/ e.expires_at < f.expires_at
                      \/ e.expires_at = f.expires_at /\ e.pushed <= f.pushed}

IsDuplicate(k) == \E e \in prune_expired(cache, now) : e.key = k

Remember(k) ==
  LET kept == prune_expired(cache, now)
      room == IF Cardinality(kept) < DEDUPE_CAPACITY THEN kept ELSE evict_oldest(kept)
  IN  room \cup {[key |-> k, expires_at |-> now + DEDUPE_TTL,
                  pushed |-> Len(observed) + 1]}
----------------------------------------------------------------------------
(* PulseCapture::run, RMT back end.                                        *)

Alive == ~asleep

\* Slip: the loop waits for the state once and listens whatever it is.
CaptureListensAnyway ==
  /\ Alive /\ capturePc = "gate"
  /\ capturePc' = "listen" /\ captureSeen' = otaVersion
  /\ UNCHANGED <<clockVars, decoded, pauseUntil, cache, channelVars,
                 routerVars, mqttVars, asleep, histories, late>>
CaptureListens ==
  /\ Alive /\ capturePc = "gate" /\ is_radio_capture_allowed(otaState)
  /\ capturePc' = "listen" /\ captureSeen' = otaVersion
  /\ UNCHANGED <<clockVars, decoded, pauseUntil, cache, channelVars,
                 routerVars, mqttVars, asleep, histories, late>>

\* changed() ends the wait for a signal, and the pause after a reading.
CaptureInterrupted ==
  /\ Alive /\ capturePc \in {"listen", "pause"} /\ captureSeen < otaVersion
  /\ capturePc' = "gate" /\ captureSeen' = otaVersion
  /\ UNCHANGED <<clockVars, decoded, pauseUntil, cache, channelVars,
                 routerVars, mqttVars, asleep, histories, late>>

\* A burst decodes; select polls the receiver before changed().  Then the task
\* waits for the radio's mutex, to read the signal strength.
CaptureDecodes(k) ==
  /\ Alive /\ capturePc = "listen"
  /\ capturePc' = "decoded" /\ decoded' = k
  /\ UNCHANGED <<clockVars, captureSeen, pauseUntil, cache, channelVars,
                 routerVars, mqttVars, asleep, histories, late>>

\* Too short, an RMT error, or no valid row in it.
CaptureDecodeFails ==
  /\ Alive /\ capturePc = "listen"
  /\ capturePc' = "gate"
  /\ UNCHANGED <<clockVars, captureSeen, decoded, pauseUntil, cache,
                 channelVars, routerVars, mqttVars, asleep, histories, late>>

\* enqueue_with: the cache remembers the reading, then try_send may refuse it.
CaptureEnqueues ==
  LET r == [key |-> decoded, received_at |-> now]
      room == Len(radioChannel) < RADIO_TELEMETRY_CHANNEL_DEPTH
  IN
  /\ Alive /\ capturePc = "decoded"
  /\ capturePc' = "pause" /\ pauseUntil' = now + CAPTURE_PAUSE
  /\ IF IsDuplicate(decoded)
     THEN /\ cache' = prune_expired(cache, now)
          /\ UNCHANGED <<radioChannel, observed, queued, late>>
     ELSE /\ cache' = Remember(decoded)
          /\ observed' = Append(observed, r)
          /\ radioChannel' = IF room THEN Append(radioChannel, r) ELSE radioChannel
          /\ queued' = IF room THEN Append(queued, r) ELSE queued
          /\ late' = IF otaState = "Inactive" THEN late
                     ELSE [late EXCEPT !.admitted = @ + 1]
  /\ UNCHANGED <<clockVars, captureSeen, decoded, mqttChannel, routerVars,
                 mqttVars, asleep, published>>

CapturePauseEnds ==
  /\ Alive /\ capturePc = "pause" /\ now >= pauseUntil
  /\ capturePc' = "gate"
  /\ UNCHANGED <<clockVars, captureSeen, decoded, pauseUntil, cache,
                 channelVars, routerVars, mqttVars, asleep, histories, late>>
----------------------------------------------------------------------------
(* radio_433_event_router_task.                                            *)

\* Nothing to receive: the state is not looked at again before receive ends.
RouterWaits ==
  /\ Alive /\ routerPc = "gate" /\ is_radio_capture_allowed(otaState)
  /\ radioChannel = <<>>
  /\ routerPc' = "receive"
  /\ UNCHANGED <<clockVars, captureVars, cache, channelVars, held, mqttVars,
                 asleep, histories, late>>

\* route_event_to_mqtt_command, and send, which waits when the channel is full.
RouterForwards ==
  LET r == Head(radioChannel)
      room == Len(mqttChannel) < MQTT_COMMAND_CHANNEL_DEPTH
  IN
  /\ Alive /\ radioChannel # <<>>
  /\ \/ routerPc = "receive"
     \/ routerPc = "gate" /\ is_radio_capture_allowed(otaState)
  /\ radioChannel' = Tail(radioChannel)
  /\ routerPc' = IF room THEN "gate" ELSE "send"
  /\ mqttChannel' = IF room THEN Append(mqttChannel, r) ELSE mqttChannel
  /\ held' = IF room THEN <<>> ELSE <<r>>
  /\ late' = IF otaState = "Inactive" THEN late ELSE [late EXCEPT !.routed = @ + 1]
  /\ UNCHANGED <<clockVars, captureVars, cache, mqttVars, asleep, histories>>

\* Slip: send does not wait for room.
SendsWithoutRoom ==
  /\ Alive /\ routerPc = "send"
  /\ mqttChannel' = mqttChannel \o held
  /\ held' = <<>> /\ routerPc' = "gate"
  /\ UNCHANGED <<clockVars, captureVars, cache, radioChannel, mqttVars,
                 asleep, histories, late>>
RouterSendEnds ==
  /\ Alive /\ routerPc = "send" /\ Len(mqttChannel) < MQTT_COMMAND_CHANNEL_DEPTH
  /\ mqttChannel' = mqttChannel \o held
  /\ held' = <<>> /\ routerPc' = "gate"
  /\ UNCHANGED <<clockVars, captureVars, cache, radioChannel, mqttVars,
                 asleep, histories, late>>
----------------------------------------------------------------------------
(* mqtt_task.                                                              *)

MqttOpensSession ==
  /\ Alive /\ mqttPc = "gate" /\ is_mqtt_allowed(otaState)
  /\ mqttPc' = "setup"
  /\ UNCHANGED <<clockVars, captureVars, cache, channelVars, routerVars,
                 deferred, current, otaRead, asleep, histories, late>>

MqttSetupEnds ==
  /\ Alive /\ mqttPc = "setup"
  /\ mqttPc' \in {"connected", "gate"}
  /\ UNCHANGED <<clockVars, captureVars, cache, channelVars, routerVars,
                 deferred, current, otaRead, asleep, histories, late>>

\* Slip: the channel is served before the deferred reading.
ChannelFirst ==
  /\ Alive /\ mqttPc = "connected"
  /\ IF mqttChannel # <<>>
     THEN /\ current' = <<Head(mqttChannel)>> /\ mqttChannel' = Tail(mqttChannel)
          /\ UNCHANGED deferred
     ELSE /\ deferred # <<>> /\ current' = deferred /\ deferred' = <<>>
          /\ UNCHANGED mqttChannel
  /\ mqttPc' = "publish" /\ otaRead' = otaState
  /\ UNCHANGED <<clockVars, captureVars, cache, radioChannel, routerVars,
                 asleep, histories, late>>
\* The deferred reading first; the OTA state is read before the publish.
MqttTakes ==
  /\ Alive /\ mqttPc = "connected"
  /\ IF deferred # <<>>
     THEN /\ current' = deferred /\ deferred' = <<>> /\ UNCHANGED mqttChannel
     ELSE /\ mqttChannel # <<>>
          /\ current' = <<Head(mqttChannel)>> /\ mqttChannel' = Tail(mqttChannel)
          /\ UNCHANGED deferred
  /\ mqttPc' = "publish" /\ otaRead' = otaState
  /\ UNCHANGED <<clockVars, captureVars, cache, radioChannel, routerVars,
                 asleep, histories, late>>

\* should_reconnect_before_publish: the session was idle for more than 20 s.
MqttIdleReconnect ==
  /\ Alive /\ mqttPc = "connected" /\ deferred = <<>> /\ mqttChannel # <<>>
  /\ deferred' = <<Head(mqttChannel)>> /\ mqttChannel' = Tail(mqttChannel)
  /\ mqttPc' = "gate" /\ otaRead' = otaState
  /\ UNCHANGED <<clockVars, captureVars, cache, radioChannel, routerVars,
                 current, asleep, histories, late>>

\* maybe_sleep_after_publish; whether the feature is on and the UI idle is left
\* open.
MaySleep ==
  /\ otaRead = "Inactive" /\ mqttChannel = <<>>
  /\ now - current[1].received_at <= MAX_MEASUREMENT_AGE

MqttPublishes ==
  /\ Alive /\ mqttPc = "publish"
  /\ published' = Append(published, current[1])
  /\ current' = <<>> /\ mqttPc' = "connected"
  /\ asleep' \in IF MaySleep THEN BOOLEAN ELSE {FALSE}
  /\ UNCHANGED <<clockVars, captureVars, cache, channelVars, routerVars,
                 deferred, otaRead, observed, queued, late>>

\* Slip: the reading is given up with the session.
PublishFailsForgets ==
  /\ Alive /\ mqttPc = "publish"
  /\ current' = <<>> /\ mqttPc' = "gate"
  /\ UNCHANGED <<clockVars, captureVars, cache, channelVars, routerVars,
                 deferred, otaRead, asleep, histories, late>>
MqttPublishFails ==
  /\ Alive /\ mqttPc = "publish"
  /\ deferred' = current
  /\ current' = <<>> /\ mqttPc' = "gate"
  /\ UNCHANGED <<clockVars, captureVars, cache, channelVars, routerVars,
                 otaRead, asleep, histories, late>>

\* A failed poll or ping, a forwarded manifest, an OTA state that forbids MQTT.
MqttSessionEnds ==
  /\ Alive /\ mqttPc = "connected" /\ deferred = <<>>
  /\ mqttPc' = "gate"
  /\ UNCHANGED <<clockVars, captureVars, cache, channelVars, routerVars,
                 deferred, current, otaRead, asleep, histories, late>>
----------------------------------------------------------------------------
\* What ota_task and ota_confirm_task send.
OtaSuccessors(s) ==
  CASE s = "Inactive" -> {"Downloading"}
    [] s = "PendingConfirmation" -> {"Downloading", "Inactive"}
    [] s = "Downloading" -> {"Applying", "Inactive"}
    [] s = "Applying" -> {"Inactive"}

OtaSends ==
  /\ Alive
  /\ otaState' \in OtaSuccessors(otaState)
  /\ otaState' = "Downloading" => otaVersion < MaxOtaChanges
  /\ otaVersion' = otaVersion + 1
  /\ late' = IF otaState = "Inactive" THEN [admitted |-> 0, routed |-> 0] ELSE late
  /\ UNCHANGED <<now, captureVars, cache, channelVars, routerVars, mqttVars,
                 asleep, histories>>

Tick ==
  /\ Alive /\ now < MaxNow
  /\ now' = now + 1
  /\ UNCHANGED <<otaState, otaVersion, captureVars, cache, channelVars,
                 routerVars, mqttVars, asleep, histories, late>>

Init ==
  /\ now = 0 /\ otaState \in {"Inactive", "PendingConfirmation"} /\ otaVersion = 0
  /\ capturePc = "gate" /\ captureSeen = 0 /\ decoded \in Keys /\ pauseUntil = 0
  /\ cache = {} /\ radioChannel = <<>> /\ mqttChannel = <<>>
  /\ routerPc = "gate" /\ held = <<>>
  /\ mqttPc = "gate" /\ deferred = <<>> /\ current = <<>> /\ otaRead = "Inactive"
  /\ asleep = FALSE /\ observed = <<>> /\ queued = <<>> /\ published = <<>>
  /\ late = [admitted |-> 0, routed |-> 0]

CaptureNext ==
  \/ CaptureListens \/ CaptureInterrupted \/ CaptureDecodeFails
  \/ (\E k \in Keys : CaptureDecodes(k)) \/ CaptureEnqueues \/ CapturePauseEnds
RouterNext == RouterWaits \/ RouterForwards \/ RouterSendEnds
MqttNext ==
  \/ MqttOpensSession \/ MqttSetupEnds \/ MqttTakes \/ MqttIdleReconnect
  \/ MqttPublishes \/ MqttPublishFails \/ MqttSessionEnds
Next == CaptureNext \/ RouterNext \/ MqttNext \/ OtaSends \/ Tick

Spec == Init /\ [][Next]_vars

(* The tasks run; an OTA attempt ends; the broker is not unreachable, or   *)
(* the link not idle, for ever.                                            *)
LiveSpec ==
  /\ Spec
  /\ WF_vars(RouterNext) /\ WF_vars(MqttOpensSession)
  /\ WF_vars(OtaSends /\ otaState' = "Inactive")
  /\ SF_vars(MqttSetupEnds /\ mqttPc' = "connected")
  /\ SF_vars(MqttTakes) /\ SF_vars(MqttPublishes)
----------------------------------------------------------------------------
(* Properties.                                                             *)

Optional == {<<>>} \cup {<<r>> : r \in Reading}

\* Every variable keeps its type: the channels and the cache stay within their
\* depths, and at most one reading is in a task's hand.
TypeOK ==
  /\ now \in 0..MaxNow /\ otaState \in OtaState /\ otaVersion \in Nat
  /\ capturePc \in {"gate", "listen", "decoded", "pause"}
  /\ captureSeen \in 0..otaVersion /\ decoded \in Keys
  /\ pauseUntil \in 0..(MaxNow + CAPTURE_PAUSE)
  /\ cache \subseteq [key : Keys, expires_at : Nat, pushed : Nat]
  /\ Cardinality(cache) <= DEDUPE_CAPACITY
  /\ radioChannel \in Seq(Reading)
  /\ Len(radioChannel) <= RADIO_TELEMETRY_CHANNEL_DEPTH
  /\ mqttChannel \in Seq(Reading) /\ Len(mqttChannel) <= MQTT_COMMAND_CHANNEL_DEPTH
  /\ routerPc \in {"gate", "receive", "send"} /\ held \in Optional
  /\ mqttPc \in {"gate", "setup", "connected", "publish"}
  /\ deferred \in Optional /\ current \in Optional /\ otaRead \in OtaState
  /\ asleep \in BOOLEAN
  /\ observed \in Seq(Reading) /\ queued \in Seq(Reading) /\ published \in Seq(Reading)
  /\ late \in [admitted : Nat, routed : Nat]

\* The same reading is let through again within the TTL only if at least a
\* whole cache of others came in between; a pause cut short by an OTA change
\* relies on this alone.
RepeatOnlyAfterEviction ==
  \A i, j \in DOMAIN observed :
    /\ i < j /\ observed[i].key = observed[j].key
    /\ observed[j].received_at - observed[i].received_at < DEDUPE_TTL
    => j - i > DEDUPE_CAPACITY

\* What the tasks still have in hand, oldest first.
InPipeline == deferred \o current \o mqttChannel \o held \o radioChannel

\* Between the radio channel and the broker nothing is lost, doubled or
\* overtaken, whatever the channels' depths, the failed publishes, the
\* reconnects and the OTA attempts in between.
PublishedInOrder == published \o InPipeline = queued

\* While an OTA attempt runs, at most one reading that was already on its way
\* is admitted, and at most one is routed on to MQTT.
QuietDuringOta ==
  otaState # "Inactive" => late.admitted <= 1 /\ late.routed <= 1

\* Every queued reading is published, or deep sleep puts an end to all.
QueuedIsPublished ==
  \A n \in 1..3 : (Len(queued) >= n) ~> (Len(published) >= n \/ asleep)
============================================================================
