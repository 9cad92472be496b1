# Verification of motonet-of-things

TLA+ specifications of the firmware of a 433 MHz temperature gateway: an ESP32
that receives readings of a Rubicson sensor, publishes them over MQTT, updates
itself over the air (OTA) and sleeps deeply between readings. The models are
translated from the Rust sources; paths below are relative to the repository.

## 1. The system

All tasks run on one cooperative embassy executor. They talk through static
channels and watches (`firmware/src/app_bus.rs`), two mutexes (flash, radio) and
one pair of TLS buffers.

| Part | State | Operations | Talks to |
|---|---|---|---|
| `mqtt_task` (`tasks/mqtt/`) | session, back-off, deferred reading | connect, subscribe, forward or clear a manifest, publish, stand down, deep sleep | broker, OTA channel, OTA state, MQTT health, TLS workspace |
| `ota_task` (`tasks/ota.rs`, `ota/flash_write.rs`) | manifest, attempt | check, wait for MQTT to stand down, download, activate, reboot | OTA channel and state, MQTT health, flash, TLS workspace |
| `ota_confirm_task` (`tasks/ota_confirm.rs`) | health window | find a pending image, watch MQTT's health, mark it valid | OTA state, MQTT health, flash, MQTT channel |
| boot metadata (`ota/boot_metadata.rs`) | selected slot, slot states | activate, mark new, mark valid | bootloader |
| TLS workspace (`tls_workspace.rs`) | one flag | acquire, release on drop | MQTT and OTA |
| capture (`pulse_capture_rmt.rs`), adapter (`telemetry.rs`), cache (`telemetry-core/dedupe.rs`) | capture loop, recent readings | listen, decode, de-duplicate, queue | radio channel, OTA state |
| event router (`tasks/radio_433.rs`) | command in hand | forward to MQTT | both channels, OTA state |
| power policy (`power/`, `app-core/runtime_policy.rs`) | settings, idle deadline | decide on deep sleep | `mqtt_task`, RTC memory |
| settings (`rtc_schema.rs`, `config_rules.rs`, `radio_settings.rs`, `power/persistence.rs`) | RTC words, watches | apply, clamp, persist, restore, migrate | display, radio, power |
| radio set-up (`tasks/radio_433.rs`, `radio_433.rs`) | chip, driver's cache, RF profile | sweep, restore, apply settings | CC1101, RTC memory |
| Wi-Fi and time (`network.rs`, `network_supervisor.rs`, `time_sync.rs`) | link, configuration, waiters, time reference | connect, reconnect, wait for an address, resync | all network users |
| display and menu (`tasks/display/`, `karu-menu`) | screen, menu, frame last drawn | navigate, edit, commit, draw | settings, watches |
| reqwless fork (`tools/reqwless`) | connection, buffers, readers and writers | connect, write a request, read a response | the OTA download |
| embedded-tls fork (`tools/embedded-tls`) | handshake, key schedule, record buffers | open, read, write, flush, close | MQTT and HTTP |
| `rubicson`, `eu-dst`, manifest parsing | none | pure functions | |

What is hard here: three tasks that may each end an OTA attempt, a reading or
the whole device at any await; watches whose `try_get` marks a value as seen;
a bootloader that gives an unconfirmed image up at any reset, deep sleep
included; channels at their limit while a session is down; a download whose
size, chunk and sector arithmetic is spread over three files; settings held in
four places (menu, watch, radio, RTC memory) and changed by three tasks; one
waker for many waiters; protocol readers that must not care where the network
cuts the stream, and that the firmware drops in the middle of a read.
`PROJECT.json` lists these hazards at their lines, each with the properties
that watch it.

What makes each part correct:

* coordination: MQTT is out of the way of an attempt and comes back after it;
  the device can always boot; only a healthy, running image is confirmed; sleep
  never cuts an attempt short;
* download: only the signed image is ever selected; writes stay within what was
  erased; every attempt ends;
* telemetry: nothing queued is lost, doubled or overtaken; a burst is counted
  once; an OTA attempt has the device to itself;
* settings: what was saved is what radio and RTC memory have when all is quiet,
  also after sleep and resets; the screen shows what the controller holds;
* network: no wake-up is lost, every wait ends, timestamps are true;
* TLS and HTTP: the peer can read all that is sent, the caller gets the bytes in
  order and is not told that a truncated body is whole;
* pure functions: they agree with a reference definition.

## 2. Modules

| Module | Models |
|---|---|
| `OtaCoordination` | `mqtt_task`, `ota_task`, `ota_confirm_task`, watches, channels, TLS workspace, flash mutex, slots, bootloader, broker's retained manifest |
| `OtaDownload` | one attempt, `download_and_write_to_flash`, down to chunks and sectors |
| `OtaDownloadSteps` | the mapping of an attempt to `OtaCoordination` |
| `TelemetryPipeline` | capture, cache, radio channel, router, MQTT channel, publish and retry, deep sleep |
| `RtcSchema` | bounds, RTC words and their versions, loading and storing, policy numbers |
| `Menu`, `DisplayController` | `karu-menu`; screens, frame keys and what is drawn |
| `RadioDriver` | chip and cache of the CC1101 driver, setters that fail half-way, the sweep |
| `SettingsUi` | composes the four: input, display, dispatch, radio set-up and settings tasks, idle countdown, sleep, resets |
| `WifiTime` | supervisor, the wait for an address, time synchronisation |
| `TlsKeySchedule`, `TlsRecords`, `TlsConnection` | secrets and nonces; records and buffers; handshake, reads, writes, close |
| `HttpCodec`, `HttpExchange` | framing of bodies and heads; the client, its writers and readers |
| `Rubicson`, `EuDst` | the sensor decoder, gap by gap; calendar and summer time |
| `MC...` | instances for TLC; `MCAlgorithms` also holds the reference definitions of the pure functions |
| `OtaCoordination_proofs`, `OtaSafety_proofs`, `OtaDownload_proofs`, `TelemetryPipeline_proofs`, `RtcSchema_proofs`, `SettingsUi_proofs`, `WifiTime_proofs`, `TlsConnection_proofs` | theorems (section 4) |

Definitions keep the source's names where a function is modelled; an action is
named for its task and what happens (`MqttConnects`, `OtaPrepare`,
`ConfirmLocks`). `PROJECT.json` "map" gives the lines of each.

**Grain.** The executor switches tasks only at an await, so an action is one
stretch of a task between two awaits. A task's place is its `...Pc` variable.
State read before an await and used after it is a variable of its own:
`sessionOta` is the OTA state an open set-up or publish was started with, `seen`
tells whether `mqtt_task`'s receiver has seen the current state.

**Time.** `OtaCoordination` counts no time: a timer is an action. With
`Prompt = TRUE` a timer fires only when no task is ready (the shortest is a
second, polling a ready task takes milliseconds); with `Prompt = FALSE` at any
moment. The back-off is counted in seconds because the 25 s wait for the TLS
workspace is compared with it. `TelemetryPipeline` counts ticks, since its
cache, pause and sleep limit compare times.

**Data.** A manifest is four flags: does it verify, does policy allow it, does
it say force, is its URL https. In `OtaDownload` the i-th chunk of the signed
image has contents i, a digest is the sequence hashed, and a wire chunk is
what the tag and length checks tell apart. A reading is its de-duplication key
and the time it was received. `build_topic` and `build_payload` can not overflow
their buffers (36 of 64, 81 of 128 bytes at most), so `PublishOutcome::Dropped`
does not occur and is left out. An RTC word is its four bytes and is encoded and
decoded bit by bit, since the bounds and the checksum are what matters. The
de-duplication cache is a set of entries, each with the number of its push: the
oldest is the one with the least number, as in the source's `Vec`.

In `TlsConnection` a record is a header of 2 units and a few units of content,
the read buffer holds one record of 3 and the write buffer 4, so that records
fill them and are split over reads. Secrets, hashes and MACs are terms that
differ when what they are made of differs. The server keeps to the protocol; the
profile chosen in `Init` says how both ends are configured and how the server
lays out its flight, which it sends one record at a time. A unit is known by its
place in the server's stream, so what the caller was handed can be compared with
what was sent (`AppUnits`), and the caller's own units are numbered as they are
written (`UnitPlaces`, `Unit`). `phase` is the caller's view: a connection the
peer has closed (`"peer_closed"`) can still be closed, with a last unencrypted
alert. An asynchronous read that waits may be dropped and started
again, as the `select4` in `run_connected_loop` does. In `HttpExchange` a byte is
a tagged unit (the n-th of a head, of a body, a hexadecimal digit, a line end),
so that any byte out of place shows; the buffer contents are modelled unit by
unit because readers and writers work in place.

In `Rubicson` a byte is the set of its 1 bits. In `EuDst` a time is a number of
days and the seconds of the day.

**External.** The ESP-IDF bootloader (start the selected slot, give up a slot
that was started and never marked valid), the power supply, the broker and its
operator, the clock.

**Slips.** A definition commented `Slip:` stands before the one it deforms: a
plausible mistake in that function. Nothing uses it; each property is known to
fail when one of them takes the place of the original (`PROJECT.json`
"mutants").

## 3. Runs

| Run | Shows |
|---|---|
| `ota_core` | with ready tasks first, failing boot-metadata accesses and a power loss at any point: `OtaHasNetworkAlone`, `SessionsExcludeOta`, `NoSleepDuringOta`, `DeviceBootable`, `ConfirmedOnlyWhenHealthy` (the health window), types |
| `ota_liveness` | with timers that may expire before a ready task is polled (`Prompt = FALSE`): `MqttComesBack` after every attempt; `PendingIsConfirmed` unless a manifest interferes; without metadata faults, `ConfirmsRunningImage`; `ApplyingWhileFlashHeld`, `WorkspaceNeverBusy` |
| `ota_download` | an attempt in detail: `SelectedSlotHoldsImage`, `WritesFitErased`, `BodyIsDownloadSize`, `RedirectedIsGuarded`, `AnsweredAttemptEnds`, and the refinement `AttemptIsOtaTask` |
| `telemetry` | `PublishedInOrder`, `QuietDuringOta`, `RepeatOnlyAfterEviction`, types |
| `telemetry_published` | `QueuedIsPublished` |
| `settings_ui` | a visit to the settings against set-up, sleep, resets and faults: `SettledSettingsAgree`, `StoredSettingsSurvive`, `GlassShowsController` (the selected row among them), `NoSleepWhileUsed`, types |
| `wifi_time` | `AsleepIsRegistered`, `TimestampsTrue`; `EveryWaitEnds`, unless the supervisor is stranded; `TimeIsSet`, unless it is or an answer was lost |
| `tls` | `ServerAccepts`, `DeliveredInOrder`, `ErrorsHaveCause` |
| `http` | `RequestArrives`, `BodyDeliveredWhole` |
| `pure_functions` | `DecoderIsRight`, `ClockIsRight`, `StoredWordsAreUsable` |
| `ota_rollback_target`, `wifi_lost` | violations: section 6 |

`ota_core` and `ota_liveness` differ in the schedule (`Prompt`) and in the faults.
`DeviceBootable`, `ApplyingWhileFlashHeld` and `WorkspaceNeverBusy` hold for any
schedule and any faults: the theorems of section 4 say so.

**Bounds.** Two slots, as in `partitions.csv`. Manifests: one that installs, one
without TLS, one that fails verification; a forced one where retention matters.
One published manifest and one power loss reach every order of the three tasks'
steps, because the broker re-delivers a retained one and deep sleep and
installation reset the device without counting. Channels of depth 1 are at
their limit all the time. `OtaDownload` takes chunks of 4 and sectors of 3
units and sizes on both sides of each multiple, so every remainder occurs, and
a slot one size too small. In `TelemetryPipeline` the cache holds 2 of 3 keys
and five OTA changes allow the four readings within one TTL that eviction
needs; keys are interchangeable, hence the symmetry (safety run only).
The liveness runs are smaller: `ota_liveness` leaves out readings, power loss
and failing boot-metadata accesses.

`SettingsUi`: the operator has `MaxUses` visits and changes together (enough to
open the settings, change the threshold and save), `MaxIncidents` faults, OTA
attempts and resets together; two of the eight sweep candidates; RTC memory
starts with words of older firmware. All items of the menu are drawn and passed,
in both directions, one is edited. A tick is 60 s, the default idle timeout. `WifiTime`: one client
besides the supervisor and the time task, two servers, one lost link (at any
moment, while the supervisor waits for an address too), an answer that may be
lost, half seconds. The two liveness properties name the two cases in which they fail:
`Stranded`, which `wifi_lost` shows to be reachable, and an answer that never
comes. `TlsConnection`: the four
forms (asynchronous or blocking, whole or split) with two records from the
server or three units written, and each variation of the handshake with one of
each. `HttpExchange`: buffers on both sides of the one- and two-digit chunk
sizes, heads that leave from 0 bytes to the whole of an 8-byte buffer, bodies of
0 to 19 bytes, responses cut at any read and closed at six
places, two responses on a connection. `Rubicson`: every damage of up to three
bits, bits lost and added, gaps at the limits of their ranges, up to 14 rows.
`EuDst`: 16 years with centuries and leap years, every day at a month's edge and
in the weeks of the two changes.

**Deadlock** is checked for `OtaCoordination`. An attempt of `OtaDownload` ends,
`TelemetryPipeline` stops at deep sleep or its time bound, `SettingsUi` when the
operator's visits are over, `WifiTime` when the link is lost under a supervisor
that waits for an address and nothing else is due, a connection or an algorithm
when it is done: there it is not.

**Fairness.** The executor polls every ready task: weak fairness of each task's
steps. Strong fairness where another actor keeps switching a step off: timers,
a manifest waiting on the wire, the confirmation looking for a heartbeat. Of the
network: a set-up tried for ever succeeds some time, a fetch ends (the code's
read timeout sees to it once the server has answered), the broker is not
unreachable for ever. Nothing obliges the operator or the power supply. In
`WifiTime` the access point, the DHCP server and one of the time servers answer
if they are asked again and again, and embassy's mutex is fair. Nothing is
assumed of a request to a time server: it may wait for ever.

## 4. Proofs

For all slots, manifests, depths, bounds, sizes and initial RTC words that the
named assumptions allow. Each proof has one step per action; the invariants
below are what had to be added to make the property inductive.

**Coordination** (`OtaCoordination_proofs`, `OtaSafety_proofs`)

* `TypeCorrect`: `TypeOK`, one lemma per task.
* `AlwaysBootable`, `ApplyingPublished`, `WorkspaceFree`: from the inductive
  invariant `GuardInv`. None of the three is inductive alone: that the running
  image is whole needs to know that the slot being written is another one, that
  Applying is published needs who holds the flash mutex where
  (`GuardsHeldWhere`), since the confirmation's Inactive could come in between.
* `OtaAlone`, `SessionsKeepOut`, `SleepSparesOta`: under `Prompt`, from
  `SessionInv`, which adds that MQTT's health tells whether it has a session,
  that a queued manifest means an idle `ota_task` and a silent MQTT, and that a
  publish decided on Inactive still finds it. Without `Prompt` they fail: a timer
  that overtakes a ready task lets MQTT open a session next to an attempt.
* `ConfirmedHealthy`: under `Prompt`, a slot is marked valid only in a healthy
  confirmation window, whatever metadata access fails; from `SessionInv`.
* `ConfirmedIsRunning`: if no metadata access fails, under any schedule, only the
  running slot is marked valid; from `SelectedRuns` (the device runs the selected
  slot), with a lemma on which steps touch slots at all.

**Download** (`OtaDownload_proofs`)

* `OnlySignedImageSelected`: from `DownloadInv` (the digest so far is what was
  written so far, and each stage has passed the checks before it). Silent write
  faults beyond the part that is read back are excepted: the code does not look
  there.
* `DownloadTypeCorrect`, `WritesStayInErasedFlash`, `BodyUsedUp`: from `SizeInv`,
  which gives offset, body bytes and blank chunks in terms of the chunk index.
  The arithmetic of chunks, overheads and rounded-up sectors is in lemmas of its
  own, for any sizes.
* `GuardFollowsScheme`: from `GuardInv`, which ties the workspace to the scheme
  in every stage, not only while requests are made.
* `AttemptRefinesOtaTask`: the refinement `AttemptIsOtaTask`. One lemma says what
  the mapping shows of the slot at each stage (`TargetKnown`, from `MapInv`), one
  per kind of step which action of `OtaCoordination` it is. A reboot leaves the
  attempt and is excepted in the property.

**Telemetry** (`TelemetryPipeline_proofs`)

* `QuietOta`: from `QuietInv`, which ties the two counters to where capture and
  router wait.
* `NothingLostOrOvertaken`: for channels of any depth, from `OrderInv`
  (at most one reading in each hand, and never a deferred and a current one at
  once), with lemmas that moving a reading along the line leaves the line as it is.
* `RepeatNeedsEviction`: from `CacheInv`: each entry is that of one reading let
  through, within the capacity, and a reading that has not expired has its entry
  or is followed by a whole cache of others.
* `PipelineTypeCorrect`: from `CacheInv`, `SingleReadings`, `PlacesOK` and
  `DepthsOK` (places, the pause's end and seen versions; depths).

**Stored words and settings** (`RtcSchema_proofs`, `SettingsUi_proofs`)

* `PowerWithinBounds`, `RadioWithinBounds`, `RadioRoundTrip`, `PowerRoundTrip`:
  for every four bytes and every setting, a load yields settings within bounds,
  and what is stored comes back unchanged.
* `EveryWordUsable`: `UsableWord` for every four bytes, number of candidates and
  age, migration and reload included. The run asks it of some words
  (`StoredWordsAreUsable`).
* `StoredSurvive`, `SettledAgree`: from `CoreInv` (settings are within bounds in
  menu, queue, watches, driver, chip and RTC memory, and what counts as stored is
  what RTC memory loads) and `SettleInv`/`Agrees` (who agrees with whom in each
  place of set-up and settings task, as long as no SPI command failed). `CoreInv`
  needs that the menu keeps each item between its bounds whatever the knob does
  (`MenuOK`), and, for the round trip, that nothing out of bounds is ever stored.
* `NoSleepInUse`, an action property: from `IdleInv`, by which what is left of
  the countdown and the time since the last input add up to the idle timeout.
* `SettingsTypeCorrect`: `CoreInv`, and `BookInv` for queues and counters.
* `GlassFollows`: from `GlassInv`: the glass is a drawing of the controller with
  the selected row in it, and the frame remembered is its key or none. The key
  has no scroll offset; the proof rests on the lemma `Navigated`, that scrolling
  happens only with the selection.

**Network** (`WifiTime_proofs`)

* `SleeperIsRegistered`: for any number of clients, from `WaitInv`: only the
  holder of the lock polls or sleeps, so one waker is enough.
* `TimeIsTrue`: from `TimeInv` (the reference was stamped after the question and
  taken within the delay). Rounding to seconds happens three times; lemmas on
  `\div` bound what it costs, also for instants before the reference.

**TLS** (`TlsConnection_proofs`)

For every set of profiles and all sizes of header, record and buffers that the
assumptions of `TlsRecords` and `TlsConnection` allow.

* `RecordsAreAccepted` (`ServerAccepts`): from `SInv`. `KeyInv` gives the whole
  key schedule in closed form for each state of the handshake: which secret it
  is derived from, over which transcript, and that the write counter is the
  number of records sent under the present key. `NonceInv` and `FinishedInv` say
  what was sent with it. Neither is inductive without the other, nor without
  `StreamInv`, which says what the server can have sent: that the client's
  transcript is the server's follows from the server's Finished being verified.
  `UnitsInv` places the caller's units in the records sent and the write buffer.
* `DataIsDelivered` (`DeliveredInOrder`): from `IInv`, which adds `ReadInv`: the
  read counter names the record the window is in, the window holds exactly what
  is left of that record's plaintext in the read buffer, and the caller was handed
  all application data up to there. A read dropped inside a record leaves the
  reader out of step; the invariant does not need it in step, because a record
  only opens under its own counter.
* `FailuresHaveCause` (`ErrorsHaveCause`): from `SyncInv`: either there is a cause
  already, or the reader stands behind the first c records with the units of the
  next one in its buffer (`At`), and c is the number of records the handshake, its
  transcript and the read counter have taken (`Stands`). One lemma per message
  and record of the server's flight shows that a reader in step takes it.

Only model-checked:

* liveness, since fairness is out of the prover's reach: `MqttComesBack`,
  `PendingIsConfirmed`, `AnsweredAttemptEnds`, `QueuedIsPublished`,
  `EveryWaitEnds`, `TimeIsSet`;
* `DecoderIsRight` and `ClockIsRight`: what the loop of the CRC, or the loops over
  years and months, compute, which takes induction over data;
* `RequestArrives` and `BodyDeliveredWhole`: the first decodes all that is on the
  wire with a fold, the second compares with a concatenation of chunks, and the
  reader folds over the digits of a chunk's length: induction over data again;
* `StoredWordsAreUsable` as an invariant of `MCAlgorithms`, whose words are the
  run's; what it says of a word is proved for all words (`EveryWordUsable`).

## 5. Not modelled

JSON and hex parsing, signatures and RSA, ciphers, hashes and certificates (an
outcome each); the CC1101's register values, pixels and fonts, GPIO edges, the
LED; the software capture back end, which the default build does not enable;
`TelemetryQueue`, which the firmware does not use; header names, URLs and
httparse's grammar; parsing of TLS messages; scripts. MQTT packets, DNS and
PUBACKs: a publish ends when it is written, as in the code. In
`OtaCoordination` and `TelemetryPipeline` predictive sleep's settings and the
idle deadline are left open (deep sleep may or may not follow where the other
gates allow it); `SettingsUi` has them. The device's clock does not drift in `WifiTime`: a
timestamp is compared with the servers' time within the delays and roundings
alone. In `SettingsUi` the display waits for room on the command channel before
it handles the input, not between handling and drawing (`tasks/display.rs:71-73`):
an idle countdown restarted while it waits is not told apart from one restarted
after. A CertificateVerify is verified or not
by the profile's verdict, without the transcript it signs.

## 6. What the checks found

Two of these have a run:

* `ota_rollback_target`: a live manifest within the confirmation window erases
  the image the bootloader would roll back to.
* `wifi_lost`: the supervisor waits for an address without a timeout and without
  watching the link; a link lost meanwhile is never made again, and every task
  in `wait_for_config_up` waits with it.

The following were refuted in the same way. The statements are kept in the
modules; naming one (or dropping the exception) in a copy of the files given
shows it again:

* `RetainedEventuallyCleared` (`OtaLive.cfg`): `ForwardAndClearRetained` never
  clears (`tasks/mqtt/mod.rs:196`). After a failed attempt the same retained
  manifest is forwarded in every new session.
* `ConfirmsRunningImage` (`OtaLive.cfg` with `FlashFaults = TRUE`; it holds with
  FALSE): if activation succeeds and marking new fails
  (`flash_write.rs:873`), the other slot is selected with its old mark, and a
  confirmation under way marks that slot valid although it never ran.
* `NoReplayWhilePending` (`OtaCore.cfg`): if `mqtt_task` is polled before
  `ota_confirm_task`, a retained manifest is forwarded although the image is
  pending (`tasks/mqtt/mod.rs:397`).
* `OtaGetsWorkspace` (`OtaCore.cfg`, `MaxResets = 0`): a set-up ended by a
  manifest keeps the TLS workspace through its back-off
  (`tasks/mqtt/mod.rs:406`); from 32 s on, the attempt fails for want of it.
* `NoSleepWhilePending` (`OtaCore.cfg`): a failed attempt turns
  PendingConfirmation into Inactive (`tasks/ota.rs:113`); deep sleep then makes
  the bootloader give the image up.
* `OtaMessageOnlyDuringOta` (`SettingsUi.cfg`): an OTA message drawn over an
  unchanged frame stays there after the attempt (`tasks/display.rs:80`), until
  the key of the frame changes.
* `RequestArrives` (`Http.cfg`) without its exception for `room = 3`: when the
  head has left exactly three bytes of the buffer, `allocated_header` is 0,
  `append_current_chunk` appends one byte all the same
  (`buffering_chunked.rs:48`), and finishing the chunk indexes an empty slice for
  its header and panics (`:98`). The run has the case; the property excepts the
  panic there and nothing else.

Seen while modelling, without a statement of their own:

* deep sleep looks at the MQTT channel only, so a reading still in the radio
  channel goes with it (two readings within 20 s, which the 45 s pause allows
  only when OTA changes cut it short);
* a save during the last sampling of the radio's set-up is overwritten in the
  watch and in the radio, not in RTC memory (`tasks/radio_433.rs:429`;
  `SettledSettingsAgree` excepts it), and a failed SPI command leaves the chip
  idle or different from the driver's cache until the next change;
* `README.md:108` says any input resets the idle countdown; input during an OTA
  attempt is dropped before it does (`tasks/display.rs:30`);
* `sntpc::get_time` has no timeout (`time_sync.rs:145`): a lost answer stops time
  synchronisation until the device resets (`NtpLost`; `TimeIsSet` excepts it);
* a transfer to the display that fails leaves a garbled glass and the old frame
  key, so a controller that comes back to that key is not drawn again
  (`GlassShowsController` excepts a garbled glass);
* a flush after the peer's close_notify is not refused (`asynch.rs:164`; only
  `write` looks at `opened`), and a record in the clear that parses as an alert
  or a session ticket is taken as one after the handshake too;
* a TLS read that is dropped inside a record header loses the bytes read so far:
  the connection then fails or stalls, it never delivers wrong data
  (`DeliveredInOrder` has these reads, `ErrorsHaveCause` names them as a cause);
* an https URL without TLS configuration connects in plain text
  (`client.rs:247`); on a plain connection a chunked body read piecewise, and a
  fixed-length one read with `read`, report a truncated body as its normal end,
  and a chunked `read_to_end` may loop; a body that exactly fills the buffer is
  refused as too large. The firmware reads OTA images over TLS and checks their
  hash.

## 7. Plan

1. `HttpExchange` with the server's decoder as part of the state, advanced unit by
   unit, so that `RequestArrives` needs no fold and can be proved.
2. Abstract specification of the pipeline (a bounded lossy queue), of the
   coordination (install or keep) and of an HTTP exchange over the TLS stream,
   with the present modules as implementations.
3. `ntp_servers` and manifest parsing as pure models.
