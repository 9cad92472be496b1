----------------------------- MODULE SettingsUi -----------------------------
(***************************************************************************)
(* The settings, from the knob to the radio and to RTC memory: input task, *)
(* display task and its controller, command dispatch, the two watches, the *)
(* radio's set-up task and settings task, the idle countdown of the power  *)
(* policy, deep sleep, crashes and boots.                                  *)
(*                                                                         *)
(* The tasks share one cooperative executor, so a step runs from one await *)
(* to the next.  Blocking device I/O happens within a step and may fail.   *)
(***************************************************************************)
EXTENDS DisplayController, RadioDriver, FiniteSets

CONSTANTS
    Candidates,         \* RF_SWEEP_CANDIDATES: a sequence of [freq, bandwidth]
    Readings,           \* readings the watch may hold
    InitialRtc,         \* RTC memory when power comes: a set of [radio, power, rf]
    EditableItems,      \* items the operator opens
    TickSecs,           \* seconds that pass at a time
    APP_EVENT_CHANNEL_DEPTH, APP_COMMAND_CHANNEL_DEPTH,
    Times,              \* values of TIME_WATCH
    Faults,             \* the SPI faults that may happen, one at a time
    MaxUses,            \* bound of the operator's visits to the settings and changes there, together
    MaxIncidents        \* bound of faults, OTA attempts and resets together

ASSUME SettingsAssumption ==
    /\ Candidates \in Seq([freq: Nat, bandwidth: 0 .. CHANNEL_BANDWIDTH_MAX_INDEX])
    /\ Len(Candidates) \in 1 .. 255
    /\ InitialRtc # {} /\ InitialRtc \subseteq [radio: Word, power: Word, rf: Word]
    /\ Faults \subseteq SetterFaults \cup ProfileFaults
    /\ EditableItems \subseteq 0 .. ItemCount - 1 /\ Times # {}
    /\ {TickSecs, APP_EVENT_CHANNEL_DEPTH, APP_COMMAND_CHANNEL_DEPTH} \subseteq Nat \ {0}
    /\ {MaxUses, MaxIncidents} \subseteq Nat

VARIABLES
    ui,        \* the controller
    glass,     \* what the screen shows
    events,    \* APP_EVENT_CHANNEL
    commands,  \* APP_COMMAND_CHANNEL
    reading,   \* READING_WATCH as the display task sees it: value, fresh
    ota,       \* OTA_STATE_WATCH
    radioW,    \* RADIO_SETTINGS_WATCH: value, fresh for the settings task
    powerW,    \* POWER_SETTINGS_WATCH
    power,     \* the atomics of the power module
    left,      \* seconds to UI_IDLE_DEADLINE_SECS
    rtc,       \* the three words of RTC memory
    radio,     \* the CC1101 and its driver
    rxPc,      \* radio_433_rx_task: start, sweeping, sampling, capturing, dead
    setPc,     \* radio_433_settings_task: waiting, locking
    wake,      \* wake_reason_class: cold_boot, timer_wake or ui_wake
    quiet,     \* seconds since the last navigation, up to the idle timeout
    stored,    \* the settings last written to RTC memory or first found there
    history,   \* [lateSave: saved while the radio was sampled, fault: a radio fault]
    uses,      \* visits to the settings and changes so far
    incidents  \* faults, OTA attempts and resets so far

displayVars == <<ui, glass, events, reading>>
settingsVars == <<radioW, powerW, rtc, stored>>
powerVars == <<power, left, quiet>>
radioVars == <<radio, rxPc, setPc>>
vars == <<displayVars, commands, ota, settingsVars, powerVars, radioVars, wake, history, uses, incidents>>

UiEvents == {"NextScreen", "PrevScreen", "Select"}
OtaState == {"Inactive", "Downloading", "Applying", "PendingConfirmation"}

is_ui_input_allowed(s) == s = "Inactive"
display_message(s) ==
    CASE s = "Downloading" -> "OTA download..." [] s = "Applying" -> "OTA applying..." [] OTHER -> "None"

Waiting == [kind |-> "Waiting"]
Message(text) == [kind |-> "Message", text |-> text]
Garbled == [kind |-> "Garbled"]   \* a transfer that failed half-way

(***************************************************************************)
(* Boot: settings are loaded, published and given to the radio, and the    *)
(* tasks start.  The words may be rewritten by the loads.                  *)
(***************************************************************************)
BootedFrom(words, class) ==
    LET p == load_power_settings(words.power)
        r == load_radio_settings(words.radio)
        rs == load_radio_or_default(words.radio)
    IN /\ rtc' = [words EXCEPT !.power = p.word, !.radio = r.word]
       /\ power' = clamp_power_config(p.value)
       /\ left' = 0
       /\ quiet' = p.value.idle
       /\ powerW' = p.value
       /\ radioW' = [value |-> rs, fresh |-> TRUE]
       /\ radio' = InitializedRadio(rs)
       /\ ui' = NewController(rs, p.value)
       /\ glass' = Waiting
       /\ events' = <<>> /\ commands' = <<>>
       /\ reading' = [value |-> NoReading, fresh |-> FALSE]
       /\ rxPc' = "start" /\ setPc' = "waiting"
       /\ wake' = class /\ uses' = uses
       /\ history' = [lateSave |-> FALSE, fault |-> FALSE]

SettingsIn(words) ==
    [radio |-> load_radio_or_default(words.radio), power |-> load_power_settings(words.power).value]

Init ==
    \E words \in InitialRtc :
        LET p == load_power_settings(words.power).value
            rs == load_radio_or_default(words.radio)
        IN /\ rtc = [words EXCEPT !.power = load_power_settings(words.power).word,
                                  !.radio = load_radio_settings(words.radio).word]
           /\ power = clamp_power_config(p) /\ left = 0 /\ quiet = p.idle /\ powerW = p
           /\ radioW = [value |-> rs, fresh |-> TRUE]
           /\ radio = InitializedRadio(rs)
           /\ ui = NewController(rs, p) /\ glass = Waiting
           /\ events = <<>> /\ commands = <<>>
           /\ reading = [value |-> NoReading, fresh |-> FALSE]
           /\ ota = "Inactive" /\ rxPc = "start" /\ setPc = "waiting" /\ wake = "cold_boot"
           /\ stored = SettingsIn(words)
           /\ history = [lateSave |-> FALSE, fault |-> FALSE]
           /\ uses = 0 /\ incidents = 0

(***************************************************************************)
(* ui_input_task.  Input during an OTA attempt is dropped.                 *)
(***************************************************************************)
\* The operator opens only some items and has a bounded number of visits and
\* changes; outside the settings the two directions do the same.
OperatorMay(event) ==
    CASE event = "Select" ->
             IF ui.screen = "Settings" THEN ui.menu.view.selected \in EditableItems \cup {SaveIndex}
             ELSE uses < MaxUses
      [] event = "NextScreen" -> (ui.screen = "Settings" /\ ui.menu.editing) => uses < MaxUses
      [] event = "PrevScreen" -> ui.screen = "Settings" /\ (ui.menu.editing => uses < MaxUses)

UiInput(event) ==
    /\ is_ui_input_allowed(ota)
    /\ Len(events) < APP_EVENT_CHANNEL_DEPTH
    /\ OperatorMay(event)
    /\ events' = Append(events, event)
    /\ UNCHANGED <<ui, glass, reading, commands, ota, settingsVars, powerVars, radioVars,
                   wake, uses, history, incidents>>

(***************************************************************************)
(* display_task.  Each iteration handles one event, forwards its command,  *)
(* follows the watches, and draws if the key of the frame has changed.  An *)
(* OTA message goes over whatever is there.                                *)
(***************************************************************************)
\* The drawing step: handled is the controller after the event.  The clock may
\* show any time.
Draws(handled, fault) ==
    \E time \in Times :
    LET synced == sync_from_watchers(handled, radioW.value, powerW)
        key == derive_frame(synced, time)
        message == display_message(ota)
        draw(content) == IF fault THEN Garbled ELSE content
    IN IF message # "None"
       THEN ui' = synced /\ glass' = draw(Message(message))
       ELSE IF ~should_render(synced, key)
       THEN ui' = synced /\ glass' = glass /\ ~fault
       ELSE /\ ui' = IF fault THEN synced ELSE mark_rendered(synced, key)
            /\ glass' = draw(Drawing(synced, time))

\* n of the incidents the model allows.
Incidents(n) ==
    /\ incidents + n <= MaxIncidents
    /\ incidents' = incidents + n

DisplayTicks(fault) ==
    /\ Draws(ui, fault)
    /\ Incidents(B2N(fault))
    /\ UNCHANGED <<events, reading, commands, ota, settingsVars, powerVars, radioVars, wake, uses, history>>

DisplayTakesReading(fault) ==
    /\ reading.fresh
    /\ reading' = [reading EXCEPT !.fresh = FALSE]
    /\ Draws([ui EXCEPT !.reading = reading.value], fault)
    /\ Incidents(B2N(fault))
    /\ UNCHANGED <<events, commands, ota, settingsVars, powerVars, radioVars, wake, uses, history>>

\* Slip: input does not restart the idle countdown.
notify_nothing == left' = left

\* Input restarts the idle countdown when predictive sleep is enabled.
notify_ui_activity == left' = IF power.predictive THEN power.idle ELSE left

\* The wait for a free place among the commands, in the code between handling
\* and drawing, comes first here: no time passes and no event is taken in it.
DisplayNavigates(fault) ==
    LET r == Navigate(ui, Head(events)) IN
    /\ events # <<>>
    /\ r.command # NoCommand => Len(commands) < APP_COMMAND_CHANNEL_DEPTH
    /\ events' = Tail(events)
    /\ notify_ui_activity
    /\ quiet' = 0
    /\ commands' = IF r.command = NoCommand THEN commands ELSE Append(commands, r.command)
    /\ Draws(r.ui, fault)
    /\ Incidents(B2N(fault))
    /\ uses' = uses + B2N(<<r.ui.radio, r.ui.power>> # <<ui.radio, ui.power>>)
                    + B2N(ui.screen # "Settings" /\ r.ui.screen = "Settings")
    /\ UNCHANGED <<reading, ota, settingsVars, power, radioVars, wake, history>>

(***************************************************************************)
(* app_command_dispatch_task: watch, RTC memory, watch, power module.      *)
(***************************************************************************)
\* radio_settings::persist_settings and power::persistence::persist_settings.
Persisted(words, c) == [words EXCEPT !.radio = RadioWordOf(c.radio), !.power = PowerWordOf(c.power)]

\* power::set_settings: the atomics, and the countdown starts again.
set_settings(s) ==
    /\ power' = clamp_power_config(s)
    /\ left' = next_ui_idle_deadline_secs(s.predictive, TRUE, 0, left, clamp_power_config(s).idle)

DispatchApplies ==
    /\ commands # <<>>
    /\ LET c == Head(commands) IN
       /\ radioW' = [value |-> c.radio, fresh |-> TRUE]
       /\ rtc' = Persisted(rtc, c)
       /\ powerW' = c.power
       /\ set_settings(c.power)
       /\ stored' = [radio |-> c.radio, power |-> c.power]
    /\ commands' = Tail(commands)
    /\ history' = [history EXCEPT !.lateSave = @ \/ rxPc = "sampling"]
    /\ UNCHANGED <<displayVars, ota, quiet, radioVars, wake, uses, incidents>>

(***************************************************************************)
(* radio_433_rx_task.  It holds the radio's mutex from start to sampling.  *)
(***************************************************************************)
RadioFree == rxPc \notin {"sweeping", "sampling"}

RadioFault(happened) ==
    /\ Incidents(B2N(happened))
    /\ history' = [history EXCEPT !.fault = @ \/ happened]

\* The stored settings go on top of the RF profile.
RestoreSettings(r, fault) ==
    LET l == load_radio_settings(rtc.radio) IN
    IF ~l.ok THEN r
    ELSE apply_settings(r, l.value, IF fault \in SetterFaults THEN fault ELSE NoFault)

RxStartFails ==
    /\ rxPc = "start"
    /\ RadioFault(TRUE)
    /\ rxPc' = "dead"
    /\ UNCHANGED <<displayVars, commands, ota, settingsVars, powerVars, radio, setPc, wake, uses>>

\* A cold boot sweeps the candidates, a wake-up applies the stored profile.
RxStarts(fault) ==
    LET profile == load_rf_profile(rtc.rf, Len(Candidates))
        started == [radio EXCEPT !.rx = TRUE]
        tuned == IF ~profile.ok THEN started
                 ELSE apply_rf_profile(started, Candidates[profile.value + 1],
                                       IF fault \in ProfileFaults THEN fault.at ELSE "none")
    IN /\ rxPc = "start"
       /\ IF wake = "cold_boot"
          THEN rxPc' = "sweeping" /\ radio' = started /\ rtc' = rtc /\ fault = NoFault
          ELSE /\ rxPc' = "sampling"
               /\ radio' = RestoreSettings(tuned, fault)
               /\ rtc' = [rtc EXCEPT !.rf = profile.word]
       /\ RadioFault(fault # NoFault)
       /\ UNCHANGED <<displayVars, commands, ota, radioW, powerW, stored, powerVars, setPc, wake, uses>>

RxSweepEnds(fault) ==
    /\ rxPc = "sweeping"
    /\ \E outcome \in SweepPicks(radio, Candidates) :
          /\ radio' = RestoreSettings(outcome.radio, fault)
          /\ rtc' = [rtc EXCEPT !.rf = encode_rf_profile(outcome.index)]
    /\ RadioFault(fault # NoFault)
    /\ rxPc' = "sampling"
    /\ UNCHANGED <<displayVars, commands, ota, radioW, powerW, stored, powerVars, setPc, wake, uses>>

RxSweepFails ==
    /\ rxPc = "sweeping"
    /\ \E swept \in SweepFails(radio, Candidates, {f.at : f \in Faults \cap ProfileFaults}) :
          radio' = RestoreSettings(swept, NoFault)
    /\ RadioFault(TRUE)
    /\ rxPc' = "sampling"
    /\ UNCHANGED <<displayVars, commands, ota, settingsVars, powerVars, setPc, wake, uses>>

\* The settings read from the driver are published: over a later save, too.
RxSettles ==
    /\ rxPc = "sampling"
    /\ rxPc' = "capturing"
    /\ radioW' = [value |-> radio.cache, fresh |-> TRUE]
    /\ UNCHANGED <<displayVars, commands, ota, powerW, rtc, stored, powerVars, radio, setPc, wake, uses,
                   history, incidents>>

(***************************************************************************)
(* radio_433_settings_task.                                                *)
(***************************************************************************)
SettingsTaskWakes ==
    /\ setPc = "waiting" /\ radioW.fresh /\ ~RadioFree
    /\ setPc' = "locking"
    /\ radioW' = [radioW EXCEPT !.fresh = FALSE]
    /\ UNCHANGED <<displayVars, commands, ota, powerW, rtc, stored, powerVars, radio, rxPc, wake, uses,
                   history, incidents>>

SettingsTaskApplies(fault) ==
    /\ setPc = "locking" \/ radioW.fresh
    /\ RadioFree
    /\ setPc' = "waiting"
    /\ fault # NoFault => radioW.value[fault.field] # radio.cache[fault.field]
    /\ radio' = apply_pending_settings(radio, radioW.value, fault)
    /\ radioW' = [radioW EXCEPT !.fresh = FALSE]
    /\ RadioFault(fault # NoFault)
    /\ UNCHANGED <<displayVars, commands, ota, powerW, rtc, stored, powerVars, rxPc, wake, uses>>

(***************************************************************************)
(* The rest of the firmware, and the world.                                *)
(***************************************************************************)
ReadingArrives ==
    /\ rxPc = "capturing" /\ ota = "Inactive"
    /\ \E id \in Readings :
          reading' = [value |-> [id |-> id, threshold |-> radio.cache.threshold], fresh |-> TRUE]
    /\ reading'.value.id # reading.value.id
    /\ UNCHANGED <<ui, glass, events, commands, ota, settingsVars, powerVars, radioVars, wake, uses,
                   history, incidents>>

OtaSuccessors(s) ==
    CASE s = "Inactive" -> {"Downloading"}
      [] s = "PendingConfirmation" -> {"Downloading", "Inactive"}
      [] s = "Downloading" -> {"Applying", "Inactive"}
      [] s = "Applying" -> {"Inactive"}

OtaMoves ==
    /\ ota' \in OtaSuccessors(ota)
    /\ Incidents(B2N(ota' = "Downloading"))
    /\ UNCHANGED <<displayVars, commands, settingsVars, powerVars, radioVars, wake, uses, history>>

\* Time counts once there is a reading: before that no sleep is possible, and
\* the passing of time has no effect on the radio's set-up.  A tick is longer
\* than the handling of any event or command.
TimePasses ==
    /\ reading.value # NoReading
    /\ events = <<>> /\ commands = <<>>
    /\ left' = IF left > TickSecs THEN left - TickSecs ELSE 0
    /\ quiet' = Lower(quiet + TickSecs, IF power.idle > quiet THEN power.idle ELSE quiet)
    /\ UNCHANGED <<displayVars, commands, ota, settingsVars, power, radioVars, wake, uses, history, incidents>>

\* maybe_sleep_after_publish, after a fresh reading and with empty queues:
\* the device sleeps and boots, by its timer or by the button.
DeepSleep ==
    /\ reading.value # NoReading
    /\ ota = "Inactive"
    /\ predictive_sleep_allowed(TRUE, 0, power.predictive, 0, left)
    /\ Incidents(1)
    /\ \E class \in {"timer_wake", "ui_wake"} : BootedFrom(rtc, class)
    /\ ota' = "Inactive"
    /\ UNCHANGED stored

\* A reset by the OTA task or by a fault of the program keeps RTC memory.  It
\* may come between the two words of a save.
Restart ==
    /\ Incidents(1)
    /\ ota' \in {"Inactive", "PendingConfirmation"}
    /\ \/ BootedFrom(rtc, "cold_boot") /\ UNCHANGED stored
       \/ /\ commands # <<>>
          /\ BootedFrom([rtc EXCEPT !.radio = RadioWordOf(Head(commands).radio)], "cold_boot")
          /\ stored' = [stored EXCEPT !.radio = Head(commands).radio]

\* Power loss: RTC memory holds anything.
PowerLost ==
    /\ Incidents(1)
    /\ ota' = "Inactive"
    /\ \E words \in InitialRtc :
          BootedFrom(words, "cold_boot") /\ stored' = SettingsIn(words)

Next ==
    \/ \E event \in UiEvents : UiInput(event)
    \/ \E fault \in BOOLEAN : DisplayTicks(fault) \/ DisplayTakesReading(fault) \/ DisplayNavigates(fault)
    \/ DispatchApplies
    \/ RxStartFails
    \/ \E fault \in Faults \cup {NoFault} : RxStarts(fault)
    \/ \E fault \in (Faults \cap SetterFaults) \cup {NoFault} : RxSweepEnds(fault) \/ SettingsTaskApplies(fault)
    \/ RxSweepFails
    \/ RxSettles
    \/ SettingsTaskWakes
    \/ ReadingArrives
    \/ OtaMoves
    \/ TimePasses
    \/ DeepSleep
    \/ Restart
    \/ PowerLost

Spec == Init /\ [][Next]_vars

(***************************************************************************)
(* Properties.                                                             *)
(***************************************************************************)
\* Types, with the bounds of the settings wherever they are: a word out of
\* bounds or of an old version never gets past a load.
TypeOK ==
    /\ ui.screen \in {"Main", "Overview", "Settings"}
    /\ ui.radio \in RadioSettings /\ ui.power \in PowerSettings
    /\ events \in Seq(UiEvents) /\ Len(events) <= APP_EVENT_CHANNEL_DEPTH
    /\ Len(commands) <= APP_COMMAND_CHANNEL_DEPTH
    /\ \A i \in DOMAIN commands : commands[i].radio \in RadioSettings /\ commands[i].power \in PowerSettings
    /\ ota \in OtaState
    /\ radioW \in [value: RadioSettings, fresh: BOOLEAN]
    /\ powerW \in PowerSettings /\ power \in PowerSettings
    /\ left \in 0 .. IdleMax /\ quiet \in 0 .. IdleMax
    /\ rtc \in [radio: Word, power: Word, rf: Word]
    /\ radio.cache \in RadioSettings /\ radio.chip \in RadioSettings /\ radio.rx \in BOOLEAN
    /\ rxPc \in {"start", "sweeping", "sampling", "capturing", "dead"} /\ setPc \in {"waiting", "locking"}
    /\ wake \in {"cold_boot", "timer_wake", "ui_wake"}
    /\ uses \in Nat /\ incidents \in 0 .. MaxIncidents
    /\ stored.radio \in RadioSettings /\ stored.power \in PowerSettings

\* On the settings screen the selected item is drawn, inside the 64 rows of
\* the display, and an arrow tells whether there are further items.
SelectedRowOnGlass ==
    glass.kind = "Settings" =>
        LET s == ui.menu.view.selected IN
        /\ s \in DOMAIN glass.rows /\ glass.rows[s].selected
        /\ \A i \in DOMAIN glass.rows : glass.rows[i].y \in 24 .. 63
        /\ (glass.arrow = "None") = (DOMAIN glass.rows = 0 .. SaveIndex)

\* The screen shows the controller's state, the selected item of the settings
\* included: a frame is left alone only when drawing it would change nothing.
\* The key has no scroll offset and no row, so this rests on the pending
\* settings following the menu at every edit and on every change of the
\* selection being drawn.  An OTA message or a failed transfer may stay on the
\* screen instead.
GlassShowsController ==
    /\ \/ glass.kind \in {"Message", "Garbled"}
       \/ \E time \in Times : glass = Drawing(ui, time)
    /\ SelectedRowOnGlass

\* Once every task has come to rest, the chip, the driver's cache, the watch
\* and, if settings are stored, RTC memory hold the same radio settings and
\* the chip receives.  Not so after a failed SPI command, which nothing
\* repeats; nor, as to RTC memory, after a save during the final sampling of
\* the radio's set-up, which the set-up task overwrites in the watch.
SettledSettingsAgree ==
    (/\ rxPc = "capturing" /\ setPc = "waiting" /\ ~radioW.fresh /\ commands = <<>>
     /\ ~history.fault) =>
        /\ radio.cache = radioW.value /\ radio.chip = radioW.value /\ radio.rx
        /\ power = powerW
        /\ (~history.lateSave /\ load_radio_settings(rtc.radio).ok) =>
               load_radio_settings(rtc.radio).value = radioW.value

\* RTC memory gives back the settings last saved, each word on its own: over
\* deep sleep, a restart, and a restart between the two writes of a save.
StoredSettingsSurvive == SettingsIn(rtc) = stored

\* The device never goes to deep sleep within the configured idle timeout of
\* the last input the controller handled.
NoSleepWhileUsed ==
    [][DeepSleep => quiet >= power.idle]_vars

\* "Returns an optional status message for the display during OTA operations":
\* an iteration of the display task that takes a reading and finds no OTA
\* message to show leaves none on the screen.
OtaMessageOnlyDuringOta ==
    [][(display_message(ota) = "None" /\ DisplayTakesReading(FALSE)) => glass'.kind # "Message"]_vars
=============================================================================
