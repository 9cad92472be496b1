------------------------- MODULE DisplayController -------------------------
(***************************************************************************)
(* The controller behind the display task (firmware/src/tasks/display):    *)
(* which screen is up, the settings being edited, and the key that decides *)
(* whether the screen is drawn again.  All of it is a function of the      *)
(* controller's value, a record                                            *)
(*                                                                         *)
(*   screen   "Main", "Overview" or "Settings"                             *)
(*   reading  the last reading, or NoReading                               *)
(*   radio, power   the pending settings                                   *)
(*   menu     the settings menu                                            *)
(*   frame    the key of the last frame drawn, or NoFrame                  *)
(***************************************************************************)
EXTENDS RtcSchema, Menu

NoReading == [id |-> "none"]
NoFrame == [kind |-> "none"]
NoCommand == [kind |-> "none"]

\* The menu's items, in its order; the last one is Save.
SETTINGS_MENU_CAPACITY == 8
ItemCount == 7
SaveIndex == 7

\* The items with their bounds and steps: the radio's, the power policy's, Save.
RadioItems(radio) ==
    LET m1 == add(EmptyMenu, NumericItem(radio.threshold, 4, 16, 4), SETTINGS_MENU_CAPACITY)
        m2 == add(m1, NumericItem(radio.magn, 0, MAGN_TARGET_MAX, 1), SETTINGS_MENU_CAPACITY)
        m3 == add(m2, NumericItem(radio.bandwidth, 0, CHANNEL_BANDWIDTH_MAX_INDEX, 1), SETTINGS_MENU_CAPACITY)
    IN add(m3, NumericItem(radio.carrier, 0, CARRIER_SENSE_MAX, 1), SETTINGS_MENU_CAPACITY)

PowerItems(m4, power) ==
    LET m5 == add(m4, NumericItem(B2N(power.predictive), 0, 1, 1), SETTINGS_MENU_CAPACITY)
        m6 == add(m5, NumericItem(power.sleep, SleepMin, SleepMax, 1), SETTINGS_MENU_CAPACITY)
    IN add(m6, NumericItem(power.idle, IdleMin, IdleMax, 1), SETTINGS_MENU_CAPACITY)

build_settings_menu(radio, power) ==
    add(PowerItems(RadioItems(radio), power), ActionItem("Save"), SETTINGS_MENU_CAPACITY)

\* sync_pending_from_menu: the pending settings are the values of the items.
PendingRadio(menu) ==
    [threshold |-> menu.items[1].pending, magn |-> menu.items[2].pending,
     bandwidth |-> menu.items[3].pending, carrier |-> menu.items[4].pending]
PendingPower(menu) ==
    [predictive |-> menu.items[5].pending # 0, sleep |-> menu.items[6].pending,
     idle |-> menu.items[7].pending]

NewController(radio, power) ==
    LET menu == build_settings_menu(radio, power)
    IN [screen |-> "Main", reading |-> NoReading, radio |-> PendingRadio(menu),
        power |-> PendingPower(menu), menu |-> menu, frame |-> NoFrame]

(***************************************************************************)
(* Input events.                                                           *)
(***************************************************************************)
\* An edit left open is closed; the first item is selected.
reset_settings_menu_for_entry(menu) ==
    set_selected(IF menu.editing THEN menu_handle_event(menu, "Select").menu ELSE menu, 0)

\* Main and Overview alternate; Select opens the settings.
reduce_navigation(ui, event) ==
    IF event = "Select"
    THEN [ui EXCEPT !.screen = "Settings", !.menu = reset_settings_menu_for_entry(@)]
    ELSE [ui EXCEPT !.screen = IF @ = "Main" THEN "Overview" ELSE "Main"]

\* Slip: a changed value is not copied into the pending settings.
reduce_without_sync(ui, menu, what) ==
    IF what = "Save"
    THEN [ui EXCEPT !.menu = commit_all(menu), !.radio = clamp_radio_config(PendingRadio(menu)),
                    !.power = clamp_power_config(PendingPower(menu)), !.screen = "Overview"]
    ELSE [ui EXCEPT !.menu = menu]

\* The settings screen is left through Save and in no other way.
reduce_settings_menu(ui, menu, what) ==
    CASE what = "ValueChanged" ->
             [ui EXCEPT !.menu = menu, !.radio = PendingRadio(menu), !.power = PendingPower(menu)]
      [] what = "Save" ->
             [ui EXCEPT !.menu = commit_all(menu), !.radio = clamp_radio_config(PendingRadio(menu)),
                        !.power = clamp_power_config(PendingPower(menu)), !.screen = "Overview"]
      [] OTHER -> [ui EXCEPT !.menu = menu]

\* handle_event for a navigation event: the controller and its command.
Navigate(ui, event) ==
    IF ui.screen # "Settings"
    THEN [ui |-> reduce_navigation(ui, event), command |-> NoCommand]
    ELSE LET r == menu_handle_event(ui.menu, event)
             next == reduce_settings_menu(ui, r.menu, r.what)
         IN [ui |-> next,
             command |-> IF r.what = "Save"
                         THEN [kind |-> "ApplySettings", radio |-> next.radio, power |-> next.power]
                         ELSE NoCommand]

\* Outside the settings screen the pending settings follow the watches.
sync_from_watchers(ui, radio, power) ==
    IF ui.screen = "Settings" \/ (radio = ui.radio /\ power = ui.power) THEN ui
    ELSE [ui EXCEPT !.radio = radio, !.power = power,
                    !.menu = build_settings_menu(radio, power)]

(***************************************************************************)
(* Frames.  The key of a frame holds what it would show; a frame whose key *)
(* is the last one drawn is not drawn again.                               *)
(***************************************************************************)
ShownThreshold(ui) == IF ui.reading = NoReading THEN ui.radio.threshold ELSE ui.reading.threshold

derive_frame(ui, time) ==
    CASE ui.screen = "Main" /\ ui.reading = NoReading -> [kind |-> "Waiting"]
      [] ui.screen = "Main" /\ ui.reading # NoReading ->
             [kind |-> "Main", id |-> ui.reading.id, time |-> time]
      [] ui.screen = "Overview" ->
             [kind |-> "Overview", rssi |-> ui.reading.id, threshold |-> ShownThreshold(ui)]
      [] ui.screen = "Settings" ->
             [kind |-> "Settings", nav |-> ui.menu.view.selected, editing |-> ui.menu.editing,
              radio |-> ui.radio, power |-> ui.power]

\* What the screen shows once the frame is drawn.
MainDrawing(reading, time) == [kind |-> "Main", id |-> reading.id, time |-> time]

\* The overview does not draw the threshold it is given.
OverviewDrawing(reading) == [kind |-> "Overview", rssi |-> reading.id]

SettingsDrawing(menu) ==
    [kind |-> "Settings", rows |-> render_items(menu), arrow |-> scroll_indicator(menu)]

Drawing(ui, time) ==
    CASE ui.screen = "Main" /\ ui.reading = NoReading -> [kind |-> "Waiting"]
      [] ui.screen = "Main" /\ ui.reading # NoReading -> MainDrawing(ui.reading, time)
      [] ui.screen = "Overview" -> OverviewDrawing(ui.reading)
      [] ui.screen = "Settings" -> SettingsDrawing(ui.menu)

should_render(ui, key) == key # ui.frame
mark_rendered(ui, key) == [ui EXCEPT !.frame = key]
=============================================================================
