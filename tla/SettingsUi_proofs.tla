-------------------------- MODULE SettingsUi_proofs --------------------------
(***************************************************************************)
(* Proofs about SettingsUi, for any candidates, readings, RTC words, depths *)
(* and faults.                                                             *)
(***************************************************************************)
EXTENDS SettingsUi, RtcSchema_proofs

(***************************************************************************)
(* The menu.  Item i has the bounds of its setting, the last one is Save,  *)
(* and the selected item is among the four that are visible.               *)
(***************************************************************************)
Lo(i) == IF i = 1 THEN 4 ELSE IF i = 6 THEN 1 ELSE IF i = 7 THEN 5 ELSE 0
Hi(i) == IF i = 1 THEN 16 ELSE IF i \in {2, 4} THEN 7 ELSE IF i = 3 THEN 3
         ELSE IF i = 5 THEN 1 ELSE IF i = 6 THEN 59 ELSE 180
Step(i) == IF i = 1 THEN 4 ELSE 1
Values(i) == IF i = 1 THEN Thresholds ELSE Lo(i) .. Hi(i)

ItemAt(i) ==
    [kind: {"Numeric"}, current: Values(i), pending: Values(i), min: {Lo(i)}, max: {Hi(i)},
     step: {Step(i)}]
Item == (UNION {ItemAt(i) : i \in 1 .. 7}) \cup {ActionItem("Save")}

View == [header: {22}, itemHeight: {10}, maxVisible: {4}, offset: 0 .. 4, selected: 0 .. 7,
         total: 0 .. 8]

ItemsOK(items) ==
    /\ items \in Seq(Item) /\ Len(items) = 8
    /\ \A i \in 1 .. 7 : items[i] \in ItemAt(i)
    /\ items[8] = ActionItem("Save")
ViewOK(v) == v \in View /\ v.total = 8 /\ v.offset <= v.selected /\ v.selected < v.offset + 4
MenuOK(m) ==
    /\ DOMAIN m = {"items", "view", "editing"}
    /\ m.editing \in BOOLEAN /\ ItemsOK(m.items) /\ ViewOK(m.view)

\* The bounds are numbers in order.
LEMMA Bounds ==
    \A i \in 1 .. 7 : /\ Lo(i) \in Int /\ Hi(i) \in Int /\ Lo(i) <= Hi(i)
                      /\ Values(i) \subseteq Lo(i) .. Hi(i) /\ Step(i) \in {1, 4}
BY DEF Lo, Hi, Values, Thresholds, Step

\* A turn of the knob keeps the value of an item among those it may have.
LEMMA TurnKeeps ==
    ASSUME NEW i \in 1 .. 7, NEW it \in ItemAt(i)
    PROVE  increment(it) \in ItemAt(i) /\ decrement(it) \in ItemAt(i)
<1>0. /\ it = [kind |-> "Numeric", current |-> it.current, pending |-> it.pending, min |-> Lo(i),
               max |-> Hi(i), step |-> Step(i)]
      /\ it.current \in Values(i) /\ it.pending \in Values(i)
  BY DEF ItemAt
<1>1. /\ AtMost(it.pending + Step(i), Hi(i)) \in Values(i)
      /\ AtLeast(it.pending - Step(i), Lo(i)) \in Values(i)
  <2>1. CASE i = 1
    BY <1>0, <2>1 DEF Values, Thresholds, Step, Lo, Hi, AtMost, AtLeast
  <2>2. CASE i # 1
    BY <1>0, <2>2, Bounds DEF Values, Step, AtMost, AtLeast
  <2> QED
    BY <2>1, <2>2
<1>2. /\ increment(it) = [kind |-> "Numeric", current |-> it.current,
                          pending |-> AtMost(it.pending + Step(i), Hi(i)), min |-> Lo(i),
                          max |-> Hi(i), step |-> Step(i)]
      /\ decrement(it) = [kind |-> "Numeric", current |-> it.current,
                          pending |-> AtLeast(it.pending - Step(i), Lo(i)), min |-> Lo(i),
                          max |-> Hi(i), step |-> Step(i)]
  BY <1>0 DEF increment, decrement
<1> QED
  BY <1>0, <1>1, <1>2 DEF ItemAt

\* A new item shows the setting it is made of.
LEMMA NewItem ==
    ASSUME NEW i \in 1 .. 7, NEW x \in Values(i)
    PROVE  /\ NumericItem(x, Lo(i), Hi(i), Step(i)) \in ItemAt(i)
           /\ NumericItem(x, Lo(i), Hi(i), Step(i)).pending = x
<1>1. Within(x, Lo(i), Hi(i)) = x
  BY Bounds DEF Within, AtLeast, AtMost
<1> QED
  BY <1>1 DEF NumericItem, ItemAt

(***************************************************************************)
(* The viewport.                                                           *)
(***************************************************************************)
\* Selecting keeps the selected item visible, and does not scroll when the
\* selection stays.
LEMMA SelectShows ==
    ASSUME NEW v, ViewOK(v), NEW i \in Nat
    PROVE  /\ ViewOK(select(v, i))
           /\ select(v, i).selected = v.selected => select(v, i) = v
<1> DEFINE s == AtMost(i, 7)
           moved == IF s < v.offset THEN s ELSE IF s >= v.offset + 4 THEN AtLeast(s - 3, 0) ELSE v.offset
           o == AtMost(moved, 4)
<1>0. /\ v = [header |-> 22, itemHeight |-> 10, maxVisible |-> 4, offset |-> v.offset,
              selected |-> v.selected, total |-> 8]
      /\ v.offset \in 0 .. 4 /\ v.selected \in 0 .. 7
      /\ v.offset <= v.selected /\ v.selected < v.offset + 4
  BY DEF ViewOK, View
<1>1. /\ s \in 0 .. 7 /\ o \in 0 .. 4 /\ o <= s /\ s < o + 4
      /\ s = v.selected => o = v.offset
  BY <1>0 DEF AtMost, AtLeast
<1>2. select(v, i) = [header |-> 22, itemHeight |-> 10, maxVisible |-> 4, offset |-> o,
                      selected |-> s, total |-> 8]
  <2> DEFINE w == [header |-> 22, itemHeight |-> 10, maxVisible |-> 4, offset |-> v.offset,
                   selected |-> s, total |-> 8]
  <2>1. select(v, i) = ensure_visible(w)
    BY <1>0 DEF select
  <2>2. AtLeast(8 - 4, 0) = 4 /\ s - (4 - 1) = s - 3
    BY <1>1 DEF AtLeast
  <2> HIDE DEF s
  <2>3. ensure_visible(w) = [w EXCEPT !.offset = o]
    BY <2>2 DEF ensure_visible
  <2> QED
    BY <2>1, <2>3
<1> HIDE DEF s, o
<1> QED
  BY <1>0, <1>1, <1>2 DEF ViewOK, View

(***************************************************************************)
(* The menu is built item by item.                                         *)
(***************************************************************************)
NewView(v, n) == v \in View /\ v.offset = 0 /\ v.selected = 0 /\ v.total = n
Partial(m, n) ==
    /\ DOMAIN m = {"items", "view", "editing"} /\ m.editing = FALSE /\ NewView(m.view, n)
    /\ m.items \in Seq(Item) /\ Len(m.items) = n

\* What set_total_items does with some items.
LEMMA TotalItems ==
    ASSUME NEW v, NEW k, k # 0
    PROVE  set_total_items(v, k) =
             ensure_visible([v EXCEPT !.total = k, !.selected = AtMost(v.selected, k - 1)])
BY DEF set_total_items

\* One more item fits.
LEMMA Added ==
    ASSUME NEW m, NEW k \in 1 .. 8, Partial(m, k - 1), NEW it \in Item
    PROVE  /\ Partial(add(m, it, SETTINGS_MENU_CAPACITY), k)
           /\ add(m, it, SETTINGS_MENU_CAPACITY).items[k] = it
           /\ \A i \in 1 .. k - 1 : add(m, it, SETTINGS_MENU_CAPACITY).items[i] = m.items[i]
<1>1. ASSUME NEW v, NewView(v, k - 1)
      PROVE  NewView(set_total_items(v, k), k)
  <2>1. k # 0 /\ AtMost(0, k - 1) = 0 /\ AtMost(0, AtLeast(k - 4, 0)) = 0
    BY DEF AtMost, AtLeast
  <2> DEFINE u == [v EXCEPT !.total = k]
             w == [u EXCEPT !.selected = 0]
  <2>2. set_total_items(v, k) = ensure_visible(w)
    <3>1. AtMost(v.selected, k - 1) = 0
      BY <1>1, <2>1 DEF NewView
    <3> QED
      BY <2>1, <3>1, TotalItems
  <2>3. NewView(u, k)
    BY <1>1 DEF NewView, View
  <2> HIDE DEF u
  <2>4. NewView(w, k)
    BY <2>3 DEF NewView, View
  <2> HIDE DEF w
  <2>5. ensure_visible(w) = [w EXCEPT !.offset = 0]
    BY <2>1, <2>4 DEF ensure_visible, NewView, View
  <2> QED
    BY <2>2, <2>4, <2>5 DEF NewView, View
<1>2. /\ Append(m.items, it) \in Seq(Item) /\ Len(Append(m.items, it)) = k
      /\ Append(m.items, it)[k] = it
      /\ \A i \in 1 .. k - 1 : Append(m.items, it)[i] = m.items[i]
  BY DEF Partial
<1>3. NewView(set_total_items(m.view, k), k)
  BY <1>1 DEF Partial
<1>4. ~(Len(m.items) >= SETTINGS_MENU_CAPACITY) /\ Len(m.items) + 1 = k /\ m.editing = FALSE
  BY DEF Partial, SETTINGS_MENU_CAPACITY
<1>5. add(m, it, SETTINGS_MENU_CAPACITY) =
        [items |-> Append(m.items, it), view |-> set_total_items(m.view, k), editing |-> FALSE]
  <2>1. add(m, it, SETTINGS_MENU_CAPACITY) =
          [items |-> Append(m.items, it), view |-> set_total_items(m.view, Len(m.items) + 1),
           editing |-> m.editing]
    BY <1>4, Zenon DEF add
  <2> QED
    BY <1>4, <2>1, Zenon
<1> QED
  BY <1>2, <1>3, <1>5 DEF Partial

\* The menu that is built is in order and shows the settings it is built from.
LEMMA Built ==
    ASSUME NEW r \in RadioSettings, NEW p \in PowerSettings
    PROVE  /\ MenuOK(build_settings_menu(r, p))
           /\ PendingRadio(build_settings_menu(r, p)) = r
           /\ PendingPower(build_settings_menu(r, p)) = p
<1> DEFINE C == SETTINGS_MENU_CAPACITY
           i1 == NumericItem(r.threshold, 4, 16, 4)
           i2 == NumericItem(r.magn, 0, MAGN_TARGET_MAX, 1)
           i3 == NumericItem(r.bandwidth, 0, CHANNEL_BANDWIDTH_MAX_INDEX, 1)
           i4 == NumericItem(r.carrier, 0, CARRIER_SENSE_MAX, 1)
           i5 == NumericItem(B2N(p.predictive), 0, 1, 1)
           i6 == NumericItem(p.sleep, SleepMin, SleepMax, 1)
           i7 == NumericItem(p.idle, IdleMin, IdleMax, 1)
           i8 == ActionItem("Save")
           m1 == add(EmptyMenu, i1, C)
           m2 == add(m1, i2, C)
           m3 == add(m2, i3, C)
           m4 == add(m3, i4, C)
           m5 == add(m4, i5, C)
           m6 == add(m5, i6, C)
           m7 == add(m6, i7, C)
           m8 == add(m7, i8, C)
<1>b. build_settings_menu(r, p) = m8
  BY Zenon DEF build_settings_menu, PowerItems, RadioItems
<1>i. /\ i1 \in ItemAt(1) /\ i1.pending = r.threshold
      /\ i2 \in ItemAt(2) /\ i2.pending = r.magn
      /\ i3 \in ItemAt(3) /\ i3.pending = r.bandwidth
      /\ i4 \in ItemAt(4) /\ i4.pending = r.carrier
      /\ i5 \in ItemAt(5) /\ i5.pending = B2N(p.predictive)
      /\ i6 \in ItemAt(6) /\ i6.pending = p.sleep
      /\ i7 \in ItemAt(7) /\ i7.pending = p.idle
  <2> USE DEF Lo, Hi, Step, Values
  <2>r. /\ r.threshold \in Thresholds /\ r.magn \in 0 .. 7 /\ r.bandwidth \in 0 .. 3
        /\ r.carrier \in 0 .. 7 /\ B2N(p.predictive) \in 0 .. 1 /\ p.sleep \in 1 .. 59
        /\ p.idle \in 5 .. 180
    BY DEF RadioSettings, PowerSettings, MAGN_TARGET_MAX, CHANNEL_BANDWIDTH_MAX_INDEX,
           CARRIER_SENSE_MAX, B2N, SleepMin, SleepMax, IdleMin, IdleMax
  <2>1. i1 \in ItemAt(1) /\ i1.pending = r.threshold
    BY <2>r, NewItem
  <2>2. i2 \in ItemAt(2) /\ i2.pending = r.magn
    BY <2>r, NewItem DEF MAGN_TARGET_MAX
  <2>3. i3 \in ItemAt(3) /\ i3.pending = r.bandwidth
    BY <2>r, NewItem DEF CHANNEL_BANDWIDTH_MAX_INDEX
  <2>4. i4 \in ItemAt(4) /\ i4.pending = r.carrier
    BY <2>r, NewItem DEF CARRIER_SENSE_MAX
  <2>5. i5 \in ItemAt(5) /\ i5.pending = B2N(p.predictive)
    BY <2>r, NewItem
  <2>6. i6 \in ItemAt(6) /\ i6.pending = p.sleep
    BY <2>r, NewItem DEF SleepMin, SleepMax
  <2>7. i7 \in ItemAt(7) /\ i7.pending = p.idle
    BY <2>r, NewItem DEF IdleMin, IdleMax
  <2> QED
    BY <2>1, <2>2, <2>3, <2>4, <2>5, <2>6, <2>7
<1> HIDE DEF i1, i2, i3, i4, i5, i6, i7
<1>s. {i1, i2, i3, i4, i5, i6, i7, i8} \subseteq Item
  <2>1. {i1, i2, i3, i4, i5, i6, i7} \subseteq UNION {ItemAt(i) : i \in 1 .. 7}
    BY <1>i
  <2> QED
    BY <2>1 DEF Item
<1>0. Partial(EmptyMenu, 0)
  <2>1. NewView(ScrollableViewport, 0)
    BY DEF ScrollableViewport, with_metrics, AtLeast, NewView, View
  <2> QED
    BY <2>1 DEF Partial, EmptyMenu
<1> HIDE DEF i8
<1>1. Partial(m1, 1) /\ m1.items[1] = i1
  BY <1>0, <1>s, Added
<1> HIDE DEF m1
<1>2. Partial(m2, 2) /\ m2.items[2] = i2 /\ \A i \in 1 .. 1 : m2.items[i] = m1.items[i]
  BY <1>1, <1>s, Added
<1> HIDE DEF m2
<1>3. Partial(m3, 3) /\ m3.items[3] = i3 /\ \A i \in 1 .. 2 : m3.items[i] = m2.items[i]
  BY <1>2, <1>s, Added
<1> HIDE DEF m3
<1>4. Partial(m4, 4) /\ m4.items[4] = i4 /\ \A i \in 1 .. 3 : m4.items[i] = m3.items[i]
  BY <1>3, <1>s, Added
<1> HIDE DEF m4
<1>5. Partial(m5, 5) /\ m5.items[5] = i5 /\ \A i \in 1 .. 4 : m5.items[i] = m4.items[i]
  BY <1>4, <1>s, Added
<1> HIDE DEF m5
<1>6. Partial(m6, 6) /\ m6.items[6] = i6 /\ \A i \in 1 .. 5 : m6.items[i] = m5.items[i]
  BY <1>5, <1>s, Added
<1> HIDE DEF m6
<1>7. Partial(m7, 7) /\ m7.items[7] = i7 /\ \A i \in 1 .. 6 : m7.items[i] = m6.items[i]
  BY <1>6, <1>s, Added
<1> HIDE DEF m7
<1>8. Partial(m8, 8) /\ m8.items[8] = i8 /\ \A i \in 1 .. 7 : m8.items[i] = m7.items[i]
  BY <1>7, <1>s, Added
<1> HIDE DEF m8
<1>9. /\ m8.items[1] = i1 /\ m8.items[2] = i2 /\ m8.items[3] = i3 /\ m8.items[4] = i4
      /\ m8.items[5] = i5 /\ m8.items[6] = i6 /\ m8.items[7] = i7
  BY <1>1, <1>2, <1>3, <1>4, <1>5, <1>6, <1>7, <1>8
<1>10. MenuOK(m8)
  <2>1. \A i \in 1 .. 7 : m8.items[i] \in ItemAt(i)
    BY <1>i, <1>9
  <2>2. ItemsOK(m8.items)
    BY <1>8, <2>1 DEF Partial, ItemsOK, i8
  <2>3. ViewOK(m8.view)
    BY <1>8 DEF Partial, ViewOK, View, NewView
  <2> QED
    BY <1>8, <2>2, <2>3 DEF Partial, MenuOK
<1>11. PendingRadio(m8) = r
  BY <1>i, <1>9 DEF PendingRadio, RadioSettings
<1>12. PendingPower(m8) = p
  <2>1. /\ p = [predictive |-> p.predictive, sleep |-> p.sleep, idle |-> p.idle]
        /\ p.predictive \in BOOLEAN
    BY DEF PowerSettings
  <2>2. (B2N(p.predictive) # 0) = p.predictive
    BY <2>1 DEF B2N
  <2> QED
    BY <1>i, <1>9, <2>1, <2>2 DEF PendingPower
<1> QED
  BY <1>b, <1>10, <1>11, <1>12

(***************************************************************************)
(* Input to the menu.                                                      *)
(***************************************************************************)
Outcome == {"NoOp", "ValueChanged", "SelectionChanged", "EditStarted", "EditCompleted", "Save"}

\* What an event makes of menu m: a menu in order, the items changed only by a
\* change of value, scrolled only with the selection.
Follows(r, m) ==
    /\ MenuOK(r.menu) /\ r.what \in Outcome
    /\ r.what # "ValueChanged" => r.menu.items = m.items
    /\ r.menu.view.selected = m.view.selected => r.menu.view = m.view

\* The selected item is a numeric one or Save.
LEMMA SelectedItem ==
    ASSUME NEW m, MenuOK(m)
    PROVE  LET k == m.view.selected + 1 IN
           /\ k \in 1 .. 8 /\ Selected(m) = m.items[k]
           /\ k \in 1 .. 7 => Selected(m) \in ItemAt(k) /\ is_editable(Selected(m))
           /\ k = 8 => Selected(m) = ActionItem("Save") /\ ~is_editable(Selected(m))
<1>1. m.view.selected \in 0 .. 7 /\ ItemsOK(m.items)
  BY DEF MenuOK, ViewOK, View
<1>2. \A i \in 1 .. 7 : \A it \in ItemAt(i) : it.kind = "Numeric"
  BY DEF ItemAt
<1>3. ActionItem("Save").kind # "Numeric"
  BY DEF ActionItem
<1> DEFINE k == m.view.selected + 1
           it == m.items[k]
<1>4. k \in 1 .. 8 /\ Selected(m) = it
  BY <1>1 DEF Selected
<1>5. k \in 1 .. 7 => it \in ItemAt(k)
  BY <1>1 DEF ItemsOK
<1>6. k = 8 => it = ActionItem("Save")
  BY <1>1 DEF ItemsOK
<1> HIDE DEF k, it
<1>7. /\ k \in 1 .. 7 => it \in ItemAt(k) /\ is_editable(it)
      /\ k = 8 => it = ActionItem("Save") /\ ~is_editable(it)
  BY <1>2, <1>3, <1>5, <1>6 DEF is_editable
<1> QED
  BY <1>4, <1>7 DEF k, it

\* An edit of the selected item.
LEMMA EditKeeps ==
    ASSUME NEW m, MenuOK(m), NEW item, m.view.selected + 1 \in 1 .. 7,
           item \in ItemAt(m.view.selected + 1)
    PROVE  Follows(EditValue(m, item), m)
<1> DEFINE k == m.view.selected + 1
           n == [m EXCEPT !.items[k] = item]
<1>0. /\ DOMAIN m = {"items", "view", "editing"} /\ m.editing \in BOOLEAN /\ ItemsOK(m.items)
      /\ ViewOK(m.view) /\ k \in 1 .. 7 /\ item \in ItemAt(k)
  BY DEF MenuOK
<1>1. CASE Selected(m) = item
  <2>1. EditValue(m, item) = [menu |-> m, what |-> "NoOp"]
    BY <1>1 DEF EditValue, NoOp
  <2> QED
    BY <2>1 DEF Follows, Outcome
<1>2. CASE Selected(m) # item
  <2>1. EditValue(m, item) = [menu |-> n, what |-> "ValueChanged"]
    BY <1>2, Zenon DEF EditValue
  <2> HIDE DEF k
  <2>2. /\ DOMAIN n = {"items", "view", "editing"} /\ n.view = m.view /\ n.editing = m.editing
        /\ n.items = [m.items EXCEPT ![k] = item]
    BY <1>0
  <2> HIDE DEF n
  <2>3. ItemsOK(n.items)
    <3>1. item \in Item
      BY <1>0 DEF Item
    <3>2. n.items \in Seq(Item) /\ Len(n.items) = 8 /\ n.items[k] = item
      BY <1>0, <2>2, <3>1 DEF ItemsOK
    <3>3. \A i \in 1 .. 8 : i # k => n.items[i] = m.items[i]
      BY <1>0, <2>2 DEF ItemsOK
    <3> QED
      BY <1>0, <3>2, <3>3 DEF ItemsOK
  <2> QED
    BY <1>0, <2>1, <2>2, <2>3 DEF Follows, MenuOK, Outcome
<1> QED
  BY <1>1, <1>2

\* A move of the selection.
LEMMA MoveKeeps ==
    ASSUME NEW m, MenuOK(m), NEW i \in Nat
    PROVE  Follows(MoveTo(m, select(m.view, i)), m)
<1> DEFINE v == select(m.view, i)
           n == [m EXCEPT !.view = v]
<1>1. ViewOK(v) /\ (v.selected = m.view.selected => v = m.view)
  BY SelectShows DEF MenuOK
<1>2. /\ MoveTo(m, v).menu = n /\ MoveTo(m, v).what \in Outcome
      /\ MoveTo(m, v).what # "ValueChanged"
  BY DEF MoveTo, Outcome
<1> HIDE DEF v
<1>3. /\ DOMAIN n = {"items", "view", "editing"} /\ n.view = v /\ n.items = m.items
      /\ n.editing = m.editing
  BY DEF MenuOK
<1> HIDE DEF n
<1>4. Follows(MoveTo(m, v), m)
  BY <1>1, <1>2, <1>3 DEF Follows, MenuOK
<1> QED
  BY <1>4 DEF v

\* Every event leaves the menu in order.
LEMMA MenuEvent ==
    ASSUME NEW m, MenuOK(m), NEW e \in UiEvents
    PROVE  Follows(menu_handle_event(m, e), m)
<1> DEFINE k == m.view.selected + 1
<1>0. /\ k \in 1 .. 8 /\ m.view.selected \in 0 .. 7
      /\ k \in 1 .. 7 => Selected(m) \in ItemAt(k) /\ is_editable(Selected(m))
      /\ k = 8 => Selected(m) = ActionItem("Save") /\ ~is_editable(Selected(m))
  BY SelectedItem DEF MenuOK, ViewOK, View
<1>n. Follows(NoOp(m), m)
  BY DEF NoOp, Follows, Outcome
<1>1. Follows(on_next(m), m)
  <2>1. CASE m.editing /\ is_editable(Selected(m))
    <3>1. k \in 1 .. 7 /\ increment(Selected(m)) \in ItemAt(k)
      BY <1>0, <2>1, TurnKeeps
    <3>2. Follows(EditValue(m, increment(Selected(m))), m)
      BY <3>1, EditKeeps
    <3> QED
      BY <2>1, <3>2, Zenon DEF on_next
  <2>2. CASE m.editing /\ ~is_editable(Selected(m))
    BY <1>n, <2>2, Zenon DEF on_next
  <2>3. CASE ~m.editing
    <3>1. Follows(MoveTo(m, select(m.view, m.view.selected + 1)), m)
      BY <1>0, MoveKeeps
    <3> QED
      BY <2>3, <3>1, Zenon DEF on_next, select_next
  <2> QED
    BY <2>1, <2>2, <2>3, Zenon
<1>2. Follows(on_prev(m), m)
  <2>1. CASE m.editing /\ is_editable(Selected(m))
    <3>1. k \in 1 .. 7 /\ decrement(Selected(m)) \in ItemAt(k)
      BY <1>0, <2>1, TurnKeeps
    <3>2. Follows(EditValue(m, decrement(Selected(m))), m)
      BY <3>1, EditKeeps
    <3> QED
      BY <2>1, <3>2, Zenon DEF on_prev
  <2>2. CASE m.editing /\ ~is_editable(Selected(m))
    BY <1>n, <2>2, Zenon DEF on_prev
  <2>3. CASE ~m.editing
    <3>1. AtLeast(m.view.selected - 1, 0) \in Nat
      BY <1>0 DEF AtLeast
    <3>2. Follows(MoveTo(m, select(m.view, AtLeast(m.view.selected - 1, 0))), m)
      BY <3>1, MoveKeeps
    <3> QED
      BY <2>3, <3>2, Zenon DEF on_prev, select_prev
  <2> QED
    BY <2>1, <2>2, <2>3, Zenon
<1>3. Follows(on_select(m), m)
  <2>1. CASE k = 8
    <3>1. on_select(m) = [menu |-> m, what |-> "Save"]
      BY <1>0, <2>1 DEF on_select, ActionItem
    <3> QED
      BY <3>1 DEF Follows, Outcome
  <2>2. CASE k \in 1 .. 7
    <3> DEFINE n == [m EXCEPT !.editing = ~m.editing]
    <3>1. /\ on_select(m).menu = n
          /\ on_select(m).what \in {"EditStarted", "EditCompleted"}
      BY <1>0, <2>2 DEF on_select
    <3>2. /\ DOMAIN n = {"items", "view", "editing"} /\ n.view = m.view /\ n.items = m.items
          /\ n.editing = ~m.editing
      BY DEF MenuOK
    <3> HIDE DEF n
    <3> QED
      BY <3>1, <3>2 DEF Follows, Outcome, MenuOK
  <2> QED
    BY <1>0, <2>1, <2>2
<1>4. m.items # <<>>
  BY DEF MenuOK, ItemsOK
<1> QED
  BY <1>1, <1>2, <1>3, <1>4 DEF menu_handle_event, UiEvents

\* Opening the settings selects the first item and changes no value.
LEMMA MenuEntry ==
    ASSUME NEW m, MenuOK(m)
    PROVE  /\ MenuOK(reset_settings_menu_for_entry(m))
           /\ reset_settings_menu_for_entry(m).items = m.items
<1> DEFINE n == IF m.editing THEN menu_handle_event(m, "Select").menu ELSE m
<1>1. MenuOK(n) /\ n.items = m.items
  <2>1. Follows(menu_handle_event(m, "Select"), m)
    BY MenuEvent DEF UiEvents
  <2>2. menu_handle_event(m, "Select").what # "ValueChanged"
    <3>1. menu_handle_event(m, "Select") = on_select(m)
      BY DEF menu_handle_event, MenuOK, ItemsOK
    <3>2. on_select(m).what # "ValueChanged"
      BY SelectedItem DEF on_select, ActionItem
    <3> QED
      BY <3>1, <3>2
  <2> QED
    BY <2>1, <2>2 DEF Follows
<1> HIDE DEF n
<1> DEFINE view == select(n.view, 0)
           q == [n EXCEPT !.view = view, !.editing = n.editing /\ view.selected = n.view.selected]
<1>2. reset_settings_menu_for_entry(m) = q
  BY Zenon DEF reset_settings_menu_for_entry, set_selected, n
<1>3. ViewOK(view)
  BY <1>1, SelectShows DEF MenuOK
<1> HIDE DEF view
<1>4. /\ DOMAIN q = {"items", "view", "editing"} /\ q.view = view /\ q.items = n.items
      /\ q.editing = (n.editing /\ view.selected = n.view.selected)
  BY <1>1 DEF MenuOK
<1> HIDE DEF q
<1> QED
  BY <1>1, <1>2, <1>3, <1>4 DEF MenuOK

(***************************************************************************)
(* The controller.  Its pending settings are those its menu shows.         *)
(***************************************************************************)
Command == [kind: {"ApplySettings"}, radio: RadioSettings, power: PowerSettings]
Screens == {"Main", "Overview", "Settings"}
UiOK(u) ==
    /\ DOMAIN u = {"screen", "reading", "radio", "power", "menu", "frame"}
    /\ u.screen \in Screens /\ MenuOK(u.menu)
    /\ u.radio = PendingRadio(u.menu) /\ u.power = PendingPower(u.menu)

\* The values of the items are settings within bounds.
LEMMA PendingInBounds ==
    ASSUME NEW m, MenuOK(m)
    PROVE  PendingRadio(m) \in RadioSettings /\ PendingPower(m) \in PowerSettings
<1>1. \A i \in 1 .. 7 : m.items[i] \in ItemAt(i)
  BY DEF MenuOK, ItemsOK
<1>2. \A i \in 1 .. 7 : \A it \in ItemAt(i) : it.pending \in Values(i)
  BY DEF ItemAt
<1>3. \A i \in 1 .. 7 : m.items[i].pending \in Values(i)
  BY <1>1, <1>2
<1>4. /\ m.items[1].pending \in Thresholds /\ m.items[2].pending \in 0 .. 7
      /\ m.items[3].pending \in 0 .. 3 /\ m.items[4].pending \in 0 .. 7
      /\ m.items[6].pending \in 1 .. 59 /\ m.items[7].pending \in 5 .. 180
  <2>1. /\ Values(1) = Thresholds /\ Values(2) = 0 .. 7 /\ Values(3) = 0 .. 3
        /\ Values(4) = 0 .. 7 /\ Values(6) = 1 .. 59 /\ Values(7) = 5 .. 180
    BY DEF Values, Lo, Hi
  <2> QED
    BY <1>3, <2>1
<1> QED
  BY <1>4 DEF PendingRadio, PendingPower, RadioSettings, PowerSettings, MAGN_TARGET_MAX,
     CHANNEL_BANDWIDTH_MAX_INDEX, CARRIER_SENSE_MAX, SleepMin, SleepMax, IdleMin, IdleMax

\* Saving commits the values without changing any of them.
LEMMA Committed ==
    ASSUME NEW m, MenuOK(m)
    PROVE  /\ MenuOK(commit_all(m)) /\ PendingRadio(commit_all(m)) = PendingRadio(m)
           /\ PendingPower(commit_all(m)) = PendingPower(m)
<1> DEFINE old == m.items
           items == [i \in DOMAIN old |-> commit(old[i])]
           n == [m EXCEPT !.items = items]
<1>1. commit_all(m) = n
  BY Zenon DEF commit_all
<1>2. old \in Seq(Item) /\ Len(old) = 8 /\ DOMAIN old = 1 .. 8
  BY DEF MenuOK, ItemsOK
<1>3. ASSUME NEW i \in 1 .. 7
      PROVE  commit(old[i]) \in ItemAt(i) /\ commit(old[i]).pending = old[i].pending
  <2>1. old[i] \in ItemAt(i)
    BY DEF MenuOK, ItemsOK
  <2> HIDE DEF old
  <2>2. commit(old[i]) = [old[i] EXCEPT !.current = old[i].pending]
    BY <2>1 DEF commit, is_editable, ItemAt
  <2> QED
    BY <2>1, <2>2 DEF ItemAt
<1>4. commit(old[8]) = ActionItem("Save")
  BY DEF MenuOK, ItemsOK, commit, is_editable, ActionItem
<1>5. ASSUME NEW i \in 1 .. 8 PROVE commit(old[i]) \in Item
  BY <1>3, <1>4 DEF Item
<1> HIDE DEF old
<1>6. items \in Seq(Item) /\ Len(items) = 8 /\ \A i \in 1 .. 8 : items[i] = commit(old[i])
  BY <1>2, <1>5
<1> HIDE DEF items
<1>7. ItemsOK(items)
  BY <1>3, <1>4, <1>6 DEF ItemsOK
<1>8. /\ DOMAIN n = {"items", "view", "editing"} /\ n.items = items /\ n.view = m.view
      /\ n.editing = m.editing
  BY DEF MenuOK
<1> HIDE DEF n
<1>9. MenuOK(n)
  BY <1>7, <1>8 DEF MenuOK
<1>10. \A i \in 1 .. 7 : n.items[i].pending = m.items[i].pending
  BY <1>3, <1>6, <1>8 DEF old
<1> QED
  BY <1>1, <1>9, <1>10 DEF PendingRadio, PendingPower

\* The controller after a boot.
LEMMA NewUi ==
    ASSUME NEW r \in RadioSettings, NEW p \in PowerSettings
    PROVE  LET u == NewController(r, p) IN
           /\ UiOK(u) /\ u.radio = r /\ u.power = p /\ u.screen = "Main"
           /\ u.reading = NoReading /\ u.frame = NoFrame
<1> DEFINE menu == build_settings_menu(r, p)
<1>1. MenuOK(menu) /\ PendingRadio(menu) = r /\ PendingPower(menu) = p
  BY Built
<1>2. NewController(r, p) =
        [screen |-> "Main", reading |-> NoReading, radio |-> PendingRadio(menu),
         power |-> PendingPower(menu), menu |-> menu, frame |-> NoFrame]
  BY Zenon DEF NewController
<1> HIDE DEF menu
<1> QED
  BY <1>1, <1>2 DEF UiOK, Screens

\* What an event makes of controller u: one in order, with the same reading and
\* frame, scrolled only with the selection; a command has settings in bounds.
NavigatesTo(r, u) ==
    /\ UiOK(r.ui) /\ r.ui.reading = u.reading /\ r.ui.frame = u.frame
    /\ \/ r.command = NoCommand
       \/ r.command \in Command
    /\ (/\ u.screen = "Settings" /\ r.ui.screen = "Settings"
        /\ r.ui.menu.view.selected = u.menu.view.selected) => r.ui.menu.view = u.menu.view

\* A knob or button event in any state of the controller ends as NavigatesTo says.
LEMMA Navigated ==
    ASSUME NEW u, UiOK(u), NEW e \in UiEvents
    PROVE  NavigatesTo(Navigate(u, e), u)
<1>0. /\ DOMAIN u = {"screen", "reading", "radio", "power", "menu", "frame"}
      /\ u.screen \in Screens /\ MenuOK(u.menu)
      /\ u.radio = PendingRadio(u.menu) /\ u.power = PendingPower(u.menu)
  BY DEF UiOK
<1>p. ASSUME NEW m, NEW n, m.items = n.items
      PROVE  PendingRadio(m) = PendingRadio(n) /\ PendingPower(m) = PendingPower(n)
  BY <1>p DEF PendingRadio, PendingPower
<1>1. CASE u.screen # "Settings"
  <2> DEFINE w == reduce_navigation(u, e)
  <2>1. Navigate(u, e) = [ui |-> w, command |-> NoCommand]
    BY <1>1, Zenon DEF Navigate
  <2>2. UiOK(w) /\ w.reading = u.reading /\ w.frame = u.frame
    <3>1. CASE e = "Select"
      <4> DEFINE n == reset_settings_menu_for_entry(u.menu)
                 x == [u EXCEPT !.screen = "Settings", !.menu = n]
      <4>1. w = x
        BY <3>1, Zenon DEF reduce_navigation
      <4>2. MenuOK(n) /\ PendingRadio(n) = u.radio /\ PendingPower(n) = u.power
        BY <1>0, <1>p, MenuEntry
      <4> HIDE DEF n
      <4>3. /\ DOMAIN x = {"screen", "reading", "radio", "power", "menu", "frame"}
            /\ x.screen = "Settings" /\ x.menu = n /\ x.radio = u.radio /\ x.power = u.power
            /\ x.reading = u.reading /\ x.frame = u.frame
        BY <1>0
      <4> HIDE DEF x
      <4> QED
        BY <4>1, <4>2, <4>3 DEF UiOK, Screens
    <3>2. CASE e # "Select"
      <4> DEFINE s == IF u.screen = "Main" THEN "Overview" ELSE "Main"
                 x == [u EXCEPT !.screen = s]
      <4>1. w = x
        BY <3>2, Zenon DEF reduce_navigation
      <4>2. s \in Screens
        BY DEF Screens
      <4> HIDE DEF s
      <4>3. /\ DOMAIN x = {"screen", "reading", "radio", "power", "menu", "frame"}
            /\ x.screen = s /\ x.menu = u.menu /\ x.radio = u.radio /\ x.power = u.power
            /\ x.reading = u.reading /\ x.frame = u.frame
        BY <1>0
      <4> HIDE DEF x
      <4> QED
        BY <1>0, <4>1, <4>2, <4>3 DEF UiOK
    <3> QED
      BY <3>1, <3>2
  <2> HIDE DEF w
  <2> QED
    BY <1>1, <2>1, <2>2 DEF NavigatesTo
<1>2. CASE u.screen = "Settings"
  <2> DEFINE r == menu_handle_event(u.menu, e)
             w == reduce_settings_menu(u, r.menu, r.what)
             c == IF r.what = "Save"
                  THEN [kind |-> "ApplySettings", radio |-> w.radio, power |-> w.power]
                  ELSE NoCommand
  <2>1. Navigate(u, e) = [ui |-> w, command |-> c]
    BY <1>2, Zenon DEF Navigate
  <2>2. Follows(r, u.menu)
    BY <1>0, MenuEvent
  <2> HIDE DEF r
  <2>3. /\ MenuOK(r.menu)
        /\ PendingRadio(r.menu) \in RadioSettings /\ PendingPower(r.menu) \in PowerSettings
        /\ r.menu.view.selected = u.menu.view.selected => r.menu.view = u.menu.view
    BY <2>2, PendingInBounds DEF Follows
  <2>4. /\ UiOK(w) /\ w.reading = u.reading /\ w.frame = u.frame
        /\ w.screen = "Settings" => w.menu = r.menu
        /\ PendingRadio(w.menu) \in RadioSettings /\ PendingPower(w.menu) \in PowerSettings
    <3>1. CASE r.what = "ValueChanged"
      <4> DEFINE n == r.menu
                 x == [u EXCEPT !.menu = n, !.radio = PendingRadio(n), !.power = PendingPower(n)]
      <4>1. w = x
        BY <3>1 DEF reduce_settings_menu
      <4> HIDE DEF n
      <4>2. /\ DOMAIN x = {"screen", "reading", "radio", "power", "menu", "frame"}
            /\ x.screen = u.screen /\ x.menu = n /\ x.radio = PendingRadio(n)
            /\ x.power = PendingPower(n) /\ x.reading = u.reading /\ x.frame = u.frame
        BY <1>0
      <4> HIDE DEF x
      <4> QED
        BY <1>0, <2>3, <4>1, <4>2 DEF UiOK, n
    <3>2. CASE r.what = "Save"
      <4> DEFINE n == r.menu
                 k == commit_all(n)
                 x == [u EXCEPT !.menu = k, !.radio = clamp_radio_config(PendingRadio(n)),
                                !.power = clamp_power_config(PendingPower(n)),
                                !.screen = "Overview"]
      <4>1. w = x
        BY <3>2 DEF reduce_settings_menu
      <4>c. /\ clamp_radio_config(PendingRadio(n)) = PendingRadio(n)
            /\ clamp_power_config(PendingPower(n)) = PendingPower(n)
        BY <2>3, ClampKeeps
      <4>k. /\ MenuOK(k) /\ PendingRadio(k) = PendingRadio(n)
            /\ PendingPower(k) = PendingPower(n)
        BY <2>3, Committed
      <4> HIDE DEF n, k
      <4>2. /\ DOMAIN x = {"screen", "reading", "radio", "power", "menu", "frame"}
            /\ x.screen = "Overview" /\ x.menu = k
            /\ x.radio = clamp_radio_config(PendingRadio(n))
            /\ x.power = clamp_power_config(PendingPower(n))
            /\ x.reading = u.reading /\ x.frame = u.frame
        BY <1>0
      <4> HIDE DEF x
      <4> QED
        BY <2>3, <4>1, <4>2, <4>c, <4>k DEF UiOK, Screens, n
    <3>3. CASE r.what \notin {"ValueChanged", "Save"}
      <4> DEFINE n == r.menu
                 x == [u EXCEPT !.menu = n]
      <4>1. w = x
        BY <3>3 DEF reduce_settings_menu
      <4>c. PendingRadio(n) = u.radio /\ PendingPower(n) = u.power
        BY <1>0, <1>p, <2>2, <3>3 DEF Follows
      <4> HIDE DEF n
      <4>2. /\ DOMAIN x = {"screen", "reading", "radio", "power", "menu", "frame"}
            /\ x.screen = u.screen /\ x.menu = n /\ x.radio = u.radio /\ x.power = u.power
            /\ x.reading = u.reading /\ x.frame = u.frame
        BY <1>0
      <4> HIDE DEF x
      <4> QED
        BY <1>0, <2>3, <4>1, <4>2, <4>c DEF UiOK, n
    <3> QED
      BY <3>1, <3>2, <3>3
  <2> HIDE DEF w
  <2>5. c = NoCommand \/ c \in Command
    BY <2>3, <2>4 DEF UiOK, Command
  <2> HIDE DEF c
  <2> QED
    BY <2>1, <2>3, <2>4, <2>5 DEF NavigatesTo
<1> QED
  BY <1>1, <1>2

\* Following the watches.
LEMMA Synced ==
    ASSUME NEW u, UiOK(u), NEW r \in RadioSettings, NEW p \in PowerSettings
    PROVE  LET w == sync_from_watchers(u, r, p) IN
           /\ UiOK(w) /\ w.screen = u.screen /\ w.reading = u.reading /\ w.frame = u.frame
           /\ u.screen = "Settings" => w = u
<1> DEFINE n == build_settings_menu(r, p)
           x == [u EXCEPT !.radio = r, !.power = p, !.menu = n]
<1>1. sync_from_watchers(u, r, p) = u \/ (u.screen # "Settings" /\ sync_from_watchers(u, r, p) = x)
  BY Zenon DEF sync_from_watchers
<1>2. MenuOK(n) /\ PendingRadio(n) = r /\ PendingPower(n) = p
  BY Built
<1> HIDE DEF n
<1>3. /\ DOMAIN x = {"screen", "reading", "radio", "power", "menu", "frame"}
      /\ x.screen = u.screen /\ x.menu = n /\ x.radio = r /\ x.power = p
      /\ x.reading = u.reading /\ x.frame = u.frame
  BY DEF UiOK
<1> HIDE DEF x
<1>4. UiOK(x)
  BY <1>2, <1>3 DEF UiOK
<1> QED
  BY <1>1, <1>3, <1>4

(***************************************************************************)
(* The radio.                                                              *)
(***************************************************************************)
RadioOK(r) ==
    /\ DOMAIN r = {"cache", "chip", "freq", "rx"}
    /\ r.cache \in RadioSettings /\ r.chip \in RadioSettings /\ r.rx \in BOOLEAN

\* One setting exchanged for another within bounds.
LEMMA FieldExchanged ==
    ASSUME NEW a \in RadioSettings, NEW s \in RadioSettings, NEW f \in Fields, NEW x \in {a[f], s[f]}
    PROVE  [a EXCEPT ![f] = x] \in RadioSettings
<1>1. CASE f = "threshold"
  BY <1>1 DEF RadioSettings
<1>2. CASE f = "magn"
  BY <1>2 DEF RadioSettings
<1>3. CASE f = "bandwidth"
  BY <1>3 DEF RadioSettings
<1>4. CASE f = "carrier"
  BY <1>4 DEF RadioSettings
<1> QED
  BY <1>1, <1>2, <1>3, <1>4 DEF Fields

\* q is r with field f set as in s, if do says so and no fault comes.
SetAs(q, do, r, f, s, fault) ==
    /\ RadioOK(q)
    /\ fault = NoFault =>
         /\ do = TRUE => /\ q.chip = [r.chip EXCEPT ![f] = s[f]]
                         /\ q.cache = [r.cache EXCEPT ![f] = s[f]] /\ q.rx = TRUE
         /\ do = FALSE => q = r

\* A setter leaves settings within bounds wherever it fails; one that does not
\* fail sets chip and cache alike and the chip receives.
LEMMA SetterKeeps ==
    ASSUME NEW r, RadioOK(r), NEW s \in RadioSettings, NEW f \in Fields, NEW do \in BOOLEAN,
           NEW fault \in SetterFaults \cup {NoFault}
    PROVE  SetAs(SetIf(do, r, f, s, fault), do, r, f, s, fault)
<1> DEFINE at == IF fault.field = f THEN fault.at ELSE "none"
           a == IF at \in {"none", "receive"} THEN s[f] ELSE r.chip[f]
           b == IF at = "none" THEN s[f] ELSE r.cache[f]
           c == IF at = "none" THEN TRUE ELSE at = "idle" /\ r.rx
           chip == [r.chip EXCEPT ![f] = a]
           cache == [r.cache EXCEPT ![f] = b]
           q == [r EXCEPT !.chip = chip, !.cache = cache, !.rx = c]
<1>1. SetField(r, f, s[f], at) = q
  BY Zenon DEF SetField
<1>2. chip \in RadioSettings /\ cache \in RadioSettings
  BY FieldExchanged DEF RadioOK
<1>3. c \in BOOLEAN
  <2>1. r.rx \in BOOLEAN
    BY DEF RadioOK
  <2> QED
    BY <2>1, Zenon
<1>4. fault = NoFault => at = "none"
  BY DEF NoFault
<1>5. fault = NoFault => a = s[f] /\ b = s[f] /\ c = TRUE
  BY <1>4
<1> HIDE DEF at, a, b, c
<1>6. fault = NoFault => /\ chip = [r.chip EXCEPT ![f] = s[f]]
                         /\ cache = [r.cache EXCEPT ![f] = s[f]]
  BY <1>5
<1> HIDE DEF chip, cache
<1>7. /\ DOMAIN q = {"cache", "chip", "freq", "rx"} /\ q.chip = chip /\ q.cache = cache
      /\ q.rx = c
  BY DEF RadioOK
<1> HIDE DEF q
<1>8. SetIf(do, r, f, s, fault) = IF do THEN q ELSE r
  BY <1>1, Zenon DEF SetIf, at
<1> QED
  BY <1>2, <1>3, <1>5, <1>6, <1>7, <1>8 DEF RadioOK, SetAs

\* The four setters one after the other, each called or not.
InTurn(d1, d2, d3, d4, r, s, fault) ==
    SetIf(d4, SetIf(d3, SetIf(d2, SetIf(d1, r, "threshold", s, fault), "magn", s, fault),
                    "bandwidth", s, fault), "carrier", s, fault)

\* A field whose setter is not called has its value.
HasOr(d, r, f, s) == d = FALSE => r.chip[f] = s[f] /\ r.cache[f] = s[f]

\* With no fault, and every setter called where its field is not yet right, the
\* settings are those wanted, and the chip does not stop receiving.
LEMMA FourSetters ==
    ASSUME NEW r, RadioOK(r), NEW s \in RadioSettings,
           NEW fault \in SetterFaults \cup {NoFault},
           NEW d1 \in BOOLEAN, NEW d2 \in BOOLEAN, NEW d3 \in BOOLEAN, NEW d4 \in BOOLEAN
    PROVE  /\ RadioOK(InTurn(d1, d2, d3, d4, r, s, fault))
           /\ (/\ fault = NoFault
               /\ HasOr(d1, r, "threshold", s) /\ HasOr(d2, r, "magn", s)
               /\ HasOr(d3, r, "bandwidth", s) /\ HasOr(d4, r, "carrier", s)) =>
                 /\ InTurn(d1, d2, d3, d4, r, s, fault).cache = s
                 /\ InTurn(d1, d2, d3, d4, r, s, fault).chip = s
                 /\ (r.rx \/ d4) => InTurn(d1, d2, d3, d4, r, s, fault).rx
<1> DEFINE r1 == SetIf(d1, r, "threshold", s, fault)
           r2 == SetIf(d2, r1, "magn", s, fault)
           r3 == SetIf(d3, r2, "bandwidth", s, fault)
           r4 == SetIf(d4, r3, "carrier", s, fault)
<1>i. InTurn(d1, d2, d3, d4, r, s, fault) = r4
  BY Zenon DEF InTurn
<1>f. "threshold" \in Fields /\ "magn" \in Fields /\ "bandwidth" \in Fields /\ "carrier" \in Fields
  BY DEF Fields
<1>1. SetAs(r1, d1, r, "threshold", s, fault)
  BY <1>f, SetterKeeps
<1> HIDE DEF r1
<1>11. RadioOK(r1)
  BY <1>1 DEF SetAs
<1>2. SetAs(r2, d2, r1, "magn", s, fault)
  BY <1>11, <1>f, SetterKeeps
<1> HIDE DEF r2
<1>22. RadioOK(r2)
  BY <1>2 DEF SetAs
<1>3. SetAs(r3, d3, r2, "bandwidth", s, fault)
  BY <1>22, <1>f, SetterKeeps
<1> HIDE DEF r3
<1>33. RadioOK(r3)
  BY <1>3 DEF SetAs
<1>4. SetAs(r4, d4, r3, "carrier", s, fault)
  BY <1>33, <1>f, SetterKeeps
<1> HIDE DEF r4
<1>5. RadioOK(r1) /\ RadioOK(r2) /\ RadioOK(r3) /\ RadioOK(r4)
  BY <1>1, <1>2, <1>3, <1>4 DEF SetAs
<1>6. SUFFICES ASSUME fault = NoFault, HasOr(d1, r, "threshold", s), HasOr(d2, r, "magn", s),
                      HasOr(d3, r, "bandwidth", s), HasOr(d4, r, "carrier", s)
               PROVE  r4.cache = s /\ r4.chip = s /\ ((r.rx \/ d4) => r4.rx)
  BY <1>5, <1>i
<1>t. /\ r.cache \in RadioSettings /\ r.chip \in RadioSettings /\ r1.cache \in RadioSettings
      /\ r1.chip \in RadioSettings /\ r2.cache \in RadioSettings /\ r2.chip \in RadioSettings
      /\ r3.cache \in RadioSettings /\ r3.chip \in RadioSettings
  BY <1>5 DEF RadioOK
<1>k. ASSUME NEW c \in RadioSettings, NEW f \in Fields, c[f] = s[f]
      PROVE  [c EXCEPT ![f] = s[f]] = c
  BY <1>k DEF RadioSettings, Fields
<1>a. /\ r1.chip = [r.chip EXCEPT !["threshold"] = s["threshold"]]
      /\ (r.rx => r1.rx)
      /\ r1.cache = [r.cache EXCEPT !["threshold"] = s["threshold"]]
  <2>1. CASE d1 = TRUE
    BY <1>1, <1>6, <2>1 DEF SetAs
  <2>2. CASE d1 = FALSE
    BY <1>1, <1>6, <1>f, <1>k, <1>t, <2>2 DEF SetAs, HasOr
  <2> QED
    BY <2>1, <2>2
<1>aa. /\ r1.chip["magn"] = r.chip["magn"] /\ r1.cache["magn"] = r.cache["magn"]
       /\ r1.chip["bandwidth"] = r.chip["bandwidth"] /\ r1.cache["bandwidth"] = r.cache["bandwidth"]
       /\ r1.chip["carrier"] = r.chip["carrier"] /\ r1.cache["carrier"] = r.cache["carrier"]
       /\ r1.chip["threshold"] = s["threshold"] /\ r1.cache["threshold"] = s["threshold"]
  BY <1>a, <1>t DEF RadioSettings
<1>b. /\ r2.chip = [r1.chip EXCEPT !["magn"] = s["magn"]]
      /\ (r1.rx => r2.rx)
      /\ r2.cache = [r1.cache EXCEPT !["magn"] = s["magn"]]
  <2>1. CASE d2 = TRUE
    BY <1>2, <1>6, <2>1 DEF SetAs
  <2>2. CASE d2 = FALSE
    BY <1>2, <1>6, <1>f, <1>k, <1>t, <1>aa, <2>2 DEF SetAs, HasOr
  <2> QED
    BY <2>1, <2>2
<1>bb. /\ r2.chip["bandwidth"] = r.chip["bandwidth"] /\ r2.cache["bandwidth"] = r.cache["bandwidth"]
       /\ r2.chip["carrier"] = r.chip["carrier"] /\ r2.cache["carrier"] = r.cache["carrier"]
       /\ r2.chip["threshold"] = s["threshold"] /\ r2.cache["threshold"] = s["threshold"]
       /\ r2.chip["magn"] = s["magn"] /\ r2.cache["magn"] = s["magn"]
  BY <1>aa, <1>b, <1>t DEF RadioSettings
<1>c. /\ r3.chip = [r2.chip EXCEPT !["bandwidth"] = s["bandwidth"]]
      /\ (r2.rx => r3.rx)
      /\ r3.cache = [r2.cache EXCEPT !["bandwidth"] = s["bandwidth"]]
  <2>1. CASE d3 = TRUE
    BY <1>3, <1>6, <2>1 DEF SetAs
  <2>2. CASE d3 = FALSE
    BY <1>3, <1>6, <1>f, <1>k, <1>t, <1>bb, <2>2 DEF SetAs, HasOr
  <2> QED
    BY <2>1, <2>2
<1>cc. /\ r3.chip["carrier"] = r.chip["carrier"] /\ r3.cache["carrier"] = r.cache["carrier"]
       /\ r3.chip["threshold"] = s["threshold"] /\ r3.cache["threshold"] = s["threshold"]
       /\ r3.chip["magn"] = s["magn"] /\ r3.cache["magn"] = s["magn"]
       /\ r3.chip["bandwidth"] = s["bandwidth"] /\ r3.cache["bandwidth"] = s["bandwidth"]
  BY <1>bb, <1>c, <1>t DEF RadioSettings
<1>d. /\ r4.chip = [r3.chip EXCEPT !["carrier"] = s["carrier"]]
      /\ ((r3.rx \/ d4) => r4.rx)
      /\ r4.cache = [r3.cache EXCEPT !["carrier"] = s["carrier"]]
  <2>1. CASE d4 = TRUE
    BY <1>4, <1>6, <2>1 DEF SetAs
  <2>2. CASE d4 = FALSE
    BY <1>4, <1>6, <1>f, <1>k, <1>t, <1>cc, <2>2 DEF SetAs, HasOr
  <2> QED
    BY <2>1, <2>2
<1>7. r4.cache = s /\ r4.chip = s
  BY <1>cc, <1>d, <1>t DEF RadioSettings
<1> QED
  BY <1>a, <1>b, <1>c, <1>d, <1>7

\* apply_settings: with no fault, chip and cache hold the settings.
LEMMA AppliedAll ==
    ASSUME NEW r, RadioOK(r), NEW s \in RadioSettings,
           NEW fault \in SetterFaults \cup {NoFault}
    PROVE  /\ RadioOK(apply_settings(r, s, fault))
           /\ fault = NoFault => /\ apply_settings(r, s, fault).cache = s
                                 /\ apply_settings(r, s, fault).chip = s
                                 /\ apply_settings(r, s, fault).rx
<1> DEFINE last == IF fault = NoFault THEN 4 ELSE FieldOrder[fault.field]
           d1 == last >= 1
           d2 == last >= 2
           d3 == last >= 3
           d4 == last >= 4
<1>0. apply_settings(r, s, fault) = InTurn(d1, d2, d3, d4, r, s, fault)
  BY Zenon DEF apply_settings, InTurn
<1>l. fault = NoFault => last = 4
  OBVIOUS
<1> HIDE DEF last
<1>b. d1 \in BOOLEAN /\ d2 \in BOOLEAN /\ d3 \in BOOLEAN /\ d4 \in BOOLEAN
  OBVIOUS
<1>c. fault = NoFault => d1 = TRUE /\ d2 = TRUE /\ d3 = TRUE /\ d4 = TRUE
  BY <1>l
<1> HIDE DEF d1, d2, d3, d4
<1>d. fault = NoFault => /\ HasOr(d1, r, "threshold", s) /\ HasOr(d2, r, "magn", s)
                         /\ HasOr(d3, r, "bandwidth", s) /\ HasOr(d4, r, "carrier", s)
  BY <1>c DEF HasOr
<1> QED
  BY <1>0, <1>b, <1>c, <1>d, FourSetters

\* apply_pending_settings: with no fault, and chip and cache alike before,
\* both hold the settings, and a chip that received still does.
LEMMA AppliedPending ==
    ASSUME NEW r, RadioOK(r), NEW s \in RadioSettings,
           NEW fault \in SetterFaults \cup {NoFault}
    PROVE  /\ RadioOK(apply_pending_settings(r, s, fault))
           /\ (fault = NoFault /\ r.chip = r.cache) =>
                 /\ apply_pending_settings(r, s, fault).cache = s
                 /\ apply_pending_settings(r, s, fault).chip = s
                 /\ r.rx => apply_pending_settings(r, s, fault).rx
<1> DEFINE d1 == s["threshold"] # r.cache["threshold"]
           d2 == s["magn"] # r.cache["magn"]
           d3 == s["bandwidth"] # r.cache["bandwidth"]
           d4 == s["carrier"] # r.cache["carrier"]
<1>0. apply_pending_settings(r, s, fault) = InTurn(d1, d2, d3, d4, r, s, fault)
  BY Zenon DEF apply_pending_settings, InTurn
<1>b. d1 \in BOOLEAN /\ d2 \in BOOLEAN /\ d3 \in BOOLEAN /\ d4 \in BOOLEAN
  OBVIOUS
<1>c. /\ d1 = FALSE => r.cache["threshold"] = s["threshold"]
      /\ d2 = FALSE => r.cache["magn"] = s["magn"]
      /\ d3 = FALSE => r.cache["bandwidth"] = s["bandwidth"]
      /\ d4 = FALSE => r.cache["carrier"] = s["carrier"]
  OBVIOUS
<1> HIDE DEF d1, d2, d3, d4
<1>d. r.chip = r.cache => /\ HasOr(d1, r, "threshold", s) /\ HasOr(d2, r, "magn", s)
                          /\ HasOr(d3, r, "bandwidth", s) /\ HasOr(d4, r, "carrier", s)
  BY <1>c DEF HasOr
<1> QED
  BY <1>0, <1>b, <1>d, FourSetters
Profile == [freq: Nat, bandwidth: 0 .. CHANNEL_BANDWIDTH_MAX_INDEX]

\* An RF profile leaves settings within bounds wherever it fails; one that does
\* not fail sets the bandwidth of chip and cache alike and the chip receives.
LEMMA Tuned ==
    ASSUME NEW r, RadioOK(r), NEW p \in Profile, NEW at
    PROVE  /\ RadioOK(apply_rf_profile(r, p, at))
           /\ at = "none" => /\ apply_rf_profile(r, p, at).rx = TRUE
                             /\ r.chip = r.cache =>
                                  apply_rf_profile(r, p, at).chip = apply_rf_profile(r, p, at).cache
<1> DEFINE a == IF at \in {"none", "receive"} THEN p.bandwidth ELSE r.chip.bandwidth
           b == IF at = "none" THEN p.bandwidth ELSE r.cache.bandwidth
           c == IF at = "none" THEN TRUE ELSE at = "idle" /\ r.rx
           fr == IF at \in {"idle", "freq"} THEN r.freq ELSE p.freq
           chip == [r.chip EXCEPT !.bandwidth = a]
           cache == [r.cache EXCEPT !.bandwidth = b]
           q == [r EXCEPT !.freq = fr, !.chip = chip, !.cache = cache, !.rx = c]
<1>1. apply_rf_profile(r, p, at) = q
  BY Zenon DEF apply_rf_profile
<1>2. /\ a \in 0 .. CHANNEL_BANDWIDTH_MAX_INDEX /\ b \in 0 .. CHANNEL_BANDWIDTH_MAX_INDEX
      /\ at = "none" => a = b /\ c = TRUE
  BY DEF RadioOK, RadioSettings, Profile
<1>3. c \in BOOLEAN
  <2>1. r.rx \in BOOLEAN
    BY DEF RadioOK
  <2> QED
    BY <2>1, Zenon
<1> HIDE DEF a, b, c, fr
<1>4. chip \in RadioSettings /\ cache \in RadioSettings /\ (a = b /\ r.chip = r.cache => chip = cache)
  BY <1>2 DEF RadioOK, RadioSettings
<1> HIDE DEF chip, cache
<1>5. /\ DOMAIN q = {"cache", "chip", "freq", "rx"} /\ q.chip = chip /\ q.cache = cache
      /\ q.rx = c
  BY DEF RadioOK
<1> HIDE DEF q
<1> QED
  BY <1>1, <1>2, <1>3, <1>4, <1>5 DEF RadioOK

\* A change of mode changes nothing else.
LEMMA ModeChanged ==
    ASSUME NEW r, RadioOK(r), NEW b \in BOOLEAN
    PROVE  /\ RadioOK([r EXCEPT !.rx = b]) /\ [r EXCEPT !.rx = b].rx = b
           /\ [r EXCEPT !.rx = b].chip = r.chip /\ [r EXCEPT !.rx = b].cache = r.cache
BY DEF RadioOK

\* The candidates are profiles, and a byte is enough for their indices.
LEMMA CandidateFacts ==
    /\ Len(Candidates) \in 1 .. 255 /\ DOMAIN Candidates = 1 .. Len(Candidates)
    /\ Len(Candidates) \in DOMAIN Candidates
    /\ \A i \in DOMAIN Candidates : Candidates[i] \in Profile /\ i - 1 \in Byte
<1>1. Candidates \in Seq(Profile) /\ Len(Candidates) \in 1 .. 255
  BY Zenon, SettingsAssumption DEF Profile
<1>2. DOMAIN Candidates = 1 .. Len(Candidates)
  BY <1>1
<1>3. Len(Candidates) \in DOMAIN Candidates
  BY <1>1, <1>2
<1>4. ASSUME NEW i \in DOMAIN Candidates PROVE Candidates[i] \in Profile /\ i - 1 \in Byte
  <2>1. Candidates[i] \in Profile
    BY <1>1, <1>2, <1>4
  <2>3. \A n \in 1 .. 255 : \A j \in 1 .. n : j - 1 \in Byte
    BY DEF Byte
  <2>2. i - 1 \in Byte
    BY <1>1, <1>2, <1>4, <2>3, Zenon
  <2> QED
    BY <2>1, <2>2
<1> QED
  BY <1>1, <1>2, <1>3, <1>4

\* Failed applications of profiles leave settings within bounds.
LEMMA TriedInBounds ==
    ASSUME NEW r, RadioOK(r), NEW cs, \A i \in DOMAIN cs : cs[i] \in Profile,
           NEW o \in Tried(r, cs)
    PROVE  RadioOK(o)
<1>1. PICK f \in {r.freq} \cup {cs[i].freq : i \in DOMAIN cs},
           b \in {r.chip.bandwidth} \cup {cs[i].bandwidth : i \in DOMAIN cs}, x \in BOOLEAN :
         o = HalfTuned(r, f, b, x)
  BY DEF Tried
<1>2. b \in 0 .. CHANNEL_BANDWIDTH_MAX_INDEX
  BY DEF RadioOK, RadioSettings, Profile
<1> DEFINE chip == [r.chip EXCEPT !.bandwidth = b]
           q == [r EXCEPT !.freq = f, !.chip = chip, !.rx = x]
<1>3. chip \in RadioSettings
  BY <1>2 DEF RadioOK, RadioSettings
<1>4. o = q
  BY <1>1, Zenon DEF HalfTuned
<1> HIDE DEF chip
<1>5. DOMAIN q = {"cache", "chip", "freq", "rx"} /\ q.chip = chip /\ q.cache = r.cache /\ q.rx = x
  BY DEF RadioOK
<1> HIDE DEF q
<1> QED
  BY <1>3, <1>4, <1>5 DEF RadioOK

\* What a sweep leaves.
LEMMA Swept ==
    ASSUME NEW r, RadioOK(r)
    PROVE  /\ \A o \in SweepPicks(r, Candidates) :
                 /\ RadioOK(o.radio) /\ o.radio.rx = TRUE /\ o.index \in Byte
                 /\ r.chip = r.cache => o.radio.chip = o.radio.cache
           /\ \A o \in SweepFails(r, Candidates, {f.at : f \in Faults \cap ProfileFaults}) :
                 RadioOK(o)
<1>1. /\ \A i \in DOMAIN Candidates : Candidates[i] \in Profile /\ i - 1 \in Byte
      /\ DOMAIN Candidates = 1 .. Len(Candidates) /\ Len(Candidates) \in Nat
  BY CandidateFacts
<1>2. Candidates \in Seq(Profile)
  BY Zenon, SettingsAssumption DEF Profile
<1>3. ASSUME NEW o \in SweepPicks(r, Candidates)
      PROVE  /\ RadioOK(o.radio) /\ o.radio.rx = TRUE /\ o.index \in Byte
             /\ r.chip = r.cache => o.radio.chip = o.radio.cache
  <2>1. PICK i \in DOMAIN Candidates :
           o = [radio |-> apply_rf_profile(r, Candidates[i], "none"), index |-> i - 1]
    BY DEF SweepPicks
  <2> QED
    BY <1>1, <2>1, Tuned
<1>4. ASSUME NEW o \in SweepFails(r, Candidates, {f.at : f \in Faults \cap ProfileFaults})
      PROVE  RadioOK(o)
  <2> DEFINE S == {f.at : f \in Faults \cap ProfileFaults}
  <2>1. CASE o \in Tried(r, Candidates)
    BY <1>1, <2>1, TriedInBounds
  <2> DEFINE rest(last) == SubSeq(Candidates, last + 1, Len(Candidates))
             q(last) == apply_rf_profile(r, Candidates[last], "none")
  <2>2. ASSUME NEW last \in DOMAIN Candidates, o \in PickFails(r, Candidates, last, S)
        PROVE  RadioOK(o)
    <3>2. RadioOK(q(last))
      BY <1>1, Tuned
    <3>3. \A i \in DOMAIN rest(last) : rest(last)[i] \in Profile
      <4>1. last \in 1 .. Len(Candidates)
        BY <1>1
      <4>2. rest(last) \in Seq(Profile)
        BY <1>2, <4>1
      <4> HIDE DEF rest
      <4> QED
        BY <4>2
    <3> HIDE DEF q, rest, S
    <3>4. PICK tried \in Tried(q(last), rest(last)), i \in 1 .. last, at \in S :
             o = apply_rf_profile(tried, Candidates[i], at)
      BY <2>2 DEF PickFails, q, rest
    <3>5. RadioOK(tried)
      BY <3>2, <3>3, TriedInBounds
    <3>6. Candidates[i] \in Profile
      BY <1>1
    <3> QED
      BY <3>4, <3>5, <3>6, Tuned
  <2>3. \/ o \in Tried(r, Candidates)
        \/ \E last \in DOMAIN Candidates : o \in PickFails(r, Candidates, last, S)
    BY <1>4 DEF SweepFails
  <2> QED
    BY <2>1, <2>2, <2>3
<1> QED
  BY <1>3, <1>4

(***************************************************************************)
(* Words.                                                                  *)
(***************************************************************************)
Words == [radio: Word, power: Word, rf: Word]

\* The words after a boot from words.
BootedWords(words) ==
    [words EXCEPT !.power = load_power_settings(words.power).word,
                  !.radio = load_radio_settings(words.radio).word]

\* What words hold is settings within bounds.
LEMMA Held ==
    ASSUME NEW words \in Words
    PROVE  /\ load_radio_or_default(words.radio) \in RadioSettings
           /\ load_power_settings(words.power).value \in PowerSettings
<1>0. words.radio \in Word /\ words.power \in Word
  BY DEF Words
<1>1. DEFAULT_RADIO_SETTINGS \in RadioSettings
  BY DEF DEFAULT_RADIO_SETTINGS, RadioSettings, Thresholds, MAGN_TARGET_MAX,
         CHANNEL_BANDWIDTH_MAX_INDEX, CARRIER_SENSE_MAX
<1>2. load_radio_or_default(words.radio) \in RadioSettings
  BY <1>0, <1>1, RadioWithinBounds DEF load_radio_or_default
<1> QED
  BY <1>0, <1>2, PowerWithinBounds

\* A boot rewrites words without changing what they hold.
LEMMA BootKeeps ==
    ASSUME NEW words \in Words
    PROVE  BootedWords(words) \in Words /\ SettingsIn(BootedWords(words)) = SettingsIn(words)
<1> DEFINE a == load_power_settings(words.power).word
           b == load_radio_settings(words.radio).word
           n == [words EXCEPT !.power = a, !.radio = b]
<1>0. words.radio \in Word /\ words.power \in Word
  BY DEF Words
<1>1. /\ a \in Word /\ b \in Word
      /\ load_power_settings(a).value = load_power_settings(words.power).value
      /\ load_radio_settings(b).ok = load_radio_settings(words.radio).ok
      /\ load_radio_settings(words.radio).ok =>
            load_radio_settings(b).value = load_radio_settings(words.radio).value
  BY <1>0, PowerReload, RadioReload
<1>2. BootedWords(words) = n
  BY Zenon DEF BootedWords
<1> HIDE DEF a, b
<1>3. n \in Words /\ n.power = a /\ n.radio = b
  BY <1>1 DEF Words
<1>4. load_radio_or_default(b) = load_radio_or_default(words.radio)
  BY <1>1 DEF load_radio_or_default
<1> HIDE DEF n
<1> QED
  BY <1>1, <1>2, <1>3, <1>4 DEF SettingsIn

\* A radio word stored alone changes the radio settings alone.
LEMMA HalfSaved ==
    ASSUME NEW words \in Words, NEW s \in RadioSettings
    PROVE  LET n == [words EXCEPT !.radio = RadioWordOf(s)] IN
           n \in Words /\ SettingsIn(n) = [SettingsIn(words) EXCEPT !.radio = s]
<1> DEFINE w == RadioWordOf(s)
           n == [words EXCEPT !.radio = w]
<1>1. w \in Word
  BY ClampKeeps, RadioWord DEF RadioWordOf
<1>2. load_radio_settings(w) = [ok |-> TRUE, value |-> s, word |-> w]
  BY RadioRoundTrip
<1> HIDE DEF w
<1>3. load_radio_or_default(w) = s
  BY <1>2 DEF load_radio_or_default
<1>4. n \in Words /\ n.power = words.power /\ n.radio = w
  BY <1>1 DEF Words
<1> HIDE DEF n
<1>5. SettingsIn(n) = [SettingsIn(words) EXCEPT !.radio = s]
  BY <1>3, <1>4 DEF SettingsIn
<1> QED
  BY <1>4, <1>5 DEF n, w

\* A save stores both.
LEMMA Saved ==
    ASSUME NEW words \in Words, NEW c \in Command
    PROVE  /\ Persisted(words, c) \in Words
           /\ SettingsIn(Persisted(words, c)) = [radio |-> c.radio, power |-> c.power]
           /\ load_radio_settings(Persisted(words, c).radio).ok
           /\ load_radio_settings(Persisted(words, c).radio).value = c.radio
<1> DEFINE w == RadioWordOf(c.radio)
           x == PowerWordOf(c.power)
           n == [words EXCEPT !.radio = w, !.power = x]
<1>0. c.radio \in RadioSettings /\ c.power \in PowerSettings
  BY DEF Command
<1>1. w \in Word /\ x \in Word
  BY <1>0, ClampKeeps, RadioWord, PowerWord DEF RadioWordOf, PowerWordOf
<1>2. load_radio_settings(w) = [ok |-> TRUE, value |-> c.radio, word |-> w]
  BY <1>0, RadioRoundTrip
<1>p. load_power_settings(x).value = c.power
  BY <1>0, PowerRoundTrip
<1>n. Persisted(words, c) = n
  BY Zenon DEF Persisted
<1> HIDE DEF w, x
<1>3. load_radio_or_default(w) = c.radio
  BY <1>2 DEF load_radio_or_default
<1>4. n \in Words /\ n.power = x /\ n.radio = w
  BY <1>1 DEF Words
<1> HIDE DEF n
<1>5. SettingsIn(n) = [radio |-> c.radio, power |-> c.power]
  BY <1>p, <1>3, <1>4 DEF SettingsIn
<1> QED
  BY <1>2, <1>4, <1>5, <1>n

\* A new RF profile leaves the settings.
LEMMA Reprofiled ==
    ASSUME NEW words \in Words, NEW w \in Word
    PROVE  /\ [words EXCEPT !.rf = w] \in Words
           /\ SettingsIn([words EXCEPT !.rf = w]) = SettingsIn(words)
           /\ [words EXCEPT !.rf = w].radio = words.radio
<1> DEFINE n == [words EXCEPT !.rf = w]
<1>1. n \in Words /\ n.power = words.power /\ n.radio = words.radio
  BY DEF Words
<1> HIDE DEF n
<1>2. SettingsIn(n) = SettingsIn(words)
  BY <1>1 DEF SettingsIn
<1> QED
  BY <1>1, <1>2 DEF n

\* The initialized radio holds the settings it is given, and does not receive.
LEMMA Initialized ==
    ASSUME NEW s \in RadioSettings
    PROVE  /\ RadioOK(InitializedRadio(s)) /\ InitializedRadio(s).cache = s
           /\ InitializedRadio(s).chip = s
<1>1. InitializedRadio(s) = [cache |-> s, chip |-> s, freq |-> 0, rx |-> FALSE]
  BY ClampKeeps DEF InitializedRadio
<1> QED
  BY <1>1 DEF RadioOK
\* Settings from RTC memory on top of what the radio has: with no fault, chip
\* and cache hold them if there are any.
LEMMA Restored ==
    ASSUME rtc \in Words, NEW r, RadioOK(r), NEW fault
    PROVE  /\ RadioOK(RestoreSettings(r, fault))
           /\ fault = NoFault =>
                /\ load_radio_settings(rtc.radio).ok =>
                      /\ RestoreSettings(r, fault).cache = load_radio_settings(rtc.radio).value
                      /\ RestoreSettings(r, fault).chip = load_radio_settings(rtc.radio).value
                      /\ RestoreSettings(r, fault).rx
                /\ ~load_radio_settings(rtc.radio).ok => RestoreSettings(r, fault) = r
<1> DEFINE l == load_radio_settings(rtc.radio)
           f == IF fault \in SetterFaults THEN fault ELSE NoFault
<1>1. RestoreSettings(r, fault) = IF ~l.ok THEN r ELSE apply_settings(r, l.value, f)
  BY Zenon DEF RestoreSettings
<1>2. l.ok => l.value \in RadioSettings
  BY RadioWithinBounds DEF Words
<1>3. f \in SetterFaults \cup {NoFault} /\ (fault = NoFault => f = NoFault)
  OBVIOUS
<1> HIDE DEF l, f
<1>4. CASE l.ok
  <2>1. RestoreSettings(r, fault) = apply_settings(r, l.value, f)
    BY <1>1, <1>4
  <2>2. /\ RadioOK(apply_settings(r, l.value, f))
        /\ f = NoFault => /\ apply_settings(r, l.value, f).cache = l.value
                          /\ apply_settings(r, l.value, f).chip = l.value
                          /\ apply_settings(r, l.value, f).rx
    BY <1>2, <1>3, <1>4, AppliedAll
  <2> QED
    BY <1>3, <1>4, <2>1, <2>2 DEF l
<1>5. CASE ~l.ok
  BY <1>1, <1>5 DEF l
<1> QED
  BY <1>4, <1>5

(***************************************************************************)
(* The core of the invariant: settings within bounds wherever they are,    *)
(* and what was stored is what RTC memory holds.                           *)
(***************************************************************************)
CoreInv ==
    /\ rtc \in Words /\ stored = SettingsIn(rtc)
    /\ radioW \in [value: RadioSettings, fresh: BOOLEAN]
    /\ powerW \in PowerSettings /\ power = powerW
    /\ commands \in Seq(Command) /\ events \in Seq(UiEvents)
    /\ RadioOK(radio) /\ UiOK(ui)
    /\ history \in [lateSave: BOOLEAN, fault: BOOLEAN]

\* The state after a boot.
Fresh ==
    /\ events = <<>> /\ commands = <<>> /\ rxPc = "start" /\ setPc = "waiting"
    /\ radio.chip = radio.cache /\ radioW.fresh
    /\ left = 0 /\ quiet = power.idle
    /\ history = [lateSave |-> FALSE, fault |-> FALSE]
    /\ ui.screen = "Main" /\ ui.reading = NoReading /\ ui.frame = NoFrame /\ glass = Waiting

\* A boot from any words starts in order.
LEMMA Boot ==
    ASSUME NEW words \in Words, NEW class, BootedFrom(words, class), stored' = SettingsIn(words)
    PROVE  CoreInv' /\ Fresh'
<1> DEFINE rs == load_radio_or_default(words.radio)
           p == load_power_settings(words.power).value
<1>1. rs \in RadioSettings /\ p \in PowerSettings /\ clamp_power_config(p) = p
  BY Held, ClampKeeps
<1>2. /\ rtc' = BootedWords(words) /\ power' = p /\ powerW' = p /\ left' = 0 /\ quiet' = p.idle
      /\ radioW' = [value |-> rs, fresh |-> TRUE] /\ radio' = InitializedRadio(rs)
      /\ ui' = NewController(rs, p) /\ glass' = Waiting
      /\ events' = <<>> /\ commands' = <<>> /\ rxPc' = "start" /\ setPc' = "waiting"
      /\ history' = [lateSave |-> FALSE, fault |-> FALSE]
  BY <1>1, Zenon DEF BootedFrom, BootedWords
<1> HIDE DEF rs, p
<1>3. rtc' \in Words /\ SettingsIn(rtc)' = stored'
  <2>1. SettingsIn(rtc)' = SettingsIn(BootedWords(words))
    BY <1>2 DEF SettingsIn
  <2> QED
    BY <1>2, <2>1, BootKeeps
<1>4. RadioOK(radio)' /\ radio'.chip = radio'.cache
  <2>1. RadioOK(radio') /\ radio'.chip = rs /\ radio'.cache = rs
    BY <1>1, <1>2, Initialized
  <2> QED
    BY <2>1 DEF RadioOK
<1>5. UiOK(ui)' /\ ui'.screen = "Main" /\ ui'.reading = NoReading /\ ui'.frame = NoFrame
  <2>1. UiOK(ui') /\ ui'.screen = "Main" /\ ui'.reading = NoReading /\ ui'.frame = NoFrame
    BY <1>1, <1>2, NewUi
  <2> QED
    BY <2>1 DEF UiOK
<1>6. /\ radioW' \in [value: RadioSettings, fresh: BOOLEAN] /\ radioW'.fresh
      /\ history' \in [lateSave: BOOLEAN, fault: BOOLEAN]
  BY <1>1, <1>2
<1>7. CoreInv'
  BY <1>1, <1>2, <1>3, <1>4, <1>5, <1>6 DEF CoreInv
<1> QED
  BY <1>2, <1>4, <1>5, <1>6, <1>7 DEF Fresh

\* So do the initial states.
LEMMA Started == Init => CoreInv /\ Fresh
<1> SUFFICES ASSUME Init PROVE CoreInv /\ Fresh
  OBVIOUS
<1>0. PICK words \in InitialRtc : Init!(words)
  BY DEF Init
<1>w. words \in Words
  BY Zenon, SettingsAssumption DEF Words
<1> DEFINE rs == load_radio_or_default(words.radio)
           p == load_power_settings(words.power).value
<1>1. rs \in RadioSettings /\ p \in PowerSettings /\ clamp_power_config(p) = p
  BY <1>w, Held, ClampKeeps
<1>2. /\ rtc = BootedWords(words) /\ power = p /\ powerW = p /\ left = 0 /\ quiet = p.idle
      /\ radioW = [value |-> rs, fresh |-> TRUE] /\ radio = InitializedRadio(rs)
      /\ ui = NewController(rs, p) /\ glass = Waiting /\ stored = SettingsIn(words)
      /\ events = <<>> /\ commands = <<>> /\ rxPc = "start" /\ setPc = "waiting"
      /\ history = [lateSave |-> FALSE, fault |-> FALSE]
  BY <1>0, <1>1, Zenon DEF BootedWords
<1> HIDE DEF rs, p
<1>3. rtc \in Words /\ SettingsIn(rtc) = stored
  BY <1>2, <1>w, BootKeeps
<1>4. RadioOK(radio) /\ radio.chip = radio.cache
  BY <1>1, <1>2, Initialized
<1>5. UiOK(ui) /\ ui.screen = "Main" /\ ui.reading = NoReading /\ ui.frame = NoFrame
  BY <1>1, <1>2, NewUi
<1>6. /\ radioW \in [value: RadioSettings, fresh: BOOLEAN] /\ radioW.fresh
      /\ history \in [lateSave: BOOLEAN, fault: BOOLEAN]
  BY <1>1, <1>2
<1>7. CoreInv
  BY <1>1, <1>2, <1>3, <1>4, <1>5, <1>6 DEF CoreInv
<1> QED
  BY <1>2, <1>4, <1>5, <1>6, <1>7 DEF Fresh
\* A frame marked as drawn changes nothing but the frame.
LEMMA Marked ==
    ASSUME NEW u, UiOK(u), NEW key
    PROVE  /\ UiOK(mark_rendered(u, key)) /\ mark_rendered(u, key).frame = key
           /\ mark_rendered(u, key).screen = u.screen /\ mark_rendered(u, key).reading = u.reading
           /\ mark_rendered(u, key).menu = u.menu /\ mark_rendered(u, key).radio = u.radio
           /\ mark_rendered(u, key).power = u.power
<1> DEFINE q == [u EXCEPT !.frame = key]
<1>1. /\ DOMAIN q = {"screen", "reading", "radio", "power", "menu", "frame"}
      /\ q.screen = u.screen /\ q.reading = u.reading /\ q.menu = u.menu /\ q.radio = u.radio
      /\ q.power = u.power /\ q.frame = key
  BY DEF UiOK
<1>2. mark_rendered(u, key) = q
  BY Zenon DEF mark_rendered
<1> HIDE DEF q
<1> QED
  BY <1>1, <1>2 DEF UiOK

\* An iteration of the display task leaves the controller in order.
LEMMA DrawsKeep ==
    ASSUME CoreInv, NEW u, UiOK(u), NEW fault \in BOOLEAN, Draws(u, fault)
    PROVE  UiOK(ui')
<1> DEFINE synced == sync_from_watchers(u, radioW.value, powerW)
<1>1. PICK time \in Times : Draws(u, fault)!(time)
  BY DEF Draws
<1>2. ui' = synced \/ ui' = mark_rendered(synced, derive_frame(synced, time))
  BY <1>1, Zenon
<1>3. UiOK(synced)
  <2>1. radioW.value \in RadioSettings /\ powerW \in PowerSettings
    BY DEF CoreInv
  <2> QED
    BY <2>1, Synced
<1> HIDE DEF synced
<1> QED
  BY <1>2, <1>3, Marked

\* A save stores settings within bounds, and the power module has them.
LEMMA CoreDispatch == ASSUME CoreInv, DispatchApplies PROVE CoreInv'
<1> DEFINE c == Head(commands)
<1>1. /\ commands # <<>> /\ commands' = Tail(commands)
      /\ radioW' = [value |-> c.radio, fresh |-> TRUE] /\ rtc' = Persisted(rtc, c)
      /\ powerW' = c.power /\ power' = clamp_power_config(c.power)
      /\ stored' = [radio |-> c.radio, power |-> c.power]
      /\ ui' = ui /\ events' = events /\ radio' = radio
      /\ history' = [history EXCEPT !.lateSave = history.lateSave \/ rxPc = "sampling"]
  BY Zenon DEF DispatchApplies, set_settings, displayVars, radioVars
<1>2. c \in Command /\ Tail(commands) \in Seq(Command)
  BY <1>1 DEF CoreInv
<1> HIDE DEF c
<1>3. c.radio \in RadioSettings /\ c.power \in PowerSettings
  BY <1>2 DEF Command
<1>4. clamp_power_config(c.power) = c.power
  BY <1>3, ClampKeeps
<1>5. /\ Persisted(rtc, c) \in Words
      /\ SettingsIn(Persisted(rtc, c)) = [radio |-> c.radio, power |-> c.power]
  BY <1>2, Saved DEF CoreInv
<1>6. rtc' \in Words /\ stored' = SettingsIn(rtc')
  BY <1>1, <1>5
<1>7. history' \in [lateSave: BOOLEAN, fault: BOOLEAN]
  BY <1>1 DEF CoreInv
<1>8. radioW' \in [value: RadioSettings, fresh: BOOLEAN]
  BY <1>1, <1>3
<1> QED
  BY <1>1, <1>2, <1>3, <1>4, <1>6, <1>7, <1>8 DEF CoreInv, SettingsIn

\* What an action of the radio's tasks has to keep.
LEMMA CoreRadio ==
    ASSUME CoreInv, rtc' \in Words, SettingsIn(rtc') = SettingsIn(rtc), RadioOK(radio'),
           radioW' \in [value: RadioSettings, fresh: BOOLEAN],
           UNCHANGED <<ui, events, commands, powerW, power, stored>>,
           history' \in [lateSave: BOOLEAN, fault: BOOLEAN]
    PROVE  CoreInv'
BY DEF CoreInv, SettingsIn

\* The history of faults is kept as booleans.
LEMMA FaultNoted ==
    ASSUME CoreInv, NEW b \in BOOLEAN, RadioFault(b)
    PROVE  /\ history' \in [lateSave: BOOLEAN, fault: BOOLEAN]
           /\ history'.lateSave = history.lateSave
           /\ ~history'.fault => ~history.fault /\ ~b
<1>1. history \in [lateSave: BOOLEAN, fault: BOOLEAN]
  BY DEF CoreInv
<1>2. history' = [history EXCEPT !.fault = history.fault \/ b]
  BY Zenon DEF RadioFault
<1> QED
  BY <1>1, <1>2

(***************************************************************************)
(* Agreement.  Without a fault the chip has what the driver believes, it   *)
(* receives once it was started, and RTC memory, the driver and the watch  *)
(* agree in turn as the set-up goes on.                                    *)
(***************************************************************************)
Loaded == load_radio_settings(rtc.radio)

Agrees ==
    /\ radio.chip = radio.cache
    /\ rxPc \in {"sweeping", "sampling", "capturing"} => radio.rx
    /\ rxPc # "dead"
    /\ (rxPc = "capturing" /\ setPc = "waiting" /\ ~radioW.fresh) => radio.cache = radioW.value
    /\ (~history.lateSave /\ Loaded.ok) =>
         /\ rxPc = "sampling" => Loaded.value = radio.cache
         /\ rxPc = "capturing" => Loaded.value = radioW.value

SettleInv ==
    /\ rxPc \in {"start", "sweeping", "sampling", "capturing", "dead"}
    /\ setPc \in {"waiting", "locking"}
    /\ ~history.fault => Agrees

\* The radio that does not start leaves everything but the task as it was.
LEMMA RadioStartFails ==
    ASSUME CoreInv, SettleInv, RxStartFails PROVE CoreInv' /\ SettleInv'
<1>1. /\ rxPc' = "dead" /\ RadioFault(TRUE) /\ setPc' = setPc
      /\ UNCHANGED <<ui, events, commands, powerW, power, stored, rtc, radio, radioW>>
  BY Zenon DEF RxStartFails, displayVars, settingsVars, powerVars
<1>2. history' \in [lateSave: BOOLEAN, fault: BOOLEAN] /\ history'.fault
  BY <1>1, FaultNoted
<1>3. CoreInv'
  BY <1>1, <1>2 DEF CoreInv, SettingsIn
<1> QED
  BY <1>1, <1>2, <1>3 DEF SettleInv

\* A cold boot starts the receiver for the sweep; a wake-up also applies the stored
\* profile and settings, each setter complete or cut short.
LEMMA RadioStarts ==
    ASSUME CoreInv, SettleInv, NEW fault \in Faults \cup {NoFault}, RxStarts(fault)
    PROVE  CoreInv' /\ SettleInv'
<1> DEFINE profile == load_rf_profile(rtc.rf, Len(Candidates))
           started == [radio EXCEPT !.rx = TRUE]
           at == IF fault \in ProfileFaults THEN fault.at ELSE "none"
           tuned == IF ~profile.ok THEN started
                    ELSE apply_rf_profile(started, Candidates[profile.value + 1], at)
           nofault == fault = NoFault
<1>1. /\ rxPc = "start" /\ RadioFault(fault # NoFault) /\ setPc' = setPc
      /\ \/ /\ rxPc' = "sweeping" /\ radio' = started /\ rtc' = rtc
         \/ /\ rxPc' = "sampling" /\ radio' = RestoreSettings(tuned, fault)
            /\ rtc' = [rtc EXCEPT !.rf = profile.word]
      /\ UNCHANGED <<ui, events, commands, powerW, power, stored, radioW>>
  BY Zenon DEF RxStarts, displayVars, powerVars
<1>2. RadioOK(started) /\ started.rx = TRUE /\ started.chip = radio.chip /\ started.cache = radio.cache
  BY ModeChanged DEF CoreInv
<1>3. profile.word \in Word /\ (profile.ok => profile.value \in 0 .. Len(Candidates) - 1)
  <2>1. rtc.rf \in Word
    BY DEF CoreInv, Words
  <2>2. Len(Candidates) \in Nat
    BY CandidateFacts
  <2> QED
    BY <2>1, <2>2, RfLoad, Zenon
<1>4. profile.ok => Candidates[profile.value + 1] \in Profile
  <2> HIDE DEF profile
  <2>1. profile.ok => profile.value + 1 \in 1 .. Len(Candidates)
    BY <1>3, CandidateFacts
  <2> QED
    BY <2>1, CandidateFacts
<1>5. fault = NoFault => at = "none"
  BY DEF NoFault, ProfileFaults
<1>b. (fault # NoFault) \in BOOLEAN
  OBVIOUS
<1> HIDE DEF profile, started, at
<1>6. /\ RadioOK(tuned)
      /\ fault = NoFault => /\ tuned.rx = TRUE
                            /\ (radio.chip = radio.cache => tuned.chip = tuned.cache)
  <2>1. CASE ~profile.ok
    BY <1>2, <2>1
  <2>2. CASE profile.ok
    BY <1>2, <1>4, <1>5, <2>2, Tuned
  <2> QED
    BY <2>1, <2>2
<1> HIDE DEF tuned
<1>7. /\ history' \in [lateSave: BOOLEAN, fault: BOOLEAN] /\ history'.lateSave = history.lateSave
      /\ ~history'.fault => ~history.fault /\ fault = NoFault
  BY <1>1, <1>b, FaultNoted
<1>8. radioW' \in [value: RadioSettings, fresh: BOOLEAN] /\ rtc \in Words
  BY <1>1 DEF CoreInv
<1>9. CASE rxPc' = "sweeping" /\ radio' = started /\ rtc' = rtc
  <2>1. CoreInv'
    BY <1>1, <1>2, <1>7, <1>8, <1>9, CoreRadio
  <2>2. ~history'.fault => Agrees'
    BY <1>2, <1>7, <1>9 DEF SettleInv, Agrees
  <2> QED
    BY <1>1, <1>9, <2>1, <2>2 DEF SettleInv
<1>10. CASE /\ rxPc' = "sampling" /\ radio' = RestoreSettings(tuned, fault)
            /\ rtc' = [rtc EXCEPT !.rf = profile.word]
  <2>1. /\ RadioOK(radio')
        /\ fault = NoFault =>
             /\ Loaded.ok => radio'.cache = Loaded.value /\ radio'.chip = Loaded.value /\ radio'.rx
             /\ ~Loaded.ok => radio' = tuned
    BY <1>6, <1>8, <1>10, Restored DEF Loaded
  <2>2. rtc' \in Words /\ SettingsIn(rtc') = SettingsIn(rtc) /\ rtc'.radio = rtc.radio
    BY <1>3, <1>8, <1>10, Reprofiled
  <2>3. CoreInv'
    BY <1>1, <1>7, <1>8, <2>1, <2>2, CoreRadio
  <2>4. Loaded' = Loaded
    BY <2>2 DEF Loaded
  <2>5. ~history'.fault => Agrees'
    BY <1>6, <1>7, <1>10, <2>1, <2>4 DEF SettleInv, Agrees
  <2> QED
    BY <1>1, <1>10, <2>3, <2>5 DEF SettleInv
<1> QED
  BY <1>1, <1>9, <1>10

\* The sweep's winner is tuned and stored, the settings are put back.
LEMMA RadioSweepEnds ==
    ASSUME CoreInv, SettleInv, NEW fault \in SetterFaults \cup {NoFault}, RxSweepEnds(fault)
    PROVE  CoreInv' /\ SettleInv'
<1>1. /\ rxPc = "sweeping" /\ RadioFault(fault # NoFault) /\ setPc' = setPc /\ rxPc' = "sampling"
      /\ \E outcome \in SweepPicks(radio, Candidates) :
            /\ radio' = RestoreSettings(outcome.radio, fault)
            /\ rtc' = [rtc EXCEPT !.rf = encode_rf_profile(outcome.index)]
      /\ UNCHANGED <<ui, events, commands, powerW, power, stored, radioW>>
  BY Zenon DEF RxSweepEnds, displayVars, powerVars
<1>2. PICK outcome \in SweepPicks(radio, Candidates) :
            /\ radio' = RestoreSettings(outcome.radio, fault)
            /\ rtc' = [rtc EXCEPT !.rf = encode_rf_profile(outcome.index)]
  BY <1>1
<1>3. /\ RadioOK(outcome.radio) /\ outcome.radio.rx = TRUE /\ outcome.index \in Byte
      /\ radio.chip = radio.cache => outcome.radio.chip = outcome.radio.cache
  BY Swept DEF CoreInv
<1>b. (fault # NoFault) \in BOOLEAN
  OBVIOUS
<1>4. /\ history' \in [lateSave: BOOLEAN, fault: BOOLEAN] /\ history'.lateSave = history.lateSave
      /\ ~history'.fault => ~history.fault /\ fault = NoFault
  BY <1>1, <1>b, FaultNoted
<1>5. radioW' \in [value: RadioSettings, fresh: BOOLEAN] /\ rtc \in Words
  BY <1>1 DEF CoreInv
<1>6. encode_rf_profile(outcome.index) \in Word
  <2>1. RfMagic \in Byte /\ RfVersion \in Byte
    BY DEF RfMagic, RfVersion, Byte
  <2> QED
    BY <1>3, <2>1, EncodedWord DEF encode_rf_profile
<1>7. /\ RadioOK(radio')
      /\ fault = NoFault =>
           /\ Loaded.ok => radio'.cache = Loaded.value /\ radio'.chip = Loaded.value /\ radio'.rx
           /\ ~Loaded.ok => radio' = outcome.radio
  BY <1>2, <1>3, <1>5, Restored DEF Loaded
<1>8. rtc' \in Words /\ SettingsIn(rtc') = SettingsIn(rtc) /\ rtc'.radio = rtc.radio
  BY <1>2, <1>5, <1>6, Reprofiled
<1>9. CoreInv'
  BY <1>1, <1>4, <1>5, <1>7, <1>8, CoreRadio
<1>10. Loaded' = Loaded
  BY <1>8 DEF Loaded
<1>11. ~history'.fault => Agrees'
  BY <1>1, <1>3, <1>4, <1>7, <1>10 DEF SettleInv, Agrees
<1> QED
  BY <1>1, <1>9, <1>11 DEF SettleInv

\* A sweep cut short leaves its profile unstored; the settings are put back.
LEMMA RadioSweepFails ==
    ASSUME CoreInv, SettleInv, RxSweepFails PROVE CoreInv' /\ SettleInv'
<1>1. /\ RadioFault(TRUE) /\ setPc' = setPc /\ rxPc' = "sampling"
      /\ \E swept \in SweepFails(radio, Candidates, {f.at : f \in Faults \cap ProfileFaults}) :
            radio' = RestoreSettings(swept, NoFault)
      /\ UNCHANGED <<ui, events, commands, powerW, power, stored, radioW, rtc>>
  BY Zenon DEF RxSweepFails, displayVars, powerVars, settingsVars
<1>2. PICK swept \in SweepFails(radio, Candidates, {f.at : f \in Faults \cap ProfileFaults}) :
            radio' = RestoreSettings(swept, NoFault)
  BY <1>1
<1>3. RadioOK(swept) /\ rtc \in Words
  BY Swept DEF CoreInv
<1>4. RadioOK(radio')
  BY <1>2, <1>3, Restored
<1>5. history' \in [lateSave: BOOLEAN, fault: BOOLEAN] /\ history'.fault
  BY <1>1, FaultNoted
<1>6. radioW' \in [value: RadioSettings, fresh: BOOLEAN] /\ rtc' \in Words
  BY <1>1 DEF CoreInv
<1>7. CoreInv'
  BY <1>1, <1>4, <1>5, <1>6, CoreRadio
<1> QED
  BY <1>1, <1>5, <1>7 DEF SettleInv

\* After the last sampling the watch is told what the driver has.
LEMMA RadioSettles ==
    ASSUME CoreInv, SettleInv, RxSettles PROVE CoreInv' /\ SettleInv'
<1>1. /\ rxPc = "sampling" /\ rxPc' = "capturing" /\ setPc' = setPc
      /\ radioW' = [value |-> radio.cache, fresh |-> TRUE]
      /\ UNCHANGED <<ui, events, commands, powerW, power, stored, rtc, radio, history>>
  BY Zenon DEF RxSettles, displayVars, powerVars
<1>2. radioW' \in [value: RadioSettings, fresh: BOOLEAN] /\ radioW'.fresh /\ radioW'.value = radio.cache
  BY <1>1 DEF CoreInv, RadioOK
<1>3. CoreInv'
  BY <1>1, <1>2 DEF CoreInv, SettingsIn
<1>4. Loaded' = Loaded
  BY <1>1 DEF Loaded
<1>5. ~history'.fault => Agrees'
  BY <1>1, <1>2, <1>4 DEF SettleInv, Agrees
<1> QED
  BY <1>1, <1>3, <1>5 DEF SettleInv

\* The settings task that finds the radio taken waits for it.
LEMMA RadioTaskWakes ==
    ASSUME CoreInv, SettleInv, SettingsTaskWakes PROVE CoreInv' /\ SettleInv'
<1>1. /\ ~RadioFree /\ setPc' = "locking" /\ radioW' = [radioW EXCEPT !.fresh = FALSE]
      /\ UNCHANGED <<ui, events, commands, powerW, power, stored, rtc, radio, history, rxPc>>
  BY Zenon DEF SettingsTaskWakes, displayVars, powerVars
<1>2. radioW' \in [value: RadioSettings, fresh: BOOLEAN] /\ radioW'.value = radioW.value
  BY <1>1 DEF CoreInv
<1>3. CoreInv'
  BY <1>1, <1>2 DEF CoreInv, SettingsIn
<1>4. Loaded' = Loaded
  BY <1>1 DEF Loaded
<1>5. ~history'.fault => Agrees'
  BY <1>1, <1>2, <1>4 DEF SettleInv, Agrees
<1> QED
  BY <1>1, <1>3, <1>5 DEF SettleInv

\* The settings task that has the radio gives it what the watch holds by then.
LEMMA RadioTaskApplies ==
    ASSUME CoreInv, SettleInv, NEW fault \in SetterFaults \cup {NoFault}, SettingsTaskApplies(fault)
    PROVE  CoreInv' /\ SettleInv'
<1>1. /\ rxPc \notin {"sweeping", "sampling"} /\ setPc' = "waiting"
      /\ radioW' = [radioW EXCEPT !.fresh = FALSE] /\ RadioFault(fault # NoFault)
      /\ radio' = apply_pending_settings(radio, radioW.value, fault)
      /\ UNCHANGED <<ui, events, commands, powerW, power, stored, rtc, rxPc>>
  BY Zenon DEF SettingsTaskApplies, displayVars, powerVars, RadioFree
<1>2. /\ radioW' \in [value: RadioSettings, fresh: BOOLEAN] /\ radioW'.value = radioW.value
      /\ radioW.value \in RadioSettings /\ rtc \in Words
  BY <1>1 DEF CoreInv
<1>b. (fault # NoFault) \in BOOLEAN
  OBVIOUS
<1>3. /\ history' \in [lateSave: BOOLEAN, fault: BOOLEAN] /\ history'.lateSave = history.lateSave
      /\ ~history'.fault => ~history.fault /\ fault = NoFault
  BY <1>1, <1>b, FaultNoted
<1>4. /\ RadioOK(radio')
      /\ (fault = NoFault /\ radio.chip = radio.cache) =>
            radio'.cache = radioW.value /\ radio'.chip = radioW.value /\ (radio.rx => radio'.rx)
  BY <1>1, <1>2, AppliedPending DEF CoreInv
<1>5. CoreInv'
  BY <1>1, <1>2, <1>3, <1>4, CoreRadio
<1>6. Loaded' = Loaded
  BY <1>1 DEF Loaded
<1>7. ~history'.fault => Agrees'
  BY <1>1, <1>2, <1>3, <1>4, <1>6 DEF SettleInv, Agrees
<1> QED
  BY <1>1, <1>5, <1>7 DEF SettleInv
\* A save in the course of the final sampling is remembered as such; one later
\* reaches RTC memory and the watch alike.
LEMMA RadioSaved ==
    ASSUME CoreInv, SettleInv, DispatchApplies PROVE CoreInv' /\ SettleInv'
<1> DEFINE c == Head(commands)
<1>1. /\ commands # <<>> /\ rtc' = Persisted(rtc, c)
      /\ radioW' = [value |-> c.radio, fresh |-> TRUE]
      /\ radio' = radio /\ rxPc' = rxPc /\ setPc' = setPc
      /\ history' = [history EXCEPT !.lateSave = history.lateSave \/ rxPc = "sampling"]
  BY Zenon DEF DispatchApplies, radioVars
<1>2. c \in Command /\ rtc \in Words
  BY <1>1 DEF CoreInv
<1> HIDE DEF c
<1>3. Loaded'.value = c.radio
  BY <1>1, <1>2, Saved DEF Loaded
<1>4. radioW'.value = c.radio /\ radioW'.fresh = TRUE
  BY <1>1
<1>5. /\ history'.fault = history.fault
      /\ ~history'.lateSave => ~history.lateSave /\ rxPc # "sampling"
  BY <1>1 DEF CoreInv
<1>6. ~history'.fault => Agrees'
  BY <1>1, <1>3, <1>4, <1>5 DEF SettleInv, Agrees
<1>7. CoreInv'
  BY CoreDispatch
<1> QED
  BY <1>1, <1>6, <1>7 DEF SettleInv

\* The display task follows the watches and leaves settings in order.
LEMMA DisplayStep ==
    ASSUME CoreInv, NEW fault \in BOOLEAN,
           DisplayTicks(fault) \/ DisplayTakesReading(fault) \/ DisplayNavigates(fault)
    PROVE  CoreInv'
<1>0. UiOK(ui) /\ events \in Seq(UiEvents) /\ commands \in Seq(Command)
  BY DEF CoreInv
<1>1. CASE DisplayTicks(fault)
  <2>1. Draws(ui, fault) /\ UNCHANGED <<events, commands, radioW, powerW, rtc, stored, power, radio, history>>
    BY <1>1, Zenon DEF DisplayTicks, settingsVars, powerVars, radioVars
  <2>2. UiOK(ui')
    BY <1>0, <2>1, DrawsKeep
  <2> QED
    BY <2>1, <2>2 DEF CoreInv, SettingsIn
<1>2. CASE DisplayTakesReading(fault)
  <2> DEFINE u == [ui EXCEPT !.reading = reading.value]
  <2>1. Draws(u, fault) /\ UNCHANGED <<events, commands, radioW, powerW, rtc, stored, power, radio, history>>
    BY <1>2, Zenon DEF DisplayTakesReading, settingsVars, powerVars, radioVars
  <2>3. UiOK(u)
    <3>1. /\ DOMAIN u = {"screen", "reading", "radio", "power", "menu", "frame"}
          /\ u.screen = ui.screen /\ u.menu = ui.menu /\ u.radio = ui.radio /\ u.power = ui.power
      BY <1>0 DEF UiOK
    <3> HIDE DEF u
    <3> QED
      BY <1>0, <3>1 DEF UiOK
  <2> HIDE DEF u
  <2>2. UiOK(ui')
    BY <2>1, <2>3, DrawsKeep
  <2> QED
    BY <2>1, <2>2 DEF CoreInv, SettingsIn
<1>3. CASE DisplayNavigates(fault)
  <2> DEFINE r == Navigate(ui, Head(events))
  <2>1. /\ events # <<>> /\ events' = Tail(events) /\ Draws(r.ui, fault)
        /\ commands' = IF r.command = NoCommand THEN commands ELSE Append(commands, r.command)
        /\ UNCHANGED <<radioW, powerW, rtc, stored, power, radio, history>>
    BY <1>3, Zenon DEF DisplayNavigates, settingsVars, radioVars
  <2>2. Head(events) \in UiEvents /\ Tail(events) \in Seq(UiEvents)
    BY <1>0, <2>1
  <2>3. NavigatesTo(r, ui)
    BY <1>0, <2>2, Navigated
  <2> HIDE DEF r
  <2>4. UiOK(r.ui) /\ (r.command = NoCommand \/ r.command \in Command)
    BY <2>3 DEF NavigatesTo
  <2>5. UiOK(ui')
    BY <2>1, <2>4, DrawsKeep
  <2>6. commands' \in Seq(Command)
    BY <1>0, <2>1, <2>4
  <2> QED
    BY <2>1, <2>2, <2>5, <2>6 DEF CoreInv, SettingsIn
<1> QED
  BY <1>1, <1>2, <1>3

\* What leaves the settings and the radio's tasks alone.
LEMMA Aside ==
    ASSUME CoreInv, SettleInv,
           UNCHANGED <<ui, events, commands, settingsVars, power, radioVars, history>>
    PROVE  CoreInv' /\ SettleInv'
<1>1. /\ rtc' = rtc /\ stored' = stored /\ radioW' = radioW /\ powerW' = powerW /\ power' = power
      /\ commands' = commands /\ events' = events /\ radio' = radio /\ ui' = ui /\ history' = history
      /\ rxPc' = rxPc /\ setPc' = setPc
  BY Zenon DEF settingsVars, radioVars
<1> QED
  BY <1>1 DEF CoreInv, SettingsIn, SettleInv, Agrees, Loaded

\* A boot leaves everything in agreement.
LEMMA FreshSettles == ASSUME Fresh' PROVE SettleInv'
BY DEF Fresh, SettleInv, Agrees

\* Sleep, restarts and power cuts end in a boot.
LEMMA Rebooted ==
    ASSUME CoreInv, DeepSleep \/ Restart \/ PowerLost
    PROVE  CoreInv' /\ Fresh'
<1>0. rtc \in Words /\ stored = SettingsIn(rtc) /\ commands \in Seq(Command)
  BY DEF CoreInv
<1>1. CASE DeepSleep
  <2>1. PICK class \in {"timer_wake", "ui_wake"} : BootedFrom(rtc, class)
    BY <1>1, Zenon DEF DeepSleep
  <2>2. stored' = SettingsIn(rtc)
    BY <1>0, <1>1, Zenon DEF DeepSleep
  <2> QED
    BY <1>0, <2>1, <2>2, Boot
<1>2. CASE Restart
  <2>1. CASE BootedFrom(rtc, "cold_boot") /\ UNCHANGED stored
    BY <1>0, <2>1, Boot
  <2>2. CASE /\ commands # <<>>
             /\ BootedFrom([rtc EXCEPT !.radio = RadioWordOf(Head(commands).radio)], "cold_boot")
             /\ stored' = [stored EXCEPT !.radio = Head(commands).radio]
    <3>1. Head(commands) \in Command
      BY <1>0, <2>2
    <3>2. Head(commands).radio \in RadioSettings
      BY <3>1 DEF Command
    <3>3. /\ [rtc EXCEPT !.radio = RadioWordOf(Head(commands).radio)] \in Words
          /\ SettingsIn([rtc EXCEPT !.radio = RadioWordOf(Head(commands).radio)]) =
                [SettingsIn(rtc) EXCEPT !.radio = Head(commands).radio]
      BY <1>0, <3>2, HalfSaved
    <3> QED
      BY <1>0, <2>2, <3>3, Boot
  <2> QED
    BY <1>2, <2>1, <2>2, Zenon DEF Restart
<1>3. CASE PowerLost
  <2>1. PICK words \in InitialRtc : BootedFrom(words, "cold_boot") /\ stored' = SettingsIn(words)
    BY <1>3, Zenon DEF PowerLost
  <2>2. words \in Words
    BY Zenon, SettingsAssumption DEF Words
  <2> QED
    BY <2>1, <2>2, Boot
<1> QED
  BY <1>1, <1>2, <1>3
\* Every step keeps the settings in order and in agreement.
LEMMA SettingsStep == CoreInv /\ SettleInv /\ [Next]_vars => CoreInv' /\ SettleInv'
<1> SUFFICES ASSUME CoreInv, SettleInv, [Next]_vars PROVE CoreInv' /\ SettleInv'
  OBVIOUS
<1>f. Faults \cap SetterFaults \subseteq SetterFaults
  OBVIOUS
<1>1. ASSUME NEW event \in UiEvents, UiInput(event) PROVE CoreInv' /\ SettleInv'
  <2>1. /\ events' = Append(events, event)
        /\ rtc' = rtc /\ stored' = stored /\ radioW' = radioW /\ powerW' = powerW /\ power' = power
        /\ commands' = commands /\ radio' = radio /\ ui' = ui /\ history' = history
        /\ rxPc' = rxPc /\ setPc' = setPc
    BY <1>1, Zenon DEF UiInput, settingsVars, powerVars, radioVars
  <2>2. events' \in Seq(UiEvents)
    BY <2>1 DEF CoreInv
  <2> QED
    BY <2>1, <2>2 DEF CoreInv, SettingsIn, SettleInv, Agrees, Loaded
<1>2. ASSUME NEW fault \in BOOLEAN,
             DisplayTicks(fault) \/ DisplayTakesReading(fault) \/ DisplayNavigates(fault)
      PROVE  CoreInv' /\ SettleInv'
  <2>1. CoreInv'
    BY <1>2, DisplayStep
  <2>2. rtc' = rtc /\ radioW' = radioW /\ radio' = radio /\ history' = history /\ rxPc' = rxPc /\ setPc' = setPc
    BY <1>2, Zenon DEF DisplayTicks, DisplayTakesReading, DisplayNavigates, settingsVars, radioVars
  <2> QED
    BY <2>1, <2>2 DEF SettleInv, Agrees, Loaded
<1>3. CASE DispatchApplies
  BY <1>3, RadioSaved
<1>4. CASE RxStartFails
  BY <1>4, RadioStartFails
<1>5. ASSUME NEW fault \in Faults \cup {NoFault}, RxStarts(fault) PROVE CoreInv' /\ SettleInv'
  BY <1>5, RadioStarts
<1>6. ASSUME NEW fault \in (Faults \cap SetterFaults) \cup {NoFault},
             RxSweepEnds(fault) \/ SettingsTaskApplies(fault)
      PROVE  CoreInv' /\ SettleInv'
  <2>1. fault \in SetterFaults \cup {NoFault}
    BY Zenon
  <2> QED
    BY <1>6, <2>1, RadioSweepEnds, RadioTaskApplies
<1>7. CASE RxSweepFails
  BY <1>7, RadioSweepFails
<1>8. CASE RxSettles
  BY <1>8, RadioSettles
<1>9. CASE SettingsTaskWakes
  BY <1>9, RadioTaskWakes
<1>10. CASE ReadingArrives \/ OtaMoves \/ TimePasses
  <2>1. UNCHANGED <<ui, events, commands, settingsVars, power, radioVars, history>>
    BY <1>10, Zenon DEF ReadingArrives, OtaMoves, TimePasses, displayVars, powerVars
  <2> QED
    BY <2>1, Aside
<1>11. CASE DeepSleep \/ Restart \/ PowerLost
  BY <1>11, Rebooted, FreshSettles
<1>12. CASE UNCHANGED vars
  <2>1. UNCHANGED <<ui, events, commands, settingsVars, power, radioVars, history>>
    BY <1>12, Zenon DEF vars, displayVars, powerVars
  <2> QED
    BY <2>1, Aside
<1> QED
  BY <1>1, <1>2, <1>3, <1>4, <1>5, <1>6, <1>7, <1>8, <1>9, <1>10, <1>11, <1>12, Zenon DEF Next

\* Both invariants hold in every state.
LEMMA SettingsAlways == Spec => [](CoreInv /\ SettleInv)
<1>1. Init => CoreInv /\ SettleInv
  <2> SUFFICES ASSUME Init PROVE CoreInv /\ SettleInv
    OBVIOUS
  <2>1. CoreInv /\ Fresh
    BY Started
  <2> QED
    BY <2>1 DEF Fresh, SettleInv, Agrees
<1> QED
  BY <1>1, SettingsStep, PTL DEF Spec

\* RTC memory gives back the settings last saved over any sequence of sleeps,
\* restarts, saves cut between their two words and power cuts, for any words,
\* old versions included, that RTC memory may hold when power comes.
THEOREM StoredSurvive == Spec => []StoredSettingsSurvive
<1>1. CoreInv => StoredSettingsSurvive
  BY DEF CoreInv, StoredSettingsSurvive
<1> QED
  BY <1>1, SettingsAlways, PTL

\* Once the tasks have come to rest, chip, driver, watch and RTC memory agree,
\* for any candidates of the sweep and any faults the model may be given.
THEOREM SettledAgree == Spec => []SettledSettingsAgree
<1>1. CoreInv /\ SettleInv => SettledSettingsAgree
  BY DEF CoreInv, SettleInv, Agrees, Loaded, SettledSettingsAgree
<1> QED
  BY <1>1, SettingsAlways, PTL

(***************************************************************************)
(* The idle countdown: with predictive sleep enabled, what is left of it   *)
(* and the time since the last input make up the idle timeout.             *)
(***************************************************************************)
IdleInv ==
    /\ left \in 0 .. IdleMax /\ quiet \in 0 .. IdleMax
    /\ power.predictive => left + quiet >= power.idle

\* A tick takes from the one at most what it gives to the other.
LEMMA TickKeeps ==
    ASSUME left \in 0 .. 180, quiet \in 0 .. 180, NEW i \in 5 .. 180, TickSecs \in Nat \ {0},
           left' = IF left > TickSecs THEN left - TickSecs ELSE 0,
           quiet' = Lower(quiet + TickSecs, IF i > quiet THEN i ELSE quiet)
    PROVE  left' \in 0 .. 180 /\ quiet' \in 0 .. 180 /\ (left + quiet >= i => left' + quiet' >= i)
BY DEF Lower

\* Input, time and new settings keep the countdown and the quiet time adding up.
LEMMA IdleStep == CoreInv /\ CoreInv' /\ IdleInv /\ [Next]_vars => IdleInv'
<1> SUFFICES ASSUME CoreInv, CoreInv', IdleInv, [Next]_vars PROVE IdleInv'
  OBVIOUS
<1>0. /\ power \in PowerSettings /\ power' \in PowerSettings
      /\ power.idle \in 5 .. 180 /\ power'.idle \in 5 .. 180
      /\ left \in 0 .. 180 /\ quiet \in 0 .. 180
  BY DEF CoreInv, PowerSettings, IdleInv, IdleMin, IdleMax
<1>s. ASSUME UNCHANGED powerVars PROVE IdleInv'
  BY <1>s DEF powerVars, IdleInv
<1>1. ASSUME NEW event \in UiEvents, UiInput(event) PROVE IdleInv'
  BY <1>1, <1>s, Zenon DEF UiInput
<1>2. ASSUME NEW fault \in BOOLEAN, DisplayTicks(fault) \/ DisplayTakesReading(fault) PROVE IdleInv'
  BY <1>2, <1>s, Zenon DEF DisplayTicks, DisplayTakesReading
<1>3. ASSUME NEW fault \in BOOLEAN, DisplayNavigates(fault) PROVE IdleInv'
  <2>1. power' = power /\ quiet' = 0 /\ left' = IF power.predictive THEN power.idle ELSE left
    BY <1>3, Zenon DEF DisplayNavigates, notify_ui_activity
  <2> QED
    BY <1>0, <2>1 DEF IdleInv, IdleMax
<1>4. CASE DispatchApplies
  <2> DEFINE c == Head(commands)
  <2>1. /\ commands # <<>> /\ quiet' = quiet /\ power' = clamp_power_config(c.power)
        /\ left' = next_ui_idle_deadline_secs(c.power.predictive, TRUE, 0, left,
                                              clamp_power_config(c.power).idle)
    BY <1>4, Zenon DEF DispatchApplies, set_settings
  <2>2. c \in Command
    BY <2>1 DEF CoreInv
  <2> HIDE DEF c
  <2>3. power' = c.power
    BY <2>1, <2>2, ClampKeeps DEF Command
  <2>4. left' = IF ~power'.predictive THEN 0 ELSE 0 + power'.idle
    BY <2>1, <2>3, Zenon DEF next_ui_idle_deadline_secs
  <2>5. left' \in 0 .. 180 /\ (power'.predictive => left' = power'.idle)
    BY <1>0, <2>4
  <2>6. quiet' \in 0 .. 180
    BY <1>0, <2>1, Zenon
  <2>7. power'.predictive => left' + quiet' >= power'.idle
    BY <1>0, <2>5, <2>6
  <2> QED
    BY <2>5, <2>6, <2>7 DEF IdleInv, IdleMax
<1>5. ASSUME NEW fault, RxStarts(fault) \/ RxSweepEnds(fault) \/ SettingsTaskApplies(fault) PROVE IdleInv'
  BY <1>5, <1>s, Zenon DEF RxStarts, RxSweepEnds, SettingsTaskApplies
<1>6. CASE RxStartFails \/ RxSweepFails \/ RxSettles \/ SettingsTaskWakes \/ ReadingArrives \/ OtaMoves
  BY <1>6, <1>s, Zenon DEF RxStartFails, RxSweepFails, RxSettles, SettingsTaskWakes, ReadingArrives, OtaMoves
<1>7. CASE TimePasses
  <2>1. /\ power' = power /\ left' = IF left > TickSecs THEN left - TickSecs ELSE 0
        /\ quiet' = Lower(quiet + TickSecs, IF power.idle > quiet THEN power.idle ELSE quiet)
    BY <1>7, Zenon DEF TimePasses
  <2>2. TickSecs \in Nat \ {0}
    BY SettingsAssumption
  <2>3. left' \in 0 .. 180 /\ quiet' \in 0 .. 180 /\ (left + quiet >= power.idle => left' + quiet' >= power.idle)
    BY <1>0, <2>1, <2>2, TickKeeps
  <2> QED
    BY <2>1, <2>3 DEF IdleInv, IdleMax
<1>8. CASE DeepSleep \/ Restart \/ PowerLost
  <2>1. Fresh'
    BY <1>8, Rebooted
  <2>2. left' = 0 /\ quiet' = power'.idle
    BY <2>1, Zenon DEF Fresh
  <2> QED
    BY <1>0, <2>2 DEF IdleInv, IdleMax
<1>9. CASE UNCHANGED vars
  BY <1>9, <1>s, Zenon DEF vars
<1> QED
  BY <1>1, <1>2, <1>3, <1>4, <1>5, <1>6, <1>7, <1>8, <1>9, Zenon DEF Next

\* The countdown's invariant holds along with the two above.
LEMMA IdleAlways == Spec => [](CoreInv /\ SettleInv /\ IdleInv)
<1>1. Init => IdleInv
  <2> SUFFICES ASSUME Init PROVE IdleInv
    OBVIOUS
  <2>1. CoreInv /\ Fresh
    BY Started
  <2>2. power.idle \in 5 .. 180
    BY <2>1 DEF CoreInv, PowerSettings, IdleMin, IdleMax
  <2>3. left = 0 /\ quiet = power.idle
    BY <2>1, Zenon DEF Fresh
  <2> QED
    BY <2>2, <2>3 DEF IdleInv, IdleMax
<1> QED
  BY <1>1, SettingsAlways, IdleStep, PTL DEF Spec

\* The device never goes to deep sleep within the idle timeout of the last
\* input, whatever the timeout is and however it is changed meanwhile.
THEOREM NoSleepInUse == Spec => NoSleepWhileUsed
<1>1. CoreInv /\ IdleInv /\ [Next]_vars => [DeepSleep => quiet >= power.idle]_vars
  <2> SUFFICES ASSUME CoreInv, IdleInv, DeepSleep PROVE quiet >= power.idle
    OBVIOUS
  <2>1. power.predictive /\ 0 >= left
    BY Zenon DEF DeepSleep, predictive_sleep_allowed
  <2>2. power.idle \in 5 .. 180
    BY DEF CoreInv, PowerSettings, IdleMin, IdleMax
  <2> QED
    BY <2>1, <2>2 DEF IdleInv, IdleMax
<1> QED
  BY <1>1, IdleAlways, PTL DEF Spec, NoSleepWhileUsed

(***************************************************************************)
(* Depths of the channels, and the rest of the types.                      *)
(***************************************************************************)
BookInv ==
    /\ Len(events) <= APP_EVENT_CHANNEL_DEPTH /\ Len(commands) <= APP_COMMAND_CHANNEL_DEPTH
    /\ ota \in OtaState /\ wake \in {"cold_boot", "timer_wake", "ui_wake"}
    /\ uses \in Nat /\ incidents \in 0 .. MaxIncidents

\* A bound that is counted up to is not passed.
LEMMA IncidentKeeps ==
    ASSUME incidents \in 0 .. MaxIncidents, NEW n \in {0, 1}, Incidents(n)
    PROVE  incidents' \in 0 .. MaxIncidents
<1>1. MaxIncidents \in Nat
  BY SettingsAssumption
<1> QED
  BY <1>1 DEF Incidents

\* Queues stay within their depths and counters within their bounds.
LEMMA BookStep == CoreInv /\ BookInv /\ [Next]_vars => BookInv'
<1> SUFFICES ASSUME CoreInv, BookInv, [Next]_vars PROVE BookInv'
  OBVIOUS
<1>0. /\ events \in Seq(UiEvents) /\ commands \in Seq(Command)
      /\ APP_EVENT_CHANNEL_DEPTH \in Nat /\ APP_COMMAND_CHANNEL_DEPTH \in Nat
  BY SettingsAssumption DEF CoreInv
<1>b. \A b : B2N(b) \in {0, 1}
  BY DEF B2N
<1>i. ASSUME NEW b, Incidents(B2N(b)) PROVE incidents' \in 0 .. MaxIncidents
  <2>1. B2N(b) \in {0, 1}
    BY <1>b
  <2> QED
    BY <1>i, <2>1, IncidentKeeps DEF BookInv
<1>s. ASSUME UNCHANGED <<events, commands, ota, wake, uses>>, incidents' \in 0 .. MaxIncidents PROVE BookInv'
  BY <1>s DEF BookInv
<1>1. ASSUME NEW event \in UiEvents, UiInput(event) PROVE BookInv'
  <2>1. /\ Len(events) < APP_EVENT_CHANNEL_DEPTH /\ events' = Append(events, event)
        /\ UNCHANGED <<commands, ota, wake, uses, incidents>>
    BY <1>1, Zenon DEF UiInput
  <2>2. Len(events') = Len(events) + 1 /\ Len(events) \in Nat
    BY <1>0, <2>1
  <2>3. Len(events') <= APP_EVENT_CHANNEL_DEPTH
    BY <1>0, <2>1, <2>2
  <2> QED
    BY <2>1, <2>3 DEF BookInv
<1>2. ASSUME NEW fault \in BOOLEAN, DisplayTicks(fault) \/ DisplayTakesReading(fault) PROVE BookInv'
  BY <1>2, <1>i, <1>s, Zenon DEF DisplayTicks, DisplayTakesReading
<1>3. ASSUME NEW fault \in BOOLEAN, DisplayNavigates(fault) PROVE BookInv'
  <2> DEFINE r == Navigate(ui, Head(events))
             m == B2N(<<r.ui.radio, r.ui.power>> # <<ui.radio, ui.power>>)
             n == B2N(ui.screen # "Settings" /\ r.ui.screen = "Settings")
  <2>1. /\ events # <<>> /\ events' = Tail(events) /\ Incidents(B2N(fault))
        /\ r.command # NoCommand => Len(commands) < APP_COMMAND_CHANNEL_DEPTH
        /\ commands' = IF r.command = NoCommand THEN commands ELSE Append(commands, r.command)
        /\ uses' = uses + m + n /\ ota' = ota /\ wake' = wake
    BY <1>3, Zenon DEF DisplayNavigates
  <2>2. m \in {0, 1} /\ n \in {0, 1}
    BY <1>b
  <2>3. incidents' \in 0 .. MaxIncidents
    BY <1>i, <2>1
  <2>4. Head(events) \in UiEvents /\ Len(Tail(events)) = Len(events) - 1 /\ Len(events) \in Nat
    BY <1>0, <2>1
  <2>5. NavigatesTo(r, ui)
    BY <2>4, Navigated DEF CoreInv
  <2> HIDE DEF r, m, n
  <2>6. r.command = NoCommand \/ r.command \in Command
    BY <2>5 DEF NavigatesTo
  <2>7. uses' \in Nat
    BY <2>1, <2>2 DEF BookInv
  <2>8. Len(events') <= APP_EVENT_CHANNEL_DEPTH
    BY <1>0, <2>1, <2>4 DEF BookInv
  <2>9. Len(commands') <= APP_COMMAND_CHANNEL_DEPTH
    <3>1. CASE r.command = NoCommand
      BY <2>1, <3>1 DEF BookInv
    <3>2. CASE r.command # NoCommand
      <4>1. Len(commands') = Len(commands) + 1 /\ Len(commands) \in Nat
        BY <1>0, <2>1, <2>6, <3>2
      <4> QED
        BY <1>0, <2>1, <3>2, <4>1
    <3> QED
      BY <3>1, <3>2
  <2> QED
    BY <2>1, <2>3, <2>7, <2>8, <2>9 DEF BookInv
<1>4. CASE DispatchApplies
  <2>1. commands # <<>> /\ commands' = Tail(commands) /\ UNCHANGED <<events, ota, wake, uses, incidents>>
    BY <1>4, Zenon DEF DispatchApplies, displayVars
  <2>2. Len(Tail(commands)) = Len(commands) - 1 /\ Len(commands) \in Nat
    BY <1>0, <2>1
  <2>3. Len(commands') <= APP_COMMAND_CHANNEL_DEPTH
    BY <1>0, <2>1, <2>2 DEF BookInv
  <2> QED
    BY <2>1, <2>3 DEF BookInv
<1>5. ASSUME NEW fault, RxStarts(fault) \/ RxSweepEnds(fault) \/ SettingsTaskApplies(fault) PROVE BookInv'
  <2>1. Incidents(B2N(fault # NoFault)) /\ UNCHANGED <<events, commands, ota, wake, uses>>
    BY <1>5, Zenon DEF RxStarts, RxSweepEnds, SettingsTaskApplies, RadioFault, displayVars
  <2> QED
    BY <2>1, <1>i, <1>s
<1>6. CASE RxStartFails \/ RxSweepFails
  <2>1. Incidents(B2N(TRUE)) /\ UNCHANGED <<events, commands, ota, wake, uses>>
    BY <1>6, Zenon DEF RxStartFails, RxSweepFails, RadioFault, displayVars
  <2> QED
    BY <2>1, <1>i, <1>s
<1>7. CASE RxSettles \/ SettingsTaskWakes \/ ReadingArrives \/ TimePasses \/ UNCHANGED vars
  <2>1. UNCHANGED <<events, commands, ota, wake, uses, incidents>>
    BY <1>7, Zenon DEF RxSettles, SettingsTaskWakes, ReadingArrives, TimePasses, displayVars, vars
  <2> QED
    BY <2>1 DEF BookInv
<1>8. CASE OtaMoves
  <2>1. ota' \in OtaSuccessors(ota) /\ Incidents(B2N(ota' = "Downloading")) /\ UNCHANGED <<events, commands, wake, uses>>
    BY <1>8, Zenon DEF OtaMoves, displayVars
  <2>2. ota' \in OtaState
    BY <2>1 DEF BookInv, OtaState, OtaSuccessors
  <2>3. incidents' \in 0 .. MaxIncidents
    BY <2>1, <1>i
  <2> QED
    BY <2>1, <2>2, <2>3 DEF BookInv
<1>9. CASE DeepSleep \/ Restart \/ PowerLost
  <2>1. /\ Incidents(1) /\ ota' \in {"Inactive", "PendingConfirmation"}
        /\ \E words, class : class \in {"cold_boot", "timer_wake", "ui_wake"} /\ BootedFrom(words, class)
    BY <1>9 DEF DeepSleep, Restart, PowerLost
  <2>2. /\ wake' \in {"cold_boot", "timer_wake", "ui_wake"} /\ uses' = uses
        /\ events' = <<>> /\ commands' = <<>>
    BY <2>1, Zenon DEF BootedFrom
  <2>3. incidents' \in 0 .. MaxIncidents
    BY <2>1, IncidentKeeps DEF BookInv
  <2>4. ota' \in OtaState
    BY <2>1 DEF OtaState
  <2>5. Len(events') = 0 /\ Len(commands') = 0
    BY <2>2
  <2> QED
    BY <1>0, <2>2, <2>3, <2>4, <2>5 DEF BookInv
<1> QED
  BY <1>1, <1>2, <1>3, <1>4, <1>5, <1>6, <1>7, <1>8, <1>9, Zenon DEF Next

\* Settings are within their bounds wherever they are, in any word RTC memory
\* holds, in the menu, the queues and the radio, and the queues and counters
\* within theirs.
THEOREM SettingsTypeCorrect == Spec => []TypeOK
<1>1. Init => BookInv
  <2> SUFFICES ASSUME Init PROVE BookInv
    OBVIOUS
  <2>1. ota = "Inactive" /\ wake = "cold_boot" /\ uses = 0 /\ incidents = 0 /\ events = <<>> /\ commands = <<>>
    BY Zenon DEF Init
  <2>2. /\ APP_EVENT_CHANNEL_DEPTH \in Nat /\ APP_COMMAND_CHANNEL_DEPTH \in Nat /\ MaxIncidents \in Nat
    BY SettingsAssumption
  <2>3. Len(events) = 0 /\ Len(commands) = 0
    BY <2>1
  <2> QED
    BY <2>1, <2>2, <2>3 DEF BookInv, OtaState
<1>2. Spec => [](CoreInv /\ SettleInv /\ IdleInv /\ BookInv)
  BY <1>1, IdleAlways, BookStep, PTL DEF Spec
<1>3. CoreInv /\ SettleInv /\ IdleInv /\ BookInv => TypeOK
  <2> SUFFICES ASSUME CoreInv, SettleInv, IdleInv, BookInv PROVE TypeOK
    OBVIOUS
  <2>1. ui.screen \in {"Main", "Overview", "Settings"} /\ ui.radio \in RadioSettings /\ ui.power \in PowerSettings
    BY PendingInBounds DEF CoreInv, UiOK, Screens
  <2>2. \A i \in DOMAIN commands : commands[i].radio \in RadioSettings /\ commands[i].power \in PowerSettings
    <3>1. commands \in Seq(Command)
      BY DEF CoreInv
    <3>2. \A i \in DOMAIN commands : commands[i] \in Command
      BY <3>1
    <3>3. \A c \in Command : c.radio \in RadioSettings /\ c.power \in PowerSettings
      BY DEF Command
    <3> QED
      BY <3>2, <3>3, Zenon
  <2>3. radio.cache \in RadioSettings /\ radio.chip \in RadioSettings /\ radio.rx \in BOOLEAN
    BY DEF CoreInv, RadioOK
  <2>4. stored.radio \in RadioSettings /\ stored.power \in PowerSettings
    BY Held DEF CoreInv, SettingsIn
  <2> QED
    BY <2>1, <2>2, <2>3, <2>4 DEF CoreInv, SettleInv, IdleInv, BookInv, TypeOK, Words
<1> QED
  BY <1>2, <1>3, PTL

(***************************************************************************)
(* The screen.                                                             *)
(***************************************************************************)
\* The key of a frame, and what the frame shows, screen by screen.
LEMMA Frames ==
    ASSUME NEW u, NEW t
    PROVE  /\ (u.screen = "Main" /\ u.reading = NoReading) =>
                 derive_frame(u, t) = Waiting /\ Drawing(u, t) = Waiting
           /\ (u.screen = "Main" /\ u.reading # NoReading) =>
                 /\ derive_frame(u, t) = [kind |-> "Main", id |-> u.reading.id, time |-> t]
                 /\ Drawing(u, t) = [kind |-> "Main", id |-> u.reading.id, time |-> t]
           /\ u.screen = "Overview" =>
                 /\ derive_frame(u, t) =
                      [kind |-> "Overview", rssi |-> u.reading.id, threshold |-> ShownThreshold(u)]
                 /\ Drawing(u, t) = [kind |-> "Overview", rssi |-> u.reading.id]
           /\ u.screen = "Settings" =>
                 /\ derive_frame(u, t) =
                      [kind |-> "Settings", nav |-> u.menu.view.selected, editing |-> u.menu.editing,
                       radio |-> u.radio, power |-> u.power]
                 /\ Drawing(u, t) = SettingsDrawing(u.menu)
<1>1. ASSUME u.screen = "Main", u.reading = NoReading
      PROVE  derive_frame(u, t) = Waiting /\ Drawing(u, t) = Waiting
  BY <1>1 DEF derive_frame, Drawing, Waiting
<1>2. ASSUME u.screen = "Main", u.reading # NoReading
      PROVE  /\ derive_frame(u, t) = [kind |-> "Main", id |-> u.reading.id, time |-> t]
             /\ Drawing(u, t) = [kind |-> "Main", id |-> u.reading.id, time |-> t]
  BY <1>2 DEF derive_frame, Drawing, MainDrawing
<1>3. ASSUME u.screen = "Overview"
      PROVE  /\ derive_frame(u, t) =
                  [kind |-> "Overview", rssi |-> u.reading.id, threshold |-> ShownThreshold(u)]
             /\ Drawing(u, t) = [kind |-> "Overview", rssi |-> u.reading.id]
  BY <1>3 DEF derive_frame, Drawing, OverviewDrawing
<1>4. ASSUME u.screen = "Settings"
      PROVE  /\ derive_frame(u, t) =
                  [kind |-> "Settings", nav |-> u.menu.view.selected, editing |-> u.menu.editing,
                   radio |-> u.radio, power |-> u.power]
             /\ Drawing(u, t) = SettingsDrawing(u.menu)
  BY <1>4 DEF derive_frame, Drawing
<1> QED
  BY <1>1, <1>2, <1>3, <1>4, Zenon

\* Menus with the same pending settings, view and mode look alike.
LEMMA LookAlike ==
    ASSUME NEW m, MenuOK(m), NEW n, MenuOK(n), PendingRadio(m) = PendingRadio(n),
           PendingPower(m) = PendingPower(n), m.view = n.view, m.editing = n.editing
    PROVE  SettingsDrawing(m) = SettingsDrawing(n)
<1>0. ItemsOK(m.items) /\ ItemsOK(n.items)
  BY DEF MenuOK
<1>1. \A i \in 1 .. 7 : /\ m.items[i].kind = "Numeric" /\ n.items[i].kind = "Numeric"
                        /\ m.items[i].pending \in Values(i) /\ n.items[i].pending \in Values(i)
  <2>1. \A i \in 1 .. 7 : \A it \in ItemAt(i) : it.kind = "Numeric" /\ it.pending \in Values(i)
    BY DEF ItemAt
  <2> QED
    BY <1>0, <2>1 DEF ItemsOK
<1>2. /\ m.items[1].pending = n.items[1].pending /\ m.items[2].pending = n.items[2].pending
      /\ m.items[3].pending = n.items[3].pending /\ m.items[4].pending = n.items[4].pending
      /\ m.items[6].pending = n.items[6].pending /\ m.items[7].pending = n.items[7].pending
  BY DEF PendingRadio, PendingPower
<1>3. m.items[5].pending = n.items[5].pending
  <2>1. (m.items[5].pending # 0) = (n.items[5].pending # 0)
    BY DEF PendingPower
  <2>2. m.items[5].pending \in 0 .. 1 /\ n.items[5].pending \in 0 .. 1
    BY <1>1 DEF Values, Lo, Hi
  <2> QED
    BY <2>1, <2>2
<1>4. m.items[8] = n.items[8] /\ Len(m.items) = 8 /\ Len(n.items) = 8
  BY <1>0 DEF ItemsOK
<1> DEFINE value(x, i) == IF is_editable(x.items[i + 1]) THEN x.items[i + 1].pending ELSE ""
           D == visible_range(m.view) \cap 0 .. 7
<1>5. \A i \in 0 .. 7 : value(m, i) = value(n, i)
  <2>1. ASSUME NEW i \in 0 .. 6 PROVE value(m, i) = value(n, i)
    <3>1. i + 1 \in 1 .. 7 /\ (i + 1) \in {1, 2, 3, 4, 5, 6, 7}
      OBVIOUS
    <3>2. is_editable(m.items[i + 1]) /\ is_editable(n.items[i + 1])
      BY <1>1, <3>1 DEF is_editable
    <3>3. m.items[i + 1].pending = n.items[i + 1].pending
      BY <1>2, <1>3, <3>1
    <3> QED
      BY <3>2, <3>3
  <2>2. value(m, 7) = value(n, 7)
    <3>1. 7 + 1 = 8
      OBVIOUS
    <3>2. m.items[7 + 1] = n.items[7 + 1]
      BY <1>4, <3>1
    <3> QED
      BY <3>2, Zenon
  <2>3. \A i \in 0 .. 7 : i \in 0 .. 6 \/ i = 7
    OBVIOUS
  <2> HIDE DEF value
  <2> QED
    BY <2>1, <2>2, <2>3, Zenon
<1>6. /\ render_items(m) = [i \in D |-> [y |-> item_y(m.view, i), value |-> value(m, i),
                                         selected |-> i = m.view.selected,
                                         editing |-> i = m.view.selected /\ m.editing]]
      /\ render_items(n) = [i \in D |-> [y |-> item_y(m.view, i), value |-> value(n, i),
                                         selected |-> i = m.view.selected,
                                         editing |-> i = m.view.selected /\ m.editing]]
  <2>1. Len(m.items) - 1 = 7 /\ Len(n.items) - 1 = 7
    BY <1>4
  <2> QED
    BY <2>1, Zenon DEF render_items
<1> HIDE DEF value
<1>7. render_items(m) = render_items(n)
  <2>1. \A i \in D : value(m, i) = value(n, i)
    BY <1>5, Zenon
  <2> HIDE DEF D
  <2> QED
    BY <1>6, <2>1
<1>8. scroll_indicator(m) = scroll_indicator(n)
  BY Zenon DEF scroll_indicator
<1> QED
  BY <1>7, <1>8, Zenon DEF SettingsDrawing

SettingsKey(a, b, c, d) == [kind |-> "Settings", nav |-> a, editing |-> b, radio |-> c, power |-> d]

\* A key of the settings screen tells what it was made of.
LEMMA KeyTells ==
    ASSUME NEW a, NEW b, NEW c, NEW d, NEW aa, NEW bb, NEW cc, NEW dd,
           SettingsKey(a, b, c, d) = SettingsKey(aa, bb, cc, dd)
    PROVE  a = aa /\ b = bb /\ c = cc /\ d = dd
<1> DEFINE f == [kind |-> "Settings", nav |-> a, editing |-> b, radio |-> c, power |-> d]
           g == [kind |-> "Settings", nav |-> aa, editing |-> bb, radio |-> cc, power |-> dd]
<1>1. f.nav = a /\ f.editing = b /\ f.radio = c /\ f.power = d
  BY Zenon
<1>2. g.nav = aa /\ g.editing = bb /\ g.radio = cc /\ g.power = dd
  BY Zenon
<1>3. f = g
  BY Zenon DEF SettingsKey
<1> HIDE DEF f, g
<1> QED
  BY <1>1, <1>2, <1>3, Zenon

\* Controllers with the same key, scrolled alike, are drawn alike.
LEMMA DrawnAlike ==
    ASSUME NEW u, UiOK(u), NEW w, UiOK(w), NEW t, NEW v, derive_frame(u, t) = derive_frame(w, v),
           (/\ u.screen = "Settings" /\ w.screen = "Settings"
            /\ u.menu.view.selected = w.menu.view.selected) => u.menu.view = w.menu.view
    PROVE  Drawing(u, t) = Drawing(w, v)
<1> DEFINE F(x, y) ==
             \/ /\ x.screen = "Main" /\ derive_frame(x, y) = Waiting /\ Drawing(x, y) = Waiting
             \/ /\ x.screen = "Main"
                /\ derive_frame(x, y) = [kind |-> "Main", id |-> x.reading.id, time |-> y]
                /\ Drawing(x, y) = [kind |-> "Main", id |-> x.reading.id, time |-> y]
             \/ /\ x.screen = "Overview"
                /\ derive_frame(x, y) =
                     [kind |-> "Overview", rssi |-> x.reading.id, threshold |-> ShownThreshold(x)]
                /\ Drawing(x, y) = [kind |-> "Overview", rssi |-> x.reading.id]
             \/ /\ x.screen = "Settings"
                /\ derive_frame(x, y) =
                     [kind |-> "Settings", nav |-> x.menu.view.selected, editing |-> x.menu.editing,
                      radio |-> x.radio, power |-> x.power]
                /\ Drawing(x, y) = SettingsDrawing(x.menu)
<1>1. ASSUME NEW x, UiOK(x), NEW y PROVE F(x, y)
  <2>1. x.screen = "Main" \/ x.screen = "Overview" \/ x.screen = "Settings"
    BY <1>1 DEF UiOK, Screens
  <2> QED
    BY <2>1, Frames, Zenon
<1>2. F(u, t) /\ F(w, v)
  BY <1>1
<1>3. CASE u.screen = "Settings" /\ w.screen = "Settings"
  <2>1. /\ derive_frame(u, t) =
             [kind |-> "Settings", nav |-> u.menu.view.selected, editing |-> u.menu.editing,
              radio |-> u.radio, power |-> u.power]
        /\ derive_frame(w, v) =
             [kind |-> "Settings", nav |-> w.menu.view.selected, editing |-> w.menu.editing,
              radio |-> w.radio, power |-> w.power]
        /\ Drawing(u, t) = SettingsDrawing(u.menu) /\ Drawing(w, v) = SettingsDrawing(w.menu)
    BY <1>3, Frames
  <2>2. /\ u.menu.view.selected = w.menu.view.selected /\ u.menu.editing = w.menu.editing
        /\ u.radio = w.radio /\ u.power = w.power
    <3>1. SettingsKey(u.menu.view.selected, u.menu.editing, u.radio, u.power) =
             SettingsKey(w.menu.view.selected, w.menu.editing, w.radio, w.power)
      BY <2>1, Zenon DEF SettingsKey
    <3> QED
      BY <3>1, KeyTells
  <2>3. u.menu.view = w.menu.view
    BY <1>3, <2>2
  <2> QED
    BY <2>1, <2>2, <2>3, LookAlike DEF UiOK
<1>4. CASE ~(u.screen = "Settings" /\ w.screen = "Settings")
  BY <1>2, <1>4 DEF Waiting
<1> QED
  BY <1>3, <1>4
\* The frame last drawn is no part of a frame.
LEMMA MarkedAlike ==
    ASSUME NEW u, UiOK(u), NEW key, NEW t
    PROVE  /\ Drawing(mark_rendered(u, key), t) = Drawing(u, t)
           /\ derive_frame(mark_rendered(u, key), t) = derive_frame(u, t)
<1> DEFINE w == mark_rendered(u, key)
<1>1. /\ w.screen = u.screen /\ w.reading = u.reading /\ w.menu = u.menu /\ w.radio = u.radio
      /\ w.power = u.power
  BY Marked
<1> HIDE DEF w
<1>2. ShownThreshold(w) = ShownThreshold(u)
  BY <1>1, Zenon DEF ShownThreshold
<1>3. u.screen \in {"Main", "Overview", "Settings"}
  BY DEF UiOK, Screens
<1>4. CASE u.screen = "Main" /\ u.reading = NoReading
  <2>1. /\ derive_frame(u, t) = Waiting /\ Drawing(u, t) = Waiting
        /\ derive_frame(w, t) = Waiting /\ Drawing(w, t) = Waiting
    BY <1>1, <1>4, Frames
  <2> QED
    BY <2>1, Zenon DEF w
<1>5. CASE u.screen = "Main" /\ u.reading # NoReading
  <2>1. /\ derive_frame(u, t) = [kind |-> "Main", id |-> u.reading.id, time |-> t]
        /\ Drawing(u, t) = [kind |-> "Main", id |-> u.reading.id, time |-> t]
        /\ derive_frame(w, t) = [kind |-> "Main", id |-> w.reading.id, time |-> t]
        /\ Drawing(w, t) = [kind |-> "Main", id |-> w.reading.id, time |-> t]
    BY <1>1, <1>5, Frames
  <2> QED
    BY <1>1, <2>1, Zenon DEF w
<1>6. CASE u.screen = "Overview"
  <2>1. /\ derive_frame(u, t) = [kind |-> "Overview", rssi |-> u.reading.id, threshold |-> ShownThreshold(u)]
        /\ Drawing(u, t) = [kind |-> "Overview", rssi |-> u.reading.id]
        /\ derive_frame(w, t) = [kind |-> "Overview", rssi |-> w.reading.id, threshold |-> ShownThreshold(w)]
        /\ Drawing(w, t) = [kind |-> "Overview", rssi |-> w.reading.id]
    BY <1>1, <1>6, Frames
  <2> QED
    BY <1>1, <1>2, <2>1, Zenon DEF w
<1>7. CASE u.screen = "Settings"
  <2>1. /\ derive_frame(u, t) = [kind |-> "Settings", nav |-> u.menu.view.selected, editing |-> u.menu.editing,
                                 radio |-> u.radio, power |-> u.power]
        /\ Drawing(u, t) = SettingsDrawing(u.menu)
        /\ derive_frame(w, t) = [kind |-> "Settings", nav |-> w.menu.view.selected, editing |-> w.menu.editing,
                                 radio |-> w.radio, power |-> w.power]
        /\ Drawing(w, t) = SettingsDrawing(w.menu)
    BY <1>1, <1>7, Frames
  <2> QED
    BY <1>1, <2>1, Zenon DEF w
<1> QED
  BY <1>3, <1>4, <1>5, <1>6, <1>7

\* A key is never that of no frame.
LEMMA KeyIsSome == ASSUME NEW u, UiOK(u), NEW t PROVE derive_frame(u, t) # NoFrame
<1>1. derive_frame(u, t).kind \in {"Waiting", "Main", "Overview", "Settings"}
  <2>1. u.screen \in {"Main", "Overview", "Settings"}
    BY DEF UiOK, Screens
  <2> QED
    BY <2>1, Frames DEF Waiting
<1>2. NoFrame.kind = "none"
  BY DEF NoFrame
<1> QED
  BY <1>1, <1>2

(***************************************************************************)
(* What is on the screen, message and failed transfer apart, is what the   *)
(* controller would draw, and the frame it remembers is the key of that.   *)
(***************************************************************************)
GlassInv ==
    \/ glass.kind \in {"Message", "Garbled"}
    \/ \E t \in Times : glass = Drawing(ui, t) /\ ui.frame \in {derive_frame(ui, t), NoFrame}

\* An iteration of the display task, whatever the controller was made before it
\* drew, as long as the view only moved with the selection.
LEMMA DrawsGlass ==
    ASSUME CoreInv, GlassInv, NEW u, UiOK(u), u.frame = ui.frame,
           (/\ u.screen = "Settings" /\ ui.screen = "Settings"
            /\ u.menu.view.selected = ui.menu.view.selected) => u.menu.view = ui.menu.view,
           NEW fault \in BOOLEAN, Draws(u, fault)
    PROVE  GlassInv'
<1> DEFINE w == sync_from_watchers(u, radioW.value, powerW)
<1>1. PICK t \in Times : Draws(u, fault)!(t)
  BY DEF Draws
<1> DEFINE key == derive_frame(w, t)
<1>2. \/ glass' = Garbled
      \/ glass' = Message(display_message(ota))
      \/ ui' = w /\ glass' = glass /\ key = w.frame
      \/ ui' = mark_rendered(w, key) /\ glass' = Drawing(w, t)
  BY <1>1, Zenon DEF should_render
<1>3. /\ UiOK(w) /\ w.screen = u.screen /\ w.frame = u.frame
      /\ u.screen = "Settings" => w = u
  <2>1. radioW.value \in RadioSettings /\ powerW \in PowerSettings
    BY DEF CoreInv
  <2> QED
    BY <2>1, Synced
<1>4. UiOK(ui)
  BY DEF CoreInv
<1>5. (/\ w.screen = "Settings" /\ ui.screen = "Settings"
       /\ w.menu.view.selected = ui.menu.view.selected) => w.menu.view = ui.menu.view
  BY <1>3
<1> HIDE DEF w
<1>6. CASE glass' = Garbled
  BY <1>6 DEF Garbled, GlassInv
<1>7. CASE glass' = Message(display_message(ota))
  BY <1>7 DEF Message, GlassInv
<1>8. CASE ui' = w /\ glass' = glass /\ key = w.frame
  <2>1. CASE glass.kind \in {"Message", "Garbled"}
    BY <1>8, <2>1 DEF GlassInv
  <2>2. CASE \E s \in Times : glass = Drawing(ui, s) /\ ui.frame \in {derive_frame(ui, s), NoFrame}
    <3>1. PICK s \in Times : glass = Drawing(ui, s) /\ ui.frame \in {derive_frame(ui, s), NoFrame}
      BY <2>2
    <3>2. key # NoFrame
      BY <1>3, KeyIsSome
    <3>3. derive_frame(w, t) = derive_frame(ui, s)
      BY <1>3, <1>8, <3>1, <3>2
    <3>4. Drawing(w, t) = Drawing(ui, s)
      BY <1>3, <1>4, <1>5, <3>3, DrawnAlike
    <3>5. glass' = Drawing(ui', t) /\ ui'.frame = derive_frame(ui', t)
      BY <1>8, <3>1, <3>4
    <3> QED
      BY <3>5 DEF GlassInv
  <2> QED
    BY <2>1, <2>2 DEF GlassInv
<1>9. CASE ui' = mark_rendered(w, key) /\ glass' = Drawing(w, t)
  <2>1. glass' = Drawing(ui', t) /\ ui'.frame = derive_frame(ui', t)
    <3>1. mark_rendered(w, key).frame = key
      BY <1>3, Marked
    <3>2. /\ Drawing(mark_rendered(w, key), t) = Drawing(w, t)
          /\ derive_frame(mark_rendered(w, key), t) = derive_frame(w, t)
      BY <1>3, MarkedAlike
    <3> QED
      BY <1>9, <3>1, <3>2
  <2> QED
    BY <2>1 DEF GlassInv
<1> QED
  BY <1>2, <1>6, <1>7, <1>8, <1>9

\* Only drawing changes the glass, and it remembers the key of what it drew.
LEMMA GlassStep == CoreInv /\ GlassInv /\ [Next]_vars => GlassInv'
<1> SUFFICES ASSUME CoreInv, GlassInv, [Next]_vars PROVE GlassInv'
  OBVIOUS
<1>0. UiOK(ui) /\ events \in Seq(UiEvents)
  BY DEF CoreInv
<1>s. ASSUME UNCHANGED <<ui, glass>> PROVE GlassInv'
  BY <1>s DEF GlassInv
<1>1. ASSUME NEW fault \in BOOLEAN, DisplayTicks(fault) PROVE GlassInv'
  <2>1. Draws(ui, fault)
    BY <1>1, Zenon DEF DisplayTicks
  <2> QED
    BY <1>0, <2>1, DrawsGlass
<1>2. ASSUME NEW fault \in BOOLEAN, DisplayTakesReading(fault) PROVE GlassInv'
  <2> DEFINE u == [ui EXCEPT !.reading = reading.value]
  <2>1. Draws(u, fault)
    BY <1>2, Zenon DEF DisplayTakesReading
  <2>2. /\ DOMAIN u = {"screen", "reading", "radio", "power", "menu", "frame"}
        /\ u.screen = ui.screen /\ u.menu = ui.menu /\ u.radio = ui.radio /\ u.power = ui.power
        /\ u.frame = ui.frame
    BY <1>0 DEF UiOK
  <2> HIDE DEF u
  <2>3. UiOK(u)
    BY <1>0, <2>2 DEF UiOK
  <2> QED
    BY <2>1, <2>2, <2>3, DrawsGlass
<1>3. ASSUME NEW fault \in BOOLEAN, DisplayNavigates(fault) PROVE GlassInv'
  <2> DEFINE r == Navigate(ui, Head(events))
  <2>1. events # <<>> /\ Draws(r.ui, fault)
    BY <1>3, Zenon DEF DisplayNavigates
  <2>2. Head(events) \in UiEvents
    BY <1>0, <2>1
  <2>3. NavigatesTo(r, ui)
    BY <1>0, <2>2, Navigated
  <2> HIDE DEF r
  <2>4. /\ UiOK(r.ui) /\ r.ui.frame = ui.frame
        /\ (/\ r.ui.screen = "Settings" /\ ui.screen = "Settings"
            /\ r.ui.menu.view.selected = ui.menu.view.selected) => r.ui.menu.view = ui.menu.view
    BY <2>3 DEF NavigatesTo
  <2> QED
    BY <2>1, <2>4, DrawsGlass
<1>4. ASSUME NEW event \in UiEvents, UiInput(event) PROVE GlassInv'
  BY <1>4, <1>s, Zenon DEF UiInput
<1>5. ASSUME NEW fault, RxStarts(fault) \/ RxSweepEnds(fault) \/ SettingsTaskApplies(fault) PROVE GlassInv'
  BY <1>5, <1>s, Zenon DEF RxStarts, RxSweepEnds, SettingsTaskApplies, displayVars
<1>6. CASE \/ DispatchApplies \/ RxStartFails \/ RxSweepFails \/ RxSettles \/ SettingsTaskWakes
           \/ ReadingArrives \/ OtaMoves \/ TimePasses \/ UNCHANGED vars
  BY <1>6, <1>s, Zenon DEF DispatchApplies, RxStartFails, RxSweepFails, RxSettles, SettingsTaskWakes,
     ReadingArrives, OtaMoves, TimePasses, displayVars, vars
<1>7. CASE DeepSleep \/ Restart \/ PowerLost
  <2>1. Fresh'
    BY <1>7, Rebooted
  <2>2. ui'.screen = "Main" /\ ui'.reading = NoReading /\ ui'.frame = NoFrame /\ glass' = Waiting
    BY <2>1, Zenon DEF Fresh
  <2>3. PICK t \in Times : TRUE
    BY Zenon, SettingsAssumption
  <2>4. glass' = Drawing(ui', t)
    BY <2>2, Frames
  <2> QED
    BY <2>2, <2>4 DEF GlassInv
<1> QED
  BY <1>1, <1>2, <1>3, <1>4, <1>5, <1>6, <1>7, Zenon DEF Next

\* The glass shows some drawing of the controller in every state.
LEMMA GlassAlways == Spec => [](CoreInv /\ GlassInv)
<1>1. Init => GlassInv
  <2> SUFFICES ASSUME Init PROVE GlassInv
    OBVIOUS
  <2>1. Fresh
    BY Started
  <2>2. ui.screen = "Main" /\ ui.reading = NoReading /\ ui.frame = NoFrame /\ glass = Waiting
    BY <2>1, Zenon DEF Fresh
  <2>3. PICK t \in Times : TRUE
    BY Zenon, SettingsAssumption
  <2>4. glass = Drawing(ui, t)
    BY <2>2, Frames
  <2> QED
    BY <2>2, <2>4 DEF GlassInv
<1> QED
  BY <1>1, SettingsAlways, GlassStep, PTL DEF Spec

\* On the settings screen the selected item is visible, in whatever order the
\* menu was walked through.
LEMMA SelectedRowShown == Spec => []SelectedRowOnGlass
<1>1. CoreInv /\ GlassInv => SelectedRowOnGlass
  <2> SUFFICES ASSUME CoreInv, GlassInv, glass.kind = "Settings"
               PROVE  LET s == ui.menu.view.selected IN
                      /\ s \in DOMAIN glass.rows /\ glass.rows[s].selected
                      /\ \A i \in DOMAIN glass.rows : glass.rows[i].y \in 24 .. 63
                      /\ (glass.arrow = "None") = (DOMAIN glass.rows = 0 .. SaveIndex)
    BY DEF SelectedRowOnGlass
  <2>0. UiOK(ui)
    BY DEF CoreInv
  <2>1. PICK t \in Times : glass = Drawing(ui, t)
    BY DEF GlassInv
  <2>2. glass = SettingsDrawing(ui.menu)
    <3>1. ui.screen \in {"Main", "Overview", "Settings"}
      BY <2>0 DEF UiOK, Screens
    <3> QED
      BY <2>1, <3>1, Frames DEF Waiting
  <2> DEFINE m == ui.menu
             v == m.view
             D == visible_range(v) \cap 0 .. 7
  <2>3. /\ Len(m.items) - 1 = 7 /\ v.header = 22 /\ v.itemHeight = 10 /\ v.maxVisible = 4
        /\ v.offset \in 0 .. 4 /\ v.selected \in 0 .. 7 /\ v.total = 8 /\ v.offset <= v.selected
        /\ v.selected < v.offset + 4
    BY <2>0 DEF UiOK, MenuOK, ViewOK, View, ItemsOK
  <2>4. /\ glass.rows = render_items(m) /\ glass.arrow = scroll_indicator(m)
    BY <2>2 DEF SettingsDrawing
  <2> HIDE DEF m
  <2>5. D = v.offset .. v.offset + 3
    BY <2>3 DEF visible_range, AtMost
  <2>6. glass.rows = [i \in D |->
            [y |-> item_y(v, i),
             value |-> IF is_editable(m.items[i + 1]) THEN m.items[i + 1].pending ELSE "",
             selected |-> i = v.selected, editing |-> i = v.selected /\ m.editing]]
    BY <2>3, <2>4, Zenon DEF render_items
  <2> HIDE DEF D
  <2>7. DOMAIN glass.rows = D
    BY <2>6, Zenon
  <2>8. ASSUME NEW i \in D
        PROVE  glass.rows[i].y = item_y(v, i) /\ glass.rows[i].selected = (i = v.selected)
    <3> DEFINE x == IF is_editable(m.items[i + 1]) THEN m.items[i + 1].pending ELSE ""
               y == item_y(v, i)
               sel == i = v.selected
               ed == i = v.selected /\ m.editing
    <3>1. glass.rows[i] = [y |-> y, value |-> x, selected |-> sel, editing |-> ed]
      BY <2>6, Zenon
    <3> HIDE DEF x, y, sel, ed
    <3>2. glass.rows[i].y = y /\ glass.rows[i].selected = sel
      BY <3>1
    <3> QED
      BY <3>2, Zenon DEF y, sel
  <2>9. v.selected \in D
    BY <2>3, <2>5
  <2>10. ASSUME NEW i \in D PROVE item_y(v, i) \in 24 .. 63
    <3>1. i \in v.offset .. v.offset + 3
      BY <2>5, <2>10
    <3>2. AtLeast(i - v.offset, 0) \in 0 .. 3
      BY <2>3, <3>1 DEF AtLeast
    <3>3. item_y(v, i) = 22 + 2 + AtLeast(i - v.offset, 0) * 10
      BY <2>3, Zenon DEF item_y
    <3> QED
      BY <3>2, <3>3
  <2>11. glass.arrow # "None"
    BY <2>3, <2>4 DEF scroll_indicator, has_more_below, has_more_above
  <2>12. D # 0 .. SaveIndex
    <3>1. 0 \notin D \/ 7 \notin D
      BY <2>3, <2>5
    <3> QED
      BY <3>1 DEF SaveIndex
  <2> QED
    BY <2>7, <2>8, <2>9, <2>10, <2>11, <2>12 DEF m
<1> QED
  BY <1>1, GlassAlways, PTL

\* The screen shows the controller's state: a frame that is not drawn again
\* because its key is the last one would have changed nothing, and the selected
\* item of the settings is on it.
THEOREM GlassFollows == Spec => []GlassShowsController
<1>1. GlassInv /\ SelectedRowOnGlass => GlassShowsController
  BY DEF GlassInv, GlassShowsController
<1> QED
  BY <1>1, GlassAlways, SelectedRowShown, PTL
=============================================================================
