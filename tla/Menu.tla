------------------------------- MODULE Menu -------------------------------
(***************************************************************************)
(* The menu library (crates/karu-menu): items with a committed and a       *)
(* pending value, a viewport that scrolls with the selection, the menu     *)
(* that turns three input events into edits, and the renderer.             *)
(* Every operation is a function of the menu's value; indices count from   *)
(* zero as in the library, item i is items[i + 1].                         *)
(***************************************************************************)
EXTENDS Integers, Sequences

AtLeast(x, y) == IF x < y THEN y ELSE x
AtMost(x, y) == IF x < y THEN x ELSE y
Within(x, lo, hi) == AtMost(AtLeast(x, lo), hi)

(***************************************************************************)
(* Items.                                                                  *)
(***************************************************************************)
NumericItem(initial, lo, hi, step) ==
    [kind |-> "Numeric", current |-> Within(initial, lo, hi), pending |-> Within(initial, lo, hi),
     min |-> lo, max |-> hi, step |-> step]
ActionItem(action) == [kind |-> "Command", action |-> action]

is_editable(item) == item.kind = "Numeric"

set_pending(item, value) == [item EXCEPT !.pending = Within(value, item.min, item.max)]
increment(item) == [item EXCEPT !.pending = AtMost(@ + item.step, item.max)]

\* Slip: the subtraction wraps below the least value of the type.
decrement_wraps(item) == [item EXCEPT !.pending = (@ - item.step) % 256]

decrement(item) == [item EXCEPT !.pending = AtLeast(@ - item.step, item.min)]
is_modified(item) == is_editable(item) /\ item.pending # item.current
commit(item) == IF is_editable(item) THEN [item EXCEPT !.current = item.pending] ELSE item
discard(item) == IF is_editable(item) THEN [item EXCEPT !.pending = item.current] ELSE item

(***************************************************************************)
(* The viewport: which items fit, which is selected, which is on top.      *)
(***************************************************************************)
with_metrics(height, headerHeight, itemHeight) ==
    LET h == AtLeast(itemHeight, 1)
    IN [header |-> headerHeight, itemHeight |-> h,
        maxVisible |-> AtLeast(AtLeast(height - (headerHeight + 2), 0) \div h, 1),
        offset |-> 0, selected |-> 0, total |-> 0]

\* ScrollableViewport::new for the 64 pixels of the display.
ScrollableViewport == with_metrics(64, 22, 10)

\* Slip: scrolling down one item too late.
ensure_visible_late(v) ==
    LET moved == IF v.selected < v.offset THEN v.selected
                 ELSE IF v.selected > v.offset + v.maxVisible THEN v.selected - (v.maxVisible - 1)
                 ELSE v.offset
    IN [v EXCEPT !.offset = AtMost(moved, AtLeast(v.total - v.maxVisible, 0))]

ensure_visible(v) ==
    LET moved == IF v.selected < v.offset THEN v.selected
                 ELSE IF v.selected >= v.offset + v.maxVisible
                      THEN AtLeast(v.selected - (v.maxVisible - 1), 0)
                 ELSE v.offset
    IN IF v.total = 0 THEN [v EXCEPT !.offset = 0, !.selected = 0]
       ELSE [v EXCEPT !.offset = AtMost(moved, AtLeast(v.total - v.maxVisible, 0))]

set_total_items(v, n) ==
    IF n = 0 THEN [v EXCEPT !.total = 0, !.selected = 0, !.offset = 0]
    ELSE ensure_visible([v EXCEPT !.total = n, !.selected = AtMost(@, n - 1)])

select(v, index) ==
    IF v.total = 0 THEN [v EXCEPT !.selected = 0, !.offset = 0]
    ELSE ensure_visible([v EXCEPT !.selected = AtMost(index, v.total - 1)])

select_next(v) == select(v, v.selected + 1)
select_prev(v) == select(v, AtLeast(v.selected - 1, 0))

visible_range(v) ==
    IF v.total = 0 THEN {}
    ELSE LET start == AtMost(v.offset, v.total - 1)
         IN start .. AtMost(start + v.maxVisible, v.total) - 1
item_y(v, index) == v.header + 2 + AtLeast(index - v.offset, 0) * v.itemHeight
has_more_below(v) == v.offset + v.maxVisible < v.total
has_more_above(v) == v.offset > 0

(***************************************************************************)
(* The menu.  handle_event answers with the menu and what happened.        *)
(***************************************************************************)
EmptyMenu == [items |-> <<>>, view |-> ScrollableViewport, editing |-> FALSE]

\* Items are added up to the capacity, a further one is refused.
add(m, item, capacity) ==
    IF Len(m.items) >= capacity THEN m
    ELSE [items |-> Append(m.items, item), view |-> set_total_items(m.view, Len(m.items) + 1),
          editing |-> m.editing]

Selected(m) == m.items[m.view.selected + 1]
NoOp(m) == [menu |-> m, what |-> "NoOp"]

\* A rotation while editing changes the value, otherwise the selection.
EditValue(m, item) ==
    IF Selected(m) = item THEN NoOp(m)
    ELSE [menu |-> [m EXCEPT !.items[m.view.selected + 1] = item], what |-> "ValueChanged"]
MoveTo(m, view) ==
    [menu |-> [m EXCEPT !.view = view],
     what |-> IF view.selected = m.view.selected THEN "NoOp" ELSE "SelectionChanged"]

on_next(m) == IF m.editing /\ is_editable(Selected(m)) THEN EditValue(m, increment(Selected(m)))
              ELSE IF m.editing THEN NoOp(m)
              ELSE MoveTo(m, select_next(m.view))
on_prev(m) == IF m.editing /\ is_editable(Selected(m)) THEN EditValue(m, decrement(Selected(m)))
              ELSE IF m.editing THEN NoOp(m)
              ELSE MoveTo(m, select_prev(m.view))

on_select(m) ==
    IF ~is_editable(Selected(m)) THEN [menu |-> m, what |-> Selected(m).action]
    ELSE [menu |-> [m EXCEPT !.editing = ~@],
          what |-> IF m.editing THEN "EditCompleted" ELSE "EditStarted"]

menu_handle_event(m, event) ==
    IF m.items = <<>> THEN NoOp(m)
    ELSE CASE event = "NextScreen" -> on_next(m)
           [] event = "PrevScreen" -> on_prev(m)
           [] event = "Select" -> on_select(m)

set_selected(m, index) ==
    LET view == select(m.view, index)
    IN [m EXCEPT !.view = view, !.editing = @ /\ view.selected = m.view.selected]

commit_all(m) == [m EXCEPT !.items = [i \in DOMAIN @ |-> commit(@[i])]]
discard_all(m) == [m EXCEPT !.items = [i \in DOMAIN @ |-> discard(@[i])]]

(***************************************************************************)
(* The renderer: the rows on the screen, and the arrow beside them.        *)
(***************************************************************************)
render_items(m) ==
    [i \in visible_range(m.view) \cap 0 .. Len(m.items) - 1 |->
        [y |-> item_y(m.view, i),
         value |-> IF is_editable(m.items[i + 1]) THEN m.items[i + 1].pending ELSE "",
         selected |-> i = m.view.selected,
         editing |-> i = m.view.selected /\ m.editing]]

scroll_indicator(m) ==
    IF has_more_below(m.view) THEN "DownArrow"
    ELSE IF has_more_above(m.view) THEN "UpArrow" ELSE "None"
=============================================================================
