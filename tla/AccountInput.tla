---------------------------- MODULE AccountInput ----------------------------
(***************************************************************************)
(* A field of the account form and the on-screen keyboard it is typed with  *)
(* (ui/account_text_input.c): the value and its caret, the keys of a layout *)
(* and the highlighted one, and what ui.c draws and touches of both: the    *)
(* part of the value that is shown, the stops a touch can place the caret   *)
(* at, and the boxes of the keys.  A character is its width in pixels.      *)
(***************************************************************************)
EXTENDS Integers, Sequences, FiniteSetsExt

CONSTANTS
    Capacity,   \* bytes of the buffer, one of them the terminator
    Widths,     \* widths of characters
    Available,  \* pixels for the value, caret excluded
    Stops       \* ACCOUNT_VALUE_STOPS

CapacityAssumption == Capacity \in Nat \ {0}
WidthsAssumption == Widths \subseteq Nat \ {0} /\ Widths # {}
StopsAssumption == Stops \in Nat \ {0} /\ Available \in Nat

VARIABLES
    in,         \* cn_account_text_input: value, cursor, cursor_enabled
    shown,      \* the stops of the last drawing
    layout,     \* the same structure: [symbols, shifted, caret]
    selection   \* the highlighted position, row * Stride + column

inputVars == <<in, shown, layout, selection>>

(* cn_account_text_init, cn_account_text_set_cursor_enabled *)
NewField(enabled) == [value |-> << >>, cursor |-> 0, cursor_enabled |-> enabled]

Length(f) == Len(f.value)

Full(f) == Length(f) + 1 >= Capacity

append(f, w) ==
    IF Full(f) THEN f
    ELSE [f EXCEPT !.value = SubSeq(@, 1, f.cursor) \o <<w>>
                             \o SubSeq(@, f.cursor + 1, Len(@)),
                   !.cursor = @ + 1]

erase(f) ==
    IF f.cursor = 0 THEN f
    ELSE [f EXCEPT !.value = SubSeq(@, 1, f.cursor - 1)
                             \o SubSeq(@, f.cursor + 1, Len(@)),
                   !.cursor = @ - 1]

set_cursor(f, c) ==
    IF f.cursor_enabled /\ c <= Length(f) THEN [f EXCEPT !.cursor = c] ELSE f

move_cursor(f, step) ==
    IF f.cursor_enabled /\ f.cursor + step \in 0 .. Length(f)
    THEN [f EXCEPT !.cursor = @ + step] ELSE f

-----------------------------------------------------------------------------
(* What of the value is drawn, and where a touch puts the caret.            *)

PrefixSums(ws) ==
    LET s[n \in 0 .. Len(ws)] == IF n = 0 THEN 0 ELSE s[n - 1] + ws[n]
    IN  s

(* Pixels of the characters from start on, before end. *)
Pixels(f, start, end) == PrefixSums(f.value)[end] - PrefixSums(f.value)[start]

FarthestStart(f, end, room, from) ==
    Min({s \in 0 .. from :
            Pixels(f, s, end) <= room /\ end - s <= Stops - 1} \cup {from})

(* Mutant: the value is drawn from its beginning. *)
value_window_from_left(f) ==
    [start |-> 0,
     end |-> Max({e \in 0 .. Length(f) :
                     Pixels(f, 0, e) <= Available /\ e <= Stops - 1})]

(* Two thirds of the room go to what is before the caret, the rest to what   *)
(* is after it, and what is then left to what is before it again.            *)
value_window(f) ==
    LET start == FarthestStart(f, f.cursor, (Available * 2) \div 3, f.cursor)
        end == Max({e \in f.cursor .. Length(f) :
                       Pixels(f, start, e) <= Available /\ e - start <= Stops - 1})
    IN  [start |-> FarthestStart(f, end, Available, start), end |-> end]

(* Where the window starts, and the stops from the left edge of the value. *)
Drawn(f) ==
    LET w == value_window(f)
    IN  [start |-> w.start,
         stops |-> [i \in 0 .. w.end - w.start |-> Pixels(f, w.start, w.start + i)]]

Distance(m, n) == IF m < n THEN n - m ELSE m - n

Nearest(stops, x) ==
    Min({i \in DOMAIN stops :
            \A j \in DOMAIN stops : Distance(x, stops[i]) <= Distance(x, stops[j])})

(* account_place_cursor: the nearest stop, the left one of two. *)
place_cursor(f, drawn, x) ==
    set_cursor(f, drawn.start + Nearest(drawn.stops, x))

(* cn_account_text_window_start: a viewport of so many bytes. *)
window_start(f, visible) ==
    IF Length(f) <= visible THEN 0
    ELSE Min({Max({f.cursor - visible, 0}), Length(f) - visible})

-----------------------------------------------------------------------------
(* The keys. *)

KeyRows == 5
KeyColumns == 10
Stride == 16
Cells == 0 .. KeyRows * Stride - 1

LettersFrom(first, last) == [c \in first .. last |-> "LETTER"]
SignsFrom(first, last) == [c \in first .. last |-> "SIGN"]

(* The keys of a row, by column. *)
KeyRow(l, row) ==
    LET caret(kind) == IF l.caret THEN kind ELSE "NONE"
        last == <<"SYMBOLS", "SIGN", caret("CURSOR_LEFT"), "SIGN",
                  caret("CURSOR_RIGHT"), "SIGN", "DONE">>
    IN  CASE row = 0 -> SignsFrom(0, 9)
          [] row = 1 -> IF l.symbols THEN SignsFrom(0, 9) ELSE LettersFrom(0, 9)
          [] row = 2 -> IF l.symbols THEN SignsFrom(0, 9) ELSE LettersFrom(0, 8)
          [] row = 3 -> IF l.symbols
                        THEN [c \in 0 .. 9 |-> IF c = 9 THEN "BACKSPACE" ELSE "SIGN"]
                        ELSE [c \in 0 .. 8 |-> CASE c = 0 -> "SHIFT"
                                                 [] c = 8 -> "BACKSPACE"
                                                 [] OTHER -> "LETTER"]
          [] row = 4 -> [c \in 0 .. 6 |-> last[c + 1]]

key_at(l, row, column) ==
    IF row \in 0 .. KeyRows - 1 /\ column \in DOMAIN KeyRow(l, row)
    THEN KeyRow(l, row)[column] ELSE "NONE"

KeyOf(l, p) == key_at(l, p \div Stride, p % Stride)
KeysOf(l, row) == {c \in 0 .. KeyColumns - 1 : key_at(l, row, c) # "NONE"}
Keys(l) == UNION {{row * Stride + c : c \in KeysOf(l, row)} : row \in 0 .. KeyRows - 1}

-----------------------------------------------------------------------------
(* The next position in the direction of step that holds a key. *)
move(l, p, step) ==
    LET at(n) == (p + step * n) % (KeyRows * Stride)
    IN  at(Min({n \in 1 .. KeyRows * Stride : KeyOf(l, at(n)) # "NONE"}))

(* account_keyboard_geometry: left edge and width of a key's box. *)
KeyBox(l, row, column) ==
    LET lastX == <<20, 98, 156, 236, 370, 450, 508>>
        lastW == <<71, 51, 73, 127, 73, 51, 71>>
    IN  CASE row <= 1 \/ (l.symbols /\ row <= 3) -> <<20 + column * 56, 51>>
          [] row = 2 /\ ~l.symbols -> <<48 + column * 56, 51>>
          [] row = 3 /\ ~l.symbols ->
                 CASE column = 0 -> <<20, 71>>
                   [] column = 8 -> <<492, 83>>
                   [] OTHER -> <<98 + (column - 1) * 56, 51>>
          [] OTHER -> <<lastX[column + 1], lastW[column + 1]>>

KeyTop(row) == 474 + row * 54
KeyHeight == 48

InBox(l, row, column, x, y) ==
    LET box == KeyBox(l, row, column)
    IN  /\ x \in box[1] .. box[1] + box[2]
        /\ y \in KeyTop(row) .. KeyTop(row) + KeyHeight

(* account_keyboard_hit takes the first of these. *)
keyboard_hit(l, x, y) ==
    UNION {{row * Stride + c : c \in {k \in KeysOf(l, row) : InBox(l, row, k, x, y)}} :
              row \in 0 .. KeyRows - 1}

-----------------------------------------------------------------------------
(* The field is drawn after every event. *)

Init == \E enabled \in BOOLEAN :
            /\ in = NewField(enabled) /\ shown = Drawn(NewField(enabled))
            /\ layout = [symbols |-> FALSE, shifted |-> FALSE, caret |-> enabled]
            /\ selection = 0

Becomes(f) == in' = f /\ shown' = Drawn(f)

TouchValue == /\ \E x \in 0 .. Available : Becomes(place_cursor(in, shown, x))
              /\ UNCHANGED <<layout, selection>>

(* cn_account_text_move: the next key or the one before. *)
MoveSelection == /\ \E step \in {-1, 1} : selection' = move(layout, selection, step)
                 /\ UNCHANGED <<in, shown, layout>>

(* A letter that was typed takes the shift with it; a full field keeps it. *)
ShiftAfter(f, l) == [l EXCEPT !.shifted = @ /\ Full(f)]

Letter(p) ==
    /\ KeyOf(layout, p) = "LETTER"
    /\ \E w \in Widths : Becomes(append(in, w))
    /\ layout' = ShiftAfter(in, layout)

Sign(p) ==
    /\ KeyOf(layout, p) = "SIGN"
    /\ \E w \in Widths : Becomes(append(in, w))
    /\ UNCHANGED layout

toggle_shift(p) ==
    /\ KeyOf(layout, p) = "SHIFT" /\ layout' = [layout EXCEPT !.shifted = ~@]
    /\ UNCHANGED <<in, shown>>

toggle_symbols(p) ==
    /\ KeyOf(layout, p) = "SYMBOLS"
    /\ layout' = [layout EXCEPT !.symbols = ~@, !.shifted = FALSE]
    /\ UNCHANGED <<in, shown>>

EditingKey(p) ==
    /\ \/ KeyOf(layout, p) = "BACKSPACE" /\ Becomes(erase(in))
       \/ KeyOf(layout, p) = "CURSOR_LEFT" /\ Becomes(move_cursor(in, -1))
       \/ KeyOf(layout, p) = "CURSOR_RIGHT" /\ Becomes(move_cursor(in, 1))
       \/ KeyOf(layout, p) = "DONE" /\ UNCHANGED <<in, shown>>
    /\ UNCHANGED layout

(* cn_account_text_activate: MENU activates the highlighted key, a touch     *)
(* highlights it first (cn_account_text_select).                            *)
Activate(p) ==
    /\ selection' = p
    /\ Letter(p) \/ Sign(p) \/ toggle_shift(p) \/ toggle_symbols(p) \/ EditingKey(p)

Next ==
    \/ TouchValue \/ MoveSelection
    \/ Activate(selection) \/ \E p \in Keys(layout) : Activate(p)

Spec == Init /\ [][Next]_inputVars

-----------------------------------------------------------------------------
TypeOK ==
    /\ in.value \in Seq(Widths) /\ Length(in) < Capacity
    /\ in.cursor \in 0 .. Length(in)
    /\ ~in.cursor_enabled => in.cursor = Length(in)
    /\ layout \in [symbols : BOOLEAN, shifted : BOOLEAN, caret : {in.cursor_enabled}]
    /\ selection \in Cells

(* The caret is always within the drawn part, whatever the widths, the drawn *)
(* part fits, and nothing on the left stays hidden while there is room.      *)
CaretIsShown ==
    LET w == value_window(in)
    IN  /\ w.start <= in.cursor /\ in.cursor <= w.end
        /\ w.end - w.start < Stops
        /\ Pixels(in, w.start, w.end) <= Available
        /\ w.start > 0 /\ w.end - w.start < Stops - 1 =>
               Pixels(in, w.start - 1, w.end) > Available

(* A touch on a stop puts the caret there, so every place of the part drawn  *)
(* can be edited (account_place_cursor with the stops of the last drawing).  *)
TouchPlacesCaret ==
    in.cursor_enabled =>
        \A i \in DOMAIN shown.stops :
            place_cursor(in, shown, shown.stops[i]).cursor = shown.start + i

(* The byte viewport contains the caret and is filled.                       *)
ViewportContainsCaret ==
    \A visible \in 1 .. Capacity :
        LET start == window_start(in, visible)
        IN  /\ start <= in.cursor /\ in.cursor <= start + visible
            /\ start > 0 => start + visible <= Length(in)

(* The highlighted key exists in the layout shown: MENU always does what the *)
(* highlight says, also after the layout was switched under it.              *)
SelectionIsAKey == selection \in Keys(layout)

(* NEXT and PREV undo each other, so every key of the layout can be reached  *)
(* and none is skipped.                                                      *)
MovesAreInverse ==
    /\ move(layout, move(layout, selection, 1), -1) = selection
    /\ move(layout, move(layout, selection, -1), 1) = selection

(* The box of the highlighted key, whichever it is, is on the screen, and    *)
(* a touch on it is a touch on no other key.                                *)
TouchIsUnambiguous ==
    LET row == selection \div Stride
        box == KeyBox(layout, row, selection % Stride)
    IN  /\ box[1] >= 0 /\ box[1] + box[2] < 600
        /\ KeyTop(row) + KeyHeight < 800
        /\ \A x \in {box[1], box[1] + box[2]}, y \in {KeyTop(row), KeyTop(row) + KeyHeight} :
               keyboard_hit(layout, x, y) = {selection}

=============================================================================
