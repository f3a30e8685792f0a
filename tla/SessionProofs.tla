---------------------------- MODULE SessionProofs ----------------------------
(***************************************************************************)
(* Proofs about the screens (ReaderUi) and the reading session over them    *)
(* (ReaderSession).  Screens uses both, under names of its own.             *)
(***************************************************************************)
EXTENDS ReaderSession, TLAPS

UiConstants ==
    RowsAssumption /\ LibrariesAssumption /\ LastPageAssumption /\ FeedbacksAssumption

-----------------------------------------------------------------------------
(* The screens.                                                             *)

(* A dialog that asks finds no request that is still to be taken. *)
UiStrong == UiInv /\ (modal = 1 => action = "NONE")

LEMMA CountIsNat ==
    ASSUME UiConstants, lib \in {<<l>> : l \in Libraries} \cup {<< >>} PROVE Count \in Nat
<1>1. CASE lib = << >>
  BY <1>1 DEF Count, BookList
<1>2. CASE lib # << >>
  <2>1. PICK l \in Libraries : lib = <<l>>
    BY <1>2
  <2>2. l \in Seq({"EPUB", "FB2", "TXT"})
    BY DEF UiConstants, LibrariesAssumption
  <2>3. Count = Len(l)
    BY <1>2, <2>1 DEF Count, BookList
  <2> QED
    BY <2>2, <2>3
<1> QED
  BY <1>1, <1>2

(* What TypeOK and the viewport say in numbers. *)
LEMMA UiNumbers ==
    ASSUME UiConstants, UiTypeOK
    PROVE  /\ Rows \in Nat /\ Rows > 0 /\ LastPage \in Nat /\ Count \in Nat
           /\ sel \in Nat /\ top \in Nat /\ rpage \in 0 .. LastPage
           /\ asked \in Nat /\ taken \in Nat /\ page \in Nat /\ page > 0
BY CountIsNat DEF UiConstants, RowsAssumption, LastPageAssumption, UiTypeOK

LEMMA UiInitially == ASSUME UiConstants, cn_ui_init PROVE UiStrong
<1>1. Count = 0
  BY DEF cn_ui_init, Count, BookList
<1>2. UiTypeOK
  <2>1. LastPage \in Nat /\ "WORKING" \in Feedbacks
    BY Zenon DEF UiConstants, LastPageAssumption, FeedbacksAssumption
  <2>2. /\ state \in States /\ page \in Nat \ {0} /\ sel \in Nat /\ top \in Nat
        /\ open \in Nat \cup {-1} /\ rpage \in 0 .. LastPage
        /\ modal \in 0 .. 2 /\ choice \in 0 .. 2 /\ asked \in Nat /\ taken \in Nat
    BY <2>1 DEF cn_ui_init, States
  <2>3. action \in SyncActions /\ lib \in {<<l>> : l \in Libraries} \cup {<< >>}
    BY Zenon DEF cn_ui_init, SyncActions
  <2> QED
    BY <2>1, <2>2, <2>3, Zenon DEF cn_ui_init, UiTypeOK
<1>3. ViewportOK
  BY <1>1, UiNumbers, <1>2 DEF cn_ui_init, ViewportOK, LargerOf
<1> QED
  BY <1>2, <1>3 DEF cn_ui_init, UiStrong, UiInv, DialogOverOpenBook, OpenBookIsSelected,
                    OneChoicePerDialog, Choices

(* The list moves by one; the selection stays in the viewport.               *)
LEMMA ListMoves ==
    ASSUME UiConstants, UiTypeOK, ViewportOK, lib' = lib, lib_down \/ lib_up
    PROVE  sel' \in Nat /\ top' \in Nat /\ ViewportOK'
<1>1. /\ Rows \in Nat /\ Rows > 0 /\ Count \in Nat /\ sel \in Nat /\ top \in Nat
  BY UiNumbers
<1>2. Count' = Count
  BY DEF Count, BookList
<1>3. /\ Count > 0 => sel < Count /\ top <= sel /\ sel < top + Rows
      /\ Count = 0 => sel = 0
      /\ top <= LargerOf(0, Count - Rows)
  BY <1>1 DEF ViewportOK, VisibleRows
<1>4. CASE UNCHANGED <<sel, top>>
  BY <1>1, <1>2, <1>4, UiNumbers DEF ViewportOK, VisibleRows
<1>5. CASE ~(UNCHANGED <<sel, top>>)
  <2>1. /\ sel' \in Nat /\ top' \in Nat /\ Count > 0 /\ sel' < Count /\ top' <= sel'
        /\ sel' < top' + Rows /\ top' <= LargerOf(0, Count - Rows)
    <3>1. CASE lib_down
      BY <1>1, <1>3, <1>5, <3>1 DEF lib_down, LargerOf, SmallerOf
    <3>2. CASE lib_up
      BY <1>1, <1>3, <1>5, <3>2 DEF lib_up, LargerOf, SmallerOf
    <3> QED
      BY <3>1, <3>2
  <2>2. sel' \in 0 .. Count - 1
    BY <1>1, <2>1
  <2>3. VisibleRows' = {i \in 0 .. Count - 1 : top' <= i /\ i < top' + Rows}
    BY <1>2, Zenon DEF VisibleRows
  <2>4. LargerOf(0, Count - Rows)' = LargerOf(0, Count - Rows)
    BY <1>2, Zenon DEF LargerOf
  <2>5. Count # 0
    <3>1. \A n \in Nat : n > 0 => n # 0
      OBVIOUS
    <3> QED
      BY <1>1, <2>1, <3>1, Zenon
  <2>6. sel' \in VisibleRows'
    BY <2>1, <2>2, <2>3, Zenon
  <2> QED
    BY <1>2, <2>1, <2>4, <2>5, <2>6, Zenon DEF ViewportOK
<1> QED
  BY <1>4, <1>5

(* Facts about the parts of UiStrong that a step leaves alone.               *)
LEMMA ViewportKept ==
    ASSUME ViewportOK, UNCHANGED <<lib, sel, top>> PROVE ViewportOK'
BY Zenon DEF ViewportOK, VisibleRows, Count, BookList

LEMMA ChoicesKept ==
    ASSUME OneChoicePerDialog, UNCHANGED <<modal, action, asked, taken>>
    PROVE  OneChoicePerDialog'
BY Zenon DEF OneChoicePerDialog

(* A step below the dialogs, which does not end in the reader or leaves its  *)
(* book open, or closes it.                                                  *)
LEMMA BelowDialogs ==
    ASSUME UiStrong, UiTypeOK', ViewportOK',
           UNCHANGED <<syncVars, asked, taken>>, modal = 0,
           OpenBookIsSelected'
    PROVE  UiStrong'
<1>1. UNCHANGED <<modal, action, asked, taken>>
  BY DEF syncVars
<1>2. OneChoicePerDialog'
  BY <1>1, ChoicesKept DEF UiStrong, UiInv
<1>3. modal' = 0
  BY <1>1
<1> QED
  BY <1>2, <1>3 DEF UiStrong, UiInv, DialogOverOpenBook

LEMMA PageIsInTheBook ==
    ASSUME UiConstants, UiTypeOK, NEW step \in {-1, 1}
    PROVE  LargerOf(0, SmallerOf(LastPage, rpage + step)) \in 0 .. LastPage
BY UiNumbers DEF LargerOf, SmallerOf

LEMMA TurnPageKeeps ==
    ASSUME UiConstants, UiStrong, NEW step \in {-1, 1}, TurnPage(step),
           UNCHANGED <<navVars, syncVars, powerVars, histVars>>, modal = 0
    PROVE  UiStrong'
<1>1. /\ UNCHANGED <<state, page, lib, sel, top, attached, open, modal, choice,
                     action, feedback, held, exit, asked, taken, swapped>>
      /\ rpage' = rpage \/ rpage' = LargerOf(0, SmallerOf(LastPage, rpage + step))
      /\ redraw' \in BOOLEAN
  BY Zenon DEF TurnPage, navVars, syncVars, powerVars, histVars, readerVars
<1>2. rpage' \in 0 .. LastPage
  BY <1>1, PageIsInTheBook DEF UiStrong, UiInv, UiTypeOK
<1>3. UiTypeOK'
  BY <1>1, <1>2, Zenon DEF UiStrong, UiInv, UiTypeOK
<1>4. ViewportOK'
  BY <1>1, ViewportKept DEF UiStrong, UiInv
<1>5. OpenBookIsSelected'
  BY <1>1, Zenon DEF UiStrong, UiInv, OpenBookIsSelected, BookList
<1> QED
  BY <1>3, <1>4, <1>5, BelowDialogs DEF histVars

(* A step to another screen, or to the same one, that closes the book if one *)
(* is open.                                                                  *)
LEMMA ScreenChanges ==
    ASSUME UiConstants, UiStrong, modal = 0, state' \in States, page' \in Nat \ {0},
           redraw' \in BOOLEAN,
           UNCHANGED <<lib, attached, syncVars, powerVars, histVars>>,
           sel' \in Nat, top' \in Nat, ViewportOK',
           open' \in {-1, open}, rpage' \in {0, rpage},
           open' < 0
    PROVE  UiStrong'
<1>1. UNCHANGED <<lib, attached, modal, choice, action, feedback, held, exit, asked,
                  taken, swapped>>
  BY DEF syncVars, powerVars, histVars
<1>2. rpage' \in 0 .. LastPage /\ open' \in Nat \cup {-1}
  BY UiNumbers DEF UiStrong, UiInv, UiTypeOK
<1>3. UiTypeOK'
  BY <1>1, <1>2, Zenon DEF UiStrong, UiInv, UiTypeOK
<1>4. OpenBookIsSelected'
  <2>1. ~(open' >= 0)
    BY <1>2
  <2> QED
    BY <2>1 DEF OpenBookIsSelected
<1> QED
  BY <1>3, <1>4, BelowDialogs DEF histVars

(* A step that stays on the page: dialogs, flags and requests.               *)
LEMMA PageStays ==
    ASSUME UiConstants, UiStrong, UNCHANGED <<navVars, readerVars, histVars>>,
           modal' \in 0 .. 2, choice' \in 0 .. 2, action' \in SyncActions,
           feedback' \in Feedbacks, held' \in BOOLEAN, exit' \in BOOLEAN,
           redraw' \in BOOLEAN,
           modal' # 0 => modal # 0, modal' = 1 => action' = "NONE",
           action' \in Choices \/ modal' = 1 => action \in Choices \/ modal = 1
    PROVE  UiStrong'
<1>1. UNCHANGED <<state, page, lib, sel, top, attached, open, rpage, asked, taken,
                  swapped>>
  BY DEF navVars, readerVars, histVars
<1>2. UiTypeOK'
  BY <1>1, Zenon DEF UiStrong, UiInv, UiTypeOK
<1>3. ViewportOK'
  BY <1>1, ViewportKept DEF UiStrong, UiInv
<1>4. DialogOverOpenBook' /\ OpenBookIsSelected'
  BY <1>1, Zenon DEF UiStrong, UiInv, DialogOverOpenBook, OpenBookIsSelected,
                     ReaderOpen, BookList
<1>5. OneChoicePerDialog'
  <2> DEFINE owed(a, m) == IF a \in Choices \/ m = 1 THEN 1 ELSE 0
  <2>1. /\ owed(action', modal') \in {0, 1} /\ owed(action, modal) \in {0, 1}
        /\ owed(action', modal') = 1 => owed(action, modal) = 1
    OBVIOUS
  <2>2. taken + owed(action, modal) <= asked
    BY DEF UiStrong, UiInv, OneChoicePerDialog
  <2>3. taken' + owed(action', modal') <= asked'
    <3> HIDE DEF owed
    <3> QED
      BY <1>1, <2>1, <2>2, UiNumbers DEF UiStrong, UiInv
  <2> QED
    BY <2>3, Zenon DEF OneChoicePerDialog
<1> QED
  BY <1>2, <1>3, <1>4, <1>5 DEF UiStrong, UiInv

LEMMA NothingHappens ==
    ASSUME UiConstants, UiStrong, Ignored, UNCHANGED <<syncVars, powerVars, histVars>>
    PROVE  UiStrong'
<1>1. /\ UNCHANGED <<navVars, readerVars, modal, choice, action, feedback, held, exit>>
      /\ redraw' = FALSE
  BY DEF Ignored, syncVars, powerVars
<1> QED
  BY <1>1, PageStays DEF UiStrong, UiInv, UiTypeOK

(* Where no dialog is up, and where no book is open.                         *)
LEMMA NoDialog == ASSUME UiStrong, OnScreen PROVE modal = 0
BY DEF UiStrong, UiInv, DialogOverOpenBook, OnScreen, InDialog

LEMMA NoOpenBook ==
    ASSUME UiConstants, UiStrong, state # "READER" \/ ~attached
    PROVE  open = -1 /\ modal = 0
<1>1. open \in Nat \cup {-1}
  BY DEF UiStrong, UiInv, UiTypeOK
<1>2. ~(open >= 0)
  BY Zenon DEF UiStrong, UiInv, OpenBookIsSelected
<1>3. ~ReaderOpen
  BY <1>2 DEF ReaderOpen
<1> QED
  BY <1>1, <1>2, <1>3 DEF UiStrong, UiInv, DialogOverOpenBook

LEMMA PageNextKeeps == ASSUME UiConstants, UiStrong, PageNext PROVE UiStrong'
<1>1. modal = 0 /\ OnScreen
  BY NoDialog DEF PageNext
<1>2. UNCHANGED <<syncVars, powerVars, histVars>>
  BY DEF PageNext
<1>3. CASE state = "READER" /\ TurnPage(1) /\ UNCHANGED navVars
  BY <1>1, <1>2, <1>3, TurnPageKeeps
<1>4. CASE state = "LIBRARY" /\ lib_down /\ GoTo("LIBRARY") /\ UNCHANGED readerVars
  <2>1. /\ state' = "LIBRARY" /\ redraw' = TRUE
        /\ UNCHANGED <<page, lib, attached, open, rpage>>
    BY <1>4 DEF GoTo, readerVars
  <2>2. sel' \in Nat /\ top' \in Nat /\ ViewportOK'
    BY <1>4, <2>1, ListMoves DEF UiStrong, UiInv
  <2>3. open = -1
    BY <1>4, NoOpenBook
  <2>4. open' < 0 /\ page' \in Nat \ {0} /\ state' \in States
    BY <2>1, <2>3 DEF UiStrong, UiInv, UiTypeOK, States
  <2> QED
    BY <1>1, <1>2, <2>1, <2>2, <2>4, ScreenChanges
<1>5. CASE /\ state \in {"HOME", "READER_TEST"} /\ state' = "READER_TEST"
           /\ page' = page + 1 /\ redraw' = TRUE /\ UNCHANGED <<lib, sel, top, readerVars>>
  <2>1. UNCHANGED <<lib, sel, top, attached, open, rpage>>
    BY <1>5 DEF readerVars
  <2>2. sel' \in Nat /\ top' \in Nat /\ ViewportOK'
    BY <2>1, ViewportKept DEF UiStrong, UiInv, UiTypeOK
  <2>3. open = -1
    BY <1>5, NoOpenBook
  <2>4. open' < 0 /\ page' \in Nat \ {0} /\ state' \in States
    BY <1>5, <2>1, <2>3, UiNumbers DEF UiStrong, UiInv, States
  <2> QED
    BY <1>1, <1>2, <1>5, <2>1, <2>2, <2>4, ScreenChanges
<1>6. CASE state = "SELECTED_BOOK" /\ Ignored
  BY <1>2, <1>6, NothingHappens
<1> QED
  BY <1>3, <1>4, <1>5, <1>6, Zenon DEF PageNext

LEMMA PagePrevKeeps == ASSUME UiConstants, UiStrong, PagePrev PROVE UiStrong'
<1>1. modal = 0 /\ OnScreen
  BY NoDialog DEF PagePrev
<1>2. UNCHANGED <<syncVars, powerVars, histVars>>
  BY DEF PagePrev
<1>3. CASE state = "READER" /\ TurnPage(-1) /\ UNCHANGED navVars
  BY <1>1, <1>2, <1>3, TurnPageKeeps
<1>4. CASE state = "LIBRARY" /\ lib_up /\ GoTo("LIBRARY") /\ UNCHANGED readerVars
  <2>1. /\ state' = "LIBRARY" /\ redraw' = TRUE
        /\ UNCHANGED <<page, lib, attached, open, rpage>>
    BY <1>4 DEF GoTo, readerVars
  <2>2. sel' \in Nat /\ top' \in Nat /\ ViewportOK'
    BY <1>4, <2>1, ListMoves DEF UiStrong, UiInv
  <2>3. open = -1
    BY <1>4, NoOpenBook
  <2>4. open' < 0 /\ page' \in Nat \ {0} /\ state' \in States
    BY <2>1, <2>3 DEF UiStrong, UiInv, UiTypeOK, States
  <2> QED
    BY <1>1, <1>2, <2>1, <2>2, <2>4, ScreenChanges
<1>5. CASE /\ state = "READER_TEST" /\ page' = LargerOf(1, page - 1)
           /\ redraw' = TRUE /\ UNCHANGED <<state, lib, sel, top, readerVars>>
  <2>1. UNCHANGED <<state, lib, sel, top, attached, open, rpage>>
    BY <1>5 DEF readerVars
  <2>2. sel' \in Nat /\ top' \in Nat /\ ViewportOK'
    BY <2>1, ViewportKept DEF UiStrong, UiInv, UiTypeOK
  <2>3. open = -1
    BY <1>5, NoOpenBook
  <2>4. open' < 0 /\ page' \in Nat \ {0} /\ state' \in States
    BY <1>5, <2>1, <2>3, UiNumbers DEF UiStrong, UiInv, States, LargerOf
  <2> QED
    BY <1>1, <1>2, <1>5, <2>1, <2>2, <2>4, ScreenChanges
<1>6. CASE state \in {"HOME", "SELECTED_BOOK"} /\ Ignored
  BY <1>2, <1>6, NothingHappens
<1> QED
  BY <1>3, <1>4, <1>5, <1>6, Zenon DEF PagePrev

(* Another screen, reached below the dialogs with no book left open.         *)
LEMMA GoesTo ==
    ASSUME UiConstants, UiStrong, modal = 0, NEW s \in States, GoTo(s),
           UNCHANGED <<attached, syncVars, powerVars, histVars>>,
           open' \in {-1, open}, rpage' \in {0, rpage}, open' < 0,
           UNCHANGED <<sel, top>> \/ (sel' = 0 /\ top' = 0)
    PROVE  UiStrong'
<1>1. state' = s /\ redraw' = TRUE /\ UNCHANGED <<page, lib>>
  BY DEF GoTo
<1>2. sel' \in Nat /\ top' \in Nat /\ page' \in Nat \ {0}
  BY <1>1 DEF UiStrong, UiInv, UiTypeOK
<1>3. ViewportOK'
  <2>1. CASE UNCHANGED <<sel, top>>
    BY <1>1, <2>1, ViewportKept DEF UiStrong, UiInv
  <2>2. CASE sel' = 0 /\ top' = 0
    <3>1. Count' = Count /\ Count \in Nat /\ Rows \in Nat /\ Rows > 0
      BY <1>1, UiNumbers DEF UiStrong, UiInv, Count, BookList
    <3>2. 0 <= LargerOf(0, Count - Rows)
      BY <3>1 DEF LargerOf
    <3>3. VisibleRows' = {i \in 0 .. Count - 1 : 0 <= i /\ i < 0 + Rows}
      BY <2>2, <3>1, Zenon DEF VisibleRows
    <3>4. Count > 0 => sel' \in VisibleRows'
      BY <2>2, <3>1, <3>3
    <3>5. LargerOf(0, Count - Rows)' = LargerOf(0, Count - Rows)
      BY <3>1, Zenon DEF LargerOf
    <3> QED
      BY <2>2, <3>1, <3>2, <3>4, <3>5, Zenon DEF ViewportOK
  <2> QED
    BY <2>1, <2>2
<1> QED
  BY <1>1, <1>2, <1>3, ScreenChanges

LEMMA ClosesTheBook ==
    ASSUME UiConstants, UiStrong, CloseReader
    PROVE  /\ UNCHANGED attached /\ open' \in {-1, open}
           /\ rpage' \in {0, rpage} /\ open' < 0
<1>1. CASE attached
  BY <1>1 DEF CloseReader
<1>2. CASE ~attached
  BY <1>2, NoOpenBook DEF CloseReader, readerVars
<1> QED
  BY <1>1, <1>2

LEMMA NoBookToClose ==
    ASSUME UiConstants, UiStrong, state # "READER", UNCHANGED readerVars
    PROVE  /\ UNCHANGED attached /\ open' \in {-1, open}
           /\ rpage' \in {0, rpage} /\ open' < 0
BY NoOpenBook DEF readerVars

LEMMA ScreenNames ==
    "HOME" \in States /\ "LIBRARY" \in States /\ "READER_TEST" \in States
    /\ "SELECTED_BOOK" \in States /\ "READER" \in States /\ "ACCOUNT_SETUP" \in States
BY DEF States

LEMMA BackKeeps == ASSUME UiConstants, UiStrong, Back PROVE UiStrong'
<1>1. modal = 0 /\ OnScreen
  BY NoDialog DEF Back
<1>2. UNCHANGED <<sel, top, syncVars, powerVars, histVars>>
  BY DEF Back
<1>3. CASE state = "READER" /\ CloseReader /\ GoTo("LIBRARY")
  BY <1>1, <1>2, <1>3, ClosesTheBook, GoesTo, ScreenNames
<1>4. CASE state = "SELECTED_BOOK" /\ GoTo("LIBRARY") /\ UNCHANGED readerVars
  BY <1>1, <1>2, <1>4, NoBookToClose, GoesTo, ScreenNames
<1>5. CASE state \in {"LIBRARY", "READER_TEST"} /\ GoTo("HOME") /\ UNCHANGED readerVars
  BY <1>1, <1>2, <1>5, NoBookToClose, GoesTo, ScreenNames
<1>6. CASE state = "HOME" /\ Ignored
  BY <1>2, <1>6, NothingHappens
<1> QED
  BY <1>3, <1>4, <1>5, <1>6, Zenon DEF Back

LEMMA HomeKeeps == ASSUME UiConstants, UiStrong, Home PROVE UiStrong'
<1>1. modal = 0 /\ OnScreen
  BY NoDialog DEF Home
<1>2. UNCHANGED <<sel, top, syncVars, powerVars, histVars>>
  BY DEF Home
<1>3. CASE state = "READER" /\ CloseReader /\ GoTo("HOME")
  BY <1>1, <1>2, <1>3, ClosesTheBook, GoesTo, ScreenNames
<1>4. CASE state \notin {"READER", "HOME"} /\ GoTo("HOME") /\ UNCHANGED readerVars
  BY <1>1, <1>2, <1>4, NoBookToClose, GoesTo, ScreenNames
<1>5. CASE state = "HOME" /\ Ignored
  BY <1>2, <1>5, NothingHappens
<1> QED
  BY <1>3, <1>4, <1>5, Zenon DEF Home

LEMMA MenuKeeps == ASSUME UiConstants, UiStrong, Menu PROVE UiStrong'
<1>1. modal = 0 /\ OnScreen
  BY NoDialog DEF Menu
<1>2. UNCHANGED <<modal, choice, feedback, powerVars, histVars>>
  BY DEF Menu
<1>3. CASE state = "READER" /\ action' = "MANUAL" /\ Ignored
  <2>1. "MANUAL" \in SyncActions /\ "MANUAL" \notin Choices
    BY DEF SyncActions, Choices
  <2>2. UNCHANGED <<navVars, readerVars, held, exit>> /\ redraw' = FALSE
    BY <1>2, <1>3 DEF Ignored, powerVars
  <2>3. /\ modal' \in 0 .. 2 /\ choice' \in 0 .. 2 /\ feedback' \in Feedbacks
        /\ held' \in BOOLEAN /\ exit' \in BOOLEAN
    BY <1>2, <2>2, Zenon DEF UiStrong, UiInv, UiTypeOK
  <2>4. modal' = 0 /\ modal' # 1
    BY <1>1, <1>2
  <2>5. redraw' \in BOOLEAN
    BY <2>2, Zenon
  <2> QED
    BY <1>2, <1>3, <2>1, <2>2, <2>3, <2>4, <2>5, PageStays
<1>4. CASE state = "HOME" /\ GoTo("ACCOUNT_SETUP") /\ UNCHANGED <<sel, top, readerVars, action>>
  <2>1. UNCHANGED syncVars
    BY <1>2, <1>4 DEF syncVars
  <2> QED
    BY <1>1, <1>2, <1>4, <2>1, NoBookToClose, GoesTo, ScreenNames
<1>5. CASE state \notin {"READER", "HOME"} /\ Ignored /\ UNCHANGED action
  <2>1. UNCHANGED syncVars
    BY <1>2, <1>5 DEF syncVars
  <2> QED
    BY <1>2, <1>5, <2>1, NothingHappens
<1> QED
  BY <1>3, <1>4, <1>5, Zenon DEF Menu

LEMMA TouchElsewhereKeeps ==
    ASSUME UiConstants, UiStrong, TouchElsewhere PROVE UiStrong'
<1>1. modal = 0 /\ OnScreen
  BY NoDialog DEF TouchElsewhere
<1>2. UNCHANGED <<readerVars, syncVars, powerVars, histVars>>
  BY DEF TouchElsewhere
<1>3. CASE state = "HOME" /\ GoTo("READER_TEST") /\ UNCHANGED <<sel, top>>
  BY <1>1, <1>2, <1>3, NoBookToClose, GoesTo, ScreenNames
<1>4. CASE state = "HOME" /\ lib # << >> /\ GoTo("LIBRARY") /\ sel' = 0 /\ top' = 0
  BY <1>1, <1>2, <1>4, NoBookToClose, GoesTo, ScreenNames
<1>5. CASE state = "HOME" /\ GoTo("ACCOUNT_SETUP") /\ UNCHANGED <<sel, top>>
  BY <1>1, <1>2, <1>5, NoBookToClose, GoesTo, ScreenNames
<1>6. CASE UNCHANGED navVars /\ redraw' = (state # "READER")
  <2>1. UNCHANGED <<modal, choice, action, feedback, held, exit>> /\ redraw' \in BOOLEAN
    BY <1>2, <1>6 DEF syncVars, powerVars
  <2>2. /\ modal' \in 0 .. 2 /\ choice' \in 0 .. 2 /\ action' \in SyncActions
        /\ feedback' \in Feedbacks /\ held' \in BOOLEAN /\ exit' \in BOOLEAN
    BY <2>1, Zenon DEF UiStrong, UiInv, UiTypeOK
  <2>3. modal' = 0 /\ UNCHANGED action
    BY <1>1, <2>1
  <2> QED
    BY <1>2, <1>6, <2>1, <2>2, <2>3, PageStays
<1> QED
  BY <1>3, <1>4, <1>5, <1>6, Zenon DEF TouchElsewhere

LEMMA LeaveAccountKeeps ==
    ASSUME UiConstants, UiStrong, LeaveAccount PROVE UiStrong'
BY NoOpenBook, NoBookToClose, GoesTo, ScreenNames DEF LeaveAccount

LEMMA PowerKeeps ==
    ASSUME UiConstants, UiStrong, PowerEvent PROVE UiStrong'
<1>1. /\ UNCHANGED <<navVars, readerVars, modal, choice, action, feedback, histVars>>
      /\ redraw' = FALSE /\ held' \in BOOLEAN /\ exit' \in {exit, TRUE}
  BY DEF PowerEvent, PowerDown, PowerUp, syncVars
<1> QED
  BY <1>1, PageStays DEF UiStrong, UiInv, UiTypeOK

LEMMA TouchRowKeeps ==
    ASSUME UiConstants, UiStrong, NEW r \in 0 .. Rows - 1, TouchRow(r)
    PROVE  UiStrong'
<1>1. state = "LIBRARY" /\ open = -1 /\ modal = 0 /\ top + r < Count
  BY NoOpenBook DEF TouchRow
<1>2. UNCHANGED <<syncVars, powerVars, asked, taken>>
  BY DEF TouchRow
<1>3. CASE Activate(sel) /\ UNCHANGED <<sel, top>>
  <2>1. UNCHANGED <<page, lib, attached>> /\ redraw' = TRUE
    BY <1>3 DEF Activate, GoTo, readerVars
  <2>2. sel' \in Nat /\ top' \in Nat /\ page' \in Nat \ {0} /\ ViewportOK'
    BY <1>3, <2>1, ViewportKept DEF UiStrong, UiInv, UiTypeOK
  <2>3. CASE /\ attached /\ BookList[sel + 1] = "EPUB" /\ open' = sel /\ rpage' = 0
             /\ swapped' = FALSE /\ GoTo("READER")
    <3>1. state' = "READER"
      BY <2>3 DEF GoTo
    <3>2. UNCHANGED <<lib, sel, top, modal, choice, action, feedback, held, exit>>
      BY <1>2, <1>3, <2>1 DEF syncVars, powerVars
    <3>3. open' \in Nat \cup {-1} /\ rpage' \in 0 .. LastPage /\ asked' \in Nat
          /\ taken' \in Nat
      BY <1>2, <2>3, UiNumbers DEF UiStrong, UiInv
    <3>4. UiTypeOK'
      BY <2>1, <2>2, <2>3, <3>1, <3>2, <3>3, ScreenNames, Zenon DEF UiStrong, UiInv, UiTypeOK
    <3>5. OpenBookIsSelected'
      BY <1>3, <2>1, <2>3, <3>1, <3>2, Zenon DEF OpenBookIsSelected, BookList
    <3> QED
      BY <1>1, <1>2, <2>2, <3>4, <3>5, BelowDialogs
  <2>4. CASE open' = -1 /\ rpage' = 0 /\ GoTo("SELECTED_BOOK") /\ UNCHANGED <<attached, swapped>>
    <3>1. UNCHANGED histVars
      BY <1>2, <2>4 DEF histVars
    <3> QED
      BY <1>1, <1>2, <1>3, <2>4, <3>1, GoesTo, ScreenNames
  <2>5. CASE GoTo("SELECTED_BOOK") /\ UNCHANGED <<readerVars, swapped>>
    <3>1. UNCHANGED histVars
      BY <1>2, <2>5 DEF histVars
    <3> QED
      BY <1>1, <1>2, <1>3, <2>5, <3>1, NoBookToClose, GoesTo, ScreenNames
  <2> QED
    BY <1>3, <2>3, <2>4, <2>5, Zenon DEF Activate
<1>4. CASE sel' = top + r /\ GoTo("LIBRARY") /\ UNCHANGED <<top, readerVars, swapped>>
  <2>1. /\ state' = "LIBRARY" /\ redraw' = TRUE
        /\ UNCHANGED <<page, lib, top, attached, open, rpage, histVars>>
    BY <1>2, <1>4 DEF GoTo, readerVars, histVars
  <2>2. /\ Rows \in Nat /\ Count \in Nat /\ top \in Nat /\ page' \in Nat \ {0}
        /\ Count' = Count /\ top <= LargerOf(0, Count - Rows)
    BY <2>1, UiNumbers DEF UiStrong, UiInv, UiTypeOK, ViewportOK, Count, BookList
  <2>3. /\ sel' \in 0 .. Count - 1 /\ sel' \in Nat /\ top \in Nat
        /\ top <= sel' /\ sel' < top + Rows /\ Count # 0
    <3>1. \A t, n, k \in Nat : \A x \in 0 .. k - 1 : t + x < n =>
             /\ t + x \in 0 .. n - 1 /\ t + x \in Nat /\ t <= t + x
             /\ t + x < t + k /\ n # 0
      OBVIOUS
    <3> QED
      BY <1>1, <1>4, <2>2, <3>1, Zenon
  <2>4. ViewportOK'
    <3>1. VisibleRows' = {i \in 0 .. Count - 1 : top <= i /\ i < top + Rows}
      BY <2>1, <2>2, Zenon DEF VisibleRows
    <3>2. sel' \in VisibleRows'
      BY <2>3, <3>1, Zenon
    <3>3. LargerOf(0, Count - Rows)' = LargerOf(0, Count - Rows)
      BY <2>2, Zenon DEF LargerOf
    <3> QED
      BY <2>1, <2>2, <2>3, <3>2, <3>3, Zenon DEF ViewportOK
  <2> QED
    BY <1>1, <1>2, <2>1, <2>2, <2>3, <2>4, ScreenChanges, ScreenNames
<1> QED
  BY <1>3, <1>4, Zenon DEF TouchRow

(* The dialogs.                                                              *)
LEMMA ChoiceNames ==
    ASSUME NEW c \in 0 .. 2
    PROVE  /\ <<"USE_LOCAL", "USE_REMOTE", "CANCEL">>[c + 1] \in SyncActions
           /\ "CANCEL" \in SyncActions /\ "NONE" \in SyncActions /\ "NONE" \notin Choices
<1>1. c = 0 \/ c = 1 \/ c = 2
  OBVIOUS
<1> QED
  BY <1>1 DEF SyncActions, Choices

LEMMA DialogKeeps ==
    ASSUME UiConstants, UiStrong, DialogEvent PROVE UiStrong'
<1>1. /\ modal \in 0 .. 2 /\ choice \in 0 .. 2 /\ action \in SyncActions
      /\ feedback \in Feedbacks /\ held \in BOOLEAN /\ exit \in BOOLEAN
      /\ modal = 1 => action = "NONE"
  BY Zenon DEF UiStrong, UiInv, UiTypeOK
<1>2. /\ UNCHANGED <<navVars, readerVars, histVars, held, exit>> /\ InDialog
      /\ redraw' \in BOOLEAN
  BY Zenon DEF DialogEvent, DismissDialog, HighlightChoice, ConfirmChoice, DialogKeepsRest,
               powerVars
<1>3. modal # 0
  BY <1>2 DEF InDialog
<1>4. /\ modal' \in 0 .. 2 /\ choice' \in 0 .. 2 /\ action' \in SyncActions
      /\ feedback' \in Feedbacks /\ (modal' = 1 => action' = "NONE")
      /\ action' \in Choices \/ modal' = 1 => action \in Choices \/ modal = 1
  <2>1. CASE DismissDialog
    BY <1>1, <2>1, ChoiceNames DEF DismissDialog
  <2>2. CASE HighlightChoice
    BY <1>1, <2>2 DEF HighlightChoice
  <2>3. CASE ConfirmChoice
    BY <1>1, <2>3, ChoiceNames DEF ConfirmChoice, UiConstants, FeedbacksAssumption
  <2> QED
    BY <2>1, <2>2, <2>3 DEF DialogEvent
<1>5. held' \in BOOLEAN /\ exit' \in BOOLEAN
  BY <1>1, <1>2
<1> QED
  BY <1>2, <1>3, <1>4, <1>5, PageStays

(* Every input keeps the screens consistent.                                 *)
LEMMA InputKeeps == ASSUME UiConstants, UiStrong, cn_ui_handle PROVE UiStrong'
<1>1. CASE KeyEvent
  BY <1>1, PageNextKeeps, PagePrevKeeps, MenuKeeps, BackKeeps, HomeKeeps DEF KeyEvent
<1>2. CASE TouchEvent
  BY <1>2, TouchElsewhereKeeps, TouchRowKeeps DEF TouchEvent
<1> QED
  BY <1>1, <1>2, DialogKeeps, PowerKeeps, LeaveAccountKeeps DEF cn_ui_handle

(* The application's calls.                                                  *)
LEMMA SetLibraryKeeps ==
    ASSUME UiConstants, UiStrong, NEW l \in Libraries, cn_ui_set_library(l)
    PROVE  UiStrong'
<1>1. /\ lib' = <<l>> /\ sel' = 0 /\ top' = 0 /\ modal' = 0 /\ action' = "NONE"
      /\ redraw' = FALSE /\ swapped' = (swapped \/ open >= 0)
      /\ UNCHANGED <<state, page, attached, open, rpage, choice, feedback, held, exit,
                     asked, taken>>
  BY DEF cn_ui_set_library, readerVars, powerVars
<1>2. UiTypeOK'
  <2>1. action' \in SyncActions /\ sel' \in Nat /\ top' \in Nat /\ modal' \in 0 .. 2
    BY <1>1 DEF SyncActions
  <2>2. lib' \in {<<k>> : k \in Libraries} \cup {<< >>} /\ redraw' \in BOOLEAN
    BY <1>1, Zenon
  <2>3. swapped' \in BOOLEAN
    BY <1>1, Zenon
  <2> QED
    BY <1>1, <2>1, <2>2, <2>3, Zenon DEF UiStrong, UiInv, UiTypeOK
<1>3. ViewportOK'
  <2>1. Count' \in Nat /\ Rows \in Nat /\ Rows > 0
    <3>1. Count' = Len(l)
      BY <1>1 DEF Count, BookList
    <3> QED
      BY <3>1, UiNumbers DEF UiConstants, LibrariesAssumption, UiStrong, UiInv
  <2>2. VisibleRows' = {i \in 0 .. Count' - 1 : 0 <= i /\ i < 0 + Rows}
    BY <1>1, Zenon DEF VisibleRows
  <2>3. Count' > 0 => sel' \in VisibleRows'
    <3>1. \A n, k \in Nat : n > 0 /\ k > 0 => 0 \in {i \in 0 .. n - 1 : 0 <= i /\ i < 0 + k}
      OBVIOUS
    <3> QED
      BY <1>1, <2>1, <2>2, <3>1, Zenon
  <2>4. top' <= LargerOf(0, Count - Rows)'
    <3>1. \A n, k \in Nat : 0 <= LargerOf(0, n - k)
      BY DEF LargerOf
    <3>2. LargerOf(0, Count - Rows)' = LargerOf(0, Count' - Rows)
      BY Zenon DEF LargerOf
    <3> QED
      BY <1>1, <2>1, <3>1, <3>2, Zenon
  <2> QED
    BY <1>1, <2>3, <2>4 DEF ViewportOK
<1>4. OpenBookIsSelected'
  BY <1>1 DEF UiStrong, UiInv, OpenBookIsSelected
<1>5. OneChoicePerDialog'
  BY <1>1, UiNumbers DEF UiStrong, UiInv, OneChoicePerDialog, Choices
<1> QED
  BY <1>1, <1>2, <1>3, <1>4, <1>5 DEF UiStrong, UiInv, DialogOverOpenBook

LEMMA SetReaderKeeps ==
    ASSUME UiConstants, UiStrong, cn_ui_set_reader PROVE UiStrong'
<1>1. /\ attached' \in BOOLEAN /\ open' = -1 /\ rpage' = 0 /\ modal' = 0
      /\ action' = "NONE" /\ redraw' = FALSE
      /\ UNCHANGED <<state, page, lib, sel, top, choice, feedback, held, exit,
                     asked, taken, swapped>>
  BY DEF cn_ui_set_reader, navVars, powerVars, histVars
<1>2. UiTypeOK'
  <2>1. open' \in Nat \cup {-1} /\ rpage' \in 0 .. LastPage /\ modal' \in 0 .. 2
        /\ action' \in SyncActions
    BY <1>1, UiNumbers DEF UiStrong, UiInv, SyncActions
  <2> QED
    BY <1>1, <2>1, Zenon DEF UiStrong, UiInv, UiTypeOK
<1>3. ViewportOK'
  BY <1>1, ViewportKept DEF UiStrong, UiInv
<1>4. OpenBookIsSelected'
  BY <1>1 DEF OpenBookIsSelected
<1>5. OneChoicePerDialog'
  BY <1>1, UiNumbers DEF UiStrong, UiInv, OneChoicePerDialog, Choices
<1> QED
  BY <1>1, <1>2, <1>3, <1>4, <1>5 DEF UiStrong, UiInv, DialogOverOpenBook

LEMMA ShowConflictKeeps ==
    ASSUME UiConstants, UiStrong, cn_ui_show_sync_conflict PROVE UiStrong'
<1>1. /\ state = "READER" /\ ReaderOpen /\ action' = "NONE" /\ modal' = 1 /\ choice' = 2
      /\ asked' = asked + 1
      /\ UNCHANGED <<state, page, lib, sel, top, attached, open, rpage, feedback, held,
                     exit, redraw, taken, swapped>>
  BY DEF cn_ui_show_sync_conflict, navVars, readerVars, powerVars
<1>2. UiTypeOK'
  <2>1. modal' \in 0 .. 2 /\ choice' \in 0 .. 2 /\ action' \in SyncActions /\ asked' \in Nat
    BY <1>1, UiNumbers DEF UiStrong, UiInv, SyncActions
  <2> QED
    BY <1>1, <2>1, Zenon DEF UiStrong, UiInv, UiTypeOK
<1>3. ViewportOK'
  BY <1>1, ViewportKept DEF UiStrong, UiInv
<1>4. OpenBookIsSelected' /\ DialogOverOpenBook'
  BY <1>1, Zenon DEF UiStrong, UiInv, OpenBookIsSelected, DialogOverOpenBook, ReaderOpen, BookList
<1>5. OneChoicePerDialog'
  BY <1>1, UiNumbers DEF UiStrong, UiInv, OneChoicePerDialog
<1> QED
  BY <1>1, <1>2, <1>3, <1>4, <1>5 DEF UiStrong, UiInv

LEMMA ShowFeedbackKeeps ==
    ASSUME UiConstants, UiStrong, NEW f \in Feedbacks, cn_ui_show_sync_feedback(f)
    PROVE  UiStrong'
<1>1. /\ state = "READER" /\ ReaderOpen /\ action' = "NONE" /\ modal' = 2 /\ feedback' = f
      /\ UNCHANGED <<state, page, lib, sel, top, attached, open, rpage, choice, held,
                     exit, redraw, asked, taken, swapped>>
  BY DEF cn_ui_show_sync_feedback, navVars, readerVars, powerVars, histVars
<1>2. UiTypeOK'
  <2>1. modal' \in 0 .. 2 /\ action' \in SyncActions
    BY <1>1 DEF SyncActions
  <2> QED
    BY <1>1, <2>1, Zenon DEF UiStrong, UiInv, UiTypeOK
<1>3. ViewportOK'
  BY <1>1, ViewportKept DEF UiStrong, UiInv
<1>4. OpenBookIsSelected' /\ DialogOverOpenBook'
  BY <1>1, Zenon DEF UiStrong, UiInv, OpenBookIsSelected, DialogOverOpenBook, ReaderOpen, BookList
<1>5. OneChoicePerDialog'
  BY <1>1, UiNumbers DEF UiStrong, UiInv, OneChoicePerDialog, Choices
<1> QED
  BY <1>1, <1>2, <1>3, <1>4, <1>5 DEF UiStrong, UiInv

(* The authorization is used up when the request is taken. *)
LEMMA TakeKeeps ==
    ASSUME UiConstants, UiStrong, cn_ui_take_sync_action PROVE UiStrong'
<1>1. /\ action # "NONE" /\ action' = "NONE"
      /\ taken' = IF action \in Choices THEN taken + 1 ELSE taken
      /\ UNCHANGED <<state, page, lib, sel, top, attached, open, rpage, modal, choice,
                     feedback, held, exit, redraw, asked, swapped>>
  BY DEF cn_ui_take_sync_action, navVars, readerVars, powerVars
<1>2. modal # 1
  BY <1>1 DEF UiStrong
<1>3. UiTypeOK'
  <2>1. taken' \in Nat /\ action' \in SyncActions
    BY <1>1, UiNumbers DEF UiStrong, UiInv, SyncActions
  <2> QED
    BY <1>1, <2>1, Zenon DEF UiStrong, UiInv, UiTypeOK
<1>4. ViewportOK'
  BY <1>1, ViewportKept DEF UiStrong, UiInv
<1>5. OpenBookIsSelected' /\ DialogOverOpenBook'
  BY <1>1, Zenon DEF UiStrong, UiInv, OpenBookIsSelected, DialogOverOpenBook, ReaderOpen, BookList
<1>6. OneChoicePerDialog'
  BY <1>1, <1>2, UiNumbers DEF UiStrong, UiInv, OneChoicePerDialog, Choices
<1> QED
  BY <1>1, <1>3, <1>4, <1>5, <1>6 DEF UiStrong, UiInv

LEMMA UiStepKeeps == ASSUME UiConstants, UiStrong, UiNext PROVE UiStrong'
BY InputKeeps, SetLibraryKeeps, SetReaderKeeps, ShowConflictKeeps, ShowFeedbackKeeps,
   TakeKeeps DEF UiNext, ApplicationCall

LEMMA UiStutters == ASSUME UiStrong, UNCHANGED uiVars PROVE UiStrong'
<1>1. UNCHANGED <<state, page, lib, sel, top, attached, open, rpage, modal, choice, action,
                  feedback, held, exit, redraw, asked, taken, swapped>>
  BY DEF uiVars, navVars, readerVars, syncVars, powerVars, histVars
<1> QED
  BY <1>1, Zenon DEF UiStrong, UiInv, UiTypeOK, ViewportOK, VisibleRows, Count, BookList,
     DialogOverOpenBook, OpenBookIsSelected, OneChoicePerDialog, ReaderOpen

(* A step that asks for no redraw leaves what the screen shows as it is. *)
ShownAlike ==
    /\ UNCHANGED <<state, page, lib, sel, top, modal, feedback>>
    /\ state = "READER" => UNCHANGED <<open, rpage>>
    /\ choice' # choice => modal # 1

LEMMA SameScreen == ASSUME ShownAlike PROVE Screen' = Screen
<1>1. /\ UNCHANGED <<state, page, lib, sel, top, modal, feedback>>
      /\ state = "READER" => UNCHANGED <<open, rpage>>
      /\ modal = 1 => UNCHANGED choice
  BY DEF ShownAlike
<1>2. CASE state = "READER"
  <2>1. CASE modal = 1
    BY <1>1, <1>2, <2>1 DEF Screen
  <2>2. CASE modal # 1
    BY <1>1, <1>2, <2>2 DEF Screen
  <2> QED
    BY <2>1, <2>2
<1>3. CASE state # "READER"
  BY <1>1, <1>3 DEF Screen
<1> QED
  BY <1>2, <1>3

(* cn_ui_handle asks for a redraw whenever the screen changes (RedrawsWhat-  *)
(* Changes): in every branch that answers "nothing to draw", nothing that is *)
(* drawn has changed.                                                        *)
LEMMA InputsRedraw == ASSUME UiConstants, UiStrong, cn_ui_handle PROVE redraw' \/ ShownAlike
<1>1. CASE PageNext
  <2>1. UNCHANGED <<modal, choice, feedback>>
    BY <1>1 DEF PageNext, syncVars
  <2>2. CASE state = "READER" /\ TurnPage(1) /\ UNCHANGED navVars
    BY <2>1, <2>2, Zenon DEF TurnPage, navVars, readerVars, ShownAlike
  <2> QED
    BY <1>1, <2>1, <2>2, Zenon DEF PageNext, GoTo, Ignored, navVars, readerVars, ShownAlike
<1>2. CASE PagePrev
  <2>1. UNCHANGED <<modal, choice, feedback>>
    BY <1>2 DEF PagePrev, syncVars
  <2>2. CASE state = "READER" /\ TurnPage(-1) /\ UNCHANGED navVars
    BY <2>1, <2>2, Zenon DEF TurnPage, navVars, readerVars, ShownAlike
  <2> QED
    BY <1>2, <2>1, <2>2, Zenon DEF PagePrev, GoTo, Ignored, navVars, readerVars, ShownAlike
<1>3. CASE Menu \/ Back \/ Home
  BY <1>3, Zenon DEF Menu, Back, Home, GoTo, Ignored, navVars, readerVars, syncVars, ShownAlike
<1>4. CASE TouchElsewhere
  <2>1. UNCHANGED <<modal, choice, feedback, readerVars>>
    BY <1>4 DEF TouchElsewhere, syncVars
  <2>2. CASE UNCHANGED navVars /\ redraw' = (state # "READER")
    BY <2>1, <2>2, Zenon DEF navVars, readerVars, ShownAlike
  <2> QED
    BY <1>4, <2>2, Zenon DEF TouchElsewhere, GoTo
<1>5. CASE \E r \in 0 .. Rows - 1 : TouchRow(r)
  BY <1>5, Zenon DEF TouchRow, Activate, GoTo
<1>6. CASE DialogEvent
  BY <1>6, Zenon DEF DialogEvent, DismissDialog, HighlightChoice, ConfirmChoice,
                     DialogKeepsRest, navVars, readerVars, ShownAlike
<1>7. CASE PowerEvent
  BY <1>7, Zenon DEF PowerEvent, PowerDown, PowerUp, navVars, readerVars, syncVars, ShownAlike
<1>8. CASE LeaveAccount
  BY <1>8, Zenon DEF LeaveAccount, GoTo
<1> QED
  BY <1>1, <1>2, <1>3, <1>4, <1>5, <1>6, <1>7, <1>8
     DEF cn_ui_handle, KeyEvent, TouchEvent

LEMMA UiRedraws == ASSUME UiConstants, UiStrong PROVE RedrawsWhatChanges
BY InputsRedraw, SameScreen DEF RedrawsWhatChanges

-----------------------------------------------------------------------------
(* The reading session.                                                     *)

SessionConstants ==
    /\ UiConstants /\ XPointersAssumption /\ NoRecordAssumption /\ UnansweredAssumption
    /\ PageOfAssumption /\ PageStartAssumption
    /\ {"STALE", "MISMATCH", "REMOTE_APPLIED", "UPLOAD_POSSIBLE", "REMOTE_UPDATED",
        "REMOTE_MISSING", "FAILED"} \subseteq Feedbacks

(* What the acknowledgement says, whenever it is up. *)
FeedbackIsTrue ==
    /\ feedback = "REMOTE_UPDATED" => evidence.put = "stored"
    /\ feedback = "REMOTE_APPLIED" => evidence.imported = 1 /\ local = evidence.got
    /\ feedback = "MISMATCH" => evidence.imported = 1
    /\ feedback \in {"FAILED", "STALE", "REMOTE_MISSING"} =>
           evidence.put = "none" /\ evidence.imported = 0
    /\ feedback = "REMOTE_MISSING" => evidence.got = NoRecord

(* How far the session has come: no conflict yet, the conflict is shown, the *)
(* choice is being carried out, its result is shown, the result was read.    *)
Quiet == asked = 0 /\ modal = 0 /\ verdict = "none"
Asking == asked = 1 /\ modal = 1 /\ verdict = "none" /\ here = saved
Deciding == asked = 1 /\ modal = 2 /\ verdict = "none" /\ here = saved
Told == asked = 1 /\ modal = 2 /\ verdict # "none" /\ FeedbackIsTrue
Dismissed == asked = 1 /\ modal = 0 /\ verdict # "none" /\ was # 0

(* The position was saved before the controller was called. *)
SavedFirst == Quiet /\ here = saved /\ local = saved /\ saved \in XPointers

(* What the operation c for the request can have done so far: only a pull    *)
(* replaces the local record, and until then it is the one that was shown.   *)
Effect(c) ==
    /\ chosen \in {"MANUAL", "USE_LOCAL", "USE_REMOTE"}
    /\ chosen = "MANUAL" => c.kind = "sync" /\ c.imported = 0 /\ SavedFirst
    /\ chosen = "USE_LOCAL" => c.kind = "push" /\ c.imported = 0
    /\ chosen = "USE_REMOTE" => c.kind = "pull" /\ c.put = "none"
    /\ chosen # "MANUAL" =>
           /\ Deciding /\ saved \in XPointers
           /\ \/ c.imported = 0 /\ local = saved
              \/ c.imported = 1 /\ local = c.got

(* What the report says of the call that is over (SyncContract). *)
Reported ==
    /\ (report.outcome = "IMPORTED") <=> (evidence.imported = 1 /\ evidence.kind = "sync")
    /\ (report.outcome = "PERSISTED") <=> (evidence.imported = 1 /\ evidence.kind = "pull")
    /\ (report.outcome = "UPLOADED") <=> (report.remote_mutation = "CONFIRMED")
    /\ report.remote_mutation = "CONFIRMED" => evidence.put = "stored"
    /\ report.remote_mutation = "NONE" => evidence.put = "none"
    /\ report.remote_mutation \in {"NONE", "POSSIBLE", "CONFIRMED"}
    /\ report.outcome = "NO_STATE" => local = NoRecord
    /\ report.outcome = "REMOTE_MISSING" => evidence.got = NoRecord

(* What is known of the resolution when its result is about to be shown. *)
Resolved ==
    /\ asked = 1 /\ modal = 2
    /\ verdict \in {"STALE", "LOCAL_COMPLETE", "REMOTE_COMPLETE", "REMOTE_APPLIED",
                    "REMOTE_APPLY_FAILED"}
    /\ verdict = "STALE" => evidence.put = "none" /\ evidence.imported = 0
    /\ verdict = "LOCAL_COMPLETE" => evidence.imported = 0 /\ Reported
    /\ verdict = "REMOTE_COMPLETE" =>
           evidence.imported = 0 /\ evidence.put = "none" /\ Reported
    /\ verdict = "REMOTE_APPLIED" => evidence.imported = 1 /\ local = evidence.got
    /\ verdict = "REMOTE_APPLY_FAILED" => evidence.imported = 1

(* Where the event loop is, and how far the session can be there. *)
Phase ==
    /\ pc = "poll" => action = "NONE" /\ (Quiet \/ Asking \/ Told)
    /\ pc = "dispatch" =>
           \/ action = "NONE" /\ (Quiet \/ Asking \/ Told \/ Dismissed)
           \/ action = "MANUAL" /\ Quiet
           \/ action = "CANCEL"
           \/ action \in {"USE_LOCAL", "USE_REMOTE"} /\ Deciding
    /\ pc = "capture" => chosen = "MANUAL" /\ Quiet
    /\ pc = "invoke" => chosen = "MANUAL" /\ SavedFirst
    /\ pc = "busy" => Effect(call)
    /\ pc = "returned" => Effect(evidence) /\ Reported
    /\ pc = "resolve" =>
           chosen \in {"USE_LOCAL", "USE_REMOTE"} /\ Deciding /\ evidence = Sync!NoCall
    /\ pc = "feedback" => Resolved

SessionTypes ==
    /\ local \in XPointers \cup {NoRecord} /\ here \in XPointers /\ opened \in XPointers
    /\ snapshot \in XPointers \cup {NoRecord}
    /\ pc \in {"poll", "dispatch", "capture", "invoke", "busy", "returned",
               "resolve", "feedback", "done"}
    /\ mismatch \in BOOLEAN

PageShown == PageOf[here] = rpage \/ open < 0

CallInLoop ==
    /\ call = [kind |-> call.kind, got |-> call.got, put |-> call.put,
               imported |-> call.imported]
    /\ call.kind # "none" => pc = "busy"

(* The inductive invariant of the session. *)
SessionStrong ==
    UiStrong /\ SessionTypes /\ PageShown /\ CallInLoop /\ DiskAndReaderAgree /\ Phase

LEMMA SessionStrongImplies ==
    ASSUME SessionConstants, SessionStrong
    PROVE  SessionTypeOK /\ SaveFirstNeverImports /\ ChoiceActsOnShownConflict
           /\ DiskAndReaderAgree /\ FeedbackTruthful
<1>1. SessionTypeOK
  BY Zenon DEF SessionStrong, SessionTypes, SessionTypeOK, PageShown, UiStrong, UiInv
<1>2. SaveFirstNeverImports
  <2> SUFFICES ASSUME pc = "returned", chosen = "MANUAL"
               PROVE  report.outcome \notin {"IMPORTED", "NO_STATE"}
    BY DEF SaveFirstNeverImports
  <2>1. Effect(evidence) /\ Reported
    BY Zenon DEF SessionStrong, Phase
  <2>2. evidence.imported = 0 /\ local \in XPointers
    BY <2>1, Zenon DEF Effect, SavedFirst
  <2> QED
    BY <2>1, <2>2 DEF Reported, SessionConstants, XPointersAssumption, NoRecordAssumption
<1>3. ChoiceActsOnShownConflict
  <2> SUFFICES ASSUME call.kind \in {"push", "pull"}, call.imported = 0
               PROVE  asked = 1 /\ here = saved /\ local = saved
    BY DEF ChoiceActsOnShownConflict
  <2>1. Effect(call)
    BY DEF SessionStrong, CallInLoop, Phase
  <2> QED
    BY <2>1 DEF Effect, Deciding
<1>4. FeedbackTruthful
  <2> SUFFICES ASSUME pc = "poll", modal = 2 PROVE FeedbackIsTrue
    BY Zenon DEF FeedbackTruthful, FeedbackIsTrue
  <2>1. Told
    BY DEF SessionStrong, Phase, Quiet, Asking
  <2> QED
    BY <2>1 DEF Told
<1> QED
  BY <1>1, <1>2, <1>3, <1>4 DEF SessionStrong

LEMMA SessionInitially ==
    ASSUME SessionConstants, SessionInit PROVE SessionStrong
<1>1. /\ state = "READER" /\ page = 1 /\ lib \in {<<l>> : l \in Libraries}
      /\ sel = 0 /\ top = 0 /\ Count > 0 /\ BookList[1] = "EPUB"
      /\ attached = TRUE /\ open = 0 /\ rpage \in 0 .. LastPage
      /\ modal = 0 /\ choice = 0 /\ action = "NONE" /\ feedback = "WORKING"
      /\ held = FALSE /\ exit = FALSE /\ redraw = FALSE
      /\ asked = 0 /\ taken = 0 /\ swapped = FALSE
  BY Zenon DEF SessionInit
<1>2. UiConstants /\ LastPage \in Nat /\ "WORKING" \in Feedbacks
  BY DEF SessionConstants, UiConstants, LastPageAssumption, FeedbacksAssumption
<1>3. UiTypeOK
  <2>1. /\ page \in Nat \ {0} /\ sel \in Nat /\ top \in Nat /\ open \in Nat \cup {-1}
        /\ modal \in 0 .. 2 /\ choice \in 0 .. 2 /\ asked \in Nat /\ taken \in Nat
        /\ action \in SyncActions /\ state \in States
    BY <1>1 DEF SyncActions, States
  <2> QED
    BY <1>1, <1>2, <2>1, Zenon DEF UiTypeOK
<1>4. ViewportOK
  <2>1. Count \in Nat /\ Rows \in Nat /\ Rows > 0
    BY <1>2, <1>3, UiNumbers
  <2>2. \A n, k \in Nat : n > 0 /\ k > 0 => 0 \in {i \in 0 .. n - 1 : 0 <= i /\ i < 0 + k}
    OBVIOUS
  <2>3. 0 \in VisibleRows
    BY <1>1, <2>1, <2>2, Zenon DEF VisibleRows
  <2>4. \A n, k \in Nat : 0 <= LargerOf(0, n - k)
    BY DEF LargerOf
  <2> QED
    BY <1>1, <2>1, <2>3, <2>4, Zenon DEF ViewportOK
<1>5. UiStrong
  <2>1. open >= 0 /\ sel + 1 = 1
    BY <1>1
  <2>2. OpenBookIsSelected
    BY <1>1, <2>1, Zenon DEF OpenBookIsSelected
  <2>3. OneChoicePerDialog
    BY <1>1 DEF OneChoicePerDialog, Choices
  <2> QED
    BY <1>1, <1>3, <1>4, <2>2, <2>3 DEF UiStrong, UiInv, DialogOverOpenBook
<1>6. /\ local \in XPointers \cup {NoRecord} /\ call = Sync!NoCall
      /\ here = PageStart[rpage] /\ opened = here /\ pc = "poll"
      /\ snapshot = NoRecord /\ verdict = "none" /\ mismatch = FALSE
  BY Zenon DEF SessionInit, Sync!Init
<1>7. here \in XPointers /\ PageOf[here] = rpage
  BY <1>1, <1>6 DEF SessionConstants, PageStartAssumption
<1>8. CallInLoop
  BY <1>6 DEF CallInLoop, Sync!NoCall
<1>9. Phase
  BY <1>1, <1>6 DEF Phase, Quiet
<1>10. SessionTypes /\ PageShown /\ DiskAndReaderAgree
  BY <1>6, <1>7 DEF SessionTypes, PageShown, DiskAndReaderAgree
<1> QED
  BY <1>5, <1>8, <1>9, <1>10 DEF SessionStrong

(* What an input can do to the dialogs. *)
LEMMA InputAtRest ==
    ASSUME UiConstants, UiStrong, modal = 0, action = "NONE", cn_ui_handle
    PROVE  /\ UNCHANGED asked /\ modal' = 0 /\ action' \in {"NONE", "MANUAL"}
<1>1. CASE KeyEvent
  BY <1>1, Zenon DEF KeyEvent, PageNext, PagePrev, Menu, Back, Home, syncVars, histVars
<1>2. CASE TouchEvent
  BY <1>2, Zenon DEF TouchEvent, TouchElsewhere, TouchRow, syncVars, histVars
<1>3. CASE PowerEvent \/ LeaveAccount
  BY <1>3, Zenon DEF PowerEvent, PowerDown, PowerUp, LeaveAccount, syncVars, histVars
<1>4. ~DialogEvent
  BY Zenon DEF DialogEvent, DismissDialog, HighlightChoice, ConfirmChoice, InDialog
<1> QED
  BY <1>1, <1>2, <1>3, <1>4, Zenon DEF cn_ui_handle

LEMMA InputInDialog ==
    ASSUME UiConstants, UiStrong, modal # 0, cn_ui_handle
    PROVE  /\ UNCHANGED <<asked, open, rpage>>
           /\ \/ UNCHANGED <<modal, action, feedback>>
              \/ modal = 1 /\ action' = "CANCEL"
              \/ modal = 1 /\ modal' = 2 /\ action' \in {"USE_LOCAL", "USE_REMOTE"}
              \/ modal = 2 /\ modal' = 0 /\ UNCHANGED action
<1>1. InDialog /\ state = "READER"
  BY DEF UiStrong, UiInv, DialogOverOpenBook, InDialog
<1>2. modal \in {1, 2} /\ choice \in {0, 1, 2}
  BY DEF UiStrong, UiInv, UiTypeOK
<1>3. ~KeyEvent /\ ~TouchEvent /\ ~LeaveAccount
  <2>1. ~OnScreen
    BY <1>1, Zenon DEF OnScreen
  <2>2. state # "LIBRARY" /\ state # "ACCOUNT_SETUP"
    BY <1>1
  <2> QED
    BY <2>1, <2>2, Zenon DEF KeyEvent, PageNext, PagePrev, Menu, Back, Home, TouchEvent,
                             TouchElsewhere, TouchRow, LeaveAccount
<1>4. CASE PowerEvent
  BY <1>4, Zenon DEF PowerEvent, PowerDown, PowerUp, syncVars, histVars, readerVars
<1>5. CASE DialogEvent
  <2>1. UNCHANGED <<asked, open, rpage>>
    BY <1>5, Zenon DEF DialogEvent, DismissDialog, HighlightChoice, ConfirmChoice,
                       DialogKeepsRest, histVars, readerVars
  <2>2. CASE DismissDialog
    BY <1>2, <2>1, <2>2 DEF DismissDialog
  <2>3. CASE HighlightChoice
    BY <2>1, <2>3, Zenon DEF HighlightChoice
  <2>4. CASE ConfirmChoice
    BY <1>2, <2>1, <2>4 DEF ConfirmChoice
  <2> QED
    BY <1>5, <2>2, <2>3, <2>4 DEF DialogEvent
<1> QED
  BY <1>3, <1>4, <1>5 DEF cn_ui_handle

LEMMA PollKeeps ==
    ASSUME SessionConstants, SessionStrong, PollEvent PROVE SessionStrong'
<1>1. /\ pc = "poll" /\ cn_ui_handle /\ was' = modal /\ pc' = "dispatch"
      /\ here' = IF <<open', rpage'>> = <<open, rpage>> THEN here ELSE PageStart[rpage']
      /\ UNCHANGED <<local, call, report, opened, snapshot, verdict, mismatch, saved, evidence>>
  BY Zenon DEF PollEvent, Goto, contractVars, conflictVars, ghostVars
<1>2. UiConstants /\ UiStrong /\ action = "NONE" /\ (Quiet \/ Asking \/ Told)
  BY <1>1, Zenon DEF SessionConstants, SessionStrong, Phase
<1>3. UiStrong'
  BY <1>1, <1>2, InputKeeps
<1>4. here' \in XPointers /\ PageShown'
  <2>1. rpage' \in 0 .. LastPage
    BY <1>3, Zenon DEF UiStrong, UiInv, UiTypeOK
  <2>2. CASE <<open', rpage'>> = <<open, rpage>>
    BY <1>1, <2>2 DEF SessionStrong, SessionTypes, PageShown
  <2>3. CASE <<open', rpage'>> # <<open, rpage>>
    BY <1>1, <2>1, <2>3 DEF SessionConstants, PageStartAssumption, PageShown
  <2> QED
    BY <2>2, <2>3
<1>5. SessionTypes'
  BY <1>1, <1>4, Zenon DEF SessionStrong, SessionTypes
<1>6. CallInLoop'
  BY <1>1 DEF SessionStrong, CallInLoop
<1>7. CASE modal = 0
  <2>1. /\ UNCHANGED asked /\ modal' = 0 /\ action' \in {"NONE", "MANUAL"} /\ Quiet
    BY <1>1, <1>2, <1>7, InputAtRest DEF Asking, Told
  <2>2. Quiet' /\ DiskAndReaderAgree'
    BY <1>1, <2>1 DEF Quiet, DiskAndReaderAgree
  <2>3. Phase'
    BY <1>1, <2>1, <2>2 DEF Phase
  <2> QED
    BY <1>3, <1>4, <1>5, <1>6, <2>2, <2>3 DEF SessionStrong
<1>8. CASE modal # 0
  <2>1. /\ UNCHANGED <<asked, open, rpage>>
        /\ \/ UNCHANGED <<modal, action, feedback>>
           \/ modal = 1 /\ action' = "CANCEL"
           \/ modal = 1 /\ modal' = 2 /\ action' \in {"USE_LOCAL", "USE_REMOTE"}
           \/ modal = 2 /\ modal' = 0 /\ UNCHANGED action
    BY <1>1, <1>2, <1>8, InputInDialog
  <2>2. UNCHANGED here
    BY <1>1, <2>1
  <2>3. DiskAndReaderAgree'
    BY <1>1, <2>1 DEF SessionStrong, DiskAndReaderAgree
  <2>4. Phase'
    <3>1. CASE UNCHANGED <<modal, action, feedback>>
      <4>1. Asking' \/ Told'
        BY <1>1, <1>2, <1>8, <2>1, <2>2, <3>1 DEF Quiet, Asking, Told, FeedbackIsTrue
      <4> QED
        BY <1>1, <1>2, <3>1, <4>1 DEF Phase
    <3>2. CASE action' = "CANCEL"
      BY <1>1, <3>2 DEF Phase
    <3>3. CASE modal = 1 /\ modal' = 2 /\ action' \in {"USE_LOCAL", "USE_REMOTE"}
      <4>1. Deciding'
        BY <1>1, <1>2, <2>1, <2>2, <3>3 DEF Quiet, Asking, Told, Deciding
      <4> QED
        BY <1>1, <3>3, <4>1 DEF Phase
    <3>4. CASE modal = 2 /\ modal' = 0 /\ UNCHANGED action
      <4>1. Dismissed'
        BY <1>1, <1>2, <2>1, <3>4 DEF Quiet, Asking, Told, Dismissed
      <4> QED
        BY <1>1, <1>2, <3>4, <4>1 DEF Phase
    <3> QED
      BY <2>1, <3>1, <3>2, <3>3, <3>4
  <2> QED
    BY <1>3, <1>4, <1>5, <1>6, <2>3, <2>4 DEF SessionStrong
<1> QED
  BY <1>7, <1>8

(* A step that leaves the screens and the reader alone.                      *)
LEMMA ReaderStays ==
    ASSUME SessionStrong, UNCHANGED <<uiVars, here, opened>>,
           local' \in XPointers \cup {NoRecord}, UNCHANGED snapshot,
           pc' \in {"poll", "dispatch", "capture", "invoke", "busy", "returned",
                    "resolve", "feedback", "done"},
           mismatch' \in BOOLEAN, CallInLoop', DiskAndReaderAgree', Phase'
    PROVE  SessionStrong'
<1>1. UNCHANGED <<uiVars, open, rpage, here, opened, snapshot>>
  BY DEF uiVars, readerVars
<1>2. UiStrong' /\ PageShown' /\ SessionTypes'
  BY <1>1, UiStutters, Zenon DEF SessionStrong, SessionTypes, PageShown
<1> QED
  BY <1>2 DEF SessionStrong

LEMMA UiVarsAre ==
    ASSUME UNCHANGED uiVars
    PROVE  UNCHANGED <<state, lib, sel, attached, open, rpage, modal, choice, action,
                       feedback, exit, asked>>
BY DEF uiVars, navVars, readerVars, syncVars, powerVars, histVars

(* The facts an idle contract keeps: the call, the records, the history.     *)
LEMMA CallStays == ASSUME SessionStrong, UNCHANGED call, pc # "busy" PROVE CallInLoop'
<1>1. call.kind = "none"
  BY DEF SessionStrong, CallInLoop
<1> QED
  BY <1>1 DEF SessionStrong, CallInLoop

LEMMA AgreementStays ==
    ASSUME SessionStrong, UNCHANGED <<local, rpage, verdict, mismatch>>
    PROVE  DiskAndReaderAgree'
BY DEF SessionStrong, DiskAndReaderAgree

LEMMA NothingRequestedKeeps ==
    ASSUME SessionConstants, SessionStrong, NothingRequested PROVE SessionStrong'
<1>1. /\ pc = "dispatch" /\ action = "NONE"
      /\ pc' \in {IF exit \/ Acknowledged THEN "done" ELSE "poll", "done"} /\ was' = 0
      /\ UNCHANGED <<uiVars, local, call, report, here, chosen, opened, snapshot, verdict,
                     mismatch, saved, evidence>>
  BY Zenon DEF NothingRequested, Shows, contractVars, conflictVars, ghostVars
<1>2. pc' \in {"poll", "done"} /\ (pc' = "poll" => ~Acknowledged)
  BY <1>1
<1>3. UNCHANGED <<rpage, modal, action, feedback, asked>>
  BY <1>1, UiVarsAre
<1>4. Quiet \/ Asking \/ Told \/ Dismissed
  BY <1>1 DEF SessionStrong, Phase
<1>5. Phase'
  <2>1. ASSUME pc' = "poll" PROVE Quiet' \/ Asking' \/ Told'
    <3>1. ~Dismissed
      BY <1>2, <2>1 DEF Dismissed, Acknowledged
    <3> QED
      BY <1>1, <1>3, <1>4, <3>1 DEF Quiet, Asking, Told, FeedbackIsTrue
  <2> QED
    BY <1>1, <1>2, <1>3, <2>1 DEF Phase
<1>6. CallInLoop' /\ DiskAndReaderAgree'
  BY <1>1, <1>3, CallStays, AgreementStays
<1>7. local' \in XPointers \cup {NoRecord} /\ mismatch' \in BOOLEAN
  BY <1>1, Zenon DEF SessionStrong, SessionTypes
<1> QED
  BY <1>1, <1>2, <1>5, <1>6, <1>7, ReaderStays

(* A request is taken: the authorization is gone, whatever comes of it.      *)
LEMMA TakeRequestKeeps ==
    ASSUME SessionConstants, SessionStrong,
           NEW requests \in SUBSET {"MANUAL", "CANCEL", "USE_LOCAL", "USE_REMOTE"},
           NEW labels \in SUBSET {"capture", "resolve", "done"},
           TakeRequest(requests, labels),
           verdict' = verdict \/ (verdict' = "CANCELLED" /\ pc' = "done"),
           "capture" \in labels => requests = {"MANUAL"},
           "resolve" \in labels =>
               requests = {"USE_LOCAL", "USE_REMOTE"} /\ UNCHANGED verdict,
           "capture" \in labels => UNCHANGED verdict
    PROVE  SessionStrong'
<1>1. /\ pc = "dispatch" /\ action \in requests /\ chosen' = action /\ pc' \in labels
      /\ evidence' = Sync!NoCall /\ cn_ui_take_sync_action
      /\ UNCHANGED <<local, call, report, here, was, opened, snapshot, mismatch, saved>>
  BY Zenon DEF TakeRequest, contractVars
<1>2. UNCHANGED <<modal, asked, open, rpage>>
  BY <1>1 DEF cn_ui_take_sync_action, readerVars
<1>3. UiStrong'
  BY <1>1, TakeKeeps DEF SessionStrong, SessionConstants
<1>4. SessionTypes'
  <2>1. pc' \in {"capture", "resolve", "done"}
    BY <1>1
  <2> QED
    BY <1>1, <2>1 DEF SessionStrong, SessionTypes
<1>5. PageShown' /\ CallInLoop'
  BY <1>1, <1>2, CallStays DEF SessionStrong, PageShown
<1>6. DiskAndReaderAgree'
  BY <1>1, <1>2 DEF SessionStrong, DiskAndReaderAgree
<1>7. Phase'
  <2>1. CASE pc' = "done"
    BY <2>1 DEF Phase
  <2>2. CASE pc' = "capture"
    <3>1. action = "MANUAL" /\ UNCHANGED verdict
      BY <1>1, <2>2
    <3>2. Quiet
      BY <1>1, <3>1 DEF SessionStrong, Phase
    <3> QED
      BY <1>1, <1>2, <2>2, <3>1, <3>2 DEF Phase, Quiet
  <2>3. CASE pc' = "resolve"
    <3>1. action \in {"USE_LOCAL", "USE_REMOTE"} /\ UNCHANGED verdict
      BY <1>1, <2>3
    <3>2. Deciding
      BY <1>1, <3>1 DEF SessionStrong, Phase
    <3> QED
      BY <1>1, <1>2, <2>3, <3>1, <3>2 DEF Phase, Deciding
  <2> QED
    BY <1>1, <2>1, <2>2, <2>3
<1> QED
  BY <1>3, <1>4, <1>5, <1>6, <1>7 DEF SessionStrong

LEMMA RequestsKeep ==
    ASSUME SessionConstants, SessionStrong, ManualRequested \/ Cancelled \/ ChoiceRequested
    PROVE  SessionStrong'
<1>1. CASE ManualRequested
  BY <1>1, TakeRequestKeeps DEF ManualRequested
<1>2. CASE Cancelled
  <2>1. pc' = "done" /\ verdict' = "CANCELLED"
    BY <1>2 DEF Cancelled, TakeRequest
  <2> QED
    BY <1>2, <2>1, TakeRequestKeeps DEF Cancelled
<1>3. CASE ChoiceRequested
  BY <1>3, TakeRequestKeeps DEF ChoiceRequested
<1> QED
  BY <1>1, <1>2, <1>3

(* The session is over. *)
LEMMA EndKeeps ==
    ASSUME SessionStrong, UNCHANGED <<uiVars, local, here, opened, snapshot, verdict, mismatch>>,
           pc' = "done", CallInLoop'
    PROVE  SessionStrong'
<1>1. DiskAndReaderAgree'
  BY UiVarsAre, AgreementStays
<1>2. Phase'
  BY DEF Phase
<1>3. local' \in XPointers \cup {NoRecord} /\ mismatch' \in BOOLEAN
  BY Zenon DEF SessionStrong, SessionTypes
<1> QED
  BY <1>1, <1>2, <1>3, ReaderStays

LEMMA EndsKeep ==
    ASSUME SessionConstants, SessionStrong, ManualFails \/ SyncSettled PROVE SessionStrong'
<1>1. /\ pc # "busy" /\ pc' = "done"
      /\ UNCHANGED <<uiVars, local, call, here, opened, snapshot, verdict, mismatch>>
  BY DEF ManualFails, SyncSettled, Goto, contractVars, conflictVars
<1> QED
  BY <1>1, CallStays, EndKeeps

LEMMA PreSaveKeeps ==
    ASSUME SessionConstants, SessionStrong, PreSave PROVE SessionStrong'
<1>1. /\ pc = "capture" /\ local' = here /\ saved' = here /\ pc' = "invoke"
      /\ UNCHANGED <<uiVars, call, here, chosen, opened, snapshot, verdict, mismatch>>
  BY Zenon DEF PreSave, Goto, conflictVars
<1>2. UNCHANGED <<rpage, modal, asked>>
  BY <1>1, UiVarsAre
<1>3. here \in XPointers /\ mismatch' \in BOOLEAN /\ chosen = "MANUAL" /\ Quiet
  BY <1>1, Zenon DEF SessionStrong, SessionTypes, Phase
<1>4. Phase'
  BY <1>1, <1>2, <1>3 DEF Phase, SavedFirst, Quiet
<1>5. DiskAndReaderAgree' /\ CallInLoop'
  BY <1>1, <1>3, CallStays DEF DiskAndReaderAgree, Quiet
<1> QED
  BY <1>1, <1>3, <1>4, <1>5, ReaderStays

(* The controllers are called. *)
LEMMA CallBegins ==
    ASSUME NEW kind \in {"sync", "push", "pull"}, Sync!Call(kind), pc' = "busy"
    PROVE  /\ CallInLoop' /\ call'.kind = kind /\ call'.imported = 0
           /\ call'.put = "none" /\ UNCHANGED local
<1>1. call' = [kind |-> kind, got |-> "unanswered", put |-> "none", imported |-> 0]
  BY DEF Sync!Call, Sync!NoCall
<1>2. UNCHANGED local
  BY DEF Sync!Call
<1> QED
  BY <1>1, <1>2 DEF CallInLoop

LEMMA InvokeSyncKeeps ==
    ASSUME SessionConstants, SessionStrong, InvokeSync PROVE SessionStrong'
<1>1. /\ pc = "invoke" /\ Sync!Call("sync") /\ pc' = "busy"
      /\ UNCHANGED <<uiVars, here, chosen, opened, snapshot, verdict, mismatch, saved>>
  BY Zenon DEF InvokeSync, Goto, conflictVars, ghostVars
<1>2. /\ CallInLoop' /\ call'.kind = "sync" /\ call'.imported = 0 /\ UNCHANGED local
  BY <1>1, CallBegins
<1>3. UNCHANGED <<rpage, modal, asked>>
  BY <1>1, UiVarsAre
<1>4. chosen = "MANUAL" /\ SavedFirst
  BY <1>1 DEF SessionStrong, Phase
<1>5. Phase'
  BY <1>1, <1>2, <1>3, <1>4 DEF Phase, Effect, SavedFirst, Quiet
<1>6. local' \in XPointers \cup {NoRecord} /\ mismatch' \in BOOLEAN /\ DiskAndReaderAgree'
  BY <1>1, <1>2, <1>3, AgreementStays, Zenon DEF SessionStrong, SessionTypes
<1> QED
  BY <1>1, <1>2, <1>5, <1>6, ReaderStays

LEMMA ExecuteKeeps ==
    ASSUME SessionConstants, SessionStrong, Execute PROVE SessionStrong'
<1>1. /\ pc = "resolve" /\ SameAsShown /\ pc' = "busy"
      /\ Sync!Call(IF chosen = "USE_LOCAL" THEN "push" ELSE "pull")
      /\ UNCHANGED <<uiVars, here, chosen, opened, snapshot, verdict, mismatch, saved>>
  BY Zenon DEF Execute, Goto, conflictVars, ghostVars
<1>2. chosen \in {"USE_LOCAL", "USE_REMOTE"} /\ Deciding
  BY <1>1 DEF SessionStrong, Phase
<1>3. /\ CallInLoop' /\ call'.kind = (IF chosen = "USE_LOCAL" THEN "push" ELSE "pull")
      /\ call'.imported = 0 /\ call'.put = "none" /\ UNCHANGED local
  BY <1>1, CallBegins
<1>4. UNCHANGED <<rpage, modal, asked>>
  BY <1>1, UiVarsAre
<1>5. local = saved /\ saved \in XPointers
  BY <1>1, <1>2 DEF SameAsShown, Deciding, SessionStrong, SessionTypes
<1>6. Phase'
  BY <1>1, <1>2, <1>3, <1>4, <1>5 DEF Phase, Effect, Deciding
<1>7. local' \in XPointers \cup {NoRecord} /\ mismatch' \in BOOLEAN /\ DiskAndReaderAgree'
  BY <1>1, <1>3, <1>4, AgreementStays, Zenon DEF SessionStrong, SessionTypes
<1> QED
  BY <1>1, <1>3, <1>6, <1>7, ReaderStays

(* While it runs, and while others change the server. *)
LEMMA EffectOfCall ==
    ASSUME SessionStrong, pc = "busy", UNCHANGED <<here, chosen, verdict, saved, asked, modal>>,
           call' = [kind |-> call.kind, got |-> call'.got, put |-> call'.put,
                    imported |-> call'.imported],
           call.kind = "pull" => call'.put = call.put,
           \/ UNCHANGED local /\ call'.imported = call.imported
              /\ (call.imported = 0 \/ call'.got = call.got)
           \/ call.kind = "pull" /\ call'.imported = 1 /\ local' = call'.got
    PROVE  Effect(call)'
<1>1. Effect(call)
  BY DEF SessionStrong, Phase
<1>2. call'.kind = call.kind
  OBVIOUS
<1> QED
  BY <1>1, <1>2 DEF Effect, SavedFirst, Quiet, Deciding

LEMMA ControllerKeeps ==
    ASSUME SessionConstants, SessionStrong, ControllerWorks PROVE SessionStrong'
<1>1. /\ pc = "busy" /\ (Sync!Serve \/ Sync!Upload \/ Sync!Import)
      /\ UNCHANGED <<uiVars, here, pc, chosen, opened, snapshot, verdict, mismatch, saved>>
  BY Zenon DEF ControllerWorks, loopVars, conflictVars, ghostVars
<1>2. UNCHANGED <<rpage, modal, asked>>
  BY <1>1, UiVarsAre
<1>3. /\ Effect(call) /\ local \in XPointers \cup {NoRecord}
      /\ call = [kind |-> call.kind, got |-> call.got, put |-> call.put,
                 imported |-> call.imported]
  BY <1>1, Zenon DEF SessionStrong, Phase, SessionTypes, CallInLoop
<1>4. call.kind = "sync" => local # NoRecord
  BY <1>3 DEF Effect, SavedFirst, SessionConstants, XPointersAssumption, NoRecordAssumption
<1>5. /\ call' = [kind |-> call.kind, got |-> call'.got, put |-> call'.put,
                  imported |-> call'.imported]
      /\ call.kind = "pull" => call'.put = call.put
      /\ \/ UNCHANGED local /\ call'.imported = call.imported
            /\ (call.imported = 0 \/ call'.got = call.got)
         \/ call.kind = "pull" /\ call'.imported = 1 /\ local' = call'.got
      /\ local' \in XPointers \cup {NoRecord}
  <2>1. CASE Sync!Serve
    <3>1. local # "unanswered"
      BY <1>3 DEF SessionConstants, XPointersAssumption, UnansweredAssumption
    <3>2. call.got = "unanswered" /\ UNCHANGED local /\ call' = [call EXCEPT !.got = remote]
      BY <2>1 DEF Sync!Serve
    <3>3. call.imported = 0
      BY <1>3, <3>1, <3>2 DEF Effect, SavedFirst
    <3> QED
      BY <1>3, <3>2, <3>3
  <2>2. CASE Sync!Upload
    <3>1. /\ call.kind = "push" \/ call.kind = "sync"
          /\ UNCHANGED local /\ call' = [call EXCEPT !.put = "flying"]
      BY <2>2 DEF Sync!Upload
    <3> QED
      BY <1>3, <3>1
  <2>3. CASE Sync!Import
    <3>1. /\ call.kind = "pull" /\ local' = call.got /\ call.got \in XPointers
          /\ call' = [call EXCEPT !.imported = 1]
      BY <1>4, <2>3 DEF Sync!Import
    <3> QED
      BY <1>3, <3>1
  <2> QED
    BY <1>1, <2>1, <2>2, <2>3
<1>6. Effect(call)'
  BY <1>1, <1>2, <1>5, EffectOfCall
<1>7. Phase' /\ CallInLoop'
  BY <1>1, <1>5, <1>6 DEF Phase, CallInLoop
<1>8. DiskAndReaderAgree' /\ mismatch' \in BOOLEAN
  <2>1. verdict' = "none"
    BY <1>1, <1>3 DEF Effect, SavedFirst, Quiet, Deciding
  <2> QED
    BY <1>1, <2>1 DEF DiskAndReaderAgree, SessionStrong, SessionTypes
<1> QED
  BY <1>1, <1>5, <1>7, <1>8, ReaderStays

(* The controller returns: what the contract promises of the report is kept. *)
LEMMA ControllerReturnsKeeps ==
    ASSUME SessionConstants, SessionStrong, ControllerReturns PROVE SessionStrong'
<1>1. PICK r \in Sync!Reports :
         /\ Sync!Return(r) /\ pc = "busy" /\ pc' = "returned" /\ evidence' = call
         /\ UNCHANGED <<uiVars, here, chosen, opened, snapshot, verdict, mismatch, saved>>
  BY Zenon DEF ControllerReturns, Goto, conflictVars
<1>2. /\ report' = r /\ call' = Sync!NoCall /\ UNCHANGED local
      /\ Sync!EvidenceHolds(r) /\ Sync!OutcomeHolds(r.outcome)
  BY <1>1 DEF Sync!Return
<1>3. UNCHANGED <<rpage, modal, asked>>
  BY <1>1, UiVarsAre
<1>4. Effect(call)
  BY <1>1 DEF SessionStrong, Phase
<1>5. Effect(evidence)'
  BY <1>1, <1>2, <1>3, <1>4 DEF Effect, SavedFirst, Quiet, Deciding
<1>6. Reported'
  <2>1. /\ r.outcome = "NO_STATE" => local = NoRecord
        /\ r.outcome = "REMOTE_MISSING" => call.got = NoRecord
    BY <1>2 DEF Sync!OutcomeHolds
  <2>2. r.remote_mutation \in {"NONE", "POSSIBLE", "CONFIRMED"}
    BY DEF Sync!Reports, Sync!Mutations
  <2> QED
    BY <1>1, <1>2, <2>1, <2>2, Zenon DEF Reported, Sync!EvidenceHolds
<1>7. Phase' /\ CallInLoop'
  BY <1>1, <1>2, <1>5, <1>6 DEF Phase, CallInLoop, Sync!NoCall
<1>8. local' \in XPointers \cup {NoRecord} /\ mismatch' \in BOOLEAN /\ DiskAndReaderAgree'
  BY <1>1, <1>2, <1>3, AgreementStays, Zenon DEF SessionStrong, SessionTypes
<1> QED
  BY <1>1, <1>7, <1>8, ReaderStays

LEMMA ShowConflictStepKeeps ==
    ASSUME SessionConstants, SessionStrong, ShowConflict PROVE SessionStrong'
<1>1. /\ pc = "returned" /\ chosen = "MANUAL" /\ snapshot' = opened
      /\ cn_ui_show_sync_conflict /\ pc' \in {"poll", "done"}
      /\ UNCHANGED <<local, call, report, here, opened, verdict, mismatch, saved, evidence>>
  BY Zenon DEF ShowConflict, Shows, contractVars, ghostVars
<1>2. /\ action' = "NONE" /\ modal' = 1 /\ asked' = asked + 1 /\ UNCHANGED <<open, rpage>>
  BY <1>1 DEF cn_ui_show_sync_conflict, readerVars
<1>3. SavedFirst
  BY <1>1 DEF SessionStrong, Phase, Effect
<1>4. UiStrong'
  BY <1>1, ShowConflictKeeps DEF SessionStrong, SessionConstants
<1>5. Asking'
  BY <1>1, <1>2, <1>3 DEF Asking, SavedFirst, Quiet
<1>6. Phase'
  BY <1>1, <1>2, <1>5 DEF Phase
<1>7. SessionTypes'
  BY <1>1 DEF SessionStrong, SessionTypes
<1>8. PageShown' /\ CallInLoop' /\ DiskAndReaderAgree'
  BY <1>1, <1>2, CallStays, AgreementStays DEF SessionStrong, PageShown
<1> QED
  BY <1>4, <1>6, <1>7, <1>8 DEF SessionStrong

LEMMA StaleKeeps ==
    ASSUME SessionConstants, SessionStrong, Stale PROVE SessionStrong'
<1>1. /\ pc = "resolve" /\ verdict' = "STALE" /\ pc' = "feedback"
      /\ UNCHANGED <<uiVars, local, call, report, here, opened, snapshot, mismatch, saved,
                     evidence>>
  BY Zenon DEF Stale, Goto, contractVars, ghostVars
<1>2. Deciding /\ evidence = Sync!NoCall
  BY <1>1 DEF SessionStrong, Phase
<1>3. UNCHANGED <<modal, asked>>
  BY <1>1, UiVarsAre
<1>4. Resolved'
  BY <1>1, <1>2, <1>3 DEF Resolved, Deciding, Sync!NoCall
<1>5. Phase' /\ CallInLoop' /\ DiskAndReaderAgree'
  BY <1>1, <1>4, CallStays DEF Phase, DiskAndReaderAgree
<1>6. local' \in XPointers \cup {NoRecord} /\ mismatch' \in BOOLEAN
  BY <1>1, Zenon DEF SessionStrong, SessionTypes
<1> QED
  BY <1>1, <1>5, <1>6, ReaderStays

(* While a choice is carried out the book is open on the page that was saved.*)
LEMMA SavedPageShown ==
    ASSUME SessionConstants, SessionStrong, Deciding, saved \in XPointers
    PROVE  saved # NoRecord /\ PageOf[saved] = rpage
<1>1. ReaderOpen /\ here = saved
  BY DEF SessionStrong, UiStrong, UiInv, DialogOverOpenBook, Deciding
<1>2. open >= 0 /\ open \in Nat \cup {-1}
  BY <1>1 DEF ReaderOpen, SessionStrong, UiStrong, UiInv, UiTypeOK
<1>3. ~(open < 0)
  BY <1>2
<1> QED
  BY <1>1, <1>3 DEF SessionStrong, PageShown, SessionConstants, XPointersAssumption,
                    NoRecordAssumption

LEMMA ChoiceSettledKeeps ==
    ASSUME SessionConstants, SessionStrong, ChoiceSettled PROVE SessionStrong'
<1>1. /\ pc = "returned" /\ chosen \in {"USE_LOCAL", "USE_REMOTE"}
      /\ report.outcome # "PERSISTED" /\ pc' = "feedback"
      /\ verdict' = IF chosen = "USE_LOCAL" THEN "LOCAL_COMPLETE" ELSE "REMOTE_COMPLETE"
      /\ UNCHANGED <<uiVars, local, call, report, here, opened, snapshot, mismatch, saved,
                     evidence>>
  BY Zenon DEF ChoiceSettled, Goto, contractVars, ghostVars
<1>2. Effect(evidence) /\ Reported
  BY <1>1 DEF SessionStrong, Phase
<1>3. UNCHANGED <<modal, asked, rpage>>
  BY <1>1, UiVarsAre
<1>4. Deciding /\ saved \in XPointers
  BY <1>1, <1>2 DEF Effect
<1>5. evidence.imported = 0 /\ local = saved
  BY <1>1, <1>2 DEF Effect, Reported
<1>6. Reported'
  BY <1>1, <1>2 DEF Reported
<1>7. Resolved'
  BY <1>1, <1>2, <1>3, <1>4, <1>5, <1>6 DEF Resolved, Deciding, Effect
<1>8. DiskAndReaderAgree'
  BY <1>1, <1>3, <1>4, <1>5, SavedPageShown DEF DiskAndReaderAgree
<1>9. Phase' /\ CallInLoop'
  BY <1>1, <1>7, CallStays DEF Phase
<1>10. local' \in XPointers \cup {NoRecord} /\ mismatch' \in BOOLEAN
  BY <1>1, Zenon DEF SessionStrong, SessionTypes
<1> QED
  BY <1>1, <1>8, <1>9, <1>10, ReaderStays

(* Only a pull leaves a record to apply. *)
LEMMA AppliesAPull ==
    ASSUME SessionStrong, MustApply
    PROVE  /\ pc = "returned" /\ chosen = "USE_REMOTE" /\ Deciding
           /\ evidence.imported = 1 /\ local = evidence.got
<1>1. pc = "returned" /\ report.outcome \in {"PERSISTED", "IMPORTED"}
  BY DEF MustApply
<1>2. Effect(evidence) /\ Reported
  BY <1>1 DEF SessionStrong, Phase
<1> QED
  BY <1>1, <1>2 DEF Effect, Reported

LEMMA ApplyRecordKeeps ==
    ASSUME SessionConstants, SessionStrong, ApplyRecord PROVE SessionStrong'
<1>1. /\ MustApply /\ open_book /\ local # NoRecord /\ PageOf[local] >= 0
      /\ here' \in {local, PageStart[PageOf[local]]} /\ rpage' = PageOf[local]
      /\ verdict' = "REMOTE_APPLIED" /\ pc' = AfterApply
      /\ UNCHANGED <<state, page, lib, sel, top, attached, open, modal, choice, action,
                     feedback, held, exit, redraw, asked, taken, swapped>>
      /\ UNCHANGED <<local, call, report, opened, snapshot, mismatch, saved, evidence>>
  BY Zenon DEF ApplyRecord, Goto, navVars, syncVars, powerVars, histVars, contractVars, ghostVars
<1>2. /\ pc = "returned" /\ chosen = "USE_REMOTE" /\ Deciding
      /\ evidence.imported = 1 /\ local = evidence.got
  BY <1>1, AppliesAPull
<1>3. local \in XPointers /\ PageOf[local] \in 0 .. LastPage
  <2>1. local \in XPointers
    BY <1>1 DEF SessionStrong, SessionTypes
  <2>2. PageOf[local] \in -1 .. LastPage /\ LastPage \in Nat
    BY <2>1 DEF SessionConstants, PageOfAssumption, UiConstants, LastPageAssumption
  <2> QED
    BY <1>1, <2>1, <2>2
<1>4. here' \in XPointers /\ PageOf[here'] = rpage'
  BY <1>1, <1>3 DEF SessionConstants, PageStartAssumption
<1>5. UiStrong'
  <2>1. UiTypeOK'
    BY <1>1, <1>3, Zenon DEF SessionStrong, UiStrong, UiInv, UiTypeOK
  <2>2. ViewportOK'
    BY <1>1, ViewportKept DEF SessionStrong, UiStrong, UiInv
  <2> QED
    BY <1>1, <2>1, <2>2, Zenon DEF SessionStrong, UiStrong, UiInv, DialogOverOpenBook, BookList,
                                   OpenBookIsSelected, OneChoicePerDialog, ReaderOpen
<1>6. pc' = "feedback"
  BY <1>1, <1>2 DEF AfterApply
<1>7. Resolved'
  BY <1>1, <1>2 DEF Resolved, Deciding
<1>8. Phase' /\ CallInLoop' /\ DiskAndReaderAgree'
  BY <1>1, <1>2, <1>6, <1>7, CallStays DEF Phase, DiskAndReaderAgree
<1>9. SessionTypes' /\ PageShown'
  BY <1>1, <1>4, <1>6 DEF SessionStrong, SessionTypes, PageShown
<1> QED
  BY <1>5, <1>8, <1>9 DEF SessionStrong

LEMMA ApplyFailsKeeps ==
    ASSUME SessionConstants, SessionStrong, ApplyFails PROVE SessionStrong'
<1>1. /\ MustApply /\ verdict' = "REMOTE_APPLY_FAILED" /\ mismatch' = TRUE
      /\ pc' = AfterApply
      /\ UNCHANGED <<uiVars, local, call, report, here, opened, snapshot, saved, evidence>>
  BY Zenon DEF ApplyFails, Goto, contractVars, ghostVars
<1>2. /\ pc = "returned" /\ chosen = "USE_REMOTE" /\ Deciding /\ evidence.imported = 1
  BY <1>1, AppliesAPull
<1>3. UNCHANGED <<modal, asked>>
  BY <1>1, UiVarsAre
<1>4. pc' = "feedback"
  BY <1>1, <1>2 DEF AfterApply
<1>5. Resolved'
  BY <1>1, <1>2, <1>3 DEF Resolved, Deciding
<1>6. Phase' /\ CallInLoop' /\ DiskAndReaderAgree'
  BY <1>1, <1>2, <1>4, <1>5, CallStays DEF Phase, DiskAndReaderAgree
<1>7. local' \in XPointers \cup {NoRecord} /\ mismatch' \in BOOLEAN
  BY <1>1, Zenon DEF SessionStrong, SessionTypes
<1> QED
  BY <1>1, <1>4, <1>6, <1>7, ReaderStays

(* The acknowledgement chosen for a result is true of it. *)
LEMMA FeedbackFollows ==
    ASSUME Resolved, feedback' = feedback_for, UNCHANGED <<local, evidence>>
    PROVE  FeedbackIsTrue'
<1>1. CASE verdict = "STALE"
  BY <1>1 DEF Resolved, feedback_for, FeedbackIsTrue
<1>2. CASE verdict = "REMOTE_APPLIED"
  BY <1>2 DEF Resolved, feedback_for, FeedbackIsTrue
<1>3. CASE verdict = "REMOTE_APPLY_FAILED"
  BY <1>3 DEF Resolved, feedback_for, FeedbackIsTrue
<1>4. CASE verdict = "LOCAL_COMPLETE"
  BY <1>4 DEF Resolved, Reported, feedback_for, FeedbackIsTrue
<1>5. CASE verdict = "REMOTE_COMPLETE"
  BY <1>5 DEF Resolved, Reported, feedback_for, FeedbackIsTrue
<1> QED
  BY <1>1, <1>2, <1>3, <1>4, <1>5 DEF Resolved

LEMMA ShowFeedbackStepKeeps ==
    ASSUME SessionConstants, SessionStrong, ShowFeedback PROVE SessionStrong'
<1>1. /\ pc = "feedback" /\ cn_ui_show_sync_feedback(feedback_for)
      /\ pc' \in {"poll", "done"}
      /\ UNCHANGED <<local, call, report, here, opened, snapshot, verdict, mismatch, saved,
                     evidence>>
  BY Zenon DEF ShowFeedback, Shows, contractVars, conflictVars, ghostVars
<1>2. /\ modal' = 2 /\ action' = "NONE" /\ feedback' = feedback_for
      /\ UNCHANGED <<open, rpage, asked>>
  BY <1>1 DEF cn_ui_show_sync_feedback, readerVars, histVars
<1>3. Resolved
  BY <1>1 DEF SessionStrong, Phase
<1>4. feedback_for \in Feedbacks
  <2>1. feedback_for \in {"STALE", "MISMATCH", "REMOTE_APPLIED", "UPLOAD_POSSIBLE",
                          "REMOTE_UPDATED", "REMOTE_MISSING", "FAILED"}
    BY <1>3 DEF Resolved, feedback_for
  <2> QED
    BY <2>1, Zenon DEF SessionConstants
<1>5. UiStrong'
  BY <1>1, <1>4, ShowFeedbackKeeps DEF SessionStrong, SessionConstants
<1>6. FeedbackIsTrue'
  BY <1>1, <1>2, <1>3, FeedbackFollows
<1>7. Told'
  BY <1>1, <1>2, <1>3, <1>6 DEF Told, Resolved
<1>8. Phase'
  BY <1>1, <1>2, <1>7 DEF Phase
<1>9. SessionTypes'
  BY <1>1 DEF SessionStrong, SessionTypes
<1>10. PageShown' /\ CallInLoop' /\ DiskAndReaderAgree'
  BY <1>1, <1>2, CallStays, AgreementStays DEF SessionStrong, PageShown
<1> QED
  BY <1>5, <1>8, <1>9, <1>10 DEF SessionStrong

(* What the loop has reached does not depend on the server. *)
LEMMA PhaseStays ==
    ASSUME Phase, pc = "busy" => Effect(call)',
           UNCHANGED <<local, report, here, pc, was, chosen, verdict, saved, evidence>>,
           UNCHANGED <<modal, asked, action, feedback>>
    PROVE  Phase'
<1>1. /\ Quiet' = Quiet /\ Asking' = Asking /\ Told' = Told /\ Dismissed' = Dismissed
      /\ Deciding' = Deciding /\ SavedFirst' = SavedFirst
  BY Zenon DEF Quiet, Asking, Told, Dismissed, Deciding, SavedFirst, FeedbackIsTrue
<1>2. Effect(evidence)' = Effect(evidence) /\ Reported' = Reported
  BY <1>1, Zenon DEF Effect, Reported
<1>3. Resolved' = Resolved
  BY <1>2, Zenon DEF Resolved
<1> QED
  BY <1>1, <1>2, <1>3, Zenon DEF Phase

(* The server and other devices. *)
LEMMA WorldKeeps ==
    ASSUME SessionConstants, SessionStrong, World PROVE SessionStrong'
<1>1. /\ Sync!World
      /\ UNCHANGED <<uiVars, here, pc, was, chosen, opened, snapshot, verdict, mismatch, saved,
                     evidence>>
  BY Zenon DEF World, loopVars, conflictVars, ghostVars
<1>2. UNCHANGED <<local, report>>
  BY <1>1, Zenon DEF Sync!World, Sync!ServerStores, Sync!ServerRefuses, Sync!LateUpload,
                     Sync!OtherDevice
<1>3. UNCHANGED <<rpage, modal, asked, action, feedback>>
  BY <1>1, UiVarsAre
<1>4. call = [kind |-> call.kind, got |-> call.got, put |-> call.put,
              imported |-> call.imported]
  BY DEF SessionStrong, CallInLoop
<1>5. UNCHANGED call
      \/ (call.put = "flying" /\ \E s \in {"stored", "none"} : call' = [call EXCEPT !.put = s])
  BY <1>1, Zenon DEF Sync!World, Sync!ServerStores, Sync!ServerRefuses, Sync!LateUpload,
                     Sync!OtherDevice
<1>6. /\ call' = [kind |-> call.kind, got |-> call.got, put |-> call'.put,
                  imported |-> call.imported]
      /\ call.put # "flying" => call'.put = call.put
  BY <1>4, <1>5
<1>7. CallInLoop'
  BY <1>1, <1>6 DEF SessionStrong, CallInLoop
<1>8. pc = "busy" => Effect(call)'
  <2> SUFFICES ASSUME pc = "busy" PROVE Effect(call)'
    OBVIOUS
  <2>1. Effect(call)
    BY DEF SessionStrong, Phase
  <2>2. call.kind = "pull" => call'.put = call.put
    BY <1>6, <2>1 DEF Effect
  <2> QED
    BY <1>1, <1>2, <1>3, <1>6, <2>2, EffectOfCall
<1>9. Phase'
  BY <1>1, <1>2, <1>3, <1>8, PhaseStays DEF SessionStrong
<1>10. /\ local' \in XPointers \cup {NoRecord} /\ mismatch' \in BOOLEAN
       /\ DiskAndReaderAgree'
  BY <1>1, <1>2, <1>3, AgreementStays, Zenon DEF SessionStrong, SessionTypes
<1>11. pc' \in {"poll", "dispatch", "capture", "invoke", "busy", "returned",
                "resolve", "feedback", "done"}
  BY <1>1, Zenon DEF SessionStrong, SessionTypes
<1> QED
  BY <1>1, <1>7, <1>9, <1>10, <1>11, ReaderStays

(* Another process writes the record while the user thinks. *)
LEMMA OtherProcessKeeps ==
    ASSUME SessionConstants, SessionStrong, OtherProcessSaves PROVE SessionStrong'
<1>1. /\ pc = "poll" /\ verdict = "none" /\ local' \in XPointers
      /\ UNCHANGED <<uiVars, call, here, pc, opened, snapshot, verdict, mismatch, saved>>
  BY Zenon DEF OtherProcessSaves, Sync!LocalSave, loopVars, conflictVars, ghostVars
<1>2. UNCHANGED <<modal, asked, action>>
  BY <1>1, UiVarsAre
<1>3. action = "NONE" /\ (Quiet \/ Asking)
  BY <1>1 DEF SessionStrong, Phase, Told
<1>4. Phase'
  BY <1>1, <1>2, <1>3 DEF Phase, Quiet, Asking
<1>5. DiskAndReaderAgree' /\ CallInLoop'
  BY <1>1, CallStays DEF DiskAndReaderAgree
<1>6. mismatch' \in BOOLEAN
  BY <1>1, Zenon DEF SessionStrong, SessionTypes
<1> QED
  BY <1>1, <1>4, <1>5, <1>6, ReaderStays

LEMMA BatteryKeeps ==
    ASSUME SessionConstants, SessionStrong, BatteryDies PROVE SessionStrong'
<1>1. /\ call' = Sync!NoCall /\ pc' = "done"
      /\ UNCHANGED <<uiVars, local, here, opened, snapshot, verdict, mismatch>>
  BY Zenon DEF BatteryDies, Sync!Abort, Goto, conflictVars
<1>2. CallInLoop'
  BY <1>1 DEF CallInLoop, Sync!NoCall
<1> QED
  BY <1>1, <1>2, EndKeeps

LEMMA SessionStepKeeps ==
    ASSUME SessionConstants, SessionStrong, SessionNext PROVE SessionStrong'
<1>1. CASE LoopStep
  BY <1>1, NothingRequestedKeeps, RequestsKeep, EndsKeep, PreSaveKeeps, InvokeSyncKeeps,
     ShowConflictStepKeeps, StaleKeeps, ExecuteKeeps, ChoiceSettledKeeps, ApplyRecordKeeps,
     ApplyFailsKeeps, ShowFeedbackStepKeeps DEF LoopStep
<1>2. CASE PollEvent \/ ControllerWorks \/ ControllerReturns
  BY <1>2, PollKeeps, ControllerKeeps, ControllerReturnsKeeps
<1>3. CASE World \/ OtherProcessSaves \/ BatteryDies
  BY <1>3, WorldKeeps, OtherProcessKeeps, BatteryKeeps
<1> QED
  BY <1>1, <1>2, <1>3 DEF SessionNext

LEMMA SessionStutters ==
    ASSUME SessionStrong, UNCHANGED sessionVars PROVE SessionStrong'
<1>1. UNCHANGED <<uiVars, local, call, report, here, pc, was, chosen, opened, snapshot,
                  verdict, mismatch, saved, evidence>>
  BY DEF sessionVars, ownVars, contractVars, loopVars, conflictVars, ghostVars
<1>2. UNCHANGED <<rpage, open, modal, asked, action, feedback>>
  BY <1>1, UiVarsAre
<1>3. UiStrong'
  BY <1>1, UiStutters DEF SessionStrong
<1>4. (SessionTypes /\ PageShown /\ CallInLoop /\ DiskAndReaderAgree)'
  BY <1>1, <1>2, Zenon DEF SessionStrong, SessionTypes, PageShown, CallInLoop,
                           DiskAndReaderAgree
<1>5. Phase'
  <2>1. Effect(call)' = Effect(call)
    BY <1>1, <1>2, Zenon DEF Effect, SavedFirst, Quiet, Deciding
  <2>2. pc = "busy" => Effect(call)'
    BY <2>1, Zenon DEF SessionStrong, Phase
  <2> QED
    BY <1>1, <1>2, <2>2, PhaseStays DEF SessionStrong
<1> QED
  BY <1>3, <1>4, <1>5 DEF SessionStrong

=============================================================================
