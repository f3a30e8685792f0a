------------------------------ MODULE ReaderUi ------------------------------
(***************************************************************************)
(* The screens of ui/ui.c outside the account form: home, reader test page, *)
(* library list, selected book, and the reader with the conflict and        *)
(* feedback dialogs over it.  One action per input event; the application   *)
(* attaches a library and a reader, opens the dialogs and takes the sync    *)
(* request the user has authorized.                                         *)
(***************************************************************************)
EXTENDS Integers, Sequences

CONSTANTS
    Libraries,      \* the libraries an application attaches: book formats
    Rows,           \* rows of the library viewport (cn_ui_lib_rows)
    LastPage,       \* last page of every book, counted from 0
    Feedbacks,      \* the texts of the feedback dialog
    MaxTestPage,    \* bound on the page number of the reader test
    MaxDialogs      \* bound on the conflict dialogs shown

RowsAssumption == Rows \in Nat \ {0}
LibrariesAssumption == Libraries \subseteq Seq({"EPUB", "FB2", "TXT"})
LastPageAssumption == LastPage \in Nat
FeedbacksAssumption == "WORKING" \in Feedbacks

VARIABLES
    state,      \* cn_ui_state
    page,       \* page number of the reader test
    lib,        \* the attached library as <<books>>, << >> for none
    sel, top,   \* selected book and first visible one, counted from 0
    attached,   \* a reader is attached
    open,       \* index of the book open in the reader, -1 for none
    rpage,      \* its current page
    modal,      \* 0 none, 1 conflict choices, 2 feedback
    choice,     \* highlighted choice: 0 local, 1 remote, 2 cancel
    action,     \* the request the application has not taken yet
    feedback,   \* text of the feedback dialog
    held,       \* the power button is down and was timed
    exit,       \* exit requested
    redraw,     \* what the last cn_ui_handle returned
    asked,      \* history: conflict dialogs shown
    taken,      \* history: conflict choices the application took
    swapped     \* history: the library was replaced under an open book

navVars == <<state, page, lib, sel, top>>
readerVars == <<attached, open, rpage>>
syncVars == <<modal, choice, action, feedback>>
powerVars == <<held, exit>>
histVars == <<asked, taken, swapped>>
uiVars == <<navVars, readerVars, syncVars, powerVars, redraw, histVars>>

States == {"HOME", "READER_TEST", "LIBRARY", "SELECTED_BOOK", "READER",
           "ACCOUNT_SETUP"}
Choices == {"USE_LOCAL", "USE_REMOTE", "CANCEL"}
SyncActions == Choices \cup {"NONE", "MANUAL"}

cn_ui_init ==
    /\ state = "HOME" /\ page = 1
    /\ lib = << >> /\ sel = 0 /\ top = 0
    /\ attached = FALSE /\ open = -1 /\ rpage = 0
    /\ modal = 0 /\ choice = 0 /\ action = "NONE" /\ feedback = "WORKING"
    /\ held = FALSE /\ exit = FALSE /\ redraw = FALSE
    /\ asked = 0 /\ taken = 0 /\ swapped = FALSE

-----------------------------------------------------------------------------
(* The viewport of the library list. *)

BookList == IF lib = << >> THEN << >> ELSE lib[1]
Count == Len(BookList)

SmallerOf(m, n) == IF m < n THEN m ELSE n
LargerOf(m, n) == IF m > n THEN m ELSE n

(* Crossing the bottom makes the selected row the first one, as far as the   *)
(* end of the list allows. *)
lib_down ==
    IF sel >= Count - 1 THEN UNCHANGED <<sel, top>>
    ELSE /\ sel' = sel + 1
         /\ top' = IF sel + 1 - top >= Rows
                   THEN LargerOf(0, SmallerOf(sel + 1, Count - Rows))
                   ELSE top

lib_up ==
    IF Count = 0 \/ sel <= 0 THEN UNCHANGED <<sel, top>>
    ELSE /\ sel' = sel - 1
         /\ top' = SmallerOf(top, sel - 1)

VisibleRows == {i \in 0 .. Count - 1 : top <= i /\ i < top + Rows}

-----------------------------------------------------------------------------
(* The reader as the UI uses it. *)

ReaderOpen == attached /\ open >= 0

TurnPage(step) ==
    LET p == LargerOf(0, SmallerOf(LastPage, rpage + step))
    IN  IF ReaderOpen
        THEN rpage' = p /\ redraw' = (p # rpage) /\ UNCHANGED <<attached, open>>
        ELSE redraw' = FALSE /\ UNCHANGED readerVars

CloseReader ==
    IF attached THEN open' = -1 /\ rpage' = 0 /\ UNCHANGED attached
    ELSE UNCHANGED readerVars

GoTo(s) == state' = s /\ redraw' = TRUE /\ UNCHANGED <<page, lib>>

Ignored == redraw' = FALSE /\ UNCHANGED <<navVars, readerVars>>

-----------------------------------------------------------------------------
(* cn_ui_handle, outside the account form.                                  *)

InDialog == state = "READER" /\ modal # 0
OnScreen == state # "ACCOUNT_SETUP" /\ ~InDialog

PageNext ==
    /\ OnScreen
    /\ \/ /\ state = "READER" /\ TurnPage(1) /\ UNCHANGED navVars
       \/ /\ state = "LIBRARY" /\ lib_down /\ GoTo("LIBRARY")
          /\ UNCHANGED readerVars
       \/ /\ state \in {"HOME", "READER_TEST"} /\ page < MaxTestPage
          /\ state' = "READER_TEST" /\ page' = page + 1 /\ redraw' = TRUE
          /\ UNCHANGED <<lib, sel, top, readerVars>>
       \/ state = "SELECTED_BOOK" /\ Ignored
    /\ UNCHANGED <<syncVars, powerVars, histVars>>

PagePrev ==
    /\ OnScreen
    /\ \/ /\ state = "READER" /\ TurnPage(-1) /\ UNCHANGED navVars
       \/ /\ state = "READER_TEST" /\ page' = LargerOf(1, page - 1)
          /\ redraw' = TRUE /\ UNCHANGED <<state, lib, sel, top, readerVars>>
       \/ /\ state = "LIBRARY" /\ lib_up /\ GoTo("LIBRARY")
          /\ UNCHANGED readerVars
       \/ state \in {"HOME", "SELECTED_BOOK"} /\ Ignored
    /\ UNCHANGED <<syncVars, powerVars, histVars>>

Menu ==
    /\ OnScreen
    /\ \/ state = "READER" /\ action' = "MANUAL" /\ Ignored
       \/ /\ state = "HOME" /\ GoTo("ACCOUNT_SETUP")
          /\ UNCHANGED <<sel, top, readerVars, action>>
       \/ state \notin {"READER", "HOME"} /\ Ignored /\ UNCHANGED action
    /\ UNCHANGED <<modal, choice, feedback, powerVars, histVars>>

Back ==
    /\ OnScreen
    /\ \/ state = "READER" /\ CloseReader /\ GoTo("LIBRARY")
       \/ /\ state = "SELECTED_BOOK" /\ GoTo("LIBRARY") /\ UNCHANGED readerVars
       \/ /\ state \in {"LIBRARY", "READER_TEST"} /\ GoTo("HOME")
          /\ UNCHANGED readerVars
       \/ state = "HOME" /\ Ignored
    /\ UNCHANGED <<sel, top, syncVars, powerVars, histVars>>

Home ==
    /\ OnScreen
    /\ \/ state = "READER" /\ CloseReader /\ GoTo("HOME")
       \/ state \notin {"READER", "HOME"} /\ GoTo("HOME") /\ UNCHANGED readerVars
       \/ state = "HOME" /\ Ignored
    /\ UNCHANGED <<sel, top, syncVars, powerVars, histVars>>

(* Touching the selected row activates it; an EPUB that cannot be opened     *)
(* falls back to the screen of the selected book. *)
Activate(i) ==
    \/ /\ attached /\ BookList[i + 1] = "EPUB"
       /\ open' = i /\ rpage' = 0 /\ swapped' = FALSE
       /\ GoTo("READER") /\ UNCHANGED attached
    \/ /\ attached /\ BookList[i + 1] = "EPUB"
       /\ open' = -1 /\ rpage' = 0
       /\ GoTo("SELECTED_BOOK") /\ UNCHANGED <<attached, swapped>>
    \/ /\ ~attached \/ BookList[i + 1] # "EPUB"
       /\ GoTo("SELECTED_BOOK") /\ UNCHANGED <<readerVars, swapped>>

TouchRow(r) ==
    /\ state = "LIBRARY" /\ top + r < Count
    /\ IF top + r = sel
       THEN Activate(sel) /\ UNCHANGED <<sel, top>>
       ELSE /\ sel' = top + r /\ GoTo("LIBRARY")
            /\ UNCHANGED <<top, readerVars, swapped>>
    /\ UNCHANGED <<syncVars, powerVars, asked, taken>>

(* A button of the home screen; anywhere else only the marker moves. *)
TouchElsewhere ==
    /\ OnScreen
    /\ \/ /\ state = "HOME" /\ GoTo("READER_TEST") /\ UNCHANGED <<sel, top>>
       \/ /\ state = "HOME" /\ lib # << >> /\ GoTo("LIBRARY")
          /\ sel' = 0 /\ top' = 0
       \/ /\ state = "HOME" /\ GoTo("ACCOUNT_SETUP") /\ UNCHANGED <<sel, top>>
       \/ UNCHANGED navVars /\ redraw' = (state # "READER")
    /\ UNCHANGED <<readerVars, syncVars, powerVars, histVars>>

PowerDown ==
    /\ held' \in BOOLEAN      \* the clock may fail
    /\ redraw' = FALSE
    /\ UNCHANGED <<navVars, readerVars, syncVars, exit, histVars>>

PowerUp ==
    /\ held' = FALSE
    /\ exit' \in (IF held THEN {exit, TRUE} ELSE {exit})
    /\ redraw' = FALSE
    /\ UNCHANGED <<navVars, readerVars, syncVars, histVars>>

(* The account form sends every way out of it back to the home screen. *)
LeaveAccount ==
    /\ state = "ACCOUNT_SETUP"
    /\ GoTo("HOME")
    /\ UNCHANGED <<sel, top, readerVars, syncVars, powerVars, histVars>>

-----------------------------------------------------------------------------
(* The dialogs over the reader: nothing else reaches it meanwhile.          *)

DialogKeepsRest == UNCHANGED <<navVars, readerVars, powerVars, histVars>>

DismissDialog ==
    /\ InDialog
    /\ action' = IF modal = 1 THEN "CANCEL" ELSE action
    /\ modal' = 0 /\ redraw' = TRUE
    /\ UNCHANGED <<choice, feedback>> /\ DialogKeepsRest

(* Mutant: the highlight moves without a redraw. *)
HighlightChoice_no_redraw ==
    /\ InDialog
    /\ choice' \in (IF modal = 1 THEN 0 .. 2 ELSE {choice})
    /\ redraw' = FALSE
    /\ UNCHANGED <<modal, action, feedback>> /\ DialogKeepsRest

(* NEXT, PREV and touch; feedback takes no other input than BACK and HOME. *)
HighlightChoice ==
    /\ InDialog
    /\ choice' \in (IF modal = 1 THEN 0 .. 2 ELSE {choice})
    /\ redraw' = (choice' # choice)
    /\ UNCHANGED <<modal, action, feedback>> /\ DialogKeepsRest

(* Mutant: the dialog stays armed after a choice. *)
ConfirmChoice_stays_armed ==
    /\ InDialog /\ modal = 1
    /\ action' = <<"USE_LOCAL", "USE_REMOTE", "CANCEL">>[choice + 1]
    /\ modal' = 1 /\ redraw' = TRUE
    /\ UNCHANGED <<choice, feedback>> /\ DialogKeepsRest

(* The dialog is disarmed before the application calls a controller. *)
ConfirmChoice ==
    /\ InDialog /\ modal = 1
    /\ action' = <<"USE_LOCAL", "USE_REMOTE", "CANCEL">>[choice + 1]
    /\ IF choice = 2 THEN modal' = 0 /\ UNCHANGED feedback
                     ELSE modal' = 2 /\ feedback' = "WORKING"
    /\ redraw' = TRUE
    /\ UNCHANGED choice /\ DialogKeepsRest

-----------------------------------------------------------------------------
(* Calls of the application.                                                *)

cn_ui_set_library(l) ==
    /\ lib' = <<l>> /\ sel' = 0 /\ top' = 0
    /\ modal' = 0 /\ action' = "NONE" /\ redraw' = FALSE
    /\ swapped' = (swapped \/ open >= 0)
    /\ UNCHANGED <<state, page, readerVars, choice, feedback, powerVars,
                   asked, taken>>

(* Mutant: the dialog outlives the reader it is about. *)
cn_ui_set_reader_keeps_dialog ==
    /\ attached' \in BOOLEAN
    /\ open' = -1 /\ rpage' = 0
    /\ action' = "NONE" /\ redraw' = FALSE
    /\ UNCHANGED <<navVars, modal, choice, feedback, powerVars, histVars>>

(* The old reader is freed; creating the new one may fail. *)
cn_ui_set_reader ==
    /\ attached' \in BOOLEAN
    /\ open' = -1 /\ rpage' = 0
    /\ modal' = 0 /\ action' = "NONE" /\ redraw' = FALSE
    /\ UNCHANGED <<navVars, choice, feedback, powerVars, histVars>>

cn_ui_show_sync_conflict ==
    /\ state = "READER" /\ ReaderOpen
    /\ action' = "NONE" /\ modal' = 1 /\ choice' = 2
    /\ asked < MaxDialogs /\ asked' = asked + 1
    /\ UNCHANGED <<navVars, readerVars, feedback, powerVars, redraw, taken,
                   swapped>>

cn_ui_show_sync_feedback(f) ==
    /\ state = "READER" /\ ReaderOpen
    /\ modal' = 2 /\ action' = "NONE" /\ feedback' = f
    /\ UNCHANGED <<navVars, readerVars, choice, powerVars, redraw, histVars>>

cn_ui_take_sync_action ==
    /\ action # "NONE" /\ action' = "NONE"
    /\ taken' = IF action \in Choices THEN taken + 1 ELSE taken
    /\ UNCHANGED <<navVars, readerVars, modal, choice, feedback, powerVars,
                   redraw, asked, swapped>>

-----------------------------------------------------------------------------
KeyEvent == PageNext \/ PagePrev \/ Menu \/ Back \/ Home
TouchEvent == TouchElsewhere \/ \E r \in 0 .. Rows - 1 : TouchRow(r)
DialogEvent == DismissDialog \/ HighlightChoice \/ ConfirmChoice
PowerEvent == PowerDown \/ PowerUp

cn_ui_handle ==
    KeyEvent \/ TouchEvent \/ DialogEvent \/ PowerEvent \/ LeaveAccount

ApplicationCall ==
    \/ \E l \in Libraries : cn_ui_set_library(l)
    \/ cn_ui_set_reader
    \/ cn_ui_show_sync_conflict
    \/ \E f \in Feedbacks : cn_ui_show_sync_feedback(f)
    \/ cn_ui_take_sync_action

UiNext == cn_ui_handle \/ ApplicationCall

UiSpec == cn_ui_init /\ [][UiNext]_uiVars

-----------------------------------------------------------------------------
UiTypeOK ==
    /\ state \in States /\ page \in Nat \ {0}
    /\ lib \in {<<l>> : l \in Libraries} \cup {<< >>}
    /\ sel \in Nat /\ top \in Nat
    /\ attached \in BOOLEAN /\ open \in Nat \cup {-1} /\ rpage \in 0 .. LastPage
    /\ modal \in 0 .. 2 /\ choice \in 0 .. 2
    /\ action \in SyncActions /\ feedback \in Feedbacks
    /\ held \in BOOLEAN /\ exit \in BOOLEAN /\ redraw \in BOOLEAN
    /\ asked \in Nat /\ taken \in Nat /\ swapped \in BOOLEAN

(* The selected book is always on the screen, and the list never shows empty *)
(* rows below its end while books above are hidden (lib_down, lib_up, touch).*)
ViewportOK ==
    /\ Count > 0 => sel \in VisibleRows
    /\ Count = 0 => sel = 0
    /\ top <= LargerOf(0, Count - Rows)

(* A dialog is only ever up over the open book it is about. *)
DialogOverOpenBook == modal # 0 => state = "READER" /\ ReaderOpen

(* The book the application saves and syncs under (cn_ui_selected_book) is   *)
(* the one the reader shows, as long as nobody replaced the library under it.*)
OpenBookIsSelected ==
    open >= 0 =>
        /\ attached /\ state = "READER"
        /\ ~swapped => open = sel /\ BookList[sel + 1] = "EPUB"

(* A conflict dialog authorizes at most one choice, however often MENU,      *)
(* BACK or HOME is pressed and whenever the application takes it.            *)
OneChoicePerDialog ==
    taken + (IF action \in Choices \/ modal = 1 THEN 1 ELSE 0) <= asked

(* What is on the screen, apart from the marker (cn_ui_render). *)
Screen ==
    CASE state = "LIBRARY" -> <<"list", lib, sel, top>>
      [] state = "SELECTED_BOOK" -> <<"book", sel>>
      [] state = "READER" -> <<"page", open, rpage, modal,
                               IF modal = 1 THEN choice ELSE feedback>>
      [] state = "READER_TEST" -> <<"test", page>>
      [] OTHER -> <<state>>

(* No input changes the screen without asking for a redraw.                  *)
RedrawsWhatChanges == cn_ui_handle /\ Screen' # Screen => redraw'

UiInv == UiTypeOK /\ ViewportOK /\ DialogOverOpenBook /\ OpenBookIsSelected
         /\ OneChoicePerDialog

=============================================================================
