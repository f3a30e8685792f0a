------------------------------- MODULE Screens -------------------------------
(***************************************************************************)
(* What the user sees and touches: the screens, the reading session over    *)
(* them, the engine and the library below them, the layout of texts, and    *)
(* the account form with its keyboard.  A behaviour exercises one part,     *)
(* chosen at its beginning; the variables of the other parts have no value  *)
(* in it.  (The session is the screens with the sync controllers: both use  *)
(* the variables of ReaderUi.)                                              *)
(***************************************************************************)
EXTENDS Integers, Sequences

CONSTANTS
    Libraries, Rows, LastPage, Feedbacks, MaxTestPage, MaxDialogs, \* ReaderUi
    SessionLibraries, SessionTestPage, Positions, XPointers,
    NoRecord, PageOf, PageStart,                            \* ReaderSession
    Books, Points, PerPage, Default, Fonts, Broken, NoBook,
    NoFont,                                                 \* ReaderEngine
    Entries, MaxEntries, CapInit,                           \* Library
    MAX_CP, MAX_LIB_CP, MaxText, LineWidths,                \* TextLayout
    TextFields, FieldCapacity,                              \* AccountForm
    BufferCapacity, CharWidths, Available, Stops            \* AccountInput

VARIABLES
    part,       \* the part that this behaviour exercises
    state, uiPage, lib, sel, top, attached, open, rpage, modal, choice,
    uiAction, feedback, held, uiExit, uiRedraw, asked, taken, swapped,
    sessionLocal, remote, late, call, report, here, sessionPc, was, chosen,
    opened, snapshot, verdict, mismatch, saved, evidence,
    doc, cfg, pages, enginePage, size, engineShown, registered, last, reported,
    position, result, wanted,
    dir, typed, unread, libPc, entry, books, cap, live, met,
    layoutText, avail, has_ellipsis, mode, layoutPc, layoutShown, layoutP,
    lines,
    where, formText, pwlen, focus, editing, keyboard, confirm, message, option,
    formLocal, status, formAction, drawn, formRedraw, formExit, formPc, disk,
    agreed,
    in, inputShown, layout, selection

SessionFeedbacks == {"WORKING", "STALE", "MISMATCH", "REMOTE_APPLIED",
                     "UPLOAD_POSSIBLE", "REMOTE_UPDATED", "REMOTE_MISSING", "FAILED"}

-----------------------------------------------------------------------------
Ui == INSTANCE ReaderUi WITH
    page <- uiPage, action <- uiAction, exit <- uiExit, redraw <- uiRedraw

Session == INSTANCE ReaderSession WITH
    Libraries <- SessionLibraries, Feedbacks <- SessionFeedbacks,
    MaxTestPage <- SessionTestPage,
    local <- sessionLocal, pc <- sessionPc, page <- uiPage, action <- uiAction,
    exit <- uiExit, redraw <- uiRedraw

Engine == INSTANCE ReaderEngine WITH page <- enginePage, shown <- engineShown

Library == INSTANCE Library WITH pc <- libPc

Layout == INSTANCE TextLayout WITH
    Widths <- LineWidths,
    text <- layoutText, pc <- layoutPc, shown <- layoutShown, p <- layoutP

Form == INSTANCE AccountForm WITH
    Capacity <- FieldCapacity, text <- formText, local <- formLocal,
    action <- formAction, redraw <- formRedraw, exit <- formExit, pc <- formPc

Input == INSTANCE AccountInput WITH
    Capacity <- BufferCapacity, Widths <- CharWidths, shown <- inputShown

(* What each part assumes of its constants. *)
ASSUME UiAssumption ==
    Ui!RowsAssumption /\ Ui!LibrariesAssumption /\ Ui!LastPageAssumption
    /\ Ui!FeedbacksAssumption
ASSUME SessionAssumption ==
    /\ Session!LibrariesAssumption
    /\ Session!XPointersAssumption /\ Session!NoRecordAssumption
    /\ Session!UnansweredAssumption
    /\ Session!PageOfAssumption /\ Session!PageStartAssumption
ASSUME EngineAssumption ==
    Engine!BooksAssumption /\ Engine!PerPageAssumption /\ Engine!FontsAssumption
ASSUME ListsAssumption ==
    Library!CapAssumption /\ Library!EntriesAssumption
    /\ Layout!SizesAssumption /\ Layout!WidthsAssumption
ASSUME FormAssumption == Form!TextFieldsAssumption /\ Form!CapacityAssumption
ASSUME InputAssumption ==
    Input!CapacityAssumption /\ Input!WidthsAssumption /\ Input!StopsAssumption

-----------------------------------------------------------------------------
(* The variables of a part that is not exercised have no value. *)
None == "-"
uiVars == <<state, uiPage, lib, sel, top, attached, open, rpage, modal, choice,
        uiAction, feedback, held, uiExit, uiRedraw, asked, taken, swapped>>
UiUnused ==
    /\ state = None /\ uiPage = None /\ lib = None /\ sel = None /\ top = None
    /\ attached = None /\ open = None /\ rpage = None /\ modal = None
    /\ choice = None /\ uiAction = None /\ feedback = None /\ held = None
    /\ uiExit = None /\ uiRedraw = None /\ asked = None /\ taken = None
    /\ swapped = None
sessionVars == <<sessionLocal, remote, late, call, report, here, sessionPc,
        was, chosen, opened, snapshot, verdict, mismatch, saved, evidence>>
SessionUnused ==
    /\ sessionLocal = None /\ remote = None /\ late = None /\ call = None
    /\ report = None /\ here = None /\ sessionPc = None /\ was = None
    /\ chosen = None /\ opened = None /\ snapshot = None /\ verdict = None
    /\ mismatch = None /\ saved = None /\ evidence = None
engineVars == <<doc, cfg, pages, enginePage, size, engineShown, registered,
        last, reported, position, result, wanted>>
EngineUnused ==
    /\ doc = None /\ cfg = None /\ pages = None /\ enginePage = None
    /\ size = None /\ engineShown = None /\ registered = None /\ last = None
    /\ reported = None /\ position = None /\ result = None /\ wanted = None
libraryVars == <<dir, typed, unread, libPc, entry, books, cap, live, met>>
LibraryUnused ==
    /\ dir = None /\ typed = None /\ unread = None /\ libPc = None
    /\ entry = None /\ books = None /\ cap = None /\ live = None /\ met = None
layoutVars == <<layoutText, avail, has_ellipsis, mode, layoutPc, layoutShown,
        layoutP, lines>>
LayoutUnused ==
    /\ layoutText = None /\ avail = None /\ has_ellipsis = None /\ mode = None
    /\ layoutPc = None /\ layoutShown = None /\ layoutP = None /\ lines = None
formVars == <<where, formText, pwlen, focus, editing, keyboard, confirm,
        message, option, formLocal, status, formAction, drawn, formRedraw,
        formExit, formPc, disk, agreed>>
FormUnused ==
    /\ where = None /\ formText = None /\ pwlen = None /\ focus = None
    /\ editing = None /\ keyboard = None /\ confirm = None /\ message = None
    /\ option = None /\ formLocal = None /\ status = None /\ formAction = None
    /\ drawn = None /\ formRedraw = None /\ formExit = None /\ formPc = None
    /\ disk = None /\ agreed = None
inputVars == <<in, inputShown, layout, selection>>
InputUnused ==
    /\ in = None /\ inputShown = None /\ layout = None /\ selection = None

Parts == {"ui", "session", "engine", "library", "layout", "form", "input"}

Init ==
    /\ part \in Parts
    /\ IF part = "ui" THEN Ui!cn_ui_init ELSE part = "session" \/ UiUnused
    /\ IF part = "session" THEN Session!SessionInit ELSE SessionUnused
    /\ IF part = "engine" THEN Engine!Init ELSE EngineUnused
    /\ IF part = "library" THEN Library!Init ELSE LibraryUnused
    /\ IF part = "layout" THEN Layout!Init ELSE LayoutUnused
    /\ IF part = "form" THEN Form!Init ELSE FormUnused
    /\ IF part = "input" THEN Input!Init ELSE InputUnused

(* The other parts keep still. *)
Only(name) ==
    /\ UNCHANGED part
    /\ IF name = "ui" \/ name = "session" THEN TRUE ELSE UNCHANGED uiVars
    /\ IF name = "session" THEN TRUE ELSE UNCHANGED sessionVars
    /\ IF name = "engine" THEN TRUE ELSE UNCHANGED engineVars
    /\ IF name = "library" THEN TRUE ELSE UNCHANGED libraryVars
    /\ IF name = "layout" THEN TRUE ELSE UNCHANGED layoutVars
    /\ IF name = "form" THEN TRUE ELSE UNCHANGED formVars
    /\ IF name = "input" THEN TRUE ELSE UNCHANGED inputVars

Next ==
    \/ part = "ui" /\ Ui!UiNext /\ Only("ui")
    \/ part = "session" /\ Session!SessionNext /\ Only("session")
    \/ part = "engine" /\ Engine!Next /\ Only("engine")
    \/ part = "library" /\ Library!Next /\ Only("library")
    \/ part = "layout" /\ Layout!Next /\ Only("layout")
    \/ part = "form" /\ Form!Next /\ Only("form")
    \/ part = "input" /\ Input!Next /\ Only("input")

vars ==
    <<part, uiVars, sessionVars, engineVars, libraryVars, layoutVars, formVars,
      inputVars>>

Spec == Init /\ [][Next]_vars

(* The loops run on between events, a controller call ends whatever the      *)
(* server does (OperationEnds of KosyncSync), and a text that is laid out is *)
(* laid out to its end.  The user is never fair.                            *)
Runs ==
    \/ part = "session" /\ Session!LoopStep /\ Only("session")
    \/ part = "form" /\ Form!Loop /\ Only("form")
    \/ part = "layout" /\ (Layout!Line \/ Layout!Finish) /\ Only("layout")
Answers == part = "session" /\ Session!ControllerReturns /\ Only("session")
FairSpec == Spec /\ WF_vars(Runs) /\ WF_vars(Answers)

-----------------------------------------------------------------------------
(* Manual sync and conflict resolution (app/reader_sync.c,                   *)
(* app/reader_conflict.c), while others write the server and the disk: a     *)
(* sync that saved first imports nothing over it, a choice acts on the       *)
(* conflict that was shown, disk and screen agree after it or the user is    *)
(* told, and what the user is told is true of the server.                   *)
SyncKeepsFaith ==
    part = "session" =>
        /\ Session!SessionTypeOK
        /\ Session!SaveFirstNeverImports
        /\ Session!ChoiceActsOnShownConflict
        /\ Session!DiskAndReaderAgree
        /\ Session!FeedbackTruthful

(* Navigation (ui/ui.c): the selection is on the screen, a dialog lies over  *)
(* the open book, the book that is saved is the one shown, and a conflict    *)
(* authorizes one choice.                                                    *)
ScreensConsistent == part = "ui" => Ui!UiInv

(* The account form (ui/ui.c, ui/account_text_input.c): the password does    *)
(* not outlive it, a replacement was confirmed, doubt is looked into before  *)
(* anything is written; the caret is shown, a touch hits the key or the      *)
(* character it is on, and every key can be reached.                        *)
FormConsistent ==
    /\ part = "form" =>
        /\ Form!TypeOK
        /\ Form!PasswordOnlyOnForm
        /\ Form!KeyboardHasField
        /\ Form!ReplaceIsConfirmed
        /\ Form!NeverNewOverComplete
        /\ Form!DoubtIsRechecked
        /\ Form!TouchSeesText
    /\ part = "input" =>
        /\ Input!TypeOK
        /\ Input!CaretIsShown
        /\ Input!TouchPlacesCaret
        /\ Input!ViewportContainsCaret
        /\ Input!SelectionIsAKey
        /\ Input!MovesAreInverse
        /\ Input!TouchIsUnambiguous

(* What is listed and drawn (reader/reader.cpp, library/library.c,           *)
(* graphics/text.c): pages are those of the layout the engine has now, a     *)
(* restored position is on the page, the list does not depend on the order   *)
(* of the directory and leaks nothing, and lines fit and cut no word.        *)
PagesAndLinesCorrect ==
    /\ part = "engine" =>
        /\ Engine!TypeOK
        /\ Engine!CountIsCurrent
        /\ Engine!OnePage
        /\ Engine!RestoredIsVisible
    /\ part = "library" =>
        /\ Library!TypeOK
        /\ Library!ListIsDetermined
        /\ Library!NothingLeaks
    /\ part = "layout" =>
        /\ Layout!TypeOK
        /\ Layout!LinesFit
        /\ Layout!WordsAreWhole
        /\ Layout!WrapsOnlyOnOverflow
        /\ Layout!TitleIsOneLine

(* An input that changes the screen asks for a redraw (cn_ui_handle), and a  *)
(* call of the engine that fails leaves the page alone.                     *)
ScreenFollowsState ==
    [][/\ part = "ui" => Ui!RedrawsWhatChanges
       /\ part = "engine" => Engine!RefusalDoesNotMove]_vars

(* "Working" is replaced by what came of it, or the program is over; every   *)
(* text is laid out.                                                        *)
Busy ==
    \/ part = "session" /\ Session!Working /\ sessionPc # "done"
    \/ part = "form" /\ message = "WORKING" /\ formPc # "done"
    \/ part = "layout" /\ layoutPc = "lines"
WorkEnds == Busy ~> ~Busy

-----------------------------------------------------------------------------
(* A small instance, for TLC.                                               *)

(* Lists shorter and longer than the viewport; a book for the session.       *)
SmallLibraries == {<< >>, <<"EPUB", "FB2", "TXT">>}
OneBook == {<<"EPUB">>}

(* The server may hold a position inside the second page or one of another   *)
(* edition of the book.  (Page numbers of a PDF reader: see KosyncSync.cfg.)   *)
PageOfPoint == [x \in {"first", "second", "inside_second", "elsewhere"} |->
              CASE x = "first" -> 0 [] x = "elsewhere" -> -1 [] OTHER -> 1]
PageStarts == [n \in 0 .. 1 |-> IF n = 0 THEN "first" ELSE "second"]

(* Two books, three sizes and the default; one of three fonts is broken.     *)
BookPoints == [b1 |-> 5, b2 |-> 2]
PointsPerPage == [s \in 0 .. 3 |-> CASE s = 0 -> 2 [] s = 1 -> 3 [] s = 2 -> 2 [] s = 3 -> 1]

(* Titles that differ in case, in two alphabets, and a broken letter.        *)
File(title, ext) == [title |-> title, ext |-> ext, kind |-> "file", skip |-> FALSE]
epub == <<101>>
txt == <<116>>
DirectoryEntries ==
    {File(<<65>>, epub), File(<<97>>, epub), File(<<97>>, txt),     \* "A", "a"
     File(<<209, 145>>, epub), File(<<208, 129>>, txt),             \* Cyrillic io
     File(<<208>>, epub), [File(<<99>>, epub) EXCEPT !.skip = TRUE],
     [File(<<100>>, epub) EXCEPT !.kind = "dir"],
     [File(<<101>>, epub) EXCEPT !.kind = "link"]}

=============================================================================
