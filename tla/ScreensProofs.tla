---------------------------- MODULE ScreensProofs ----------------------------
(***************************************************************************)
(* Proofs about Screens: the lemmas of SessionProofs, read once with the    *)
(* names of Ui and once with those of Session.                              *)
(***************************************************************************)
EXTENDS Screens, SequenceTheorems, FiniteSetTheorems, WellFoundedInduction, TLAPS

UiP == INSTANCE SessionProofs WITH
    local <- sessionLocal, pc <- sessionPc, page <- uiPage, action <- uiAction,
    exit <- uiExit, redraw <- uiRedraw

SessionP == INSTANCE SessionProofs WITH
    Libraries <- SessionLibraries, Feedbacks <- SessionFeedbacks,
    MaxTestPage <- SessionTestPage,
    local <- sessionLocal, pc <- sessionPc, page <- uiPage, action <- uiAction,
    exit <- uiExit, redraw <- uiRedraw

-----------------------------------------------------------------------------
(* The screens.  Both instances say the same word for word.                  *)

LEMMA UiConstantsHold == UiP!UiConstants
BY UiAssumption
   DEF UiP!UiConstants, Ui!RowsAssumption, UiP!RowsAssumption, Ui!LibrariesAssumption,
       UiP!LibrariesAssumption, Ui!LastPageAssumption, UiP!LastPageAssumption,
       Ui!FeedbacksAssumption, UiP!FeedbacksAssumption

LEMMA UiStartsAlike == Ui!cn_ui_init => UiP!cn_ui_init
BY Zenon DEF Ui!cn_ui_init, UiP!cn_ui_init

LEMMA UiStepsAlike == Ui!UiNext => UiP!UiNext
BY Zenon
   DEF Ui!navVars, UiP!navVars, Ui!readerVars, UiP!readerVars, Ui!syncVars, UiP!syncVars,
       Ui!powerVars, UiP!powerVars, Ui!histVars, UiP!histVars, Ui!Choices,
       UiP!Choices, Ui!SyncActions, UiP!SyncActions, Ui!BookList, UiP!BookList, Ui!Count,
       UiP!Count, Ui!SmallerOf, UiP!SmallerOf, Ui!LargerOf, UiP!LargerOf,
       Ui!lib_down, UiP!lib_down, Ui!lib_up, UiP!lib_up, Ui!ReaderOpen,
       UiP!ReaderOpen, Ui!TurnPage, UiP!TurnPage, Ui!CloseReader, UiP!CloseReader,
       Ui!GoTo, UiP!GoTo, Ui!Ignored, UiP!Ignored, Ui!InDialog, UiP!InDialog,
       Ui!OnScreen, UiP!OnScreen, Ui!PageNext, UiP!PageNext, Ui!PagePrev,
       UiP!PagePrev, Ui!Menu, UiP!Menu, Ui!Back, UiP!Back, Ui!Home, UiP!Home,
       Ui!Activate, UiP!Activate, Ui!TouchRow, UiP!TouchRow, Ui!TouchElsewhere,
       UiP!TouchElsewhere, Ui!PowerDown, UiP!PowerDown, Ui!PowerUp, UiP!PowerUp,
       Ui!LeaveAccount, UiP!LeaveAccount, Ui!DialogKeepsRest, UiP!DialogKeepsRest,
       Ui!DismissDialog, UiP!DismissDialog, Ui!HighlightChoice, UiP!HighlightChoice,
       Ui!ConfirmChoice, UiP!ConfirmChoice, Ui!cn_ui_set_library,
       UiP!cn_ui_set_library, Ui!cn_ui_set_reader, UiP!cn_ui_set_reader,
       Ui!cn_ui_show_sync_conflict, UiP!cn_ui_show_sync_conflict,
       Ui!cn_ui_show_sync_feedback, UiP!cn_ui_show_sync_feedback,
       Ui!cn_ui_take_sync_action, UiP!cn_ui_take_sync_action, Ui!KeyEvent,
       UiP!KeyEvent, Ui!TouchEvent, UiP!TouchEvent, Ui!DialogEvent, UiP!DialogEvent,
       Ui!PowerEvent, UiP!PowerEvent, Ui!cn_ui_handle, UiP!cn_ui_handle,
       Ui!ApplicationCall, UiP!ApplicationCall, Ui!UiNext, UiP!UiNext

LEMMA UiRedrawsAlike == UiP!RedrawsWhatChanges => Ui!RedrawsWhatChanges
BY Zenon
   DEF Ui!RedrawsWhatChanges, UiP!RedrawsWhatChanges, Ui!Screen, UiP!Screen, Ui!navVars,
       UiP!navVars, Ui!readerVars, UiP!readerVars, Ui!syncVars, UiP!syncVars,
       Ui!powerVars, UiP!powerVars, Ui!histVars, UiP!histVars, Ui!Choices,
       UiP!Choices, Ui!SyncActions, UiP!SyncActions, Ui!BookList, UiP!BookList, Ui!Count,
       UiP!Count, Ui!SmallerOf, UiP!SmallerOf, Ui!LargerOf, UiP!LargerOf,
       Ui!lib_down, UiP!lib_down, Ui!lib_up, UiP!lib_up, Ui!ReaderOpen,
       UiP!ReaderOpen, Ui!TurnPage, UiP!TurnPage, Ui!CloseReader, UiP!CloseReader,
       Ui!GoTo, UiP!GoTo, Ui!Ignored, UiP!Ignored, Ui!InDialog, UiP!InDialog,
       Ui!OnScreen, UiP!OnScreen, Ui!PageNext, UiP!PageNext, Ui!PagePrev,
       UiP!PagePrev, Ui!Menu, UiP!Menu, Ui!Back, UiP!Back, Ui!Home, UiP!Home,
       Ui!Activate, UiP!Activate, Ui!TouchRow, UiP!TouchRow, Ui!TouchElsewhere,
       UiP!TouchElsewhere, Ui!PowerDown, UiP!PowerDown, Ui!PowerUp, UiP!PowerUp,
       Ui!LeaveAccount, UiP!LeaveAccount, Ui!DialogKeepsRest, UiP!DialogKeepsRest,
       Ui!DismissDialog, UiP!DismissDialog, Ui!HighlightChoice, UiP!HighlightChoice,
       Ui!ConfirmChoice, UiP!ConfirmChoice, Ui!KeyEvent, UiP!KeyEvent,
       Ui!TouchEvent, UiP!TouchEvent, Ui!DialogEvent, UiP!DialogEvent,
       Ui!PowerEvent, UiP!PowerEvent, Ui!cn_ui_handle, UiP!cn_ui_handle

LEMMA UiInvAlike == UiP!UiInv => Ui!UiInv
BY Zenon
   DEF Ui!UiInv, UiP!UiInv, Ui!UiTypeOK, UiP!UiTypeOK, Ui!ViewportOK, UiP!ViewportOK,
       Ui!DialogOverOpenBook, UiP!DialogOverOpenBook, Ui!OpenBookIsSelected,
       UiP!OpenBookIsSelected, Ui!OneChoicePerDialog, UiP!OneChoicePerDialog,
       Ui!States, UiP!States, Ui!SyncActions, UiP!SyncActions, Ui!Choices,
       UiP!Choices, Ui!VisibleRows, UiP!VisibleRows, Ui!Count, UiP!Count, Ui!BookList,
       UiP!BookList, Ui!LargerOf, UiP!LargerOf, Ui!ReaderOpen, UiP!ReaderOpen

-----------------------------------------------------------------------------
LEMMA SessionConstantsHold == SessionP!SessionConstants
<1>1. SessionP!UiConstants
  BY UiAssumption, SessionAssumption
     DEF SessionP!UiConstants, SessionFeedbacks, Ui!RowsAssumption, Ui!LastPageAssumption, Session!LibrariesAssumption,
         SessionP!RowsAssumption, SessionP!LibrariesAssumption,
         SessionP!LastPageAssumption, SessionP!FeedbacksAssumption
<1> QED
  BY <1>1, SessionAssumption
     DEF SessionP!SessionConstants, SessionFeedbacks, Session!XPointersAssumption, SessionP!XPointersAssumption,
         Session!NoRecordAssumption, SessionP!NoRecordAssumption,
         Session!UnansweredAssumption, SessionP!UnansweredAssumption,
         Session!PageOfAssumption, SessionP!PageOfAssumption,
         Session!PageStartAssumption, SessionP!PageStartAssumption

LEMMA SessionStartsAlike == Session!SessionInit => SessionP!SessionInit
BY Zenon
   DEF Session!SessionInit, SessionP!SessionInit, Session!Count, SessionP!Count,
       Session!BookList, SessionP!BookList, Session!Sync!Init, SessionP!Sync!Init,
       Session!Sync!NoCall, SessionP!Sync!NoCall, Session!Sync!NoReport,
       SessionP!Sync!NoReport

LEMMA SessionStepsAlike == Session!SessionNext => SessionP!SessionNext
BY Zenon
   DEF Session!contractVars, SessionP!contractVars, Session!loopVars, SessionP!loopVars,
       Session!conflictVars, SessionP!conflictVars, Session!ghostVars,
       SessionP!ghostVars, Session!Goto, SessionP!Goto, Session!Shows,
       SessionP!Shows, Session!PollEvent, SessionP!PollEvent, Session!Acknowledged,
       SessionP!Acknowledged, Session!NothingRequested, SessionP!NothingRequested,
       Session!TakeRequest, SessionP!TakeRequest, Session!ManualRequested,
       SessionP!ManualRequested, Session!Cancelled, SessionP!Cancelled,
       Session!ChoiceRequested, SessionP!ChoiceRequested, Session!open_book,
       SessionP!open_book, Session!ManualFails, SessionP!ManualFails,
       Session!PreSave, SessionP!PreSave, Session!InvokeSync, SessionP!InvokeSync,
       Session!ControllerWorks, SessionP!ControllerWorks, Session!ControllerReturns,
       SessionP!ControllerReturns, Session!is_conflict, SessionP!is_conflict,
       Session!ShowConflict, SessionP!ShowConflict, Session!SyncSettled,
       SessionP!SyncSettled, Session!SameAsShown, SessionP!SameAsShown,
       Session!Stale, SessionP!Stale, Session!Execute, SessionP!Execute,
       Session!ChoiceSettled, SessionP!ChoiceSettled, Session!MustApply,
       SessionP!MustApply, Session!AfterApply, SessionP!AfterApply,
       Session!ApplyRecord, SessionP!ApplyRecord, Session!ApplyFails,
       SessionP!ApplyFails, Session!feedback_for, SessionP!feedback_for,
       Session!ShowFeedback, SessionP!ShowFeedback, Session!World, SessionP!World,
       Session!OtherProcessSaves, SessionP!OtherProcessSaves, Session!BatteryDies,
       SessionP!BatteryDies, Session!LoopStep, SessionP!LoopStep,
       Session!SessionNext, SessionP!SessionNext, Session!uiVars, SessionP!uiVars,
       Session!navVars, SessionP!navVars, Session!readerVars, SessionP!readerVars,
       Session!syncVars, SessionP!syncVars, Session!powerVars, SessionP!powerVars,
       Session!histVars, SessionP!histVars, Session!Choices, SessionP!Choices,
       Session!SyncActions, SessionP!SyncActions, Session!BookList, SessionP!BookList,
       Session!Count, SessionP!Count, Session!SmallerOf, SessionP!SmallerOf,
       Session!LargerOf, SessionP!LargerOf, Session!lib_down, SessionP!lib_down,
       Session!lib_up, SessionP!lib_up, Session!ReaderOpen, SessionP!ReaderOpen,
       Session!TurnPage, SessionP!TurnPage, Session!CloseReader,
       SessionP!CloseReader, Session!GoTo, SessionP!GoTo, Session!Ignored,
       SessionP!Ignored, Session!InDialog, SessionP!InDialog, Session!OnScreen,
       SessionP!OnScreen, Session!PageNext, SessionP!PageNext, Session!PagePrev,
       SessionP!PagePrev, Session!Menu, SessionP!Menu, Session!Back, SessionP!Back,
       Session!Home, SessionP!Home, Session!Activate, SessionP!Activate,
       Session!TouchRow, SessionP!TouchRow, Session!TouchElsewhere,
       SessionP!TouchElsewhere, Session!PowerDown, SessionP!PowerDown,
       Session!PowerUp, SessionP!PowerUp, Session!LeaveAccount,
       SessionP!LeaveAccount, Session!DialogKeepsRest, SessionP!DialogKeepsRest,
       Session!DismissDialog, SessionP!DismissDialog, Session!HighlightChoice,
       SessionP!HighlightChoice, Session!ConfirmChoice, SessionP!ConfirmChoice,
       Session!cn_ui_show_sync_conflict, SessionP!cn_ui_show_sync_conflict,
       Session!cn_ui_show_sync_feedback, SessionP!cn_ui_show_sync_feedback,
       Session!cn_ui_take_sync_action, SessionP!cn_ui_take_sync_action,
       Session!KeyEvent, SessionP!KeyEvent, Session!TouchEvent, SessionP!TouchEvent,
       Session!DialogEvent, SessionP!DialogEvent, Session!PowerEvent,
       SessionP!PowerEvent, Session!cn_ui_handle, SessionP!cn_ui_handle,
       Session!Sync!NoCall, SessionP!Sync!NoCall, Session!Sync!NoReport,
       SessionP!Sync!NoReport, Session!Sync!Running, SessionP!Sync!Running,
       Session!Sync!Call, SessionP!Sync!Call, Session!Sync!Serve,
       SessionP!Sync!Serve, Session!Sync!Upload, SessionP!Sync!Upload,
       Session!Sync!ServerStores, SessionP!Sync!ServerStores,
       Session!Sync!ServerRefuses, SessionP!Sync!ServerRefuses, Session!Sync!Import,
       SessionP!Sync!Import, Session!Sync!OutcomeHolds, SessionP!Sync!OutcomeHolds,
       Session!Sync!EvidenceHolds, SessionP!Sync!EvidenceHolds,
       Session!Sync!StillFlying, SessionP!Sync!StillFlying, Session!Sync!Return,
       SessionP!Sync!Return, Session!Sync!Abort, SessionP!Sync!Abort,
       Session!Sync!LateUpload, SessionP!Sync!LateUpload, Session!Sync!OtherDevice,
       SessionP!Sync!OtherDevice, Session!Sync!LocalSave, SessionP!Sync!LocalSave,
       Session!Sync!Mutations, SessionP!Sync!Mutations, Session!Sync!Outcomes,
       SessionP!Sync!Outcomes, Session!Sync!Failures, SessionP!Sync!Failures,
       Session!Sync!Reports, SessionP!Sync!Reports, Session!Sync!World,
       SessionP!Sync!World

LEMMA SessionFaithAlike ==
    SessionP!SessionTypeOK /\ SessionP!SaveFirstNeverImports
    /\ SessionP!ChoiceActsOnShownConflict /\ SessionP!DiskAndReaderAgree
    /\ SessionP!FeedbackTruthful
    => /\ Session!SessionTypeOK /\ Session!SaveFirstNeverImports
       /\ Session!ChoiceActsOnShownConflict /\ Session!DiskAndReaderAgree
       /\ Session!FeedbackTruthful
BY Zenon
   DEF Session!SessionTypeOK, SessionP!SessionTypeOK, Session!SaveFirstNeverImports,
       SessionP!SaveFirstNeverImports, Session!ChoiceActsOnShownConflict,
       SessionP!ChoiceActsOnShownConflict, Session!DiskAndReaderAgree,
       SessionP!DiskAndReaderAgree, Session!FeedbackTruthful,
       SessionP!FeedbackTruthful, Session!UiTypeOK, SessionP!UiTypeOK,
       Session!States, SessionP!States, Session!SyncActions, SessionP!SyncActions,
       Session!Choices, SessionP!Choices

-----------------------------------------------------------------------------
(* The account form.                                                        *)

(* On the form, when no request is pending, a confirmation that is under way *)
(* counts the times Continue was pressed.                                   *)
FormConfirmed == agreed = IF confirm = 2 THEN 1 ELSE 0

(* The loop: a request is served before the next event, and what is served   *)
(* is drawn.  What cn_ui_handle leaves as it was drawn is the text, unless   *)
(* the session is over.                                                     *)
FormLoop ==
    /\ formPc \in {"event", "served"} => formAction = "NONE"
    /\ formPc = "served" => formRedraw = TRUE
    /\ formPc = "event" => formExit = FALSE
    /\ formPc \in {"event", "handled"} /\ (formPc = "handled" => formRedraw = FALSE)
       /\ where = "ACCOUNT_SETUP" /\ editing = TRUE /\ formExit = FALSE => drawn = formText

(* What the form lets the user do depends on the last report. *)
FormInv ==
    /\ Form!TypeOK
    /\ pwlen > 0 => where = "ACCOUNT_SETUP" /\ editing = TRUE
    /\ keyboard = TRUE => editing = TRUE /\ focus \in Form!Fields
    /\ where = "ACCOUNT_SETUP" /\ formAction = "NONE" => FormConfirmed
    /\ formAction = "REPLACE" => agreed = 2
    /\ formAction = "SUBMIT" => formLocal # "COMPLETE"
    /\ editing = TRUE /\ confirm = 0 => formLocal # "COMPLETE"
    /\ status \in Form!Uncertain => editing = FALSE /\ formAction \in {"NONE", "INSPECT", "RECHECK"}
    /\ FormLoop

(* After POWER was held, and after the end, there is no password. *)
FormOver ==
    /\ formExit = TRUE => pwlen = 0
    /\ formPc = "done" => pwlen = 0

LEMMA FormConstants == TextFields \in Nat \ {0} /\ FieldCapacity \in Nat \ {0}
BY FormAssumption DEF FormAssumption, Form!TextFieldsAssumption, Form!CapacityAssumption

LEMMA FormNumbers ==
    /\ Form!Password = TextFields /\ Form!Continue = TextFields + 1
    /\ Form!Fields = 0 .. TextFields /\ Form!Password \in Form!Fields
    /\ Form!Continue \notin Form!Fields /\ 0 \in Form!Fields
    /\ \A n : n \in 0 .. Form!Continue /\ n # Form!Continue => n \in Form!Fields
    /\ Form!Fields \subseteq 0 .. Form!Continue
BY FormConstants DEF Form!Password, Form!Continue, Form!Fields

LEMMA FormInvGives ==
    ASSUME FormInv, FormOver
    PROVE  /\ Form!TypeOK /\ Form!PasswordOnlyOnForm /\ Form!KeyboardHasField
           /\ Form!ReplaceIsConfirmed /\ Form!NeverNewOverComplete
           /\ Form!DoubtIsRechecked /\ Form!TouchSeesText
<1>1. editing \in BOOLEAN /\ keyboard \in BOOLEAN
  BY Zenon DEF FormInv, Form!TypeOK
<1>2. Form!PasswordOnlyOnForm
  <2>1. formExit \in BOOLEAN
    BY Zenon DEF FormInv, Form!TypeOK
  <2> QED
    BY <1>1, <2>1 DEF FormInv, FormOver, Form!PasswordOnlyOnForm
<1>3. Form!KeyboardHasField
  BY <1>1 DEF FormInv, Form!KeyboardHasField
<1>4. Form!ReplaceIsConfirmed
  BY DEF FormInv, Form!ReplaceIsConfirmed
<1>5. Form!NeverNewOverComplete
  BY DEF FormInv, Form!NeverNewOverComplete
<1>6. Form!DoubtIsRechecked
  BY Zenon DEF FormInv, Form!DoubtIsRechecked
<1>7. Form!TouchSeesText
  BY <1>1 DEF FormInv, FormLoop, Form!TouchSeesText
<1> QED
  BY <1>2, <1>3, <1>4, <1>5, <1>6, <1>7 DEF FormInv

LEMMA FormInitially == ASSUME Form!Init PROVE FormInv /\ FormOver
<1>1. /\ where = "HOME" /\ message = "UNCHECKED" /\ formExit = FALSE
      /\ formText = [f \in Form!Fields |-> 0] /\ pwlen = 0
      /\ focus = 0 /\ editing = FALSE /\ keyboard = FALSE /\ confirm = 0 /\ option = 0
      /\ formLocal = "UNKNOWN" /\ status = "OTHER" /\ formAction = "NONE"
      /\ drawn = formText /\ formRedraw = FALSE /\ formPc = "event"
      /\ disk \in Form!Known /\ agreed = 0
  BY Zenon DEF Form!Init
<1>2. formText \in [Form!Fields -> 0 .. FieldCapacity] /\ formText[Form!Password] = 0
  BY <1>1, FormConstants, FormNumbers
<1>3. focus \in 0 .. Form!Continue /\ option \in 0 .. 1 /\ confirm \in 0 .. 2 /\ agreed \in 0 .. 2
  BY <1>1, FormConstants, FormNumbers
<1>4. message \in Form!Messages /\ status \in Form!Statuses /\ formAction \in Form!Actions
  BY <1>1 DEF Form!Messages, Form!Statuses, Form!Actions
<1>5. {editing, keyboard, formRedraw, formExit} \subseteq BOOLEAN
  BY <1>1, Zenon
<1>6. formLocal \in Form!Known \cup {"UNKNOWN", "UNREADABLE"}
      /\ formPc \in {"event", "handled", "work", "served", "closing", "done"}
      /\ where \in {"HOME", "ACCOUNT_SETUP"}
  BY <1>1
<1>7. Form!TypeOK
  BY <1>1, <1>2, <1>3, <1>4, <1>5, <1>6, Zenon DEF Form!TypeOK
<1>8. status \notin Form!Uncertain
  BY <1>1 DEF Form!Uncertain
<1>9. FormLoop
  BY <1>1 DEF FormLoop
<1>10. ~(pwlen > 0)
  BY <1>1
<1> QED
  BY <1>1, <1>7, <1>8, <1>9, <1>10 DEF FormInv, FormOver

(* What is known when an event arrives. *)
LEMMA FormAtEvent ==
    ASSUME FormInv, Form!Handles
    PROVE  /\ formPc = "event" /\ formPc' = "handled" /\ drawn' = drawn /\ disk' = disk
           /\ formAction = "NONE" /\ formExit = FALSE
           /\ where = "ACCOUNT_SETUP" => FormConfirmed
           /\ where = "ACCOUNT_SETUP" /\ editing = TRUE => drawn = formText
           /\ editing \in BOOLEAN /\ keyboard \in BOOLEAN
<1>1. formPc = "event" /\ formPc' = "handled" /\ drawn' = drawn /\ disk' = disk
  BY Zenon DEF Form!Handles
<1>2. editing \in BOOLEAN /\ keyboard \in BOOLEAN
  BY Zenon DEF FormInv, Form!TypeOK
<1>3. formAction = "NONE" /\ formExit = FALSE
  BY <1>1 DEF FormInv, FormLoop
<1> QED
  BY <1>1, <1>2, <1>3 DEF FormInv, FormLoop

(* The fields: each has its length, and the password has that of pwlen. *)
FormFields(t, n) == t \in [Form!Fields -> 0 .. FieldCapacity] /\ n = t[Form!Password]

LEMMA FormWiped ==
    ASSUME FormFields(formText, pwlen), Form!account_wipe
    PROVE  FormFields(formText', pwlen') /\ pwlen' = 0
<1>1. pwlen' = 0 /\ formText' = [formText EXCEPT ![Form!Password] = 0]
  BY Zenon DEF Form!account_wipe
<1>2. formText \in [Form!Fields -> 0 .. FieldCapacity]
  BY DEF FormFields
<1>3. 0 \in 0 .. FieldCapacity
  BY FormConstants
<1> QED
  BY <1>1, <1>2, <1>3, FormNumbers DEF FormFields

LEMMA FormEdited ==
    ASSUME FormFields(formText, pwlen), NEW f \in Form!Fields, NEW n \in 0 .. FieldCapacity,
           Form!Edit(f, n)
    PROVE  FormFields(formText', pwlen')
<1>1. formText' = [formText EXCEPT ![f] = n] /\ pwlen' = IF f = Form!Password THEN n ELSE pwlen
  BY Zenon DEF Form!Edit
<1>2. formText \in [Form!Fields -> 0 .. FieldCapacity]
  BY DEF FormFields
<1> QED
  BY <1>1, <1>2, FormNumbers DEF FormFields

LEMMA FormCleared ==
    ASSUME NEW t, t = [f \in Form!Fields |-> 0]
    PROVE  FormFields(t, 0)
BY FormConstants, FormNumbers DEF FormFields

(* What TypeOK says, part by part. *)
LEMMA FormTypes ==
    Form!TypeOK <=>
        /\ FormFields(formText, pwlen) /\ drawn \in [Form!Fields -> 0 .. FieldCapacity]
        /\ where \in {"HOME", "ACCOUNT_SETUP"}
        /\ focus \in 0 .. Form!Continue /\ option \in 0 .. 1 /\ confirm \in 0 .. 2
        /\ {editing, keyboard, formRedraw, formExit} \subseteq BOOLEAN
        /\ message \in Form!Messages /\ status \in Form!Statuses /\ formAction \in Form!Actions
        /\ formLocal \in Form!Known \cup {"UNKNOWN", "UNREADABLE"} /\ disk \in Form!Known
        /\ formPc \in {"event", "handled", "work", "served", "closing", "done"} /\ agreed \in 0 .. 2
BY Zenon DEF Form!TypeOK, FormFields

LEMMA FormEnters == ASSUME FormInv, Form!EnterForm PROVE FormInv'
<1>1. /\ Form!Handles /\ where = "HOME" /\ formRedraw' = TRUE
      /\ where' = "ACCOUNT_SETUP" /\ formAction' = "INSPECT" /\ message' = "WORKING"
      /\ formExit' = formExit /\ formText' = formText /\ pwlen' = pwlen
      /\ focus' = focus /\ editing' = editing /\ keyboard' = keyboard /\ confirm' = confirm
      /\ option' = option /\ formLocal' = formLocal /\ status' = status /\ agreed' = agreed
  BY Zenon DEF Form!EnterForm, Form!Returns, Form!fieldVars, Form!modeVars, Form!reportVars
<1>2. Form!TypeOK'
  <2>1. message' \in Form!Messages /\ formAction' \in Form!Actions
        /\ where' \in {"HOME", "ACCOUNT_SETUP"}
        /\ formPc' \in {"event", "handled", "work", "served", "closing", "done"}
    BY <1>1, FormAtEvent DEF Form!Messages, Form!Actions
  <2>2. {editing, keyboard, formRedraw, formExit}' \subseteq BOOLEAN
    BY <1>1, FormTypes, Zenon DEF FormInv
  <2> QED
    BY <1>1, <2>1, <2>2, FormTypes, FormAtEvent, Zenon DEF FormInv, Form!TypeOK
<1>3. FormLoop'
  BY <1>1, FormAtEvent DEF FormLoop
<1>4. ~(pwlen > 0)
  BY <1>1 DEF FormInv
<1> QED
  BY <1>1, <1>2, <1>3, <1>4 DEF FormInv

LEMMA FormGoesBack == ASSUME FormInv, Form!Back PROVE FormInv'
<1>1. /\ Form!Handles /\ where = "ACCOUNT_SETUP" /\ formExit' = formExit /\ formRedraw' = TRUE
      /\ formLocal' = formLocal /\ status' = status /\ agreed' = agreed
      /\ message' = message /\ formAction' = formAction /\ option' = option /\ focus' = focus
  BY Zenon DEF Form!Back, Form!OnForm, Form!Returns, Form!reportVars, Form!account_leave,
               Form!fieldVars
<1>2. \/ /\ Form!account_wipe /\ where' = "HOME" /\ editing' = FALSE /\ keyboard' = FALSE
         /\ confirm' = 0
      \/ /\ where' = where /\ formText' = formText /\ pwlen' = pwlen
         /\ keyboard = TRUE /\ keyboard' = FALSE /\ editing' = editing /\ confirm' = confirm
  BY Zenon DEF Form!Back, Form!account_leave, Form!fieldVars
<1>3. FormFields(formText', pwlen') /\ (pwlen' = 0 \/ (pwlen' = pwlen /\ where' = where
                                                       /\ editing' = editing))
  BY <1>2, FormWiped, FormTypes DEF FormInv
<1>4. FormFields(formText, pwlen)'
  BY <1>3 DEF FormFields
<1>5. Form!TypeOK'
  <2>1. where' \in {"HOME", "ACCOUNT_SETUP"} /\ confirm' \in 0 .. 2
        /\ formPc' \in {"event", "handled", "work", "served", "closing", "done"}
    <3>1. confirm \in 0 .. 2
      BY FormTypes DEF FormInv
    <3> QED
      BY <1>1, <1>2, <3>1, FormAtEvent
  <2>2. {editing, keyboard, formRedraw, formExit}' \subseteq BOOLEAN
    BY <1>1, <1>2, FormTypes, Zenon DEF FormInv
  <2> QED
    BY <1>1, <1>4, <2>1, <2>2, FormTypes, FormAtEvent, Zenon DEF FormInv, Form!TypeOK, FormFields
<1>6. FormLoop'
  BY <1>1, FormAtEvent DEF FormLoop
<1>7. where' = "ACCOUNT_SETUP" => FormConfirmed'
  BY <1>1, <1>2, FormAtEvent DEF FormConfirmed
<1>8. editing' = TRUE /\ confirm' = 0 => formLocal' # "COMPLETE"
  BY <1>1, <1>2 DEF FormInv
<1>9. status' \in Form!Uncertain => editing' = FALSE /\ formAction' \in {"NONE", "INSPECT", "RECHECK"}
  BY <1>1, <1>2, Zenon DEF FormInv
<1>10. keyboard' = FALSE
  BY <1>2
<1>11. formAction' = "NONE"
  BY <1>1, FormAtEvent
<1>12. pwlen' > 0 => where' = "ACCOUNT_SETUP" /\ editing' = TRUE
  BY <1>3 DEF FormInv
<1> QED
  BY <1>5, <1>6, <1>7, <1>8, <1>9, <1>10, <1>11, <1>12 DEF FormInv

LEMMA FormHoldsPower == ASSUME FormInv, Form!HoldPower PROVE FormInv'
<1>1. /\ Form!Handles /\ formExit' = TRUE /\ formRedraw' = FALSE
      /\ where' = where /\ message' = message /\ focus' = focus /\ editing' = editing
      /\ keyboard' = keyboard /\ confirm' = confirm /\ option' = option
      /\ formLocal' = formLocal /\ status' = status /\ formAction' = formAction
      /\ agreed' = agreed
  BY Zenon DEF Form!HoldPower, Form!Returns, Form!modeVars, Form!reportVars
<1>2. Form!account_wipe \/ (formText' = formText /\ pwlen' = pwlen)
  BY Zenon DEF Form!HoldPower, Form!fieldVars
<1>3. FormFields(formText', pwlen') /\ (pwlen' = 0 \/ pwlen' = pwlen)
  BY <1>2, FormWiped, FormTypes DEF FormInv
<1>4. FormFields(formText, pwlen)'
  BY <1>3 DEF FormFields
<1>5. Form!TypeOK'
  <2>1. formPc' \in {"event", "handled", "work", "served", "closing", "done"}
    BY <1>1, FormAtEvent
  <2>2. {editing, keyboard, formRedraw, formExit}' \subseteq BOOLEAN
    BY <1>1, FormTypes, Zenon DEF FormInv
  <2> QED
    BY <1>1, <1>4, <2>1, <2>2, FormTypes, FormAtEvent, Zenon DEF FormInv, Form!TypeOK, FormFields
<1>6. FormLoop'
  BY <1>1, FormAtEvent DEF FormLoop
<1>7. pwlen' > 0 => where' = "ACCOUNT_SETUP" /\ editing' = TRUE
  BY <1>1, <1>3 DEF FormInv
<1>8. where' = "ACCOUNT_SETUP" => FormConfirmed'
  BY <1>1, FormAtEvent DEF FormConfirmed
<1>9. status' \in Form!Uncertain => editing' = FALSE /\ formAction' \in {"NONE", "INSPECT", "RECHECK"}
  BY <1>1, Zenon DEF FormInv
<1> QED
  BY <1>1, <1>5, <1>6, <1>7, <1>8, <1>9, FormAtEvent DEF FormInv

LEMMA FormIgnores == ASSUME FormInv, Form!OtherEvent PROVE FormInv'
<1>1. /\ Form!Handles /\ formRedraw' = FALSE /\ formExit' = formExit
      /\ where' = where /\ message' = message /\ focus' = focus /\ editing' = editing
      /\ keyboard' = keyboard /\ confirm' = confirm /\ option' = option
      /\ formLocal' = formLocal /\ status' = status /\ formAction' = formAction
      /\ agreed' = agreed /\ formText' = formText /\ pwlen' = pwlen
  BY Zenon DEF Form!OtherEvent, Form!Returns, Form!modeVars, Form!reportVars, Form!screenVars,
               Form!fieldVars
<1>2. Form!TypeOK'
  <2>1. formPc' \in {"event", "handled", "work", "served", "closing", "done"}
    BY <1>1, FormAtEvent
  <2>2. {editing, keyboard, formRedraw, formExit}' \subseteq BOOLEAN
    BY <1>1, FormTypes, Zenon DEF FormInv
  <2> QED
    BY <1>1, <2>1, <2>2, FormAtEvent, Zenon DEF FormInv, Form!TypeOK
<1>3. FormLoop'
  BY <1>1, FormAtEvent DEF FormLoop
<1>4. where' = "ACCOUNT_SETUP" => FormConfirmed'
  BY <1>1, FormAtEvent DEF FormConfirmed
<1>5. status' \in Form!Uncertain => editing' = FALSE /\ formAction' \in {"NONE", "INSPECT", "RECHECK"}
  BY <1>1, Zenon DEF FormInv
<1> QED
  BY <1>1, <1>2, <1>3, <1>4, <1>5, FormAtEvent DEF FormInv

(* Editing: what stays, whatever is edited. *)
LEMMA FormEdits ==
    ASSUME FormInv, Form!Editing, formRedraw' = TRUE, FormFields(formText', pwlen'),
           focus' \in 0 .. Form!Continue, keyboard' \in BOOLEAN, confirm' \in 0 .. 2,
           message' \in Form!Messages, formAction' \in Form!Actions, agreed' \in 0 .. 2,
           keyboard' = TRUE => focus' \in Form!Fields,
           formAction' = "NONE" => agreed' = IF confirm' = 2 THEN 1 ELSE 0,
           formAction' = "REPLACE" => agreed' = 2,
           formAction' = "SUBMIT" => confirm = 0,
           confirm' = 0 => confirm = 0
    PROVE  FormInv'
<1>1. /\ Form!Handles /\ where = "ACCOUNT_SETUP" /\ editing = TRUE
      /\ formExit' = formExit /\ where' = where /\ formLocal' = formLocal /\ status' = status
      /\ editing' = editing /\ option' = option
  <2>1. /\ Form!Handles /\ where = "ACCOUNT_SETUP" /\ editing
        /\ formExit' = formExit /\ where' = where /\ formLocal' = formLocal /\ status' = status
        /\ editing' = editing /\ option' = option
    BY Zenon DEF Form!Editing, Form!OnForm, Form!reportVars
  <2> QED
    BY <2>1, FormAtEvent, Zenon
<1>2. FormFields(formText, pwlen)'
  BY DEF FormFields
<1>3. Form!TypeOK'
  <2>1. formPc' \in {"event", "handled", "work", "served", "closing", "done"}
    BY <1>1, FormAtEvent
  <2>2. {editing, keyboard, formRedraw, formExit}' \subseteq BOOLEAN
    BY <1>1, FormTypes, Zenon DEF FormInv
  <2> QED
    BY <1>1, <1>2, <2>1, <2>2, FormTypes, FormAtEvent, Zenon
       DEF FormInv, Form!TypeOK, FormFields
<1>4. FormLoop'
  BY <1>1, FormAtEvent DEF FormLoop
<1>5. status \notin Form!Uncertain
  BY <1>1 DEF FormInv
<1>6. confirm = 0 => formLocal # "COMPLETE"
  BY <1>1 DEF FormInv
<1>7. formAction' = "NONE" => FormConfirmed'
  BY DEF FormConfirmed
<1>8. status' \in Form!Uncertain => editing' = FALSE /\ formAction' \in {"NONE", "INSPECT", "RECHECK"}
  BY <1>1, <1>5, Zenon
<1> QED
  BY <1>1, <1>3, <1>4, <1>6, <1>7, <1>8 DEF FormInv

LEMMA FormMoves == ASSUME FormInv, Form!MoveFocus PROVE FormInv'
<1>1. /\ Form!Editing /\ formRedraw' = TRUE /\ ~keyboard /\ formText' = formText
      /\ pwlen' = pwlen /\ keyboard' = keyboard /\ confirm' = confirm /\ message' = message
      /\ formAction' = formAction /\ agreed' = agreed
      /\ \E step \in {1, Form!Continue} : focus' = (focus + step) % (Form!Continue + 1)
  BY Zenon DEF Form!MoveFocus, Form!Returns, Form!fieldVars
<1>2. focus' \in 0 .. Form!Continue
  <2>1. focus \in Nat /\ Form!Continue \in Nat
    BY FormConstants, FormNumbers, FormTypes DEF FormInv
  <2>2. PICK step \in Nat : focus' = (focus + step) % (Form!Continue + 1)
    BY <1>1, <2>1
  <2>3. \A a, b \in Nat : a % (b + 1) \in 0 .. b
    OBVIOUS
  <2>4. focus + step \in Nat
    BY <2>1
  <2> QED
    BY <2>1, <2>2, <2>3, <2>4
<1>3. Form!Handles /\ where = "ACCOUNT_SETUP"
  BY <1>1, Zenon DEF Form!Editing, Form!OnForm
<1>4. FormConfirmed /\ keyboard' # TRUE /\ formAction' = "NONE"
  BY <1>1, <1>3, FormAtEvent
<1> QED
  BY <1>1, <1>2, <1>4, FormEdits, FormTypes, Zenon DEF FormInv, FormFields, FormConfirmed

LEMMA FormOpensKeyboard == ASSUME FormInv, Form!OpenKeyboard PROVE FormInv'
<1>1. /\ Form!Editing /\ formRedraw' = TRUE /\ focus # Form!Continue /\ keyboard' = TRUE
      /\ formText' = formText /\ pwlen' = pwlen /\ confirm' = confirm /\ message' = message
      /\ formAction' = formAction /\ agreed' = agreed /\ focus' = focus
  BY Zenon DEF Form!OpenKeyboard, Form!Returns, Form!fieldVars
<1>2. Form!Handles /\ where = "ACCOUNT_SETUP"
  BY <1>1, Zenon DEF Form!Editing, Form!OnForm
<1>3. FormConfirmed /\ formAction' = "NONE"
  BY <1>1, <1>2, FormAtEvent
<1>4. focus' \in Form!Fields
  BY <1>1, FormNumbers, FormTypes, Zenon DEF FormInv
<1> QED
  BY <1>1, <1>3, <1>4, FormEdits, FormTypes, Zenon DEF FormInv, FormFields, FormConfirmed

LEMMA FormIsTouched == ASSUME FormInv, Form!TouchField PROVE FormInv'
<1>1. /\ Form!Editing /\ formRedraw' = TRUE /\ focus' \in Form!Fields /\ keyboard' = FALSE
      /\ formText' = formText /\ pwlen' = pwlen /\ confirm' = confirm /\ message' = message
      /\ formAction' = formAction /\ agreed' = agreed
  BY Zenon DEF Form!TouchField, Form!Returns, Form!fieldVars
<1>2. Form!Handles /\ where = "ACCOUNT_SETUP"
  BY <1>1, Zenon DEF Form!Editing, Form!OnForm
<1>3. FormConfirmed /\ formAction' = "NONE"
  BY <1>1, <1>2, FormAtEvent
<1>4. focus' \in 0 .. Form!Continue
  BY <1>1, FormNumbers, Zenon
<1> QED
  BY <1>1, <1>3, <1>4, FormEdits, FormTypes, Zenon DEF FormInv, FormFields, FormConfirmed

LEMMA FormIsTyped ==
    ASSUME FormInv, NEW by_touch \in BOOLEAN, Form!account_activate_key(by_touch)
    PROVE  FormInv'
<1>1. /\ Form!Editing /\ formRedraw' = TRUE /\ focus # Form!Continue /\ (keyboard \/ by_touch)
      /\ focus' = focus /\ confirm' = confirm /\ formAction' = formAction /\ agreed' = agreed
  BY Zenon DEF Form!account_activate_key, Form!Returns
<1>2. /\ keyboard' = FALSE \/ keyboard' = (keyboard /\ ~by_touch)
      /\ \/ message' = message \/ message' = "FULL" \/ message' = "INVALID_KEY"
      /\ \/ formText[focus] < FieldCapacity /\ Form!Edit(focus, formText[focus] + 1)
         \/ formText[focus] > 0 /\ Form!Edit(focus, formText[focus] - 1)
         \/ formText' = formText /\ pwlen' = pwlen
  BY Zenon DEF Form!account_activate_key, Form!fieldVars
<1>3. Form!Handles /\ where = "ACCOUNT_SETUP"
  BY <1>1, Zenon DEF Form!Editing, Form!OnForm
<1>4. FormConfirmed /\ formAction' = "NONE"
  BY <1>1, <1>3, FormAtEvent
<1>5. focus \in Form!Fields /\ FormFields(formText, pwlen)
  BY <1>1, FormNumbers, FormTypes, Zenon DEF FormInv
<1>6. FormFields(formText', pwlen')
  <2>1. formText[focus] \in 0 .. FieldCapacity
    BY <1>5 DEF FormFields
  <2>2. /\ formText[focus] < FieldCapacity => formText[focus] + 1 \in 0 .. FieldCapacity
        /\ formText[focus] > 0 => formText[focus] - 1 \in 0 .. FieldCapacity
    BY <2>1, FormConstants
  <2>3. CASE formText' = formText /\ pwlen' = pwlen
    BY <1>5, <2>3
  <2>4. CASE formText[focus] < FieldCapacity /\ Form!Edit(focus, formText[focus] + 1)
    BY <1>5, <2>2, <2>4, FormEdited
  <2>5. CASE formText[focus] > 0 /\ Form!Edit(focus, formText[focus] - 1)
    BY <1>5, <2>2, <2>5, FormEdited
  <2> QED
    BY <1>2, <2>3, <2>4, <2>5
<1>7. keyboard' \in BOOLEAN
  BY <1>2, FormTypes, Zenon DEF FormInv
<1>8. message' \in Form!Messages
  <2>1. message \in Form!Messages
    BY FormTypes, Zenon DEF FormInv
  <2>2. "FULL" \in Form!Messages /\ "INVALID_KEY" \in Form!Messages
    BY DEF Form!Messages
  <2> QED
    BY <1>2, <2>1, <2>2
<1> QED
  BY <1>1, <1>4, <1>5, <1>6, <1>7, <1>8, FormEdits, FormTypes, Zenon DEF FormInv, FormConfirmed

LEMMA FormIsSubmitted == ASSUME FormInv, Form!account_submit PROVE FormInv'
<1>1. /\ Form!Editing /\ formRedraw' = TRUE /\ keyboard' = FALSE /\ agreed' = agreed + 1
      /\ formText' = formText /\ pwlen' = pwlen /\ focus' = focus
  BY Zenon DEF Form!account_submit, Form!Returns, Form!fieldVars
<1>2. IF confirm = 1
      THEN confirm' = 2 /\ message' = "REVIEW" /\ formAction' = formAction
      ELSE /\ formAction' = IF confirm = 2 THEN "REPLACE" ELSE "SUBMIT"
           /\ message' = "WORKING" /\ confirm' = confirm
  BY Zenon DEF Form!account_submit
<1>3. Form!Handles /\ where = "ACCOUNT_SETUP"
  BY <1>1, Zenon DEF Form!Editing, Form!OnForm
<1>4. FormConfirmed /\ formAction = "NONE"
  BY <1>3, FormAtEvent
<1>5. confirm \in 0 .. 2
  BY FormTypes DEF FormInv
<1>6. /\ agreed' \in 0 .. 2 /\ confirm' \in 0 .. 2
      /\ formAction' = "NONE" => agreed' = IF confirm' = 2 THEN 1 ELSE 0
      /\ formAction' = "REPLACE" => agreed' = 2
      /\ formAction' = "SUBMIT" => confirm = 0
      /\ confirm' = 0 => confirm = 0
  BY <1>1, <1>2, <1>4, <1>5 DEF FormConfirmed
<1>7. message' \in Form!Messages /\ formAction' \in Form!Actions
  BY <1>2, <1>4 DEF Form!Messages, Form!Actions
<1> QED
  BY <1>1, <1>6, <1>7, FormEdits, FormTypes, Zenon DEF FormInv, FormFields

(* Choosing: what stays, whatever is chosen. *)
LEMMA FormChoices ==
    ASSUME FormInv, Form!Choosing
    PROVE  /\ Form!Handles /\ where = "ACCOUNT_SETUP" /\ editing = FALSE /\ formRedraw' = TRUE
           /\ formExit' = formExit /\ formLocal' = formLocal /\ status' = status
           /\ pwlen = 0 /\ keyboard = FALSE
<1>1. /\ Form!Handles /\ where = "ACCOUNT_SETUP" /\ ~editing /\ formRedraw' = TRUE
      /\ formExit' = formExit /\ formLocal' = formLocal /\ status' = status
  BY Zenon DEF Form!Choosing, Form!OnForm, Form!reportVars, Form!Returns
<1>2. editing \in BOOLEAN /\ keyboard \in BOOLEAN
  BY Zenon DEF FormInv, Form!TypeOK
<1>3. editing = FALSE
  BY <1>1, <1>2, Zenon
<1>4. keyboard = FALSE
  BY <1>2, <1>3 DEF FormInv
<1>5. pwlen \in 0 .. FieldCapacity
  BY FormTypes, FormNumbers DEF FormInv, FormFields
<1>6. pwlen = 0
  BY <1>3, <1>5 DEF FormInv
<1> QED
  BY <1>1, <1>3, <1>4, <1>6

LEMMA FormOptionMoves == ASSUME FormInv, Form!MoveOption PROVE FormInv'
<1>1. /\ Form!Choosing /\ option' = (option + 1) % Form!Count
      /\ where' = where /\ message' = message /\ formText' = formText /\ pwlen' = pwlen
      /\ focus' = focus /\ editing' = editing /\ keyboard' = keyboard /\ confirm' = confirm
      /\ formAction' = formAction /\ agreed' = agreed
  BY Zenon DEF Form!MoveOption, Form!fieldVars
<1>2. option' \in 0 .. 1
  <2>1. option \in 0 .. 1 /\ (Form!Count = 1 \/ Form!Count = 2)
    BY FormTypes DEF FormInv, Form!Count
  <2> QED
    BY <1>1, <2>1
<1>3. Form!TypeOK'
  <2>1. formPc' \in {"event", "handled", "work", "served", "closing", "done"}
    BY <1>1, FormChoices, FormAtEvent
  <2>2. {editing, keyboard, formRedraw, formExit}' \subseteq BOOLEAN
    BY <1>1, FormChoices, FormTypes, Zenon DEF FormInv
  <2> QED
    BY <1>1, <1>2, <2>1, <2>2, FormChoices, FormAtEvent, Zenon DEF FormInv, Form!TypeOK
<1>4. FormLoop'
  BY <1>1, FormChoices, FormAtEvent DEF FormLoop
<1>5. FormConfirmed'
  BY <1>1, FormChoices, FormAtEvent DEF FormConfirmed
<1>6. formAction' = "NONE" /\ editing' = FALSE /\ keyboard' = FALSE /\ ~(pwlen' > 0)
  BY <1>1, FormChoices, FormAtEvent
<1> QED
  BY <1>3, <1>4, <1>5, <1>6 DEF FormInv

LEMMA FormOptions ==
    ASSUME NEW k, k \in 0 .. Form!Count - 1
    PROVE  /\ k \in 0 .. 1
           /\ Form!account_options[k + 1] \in {"BACK", "RECHECK", "ACTIVATE", "CORRECT"}
           /\ Form!account_options[k + 1] \in {"ACTIVATE", "CORRECT"} =>
                  formLocal = "COMPLETE" /\ status \notin Form!Uncertain
<1>1. k \in 0 .. 1 /\ (formLocal = "ENABLED" => k = 0)
  BY DEF Form!Count
<1>2. k + 1 = 1 \/ k + 1 = 2
  BY <1>1
<1>3. CASE formLocal = "ENABLED"
  BY <1>1, <1>3 DEF Form!account_options
<1>4. CASE formLocal # "ENABLED" /\ formLocal # "COMPLETE"
  BY <1>1, <1>2, <1>4 DEF Form!account_options
<1>5. CASE formLocal = "COMPLETE"
  <2>1. CASE status \in {"PRECONDITION", "AUTH_REJECTED", "INFRASTRUCTURE"}
    BY <1>1, <1>2, <1>5, <2>1 DEF Form!account_options, Form!Uncertain
  <2>2. CASE status \notin {"PRECONDITION", "AUTH_REJECTED", "INFRASTRUCTURE"}
    BY <1>1, <1>2, <1>5, <2>2 DEF Form!account_options
  <2> QED
    BY <2>1, <2>2
<1> QED
  BY <1>1, <1>3, <1>4, <1>5

LEMMA FormOptionIsTaken == ASSUME FormInv, Form!ExecuteOption PROVE FormInv'
<1>1. Form!Choosing /\ option' \in 0 .. Form!Count - 1
  BY Zenon DEF Form!ExecuteOption
<1>2. /\ Form!Handles /\ where = "ACCOUNT_SETUP" /\ editing = FALSE /\ formRedraw' = TRUE
      /\ formExit' = formExit /\ formLocal' = formLocal /\ status' = status
      /\ pwlen = 0 /\ keyboard = FALSE
  BY <1>1, FormChoices
<1> DEFINE chosenOption == Form!account_options[option' + 1]
<1>3. /\ option' \in 0 .. 1 /\ chosenOption \in {"BACK", "RECHECK", "ACTIVATE", "CORRECT"}
      /\ chosenOption \in {"ACTIVATE", "CORRECT"} => formLocal = "COMPLETE" /\ status \notin Form!Uncertain
  BY <1>1, FormOptions
<1>4. (CASE chosenOption = "BACK" ->
              /\ Form!account_wipe /\ where' = "HOME"
              /\ focus' = focus /\ editing' = editing /\ keyboard' = keyboard
              /\ confirm' = confirm /\ message' = message /\ formAction' = formAction
              /\ agreed' = agreed
        [] chosenOption = "CORRECT" -> Form!BeginCorrection
        [] OTHER -> Form!Request(chosenOption))
  BY Zenon DEF Form!ExecuteOption
<1> HIDE DEF chosenOption
<1>5. {formRedraw, formExit}' \subseteq BOOLEAN
  BY <1>2, FormTypes, Zenon DEF FormInv
<1>6. formPc' \in {"event", "handled", "work", "served", "closing", "done"}
  BY <1>2, FormAtEvent
<1>7. FormLoop'
  <2>1. formPc' = "handled" /\ formRedraw' = TRUE
    BY <1>2, FormAtEvent
  <2> QED
    BY <2>1 DEF FormLoop
<1>8. FormFields(formText, pwlen)
  BY FormTypes, Zenon DEF FormInv
<1>9. CASE chosenOption = "BACK"
  <2>1. /\ Form!account_wipe /\ where' = "HOME" /\ focus' = focus /\ editing' = FALSE
        /\ keyboard' = FALSE /\ confirm' = confirm /\ message' = message
        /\ formAction' = "NONE" /\ agreed' = agreed
    BY <1>2, <1>4, <1>9, FormAtEvent
  <2>2. FormFields(formText, pwlen)' /\ pwlen' = 0
    BY <1>8, <2>1, FormWiped DEF FormFields
  <2>3. Form!TypeOK'
    <3>1. where' \in {"HOME", "ACCOUNT_SETUP"} /\ formAction' \in Form!Actions
      BY <2>1 DEF Form!Actions
    <3>2. {editing, keyboard, formRedraw, formExit}' \subseteq BOOLEAN
      BY <1>5, <2>1, Zenon
    <3> QED
      BY <1>2, <1>3, <1>6, <2>1, <2>2, <3>1, <3>2, FormTypes, FormAtEvent, Zenon
         DEF FormInv, Form!TypeOK, FormFields
  <2>4. ~(pwlen' > 0)
    BY <2>2
  <2> QED
    BY <1>7, <2>1, <2>3, <2>4 DEF FormInv
<1>10. CASE chosenOption = "CORRECT"
  <2>1. /\ formText' = [f \in Form!Fields |-> 0] /\ pwlen' = 0 /\ editing' = TRUE
        /\ keyboard' = FALSE /\ confirm' = 1 /\ focus' = 0 /\ agreed' = 0
        /\ where' = where /\ message' = message /\ formAction' = "NONE"
    BY <1>2, <1>4, <1>10, FormAtEvent DEF Form!BeginCorrection
  <2>2. FormFields(formText, pwlen)'
    BY <2>1, FormCleared DEF FormFields
  <2>3. Form!TypeOK'
    <3>1. where' \in {"HOME", "ACCOUNT_SETUP"} /\ formAction' \in Form!Actions
          /\ confirm' \in 0 .. 2 /\ focus' \in 0 .. Form!Continue /\ agreed' \in 0 .. 2
      BY <1>2, <2>1, FormNumbers, FormConstants DEF Form!Actions
    <3>2. {editing, keyboard, formRedraw, formExit}' \subseteq BOOLEAN
      BY <1>5, <2>1, Zenon
    <3> QED
      BY <1>2, <1>3, <1>6, <2>1, <2>2, <3>1, <3>2, FormTypes, FormAtEvent, Zenon
         DEF FormInv, Form!TypeOK, FormFields
  <2>4. FormConfirmed'
    BY <2>1 DEF FormConfirmed
  <2>5. ~(pwlen' > 0) /\ status' \notin Form!Uncertain
    BY <1>2, <1>3, <1>10, <2>1
  <2> QED
    BY <1>7, <2>1, <2>3, <2>4, <2>5 DEF FormInv
<1>11. CASE chosenOption \in {"RECHECK", "ACTIVATE"}
  <2>1. /\ formAction' = chosenOption /\ message' = "WORKING" /\ where' = where
        /\ formText' = formText /\ pwlen' = 0 /\ focus' = focus /\ editing' = FALSE
        /\ keyboard' = FALSE /\ confirm' = confirm /\ agreed' = agreed
    BY <1>2, <1>4, <1>11 DEF Form!Request, Form!fieldVars
  <2>2. FormFields(formText, pwlen)'
    BY <1>2, <1>8, <2>1 DEF FormFields
  <2>3. Form!TypeOK'
    <3>1. formAction' \in Form!Actions /\ message' \in Form!Messages
      BY <1>11, <2>1 DEF Form!Actions, Form!Messages
    <3>2. {editing, keyboard, formRedraw, formExit}' \subseteq BOOLEAN
      BY <1>5, <2>1, Zenon
    <3> QED
      BY <1>2, <1>3, <1>6, <2>1, <2>2, <3>1, <3>2, FormTypes, FormAtEvent, Zenon
         DEF FormInv, Form!TypeOK, FormFields
  <2>4. /\ formAction' # "NONE" /\ formAction' # "REPLACE" /\ formAction' # "SUBMIT"
        /\ status' \in Form!Uncertain => formAction' \in {"NONE", "INSPECT", "RECHECK"}
    BY <1>2, <1>3, <1>11, <2>1
  <2>5. ~(pwlen' > 0)
    BY <2>1
  <2> QED
    BY <1>7, <2>1, <2>3, <2>4, <2>5 DEF FormInv
<1> QED
  BY <1>3, <1>9, <1>10, <1>11

(* What a report of the controller can say. *)
FormReports ==
    [status : Form!Statuses, local : Form!Known \cup {"UNREADABLE"}, disk : Form!Known]

LEMMA FormReport ==
    ASSUME NEW s \in Form!Statuses, NEW l \in Form!Known \cup {"UNREADABLE"},
           NEW d \in Form!Known
    PROVE  Form!Report(s, l, d) \in FormReports
BY DEF Form!Report, FormReports

LEMMA FormActivations ==
    ASSUME NEW l \in Form!Known PROVE Form!Activation(l) \subseteq FormReports
<1>1. "COMPLETE" \in Form!Known /\ "ENABLED" \in Form!Known
  BY DEF Form!Known
<1>2. {"CORRUPT", "IDENTITY_FAILED", "IDENTITY_UNCERTAIN", "PRECONDITION", "AUTH_REJECTED",
       "INFRASTRUCTURE", "SAVE_FAILED", "ACTIVATION_FAILED", "ACTIVATED",
       "PROFILE_UNAVAILABLE", "ACTIVATION_UNCERTAIN"} \subseteq Form!Statuses
  BY DEF Form!Statuses, Form!Uncertain, Form!Failed
<1> QED
  BY <1>1, <1>2, FormReport DEF Form!Activation

LEMMA FormBootstraps ==
    ASSUME NEW l \in Form!Known PROVE Form!Bootstrap(l) \subseteq FormReports
<1>1. "COMPLETE" \in Form!Known /\ "PARTIAL" \in Form!Known
  BY DEF Form!Known
<1>2. {"INVALID_INPUT", "BOOTSTRAP_FAILED", "BOOTSTRAP_UNCERTAIN"} \subseteq Form!Statuses
  BY DEF Form!Statuses, Form!Uncertain, Form!Failed
<1>3. Form!Written(l) \subseteq Form!Known
  BY <1>1 DEF Form!Written
<1> QED
  BY <1>2, <1>3, FormReport, FormActivations DEF Form!Bootstrap

LEMMA FormReportsAre == ASSUME disk \in Form!Known PROVE Form!Reports \subseteq FormReports
<1>1. {"PRECONDITION", "CORRUPT", "ALREADY_ENABLED", "INCOMPLETE", "INVALID_INPUT"}
          \subseteq Form!Statuses
  BY DEF Form!Statuses
<1>2. Form!Setup(disk) \subseteq FormReports
  BY <1>1, FormReport, FormBootstraps DEF Form!Setup
<1>3. \A s \in {"PRECONDITION", "CORRUPT", "ALREADY_ENABLED", "INCOMPLETE", "INVALID_INPUT"} :
         {Form!Report(s, disk, disk)} \subseteq FormReports
  BY <1>1, FormReport
<1>4. {Form!Report("PRECONDITION", "UNREADABLE", disk)} \subseteq FormReports
  BY <1>1, FormReport
<1> QED
  BY <1>2, <1>3, <1>4, FormActivations DEF Form!Reports

LEMMA FormMessage ==
    ASSUME NEW s \in Form!Statuses, NEW l PROVE Form!MessageFor(s, l) \in Form!Messages
<1>1. {"UNCERTAIN", "FAILED", "ORPHAN", "PARTIAL", "COMPLETE", "NO_ACCOUNT"}
          \subseteq Form!Messages
  BY DEF Form!Messages, Form!Known
<1>2. s \in Form!Messages
  BY DEF Form!Messages
<1> QED
  BY <1>1, <1>2 DEF Form!MessageFor

LEMMA FormPrefilled ==
    ASSUME FormFields(formText, pwlen), NEW b \in BOOLEAN, Form!prefill_partial(b)
    PROVE  FormFields(formText', 0)
<1>1. formText \in [Form!Fields -> 0 .. FieldCapacity] /\ 0 \in 0 .. FieldCapacity
      /\ Form!Password \in Form!Fields
  BY FormConstants, FormNumbers DEF FormFields
<1>2. CASE b = TRUE
  <2>1. PICK n \in [Form!Prefilled -> 1 .. FieldCapacity] :
            formText' = [f \in Form!Fields |-> IF f = Form!Password THEN 0
                                               ELSE IF f \in Form!Prefilled THEN n[f]
                                               ELSE formText[f]]
    BY <1>2, Zenon DEF Form!prefill_partial
  <2>2. \A f \in Form!Prefilled : n[f] \in 0 .. FieldCapacity
    BY FormConstants
  <2> QED
    BY <1>1, <2>1, <2>2 DEF FormFields
<1>3. CASE b = FALSE
  <2>1. formText' = [formText EXCEPT ![Form!Password] = 0]
    BY <1>3, Zenon DEF Form!prefill_partial
  <2> QED
    BY <1>1, <2>1 DEF FormFields
<1> QED
  BY <1>2, <1>3

LEMMA FormIsServed == ASSUME FormInv, Form!Process PROVE FormInv'
<1>1. /\ formPc = "work" /\ formPc' = "served" /\ formAction' = "NONE" /\ formRedraw' = TRUE
      /\ agreed' = 0 /\ where' = where /\ formExit' = formExit /\ focus' = focus
      /\ drawn' = drawn
  BY Zenon DEF Form!Process
<1>2. PICK r \in Form!Reports :
          /\ Form!cn_ui_account_set_result(r.status, r.local)
          /\ disk' = r.disk /\ pwlen' = 0
          /\ \E b \in BOOLEAN : Form!prefill_partial(b)
  BY Zenon DEF Form!Process
<1>3. r.status \in Form!Statuses /\ r.local \in Form!Known \cup {"UNREADABLE"}
      /\ r.disk \in Form!Known
  <2>1. r \in FormReports
    BY FormReportsAre, FormTypes, Zenon DEF FormInv
  <2> QED
    BY <2>1 DEF FormReports
<1>4. /\ message' = Form!MessageFor(r.status, r.local)
      /\ keyboard' = FALSE /\ option' = 0 /\ status' = r.status
      /\ formLocal' = IF r.status \in {"ACTIVATED", "ALREADY_ENABLED", "PROFILE_UNAVAILABLE"}
                      THEN "ENABLED" ELSE r.local
  BY <1>2, Zenon DEF Form!cn_ui_account_set_result
<1> DEFINE correcting == r.status = "INVALID_INPUT" /\ confirm # 0 /\ formLocal' = "COMPLETE"
<1>5. /\ confirm' = IF correcting THEN 1 ELSE 0
      /\ editing' = \/ formLocal' \in {"NO_ACCOUNT", "PARTIAL"} /\ r.status \notin Form!Uncertain
                    \/ correcting
  BY <1>2, Zenon DEF Form!cn_ui_account_set_result
<1>6. FormFields(formText, pwlen)'
  <2>1. FormFields(formText, pwlen)
    BY FormTypes, Zenon DEF FormInv
  <2> QED
    BY <1>2, <2>1, FormPrefilled DEF FormFields
<1>7. editing' \in BOOLEAN
  <2> HIDE DEF correcting
  <2>1. editing' = \/ formLocal' \in {"NO_ACCOUNT", "PARTIAL"} /\ r.status \notin Form!Uncertain
                   \/ correcting
    BY <1>5
  <2> QED
    BY <2>1, Zenon
<1>8. Form!TypeOK'
  <2>1. message' \in Form!Messages /\ formAction' \in Form!Actions
        /\ formPc' \in {"event", "handled", "work", "served", "closing", "done"}
        /\ formLocal' \in Form!Known \cup {"UNKNOWN", "UNREADABLE"}
    BY <1>1, <1>3, <1>4, FormMessage DEF Form!Actions, Form!Known
  <2>2. {editing, keyboard, formRedraw, formExit}' \subseteq BOOLEAN
    BY <1>1, <1>4, <1>7, FormTypes, Zenon DEF FormInv
  <2>3. option' \in 0 .. 1 /\ confirm' \in 0 .. 2 /\ agreed' \in 0 .. 2
    BY <1>1, <1>4, <1>5
  <2> QED
    BY <1>1, <1>2, <1>3, <1>4, <1>6, <2>1, <2>2, <2>3, FormTypes, Zenon
       DEF FormInv, Form!TypeOK, FormFields
<1>9. FormLoop'
  <2>1. formPc' = "served" /\ formRedraw' = TRUE /\ formAction' = "NONE"
    BY <1>1
  <2> QED
    BY <2>1 DEF FormLoop
<1>10. FormConfirmed'
  BY <1>1, <1>5 DEF FormConfirmed
<1>11. ~(pwlen' > 0)
  BY <1>2
<1>12. editing' = TRUE /\ confirm' = 0 => formLocal' # "COMPLETE"
  BY <1>5, <1>7
<1>13. status' \in Form!Uncertain => editing' = FALSE
  <2>1. "INVALID_INPUT" \notin Form!Uncertain
    BY DEF Form!Uncertain
  <2> QED
    BY <1>4, <1>5, <1>7, <2>1, Zenon
<1> QED
  BY <1>1, <1>4, <1>8, <1>9, <1>10, <1>11, <1>12, <1>13 DEF FormInv

LEMMA FormIsDrawn ==
    ASSUME FormInv, Form!PollFails \/ Form!DrawRequest \/ Form!Draw
    PROVE  FormInv'
<1>1. /\ where' = where /\ message' = message /\ formExit' = formExit
      /\ formText' = formText /\ pwlen' = pwlen /\ focus' = focus /\ editing' = editing
      /\ keyboard' = keyboard /\ confirm' = confirm /\ option' = option
      /\ formLocal' = formLocal /\ status' = status /\ formRedraw' = formRedraw
      /\ formAction' = formAction /\ disk' = disk /\ agreed' = agreed
  BY Zenon DEF Form!PollFails, Form!DrawRequest, Form!Draw, Form!Rest, Form!screenVars, Form!fieldVars,
               Form!modeVars, Form!reportVars
<1>2. editing \in BOOLEAN /\ formExit \in BOOLEAN /\ formRedraw \in BOOLEAN
  BY Zenon DEF FormInv, Form!TypeOK
<1>3. Form!render => drawn' = IF where = "ACCOUNT_SETUP" /\ editing = TRUE THEN formText ELSE drawn
  BY <1>2, Zenon DEF Form!render
<1>4. \/ formPc' = "closing" /\ drawn' = drawn
      \/ formPc' \in {"work", "closing"} /\ Form!render
      \/ /\ formPc \in {"handled", "served"} /\ formAction = "NONE" /\ formRedraw = TRUE
         /\ Form!render
         /\ formPc' = "closing" \/ (formPc' = "event" /\ formExit = FALSE)
      \/ /\ formPc = "handled" /\ formAction = "NONE" /\ formRedraw = FALSE /\ drawn' = drawn
         /\ formPc' = "closing" \/ (formPc' = "event" /\ formExit = FALSE)
  <2>0. CASE Form!PollFails
    BY <2>0, Zenon DEF Form!PollFails
  <2>1. CASE Form!DrawRequest
    BY <2>1, Zenon DEF Form!DrawRequest
  <2>2. CASE Form!Draw
    <3>1. /\ (formPc = "handled" /\ formAction = "NONE") \/ formPc = "served"
          /\ IF formRedraw
             THEN Form!render /\ formPc' \in {IF formExit THEN "closing" ELSE "event", "closing"}
             ELSE formPc' = (IF formExit THEN "closing" ELSE "event") /\ drawn' = drawn
      BY <2>2, Zenon DEF Form!Draw
    <3>2. formPc = "served" => formRedraw = TRUE /\ formAction = "NONE"
      BY DEF FormInv, FormLoop
    <3> QED
      BY <1>2, <3>1, <3>2
  <2> QED
    BY <2>0, <2>1, <2>2
<1>5. drawn' = drawn \/ drawn' = formText
  BY <1>3, <1>4
<1>6. Form!TypeOK'
  <2>1. formPc' \in {"event", "handled", "work", "served", "closing", "done"}
    BY <1>4
  <2>2. {editing, keyboard, formRedraw, formExit}' \subseteq BOOLEAN
    BY <1>1, FormTypes, Zenon DEF FormInv
  <2>3. drawn' \in [Form!Fields -> 0 .. FieldCapacity]
    BY <1>5, FormTypes, Zenon DEF FormInv, FormFields
  <2> QED
    BY <1>1, <2>1, <2>2, <2>3, Zenon DEF FormInv, Form!TypeOK
<1>7. FormLoop'
  <2>1. formPc' = "event" => formAction' = "NONE" /\ formExit' = FALSE
    BY <1>1, <1>4
  <2>2. formPc' # "served" /\ formPc' # "handled"
    BY <1>4
  <2>3. formPc' = "event" /\ where' = "ACCOUNT_SETUP" /\ editing' = TRUE => drawn' = formText'
    <3>1. formPc = "handled" /\ formRedraw = FALSE /\ where = "ACCOUNT_SETUP"
          /\ editing = TRUE /\ formExit = FALSE => drawn = formText
      BY DEF FormInv, FormLoop
    <3> QED
      BY <1>1, <1>3, <1>4, <3>1
  <2> QED
    BY <2>1, <2>2, <2>3 DEF FormLoop
<1>8. status' \in Form!Uncertain => editing' = FALSE /\ formAction' \in {"NONE", "INSPECT", "RECHECK"}
  BY <1>1, Zenon DEF FormInv
<1>9. FormConfirmed' <=> FormConfirmed
  BY <1>1 DEF FormConfirmed
<1> QED
  BY <1>1, <1>6, <1>7, <1>8, <1>9 DEF FormInv

LEMMA FormIsFreed == ASSUME FormInv, Form!cn_ui_free PROVE FormInv'
<1>1. /\ where' = where /\ message' = message /\ formExit' = formExit
      /\ focus' = focus /\ editing' = editing /\ keyboard' = keyboard
      /\ confirm' = confirm /\ option' = option /\ formLocal' = formLocal
      /\ status' = status /\ formRedraw' = formRedraw /\ formAction' = formAction
      /\ disk' = disk /\ agreed' = agreed /\ drawn' = drawn
      /\ formPc' = "done" /\ Form!account_wipe
  BY Zenon DEF Form!cn_ui_free, Form!screenVars, Form!modeVars, Form!reportVars
<1>2. FormFields(formText', pwlen') /\ pwlen' = 0
  BY <1>1, FormWiped, FormTypes DEF FormInv, Form!account_wipe
<1>3. FormFields(formText, pwlen)'
  BY <1>2 DEF FormFields
<1>4. Form!TypeOK'
  BY <1>1, <1>3, FormTypes, Zenon DEF FormInv, Form!TypeOK, FormFields
<1>5. FormLoop'
  BY <1>1 DEF FormLoop
<1>6. FormConfirmed' <=> FormConfirmed
  BY <1>1 DEF FormConfirmed
<1>7. status' \in Form!Uncertain => editing' = FALSE /\ formAction' \in {"NONE", "INSPECT", "RECHECK"}
  BY <1>1, Zenon DEF FormInv
<1> QED
  BY <1>1, <1>2, <1>4, <1>5, <1>6, <1>7 DEF FormInv

LEMMA FormStepKeeps == ASSUME FormInv, Form!Next PROVE FormInv'
<1>1. \/ Form!EnterForm \/ Form!Back \/ Form!HoldPower \/ Form!OtherEvent
      \/ Form!MoveFocus \/ Form!OpenKeyboard \/ Form!TouchField \/ Form!account_submit
      \/ Form!account_activate_key(TRUE) \/ Form!account_activate_key(FALSE)
      \/ Form!MoveOption \/ Form!ExecuteOption
      \/ Form!Process \/ Form!PollFails \/ Form!DrawRequest \/ Form!Draw
      \/ Form!cn_ui_free
  BY Zenon DEF Form!Next, Form!cn_ui_handle
<1> QED
  BY <1>1, FormEnters, FormGoesBack, FormHoldsPower, FormIgnores, FormMoves,
     FormOpensKeyboard, FormIsTouched, FormIsSubmitted, FormIsTyped, FormOptionMoves,
     FormOptionIsTaken, FormIsServed, FormIsDrawn, FormIsFreed, Zenon

LEMMA FormStaysOver == ASSUME FormInv, FormOver, Form!Next PROVE FormOver'
<1>1. CASE Form!HoldPower
  <2>1. where # "ACCOUNT_SETUP" => pwlen = 0
    <3>1. FormFields(formText, pwlen)
      BY FormTypes, Zenon DEF FormInv
    <3>2. pwlen \in 0 .. FieldCapacity
      BY <3>1, FormNumbers DEF FormFields
    <3>3. ~(pwlen > 0) \/ where = "ACCOUNT_SETUP"
      BY Zenon DEF FormInv
    <3> QED
      BY <3>2, <3>3
  <2>2. IF where = "ACCOUNT_SETUP" THEN Form!account_wipe ELSE pwlen' = pwlen
    BY <1>1, Zenon DEF Form!HoldPower, Form!fieldVars
  <2> QED
    BY <2>1, <2>2 DEF FormOver, Form!account_wipe
<1>2. CASE Form!cn_ui_handle /\ ~Form!HoldPower
  <2>1. Form!Handles /\ formExit' = formExit
    BY <1>2, Zenon
    DEF Form!cn_ui_handle, Form!EnterForm, Form!Back, Form!OtherEvent, Form!MoveFocus,
        Form!OpenKeyboard, Form!TouchField, Form!account_submit,
        Form!account_activate_key, Form!MoveOption, Form!ExecuteOption, Form!Editing,
        Form!Choosing, Form!OnForm, Form!screenVars
  <2>2. formPc' = "handled" /\ formExit' = FALSE
    BY <2>1, FormAtEvent
  <2> QED
    BY <2>2 DEF FormOver
<1>3. CASE Form!Process
  BY <1>3, Zenon DEF Form!Process, FormOver
<1>4. CASE Form!PollFails \/ Form!DrawRequest \/ Form!Draw
  <2>1. formExit' = formExit /\ pwlen' = pwlen
    BY <1>4, Zenon DEF Form!PollFails, Form!DrawRequest, Form!Draw, Form!Rest,
                       Form!screenVars, Form!fieldVars
  <2>2. formPc' \in {"work", "closing", "event"}
    BY <1>4 DEF Form!PollFails, Form!DrawRequest, Form!Draw
  <2> QED
    BY <2>1, <2>2 DEF FormOver
<1>5. CASE Form!cn_ui_free
  BY <1>5, Zenon DEF Form!cn_ui_free, Form!account_wipe, FormOver
<1> QED
  BY <1>1, <1>2, <1>3, <1>4, <1>5, Zenon DEF Form!Next

LEMMA FormStutters ==
    ASSUME FormInv, FormOver, UNCHANGED formVars
    PROVE  FormInv' /\ FormOver'
<1>1. /\ where' = where /\ message' = message /\ formExit' = formExit
      /\ formText' = formText /\ pwlen' = pwlen /\ focus' = focus /\ editing' = editing
      /\ keyboard' = keyboard /\ confirm' = confirm /\ option' = option
      /\ formLocal' = formLocal /\ status' = status /\ formRedraw' = formRedraw
      /\ formAction' = formAction /\ disk' = disk /\ agreed' = agreed /\ drawn' = drawn
      /\ formPc' = formPc
  BY Zenon DEF formVars
<1>2. Form!TypeOK'
  BY <1>1, Zenon DEF FormInv, Form!TypeOK
<1> QED
  BY <1>1, <1>2 DEF FormInv, FormLoop, FormConfirmed, FormOver

-----------------------------------------------------------------------------
(* The field of the form and its keyboard.                                  *)

LEMMA Least ==
    ASSUME NEW S \in SUBSET Nat, S # {}
    PROVE  \E x \in S : \A y \in S : x <= y
<1>1. PICK x \in S : \A y \in S : ~(<<y, x>> \in OpToRel(<, Nat))
  BY NatLessThanWellFounded, WFMin, Zenon
<1>2. ASSUME NEW y \in S PROVE x <= y
  <2>1. <<y, x>> \in Nat \X Nat
    OBVIOUS
  <2>2. ~(y < x)
    BY <1>1, <2>1 DEF OpToRel
  <2> QED
    BY <2>2
<1> QED
  BY <1>2

LEMMA Greatest ==
    ASSUME NEW n \in Nat, NEW S \in SUBSET (0 .. n), S # {}
    PROVE  \E x \in S : \A y \in S : x >= y
<1> DEFINE T == {x \in 0 .. n : n - x \in S}
<1>1. T \in SUBSET Nat /\ T # {}
  <2>1. PICK y \in S : TRUE
    OBVIOUS
  <2>2. n - y \in 0 .. n /\ n - (n - y) = y
    BY <2>1
  <2>3. n - y \in T
    BY <2>1, <2>2
  <2>4. T \subseteq Nat
    BY SMT
  <2> HIDE DEF T
  <2> QED
    BY <2>3, <2>4
<1>2. PICK x \in T : \A y \in T : x <= y
  BY <1>1, Least
<1>3. ASSUME NEW y \in S PROVE n - x >= y
  <2>1. n - y \in 0 .. n /\ n - (n - y) = y
    OBVIOUS
  <2>2. x <= n - y
    BY <1>2, <2>1
  <2> QED
    BY <2>2
<1> QED
  BY <1>2, <1>3

LEMMA JoinIs ==
    ASSUME NEW S, NEW a \in Seq(S), NEW b \in Seq(S)
    PROVE  a \o b \in Seq(S) /\ Len(a \o b) = Len(a) + Len(b)
OBVIOUS

LEMMA InputMin ==
    ASSUME NEW S \in SUBSET Nat, S # {}
    PROVE  Input!Min(S) \in S /\ \A y \in S : Input!Min(S) <= y
<1>1. \E x \in S : \A y \in S : x <= y
  BY Least
<1>2. Input!Min(S) = CHOOSE x \in S : \A y \in S : x <= y
  BY Zenon DEF Input!Min
<1> QED
  BY <1>1, <1>2

LEMMA InputMax ==
    ASSUME NEW n \in Nat, NEW S \in SUBSET (0 .. n), S # {}
    PROVE  Input!Max(S) \in S /\ \A y \in S : Input!Max(S) >= y
<1>1. \E x \in S : \A y \in S : x >= y
  BY Greatest
<1>2. Input!Max(S) = CHOOSE x \in S : \A y \in S : x >= y
  BY Zenon DEF Input!Max
<1> QED
  BY <1>1, <1>2

LEMMA InputConstants ==
    /\ BufferCapacity \in Nat \ {0} /\ CharWidths \subseteq Nat \ {0}
    /\ Stops \in Nat \ {0} /\ Available \in Nat
BY InputAssumption
   DEF InputAssumption, Input!CapacityAssumption, Input!WidthsAssumption, Input!StopsAssumption

-----------------------------------------------------------------------------
(* The pixels of a value: PrefixSums is what its recursion says it is.        *)

(* f holds the sums of the first m characters. *)
SumsOf(ws, m, f) ==
    /\ f \in [0 .. m -> Nat] /\ f[0] = 0
    /\ \A n \in 1 .. m : f[n] = f[n - 1] + ws[n]

LEMMA SumsExtend ==
    ASSUME NEW ws \in Seq(Nat), NEW m \in Nat, m < Len(ws), NEW f, SumsOf(ws, m, f)
    PROVE  \E g : SumsOf(ws, m + 1, g)
<1> DEFINE g == [n \in 0 .. m + 1 |-> IF n = m + 1 THEN f[m] + ws[m + 1] ELSE f[n]]
<1>1. m + 1 \in 1 .. Len(ws) /\ ws[m + 1] \in Nat
  <2>1. m + 1 \in 1 .. Len(ws)
    OBVIOUS
  <2> QED
    BY <2>1
<1>2. f \in [0 .. m -> Nat] /\ m \in 0 .. m /\ f[m] \in Nat
  BY DEF SumsOf
<1>3. \A n \in 0 .. m + 1 : n # m + 1 => n \in 0 .. m
  OBVIOUS
<1>4. g \in [0 .. m + 1 -> Nat]
  BY <1>1, <1>2, <1>3
<1>5. g[0] = 0
  BY DEF SumsOf
<1>6. ASSUME NEW n \in 1 .. m + 1 PROVE g[n] = g[n - 1] + ws[n]
  <2>1. n - 1 \in 0 .. m /\ n - 1 # m + 1 /\ n - 1 \in 0 .. m + 1 /\ n \in 0 .. m + 1
    OBVIOUS
  <2>2. g[n - 1] = f[n - 1]
    BY <2>1
  <2>3. CASE n = m + 1
    <3>1. n - 1 = m
      BY <2>3
    <3> QED
      BY <2>1, <2>2, <2>3, <3>1
  <2>4. CASE n # m + 1
    <3>1. n \in 1 .. m
      BY <2>4
    <3>2. g[n] = f[n] /\ f[n] = f[n - 1] + ws[n]
      BY <2>1, <2>4, <3>1 DEF SumsOf
    <3> QED
      BY <2>2, <3>2
  <2> QED
    BY <2>3, <2>4
<1> HIDE DEF g
<1>7. SumsOf(ws, m + 1, g)
  BY <1>4, <1>5, <1>6 DEF SumsOf
<1> QED
  BY <1>7

LEMMA SumsExist ==
    ASSUME NEW ws \in Seq(Nat), NEW m \in 0 .. Len(ws)
    PROVE  \E f : SumsOf(ws, m, f)
<1> DEFINE Bad == {n \in Nat : n <= Len(ws) /\ ~ \E f : SumsOf(ws, n, f)}
<1> SUFFICES ASSUME Bad # {} PROVE FALSE
  OBVIOUS
<1>1. PICK n \in Bad : \A k \in Bad : n <= k
  BY Least
<1>2. n # 0
  <2> DEFINE z == [k \in 0 .. 0 |-> 0]
  <2>1. SumsOf(ws, 0, z)
    BY DEF SumsOf
  <2> QED
    BY <1>1, <2>1, Zenon
<1>3. n \in Nat /\ n - 1 \in Nat /\ (n - 1) + 1 = n /\ ~(n <= n - 1) /\ n - 1 < Len(ws)
      /\ n - 1 <= Len(ws)
  BY <1>1, <1>2
<1>4. PICK f : SumsOf(ws, n - 1, f)
  BY <1>1, <1>3
<1>5. \E g : SumsOf(ws, n, g)
  BY <1>3, <1>4, SumsExtend
<1> QED
  BY <1>1, <1>5

LEMMA PrefixSumsAre ==
    ASSUME NEW ws \in Seq(Nat \ {0})
    PROVE  SumsOf(ws, Len(ws), Input!PrefixSums(ws))
<1> DEFINE s == Input!PrefixSums(ws)
<1> SUFFICES ASSUME NEW N, N = Len(ws) PROVE SumsOf(ws, N, s)
  OBVIOUS
<1>0. N \in Nat /\ ws \in Seq(Nat)
  OBVIOUS
<1>1. PICK f : SumsOf(ws, N, f)
  BY <1>0, SumsExist
<1>2. f = [n \in 0 .. N |-> IF n = 0 THEN 0 ELSE f[n - 1] + ws[n]]
  <2>1. \A n \in 0 .. N : f[n] = IF n = 0 THEN 0 ELSE f[n - 1] + ws[n]
    BY <1>1, <1>0 DEF SumsOf
  <2>2. f = [n \in 0 .. N |-> f[n]]
    BY <1>1 DEF SumsOf
  <2> QED
    BY <2>1, <2>2
<1>3. s = [n \in 0 .. N |-> IF n = 0 THEN 0 ELSE s[n - 1] + ws[n]]
  <2>1. \E g : g = [n \in 0 .. N |-> IF n = 0 THEN 0 ELSE g[n - 1] + ws[n]]
    BY <1>2, Zenon
  <2> QED
    BY <2>1, Zenon DEF Input!PrefixSums
<1> HIDE DEF s
<1>4. s[0] = 0 /\ \A n \in 1 .. N : s[n] = s[n - 1] + ws[n]
  <2>1. 0 \in 0 .. N /\ \A n \in 1 .. N : n \in 0 .. N /\ n # 0
    BY <1>0
  <2> QED
    BY <1>3, <2>1, Zenon
<1>5. \A n \in 0 .. N : s[n] \in Nat
  <2> DEFINE Bad == {n \in Nat : n <= N /\ s[n] \notin Nat}
  <2> SUFFICES ASSUME Bad # {} PROVE FALSE
    OBVIOUS
  <2>1. PICK n \in Bad : \A k \in Bad : n <= k
    BY Least
  <2>2. n # 0
    BY <1>4, <2>1
  <2>3. n \in 1 .. N /\ n - 1 \in Nat /\ ~(n <= n - 1) /\ n - 1 <= N
    BY <2>1, <2>2
  <2>4. s[n - 1] \in Nat /\ ws[n] \in Nat
    BY <2>1, <2>3
  <2> QED
    BY <1>4, <2>1, <2>3, <2>4
<1>6. s \in [0 .. N -> Nat]
  BY <1>3, <1>5, Zenon
<1> QED
  BY <1>4, <1>6 DEF SumsOf

(* More characters are more pixels. *)
LEMMA SumsGrow ==
    ASSUME NEW ws \in Seq(Nat \ {0}), NEW f, SumsOf(ws, Len(ws), f),
           NEW m \in 0 .. Len(ws), NEW n \in 0 .. Len(ws), m < n
    PROVE  f[m] < f[n]
<1> DEFINE Bad == {k \in Nat : m < k /\ k <= Len(ws) /\ ~(f[m] < f[k])}
<1> SUFFICES ASSUME Bad # {} PROVE FALSE
  OBVIOUS
<1>1. PICK k \in Bad : \A j \in Bad : k <= j
  BY Least
<1>2. k \in 1 .. Len(ws) /\ k - 1 \in Nat /\ ~(k <= k - 1) /\ k - 1 <= Len(ws)
      /\ k - 1 \in 0 .. Len(ws) /\ k - 1 >= m
  BY <1>1
<1>3. f[k] = f[k - 1] + ws[k] /\ ws[k] \in Nat \ {0} /\ f[k - 1] \in Nat /\ f[m] \in Nat
  <2>1. f \in [0 .. Len(ws) -> Nat]
    BY DEF SumsOf
  <2>2. f[k] = f[k - 1] + ws[k]
    BY <1>2 DEF SumsOf
  <2>3. ws[k] \in Nat \ {0}
    BY <1>2
  <2> QED
    BY <1>2, <2>1, <2>2, <2>3
<1>4. f[m] < f[k - 1] \/ m = k - 1
  BY <1>1, <1>2
<1> QED
  BY <1>1, <1>3, <1>4

-----------------------------------------------------------------------------
(* The window over the value.                                               *)

InputField(f) ==
    /\ f \in [value : Seq(CharWidths), cursor : Nat, cursor_enabled : BOOLEAN]
    /\ Len(f.value) < BufferCapacity /\ f.cursor <= Len(f.value)
    /\ ~f.cursor_enabled => f.cursor = Len(f.value)

LEMMA FieldHas ==
    ASSUME NEW f, InputField(f)
    PROVE  /\ f.value \in Seq(Nat \ {0}) /\ f.value \in Seq(CharWidths)
           /\ Len(f.value) \in Nat
           /\ f.cursor \in 0 .. Len(f.value) /\ f.cursor_enabled \in BOOLEAN
           /\ Input!Length(f) = Len(f.value)
<1>1. CharWidths \subseteq Nat \ {0}
  BY InputConstants
<1>2. f.value \in Seq(CharWidths) /\ f.cursor \in Nat /\ f.cursor_enabled \in BOOLEAN
  BY DEF InputField
<1>3. Len(f.value) \in Nat
  BY <1>2
<1>4. f.value \in Seq(Nat \ {0})
  BY <1>1, <1>2, SeqMonotonic, Zenon
<1> QED
  BY <1>2, <1>3, <1>4 DEF InputField, Input!Length

LEMMA PixelsAre ==
    ASSUME NEW f, InputField(f)
    PROVE  \E g : /\ SumsOf(f.value, Len(f.value), g)
                  /\ \A m, n : Input!Pixels(f, m, n) = g[n] - g[m]
<1>1. SumsOf(f.value, Len(f.value), Input!PrefixSums(f.value))
  BY FieldHas, PrefixSumsAre
<1>2. \A m, n : Input!Pixels(f, m, n)
                = Input!PrefixSums(f.value)[n] - Input!PrefixSums(f.value)[m]
  BY Zenon DEF Input!Pixels
<1> QED
  BY <1>1, <1>2

LEMMA PixelsLemma ==
    ASSUME NEW f, InputField(f)
    PROVE  \A m, n \in 0 .. Len(f.value) :
              /\ Input!Pixels(f, m, n) \in Int
              /\ m = n => Input!Pixels(f, m, n) = 0
              /\ m < n => Input!Pixels(f, m, n) > 0
              /\ \A k \in 0 .. Len(f.value) :
                    Input!Pixels(f, k, n) - Input!Pixels(f, k, m) = Input!Pixels(f, m, n)
<1>1. PICK g : /\ SumsOf(f.value, Len(f.value), g)
               /\ \A m, n : Input!Pixels(f, m, n) = g[n] - g[m]
  BY PixelsAre
<1>2. \A m \in 0 .. Len(f.value) : g[m] \in Nat
  BY <1>1, FieldHas DEF SumsOf
<1>3. \A m, n \in 0 .. Len(f.value) : m < n => g[m] < g[n]
  BY <1>1, FieldHas, SumsGrow
<1> QED
  BY <1>1, <1>2, <1>3

LEMMA FarthestStartIs ==
    ASSUME NEW f, InputField(f), NEW end \in 0 .. Len(f.value), NEW room \in Nat,
           NEW from \in 0 .. end,
           Input!Pixels(f, from, end) <= room, end - from <= Stops - 1
    PROVE  LET x == Input!FarthestStart(f, end, room, from)
           IN  /\ x \in 0 .. from
               /\ Input!Pixels(f, x, end) <= room /\ end - x <= Stops - 1
               /\ \A s \in 0 .. from :
                     Input!Pixels(f, s, end) <= room /\ end - s <= Stops - 1 => x <= s
<1> DEFINE S == {s \in 0 .. from :
                    Input!Pixels(f, s, end) <= room /\ end - s <= Stops - 1} \cup {from}
           x == Input!FarthestStart(f, end, room, from)
<1>1. x = Input!Min(S)
  BY Zenon DEF Input!FarthestStart
<1>2. from \in 0 .. from /\ from \in S /\ 0 .. from \subseteq Nat
  OBVIOUS
<1>3. \A s : s \in S <=> /\ s \in 0 .. from
                         /\ Input!Pixels(f, s, end) <= room /\ end - s <= Stops - 1
  BY <1>2
<1> HIDE DEF S, x
<1>4. S \in SUBSET Nat /\ S # {}
  BY <1>2, <1>3
<1>5. Input!Min(S) \in S /\ \A y \in S : Input!Min(S) <= y
  BY <1>4, InputMin
<1>6. x \in S /\ \A y \in S : x <= y
  BY <1>1, <1>5
<1>7. x \in 0 .. from /\ Input!Pixels(f, x, end) <= room /\ end - x <= Stops - 1
  BY <1>3, <1>6
<1>8. \A s \in 0 .. from :
         Input!Pixels(f, s, end) <= room /\ end - s <= Stops - 1 => x <= s
  BY <1>3, <1>6
<1> QED
  BY <1>7, <1>8, Zenon DEF x

LEMMA TwoThirds == ASSUME NEW n \in Nat PROVE (n * 2) \div 3 \in Nat /\ (n * 2) \div 3 <= n
OBVIOUS

LEMMA WindowIs ==
    ASSUME NEW f, InputField(f)
    PROVE  LET w == Input!value_window(f)
           IN  /\ w.start \in 0 .. f.cursor /\ w.end \in f.cursor .. Len(f.value)
               /\ w.end - w.start <= Stops - 1
               /\ Input!Pixels(f, w.start, w.end) <= Available
               /\ \A s \in 0 .. w.start :
                     /\ Input!Pixels(f, s, w.end) <= Available
                     /\ w.end - s <= Stops - 1
                     => w.start <= s
<1> DEFINE start == Input!FarthestStart(f, f.cursor, (Available * 2) \div 3, f.cursor)
           E == {e \in f.cursor .. Len(f.value) :
                    Input!Pixels(f, start, e) <= Available /\ e - start <= Stops - 1}
           end == Input!Max(E)
           first == Input!FarthestStart(f, end, Available, start)
<1>1. f.cursor \in 0 .. Len(f.value) /\ Len(f.value) \in Nat
      /\ Available \in Nat /\ Stops \in Nat \ {0}
  BY FieldHas, InputConstants
<1>2. (Available * 2) \div 3 \in Nat /\ (Available * 2) \div 3 <= Available
  BY <1>1, TwoThirds
<1>3. Input!value_window(f) = [start |-> first, end |-> end]
  BY FieldHas, Zenon DEF Input!value_window
<1>4. /\ start \in 0 .. f.cursor
      /\ Input!Pixels(f, start, f.cursor) <= (Available * 2) \div 3
      /\ f.cursor - start <= Stops - 1
  <2>1. f.cursor \in 0 .. f.cursor /\ f.cursor - f.cursor <= Stops - 1
    BY <1>1
  <2>2. Input!Pixels(f, f.cursor, f.cursor) = 0
    BY <1>1, PixelsLemma
  <2>3. Input!Pixels(f, f.cursor, f.cursor) <= (Available * 2) \div 3
    BY <1>2, <2>2
  <2> HIDE DEF start
  <2> QED
    BY <1>1, <1>2, <2>1, <2>3, FarthestStartIs DEF start
<1> HIDE DEF start
<1>5. f.cursor \in E
  <2>0. start \in 0 .. Len(f.value)
    BY <1>1, <1>4
  <2>1. Input!Pixels(f, start, f.cursor) \in Int
    BY <1>1, <2>0, PixelsLemma
  <2>2. Input!Pixels(f, start, f.cursor) <= Available
    BY <1>1, <1>2, <1>4, <2>1
  <2>3. f.cursor \in f.cursor .. Len(f.value)
    BY <1>1
  <2> QED
    BY <1>4, <2>2, <2>3
<1>6. E \in SUBSET (0 .. Len(f.value))
  BY <1>1
<1>7. \A e \in E : /\ e \in f.cursor .. Len(f.value)
                   /\ Input!Pixels(f, start, e) <= Available /\ e - start <= Stops - 1
  OBVIOUS
<1> HIDE DEF E
<1>8. end \in E
  BY <1>1, <1>5, <1>6, InputMax
<1> HIDE DEF end
<1>9. start \in 0 .. end /\ end \in 0 .. Len(f.value)
  BY <1>1, <1>4, <1>7, <1>8
<1>10. /\ first \in 0 .. start
       /\ Input!Pixels(f, first, end) <= Available /\ end - first <= Stops - 1
       /\ \A s \in 0 .. start :
             Input!Pixels(f, s, end) <= Available /\ end - s <= Stops - 1 => first <= s
  <2>1. Input!Pixels(f, start, end) <= Available /\ end - start <= Stops - 1
    BY <1>7, <1>8
  <2> QED
    BY <1>1, <1>9, <2>1, FarthestStartIs
<1> HIDE DEF first
<1>11. first \in 0 .. f.cursor /\ 0 .. first \subseteq 0 .. start
  BY <1>1, <1>4, <1>10
<1>12. \A s \in 0 .. first :
          Input!Pixels(f, s, end) <= Available /\ end - s <= Stops - 1 => first <= s
  BY <1>10, <1>11
<1>13. Input!value_window(f).start = first /\ Input!value_window(f).end = end
  BY <1>3
<1> QED
  BY <1>7, <1>8, <1>10, <1>11, <1>12, <1>13, Zenon


-----------------------------------------------------------------------------
(* The value and its caret, after every key.                                 *)

LEMMA PartOfValue ==
    ASSUME NEW ws \in Seq(CharWidths), NEW m \in 1 .. Len(ws) + 1, NEW n \in 0 .. Len(ws)
    PROVE  /\ SubSeq(ws, m, n) \in Seq(CharWidths)
           /\ Len(SubSeq(ws, m, n)) = IF m <= n THEN n - m + 1 ELSE 0
<1>1. m \in Int /\ n \in Int /\ \A i \in m .. n : i \in 1 .. Len(ws)
  OBVIOUS
<1>2. \A i \in m .. n : ws[i] \in CharWidths
  BY <1>1, ElementOfSeq
<1> QED
  BY <1>1, <1>2, SubSeqProperties

LEMMA NewFieldIs ==
    ASSUME NEW enabled \in BOOLEAN
    PROVE  /\ InputField(Input!NewField(enabled))
           /\ Input!NewField(enabled).cursor_enabled = enabled
<1>1. Input!NewField(enabled) = [value |-> << >>, cursor |-> 0, cursor_enabled |-> enabled]
  BY DEF Input!NewField
<1>2. << >> \in Seq(CharWidths) /\ Len(<< >>) = 0
  BY EmptySeq
<1>3. 0 < BufferCapacity
  BY InputConstants
<1> QED
  BY <1>1, <1>2, <1>3 DEF InputField

LEMMA AppendKeeps ==
    ASSUME NEW f, InputField(f), NEW w \in CharWidths
    PROVE  InputField(Input!append(f, w)) /\ Input!append(f, w).cursor_enabled = f.cursor_enabled
<1> DEFINE before == SubSeq(f.value, 1, f.cursor)
           after == SubSeq(f.value, f.cursor + 1, Len(f.value))
           longer == before \o <<w>> \o after
<1>1. CASE Input!Full(f)
  BY <1>1 DEF Input!append
<1>2. CASE ~Input!Full(f)
  <2>1. Input!append(f, w) = [value |-> longer, cursor |-> f.cursor + 1,
                              cursor_enabled |-> f.cursor_enabled]
    BY <1>2 DEF Input!append, InputField
  <2>2. f.cursor \in 0 .. Len(f.value) /\ f.value \in Seq(CharWidths) /\ Len(f.value) \in Nat
    BY FieldHas
  <2>3. Len(f.value) + 1 < BufferCapacity
    BY <1>2, <2>2, FieldHas, InputConstants DEF Input!Full
  <2>4. before \in Seq(CharWidths) /\ Len(before) = f.cursor
    <3>1. 1 \in 1 .. Len(f.value) + 1
      BY <2>2
    <3> QED
      BY <2>2, <3>1, PartOfValue
  <2>5. after \in Seq(CharWidths) /\ Len(after) = Len(f.value) - f.cursor
    <3>1. f.cursor + 1 \in 1 .. Len(f.value) + 1 /\ Len(f.value) \in 0 .. Len(f.value)
      BY <2>2
    <3> QED
      BY <2>2, <3>1, PartOfValue
  <2> HIDE DEF before, after
  <2>6. <<w>> \in Seq(CharWidths) /\ Len(<<w>>) = 1
    OBVIOUS
  <2>7. before \o <<w>> \in Seq(CharWidths) /\ Len(before \o <<w>>) = f.cursor + 1
    BY <2>4, <2>6, ConcatProperties
  <2>8. longer \in Seq(CharWidths) /\ Len(longer) = Len(f.value) + 1
    <3>1. longer \in Seq(CharWidths) /\ Len(longer) = Len(before \o <<w>>) + Len(after)
      BY <2>5, <2>7, ConcatProperties, Zenon
    <3> HIDE DEF longer
    <3> QED
      BY <2>2, <2>5, <2>7, <3>1
  <2> HIDE DEF longer
  <2>9. f.cursor + 1 \in Nat /\ f.cursor + 1 <= Len(longer)
        /\ (f.cursor = Len(f.value) => f.cursor + 1 = Len(longer))
    BY <2>2, <2>8
  <2> QED
    BY <2>1, <2>3, <2>8, <2>9 DEF InputField
<1> QED
  BY <1>1, <1>2

LEMMA EraseKeeps ==
    ASSUME NEW f, InputField(f)
    PROVE  InputField(Input!erase(f)) /\ Input!erase(f).cursor_enabled = f.cursor_enabled
<1> DEFINE before == SubSeq(f.value, 1, f.cursor - 1)
           after == SubSeq(f.value, f.cursor + 1, Len(f.value))
           shorter == before \o after
<1>1. CASE f.cursor = 0
  BY <1>1 DEF Input!erase
<1>2. CASE f.cursor # 0
  <2>1. Input!erase(f) = [value |-> shorter, cursor |-> f.cursor - 1,
                          cursor_enabled |-> f.cursor_enabled]
    BY <1>2 DEF Input!erase, InputField
  <2>2. f.cursor \in 1 .. Len(f.value) /\ f.value \in Seq(CharWidths) /\ Len(f.value) \in Nat
        /\ Len(f.value) < BufferCapacity
    BY <1>2, FieldHas DEF InputField
  <2>3. before \in Seq(CharWidths) /\ Len(before) = f.cursor - 1
    <3>1. 1 \in 1 .. Len(f.value) + 1 /\ f.cursor - 1 \in 0 .. Len(f.value)
      BY <2>2
    <3>2. /\ before \in Seq(CharWidths)
          /\ Len(before) = IF 1 <= f.cursor - 1 THEN (f.cursor - 1) - 1 + 1 ELSE 0
      BY <2>2, <3>1, PartOfValue
    <3> HIDE DEF before
    <3> QED
      BY <2>2, <3>2
  <2>4. after \in Seq(CharWidths) /\ Len(after) = Len(f.value) - f.cursor
    <3>1. f.cursor + 1 \in 1 .. Len(f.value) + 1 /\ Len(f.value) \in 0 .. Len(f.value)
      BY <2>2
    <3> QED
      BY <2>2, <3>1, PartOfValue
  <2> HIDE DEF before, after
  <2>5. shorter \in Seq(CharWidths) /\ Len(shorter) = Len(f.value) - 1
    <3>1. shorter \in Seq(CharWidths) /\ Len(shorter) = Len(before) + Len(after)
      BY <2>3, <2>4, ConcatProperties, Zenon
    <3> HIDE DEF shorter
    <3> QED
      BY <2>2, <2>3, <2>4, <3>1
  <2> HIDE DEF shorter
  <2>6. f.cursor - 1 \in Nat /\ f.cursor - 1 <= Len(shorter) /\ Len(shorter) < BufferCapacity
        /\ (f.cursor = Len(f.value) => f.cursor - 1 = Len(shorter))
    BY <2>2, <2>5, InputConstants
  <2> QED
    BY <2>1, <2>5, <2>6 DEF InputField
<1> QED
  BY <1>1, <1>2

LEMMA SetCursorKeeps ==
    ASSUME NEW f, InputField(f), NEW c \in Nat
    PROVE  /\ InputField(Input!set_cursor(f, c))
           /\ Input!set_cursor(f, c).cursor_enabled = f.cursor_enabled
<1>1. CASE f.cursor_enabled /\ c <= Input!Length(f)
  <2>1. Input!set_cursor(f, c) = [value |-> f.value, cursor |-> c,
                                  cursor_enabled |-> f.cursor_enabled]
    BY <1>1 DEF Input!set_cursor, InputField
  <2>2. c <= Len(f.value)
    BY <1>1, FieldHas
  <2> QED
    BY <1>1, <2>1, <2>2 DEF InputField
<1>2. CASE ~(f.cursor_enabled /\ c <= Input!Length(f))
  BY <1>2 DEF Input!set_cursor
<1> QED
  BY <1>1, <1>2

LEMMA MoveCursorKeeps ==
    ASSUME NEW f, InputField(f), NEW step \in Int
    PROVE  /\ InputField(Input!move_cursor(f, step))
           /\ Input!move_cursor(f, step).cursor_enabled = f.cursor_enabled
<1>1. CASE f.cursor_enabled /\ f.cursor + step \in 0 .. Input!Length(f)
  <2>1. Input!move_cursor(f, step) = [value |-> f.value, cursor |-> f.cursor + step,
                                      cursor_enabled |-> f.cursor_enabled]
    BY <1>1 DEF Input!move_cursor, InputField
  <2>2. f.cursor + step \in Nat /\ f.cursor + step <= Len(f.value)
    BY <1>1, FieldHas
  <2> QED
    BY <1>1, <2>1, <2>2 DEF InputField
<1>2. CASE ~(f.cursor_enabled /\ f.cursor + step \in 0 .. Input!Length(f))
  BY <1>2 DEF Input!move_cursor
<1> QED
  BY <1>1, <1>2

-----------------------------------------------------------------------------
(* What is drawn and touched of the value.                                   *)

LEMMA WindowShowsCaret ==
    ASSUME InputField(in)
    PROVE  Input!CaretIsShown
<1> DEFINE w == Input!value_window(in)
<1>1. /\ w.start \in 0 .. in.cursor /\ w.end \in in.cursor .. Len(in.value)
      /\ w.end - w.start <= Stops - 1
      /\ Input!Pixels(in, w.start, w.end) <= Available
      /\ \A s \in 0 .. w.start :
            Input!Pixels(in, s, w.end) <= Available /\ w.end - s <= Stops - 1
            => w.start <= s
  BY WindowIs, Zenon
<1>2. in.cursor \in 0 .. Len(in.value) /\ Len(in.value) \in Nat
      /\ Available \in Nat /\ Stops \in Nat \ {0}
  BY FieldHas, InputConstants
<1> HIDE DEF w
<1>3. w.start <= in.cursor /\ in.cursor <= w.end /\ w.end - w.start < Stops
  BY <1>1, <1>2
<1>4. ASSUME w.start > 0 /\ w.end - w.start < Stops - 1
      PROVE  Input!Pixels(in, w.start - 1, w.end) > Available
  <2>1. w.start - 1 \in 0 .. w.start /\ ~(w.start <= w.start - 1)
        /\ w.end - (w.start - 1) <= Stops - 1
        /\ w.start - 1 \in 0 .. Len(in.value) /\ w.end \in 0 .. Len(in.value)
    BY <1>1, <1>2, <1>4
  <2>2. ~(Input!Pixels(in, w.start - 1, w.end) <= Available)
    BY <1>1, <2>1
  <2>3. Input!Pixels(in, w.start - 1, w.end) \in Int
    BY <2>1, PixelsLemma
  <2> QED
    BY <1>2, <2>2, <2>3
<1> QED
  BY <1>1, <1>3, <1>4, Zenon DEF w, Input!CaretIsShown

(* The stops of a drawing: increasing from the left edge. *)
Stopped(f, d) ==
    /\ d.start \in 0 .. Len(f.value) /\ DOMAIN d.stops \subseteq 0 .. Len(f.value)
    /\ 0 \in DOMAIN d.stops
    /\ \A i \in DOMAIN d.stops : d.start + i \in 0 .. Len(f.value) /\ d.stops[i] \in Nat
    /\ \A i, j \in DOMAIN d.stops : d.stops[i] = d.stops[j] => i = j

LEMMA DrawnIsStopped ==
    ASSUME NEW f, InputField(f)
    PROVE  Stopped(f, Input!Drawn(f))
<1> DEFINE w == Input!value_window(f)
           d == Input!Drawn(f)
           stop(i) == Input!Pixels(f, w.start, w.start + i)
<1>1. w.start \in 0 .. f.cursor /\ w.end \in f.cursor .. Len(f.value)
  BY WindowIs, Zenon
<1>2. f.cursor \in 0 .. Len(f.value) /\ Len(f.value) \in Nat
  BY FieldHas
<1>3. d.start = w.start /\ d.stops = [i \in 0 .. w.end - w.start |-> stop(i)]
  BY DEF Input!Drawn
<1> HIDE DEF w, d
<1>4. DOMAIN d.stops = 0 .. w.end - w.start
      /\ \A i \in 0 .. w.end - w.start : d.stops[i] = stop(i)
  BY <1>3
<1>5. w.start \in 0 .. Len(f.value) /\ 0 .. w.end - w.start \subseteq 0 .. Len(f.value)
      /\ 0 \in 0 .. w.end - w.start
      /\ \A i \in 0 .. w.end - w.start : w.start + i \in 0 .. Len(f.value) /\ w.start <= w.start + i
  <2> DEFINE a == w.start
             b == w.end
             c == f.cursor
             n == Len(f.value)
  <2>1. n \in Nat /\ c \in 0 .. n /\ a \in 0 .. c /\ b \in c .. n
    BY <1>1, <1>2, Zenon
  <2> HIDE DEF a, b, c, n
  <2>2. a \in Nat /\ b \in Nat /\ a <= b /\ b <= n
    BY <2>1
  <2>3. a \in 0 .. n /\ 0 .. b - a \subseteq 0 .. n /\ 0 \in 0 .. b - a
    BY <2>1, <2>2
  <2>4. \A i \in 0 .. b - a : a + i \in 0 .. n /\ a <= a + i
    BY <2>1, <2>2
  <2> QED
    BY <2>3, <2>4, Zenon DEF a, b, n
<1>6. ASSUME NEW i \in 0 .. w.end - w.start PROVE stop(i) \in Nat
  <2>1. w.start + i \in 0 .. Len(f.value) /\ (w.start = w.start + i \/ w.start < w.start + i)
    BY <1>1, <1>5
  <2>2. stop(i) \in Int /\ (stop(i) = 0 \/ stop(i) > 0)
    BY <1>5, <2>1, PixelsLemma
  <2> QED
    BY <2>2
<1>7. ASSUME NEW i \in 0 .. w.end - w.start, NEW j \in 0 .. w.end - w.start, i < j
      PROVE  stop(i) # stop(j)
  <2>1. w.start + i \in 0 .. Len(f.value) /\ w.start + j \in 0 .. Len(f.value)
        /\ w.start + i < w.start + j
    BY <1>1, <1>5, <1>7
  <2>2. stop(j) - stop(i) = Input!Pixels(f, w.start + i, w.start + j)
    BY <1>5, <2>1, PixelsLemma
  <2>3. Input!Pixels(f, w.start + i, w.start + j) > 0
    BY <2>1, PixelsLemma
  <2>4. stop(i) \in Nat /\ stop(j) \in Nat
    BY <1>6
  <2> HIDE DEF stop
  <2> QED
    BY <2>2, <2>3, <2>4
<1> HIDE DEF stop
<1>8. \A i, j \in 0 .. w.end - w.start : d.stops[i] = d.stops[j] => i = j
  <2>1. \A i, j \in 0 .. w.end - w.start : i < j \/ j < i \/ i = j
    OBVIOUS
  <2>2. \A i, j \in 0 .. w.end - w.start : i < j => d.stops[i] # d.stops[j]
    BY <1>4, <1>7
  <2> QED
    BY <2>1, <2>2
<1>9. d.start \in 0 .. Len(f.value)
      /\ \A i \in DOMAIN d.stops : d.start + i \in 0 .. Len(f.value) /\ d.stops[i] \in Nat
  BY <1>3, <1>4, <1>5, <1>6, Zenon
<1> QED
  BY <1>4, <1>5, <1>8, <1>9, Zenon DEF Stopped, d

LEMMA NearestIs ==
    ASSUME NEW f, InputField(f), NEW d, Stopped(f, d), NEW x \in Nat
    PROVE  /\ Input!Nearest(d.stops, x) \in DOMAIN d.stops
           /\ \A i \in DOMAIN d.stops : d.stops[i] = x => Input!Nearest(d.stops, x) = i
<1> DEFINE far(i) == Input!Distance(x, d.stops[i])
           T == {i \in DOMAIN d.stops : \A j \in DOMAIN d.stops : far(i) <= far(j)}
<1>1. \A i \in DOMAIN d.stops : i \in Nat /\ d.stops[i] \in Nat
  BY FieldHas DEF Stopped
<1>2. \A i \in DOMAIN d.stops : /\ far(i) \in Nat /\ (d.stops[i] = x => far(i) = 0)
                                /\ (far(i) = 0 => d.stops[i] = x)
  BY <1>1 DEF Input!Distance
<1>3. Input!Nearest(d.stops, x) = Input!Min(T)
  BY Zenon DEF Input!Nearest
<1> HIDE DEF far
<1>4. T # {}
  <2> DEFINE F == {far(i) : i \in DOMAIN d.stops}
  <2>1. F \in SUBSET Nat /\ F # {}
    BY <1>2 DEF Stopped
  <2>2. PICK y \in F : \A z \in F : y <= z
    BY <2>1, Least
  <2>3. PICK i \in DOMAIN d.stops : y = far(i)
    BY <2>2
  <2>4. \A j \in DOMAIN d.stops : far(i) <= far(j)
    BY <2>2, <2>3
  <2> QED
    BY <2>3, <2>4
<1>5. \A i \in T : i \in DOMAIN d.stops /\ \A j \in DOMAIN d.stops : far(i) <= far(j)
  OBVIOUS
<1> HIDE DEF T
<1>6. T \in SUBSET Nat
  BY <1>1, <1>5
<1>7. Input!Nearest(d.stops, x) \in T
  BY <1>3, <1>4, <1>6, InputMin
<1>8. ASSUME NEW i \in DOMAIN d.stops, d.stops[i] = x PROVE Input!Nearest(d.stops, x) = i
  <2> DEFINE n == Input!Nearest(d.stops, x)
  <2>1. n \in DOMAIN d.stops /\ far(n) <= far(i)
    BY <1>5, <1>7
  <2>2. far(n) \in Nat /\ far(i) = 0
    BY <1>2, <1>8, <2>1
  <2>3. far(n) = 0
    BY <2>1, <2>2
  <2>4. d.stops[n] = d.stops[i]
    BY <1>2, <1>8, <2>1, <2>3
  <2> QED
    BY <2>1, <2>4 DEF Stopped
<1> QED
  BY <1>5, <1>7, <1>8

LEMMA PlaceCursorKeeps ==
    ASSUME NEW f, InputField(f), NEW x \in Nat
    PROVE  LET g == Input!place_cursor(f, Input!Drawn(f), x)
           IN  InputField(g) /\ g.cursor_enabled = f.cursor_enabled
<1> DEFINE d == Input!Drawn(f)
           n == Input!Nearest(d.stops, x)
<1>1. Stopped(f, d)
  BY DrawnIsStopped
<1>2. n \in DOMAIN d.stops
  BY <1>1, NearestIs
<1>3. d.start + n \in Nat
  BY <1>1, <1>2, FieldHas DEF Stopped
<1>4. Input!place_cursor(f, d, x) = Input!set_cursor(f, d.start + n)
  BY Zenon DEF Input!place_cursor
<1> HIDE DEF d, n
<1>5. InputField(Input!place_cursor(f, d, x))
      /\ Input!place_cursor(f, d, x).cursor_enabled = f.cursor_enabled
  BY <1>3, <1>4, SetCursorKeeps
<1> QED
  BY <1>5 DEF d

LEMMA StopsPlaceCaret ==
    ASSUME InputField(in), inputShown = Input!Drawn(in)
    PROVE  Input!TouchPlacesCaret
<1> SUFFICES ASSUME in.cursor_enabled, NEW i \in DOMAIN inputShown.stops
             PROVE  Input!place_cursor(in, inputShown, inputShown.stops[i]).cursor
                    = inputShown.start + i
  BY Zenon DEF Input!TouchPlacesCaret
<1>1. Stopped(in, inputShown)
  BY DrawnIsStopped
<1>2. inputShown.stops[i] \in Nat /\ inputShown.start + i \in 0 .. Len(in.value)
  BY <1>1 DEF Stopped
<1>3. Input!Nearest(inputShown.stops, inputShown.stops[i]) = i
  BY <1>1, <1>2, NearestIs
<1>4. Input!place_cursor(in, inputShown, inputShown.stops[i])
      = Input!set_cursor(in, inputShown.start + i)
  BY <1>3, Zenon DEF Input!place_cursor
<1>5. inputShown.start + i <= Input!Length(in)
  BY <1>2, FieldHas
<1>6. Input!set_cursor(in, inputShown.start + i)
      = [in EXCEPT !.cursor = inputShown.start + i]
  BY <1>5, Zenon DEF Input!set_cursor
<1>7. [in EXCEPT !.cursor = inputShown.start + i].cursor = inputShown.start + i
  BY DEF InputField
<1> QED
  BY <1>4, <1>6, <1>7

LEMMA LargerOfTwo ==
    ASSUME NEW m \in Int, NEW n \in Int
    PROVE  Input!Max({m, n}) = IF m < n THEN n ELSE m
<1>1. \E x \in {m, n} : \A y \in {m, n} : x >= y
  OBVIOUS
<1>2. Input!Max({m, n}) \in {m, n} /\ \A y \in {m, n} : Input!Max({m, n}) >= y
  BY <1>1, Zenon DEF Input!Max
<1> QED
  BY <1>2

LEMMA SmallerOfTwo ==
    ASSUME NEW m \in Int, NEW n \in Int
    PROVE  Input!Min({m, n}) = IF m < n THEN m ELSE n
<1>1. \E x \in {m, n} : \A y \in {m, n} : x <= y
  OBVIOUS
<1>2. Input!Min({m, n}) \in {m, n} /\ \A y \in {m, n} : Input!Min({m, n}) <= y
  BY <1>1, Zenon DEF Input!Min
<1> QED
  BY <1>2

LEMMA ViewportShowsCaret ==
    ASSUME InputField(in)
    PROVE  Input!ViewportContainsCaret
<1> SUFFICES ASSUME NEW visible \in 1 .. BufferCapacity
             PROVE  LET start == Input!window_start(in, visible)
                    IN  /\ start <= in.cursor /\ in.cursor <= start + visible
                        /\ start > 0 => start + visible <= Input!Length(in)
  BY Zenon DEF Input!ViewportContainsCaret
<1>1. in.cursor \in 0 .. Len(in.value) /\ Input!Length(in) = Len(in.value)
      /\ Len(in.value) \in Nat /\ BufferCapacity \in Nat
  BY FieldHas, InputConstants
<1>2. visible \in Nat /\ in.cursor - visible \in Int /\ Len(in.value) - visible \in Int
  BY <1>1
<1> DEFINE left == Input!Max({in.cursor - visible, 0})
<1>3. left = IF in.cursor - visible < 0 THEN 0 ELSE in.cursor - visible
  BY <1>2, LargerOfTwo
<1> HIDE DEF left
<1>4. left \in Int
  BY <1>2, <1>3
<1>5. Input!Min({left, Len(in.value) - visible})
      = IF left < Len(in.value) - visible THEN left ELSE Len(in.value) - visible
  BY <1>2, <1>4, SmallerOfTwo
<1>6. Input!window_start(in, visible)
      = IF Len(in.value) <= visible THEN 0
        ELSE IF left < Len(in.value) - visible THEN left ELSE Len(in.value) - visible
  BY <1>1, <1>5 DEF Input!window_start, left
<1> QED
  BY <1>1, <1>2, <1>3, <1>6

-----------------------------------------------------------------------------
(* The keys of a layout.                                                     *)

InputLayouts == [symbols : BOOLEAN, shifted : BOOLEAN, caret : BOOLEAN]

(* How many keys a row has, those left out included. *)
RowLength(l, row) ==
    IF row = 4 THEN 7 ELSE IF row >= 2 /\ ~l.symbols THEN 9 ELSE 10

LEMMA RowsHave ==
    ASSUME NEW l \in InputLayouts, NEW row \in 0 .. 4
    PROVE  DOMAIN Input!KeyRow(l, row) = 0 .. RowLength(l, row) - 1
<1>1. CASE row = 0
  BY <1>1 DEF Input!KeyRow, RowLength, Input!SignsFrom
<1>2. CASE row = 1
  BY <1>2 DEF Input!KeyRow, RowLength, Input!SignsFrom, Input!LettersFrom
<1>3. CASE row = 2
  <2>1. Input!KeyRow(l, 2) = IF l.symbols THEN Input!SignsFrom(0, 9) ELSE Input!LettersFrom(0, 8)
    BY DEF Input!KeyRow
  <2>2. CASE l.symbols
    BY <1>3, <2>1, <2>2 DEF RowLength, Input!SignsFrom
  <2>3. CASE ~l.symbols
    BY <1>3, <2>1, <2>3 DEF RowLength, Input!LettersFrom
  <2> QED
    BY <2>2, <2>3
<1>4. CASE row = 3 /\ l.symbols
  <2>1. Input!KeyRow(l, 3) = [c \in 0 .. 9 |-> IF c = 9 THEN "BACKSPACE" ELSE "SIGN"]
    BY <1>4 DEF Input!KeyRow
  <2> QED
    BY <1>4, <2>1 DEF RowLength
<1>5. CASE row = 3 /\ ~l.symbols
  <2>1. Input!KeyRow(l, 3) = [c \in 0 .. 8 |-> CASE c = 0 -> "SHIFT"
                                                 [] c = 8 -> "BACKSPACE"
                                                 [] OTHER -> "LETTER"]
    BY <1>5 DEF Input!KeyRow
  <2> QED
    BY <1>5, <2>1 DEF RowLength
<1>6. CASE row = 4
  BY <1>6 DEF Input!KeyRow, RowLength
<1> QED
  BY <1>1, <1>2, <1>3, <1>4, <1>5, <1>6

LEMMA KeyAtIs ==
    ASSUME NEW l \in InputLayouts, NEW row \in Int, NEW c \in Int
    PROVE  /\ Input!key_at(l, row, c) # "NONE" =>
                  row \in 0 .. 4 /\ c \in 0 .. RowLength(l, row) - 1
           /\ Input!key_at(l, 0, 0) # "NONE"
           /\ Input!key_at(l, 4, 0) # "NONE"
           /\ Input!key_at(l, row, c) = "SYMBOLS" => row = 4 /\ c = 0
<1>0. DOMAIN Input!KeyRow(l, 0) = 0 .. 9 /\ DOMAIN Input!KeyRow(l, 4) = 0 .. 6
  BY RowsHave DEF RowLength
<1>1. Input!key_at(l, row, c)
      = IF row \in 0 .. 4 /\ c \in DOMAIN Input!KeyRow(l, row)
        THEN Input!KeyRow(l, row)[c] ELSE "NONE"
  BY DEF Input!key_at, Input!KeyRows
<1>2. Input!key_at(l, row, c) # "NONE" =>
          row \in 0 .. 4 /\ c \in 0 .. RowLength(l, row) - 1
  BY <1>1, RowsHave
<1>3. Input!key_at(l, 0, 0) # "NONE"
  <2>1. Input!KeyRow(l, 0)[0] = "SIGN"
    BY DEF Input!KeyRow, Input!SignsFrom
  <2>2. Input!key_at(l, 0, 0) = Input!KeyRow(l, 0)[0]
    BY <1>0 DEF Input!key_at, Input!KeyRows
  <2> QED
    BY <2>1, <2>2
<1>4. Input!key_at(l, 4, 0) # "NONE"
  <2>1. Input!KeyRow(l, 4)[0] = "SYMBOLS"
    BY DEF Input!KeyRow
  <2>2. Input!key_at(l, 4, 0) = Input!KeyRow(l, 4)[0]
    BY <1>0 DEF Input!key_at, Input!KeyRows
  <2> QED
    BY <2>1, <2>2
<1>5. ASSUME Input!key_at(l, row, c) = "SYMBOLS" PROVE row = 4 /\ c = 0
  <2>1. row \in 0 .. 4 /\ c \in 0 .. RowLength(l, row) - 1
        /\ Input!KeyRow(l, row)[c] = "SYMBOLS"
    BY <1>1, <1>2, <1>5
  <2>2. CASE row = 0
    BY <2>1, <2>2 DEF Input!KeyRow, RowLength, Input!SignsFrom
  <2>3. CASE row = 1
    BY <2>1, <2>3 DEF Input!KeyRow, RowLength, Input!SignsFrom, Input!LettersFrom
  <2>4. CASE row = 2
    BY <2>1, <2>4 DEF Input!KeyRow, RowLength, Input!SignsFrom, Input!LettersFrom
  <2>5. CASE row = 3
    BY <2>1, <2>5 DEF Input!KeyRow, RowLength
  <2>6. CASE row = 4
    BY <2>1, <2>6 DEF Input!KeyRow, RowLength
  <2> QED
    BY <2>1, <2>2, <2>3, <2>4, <2>5, <2>6
<1> QED
  BY <1>2, <1>3, <1>4, <1>5

(* A position of the grid and its row and column. *)
LEMMA PositionIs ==
    /\ \A p \in Input!Cells : /\ p \div 16 \in 0 .. 4 /\ p % 16 \in 0 .. 15
                              /\ p = (p \div 16) * 16 + (p % 16)
    /\ \A row \in 0 .. 4, c \in 0 .. 9 : /\ row * 16 + c \in Input!Cells
                                         /\ (row * 16 + c) \div 16 = row
                                         /\ (row * 16 + c) % 16 = c
    /\ Input!Cells = 0 .. 79
<1>1. Input!Cells = 0 .. 79
  BY DEF Input!Cells, Input!KeyRows, Input!Stride
<1> QED
  BY <1>1

LEMMA KeysAre ==
    ASSUME NEW l \in InputLayouts
    PROVE  \A p : p \in Input!Keys(l) <=> p \in Input!Cells /\ Input!KeyOf(l, p) # "NONE"
<1>1. \A p : p \in Input!Keys(l) <=>
                \E row \in 0 .. 4, c \in 0 .. 9 :
                    Input!key_at(l, row, c) # "NONE" /\ p = row * 16 + c
  BY DEF Input!Keys, Input!KeysOf, Input!KeyRows, Input!KeyColumns, Input!Stride
<1>2. \A p : Input!KeyOf(l, p) = Input!key_at(l, p \div 16, p % 16)
  BY Zenon DEF Input!KeyOf, Input!Stride
<1>3. ASSUME NEW row \in 0 .. 4, NEW c \in 0 .. 9, Input!key_at(l, row, c) # "NONE"
      PROVE  row * 16 + c \in Input!Cells /\ Input!KeyOf(l, row * 16 + c) # "NONE"
  BY <1>2, <1>3, PositionIs
<1>4. ASSUME NEW p \in Input!Cells, Input!KeyOf(l, p) # "NONE"
      PROVE  \E row \in 0 .. 4, c \in 0 .. 9 :
                 Input!key_at(l, row, c) # "NONE" /\ p = row * 16 + c
  <2>1. p \div 16 \in 0 .. 4 /\ p % 16 \in 0 .. 15 /\ p = (p \div 16) * 16 + (p % 16)
    BY PositionIs
  <2>2. Input!key_at(l, p \div 16, p % 16) # "NONE"
    BY <1>2, <1>4
  <2>3. p \div 16 \in Int /\ p % 16 \in Int
    BY <2>1
  <2>4. p % 16 \in 0 .. RowLength(l, p \div 16) - 1
    BY <2>2, <2>3, KeyAtIs
  <2>5. p % 16 \in 0 .. 9
    BY <2>4 DEF RowLength
  <2> QED
    BY <2>1, <2>2, <2>5
<1> QED
  BY <1>1, <1>3, <1>4

(* The keys do not depend on the shift, and the key that switches the layout *)
(* is at the same place in both.                                            *)
LEMMA ShiftKeepsKeys ==
    ASSUME NEW l \in InputLayouts, NEW m \in InputLayouts,
           l.symbols = m.symbols, l.caret = m.caret
    PROVE  \A p : Input!KeyOf(l, p) = Input!KeyOf(m, p)
<1> SUFFICES ASSUME NEW row \in 0 .. 4
             PROVE  Input!KeyRow(l, row) = Input!KeyRow(m, row)
  BY DEF Input!KeyOf, Input!key_at, Input!KeyRows
<1>1. CASE row \in 0 .. 3 /\ l.symbols
  BY <1>1 DEF Input!KeyRow
<1>2. CASE row \in 0 .. 3 /\ ~l.symbols
  BY <1>2 DEF Input!KeyRow
<1>3. CASE row = 4
  BY <1>3 DEF Input!KeyRow
<1> QED
  BY <1>1, <1>2, <1>3

LEMMA SymbolsStays ==
    ASSUME NEW l \in InputLayouts, NEW m \in InputLayouts, NEW p \in Input!Cells,
           Input!KeyOf(l, p) = "SYMBOLS"
    PROVE  Input!KeyOf(m, p) # "NONE"
<1>1. p \div 16 \in Int /\ p % 16 \in Int
  BY PositionIs
<1>2. p \div 16 = 4 /\ p % 16 = 0
  BY <1>1, KeyAtIs DEF Input!KeyOf, Input!Stride
<1> QED
  BY <1>2, KeyAtIs DEF Input!KeyOf, Input!Stride

-----------------------------------------------------------------------------
(* The next key and the one before.                                          *)

(* The n-th position from p in the direction of step, and those that hold a  *)
(* key.                                                                     *)
At(p, step, n) == (p + step * n) % 80
KeysFrom(l, p, step) == {n \in 1 .. 80 : Input!KeyOf(l, At(p, step, n)) # "NONE"}

(* Positions go round. *)
LEMMA RoundStays ==
    ASSUME NEW p \in 0 .. 79, NEW n \in 0 .. 80
    PROVE  (p + n) % 80 \in 0 .. 79 /\ (p - n) % 80 \in 0 .. 79
OBVIOUS

LEMMA RoundIsWhole ==
    ASSUME NEW p \in 0 .. 79
    PROVE  (p + 80) % 80 = p /\ (p - 80) % 80 = p /\ p % 80 = p
OBVIOUS

LEMMA RoundBack ==
    ASSUME NEW p \in 0 .. 79, NEW n \in 0 .. 80, NEW m \in 0 .. 80
    PROVE  /\ (((p + n) % 80) - m) % 80 = (p + (n - m)) % 80
           /\ (((p - n) % 80) + m) % 80 = (p - (n - m)) % 80
<1>1. (((p + n) % 80) - m) % 80 = (p + (n - m)) % 80
  OBVIOUS
<1>2. (((p - n) % 80) + m) % 80 = (p - (n - m)) % 80
  OBVIOUS
<1> QED
  BY <1>1, <1>2

LEMMA AtIs ==
    ASSUME NEW p \in Int, NEW n \in Int
    PROVE  At(p, 1, n) = (p + n) % 80 /\ At(p, -1, n) = (p - n) % 80
<1>1. p + (-1) * n = p - n /\ p + 1 * n = p + n
  OBVIOUS
<1> QED
  BY <1>1, Zenon DEF At

LEMMA AtGoesRound ==
    ASSUME NEW p \in 0 .. 79, NEW step \in {1, -1}
    PROVE  /\ At(p, step, 0) = p /\ At(p, step, 80) = p
           /\ \A n \in 1 .. 80 : At(p, step, n) \in 0 .. 79
<1>1. p \in Int /\ 0 \in Int /\ 80 \in Int /\ 1 .. 80 \subseteq Int
      /\ 1 .. 80 \subseteq 0 .. 80 /\ p + 0 = p /\ p - 0 = p
  OBVIOUS
<1>2. CASE step = 1
  <2>1. \A n \in 1 .. 80 : At(p, step, n) \in 0 .. 79
    BY <1>1, <1>2, AtIs, RoundStays
  <2>2. At(p, step, 0) = p /\ At(p, step, 80) = p
    BY <1>1, <1>2, AtIs, RoundIsWhole
  <2> QED
    BY <2>1, <2>2
<1>3. CASE step = -1
  <2>1. \A n \in 1 .. 80 : At(p, step, n) \in 0 .. 79
    BY <1>1, <1>3, AtIs, RoundStays
  <2>2. At(p, step, 0) = p /\ At(p, step, 80) = p
    BY <1>1, <1>3, AtIs, RoundIsWhole
  <2> QED
    BY <2>1, <2>2
<1> QED
  BY <1>2, <1>3

LEMMA AtComesBack ==
    ASSUME NEW p \in 0 .. 79, NEW n \in 1 .. 80, NEW k \in 1 .. 80
    PROVE  /\ At(At(p, 1, n), -1, k) = At(p, 1, n - k)
           /\ At(At(p, -1, n), 1, k) = At(p, -1, n - k)
<1>1. p \in Int /\ n \in Int /\ k \in Int /\ n - k \in Int /\ n \in 0 .. 80 /\ k \in 0 .. 80
      /\ (p + n) % 80 \in Int /\ (p - n) % 80 \in Int
  OBVIOUS
<1>2. At(At(p, 1, n), -1, k) = At(p, 1, n - k)
  <2>1. At(p, 1, n) = (p + n) % 80 /\ At(p, 1, n - k) = (p + (n - k)) % 80
    BY <1>1, AtIs
  <2>2. At((p + n) % 80, -1, k) = (((p + n) % 80) - k) % 80
    BY <1>1, AtIs
  <2>3. (((p + n) % 80) - k) % 80 = (p + (n - k)) % 80
    BY <1>1, RoundBack
  <2> QED
    BY <2>1, <2>2, <2>3, Zenon
<1>3. At(At(p, -1, n), 1, k) = At(p, -1, n - k)
  <2>1. At(p, -1, n) = (p - n) % 80 /\ At(p, -1, n - k) = (p - (n - k)) % 80
    BY <1>1, AtIs
  <2>2. At((p - n) % 80, 1, k) = (((p - n) % 80) + k) % 80
    BY <1>1, AtIs
  <2>3. (((p - n) % 80) + k) % 80 = (p - (n - k)) % 80
    BY <1>1, RoundBack
  <2> QED
    BY <2>1, <2>2, <2>3, Zenon
<1> QED
  BY <1>2, <1>3

LEMMA MoveIs ==
    ASSUME NEW l \in InputLayouts, NEW p \in Input!Cells, NEW step \in {1, -1},
           Input!KeyOf(l, p) # "NONE"
    PROVE  \E n \in 1 .. 80 :
              /\ Input!move(l, p, step) = At(p, step, n)
              /\ At(p, step, n) \in Input!Cells
              /\ Input!KeyOf(l, At(p, step, n)) # "NONE"
              /\ \A m \in 1 .. 80 : m < n => Input!KeyOf(l, At(p, step, m)) = "NONE"
<1> DEFINE S == KeysFrom(l, p, step)
<1>1. p \in 0 .. 79 /\ Input!Cells = 0 .. 79
  BY PositionIs
<1>2. Input!move(l, p, step) = At(p, step, Input!Min(S))
  BY DEF Input!move, KeysFrom, At, Input!KeyRows, Input!Stride
<1>3. At(p, step, 80) = p /\ \A n \in 1 .. 80 : At(p, step, n) \in 0 .. 79
  BY <1>1, AtGoesRound
<1>4. 80 \in 1 .. 80
  OBVIOUS
<1>5. 80 \in S /\ S \in SUBSET Nat
  BY <1>3, <1>4 DEF KeysFrom
<1>6. \A n : n \in S <=> n \in 1 .. 80 /\ Input!KeyOf(l, At(p, step, n)) # "NONE"
  BY DEF KeysFrom
<1> HIDE DEF S
<1>7. Input!Min(S) \in S /\ \A y \in S : Input!Min(S) <= y
  BY <1>5, InputMin
<1>8. Input!Min(S) \in 1 .. 80
  BY <1>6, <1>7
<1>9. \A m \in 1 .. 80 : m < Input!Min(S) => Input!KeyOf(l, At(p, step, m)) = "NONE"
  BY <1>6, <1>7, <1>8
<1> QED
  BY <1>1, <1>2, <1>3, <1>6, <1>7, <1>8, <1>9, Zenon

LEMMA MoveComesBack ==
    ASSUME NEW l \in InputLayouts, NEW p \in Input!Cells, NEW step \in {1, -1},
           NEW back \in {1, -1}, step # back, Input!KeyOf(l, p) # "NONE"
    PROVE  Input!move(l, Input!move(l, p, step), back) = p
<1> DEFINE q == Input!move(l, p, step)
<1>1. PICK n \in 1 .. 80 :
         /\ q = At(p, step, n) /\ At(p, step, n) \in Input!Cells
         /\ Input!KeyOf(l, At(p, step, n)) # "NONE"
         /\ \A m \in 1 .. 80 : m < n => Input!KeyOf(l, At(p, step, m)) = "NONE"
  BY MoveIs
<1> HIDE DEF q
<1>2. q \in Input!Cells /\ Input!KeyOf(l, q) # "NONE"
  BY <1>1
<1>3. PICK m \in 1 .. 80 :
         /\ Input!move(l, q, back) = At(q, back, m)
         /\ Input!KeyOf(l, At(q, back, m)) # "NONE"
         /\ \A k \in 1 .. 80 : k < m => Input!KeyOf(l, At(q, back, k)) = "NONE"
  BY <1>2, MoveIs
<1>4. ASSUME NEW k \in 1 .. 80 PROVE At(q, back, k) = At(p, step, n - k)
  <2>1. p \in 0 .. 79
    BY PositionIs
  <2>2. /\ At(At(p, 1, n), -1, k) = At(p, 1, n - k)
        /\ At(At(p, -1, n), 1, k) = At(p, -1, n - k)
    BY <2>1, AtComesBack
  <2>3. (step = 1 /\ back = -1) \/ (step = -1 /\ back = 1)
    BY Zenon
  <2> QED
    BY <1>1, <2>2, <2>3, Zenon
<1>5. At(p, step, n - n) = p
  <2>1. p \in 0 .. 79 /\ n - n = 0
    BY PositionIs
  <2> QED
    BY <2>1, AtGoesRound
<1>6. ~(n < m)
  BY <1>3, <1>4, <1>5
<1>7. ~(m < n)
  <2> SUFFICES ASSUME m < n PROVE FALSE
    OBVIOUS
  <2>1. n - m \in 1 .. 80 /\ n - m < n
    OBVIOUS
  <2>2. Input!KeyOf(l, At(p, step, n - m)) = "NONE"
    BY <1>1, <2>1
  <2> QED
    BY <1>3, <1>4, <2>2
<1>8. m = n
  BY <1>6, <1>7
<1> QED
  BY <1>3, <1>4, <1>5, <1>8 DEF q

-----------------------------------------------------------------------------
(* The boxes of the keys.                                                    *)

(* Row and column of a box that is drawn. *)
Boxed(l, row, c) == row \in 0 .. 4 /\ c \in 0 .. RowLength(l, row) - 1

LEMMA BoxIs ==
    ASSUME NEW l \in InputLayouts, NEW row, NEW c, Boxed(l, row, c)
    PROVE  Input!KeyBox(l, row, c) =
               IF row <= 1 \/ (l.symbols /\ row <= 3) THEN <<20 + c * 56, 51>>
               ELSE IF row = 2 THEN <<48 + c * 56, 51>>
               ELSE IF row = 3
               THEN IF c = 0 THEN <<20, 71>> ELSE IF c = 8 THEN <<492, 83>>
                    ELSE <<98 + (c - 1) * 56, 51>>
               ELSE <<<<20, 98, 156, 236, 370, 450, 508>>[c + 1],
                      <<71, 51, 73, 127, 73, 51, 71>>[c + 1]>>
<1>0. row \in 0 .. 4 /\ c \in Int
  BY DEF Boxed, RowLength
<1>1. CASE row <= 1 \/ (l.symbols /\ row <= 3)
  BY <1>0, <1>1 DEF Input!KeyBox
<1>2. CASE row = 2 /\ ~l.symbols
  BY <1>2 DEF Input!KeyBox
<1>3. CASE row = 3 /\ ~l.symbols
  BY <1>0, <1>3 DEF Input!KeyBox
<1>4. CASE row = 4
  BY <1>4 DEF Input!KeyBox
<1> QED
  BY <1>0, <1>1, <1>2, <1>3, <1>4

(* Where the key of a column of the last row lies. *)
LastRow(c, x, w) ==
    \/ c = 0 /\ x = 20 /\ w = 71
    \/ c = 1 /\ x = 98 /\ w = 51
    \/ c = 2 /\ x = 156 /\ w = 73
    \/ c = 3 /\ x = 236 /\ w = 127
    \/ c = 4 /\ x = 370 /\ w = 73
    \/ c = 5 /\ x = 450 /\ w = 51
    \/ c = 6 /\ x = 508 /\ w = 71

(* The left edge and the width of the box of a column. *)
Edges(l, row, c, x, w) ==
    \/ (row <= 1 \/ (l.symbols /\ row <= 3)) /\ x = 20 + c * 56 /\ w = 51
    \/ row = 2 /\ ~l.symbols /\ x = 48 + c * 56 /\ w = 51
    \/ row = 3 /\ ~l.symbols /\ c = 0 /\ x = 20 /\ w = 71
    \/ row = 3 /\ ~l.symbols /\ c = 8 /\ x = 492 /\ w = 83
    \/ row = 3 /\ ~l.symbols /\ c \in 1 .. 7 /\ x = 98 + (c - 1) * 56 /\ w = 51
    \/ row = 4 /\ LastRow(c, x, w)

LEMMA EdgesAre ==
    ASSUME NEW l \in InputLayouts, NEW row, NEW c, Boxed(l, row, c)
    PROVE  \E x, w \in Nat : Input!KeyBox(l, row, c) = <<x, w>> /\ Edges(l, row, c, x, w)
<1>0. row \in 0 .. 4 /\ c \in 0 .. 9 /\ (row = 4 => c \in 0 .. 6)
      /\ (row \in {2, 3} /\ ~l.symbols => c \in 0 .. 8)
  BY DEF Boxed, RowLength
<1>1. CASE row <= 1 \/ (l.symbols /\ row <= 3)
  <2>1. Input!KeyBox(l, row, c) = <<20 + c * 56, 51>> /\ 20 + c * 56 \in Nat /\ 51 \in Nat
    BY <1>0, <1>1, BoxIs
  <2> QED
    BY <1>1, <2>1, Zenon DEF Edges
<1>2. CASE row = 2 /\ ~l.symbols
  <2>1. Input!KeyBox(l, row, c) = <<48 + c * 56, 51>> /\ 48 + c * 56 \in Nat /\ 51 \in Nat
    BY <1>0, <1>2, BoxIs
  <2> QED
    BY <1>2, <2>1, Zenon DEF Edges
<1>3. CASE row = 3 /\ ~l.symbols
  <2>1. CASE c = 0
    <3>1. Input!KeyBox(l, row, c) = <<20, 71>> /\ 20 \in Nat /\ 71 \in Nat
      BY <1>3, <2>1, BoxIs
    <3> QED
      BY <1>3, <2>1, <3>1, Zenon DEF Edges
  <2>2. CASE c = 8
    <3>1. Input!KeyBox(l, row, c) = <<492, 83>> /\ 492 \in Nat /\ 83 \in Nat
      BY <1>3, <2>2, BoxIs
    <3> QED
      BY <1>3, <2>2, <3>1, Zenon DEF Edges
  <2>3. CASE c \in 1 .. 7
    <3>1. Input!KeyBox(l, row, c) = <<98 + (c - 1) * 56, 51>> /\ 98 + (c - 1) * 56 \in Nat
          /\ 51 \in Nat
      BY <1>3, <2>3, BoxIs
    <3> QED
      BY <1>3, <2>3, <3>1, Zenon DEF Edges
  <2> QED
    BY <1>0, <1>3, <2>1, <2>2, <2>3
<1>4. CASE row = 4
  <2> DEFINE x == <<20, 98, 156, 236, 370, 450, 508>>[c + 1]
             w == <<71, 51, 73, 127, 73, 51, 71>>[c + 1]
  <2>1. Input!KeyBox(l, row, c) = <<x, w>>
    BY <1>4, BoxIs
  <2>2. c \in {0, 1, 2, 3, 4, 5, 6}
    BY <1>0, <1>4
  <2>3. LastRow(c, x, w) /\ x \in Nat /\ w \in Nat
    BY <2>2 DEF LastRow
  <2> HIDE DEF x, w
  <2> QED
    BY <1>4, <2>1, <2>3, Zenon DEF Edges
<1> QED
  BY <1>0, <1>1, <1>2, <1>3, <1>4

(* The boxes of a row are on the screen and lie apart. *)
LEMMA EdgesApart ==
    ASSUME NEW l \in InputLayouts, NEW row \in 0 .. 4,
           NEW c \in 0 .. RowLength(l, row) - 1, NEW d \in 0 .. RowLength(l, row) - 1,
           NEW x \in Nat, NEW w \in Nat, Edges(l, row, c, x, w),
           NEW y \in Nat, NEW v \in Nat, Edges(l, row, d, y, v)
    PROVE  /\ x + w < 600
           /\ c < d => x + w < y
<1>0. c \in 0 .. 9 /\ d \in 0 .. 9
  BY DEF RowLength
<1>1. CASE row <= 1 \/ (l.symbols /\ row <= 3)
  <2>1. x = 20 + c * 56 /\ w = 51 /\ y = 20 + d * 56 /\ v = 51
    BY <1>1 DEF Edges
  <2> QED
    BY <1>0, <2>1
<1>2. CASE row = 2 /\ ~l.symbols
  <2>1. x = 48 + c * 56 /\ w = 51 /\ y = 48 + d * 56 /\ v = 51
    BY <1>2 DEF Edges
  <2>2. c \in 0 .. 8
    BY <1>2 DEF RowLength
  <2> QED
    BY <1>0, <2>1, <2>2
<1>3. CASE row = 3 /\ ~l.symbols
  <2>1. \/ c = 0 /\ x = 20 /\ w = 71
        \/ c = 8 /\ x = 492 /\ w = 83
        \/ c \in 1 .. 7 /\ x = 98 + (c - 1) * 56 /\ w = 51
    BY <1>3 DEF Edges
  <2>2. \/ d = 0 /\ y = 20 /\ v = 71
        \/ d = 8 /\ y = 492 /\ v = 83
        \/ d \in 1 .. 7 /\ y = 98 + (d - 1) * 56 /\ v = 51
    BY <1>3 DEF Edges
  <2> QED
    BY <1>0, <2>1, <2>2
<1>4. CASE row = 4
  <2>1. LastRow(c, x, w) /\ LastRow(d, y, v)
    BY <1>4 DEF Edges
  <2> QED
    BY <2>1 DEF LastRow
<1> QED
  BY <1>1, <1>2, <1>3, <1>4

(* A corner of a key's box is in the box of no other key. *)
LEMMA CornerIsIn ==
    ASSUME NEW l \in InputLayouts, NEW row, NEW c, Boxed(l, row, c),
           NEW r, NEW k, Boxed(l, r, k),
           NEW x \in Nat, NEW w \in Nat, Input!KeyBox(l, row, c) = <<x, w>>,
           Edges(l, row, c, x, w),
           NEW X, X = x \/ X = x + w,
           NEW Y, Y = 474 + row * 54 \/ Y = 474 + row * 54 + 48
    PROVE  Input!InBox(l, r, k, X, Y) <=> r = row /\ k = c
<1>0. row \in 0 .. 4 /\ r \in 0 .. 4 /\ c \in 0 .. RowLength(l, row) - 1
      /\ k \in 0 .. RowLength(l, r) - 1
  BY DEF Boxed
<1>1. PICK y \in Nat, v \in Nat : Input!KeyBox(l, r, k) = <<y, v>> /\ Edges(l, r, k, y, v)
  BY EdgesAre
<1>2. Input!InBox(l, r, k, X, Y)
      <=> X \in y .. y + v /\ Y \in 474 + r * 54 .. 474 + r * 54 + 48
  BY <1>1 DEF Input!InBox, Input!KeyTop, Input!KeyHeight
<1>3. Y \in 474 + r * 54 .. 474 + r * 54 + 48 <=> r = row
  BY <1>0
<1>4. ASSUME r = row, k # c PROVE X \notin y .. y + v
  <2>1. k \in Int /\ c \in Int /\ k \in 0 .. RowLength(l, row) - 1
    BY <1>0, <1>4
  <2>2. Edges(l, row, k, y, v)
    BY <1>1, <1>4
  <2>3. CASE c < k
    <3>1. x + w < y
      BY <1>0, <2>1, <2>2, <2>3, EdgesApart
    <3> QED
      BY <3>1
  <2>4. CASE k < c
    <3>1. y + v < x
      BY <1>0, <1>1, <2>1, <2>2, <2>4, EdgesApart
    <3> QED
      BY <1>1, <3>1
  <2> QED
    BY <1>4, <2>1, <2>3, <2>4
<1>5. ASSUME r = row, k = c PROVE X \in y .. y + v
  <2>1. y = x /\ v = w
    BY <1>1, <1>5
  <2> QED
    BY <2>1
<1> QED
  BY <1>2, <1>3, <1>4, <1>5

LEMMA KeyIsBoxed ==
    ASSUME NEW l \in InputLayouts, NEW p \in Input!Cells, Input!KeyOf(l, p) # "NONE"
    PROVE  /\ p \div 16 \in 0 .. 4 /\ p % 16 \in 0 .. 9 /\ p = (p \div 16) * 16 + (p % 16)
           /\ Boxed(l, p \div 16, p % 16)
           /\ Input!key_at(l, p \div 16, p % 16) # "NONE"
<1>1. p \div 16 \in 0 .. 4 /\ p % 16 \in 0 .. 15 /\ p = (p \div 16) * 16 + (p % 16)
  BY PositionIs
<1>2. Input!key_at(l, p \div 16, p % 16) # "NONE"
  BY DEF Input!KeyOf, Input!Stride
<1>3. p \div 16 \in Int /\ p % 16 \in Int
  BY <1>1
<1>4. p % 16 \in 0 .. RowLength(l, p \div 16) - 1
  BY <1>2, <1>3, KeyAtIs
<1>5. p % 16 \in 0 .. 9
  BY <1>4 DEF RowLength
<1> QED
  BY <1>1, <1>2, <1>4, <1>5 DEF Boxed

LEMMA HitsAre ==
    ASSUME NEW l, NEW X, NEW Y
    PROVE  \A q : q \in Input!keyboard_hit(l, X, Y) <=>
                     \E r \in 0 .. 4, k \in 0 .. 9 :
                         /\ Input!key_at(l, r, k) # "NONE"
                         /\ Input!InBox(l, r, k, X, Y) /\ q = r * 16 + k
BY DEF Input!keyboard_hit, Input!KeysOf, Input!KeyRows, Input!KeyColumns, Input!Stride

LEMMA CornerHits ==
    ASSUME NEW l \in InputLayouts, NEW row \in 0 .. 4, NEW c \in 0 .. 9,
           Boxed(l, row, c), Input!key_at(l, row, c) # "NONE",
           NEW x \in Nat, NEW w \in Nat, Input!KeyBox(l, row, c) = <<x, w>>,
           Edges(l, row, c, x, w),
           NEW X, X = x \/ X = x + w,
           NEW Y, Y = 474 + row * 54 \/ Y = 474 + row * 54 + 48
    PROVE  Input!keyboard_hit(l, X, Y) = {row * 16 + c}
<1>1. ASSUME NEW r \in 0 .. 4, NEW k \in 0 .. 9, Input!key_at(l, r, k) # "NONE"
      PROVE  Input!InBox(l, r, k, X, Y) <=> r = row /\ k = c
  <2>1. Boxed(l, r, k)
    <3>1. r \in Int /\ k \in Int
      OBVIOUS
    <3> QED
      BY <1>1, <3>1, KeyAtIs DEF Boxed
  <2> QED
    BY <2>1, CornerIsIn
<1>2. \A q : q \in Input!keyboard_hit(l, X, Y) <=>
                 \E r \in 0 .. 4, k \in 0 .. 9 :
                     /\ Input!key_at(l, r, k) # "NONE"
                     /\ Input!InBox(l, r, k, X, Y) /\ q = r * 16 + k
  BY HitsAre
<1>3. \A q : q \in Input!keyboard_hit(l, X, Y) <=> q = row * 16 + c
  BY <1>1, <1>2
<1> QED
  BY <1>3

LEMMA KeyIsHit ==
    ASSUME layout \in InputLayouts, selection \in Input!Cells,
           Input!KeyOf(layout, selection) # "NONE"
    PROVE  Input!TouchIsUnambiguous
<1> DEFINE row == selection \div 16
           c == selection % 16
           box == Input!KeyBox(layout, row, c)
<1>1. /\ row \in 0 .. 4 /\ c \in 0 .. 9 /\ selection = row * 16 + c
      /\ Boxed(layout, row, c) /\ Input!key_at(layout, row, c) # "NONE"
  BY KeyIsBoxed
<1> HIDE DEF row, c
<1>2. PICK x \in Nat, w \in Nat : box = <<x, w>> /\ Edges(layout, row, c, x, w)
  BY <1>1, EdgesAre
<1>3. x + w < 600
  <2>1. c \in 0 .. RowLength(layout, row) - 1
    BY <1>1 DEF Boxed
  <2> QED
    BY <1>1, <1>2, <2>1, EdgesApart
<1>4. \A X, Y : (X = x \/ X = x + w) /\ (Y = 474 + row * 54 \/ Y = 474 + row * 54 + 48)
                => Input!keyboard_hit(layout, X, Y) = {row * 16 + c}
  BY <1>1, <1>2, CornerHits
<1>5. box[1] = x /\ box[2] = w
  BY <1>2
<1>6. Input!KeyTop(row) = 474 + row * 54 /\ Input!KeyHeight = 48
  BY DEF Input!KeyTop, Input!KeyHeight
<1>7. Input!KeyTop(row) + Input!KeyHeight < 800
  BY <1>1, <1>6
<1>8. box[1] >= 0 /\ box[1] + box[2] < 600
  BY <1>3, <1>5
<1>9. \A X \in {box[1], box[1] + box[2]},
         Y \in {Input!KeyTop(row), Input!KeyTop(row) + Input!KeyHeight} :
         Input!keyboard_hit(layout, X, Y) = {row * 16 + c}
  <2>1. box[1] + box[2] = x + w
    BY <1>5
  <2>2. Input!KeyTop(row) + Input!KeyHeight = 474 + row * 54 + 48
    BY <1>6
  <2> HIDE DEF box
  <2> QED
    BY <1>4, <1>5, <1>6, <2>1, <2>2
<1> QED
  BY <1>1, <1>7, <1>8, <1>9, Zenon DEF row, c, Input!TouchIsUnambiguous, Input!Stride

-----------------------------------------------------------------------------
(* The highlighted position holds a key of the layout, and what is drawn is   *)
(* the field as it is.                                                      *)
InputInv ==
    /\ InputField(in) /\ inputShown = Input!Drawn(in)
    /\ layout \in InputLayouts /\ layout.caret = in.cursor_enabled
    /\ selection \in Input!Cells /\ Input!KeyOf(layout, selection) # "NONE"

LEMMA InputInitially == ASSUME Input!Init PROVE InputInv
<1>1. PICK enabled \in BOOLEAN :
         /\ in = Input!NewField(enabled) /\ inputShown = Input!Drawn(Input!NewField(enabled))
         /\ layout = [symbols |-> FALSE, shifted |-> FALSE, caret |-> enabled]
         /\ selection = 0
  BY Zenon DEF Input!Init
<1>2. InputField(in) /\ in.cursor_enabled = enabled /\ inputShown = Input!Drawn(in)
  BY <1>1, NewFieldIs
<1>3. layout \in InputLayouts /\ layout.caret = enabled
  BY <1>1 DEF InputLayouts
<1>4. selection \in Input!Cells /\ selection \div 16 = 0 /\ selection % 16 = 0
  BY <1>1, PositionIs
<1>5. Input!KeyOf(layout, selection) # "NONE"
  BY <1>3, <1>4, KeyAtIs DEF Input!KeyOf, Input!Stride
<1> QED
  BY <1>2, <1>3, <1>4, <1>5 DEF InputInv

(* What a key of the layout does to the field: it stays a field. *)
FieldNext ==
    InputField(in') /\ in'.cursor_enabled = in.cursor_enabled /\ inputShown' = Input!Drawn(in')

LEMMA BecomesKeeps ==
    ASSUME NEW f, InputField(f), f.cursor_enabled = in.cursor_enabled, Input!Becomes(f)
    PROVE  FieldNext
BY DEF Input!Becomes, FieldNext

LEMMA StillKeepsField ==
    ASSUME InputInv, UNCHANGED <<in, inputShown>>
    PROVE  FieldNext
BY DEF InputInv, FieldNext

LEMMA FieldFollows ==
    ASSUME InputInv, Input!Next
    PROVE  FieldNext
<1>0. InputField(in) /\ inputShown = Input!Drawn(in)
  BY DEF InputInv
<1>1. CASE Input!TouchValue
  <2>1. PICK x \in 0 .. Available : Input!Becomes(Input!place_cursor(in, inputShown, x))
    BY <1>1, Zenon DEF Input!TouchValue
  <2>2. x \in Nat
    BY InputConstants
  <2> QED
    BY <1>0, <2>1, <2>2, PlaceCursorKeeps, BecomesKeeps
<1>2. CASE Input!MoveSelection
  BY <1>2, StillKeepsField DEF Input!MoveSelection
<1>3. ASSUME NEW w \in CharWidths, Input!Becomes(Input!append(in, w)) PROVE FieldNext
  BY <1>0, <1>3, AppendKeeps, BecomesKeeps
<1>4. ASSUME Input!Becomes(Input!erase(in)) PROVE FieldNext
  BY <1>0, <1>4, EraseKeeps, BecomesKeeps
<1>5. ASSUME Input!Becomes(Input!move_cursor(in, -1)) PROVE FieldNext
  <2>1. -1 \in Int
    OBVIOUS
  <2> QED
    BY <1>0, <1>5, <2>1, MoveCursorKeeps, BecomesKeeps
<1>6. ASSUME Input!Becomes(Input!move_cursor(in, 1)) PROVE FieldNext
  <2>1. 1 \in Int
    OBVIOUS
  <2> QED
    BY <1>0, <1>6, <2>1, MoveCursorKeeps, BecomesKeeps
<1>7. ASSUME NEW p, Input!Activate(p) PROVE FieldNext
  <2>1. \/ \E w \in CharWidths : Input!Becomes(Input!append(in, w))
        \/ UNCHANGED <<in, inputShown>>
        \/ Input!Becomes(Input!erase(in))
        \/ Input!Becomes(Input!move_cursor(in, -1))
        \/ Input!Becomes(Input!move_cursor(in, 1))
    BY <1>7, Zenon DEF Input!Activate, Input!Letter, Input!Sign, Input!toggle_shift,
       Input!toggle_symbols, Input!EditingKey
  <2> QED
    BY <1>3, <1>4, <1>5, <1>6, <2>1, StillKeepsField
<1> QED
  BY <1>1, <1>2, <1>7, Zenon DEF Input!Next

(* The layout and the highlighted key. *)
KeysNext ==
    /\ layout' \in InputLayouts /\ layout'.caret = layout.caret
    /\ selection' \in Input!Cells /\ Input!KeyOf(layout', selection') # "NONE"

LEMMA SelectionFollows ==
    ASSUME InputInv, Input!MoveSelection
    PROVE  KeysNext
<1>1. PICK step \in {-1, 1} : selection' = Input!move(layout, selection, step)
  BY Zenon DEF Input!MoveSelection
<1>2. layout \in InputLayouts /\ selection \in Input!Cells
      /\ Input!KeyOf(layout, selection) # "NONE" /\ layout' = layout
  BY DEF InputInv, Input!MoveSelection
<1>3. step \in {1, -1}
  OBVIOUS
<1>4. selection' \in Input!Cells /\ Input!KeyOf(layout, selection') # "NONE"
  BY <1>1, <1>2, <1>3, MoveIs
<1> QED
  BY <1>2, <1>4 DEF KeysNext

LEMMA ActivatedKeyStays ==
    ASSUME InputInv, NEW p \in Input!Cells, Input!KeyOf(layout, p) # "NONE", Input!Activate(p)
    PROVE  KeysNext
<1>1. layout \in InputLayouts /\ selection' = p
  BY DEF InputInv, Input!Activate
<1>2. ASSUME layout' = layout PROVE KeysNext
  BY <1>1, <1>2 DEF KeysNext
<1>3. ASSUME layout' \in InputLayouts, layout'.caret = layout.caret,
             layout'.symbols = layout.symbols
      PROVE  KeysNext
  BY <1>1, <1>3, ShiftKeepsKeys DEF KeysNext
<1>4. CASE Input!Letter(p)
  <2>1. layout' = [layout EXCEPT !.shifted = @ /\ Input!Full(in)]
    BY <1>4, Zenon DEF Input!Letter, Input!ShiftAfter
  <2>2. (layout.shifted /\ Input!Full(in)) \in BOOLEAN
    BY Zenon
  <2>3. layout' \in InputLayouts /\ layout'.caret = layout.caret
        /\ layout'.symbols = layout.symbols
    BY <1>1, <2>1, <2>2, Zenon DEF InputLayouts
  <2> QED
    BY <1>3, <2>3
<1>5. CASE Input!Sign(p)
  BY <1>2, <1>5 DEF Input!Sign
<1>6. CASE Input!toggle_shift(p)
  <2>1. layout' = [layout EXCEPT !.shifted = ~@]
    BY <1>6, Zenon DEF Input!toggle_shift
  <2>2. (~layout.shifted) \in BOOLEAN
    BY Zenon
  <2>3. layout' \in InputLayouts /\ layout'.caret = layout.caret
        /\ layout'.symbols = layout.symbols
    BY <1>1, <2>1, <2>2, Zenon DEF InputLayouts
  <2> QED
    BY <1>3, <2>3
<1>7. CASE Input!toggle_symbols(p)
  <2>1. layout' = [layout EXCEPT !.symbols = ~@, !.shifted = FALSE]
        /\ Input!KeyOf(layout, p) = "SYMBOLS"
    BY <1>7, Zenon DEF Input!toggle_symbols
  <2>2. (~layout.symbols) \in BOOLEAN /\ FALSE \in BOOLEAN
    BY Zenon
  <2>3. layout' \in InputLayouts /\ layout'.caret = layout.caret
    BY <1>1, <2>1, <2>2, Zenon DEF InputLayouts
  <2>4. Input!KeyOf(layout', p) # "NONE"
    BY <1>1, <2>1, <2>3, SymbolsStays
  <2> QED
    BY <1>1, <2>3, <2>4 DEF KeysNext
<1>8. CASE Input!EditingKey(p)
  BY <1>2, <1>8 DEF Input!EditingKey
<1> QED
  BY <1>4, <1>5, <1>6, <1>7, <1>8, Zenon DEF Input!Activate

LEMMA KeysFollow ==
    ASSUME InputInv, Input!Next
    PROVE  KeysNext
<1>0. layout \in InputLayouts /\ selection \in Input!Cells
      /\ Input!KeyOf(layout, selection) # "NONE"
  BY DEF InputInv
<1>1. CASE Input!TouchValue
  BY <1>0, <1>1 DEF Input!TouchValue, KeysNext
<1>2. CASE Input!Activate(selection)
  BY <1>0, <1>2, ActivatedKeyStays
<1>3. ASSUME NEW p \in Input!Keys(layout), Input!Activate(p) PROVE KeysNext
  BY <1>0, <1>3, KeysAre, ActivatedKeyStays
<1> QED
  BY <1>1, <1>2, <1>3, SelectionFollows, Zenon DEF Input!Next

LEMMA InputStepKeeps == ASSUME InputInv, Input!Next PROVE InputInv'
<1>1. FieldNext /\ KeysNext
  BY FieldFollows, KeysFollow
<1>2. layout.caret = in.cursor_enabled
  BY DEF InputInv
<1> QED
  BY <1>1, <1>2, Zenon DEF FieldNext, KeysNext, InputInv

LEMMA InputStutters == ASSUME InputInv, UNCHANGED inputVars PROVE InputInv'
BY Zenon DEF InputInv, inputVars

(* The inductive invariant gives every property of the field and its keys.   *)
LEMMA InputInvGives ==
    ASSUME InputInv
    PROVE  /\ Input!TypeOK /\ Input!CaretIsShown /\ Input!TouchPlacesCaret
           /\ Input!ViewportContainsCaret /\ Input!SelectionIsAKey
           /\ Input!MovesAreInverse /\ Input!TouchIsUnambiguous
<1>0. /\ InputField(in) /\ inputShown = Input!Drawn(in)
      /\ layout \in InputLayouts /\ layout.caret = in.cursor_enabled
      /\ selection \in Input!Cells /\ Input!KeyOf(layout, selection) # "NONE"
  BY DEF InputInv
<1>1. Input!TypeOK
  <2>1. in.value \in Seq(CharWidths) /\ Input!Length(in) < BufferCapacity
        /\ in.cursor \in 0 .. Input!Length(in)
    BY <1>0, FieldHas DEF InputField
  <2>2. ~in.cursor_enabled => in.cursor = Input!Length(in)
    BY <1>0, FieldHas DEF InputField
  <2>3. layout \in [symbols : BOOLEAN, shifted : BOOLEAN, caret : {in.cursor_enabled}]
    BY <1>0 DEF InputLayouts
  <2> QED
    BY <1>0, <2>1, <2>2, <2>3, Zenon DEF Input!TypeOK
<1>2. Input!CaretIsShown /\ Input!TouchPlacesCaret /\ Input!ViewportContainsCaret
  BY <1>0, WindowShowsCaret, StopsPlaceCaret, ViewportShowsCaret
<1>3. Input!SelectionIsAKey
  BY <1>0, KeysAre DEF Input!SelectionIsAKey
<1>4. Input!MovesAreInverse
  <2>1. 1 \in {1, -1} /\ -1 \in {1, -1} /\ 1 # -1 /\ -1 # 1
    OBVIOUS
  <2> QED
    BY <1>0, <2>1, MoveComesBack DEF Input!MovesAreInverse
<1>5. Input!TouchIsUnambiguous
  BY <1>0, KeyIsHit
<1> QED
  BY <1>1, <1>2, <1>3, <1>4, <1>5

-----------------------------------------------------------------------------
(* The reading engine.                                                       *)

LEMMA Quotient ==
    ASSUME NEW t \in Nat, NEW f \in Nat \ {0}
    PROVE  f * (t \div f) + (t % f) = t /\ t % f \in 0 .. f - 1 /\ t \div f \in Nat
OBVIOUS

LEMMA QuotientIs ==
    ASSUME NEW c \in Nat, NEW r \in Nat, NEW f \in Nat \ {0}, r < f
    PROVE  (c * f + r) \div f = c
OBVIOUS

LEMMA QuotientGrows ==
    ASSUME NEW a \in Nat, NEW b \in Nat, a <= b, NEW f \in Nat \ {0}
    PROVE  a \div f <= b \div f
OBVIOUS

LEMMA EngineConstants ==
    /\ NoBook \notin Books /\ Points \in [Books -> Nat \ {0}]
    /\ \A s \in Engine!Sizes : s \in Nat /\ PerPage[s] \in Nat \ {0}
    /\ 0 \in Engine!Sizes /\ Default \in Engine!Sizes \ {0}
    /\ NoFont \notin Fonts /\ Broken \subseteq Fonts
BY EngineAssumption
   DEF EngineAssumption, Engine!BooksAssumption, Engine!PerPageAssumption,
       Engine!FontsAssumption, Engine!Sizes

(* A book has a page, and a place of it is on one of them. *)
LEMMA PagesOf ==
    ASSUME NEW b \in Books, NEW s \in Engine!Sizes
    PROVE  /\ Engine!PageCount(b, s) \in Nat \ {0}
           /\ \A p \in Nat : /\ Engine!PageAt(p, s) \in Nat
                             /\ p < Points[b] => Engine!PageAt(p, s) < Engine!PageCount(b, s)
<1> DEFINE f == PerPage[s]
           t == Points[b] + f - 1
<1>1. f \in Nat \ {0} /\ Points[b] \in Nat \ {0}
  BY EngineConstants
<1>2. Engine!PageCount(b, s) = t \div f /\ \A p : Engine!PageAt(p, s) = p \div f
  BY Zenon DEF Engine!PageCount, Engine!PageAt
<1> HIDE DEF f
<1>3. t \in Nat /\ f <= t
  BY <1>1
<1> HIDE DEF t
<1>4. f \div f = 1
  <2>1. 1 * f + 0 = f
    BY <1>1
  <2>2. (1 * f + 0) \div f = 1
    BY <1>1, QuotientIs
  <2> QED
    BY <2>1, <2>2
<1>5. t \div f \in Nat /\ 1 <= t \div f
  BY <1>1, <1>3, <1>4, Quotient, QuotientGrows
<1>6. ASSUME NEW p \in Nat, p < Points[b] PROVE p \div f < t \div f
  <2> DEFINE q == p \div f
             r == p % f
  <2>1. f * q + r = p /\ r \in 0 .. f - 1 /\ q \in Nat
    BY <1>1, Quotient
  <2> HIDE DEF q, r
  <2>2. (q + 1) * f + r = p + f
    <3>1. (q + 1) * f = f * q + f
      BY <1>1, <2>1
    <3>2. f * q \in Nat /\ r \in Nat
      BY <1>1, <2>1
    <3> QED
      BY <1>1, <2>1, <3>1, <3>2
  <2>3. ((q + 1) * f + r) \div f = q + 1
    <3>1. q + 1 \in Nat /\ r \in Nat /\ r < f
      BY <1>1, <2>1
    <3> QED
      BY <1>1, <3>1, QuotientIs
  <2>4. p + f \in Nat /\ p + f <= t
    BY <1>1, <1>6 DEF t
  <2>5. (p + f) \div f <= t \div f
    BY <1>1, <1>3, <2>4, QuotientGrows
  <2>6. q + 1 <= t \div f
    BY <2>2, <2>3, <2>5
  <2>7. q < t \div f
    BY <1>5, <2>1, <2>6
  <2> QED
    BY <2>7 DEF q
<1>7. \A p \in Nat : p \div f \in Nat
  BY <1>1, Quotient
<1> QED
  BY <1>2, <1>5, <1>6, <1>7

LEMMA EngineLarger ==
    ASSUME NEW m \in Int, NEW n \in Int
    PROVE  Engine!Max({m, n}) = IF m < n THEN n ELSE m
<1>1. \E x \in {m, n} : \A y \in {m, n} : x >= y
  OBVIOUS
<1>2. Engine!Max({m, n}) \in {m, n} /\ \A y \in {m, n} : Engine!Max({m, n}) >= y
  BY <1>1, Zenon DEF Engine!Max
<1> QED
  BY <1>2

LEMMA EngineSmaller ==
    ASSUME NEW m \in Int, NEW n \in Int
    PROVE  Engine!Min({m, n}) = IF m < n THEN m ELSE n
<1>1. \E x \in {m, n} : \A y \in {m, n} : x <= y
  OBVIOUS
<1>2. Engine!Min({m, n}) \in {m, n} /\ \A y \in {m, n} : Engine!Min({m, n}) <= y
  BY <1>1, Zenon DEF Engine!Min
<1> QED
  BY <1>2

(* What a caller knows of an open book and of its place in it. *)
BookState ==
    /\ doc \in Books \cup {NoBook} /\ size \in Engine!Sizes \ {0}
    /\ wanted \in Nat \cup {-1}
    /\ doc = NoBook => pages = 0 /\ enginePage = 0 /\ reported = -1
    /\ doc # NoBook => /\ pages = Engine!PageCount(doc, size)
                       /\ enginePage \in 0 .. pages - 1
                       /\ engineShown = enginePage /\ reported = enginePage
    /\ wanted # -1 => enginePage = Engine!PageAt(wanted, size)

(* And of the settings and the position it keeps. *)
SettingState ==
    /\ cfg \in [font : Fonts \cup {NoFont}, size : Engine!Sizes]
    /\ registered \subseteq Fonts \ Broken /\ last \in registered \cup {NoFont}
    /\ position \in [book : Books \cup {NoBook}, point : Nat]
    /\ result \in {-1, 0}

EngineInv == BookState /\ SettingState

LEMMA EngineInitially == ASSUME Engine!Init PROVE EngineInv
<1>1. BookState
  BY EngineConstants DEF Engine!Init, BookState
<1>2. cfg \in [font : Fonts \cup {NoFont}, size : Engine!Sizes]
  BY EngineConstants DEF Engine!Init
<1>3. position \in [book : Books \cup {NoBook}, point : Nat]
  BY DEF Engine!Init, Engine!NoPosition
<1> QED
  BY <1>1, <1>2, <1>3 DEF Engine!Init, EngineInv, SettingState

LEMMA RelayoutGives ==
    ASSUME NEW b \in Books, NEW s \in Engine!Sizes \ {0}, doc' = b, wanted' = -1,
           Engine!relayout(b, s)
    PROVE  BookState'
<1>1. /\ size' = s /\ engineShown' = 0 /\ enginePage' = 0 /\ reported' = 0
      /\ pages' = Engine!Max({1, Engine!PageCount(b, s)})
  BY Zenon DEF Engine!relayout
<1>2. Engine!PageCount(b, s) \in Nat \ {0}
  BY PagesOf
<1>3. pages' = Engine!PageCount(b, s)
  BY <1>1, <1>2, EngineLarger
<1>4. b # NoBook
  BY EngineConstants
<1>5. 0 \in 0 .. pages' - 1
  BY <1>2, <1>3
<1>6. Engine!PageCount(b, s) = Engine!PageCount(doc, size)'
  BY <1>1 DEF Engine!PageCount
<1>7. wanted' \in Nat \cup {-1}
  OBVIOUS
<1> QED
  BY <1>1, <1>3, <1>4, <1>5, <1>6, <1>7, Zenon DEF BookState

LEMMA NoBookGives ==
    ASSUME doc' = NoBook, pages' = 0, enginePage' = 0, size' = Default, reported' = -1,
           wanted' = -1
    PROVE  BookState'
BY EngineConstants DEF BookState

LEMMA BookStays ==
    ASSUME BookState, UNCHANGED <<doc, pages, enginePage, size, engineShown, reported, wanted>>
    PROVE  BookState'
BY Zenon DEF BookState, Engine!PageCount, Engine!PageAt

(* The page moves within the book. *)
LEMMA MoveGives ==
    ASSUME BookState, doc # NoBook, NEW n \in 0 .. pages - 1, Engine!MovedTo(n),
           UNCHANGED <<doc, pages, size>>, wanted' \in Nat \cup {-1},
           wanted' # -1 => n = Engine!PageAt(wanted', size)
    PROVE  BookState'
<1>1. enginePage' = n /\ engineShown' = n /\ reported' = n
  BY Zenon DEF Engine!MovedTo
<1>2. Engine!PageCount(doc, size)' = Engine!PageCount(doc, size)
      /\ Engine!PageAt(wanted, size)' = Engine!PageAt(wanted', size)
  BY DEF Engine!PageCount, Engine!PageAt
<1> QED
  BY <1>1, <1>2, Zenon DEF BookState

LEMMA BookFollows == ASSUME EngineInv, Engine!Next PROVE BookState'
<1>0. BookState /\ SettingState
  BY DEF EngineInv
<1>1. CASE Engine!cn_reader_new
  BY <1>0, <1>1, BookStays DEF Engine!cn_reader_new, Engine!docVars
<1>2. CASE Engine!cn_reader_open
  <2>1. wanted' = -1
        /\ \E b \in Books :
              \/ doc' = b /\ Engine!relayout(b, Engine!SizeAfter(cfg.size, Default))
              \/ doc' = NoBook /\ pages' = 0 /\ enginePage' = 0 /\ size' = Default
                 /\ reported' = -1
    BY <1>2, Zenon DEF Engine!cn_reader_open
  <2>2. Engine!SizeAfter(cfg.size, Default) \in Engine!Sizes \ {0}
    BY <1>0, EngineConstants DEF SettingState, Engine!SizeAfter
  <2> QED
    BY <2>1, <2>2, RelayoutGives, NoBookGives
<1>3. CASE Engine!cn_reader_close
  BY <1>3, NoBookGives DEF Engine!cn_reader_close
<1>4. CASE Engine!cn_reader_apply_config
  <2>1. PICK c \in [font : Fonts \cup {NoFont}, size : Engine!Sizes] :
           \/ /\ wanted' = -1
              /\ IF Engine!Open THEN Engine!relayout(doc, Engine!SizeAfter(c.size, size))
                 ELSE UNCHANGED <<pages, enginePage, size, engineShown, reported>>
           \/ UNCHANGED <<pages, enginePage, size, engineShown, reported, wanted>>
    BY <1>4, Zenon DEF Engine!cn_reader_apply_config
  <2>2. doc' = doc
    BY <1>4, Zenon DEF Engine!cn_reader_apply_config
  <2>3. CASE wanted' = -1 /\ Engine!Open /\ Engine!relayout(doc, Engine!SizeAfter(c.size, size))
    <3>1. Engine!SizeAfter(c.size, size) \in Engine!Sizes \ {0}
      BY <1>0, EngineConstants DEF BookState, Engine!SizeAfter
    <3>2. doc \in Books
      BY <1>0, <2>3 DEF BookState, Engine!Open
    <3> QED
      BY <2>2, <2>3, <3>1, <3>2, RelayoutGives
  <2>4. CASE wanted' = -1 /\ ~Engine!Open
             /\ UNCHANGED <<pages, enginePage, size, engineShown, reported>>
    BY <1>0, <2>2, <2>4 DEF BookState, Engine!Open
  <2>5. CASE UNCHANGED <<pages, enginePage, size, engineShown, reported, wanted>>
    BY <1>0, <2>2, <2>5, BookStays
  <2> QED
    BY <2>1, <2>3, <2>4, <2>5
<1>5. ASSUME NEW n \in -1 .. Engine!MaxPages, Engine!cn_reader_go(n) PROVE BookState'
  <2>1. doc # NoBook /\ UNCHANGED <<doc, pages, size>>
    BY <1>5, Zenon DEF Engine!cn_reader_go, Engine!Open
  <2>2. CASE Engine!MovedTo(Engine!Clamped(n)) /\ wanted' = -1
    <3>1. pages \in Nat \ {0} /\ n \in Int
      BY <1>0, <2>1, PagesOf DEF BookState
    <3> DEFINE m == Engine!Min({n, pages - 1})
    <3>2. m = IF n < pages - 1 THEN n ELSE pages - 1
      BY <3>1, EngineSmaller
    <3> HIDE DEF m
    <3>3. m \in Int
      BY <3>1, <3>2
    <3>4. Engine!Max({0, m}) = IF 0 < m THEN m ELSE 0
      BY <3>3, EngineLarger
    <3>5. Engine!Clamped(n) = Engine!Max({0, m})
      BY Zenon DEF m, Engine!Clamped
    <3>6. Engine!Clamped(n) \in 0 .. pages - 1
      BY <3>1, <3>2, <3>4, <3>5
    <3> QED
      BY <1>0, <2>1, <2>2, <3>6, MoveGives
  <2>3. CASE UNCHANGED <<enginePage, engineShown, reported, wanted>>
    BY <1>0, <2>1, <2>3, BookStays
  <2> QED
    BY <1>5, <2>2, <2>3, Zenon DEF Engine!cn_reader_go
<1>6. CASE Engine!cn_reader_get_position
  BY <1>0, <1>6, BookStays DEF Engine!cn_reader_get_position, Engine!docVars
<1>7. CASE Engine!cn_reader_goto_position
  <2>1. CASE /\ doc # NoBook /\ position.point < Points[doc]
             /\ Engine!MovedTo(Engine!PageAt(position.point, size))
             /\ wanted' = position.point /\ UNCHANGED <<doc, pages, size>>
    <3>1. position.point \in Nat /\ doc \in Books /\ size \in Engine!Sizes
      BY <1>0, <2>1 DEF BookState, SettingState
    <3>2. pages = Engine!PageCount(doc, size) /\ pages \in Nat
          /\ Engine!PageAt(position.point, size) \in Nat
          /\ Engine!PageAt(position.point, size) < pages
      BY <1>0, <2>1, <3>1, PagesOf DEF BookState
    <3>3. Engine!PageAt(position.point, size) \in 0 .. pages - 1
      BY <3>2
    <3> QED
      BY <1>0, <2>1, <3>1, <3>3, MoveGives
  <2>2. CASE UNCHANGED <<doc, pages, enginePage, size, engineShown, reported, wanted>>
    BY <1>0, <2>2, BookStays
  <2> QED
    BY <1>7, <2>1, <2>2, Zenon DEF Engine!cn_reader_goto_position, Engine!Open,
       Engine!Resolves, Engine!docVars
<1>8. CASE Engine!ForgetPosition
  BY <1>0, <1>8, BookStays DEF Engine!ForgetPosition, Engine!docVars
<1> QED
  BY <1>1, <1>2, <1>3, <1>4, <1>5, <1>6, <1>7, <1>8, Zenon DEF Engine!Next

LEMMA SettingsFollow == ASSUME EngineInv, Engine!Next PROVE SettingState'
<1>0. /\ BookState
      /\ cfg \in [font : Fonts \cup {NoFont}, size : Engine!Sizes]
      /\ registered \subseteq Fonts \ Broken /\ last \in registered \cup {NoFont}
      /\ position \in [book : Books \cup {NoBook}, point : Nat]
      /\ result \in {-1, 0}
  BY DEF EngineInv, SettingState
<1>1. cfg' \in [font : Fonts \cup {NoFont}, size : Engine!Sizes]
  <2>1. cfg' = cfg \/ cfg' \in [font : Fonts \cup {NoFont}, size : Engine!Sizes]
    BY Zenon DEF Engine!Next, Engine!cn_reader_new, Engine!cn_reader_open,
       Engine!cn_reader_close, Engine!cn_reader_apply_config, Engine!cn_reader_go,
       Engine!cn_reader_get_position, Engine!cn_reader_goto_position, Engine!ForgetPosition
  <2> QED
    BY <1>0, <2>1, Zenon
<1>2. registered' \subseteq Fonts \ Broken /\ last' \in registered' \cup {NoFont}
  <2>1. \/ registered' = registered /\ last' = last
        \/ \E f \in Fonts \cup {NoFont} : Engine!ensure_font(f)
    BY Zenon DEF Engine!Next, Engine!cn_reader_new, Engine!cn_reader_open,
       Engine!cn_reader_close, Engine!cn_reader_apply_config, Engine!cn_reader_go,
       Engine!cn_reader_get_position, Engine!cn_reader_goto_position, Engine!ForgetPosition,
       Engine!fontVars
  <2>2. ASSUME NEW f \in Fonts \cup {NoFont}, Engine!ensure_font(f),
               ~(registered' = registered /\ last' = last)
        PROVE  registered' = registered \cup {f} /\ last' = f /\ f \in Fonts \ Broken
    BY <2>2 DEF Engine!ensure_font, Engine!FontReady, Engine!CanRegister, Engine!fontVars
  <2> QED
    BY <1>0, <2>1, <2>2
<1>3. position' \in [book : Books \cup {NoBook}, point : Nat]
  <2>1. \/ position' = position \/ position' = Engine!NoPosition
        \/ /\ doc # NoBook
           /\ position' = [book |-> doc, point |-> engineShown * PerPage[size]]
    BY Zenon DEF Engine!Next, Engine!cn_reader_new, Engine!cn_reader_open,
       Engine!cn_reader_close, Engine!cn_reader_apply_config, Engine!cn_reader_go,
       Engine!cn_reader_get_position, Engine!cn_reader_goto_position, Engine!ForgetPosition,
       Engine!Open
  <2>2. CASE doc # NoBook /\ position' = [book |-> doc, point |-> engineShown * PerPage[size]]
    <3>1. engineShown \in Nat /\ PerPage[size] \in Nat /\ doc \in Books
      BY <1>0, <2>2, EngineConstants, PagesOf DEF BookState
    <3>2. engineShown * PerPage[size] \in Nat
      BY <3>1
    <3> QED
      BY <2>2, <3>1, <3>2
  <2> QED
    BY <1>0, <2>1, <2>2 DEF Engine!NoPosition
<1>4. result' \in {-1, 0}
  <2>1. result' = result \/ result' = 0 \/ result' = -1
    BY Zenon DEF Engine!Next, Engine!cn_reader_new, Engine!cn_reader_open,
       Engine!cn_reader_close, Engine!cn_reader_apply_config, Engine!cn_reader_go,
       Engine!cn_reader_get_position, Engine!cn_reader_goto_position, Engine!ForgetPosition,
       Engine!Returns
  <2> QED
    BY <1>0, <2>1
<1> QED
  BY <1>1, <1>2, <1>3, <1>4, Zenon DEF SettingState

LEMMA EngineStepKeeps == ASSUME EngineInv, Engine!Next PROVE EngineInv'
BY BookFollows, SettingsFollow DEF EngineInv

LEMMA EngineStutters == ASSUME EngineInv, UNCHANGED engineVars PROVE EngineInv'
BY Zenon DEF EngineInv, BookState, SettingState, engineVars, Engine!PageCount, Engine!PageAt

LEMMA EngineInvGives ==
    ASSUME EngineInv
    PROVE  /\ Engine!TypeOK /\ Engine!CountIsCurrent /\ Engine!OnePage
           /\ Engine!RestoredIsVisible
<1>1. Engine!TypeOK
  BY Zenon DEF EngineInv, BookState, SettingState, Engine!TypeOK, Engine!Open
<1> QED
  BY <1>1, Zenon DEF EngineInv, BookState, Engine!CountIsCurrent, Engine!OnePage,
     Engine!RestoredIsVisible, Engine!Open

-----------------------------------------------------------------------------
(* The order of the library: Compare is a total order on sequences of        *)
(* numbers, and book_cmp one on the books.                                   *)

(* a is before b: smaller where they first differ, or the beginning of it. *)
Below(a, b) ==
    \/ \E i \in 1 .. Len(a) : i <= Len(b) /\ a[i] < b[i] /\ \A j \in 1 .. i - 1 : a[j] = b[j]
    \/ Len(a) < Len(b) /\ \A j \in 1 .. Len(a) : a[j] = b[j]

LEMMA SameSequence ==
    ASSUME NEW a \in Seq(Int), NEW b \in Seq(Int), Len(a) = Len(b),
           \A i \in 1 .. Len(a) : a[i] = b[i]
    PROVE  a = b
OBVIOUS

(* Where two sequences first differ. *)
LEMMA CompareDiffer ==
    ASSUME NEW a \in Seq(Int), NEW b \in Seq(Int),
           NEW d \in 1 .. Len(a), d <= Len(b), a[d] # b[d]
    PROVE  \E i \in 1 .. Len(a) :
               /\ i <= Len(b) /\ a[i] # b[i] /\ \A j \in 1 .. i - 1 : a[j] = b[j]
               /\ Library!Compare(a, b) = IF a[i] < b[i] THEN -1 ELSE 1
<1>0. Len(a) \in Nat /\ Len(b) \in Nat
  OBVIOUS
<1> DEFINE differ == {i \in 1 .. Len(a) : i <= Len(b) /\ a[i] # b[i]}
           i == CHOOSE i \in differ : \A j \in differ : i <= j
<1>1. differ \in SUBSET Nat /\ differ # {}
  OBVIOUS
<1>2. Library!Compare(a, b) = IF a[i] < b[i] THEN -1 ELSE 1
  <2>1. differ # {}
    BY <1>1
  <2> QED
    BY <2>1, Zenon DEF Library!Compare
<1> HIDE DEF differ
<1>3. i \in differ /\ \A j \in differ : i <= j
  BY <1>1, Least
<1> HIDE DEF i
<1>4. i \in 1 .. Len(a) /\ i <= Len(b) /\ a[i] # b[i]
  BY <1>3 DEF differ
<1>5. ASSUME NEW j \in 1 .. i - 1 PROVE a[j] = b[j]
  <2> DEFINE la == Len(a)
             lb == Len(b)
  <2>0. la \in Nat /\ lb \in Nat /\ i \in 1 .. la /\ i <= lb /\ j \in 1 .. i - 1
    BY <1>0, <1>4, Zenon
  <2> HIDE DEF la, lb
  <2>a. j \in 1 .. la /\ j <= lb /\ ~(i <= j)
    BY <2>0
  <2>1. j \in 1 .. Len(a) /\ j <= Len(b) /\ ~(i <= j)
    BY <2>a, Zenon DEF la, lb
  <2>2. j \notin differ
    BY <1>3, <2>1
  <2> QED
    BY <2>1, <2>2 DEF differ
<1> QED
  BY <1>2, <1>4, <1>5

LEMMA CompareAlike ==
    ASSUME NEW a \in Seq(Int), NEW b \in Seq(Int),
           \A i \in 1 .. Len(a) : i <= Len(b) => a[i] = b[i]
    PROVE  Library!Compare(a, b) =
               IF Len(a) = Len(b) THEN 0 ELSE IF Len(a) < Len(b) THEN -1 ELSE 1
<1>1. {i \in 1 .. Len(a) : i <= Len(b) /\ a[i] # b[i]} = {}
  OBVIOUS
<1> QED
  BY <1>1, Zenon DEF Library!Compare

LEMMA BelowIsOneWay ==
    ASSUME NEW a \in Seq(Int), NEW b \in Seq(Int), Below(a, b)
    PROVE  ~Below(b, a) /\ a # b
<1>0. Len(a) \in Nat /\ Len(b) \in Nat
  OBVIOUS
<1>1. ASSUME NEW i \in 1 .. Len(a), i <= Len(b), a[i] < b[i], \A j \in 1 .. i - 1 : a[j] = b[j]
      PROVE  ~Below(b, a) /\ a # b
  <2>1. a[i] \in Int /\ b[i] \in Int /\ i \in 1 .. Len(b)
    BY <1>0, <1>1
  <2>2. ASSUME NEW k \in 1 .. Len(b), k <= Len(a), b[k] < a[k], \A j \in 1 .. k - 1 : b[j] = a[j]
        PROVE  FALSE
    <3>1. a[k] \in Int /\ b[k] \in Int
      BY <1>0, <2>2
    <3>2. CASE i < k
      <4>1. i \in 1 .. k - 1
        BY <3>2
      <4> QED
        BY <1>1, <2>1, <2>2, <4>1
    <3>3. CASE k < i
      <4>1. k \in 1 .. i - 1
        BY <3>3
      <4> QED
        BY <1>1, <2>2, <3>1, <4>1
    <3>4. CASE k = i
      BY <1>1, <2>1, <2>2, <3>4
    <3> QED
      BY <3>2, <3>3, <3>4
  <2>3. ~(Len(b) < Len(a) /\ \A j \in 1 .. Len(b) : b[j] = a[j])
    BY <1>1, <2>1
  <2>4. a # b
    BY <1>1, <2>1
  <2> QED
    BY <2>2, <2>3, <2>4, Zenon DEF Below
<1>2. ASSUME Len(a) < Len(b), \A j \in 1 .. Len(a) : a[j] = b[j]
      PROVE  ~Below(b, a) /\ a # b
  <2>1. ASSUME NEW k \in 1 .. Len(b), k <= Len(a), b[k] < a[k]
        PROVE  FALSE
    <3>1. k \in 1 .. Len(a) /\ a[k] \in Int
      BY <1>0, <2>1
    <3> QED
      BY <1>2, <2>1, <3>1
  <2>2. ~(Len(b) < Len(a)) /\ a # b
    BY <1>0, <1>2
  <2> QED
    BY <2>1, <2>2, Zenon DEF Below
<1> QED
  BY <1>1, <1>2, Zenon DEF Below

(* One of two sequences is before the other, or they are the same. *)
CompareSays(a, b) ==
    \/ Library!Compare(a, b) = -1 /\ Below(a, b)
    \/ Library!Compare(a, b) = 0 /\ a = b
    \/ Library!Compare(a, b) = 1 /\ Below(b, a)

LEMMA CompareIs ==
    ASSUME NEW a \in Seq(Int), NEW b \in Seq(Int)
    PROVE  CompareSays(a, b)
<1>0. Len(a) \in Nat /\ Len(b) \in Nat
  OBVIOUS
<1>1. ASSUME NEW d \in 1 .. Len(a), d <= Len(b), a[d] # b[d] PROVE CompareSays(a, b)
  <2>1. PICK i \in 1 .. Len(a) :
               /\ i <= Len(b) /\ a[i] # b[i] /\ \A j \in 1 .. i - 1 : a[j] = b[j]
               /\ Library!Compare(a, b) = IF a[i] < b[i] THEN -1 ELSE 1
    BY <1>1, CompareDiffer
  <2>2. a[i] \in Int /\ b[i] \in Int /\ i \in 1 .. Len(b) /\ i <= Len(a)
    BY <1>0, <2>1
  <2>3. CASE a[i] < b[i]
    BY <2>1, <2>3 DEF CompareSays, Below
  <2>4. CASE b[i] < a[i]
    <3>1. \A j \in 1 .. i - 1 : b[j] = a[j]
      BY <2>1
    <3>2. Below(b, a)
      BY <2>2, <2>4, <3>1 DEF Below
    <3>3. Library!Compare(a, b) = 1
      BY <2>1, <2>2, <2>4
    <3> QED
      BY <3>2, <3>3 DEF CompareSays
  <2> QED
    BY <2>1, <2>2, <2>3, <2>4
<1>2. ASSUME \A i \in 1 .. Len(a) : i <= Len(b) => a[i] = b[i] PROVE CompareSays(a, b)
  <2>1. Library!Compare(a, b) =
               IF Len(a) = Len(b) THEN 0 ELSE IF Len(a) < Len(b) THEN -1 ELSE 1
    BY <1>2, CompareAlike
  <2>2. CASE Len(a) = Len(b)
    <3>1. a = b
      BY <1>0, <1>2, <2>2, SameSequence
    <3> QED
      BY <2>1, <2>2, <3>1 DEF CompareSays
  <2>3. CASE Len(a) < Len(b)
    <3>1. \A j \in 1 .. Len(a) : a[j] = b[j]
      <4>1. \A j \in 1 .. Len(a) : j <= Len(b)
        BY <1>0, <2>3
      <4> QED
        BY <1>2, <4>1
    <3> QED
      BY <1>0, <2>1, <2>3, <3>1 DEF CompareSays, Below
  <2>4. CASE Len(b) < Len(a)
    <3>1. \A j \in 1 .. Len(b) : b[j] = a[j]
      <4>1. \A j \in 1 .. Len(b) : j \in 1 .. Len(a) /\ j <= Len(b)
        BY <1>0, <2>4
      <4> QED
        BY <1>2, <4>1
    <3>2. Below(b, a)
      BY <2>4, <3>1 DEF Below
    <3>3. Library!Compare(a, b) = 1
      BY <1>0, <2>1, <2>4
    <3> QED
      BY <3>2, <3>3 DEF CompareSays
  <2> QED
    BY <1>0, <2>2, <2>3, <2>4
<1> QED
  BY <1>1, <1>2

LEMMA CompareMeans ==
    ASSUME NEW a \in Seq(Int), NEW b \in Seq(Int)
    PROVE  /\ Library!Compare(a, b) \in {-1, 0, 1}
           /\ Library!Compare(a, b) = -1 <=> Below(a, b)
           /\ Library!Compare(a, b) = 0 <=> a = b
           /\ Library!Compare(a, b) = 1 <=> Below(b, a)
<1>1. CompareSays(a, b)
  BY CompareIs
<1>2. Below(a, b) => ~Below(b, a) /\ a # b
  BY BelowIsOneWay
<1>3. Below(b, a) => ~Below(a, b) /\ b # a
  BY BelowIsOneWay
<1>4. -1 # 0 /\ 0 # 1 /\ -1 # 1
  OBVIOUS
<1> QED
  BY <1>1, <1>2, <1>3, <1>4, Zenon DEF CompareSays

LEMMA BelowIsTransitive ==
    ASSUME NEW a \in Seq(Int), NEW b \in Seq(Int), NEW c \in Seq(Int), Below(a, b), Below(b, c)
    PROVE  Below(a, c)
<1>0. Len(a) \in Nat /\ Len(b) \in Nat /\ Len(c) \in Nat
  OBVIOUS
<1> DEFINE Less(x, y, i) == /\ i \in 1 .. Len(x) /\ i <= Len(y) /\ x[i] < y[i]
                            /\ \A j \in 1 .. i - 1 : x[j] = y[j]
           Starts(x, y) == Len(x) < Len(y) /\ \A j \in 1 .. Len(x) : x[j] = y[j]
<1>d. \A x, y : Below(x, y) <=> (\E i \in 1 .. Len(x) : Less(x, y, i)) \/ Starts(x, y)
  BY Zenon DEF Below
<1>1. ASSUME NEW i \in 1 .. Len(a), Less(a, b, i), NEW k \in 1 .. Len(b), Less(b, c, k)
      PROVE  Below(a, c)
  <2>1. a[i] \in Int /\ b[i] \in Int /\ i \in 1 .. Len(b) /\ b[k] \in Int /\ c[k] \in Int
    BY <1>0, <1>1
  <2>2. CASE i <= k
    <3>1. i <= Len(c) /\ c[i] \in Int
      BY <1>0, <1>1, <2>2
    <3>2. a[i] < c[i]
      <4>1. i = k \/ i \in 1 .. k - 1
        BY <2>2
      <4>2. a[i] < b[i] /\ b[k] < c[k] /\ (i \in 1 .. k - 1 => b[i] = c[i])
        BY <1>1
      <4>3. i = k => b[i] < c[i]
        BY <4>2, Zenon
      <4>4. b[i] <= c[i]
        BY <2>1, <3>1, <4>1, <4>2, <4>3
      <4> QED
        BY <2>1, <3>1, <4>2, <4>4
    <3>3. \A j \in 1 .. i - 1 : j \in 1 .. k - 1
      BY <2>2
    <3>4. \A j \in 1 .. i - 1 : a[j] = c[j]
      BY <1>1, <3>3
    <3> QED
      BY <3>1, <3>2, <3>4 DEF Below
  <2>3. CASE k < i
    <3>1. k \in 1 .. i - 1 /\ k \in 1 .. Len(a) /\ k <= Len(c)
      BY <1>0, <1>1, <2>3
    <3>2. a[k] < c[k]
      BY <1>1, <3>1
    <3>3. \A j \in 1 .. k - 1 : j \in 1 .. i - 1
      BY <2>3
    <3>4. \A j \in 1 .. k - 1 : a[j] = c[j]
      BY <1>1, <3>3
    <3> QED
      BY <3>1, <3>2, <3>4 DEF Below
  <2> QED
    BY <2>2, <2>3
<1>2. ASSUME NEW i \in 1 .. Len(a), Less(a, b, i), Starts(b, c) PROVE Below(a, c)
  <2>1. i \in 1 .. Len(b) /\ i <= Len(c) /\ a[i] < c[i]
    BY <1>0, <1>2
  <2>2. \A j \in 1 .. i - 1 : j \in 1 .. Len(b)
    BY <1>0, <2>1
  <2>3. \A j \in 1 .. i - 1 : a[j] = c[j]
    BY <1>2, <2>2
  <2> QED
    BY <2>1, <2>3 DEF Below
<1>3. ASSUME Starts(a, b), NEW k \in 1 .. Len(b), Less(b, c, k) PROVE Below(a, c)
  <2>1. CASE k <= Len(a)
    <3>1. k \in 1 .. Len(a) /\ k <= Len(c) /\ a[k] < c[k]
      BY <1>0, <1>3, <2>1
    <3>2. \A j \in 1 .. k - 1 : j \in 1 .. Len(a)
      BY <1>0, <3>1
    <3>3. \A j \in 1 .. k - 1 : a[j] = c[j]
      BY <1>3, <3>2
    <3> QED
      BY <3>1, <3>3 DEF Below
  <2>2. CASE Len(a) < k
    <3>1. Len(a) < Len(c)
      BY <1>0, <1>3, <2>2
    <3>2. \A j \in 1 .. Len(a) : j \in 1 .. k - 1
      BY <1>0, <2>2
    <3>3. \A j \in 1 .. Len(a) : a[j] = c[j]
      BY <1>3, <3>2
    <3> QED
      BY <3>1, <3>3 DEF Below
  <2> QED
    BY <1>0, <2>1, <2>2
<1>4. ASSUME Starts(a, b), Starts(b, c) PROVE Below(a, c)
  <2>1. Len(a) < Len(c) /\ \A j \in 1 .. Len(a) : j \in 1 .. Len(b)
    BY <1>0, <1>4
  <2>2. \A j \in 1 .. Len(a) : a[j] = c[j]
    BY <1>4, <2>1
  <2> QED
    BY <2>1, <2>2 DEF Below
<1> HIDE DEF Less, Starts
<1> QED
  BY <1>d, <1>1, <1>2, <1>3, <1>4, Zenon

-----------------------------------------------------------------------------
(* Folding gives numbers.                                                    *)
Bytes == 1 .. 255

FoldStep(s, i, f) ==
    IF i > Len(s) THEN <<>>
    ELSE IF s[i] \in {208, 209} /\ i < Len(s)
    THEN <<Library!FoldPair(s[i], s[i + 1])>> \o f[i + 2]
    ELSE <<Library!ascii_lower(s[i])>> \o f[i + 1]

LEMMA FoldedNumbers ==
    /\ \A c \in {208, 209}, b \in Bytes : Library!FoldPair(c, b) \in Int
    /\ \A c \in Bytes : Library!ascii_lower(c) \in Int
<1>1. ASSUME NEW c \in {208, 209}, NEW b \in Bytes PROVE Library!FoldPair(c, b) \in Int
  BY <1>1 DEF Library!FoldPair, Bytes
<1>2. ASSUME NEW c \in Bytes PROVE Library!ascii_lower(c) \in Int
  BY <1>2 DEF Library!ascii_lower, Bytes
<1> QED
  BY <1>1, <1>2

LEMMA PutBefore ==
    ASSUME NEW x \in Int, NEW t \in Seq(Int)
    PROVE  <<x>> \o t \in Seq(Int)
<1>1. <<x>> \in Seq(Int)
  OBVIOUS
<1> QED
  BY <1>1

(* One step is a sequence of numbers, if what it is put before is one. *)
LEMMA FoldStepIs ==
    ASSUME NEW s \in Seq(Bytes), NEW i \in 1 .. Len(s) + 1, NEW f,
           i <= Len(s) => f[i + 1] \in Seq(Int),
           i < Len(s) => f[i + 2] \in Seq(Int)
    PROVE  FoldStep(s, i, f) \in Seq(Int)
<1>1. CASE i > Len(s)
  BY <1>1 DEF FoldStep
<1>2. CASE i <= Len(s) /\ s[i] \in {208, 209} /\ i < Len(s)
  <2>1. s[i + 1] \in Bytes
    BY <1>2
  <2>2. Library!FoldPair(s[i], s[i + 1]) \in Int
    BY <1>2, <2>1, FoldedNumbers
  <2>3. ~(i > Len(s)) /\ f[i + 2] \in Seq(Int)
    BY <1>2
  <2>4. FoldStep(s, i, f) = <<Library!FoldPair(s[i], s[i + 1])>> \o f[i + 2]
    BY <1>2, <2>3, Zenon DEF FoldStep
  <2> QED
    BY <2>2, <2>3, <2>4, PutBefore
<1>3. CASE i <= Len(s) /\ ~(s[i] \in {208, 209} /\ i < Len(s))
  <2>1. s[i] \in Bytes /\ ~(i > Len(s)) /\ f[i + 1] \in Seq(Int)
    BY <1>3
  <2>2. Library!ascii_lower(s[i]) \in Int
    BY <2>1, FoldedNumbers
  <2>4. FoldStep(s, i, f) = <<Library!ascii_lower(s[i])>> \o f[i + 1]
    BY <1>3, <2>1, Zenon DEF FoldStep
  <2> QED
    BY <2>1, <2>2, <2>4, PutBefore
<1> QED
  BY <1>1, <1>2, <1>3

LEMMA FoldStepReads ==
    ASSUME NEW s, NEW i, NEW f, NEW g,
           i <= Len(s) => f[i + 1] = g[i + 1], i < Len(s) => f[i + 2] = g[i + 2],
           Len(s) \in Nat, i \in Nat
    PROVE  FoldStep(s, i, f) = FoldStep(s, i, g)
<1>1. i > Len(s) \/ i <= Len(s)
  OBVIOUS
<1> QED
  BY <1>1, Zenon DEF FoldStep

FoldsFrom(s, m, f) ==
    /\ f \in [m .. Len(s) + 1 -> Seq(Int)]
    /\ \A i \in m .. Len(s) + 1 : f[i] = FoldStep(s, i, f)

LEMMA FoldsExist ==
    ASSUME NEW s \in Seq(Bytes)
    PROVE  \E f : FoldsFrom(s, 1, f)
<1> DEFINE N == Len(s) + 1
           Bad == {m \in 0 .. N : m >= 1 /\ ~ \E f : FoldsFrom(s, m, f)}
<1>0. Len(s) \in Nat /\ N \in Nat /\ 1 \in 0 .. N
  OBVIOUS
<1> SUFFICES ASSUME Bad # {} PROVE FALSE
  BY <1>0
<1>1. PICK m \in Bad : \A k \in Bad : m >= k
  BY <1>0, Greatest
<1>2. m # N
  <2> DEFINE z == [k \in N .. N |-> FoldStep(s, N, <<>>)]
  <2>1. N \in 1 .. Len(s) + 1 /\ ~(N <= Len(s)) /\ ~(N < Len(s))
    BY <1>0
  <2>2. FoldStep(s, N, <<>>) \in Seq(Int)
    BY <2>1, FoldStepIs
  <2>3. FoldStep(s, N, <<>>) = FoldStep(s, N, z)
    BY <1>0, <2>1, FoldStepReads
  <2>4. z \in [N .. N -> Seq(Int)] /\ \A i \in N .. N : i = N /\ z[i] = FoldStep(s, N, <<>>)
    BY <1>0, <2>2
  <2> HIDE DEF z
  <2>5. FoldsFrom(s, N, z)
    BY <2>3, <2>4, Zenon DEF FoldsFrom
  <2> QED
    BY <1>1, <2>5
<1>3. m \in Nat /\ m >= 1 /\ m + 1 \in 0 .. N /\ m + 1 >= 1 /\ ~(m >= m + 1) /\ m <= Len(s)
  BY <1>0, <1>1, <1>2
<1>4. PICK f : FoldsFrom(s, m + 1, f)
  BY <1>1, <1>3
<1> DEFINE g == [i \in m .. N |-> IF i = m THEN FoldStep(s, m, f) ELSE f[i]]
<1>5. f \in [m + 1 .. N -> Seq(Int)] /\ \A i \in m + 1 .. N : f[i] = FoldStep(s, i, f)
  BY <1>4 DEF FoldsFrom
<1>6. \A i \in m + 1 .. N : g[i] = f[i]
  BY <1>3
<1>7. FoldStep(s, m, f) \in Seq(Int)
  <2>1. m \in 1 .. Len(s) + 1 /\ m + 1 \in m + 1 .. N /\ (m < Len(s) => m + 2 \in m + 1 .. N)
    BY <1>0, <1>3
  <2> QED
    BY <1>5, <2>1, FoldStepIs
<1>8. g \in [m .. N -> Seq(Int)]
  <2>1. \A i \in m .. N : i = m \/ i \in m + 1 .. N
    BY <1>3
  <2> QED
    BY <1>5, <1>7, <2>1
<1>9. ASSUME NEW i \in m .. N PROVE g[i] = FoldStep(s, i, g)
  <2>1. i \in Nat /\ (i <= Len(s) => i + 1 \in m + 1 .. N) /\ (i < Len(s) => i + 2 \in m + 1 .. N)
    BY <1>0, <1>3
  <2>2. FoldStep(s, i, f) = FoldStep(s, i, g)
    <3> HIDE DEF g
    <3> QED
      BY <1>0, <1>6, <2>1, FoldStepReads
  <2>3. CASE i = m
    <3>1. g[i] = FoldStep(s, m, f)
      BY <2>3
    <3> QED
      BY <2>2, <2>3, <3>1, Zenon
  <2>4. CASE i # m
    <3>1. i \in m + 1 .. N
      BY <1>3, <2>4
    <3> QED
      BY <1>5, <1>6, <2>2, <3>1, Zenon
  <2> QED
    BY <2>3, <2>4
<1> HIDE DEF g
<1>10. FoldsFrom(s, m, g)
  BY <1>8, <1>9 DEF FoldsFrom
<1> QED
  BY <1>1, <1>10

LEMMA FoldedIs ==
    ASSUME NEW s \in Seq(Bytes)
    PROVE  Library!Folded(s) \in Seq(Int)
<1> DEFINE u == CHOOSE u : u = [i \in 1 .. Len(s) + 1 |-> FoldStep(s, i, u)]
<1>1. Library!Folded(s) = u[1]
  BY Zenon DEF Library!Folded, FoldStep
<1> SUFFICES ASSUME NEW N, N = Len(s) + 1 PROVE u[1] \in Seq(Int)
  BY <1>1
<1>2. N \in Nat /\ 1 \in 1 .. N /\ Len(s) \in Nat
  OBVIOUS
<1>3. u = [i \in 1 .. Len(s) + 1 |-> FoldStep(s, i, u)]
  <2>1. PICK f : FoldsFrom(s, 1, f)
    BY FoldsExist
  <2>2. f = [i \in 1 .. Len(s) + 1 |-> f[i]] /\ \A i \in 1 .. Len(s) + 1 : f[i] = FoldStep(s, i, f)
    BY <2>1 DEF FoldsFrom
  <2>3. f = [i \in 1 .. Len(s) + 1 |-> FoldStep(s, i, f)]
    BY <2>2, Zenon
  <2> QED
    BY <2>3, Zenon
<1> HIDE DEF u
<1>4. \A i \in 1 .. N : u[i] = FoldStep(s, i, u)
  BY <1>3, Zenon
<1> DEFINE Bad == {i \in 0 .. N : i >= 1 /\ u[i] \notin Seq(Int)}
<1>5. Bad = {}
  <2> SUFFICES ASSUME Bad # {} PROVE FALSE
    OBVIOUS
  <2>1. PICK i \in Bad : \A k \in Bad : i >= k
    BY <1>2, Greatest
  <2>2. i \in 1 .. N /\ i \in 1 .. Len(s) + 1 /\ i \in Nat
    BY <1>2, <2>1
  <2>3. ASSUME NEW k \in 1 .. N, k > i PROVE u[k] \in Seq(Int)
    <3>1. k \in 0 .. N /\ k >= 1 /\ ~(i >= k)
      BY <2>2, <2>3
    <3> QED
      BY <2>1, <3>1
  <2>4. (i <= Len(s) => i + 1 \in 1 .. N /\ i + 1 > i) /\ (i < Len(s) => i + 2 \in 1 .. N /\ i + 2 > i)
    BY <1>2, <2>2
  <2>5. FoldStep(s, i, u) \in Seq(Int)
    BY <2>2, <2>3, <2>4, FoldStepIs
  <2> QED
    BY <1>4, <2>1, <2>2, <2>5
<1>6. 1 \in 0 .. N /\ 1 >= 1
  BY <1>2
<1> QED
  BY <1>5, <1>6

-----------------------------------------------------------------------------
(* The order of the books.                                                   *)
IsBook(e) == e.title \in Seq(Bytes) /\ e.ext \in Seq(Bytes)

BookBelow(a, b) ==
    \/ Below(Library!Folded(a.title), Library!Folded(b.title))
    \/ Library!Folded(a.title) = Library!Folded(b.title) /\ Below(a.title, b.title)
    \/ a.title = b.title /\ Below(a.title \o a.ext, b.title \o b.ext)

LEMMA BytesAreNumbers ==
    ASSUME NEW s \in Seq(Bytes)
    PROVE  s \in Seq(Int)
<1>1. Bytes \subseteq Int
  BY DEF Bytes
<1> HIDE DEF Bytes
<1>2. Len(s) \in Nat /\ s \in [1 .. Len(s) -> Bytes]
  OBVIOUS
<1>3. s \in [1 .. Len(s) -> Int]
  BY <1>1, <1>2
<1> QED
  BY <1>2, <1>3, SeqDef

LEMMA SameTail ==
    ASSUME NEW t \in Seq(Bytes), NEW x \in Seq(Bytes), NEW y \in Seq(Bytes), t \o x = t \o y
    PROVE  x = y
<1>1. Len(t \o x) = Len(t) + Len(x) /\ Len(t \o y) = Len(t) + Len(y)
  BY JoinIs
<1>2. Len(t) \in Nat /\ Len(x) \in Nat /\ Len(y) \in Nat
  OBVIOUS
<1>3. Len(x) = Len(y)
  BY <1>1, <1>2
<1>4. ASSUME NEW i \in 1 .. Len(x) PROVE x[i] = y[i]
  <2>1. (t \o x)[Len(t) + i] = x[i]
    OBVIOUS
  <2>2. (t \o y)[Len(t) + i] = y[i]
    BY <1>3
  <2> QED
    BY <2>1, <2>2
<1>5. x \in Seq(Int) /\ y \in Seq(Int)
  BY BytesAreNumbers
<1> QED
  BY <1>3, <1>4, <1>5, SameSequence

LEMMA BookNumbers ==
    ASSUME NEW e, IsBook(e)
    PROVE  /\ Library!Folded(e.title) \in Seq(Int) /\ e.title \in Seq(Int)
           /\ e.title \o e.ext \in Seq(Int)
<1>1. e.title \in Seq(Bytes) /\ e.ext \in Seq(Bytes)
  BY DEF IsBook
<1>2. e.title \in Seq(Int) /\ e.ext \in Seq(Int)
  BY <1>1, BytesAreNumbers
<1> QED
  BY <1>1, <1>2, FoldedIs, JoinIs

LEMMA BookOrder ==
    ASSUME NEW a, NEW b, IsBook(a), IsBook(b)
    PROVE  /\ Library!book_cmp(a, b) \in {-1, 0, 1}
           /\ Library!book_cmp(a, b) = -1 <=> BookBelow(a, b)
           /\ Library!book_cmp(a, b) = 1 <=> BookBelow(b, a)
           /\ Library!book_cmp(a, b) = 0 => Library!Name(a) = Library!Name(b)
<1> DEFINE F(e) == Library!Folded(e.title)
           T(e) == e.title
           N(e) == e.title \o e.ext
           C(x, y) == Library!Compare(x, y)
<1>0. F(a) \in Seq(Int) /\ F(b) \in Seq(Int) /\ T(a) \in Seq(Int) /\ T(b) \in Seq(Int)
      /\ N(a) \in Seq(Int) /\ N(b) \in Seq(Int)
  BY BookNumbers
<1>1. T(a) = T(b) => F(a) = F(b)
  OBVIOUS
<1>2. Library!book_cmp(a, b) = IF C(F(a), F(b)) # 0 THEN C(F(a), F(b))
                               ELSE IF C(T(a), T(b)) # 0 THEN C(T(a), T(b))
                               ELSE C(N(a), N(b))
  BY Zenon DEF Library!book_cmp, Library!fold_cmp
<1>3. \A x, y \in {F(a), F(b)} : x \in Seq(Int) /\ y \in Seq(Int)
  BY <1>0
<1>4. \A e, f : BookBelow(e, f) <=> \/ Below(F(e), F(f))
                                    \/ F(e) = F(f) /\ Below(T(e), T(f))
                                    \/ T(e) = T(f) /\ Below(N(e), N(f))
  BY Zenon DEF BookBelow
<1>5. T(a) = T(b) /\ N(a) = N(b) => Library!Name(a) = Library!Name(b)
  <2>1. T(a) = T(b) /\ N(a) = N(b) => a.ext = b.ext
    BY SameTail DEF IsBook
  <2> QED
    BY <2>1, Zenon DEF Library!Name
<1> HIDE DEF F, T, N, C
<1>6. /\ C(F(a), F(b)) \in {-1, 0, 1} /\ (C(F(a), F(b)) = -1 <=> Below(F(a), F(b)))
      /\ (C(F(a), F(b)) = 0 <=> F(a) = F(b)) /\ (C(F(a), F(b)) = 1 <=> Below(F(b), F(a)))
  BY <1>0, CompareMeans DEF C
<1>7. /\ C(T(a), T(b)) \in {-1, 0, 1} /\ (C(T(a), T(b)) = -1 <=> Below(T(a), T(b)))
      /\ (C(T(a), T(b)) = 0 <=> T(a) = T(b)) /\ (C(T(a), T(b)) = 1 <=> Below(T(b), T(a)))
  BY <1>0, CompareMeans DEF C
<1>8. /\ C(N(a), N(b)) \in {-1, 0, 1} /\ (C(N(a), N(b)) = -1 <=> Below(N(a), N(b)))
      /\ (C(N(a), N(b)) = 0 <=> N(a) = N(b)) /\ (C(N(a), N(b)) = 1 <=> Below(N(b), N(a)))
  BY <1>0, CompareMeans DEF C
<1>9. -1 # 0 /\ 1 # 0 /\ -1 # 1
  OBVIOUS
<1>10. CASE C(F(a), F(b)) # 0
  <2>1. Library!book_cmp(a, b) = C(F(a), F(b)) /\ F(a) # F(b) /\ T(a) # T(b)
    BY <1>1, <1>2, <1>6, <1>10, Zenon
  <2> QED
    BY <1>4, <1>6, <1>9, <1>10, <2>1, Zenon
<1>11. CASE C(F(a), F(b)) = 0 /\ C(T(a), T(b)) # 0
  <2>1. Library!book_cmp(a, b) = C(T(a), T(b)) /\ F(a) = F(b) /\ T(a) # T(b)
        /\ ~Below(F(a), F(b)) /\ ~Below(F(b), F(a))
    BY <1>2, <1>6, <1>7, <1>9, <1>11, Zenon
  <2> QED
    BY <1>4, <1>7, <1>9, <1>11, <2>1, Zenon
<1>12. CASE C(F(a), F(b)) = 0 /\ C(T(a), T(b)) = 0
  <2>1. Library!book_cmp(a, b) = C(N(a), N(b)) /\ F(a) = F(b) /\ T(a) = T(b)
        /\ ~Below(F(a), F(b)) /\ ~Below(F(b), F(a))
        /\ ~Below(T(a), T(b)) /\ ~Below(T(b), T(a))
    BY <1>2, <1>6, <1>7, <1>9, <1>12, Zenon
  <2> QED
    BY <1>4, <1>5, <1>8, <1>9, <2>1, Zenon
<1> QED
  BY <1>10, <1>11, <1>12

LEMMA BookBelowIsTransitive ==
    ASSUME NEW a, NEW b, NEW c, IsBook(a), IsBook(b), IsBook(c), BookBelow(a, b), BookBelow(b, c)
    PROVE  BookBelow(a, c)
<1> DEFINE F(e) == Library!Folded(e.title)
           T(e) == e.title
           N(e) == e.title \o e.ext
<1>0. \A e \in {a, b, c} : F(e) \in Seq(Int) /\ T(e) \in Seq(Int) /\ N(e) \in Seq(Int)
  BY BookNumbers
<1>1. \A e, f : T(e) = T(f) => F(e) = F(f)
  OBVIOUS
<1>4. \A e, f : BookBelow(e, f) <=> \/ Below(F(e), F(f))
                                    \/ F(e) = F(f) /\ Below(T(e), T(f))
                                    \/ T(e) = T(f) /\ Below(N(e), N(f))
  BY Zenon DEF BookBelow
<1> HIDE DEF F, T, N
<1>5. Below(F(a), F(b)) /\ Below(F(b), F(c)) => Below(F(a), F(c))
  BY <1>0, BelowIsTransitive
<1>6. Below(T(a), T(b)) /\ Below(T(b), T(c)) => Below(T(a), T(c))
  BY <1>0, BelowIsTransitive
<1>7. Below(N(a), N(b)) /\ Below(N(b), N(c)) => Below(N(a), N(c))
  BY <1>0, BelowIsTransitive
<1> QED
  BY <1>1, <1>4, <1>5, <1>6, <1>7

(* A list whose neighbours are in order is in order. *)
LEMMA NeighboursSort ==
    ASSUME NEW bs, NEW n \in Nat, \A i \in 1 .. n : IsBook(bs[i]),
           \A i \in 1 .. n - 1 : BookBelow(bs[i], bs[i + 1])
    PROVE  \A i, j \in 1 .. n : i < j => BookBelow(bs[i], bs[j])
<1> SUFFICES ASSUME NEW i \in 1 .. n
             PROVE  \A j \in 1 .. n : i < j => BookBelow(bs[i], bs[j])
  OBVIOUS
<1> DEFINE Bad == {j \in Nat : j <= n /\ i < j /\ ~BookBelow(bs[i], bs[j])}
<1> SUFFICES ASSUME Bad # {} PROVE FALSE
  OBVIOUS
<1>1. PICK j \in Bad : \A k \in Bad : j <= k
  BY Least
<1>2. j \in 1 .. n /\ i < j /\ j - 1 \in 1 .. n - 1 /\ (j - 1) + 1 = j /\ j - 1 \in 1 .. n
      /\ j - 1 \in Nat /\ j - 1 <= n /\ ~(j <= j - 1)
  BY <1>1
<1>3. BookBelow(bs[j - 1], bs[j])
  BY <1>2
<1>4. j - 1 # i
  BY <1>1, <1>3
<1>5. i < j - 1
  BY <1>2, <1>4
<1>6. BookBelow(bs[i], bs[j - 1])
  BY <1>1, <1>2, <1>5
<1>7. BookBelow(bs[i], bs[j])
  BY <1>2, <1>3, <1>6, BookBelowIsTransitive
<1> QED
  BY <1>1, <1>7

-----------------------------------------------------------------------------
(* A scan as it goes on.                                                     *)

(* What belongs on the list, of what was met. *)
Listed(ms, t) == {e \in ms : Library!Supported(e)
                             /\ (e.kind = "file" \/ (~t /\ e.kind # "dir"))}
OnList(bs) == {bs[i] : i \in 1 .. Len(bs)}

LibraryScan ==
    /\ Library!Distinct(unread \cup met) /\ unread \cap met = {}
    /\ OnList(books) = Listed(met, typed) \ (IF libPc = "add" THEN {entry} ELSE {})
    /\ \A i, j \in 1 .. Len(books) : books[i] = books[j] => i = j
    /\ libPc = "add" => entry \in Listed(met, typed)
    /\ libPc = "done" =>
           \A i \in 1 .. Len(books) - 1 : Library!book_cmp(books[i], books[i + 1]) <= 0

LibraryInv ==
    /\ dir \subseteq Entries /\ unread \subseteq Entries /\ met \subseteq Entries
    /\ typed \in BOOLEAN /\ Library!Distinct(dir)
    /\ libPc \in {"closed", "scan", "add", "done", "failed"}
    /\ books \in Seq(Entries) /\ cap \in Nat /\ Len(books) <= cap
    /\ Library!NothingLeaks
    /\ libPc \in {"closed", "failed"} => books = << >> /\ cap = 0
    /\ libPc \in {"scan", "add", "done"} => LibraryScan

LEMMA LibraryConstants ==
    /\ CapInit \in Nat \ {0}
    /\ \A e \in Entries : IsBook(e)
BY ListsAssumption DEF ListsAssumption, Library!CapAssumption, Library!EntriesAssumption,
                       IsBook, Bytes

LEMMA NothingLeaksMeans ==
    /\ libPc \in {"closed", "failed"} => (Library!NothingLeaks <=> live = 0)
    /\ libPc \in {"scan", "done"} => (Library!NothingLeaks <=> live = Library!Owned)
    /\ libPc = "add" => (Library!NothingLeaks <=> live = Library!Owned + 1)
BY DEF Library!NothingLeaks

LEMMA LibraryInitially == ASSUME Library!Init PROVE LibraryInv
<1>1. dir \subseteq Entries /\ Library!Distinct(dir) /\ typed \in BOOLEAN /\ unread = {}
      /\ libPc = "closed" /\ books = << >> /\ cap = 0 /\ live = 0 /\ met = {}
  BY Zenon DEF Library!Init
<1>2. Library!NothingLeaks
  BY <1>1, NothingLeaksMeans
<1>3. << >> \in Seq(Entries) /\ Len(<< >>) = 0 /\ 0 <= 0 /\ 0 \in Nat
  OBVIOUS
<1>4. libPc \in {"closed", "scan", "add", "done", "failed"} /\ libPc \notin {"scan", "add", "done"}
  BY <1>1
<1> QED
  BY <1>1, <1>2, <1>3, <1>4, Zenon DEF LibraryInv

LEMMA LibraryOpens == ASSUME LibraryInv, Library!Open PROVE LibraryInv'
<1>1. UNCHANGED <<dir, typed, entry>> /\ unread' = dir /\ books' = << >> /\ cap' = 0 /\ met' = {}
      /\ ((libPc' = "failed" /\ live' = 0) \/ (libPc' = "scan" /\ live' = 1))
  BY Zenon DEF Library!Open
<1>2. << >> \in Seq(Entries) /\ Len(<< >>) = 0 /\ 0 <= 0 /\ 0 \in Nat
  OBVIOUS
<1>3. libPc' \in {"failed", "scan"} /\ libPc' # "add" /\ libPc' # "done"
  BY <1>1
<1>4. Library!NothingLeaks'
  <2>1. CASE libPc' = "failed"
    BY <1>1, <2>1 DEF Library!NothingLeaks
  <2>2. CASE libPc' = "scan"
    BY <1>1, <1>2, <2>2 DEF Library!NothingLeaks, Library!Owned
  <2> QED
    BY <1>3, <2>1, <2>2
<1>5. LibraryScan'
  <2>1. OnList(books') = {}
    BY <1>1 DEF OnList
  <2>2. Listed(met', typed') = {}
    BY <1>1 DEF Listed
  <2>3. Library!Distinct(unread' \cup met') /\ unread' \cap met' = {}
    <3>1. unread' \cup met' = dir
      BY <1>1
    <3> QED
      BY <1>1, <3>1, Zenon DEF LibraryInv
  <2>4. 1 .. Len(books') = {}
    BY <1>1
  <2> QED
    BY <1>3, <2>1, <2>2, <2>3, <2>4, Zenon DEF LibraryScan
<1>6. met' \subseteq Entries /\ unread' \subseteq Entries /\ dir' \subseteq Entries
      /\ typed' \in BOOLEAN /\ Library!Distinct(dir')
  BY <1>1, Zenon DEF LibraryInv
<1>7. libPc' \in {"closed", "scan", "add", "done", "failed"}
  BY <1>3
<1> QED
  BY <1>1, <1>2, <1>4, <1>5, <1>6, <1>7, Zenon DEF LibraryInv

(* A failure gives back all that the library owns. *)
LEMMA LibraryFails ==
    ASSUME LibraryInv, libPc' = "failed", live' = 0, books' = << >>, cap' = 0,
           UNCHANGED <<dir, typed, unread, entry, met>>
    PROVE  LibraryInv'
<1>2. << >> \in Seq(Entries) /\ Len(<< >>) = 0 /\ 0 <= 0 /\ 0 \in Nat
  OBVIOUS
<1>3. libPc' \in {"closed", "scan", "add", "done", "failed"}
      /\ libPc' \notin {"scan", "add", "done"}
  OBVIOUS
<1>4. Library!NothingLeaks'
  BY DEF Library!NothingLeaks
<1> QED
  BY <1>2, <1>3, <1>4, Zenon DEF LibraryInv

LEMMA LibraryHasNoPath == ASSUME LibraryInv, Library!NoPath PROVE LibraryInv'
<1>1. libPc' = "failed" /\ live' = 0 /\ books' = << >> /\ cap' = 0
      /\ UNCHANGED <<dir, typed, unread, entry, met>>
  BY Zenon DEF Library!NoPath, Library!Fail
<1> QED
  BY <1>1, LibraryFails

LEMMA LibraryReads == ASSUME LibraryInv, Library!Read PROVE LibraryInv'
<1>1. libPc = "scan" /\ UNCHANGED <<dir, typed, books, cap>>
  BY Zenon DEF Library!Read
<1>2. PICK e \in unread :
          /\ unread' = unread \ {e} /\ entry' = e
          /\ met' = IF e \in dir \/ typed THEN met \cup {e} ELSE met
          /\ IF ~Library!Supported(e) THEN UNCHANGED <<libPc, live>>
             ELSE IF Library!IsFile(e) THEN libPc' = "add" /\ live' = live + 1
             ELSE UNCHANGED <<libPc, live>>
  BY Zenon DEF Library!Read
<1>3. LibraryScan /\ live = Library!Owned /\ e \in Entries
  BY <1>1, NothingLeaksMeans DEF LibraryInv
<1>4. Library!Owned' = Library!Owned
  BY <1>1 DEF Library!Owned
<1>5. unread' \subseteq Entries /\ met' \subseteq Entries
      /\ unread' \cup met' \subseteq unread \cup met /\ unread' \cap met' = {}
  BY <1>2, <1>3 DEF LibraryInv, LibraryScan
<1>6. Library!Distinct(unread' \cup met')
  BY <1>3, <1>5 DEF LibraryScan, Library!Distinct
<1>7. e \notin Listed(met, typed) /\ e \notin OnList(books)
  BY <1>1, <1>2, <1>3 DEF LibraryScan, Listed
<1>8. OnList(books) = Listed(met, typed)
  BY <1>1, <1>3 DEF LibraryScan
<1>9. CASE Library!Supported(e) /\ Library!IsFile(e)
  <2>1. libPc' = "add" /\ live' = live + 1 /\ met' = met \cup {e}
        /\ (e.kind = "file" \/ (~typed /\ e.kind # "dir"))
    BY <1>2, <1>9 DEF Library!IsFile
  <2>2. Listed(met', typed') = Listed(met, typed) \cup {e}
    BY <1>1, <1>9, <2>1 DEF Listed
  <2>3. OnList(books') = Listed(met', typed') \ {entry'} /\ entry' \in Listed(met', typed')
    BY <1>1, <1>2, <1>7, <1>8, <2>2
  <2>4. Library!NothingLeaks'
    BY <1>3, <1>4, <2>1 DEF Library!NothingLeaks
  <2>5. libPc' # "done" /\ libPc' \in {"closed", "scan", "add", "done", "failed"}
        /\ libPc' \notin {"closed", "failed"}
    BY <2>1
  <2>6. LibraryScan'
    BY <1>1, <1>3, <1>5, <1>6, <2>1, <2>3, <2>5, Zenon DEF LibraryScan
  <2> QED
    BY <1>1, <1>5, <2>4, <2>5, <2>6, Zenon DEF LibraryInv
<1>10. CASE ~(Library!Supported(e) /\ Library!IsFile(e))
  <2>1. UNCHANGED <<libPc, live>>
    BY <1>2, <1>10
  <2>2. Listed(met', typed') = Listed(met, typed)
    <3>1. met' = met \/ (met' = met \cup {e} /\ (e \in dir \/ typed))
      BY <1>2
    <3>2. e \in dir \/ typed =>
              ~(Library!Supported(e) /\ (e.kind = "file" \/ (~typed /\ e.kind # "dir")))
      BY <1>10 DEF Library!IsFile
    <3> QED
      BY <1>1, <3>1, <3>2 DEF Listed
  <2>3. Library!NothingLeaks'
    BY <1>1, <1>3, <1>4, <2>1 DEF Library!NothingLeaks
  <2>4. libPc' = "scan" /\ libPc' # "done" /\ libPc' # "add"
        /\ libPc' \in {"closed", "scan", "add", "done", "failed"}
        /\ libPc' \notin {"closed", "failed"}
    BY <1>1, <2>1
  <2>5. OnList(books') = Listed(met', typed') \ {}
    BY <1>1, <1>8, <2>2
  <2>6. LibraryScan'
    BY <1>1, <1>3, <1>5, <1>6, <2>4, <2>5, Zenon DEF LibraryScan
  <2> QED
    BY <1>1, <1>5, <2>3, <2>4, <2>6, Zenon DEF LibraryInv
<1> QED
  BY <1>9, <1>10

LEMMA LibraryAdds == ASSUME LibraryInv, Library!Add PROVE LibraryInv'
<1>1. libPc = "add" /\ UNCHANGED <<dir, typed, unread, entry, met>>
  BY Zenon DEF Library!Add
<1>2. LibraryScan /\ live = Library!Owned + 1 /\ books \in Seq(Entries) /\ cap \in Nat
      /\ Len(books) <= cap /\ Len(books) \in Nat
  BY <1>1, NothingLeaksMeans DEF LibraryInv
<1>3. CASE Library!FailedAdd
  <2>1. libPc' = "failed" /\ books' = << >> /\ cap' = 0 /\ live' = live - 1 - Library!Owned
    BY <1>3, Zenon DEF Library!FailedAdd
  <2>2. Library!Owned \in Int
    BY <1>2 DEF Library!Owned
  <2>3. live' = 0
    BY <1>2, <2>1, <2>2
  <2> QED
    BY <1>1, <2>1, <2>3, LibraryFails
<1>4. CASE /\ cap' = Library!Grown /\ books' = Append(books, entry) /\ libPc' = "scan"
           /\ live' = live + 3 + (IF cap = 0 THEN 1 ELSE 0) - 1
  <2>1. entry \in Entries /\ entry \in Listed(met, typed)
        /\ OnList(books) = Listed(met, typed) \ {entry}
        /\ (\A i, j \in 1 .. Len(books) : books[i] = books[j] => i = j)
    BY <1>1, <1>2 DEF LibraryScan, LibraryInv, Listed
  <2>2. books' \in Seq(Entries) /\ Len(books') = Len(books) + 1
        /\ (\A i \in 1 .. Len(books) : books'[i] = books[i]) /\ books'[Len(books) + 1] = entry
    BY <1>2, <1>4, <2>1
  <2>3. cap' \in Nat /\ Len(books') <= cap' /\ cap' > 0
    BY <1>2, <1>4, <2>2, LibraryConstants DEF Library!Grown
  <2>4. Library!NothingLeaks'
    <3>1. Library!Owned = 1 + (IF cap = 0 THEN 0 ELSE 1) + 3 * Len(books)
      BY <1>2 DEF Library!Owned
    <3>2. Library!Owned' = 2 + 3 * (Len(books) + 1)
      BY <2>2, <2>3 DEF Library!Owned
    <3>3. cap = 0 => Len(books) = 0
      BY <1>2
    <3>4. live' = Library!Owned'
      BY <1>2, <1>4, <3>1, <3>2, <3>3
    <3> QED
      BY <1>4, <3>4 DEF Library!NothingLeaks
  <2>5. \A i \in 1 .. Len(books') : i \in 1 .. Len(books) \/ i = Len(books) + 1
    BY <1>2, <2>2
  <2>6. \A i \in 1 .. Len(books) : i \in 1 .. Len(books') /\ i # Len(books) + 1
    BY <1>2, <2>2
  <2>7. Len(books) + 1 \in 1 .. Len(books')
    BY <1>2, <2>2
  <2>8. OnList(books') = OnList(books) \cup {entry}
    <3>1. ASSUME NEW x \in OnList(books') PROVE x \in OnList(books) \cup {entry}
      <4>1. PICK i \in 1 .. Len(books') : x = books'[i]
        BY DEF OnList
      <4> QED
        BY <2>2, <2>5, <4>1 DEF OnList
    <3>2. ASSUME NEW x \in OnList(books) \cup {entry} PROVE x \in OnList(books')
      <4>1. ASSUME x \in OnList(books) PROVE x \in OnList(books')
        <5>1. PICK i \in 1 .. Len(books) : x = books[i]
          BY <4>1 DEF OnList
        <5> QED
          BY <2>2, <2>6, <5>1, Zenon DEF OnList
      <4>2. ASSUME x = entry PROVE x \in OnList(books')
        BY <2>2, <2>7, <4>2, Zenon DEF OnList
      <4> QED
        BY <4>1, <4>2
    <3> QED
      BY <3>1, <3>2
  <2>9. entry \notin OnList(books)
    BY <2>1
  <2>10. \A i, j \in 1 .. Len(books') : books'[i] = books'[j] => i = j
    <3> SUFFICES ASSUME NEW i \in 1 .. Len(books'), NEW j \in 1 .. Len(books'),
                        books'[i] = books'[j]
                 PROVE  i = j
      OBVIOUS
    <3>1. \A k \in 1 .. Len(books) : books'[k] # entry
      BY <2>2, <2>9, Zenon DEF OnList
    <3> QED
      BY <2>1, <2>2, <2>5, <3>1, Zenon
  <2>11. OnList(books') = Listed(met', typed') \ {}
    BY <1>1, <2>1, <2>8
  <2>12. libPc' = "scan" /\ libPc' # "add" /\ libPc' # "done"
         /\ libPc' \in {"closed", "scan", "add", "done", "failed"}
         /\ libPc' \notin {"closed", "failed"}
    BY <1>4
  <2>13. LibraryScan'
    <3>1. Library!Distinct(unread' \cup met') /\ unread' \cap met' = {}
      BY <1>1, <1>2, Zenon DEF LibraryScan
    <3> QED
      BY <2>10, <2>11, <2>12, <3>1, Zenon DEF LibraryScan
  <2> QED
    BY <1>1, <2>2, <2>3, <2>4, <2>12, <2>13, Zenon DEF LibraryInv
<1> QED
  BY <1>3, <1>4, Zenon DEF Library!Add

(* An arrangement of the list leaves no book out. *)
LEMMA ArrangementIsWhole ==
    ASSUME NEW n \in Nat, NEW p \in [1 .. n -> 1 .. n],
           \A i, j \in 1 .. n : i # j => p[i] # p[j]
    PROVE  \A k \in 1 .. n : \E i \in 1 .. n : p[i] = k
<1>1. IsFiniteSet(1 .. n)
  BY FS_Interval
<1>2. p \in Injection(1 .. n, 1 .. n)
  BY DEF Injection, IsInjective
<1>3. p \in Surjection(1 .. n, 1 .. n)
  BY <1>1, <1>2, FS_Injection
<1> QED
  BY <1>3 DEF Surjection

LEMMA LibraryEnds == ASSUME LibraryInv, Library!Finish PROVE LibraryInv'
<1> DEFINE n == Len(books)
<1>1. libPc = "scan" /\ libPc' = "done" /\ UNCHANGED <<dir, typed, unread, entry, cap, live, met>>
  BY Zenon DEF Library!Finish
<1>2. PICK p \in [1 .. n -> 1 .. n] :
          /\ \A i, j \in 1 .. n : i # j => p[i] # p[j]
          /\ \A i \in 1 .. n - 1 : Library!book_cmp(books[p[i]], books[p[i + 1]]) <= 0
          /\ books' = [i \in 1 .. n |-> books[p[i]]]
  BY Zenon DEF Library!Finish, Library!cn_library_resort
<1>3. LibraryScan /\ live = Library!Owned /\ books \in Seq(Entries) /\ n \in Nat
  BY <1>1, NothingLeaksMeans DEF LibraryInv
<1>4. books' \in Seq(Entries) /\ Len(books') = n /\ \A i \in 1 .. n : books'[i] = books[p[i]]
  <2>1. \A i \in 1 .. n : books[p[i]] \in Entries
    BY <1>2, <1>3
  <2>2. books' \in [1 .. n -> Entries]
    BY <1>2, <2>1
  <2> QED
    BY <1>2, <1>3, <2>2
<1>5. OnList(books') = OnList(books)
  <2>1. \A k \in 1 .. n : \E i \in 1 .. n : p[i] = k
    BY <1>2, <1>3, ArrangementIsWhole
  <2>2. \A x : x \in OnList(books') <=> \E i \in 1 .. n : x = books[p[i]]
    BY <1>4 DEF OnList
  <2>3. \A x : x \in OnList(books) <=> \E k \in 1 .. n : x = books[k]
    BY DEF OnList
  <2>4. \A i \in 1 .. n : p[i] \in 1 .. n
    BY <1>2
  <2>5. \A x : x \in OnList(books') <=> x \in OnList(books)
    BY <2>1, <2>2, <2>3, <2>4, Zenon
  <2> QED
    BY <2>5
<1>6. \A i, j \in 1 .. Len(books') : books'[i] = books'[j] => i = j
  <2> SUFFICES ASSUME NEW i \in 1 .. n, NEW j \in 1 .. n, books'[i] = books'[j] PROVE i = j
    BY <1>4
  <2>1. p[i] \in 1 .. n /\ p[j] \in 1 .. n /\ books[p[i]] = books[p[j]]
    BY <1>2, <1>4
  <2>2. p[i] = p[j]
    BY <1>3, <2>1, Zenon DEF LibraryScan
  <2> QED
    BY <1>2, <2>2
<1>7. \A i \in 1 .. Len(books') - 1 : Library!book_cmp(books'[i], books'[i + 1]) <= 0
  <2>1. ASSUME NEW i \in 1 .. n - 1 PROVE Library!book_cmp(books'[i], books'[i + 1]) <= 0
    <3>1. i \in 1 .. n /\ i + 1 \in 1 .. n
      BY <1>3
    <3>2. books'[i] = books[p[i]] /\ books'[i + 1] = books[p[i + 1]]
      BY <1>4, <3>1
    <3> QED
      BY <1>2, <3>2, Zenon
  <2> QED
    BY <1>4, <2>1
<1>8. Library!NothingLeaks'
  <2>1. Library!Owned' = Library!Owned
    BY <1>1, <1>4 DEF Library!Owned
  <2> QED
    BY <1>1, <1>3, <2>1 DEF Library!NothingLeaks
<1>9. libPc' \in {"closed", "scan", "add", "done", "failed"} /\ libPc' # "add"
      /\ libPc' \notin {"closed", "failed"}
  BY <1>1
<1>10. OnList(books') = Listed(met', typed') \ {}
  BY <1>1, <1>3, <1>5 DEF LibraryScan
<1>11. LibraryScan'
  <2>1. Library!Distinct(unread' \cup met') /\ unread' \cap met' = {}
    BY <1>1, <1>3, Zenon DEF LibraryScan
  <2> QED
    BY <1>6, <1>7, <1>9, <1>10, <2>1, Zenon DEF LibraryScan
<1>12. cap' \in Nat /\ Len(books') <= cap'
  BY <1>1, <1>4 DEF LibraryInv
<1> QED
  BY <1>1, <1>4, <1>8, <1>9, <1>11, <1>12, Zenon DEF LibraryInv

LEMMA LibraryLoses == ASSUME LibraryInv, Library!Remove PROVE LibraryInv'
<1>1. UNCHANGED <<typed, unread, libPc, entry, books, cap, live, met>>
      /\ \E e \in dir : dir' = dir \ {e}
  BY Zenon DEF Library!Remove, Library!scanVars
<1>2. dir' \subseteq dir
  BY <1>1
<1>3. dir' \subseteq Entries /\ Library!Distinct(dir')
  BY <1>2 DEF LibraryInv, Library!Distinct
<1>4. Library!NothingLeaks' <=> Library!NothingLeaks
  BY <1>1 DEF Library!NothingLeaks, Library!Owned
<1>5. LibraryScan' <=> LibraryScan
  BY <1>1 DEF LibraryScan
<1> QED
  BY <1>1, <1>3, <1>4, <1>5, Zenon DEF LibraryInv

LEMMA LibraryStepKeeps == ASSUME LibraryInv, Library!Next PROVE LibraryInv'
BY LibraryOpens, LibraryReads, LibraryHasNoPath, LibraryAdds, LibraryEnds, LibraryLoses,
   Zenon DEF Library!Next

LEMMA LibraryStutters == ASSUME LibraryInv, UNCHANGED libraryVars PROVE LibraryInv'
<1>1. UNCHANGED <<dir, typed, unread, libPc, entry, books, cap, live, met>>
  BY Zenon DEF libraryVars
<1>4. Library!NothingLeaks' <=> Library!NothingLeaks
  BY <1>1 DEF Library!NothingLeaks, Library!Owned
<1>5. LibraryScan' <=> LibraryScan
  BY <1>1 DEF LibraryScan
<1> QED
  BY <1>1, <1>4, <1>5, Zenon DEF LibraryInv

LEMMA LibraryInvGives ==
    ASSUME LibraryInv
    PROVE  Library!TypeOK /\ Library!ListIsDetermined /\ Library!NothingLeaks
<1>1. Library!NothingLeaks /\ books \in Seq(Entries) /\ cap \in Nat /\ Len(books) \in Nat
  BY DEF LibraryInv
<1>2. Library!TypeOK
  <2>1. libPc = "closed" \/ libPc = "scan" \/ libPc = "add" \/ libPc = "done" \/ libPc = "failed"
    BY DEF LibraryInv
  <2>2. Library!Owned \in Nat
    BY <1>1 DEF Library!Owned
  <2>3. live \in Nat
    BY <1>1, <2>1, <2>2 DEF Library!NothingLeaks
  <2> QED
    BY <2>3 DEF Library!TypeOK, LibraryInv
<1>3. ASSUME libPc = "done"
      PROVE  /\ {books[i] : i \in DOMAIN books} =
                    {e \in met : Library!Supported(e)
                                 /\ (e.kind = "file" \/ (~typed /\ e.kind # "dir"))}
             /\ \A i, j \in DOMAIN books : i < j =>
                  /\ Library!Name(books[i]) # Library!Name(books[j])
                  /\ Library!book_cmp(books[i], books[j]) = -1
                  /\ Library!book_cmp(books[j], books[i]) = 1
                  /\ Library!Compare(Library!Folded(books[i].title),
                                     Library!Folded(books[j].title)) <= 0
                  /\ Library!Folded(books[i].title) = Library!Folded(books[j].title) =>
                       Library!Compare(books[i].title, books[j].title) \in {-1, 0}
  <2>1. LibraryScan
    BY <1>3 DEF LibraryInv
  <2>2. DOMAIN books = 1 .. Len(books)
    BY <1>1
  <2>3. OnList(books) = Listed(met, typed)
    BY <1>3, <2>1 DEF LibraryScan
  <2>4. \A i \in 1 .. Len(books) : IsBook(books[i]) /\ books[i] \in met
    <3>1. ASSUME NEW i \in 1 .. Len(books) PROVE IsBook(books[i]) /\ books[i] \in met
      <4>1. books[i] \in Entries
        BY <1>1
      <4>2. books[i] \in Listed(met, typed)
        BY <2>3 DEF OnList
      <4> QED
        BY <4>1, <4>2, LibraryConstants DEF Listed
    <3> QED
      BY <3>1
  <2>5. \A i, j \in 1 .. Len(books) : i # j => Library!Name(books[i]) # Library!Name(books[j])
    BY <2>1, <2>4 DEF LibraryScan, Library!Distinct
  <2>6. \A i \in 1 .. Len(books) - 1 : BookBelow(books[i], books[i + 1])
    <3>1. ASSUME NEW i \in 1 .. Len(books) - 1 PROVE BookBelow(books[i], books[i + 1])
      <4>1. i \in 1 .. Len(books) /\ i + 1 \in 1 .. Len(books) /\ i # i + 1
        BY <1>1
      <4>2. Library!book_cmp(books[i], books[i + 1]) <= 0
        BY <1>3, <2>1 DEF LibraryScan
      <4>3. /\ Library!book_cmp(books[i], books[i + 1]) \in {-1, 0, 1}
            /\ Library!book_cmp(books[i], books[i + 1]) = -1 <=> BookBelow(books[i], books[i + 1])
            /\ Library!book_cmp(books[i], books[i + 1]) # 0
        BY <2>4, <2>5, <4>1, BookOrder
      <4> QED
        BY <4>2, <4>3
    <3> QED
      BY <3>1
  <2>7. \A i, j \in 1 .. Len(books) : i < j => BookBelow(books[i], books[j])
    BY <1>1, <2>4, <2>6, NeighboursSort
  <2>8. ASSUME NEW i \in 1 .. Len(books), NEW j \in 1 .. Len(books), i < j
        PROVE  /\ Library!Name(books[i]) # Library!Name(books[j])
               /\ Library!book_cmp(books[i], books[j]) = -1
               /\ Library!book_cmp(books[j], books[i]) = 1
               /\ Library!Compare(Library!Folded(books[i].title),
                                  Library!Folded(books[j].title)) <= 0
               /\ Library!Folded(books[i].title) = Library!Folded(books[j].title) =>
                    Library!Compare(books[i].title, books[j].title) \in {-1, 0}
    <3> DEFINE a == books[i]
               b == books[j]
               F(e) == Library!Folded(e.title)
    <3>1. IsBook(a) /\ IsBook(b) /\ BookBelow(a, b) /\ i # j
      BY <2>4, <2>7, <2>8
    <3>2. Library!Name(a) # Library!Name(b)
      BY <2>5, <3>1
    <3> HIDE DEF a, b
    <3>3. Library!book_cmp(a, b) = -1 /\ Library!book_cmp(b, a) = 1
      BY <3>1, BookOrder
    <3>4. F(a) \in Seq(Int) /\ F(b) \in Seq(Int) /\ a.title \in Seq(Int) /\ b.title \in Seq(Int)
      BY <3>1, BookNumbers
    <3>5. \/ Below(F(a), F(b))
          \/ F(a) = F(b) /\ Below(a.title, b.title)
          \/ a.title = b.title
      BY <3>1, Zenon DEF BookBelow
    <3> HIDE DEF F
    <3>6. a.title = b.title => F(a) = F(b)
      BY DEF F
    <3>7. /\ Library!Compare(F(a), F(b)) = -1 <=> Below(F(a), F(b))
          /\ Library!Compare(F(a), F(b)) = 0 <=> F(a) = F(b)
      BY <3>4, CompareMeans
    <3>8. /\ Library!Compare(a.title, b.title) = -1 <=> Below(a.title, b.title)
          /\ Library!Compare(a.title, b.title) = 0 <=> a.title = b.title
      BY <3>4, CompareMeans
    <3>9. Library!Compare(F(a), F(b)) <= 0
      <4>1. Library!Compare(F(a), F(b)) = -1 \/ Library!Compare(F(a), F(b)) = 0
        BY <3>5, <3>6, <3>7, Zenon
      <4> QED
        BY <4>1
    <3>10. F(a) = F(b) => Library!Compare(a.title, b.title) \in {-1, 0}
      <4>1. F(a) = F(b) => ~Below(F(a), F(b))
        BY <3>4, BelowIsOneWay
      <4> QED
        BY <3>5, <3>8, <4>1, Zenon
    <3> QED
      BY <3>2, <3>3, <3>9, <3>10 DEF a, b, F
  <2> QED
    BY <2>2, <2>3, <2>8 DEF OnList, Listed
<1>4. Library!ListIsDetermined
  BY <1>3, Zenon DEF Library!ListIsDetermined
<1> QED
  BY <1>1, <1>2, <1>4

-----------------------------------------------------------------------------
(* The layout of texts.  Widths and lines, as functions of what they read.   *)
Signs == Layout!Glyphs \cup {"ellipsis", "dot"}

Measured(h, g) ==
    CASE g = "wide" -> 3
      [] g = "ellipsis" -> IF h THEN 2 ELSE 0
      [] g = "mark" -> 0
      [] OTHER -> 1

WidthFor(h, s) ==
    LET upto[i \in 0 .. Len(s)] ==
            IF i = 0 THEN 0 ELSE upto[i - 1] + Measured(h, s[i])
    IN upto[Len(s)]

Advances(h, s) == [i \in 1 .. Len(s) |-> Measured(h, s[i])]

LEMMA WidthOfIs ==
    ASSUME NEW s
    PROVE  Layout!WidthOf(s) = WidthFor(has_ellipsis, s)
BY Zenon DEF Layout!WidthOf, WidthFor, Layout!cn_text_measure, Measured

LEMMA AdvancesAre ==
    ASSUME NEW h \in BOOLEAN, NEW s \in Seq(Signs)
    PROVE  /\ Advances(h, s) \in Seq(Nat) /\ Len(Advances(h, s)) = Len(s)
           /\ \A i \in 1 .. Len(s) : Advances(h, s)[i] = Measured(h, s[i])
           /\ \A g : Measured(h, g) \in Nat
<1>1. \A g : Measured(h, g) \in Nat
  BY DEF Measured
<1>2. Advances(h, s) \in [1 .. Len(s) -> Nat] /\ Len(s) \in Nat
  BY <1>1 DEF Advances
<1>3. Advances(h, s) \in Seq(Nat) /\ Len(Advances(h, s)) = Len(s)
  BY <1>2
<1> QED
  BY <1>1, <1>3 DEF Advances

(* The sums of a sequence grow. *)
LEMMA SumsDoNotShrink ==
    ASSUME NEW ws \in Seq(Nat), NEW f, SumsOf(ws, Len(ws), f),
           NEW m \in 0 .. Len(ws), NEW n \in 0 .. Len(ws), m <= n
    PROVE  f[m] <= f[n]
<1> DEFINE Bad == {k \in Nat : m <= k /\ k <= Len(ws) /\ ~(f[m] <= f[k])}
<1>0. f \in [0 .. Len(ws) -> Nat]
  BY DEF SumsOf
<1> SUFFICES ASSUME Bad # {} PROVE FALSE
  OBVIOUS
<1>1. PICK k \in Bad : \A j \in Bad : k <= j
  BY Least
<1>2. k # m
  BY <1>0, <1>1
<1>3. k \in 1 .. Len(ws) /\ k - 1 \in Nat /\ ~(k <= k - 1) /\ k - 1 <= Len(ws)
      /\ k - 1 \in 0 .. Len(ws) /\ k - 1 >= m
  BY <1>1, <1>2
<1>4. f[k] = f[k - 1] + ws[k] /\ ws[k] \in Nat /\ f[k - 1] \in Nat /\ f[m] \in Nat
  <2>2. f[k] = f[k - 1] + ws[k]
    BY <1>3 DEF SumsOf
  <2>3. ws[k] \in Nat
    BY <1>3
  <2> QED
    BY <1>3, <1>0, <2>2, <2>3
<1>5. f[m] <= f[k - 1]
  BY <1>1, <1>3
<1> QED
  BY <1>1, <1>4, <1>5

(* The recursion of WidthOf computes the sum. *)
LEMMA WidthIsSum ==
    ASSUME NEW h \in BOOLEAN, NEW s \in Seq(Signs), NEW f, SumsOf(Advances(h, s), Len(s), f)
    PROVE  WidthFor(h, s) = f[Len(s)] /\ WidthFor(h, s) \in Nat
<1> DEFINE u == CHOOSE u : u = [i \in 0 .. Len(s) |->
                                   IF i = 0 THEN 0 ELSE u[i - 1] + Measured(h, s[i])]
<1>0. WidthFor(h, s) = u[Len(s)]
  BY Zenon DEF WidthFor
<1> SUFFICES ASSUME NEW N, N = Len(s) PROVE u[N] = f[N] /\ f[N] \in Nat
  BY <1>0
<1>1. N \in Nat
  OBVIOUS
<1>2. f \in [0 .. N -> Nat] /\ f[0] = 0 /\ \A n \in 1 .. N : f[n] = f[n - 1] + Measured(h, s[n])
  BY AdvancesAre DEF SumsOf
<1>3. f = [i \in 0 .. N |-> IF i = 0 THEN 0 ELSE f[i - 1] + Measured(h, s[i])]
  <2>1. \A n \in 0 .. N : f[n] = IF n = 0 THEN 0 ELSE f[n - 1] + Measured(h, s[n])
    BY <1>1, <1>2
  <2>2. f = [n \in 0 .. N |-> f[n]]
    BY <1>2
  <2> QED
    BY <2>1, <2>2, Zenon
<1>4. u = [i \in 0 .. N |-> IF i = 0 THEN 0 ELSE u[i - 1] + Measured(h, s[i])]
  <2>1. \E g : g = [i \in 0 .. N |-> IF i = 0 THEN 0 ELSE g[i - 1] + Measured(h, s[i])]
    BY <1>3, Zenon
  <2> QED
    BY <2>1, Zenon
<1> HIDE DEF u
<1>5. u[0] = 0 /\ \A n \in 1 .. N : u[n] = u[n - 1] + Measured(h, s[n])
  <2>1. 0 \in 0 .. N /\ \A n \in 1 .. N : n \in 0 .. N /\ n # 0
    BY <1>1
  <2> QED
    BY <1>4, <2>1, Zenon
<1>6. \A n \in 0 .. N : u[n] = f[n]
  <2> DEFINE Bad == {n \in Nat : n <= N /\ u[n] # f[n]}
  <2> SUFFICES ASSUME Bad # {} PROVE FALSE
    BY <1>1
  <2>1. PICK n \in Bad : \A k \in Bad : n <= k
    BY Least
  <2>2. n # 0
    BY <1>2, <1>5, <2>1
  <2>3. n \in 1 .. N /\ n - 1 \in Nat /\ ~(n <= n - 1) /\ n - 1 <= N
    BY <1>1, <2>1, <2>2
  <2>4. u[n - 1] = f[n - 1]
    BY <2>1, <2>3
  <2> QED
    BY <1>2, <1>5, <2>1, <2>3, <2>4
<1> QED
  BY <1>1, <1>2, <1>6

LEMMA DifferenceIs ==
    ASSUME NEW x \in Nat, NEW y \in Nat, y <= x
    PROVE  x - y \in Nat
OBVIOUS

(* The width of a part is a difference of two sums. *)
LEMMA WidthBetween ==
    ASSUME NEW h \in BOOLEAN, NEW s \in Seq(Signs), NEW f, SumsOf(Advances(h, s), Len(s), f),
           NEW a \in 0 .. Len(s), NEW b \in a .. Len(s)
    PROVE  /\ SubSeq(s, a + 1, b) \in Seq(Signs) /\ Len(SubSeq(s, a + 1, b)) = b - a
           /\ f[a] \in Nat /\ f[b] \in Nat /\ f[a] <= f[b]
           /\ WidthFor(h, SubSeq(s, a + 1, b)) = f[b] - f[a]
<1> DEFINE t == SubSeq(s, a + 1, b)
           g == [i \in 0 .. b - a |-> f[a + i] - f[a]]
<1>0. Len(s) \in Nat /\ a \in Nat /\ b \in Nat /\ b - a \in Nat /\ a <= b /\ b <= Len(s)
  OBVIOUS
<1>1. t \in Seq(Signs) /\ Len(t) = b - a /\ \A i \in 1 .. b - a : t[i] = s[a + i]
  BY <1>0
<1>2. f \in [0 .. Len(s) -> Nat] /\ f[0] = 0
      /\ \A n \in 1 .. Len(s) : f[n] = f[n - 1] + Measured(h, s[n])
  BY AdvancesAre DEF SumsOf
<1>3. \A i \in 0 .. b - a : a + i \in 0 .. Len(s) /\ f[a + i] \in Nat /\ f[a] <= f[a + i]
  <2>1. ASSUME NEW i \in 0 .. b - a
        PROVE  a + i \in 0 .. Len(s) /\ f[a + i] \in Nat /\ f[a] <= f[a + i]
    <3>1. a + i \in 0 .. Len(s) /\ a <= a + i
      BY <1>0
    <3> QED
      BY <1>2, <3>1, AdvancesAre, SumsDoNotShrink
  <2> QED
    BY <2>1
<1>4. f[a] \in Nat /\ f[b] \in Nat /\ f[a] <= f[b]
  <2>1. b - a \in 0 .. b - a /\ a + (b - a) = b
    BY <1>0
  <2> QED
    BY <1>2, <1>3, <2>1
<1> HIDE DEF t
<1>5. g \in [0 .. b - a -> Nat]
  <2>1. \A i \in 0 .. b - a : f[a + i] - f[a] \in Nat
    BY <1>3, <1>4, DifferenceIs, Zenon
  <2> QED
    BY <2>1
<1>6. g[0] = 0
  BY <1>0, <1>4
<1>7. ASSUME NEW n \in 1 .. b - a PROVE g[n] = g[n - 1] + Advances(h, t)[n]
  <2>1. n \in 0 .. b - a /\ n - 1 \in 0 .. b - a /\ a + n \in 1 .. Len(s)
        /\ a + (n - 1) = (a + n) - 1
    BY <1>0
  <2>2. Advances(h, t)[n] = Measured(h, s[a + n]) /\ Measured(h, s[a + n]) \in Nat
    BY <1>1, AdvancesAre
  <2>3. f[a + n] = f[a + (n - 1)] + Measured(h, s[a + n])
    BY <1>2, <2>1
  <2>4. f[a + n] \in Nat /\ f[a + (n - 1)] \in Nat
    BY <1>3, <2>1
  <2>5. g[n] = f[a + n] - f[a] /\ g[n - 1] = f[a + (n - 1)] - f[a]
    BY <2>1
  <2> HIDE DEF g
  <2> QED
    BY <1>4, <2>2, <2>3, <2>4, <2>5
<1>8. g[b - a] = f[b] - f[a]
  BY <1>0
<1> HIDE DEF g
<1>9. SumsOf(Advances(h, t), Len(t), g)
  BY <1>1, <1>5, <1>6, <1>7 DEF SumsOf
<1>10. WidthFor(h, t) = f[b] - f[a]
  BY <1>1, <1>8, <1>9, WidthIsSum
<1> QED
  BY <1>1, <1>4, <1>10 DEF t

(* There are such sums. *)
LEMMA AdvancesSum ==
    ASSUME NEW h \in BOOLEAN, NEW s \in Seq(Signs)
    PROVE  \E f : SumsOf(Advances(h, s), Len(s), f)
BY AdvancesAre, SumsExist

(* The width of two texts on end. *)
LEMMA WidthJoins ==
    ASSUME NEW h \in BOOLEAN, NEW s \in Seq(Signs), NEW t \in Seq(Signs)
    PROVE  /\ s \o t \in Seq(Signs) /\ Len(s \o t) = Len(s) + Len(t)
           /\ WidthFor(h, s \o t) = WidthFor(h, s) + WidthFor(h, t)
<1> DEFINE u == s \o t
<1>1. u \in Seq(Signs) /\ Len(u) = Len(s) + Len(t) /\ Len(s) \in Nat /\ Len(t) \in Nat
  OBVIOUS
<1>2. SubSeq(u, 0 + 1, Len(s)) = s
  OBVIOUS
<1>3. SubSeq(u, Len(s) + 1, Len(u)) = t
  OBVIOUS
<1>4. SubSeq(u, 0 + 1, Len(u)) = u
  OBVIOUS
<1> HIDE DEF u
<1>5. PICK f : SumsOf(Advances(h, u), Len(u), f)
  BY <1>1, AdvancesSum
<1>6. 0 \in 0 .. Len(u) /\ Len(s) \in 0 .. Len(u) /\ Len(u) \in 0 .. Len(u)
      /\ Len(s) \in 0 .. Len(u) /\ Len(u) \in Len(s) .. Len(u)
  BY <1>1
<1>7. \A a \in 0 .. Len(u) : \A b \in a .. Len(u) :
         /\ f[a] \in Nat /\ f[b] \in Nat
         /\ WidthFor(h, SubSeq(u, a + 1, b)) = f[b] - f[a]
  BY <1>1, <1>5, WidthBetween
<1>8. /\ f[0] \in Nat /\ f[Len(s)] \in Nat /\ f[Len(u)] \in Nat
      /\ WidthFor(h, SubSeq(u, 0 + 1, Len(s))) = f[Len(s)] - f[0]
      /\ WidthFor(h, SubSeq(u, Len(s) + 1, Len(u))) = f[Len(u)] - f[Len(s)]
      /\ WidthFor(h, SubSeq(u, 0 + 1, Len(u))) = f[Len(u)] - f[0]
  BY <1>6, <1>7, Zenon
<1>10. WidthFor(h, u) = WidthFor(h, s) + WidthFor(h, t)
  <2>1. WidthFor(h, s) = f[Len(s)] - f[0]
    BY <1>2, <1>8, Zenon
  <2>2. WidthFor(h, t) = f[Len(u)] - f[Len(s)]
    BY <1>3, <1>8, Zenon
  <2>3. WidthFor(h, u) = f[Len(u)] - f[0]
    BY <1>4, <1>8, Zenon
  <2> QED
    BY <1>8, <2>1, <2>2, <2>3
<1> QED
  BY <1>1, <1>10 DEF u

(* A search from i upward, written as a recursion, ends at the first hit.    *)
Searches(a, q, n, O) ==
    a = [i \in q .. n |-> IF i = n THEN i ELSE IF i \in O THEN i ELSE a[i + 1]]

LEMMA SearchExists ==
    ASSUME NEW n \in Nat, NEW q \in 0 .. n, NEW O
    PROVE  \E a : Searches(a, q, n, O)
<1> DEFINE H(i) == {j \in i .. n : j = n \/ j \in O}
           g(i) == CHOOSE x \in H(i) : \A y \in H(i) : x <= y
           a == [i \in q .. n |-> g(i)]
<1>1. ASSUME NEW i \in q .. n PROVE a[i] \in H(i) /\ \A y \in H(i) : a[i] <= y
  <2>1. H(i) \in SUBSET Nat /\ n \in H(i)
    OBVIOUS
  <2>2. a[i] = CHOOSE x \in H(i) : \A y \in H(i) : x <= y
    BY Zenon
  <2>3. \E x \in H(i) : \A y \in H(i) : x <= y
    BY <2>1, Least
  <2> HIDE DEF H, a
  <2> QED
    BY <2>2, <2>3, Zenon
<1>2. a = [i \in q .. n |-> a[i]]
  <2> HIDE DEF g
  <2> QED
    OBVIOUS
<1> HIDE DEF a
<1>3. ASSUME NEW i \in q .. n PROVE a[i] = IF i = n THEN i ELSE IF i \in O THEN i ELSE a[i + 1]
  <2>1. CASE i = n
    BY <1>1, <2>1
  <2>2. CASE i # n /\ i \in O
    <3>1. i \in H(i)
      BY <2>2
    <3>2. a[i] <= i /\ a[i] \in i .. n
      BY <1>1, <3>1
    <3> QED
      BY <2>2, <3>2
  <2>3. CASE i # n /\ i \notin O
    <3>1. i + 1 \in q .. n
      BY <2>3
    <3>2. a[i + 1] \in H(i) /\ a[i] \in H(i + 1)
      <4>1. a[i] \in H(i) /\ a[i + 1] \in H(i + 1)
        BY <1>1, <3>1
      <4>2. a[i] # i
        BY <4>1, <2>3
      <4> QED
        BY <4>1, <4>2
    <3>3. a[i] <= a[i + 1] /\ a[i + 1] <= a[i]
      BY <1>1, <3>1, <3>2
    <3>4. a[i] \in Int /\ a[i + 1] \in Int
      BY <3>2
    <3> QED
      BY <2>3, <3>3, <3>4
  <2> QED
    BY <2>1, <2>2, <2>3
<1>4. Searches(a, q, n, O)
  BY <1>2, <1>3, Zenon DEF Searches
<1> QED
  BY <1>4, Zenon

LEMMA SearchIs ==
    ASSUME NEW n \in Nat, NEW q \in 0 .. n, NEW O, NEW a, Searches(a, q, n, O)
    PROVE  /\ a[q] \in q .. n
           /\ a[q] = n \/ a[q] \in O
           /\ \A i \in q .. a[q] - 1 : i \notin O
<1> DEFINE Good(i) == /\ a[i] \in i .. n
                      /\ a[i] = n \/ a[i] \in O
                      /\ \A j \in i .. a[i] - 1 : j \notin O
           Bad == {i \in 0 .. n : i >= q /\ ~Good(i)}
<1>0. \A i \in q .. n : a[i] = IF i = n THEN i ELSE IF i \in O THEN i ELSE a[i + 1]
  BY Zenon DEF Searches
<1>1. Bad = {}
  <2> SUFFICES ASSUME Bad # {} PROVE FALSE
    OBVIOUS
  <2>1. PICK i \in Bad : \A j \in Bad : i >= j
    BY Greatest
  <2>2. i \in q .. n /\ i \in Nat
    BY <2>1
  <2>3. i # n
    BY <1>0, <2>1, <2>2
  <2>4. i \notin O
    BY <1>0, <2>1, <2>2
  <2>5. i + 1 \in q .. n /\ ~(i >= i + 1) /\ i + 1 \in 0 .. n /\ i + 1 >= q
    BY <2>2, <2>3
  <2>6. Good(i + 1)
    BY <2>1, <2>5
  <2>7. a[i] = a[i + 1]
    BY <1>0, <2>2, <2>3, <2>4
  <2>8. a[i] \in i + 1 .. n /\ (a[i] = n \/ a[i] \in O) /\ \A j \in i + 1 .. a[i] - 1 : j \notin O
    BY <2>6, <2>7
  <2>9. Good(i)
    BY <2>2, <2>4, <2>8
  <2> QED
    BY <2>1, <2>9
<1>2. Good(q)
  <2>1. q \in 0 .. n /\ q >= q
    OBVIOUS
  <2> HIDE DEF Good
  <2> QED
    BY <1>1, <2>1
<1> QED
  BY <1>2

LastFor(h, v, s, q) ==
    LET after[i \in q .. Len(s)] ==
            IF i = Len(s) THEN i
            ELSE IF WidthFor(h, SubSeq(s, q + 1, i)) > 0 /\ WidthFor(h, SubSeq(s, q + 1, i + 1)) > v
            THEN i
            ELSE after[i + 1]
    IN after[q]

Overflows(h, v, s, q, i) ==
    WidthFor(h, SubSeq(s, q + 1, i)) > 0 /\ WidthFor(h, SubSeq(s, q + 1, i + 1)) > v

LEMMA LastFittingIs == Layout!LastFitting = LastFor(has_ellipsis, avail, layoutShown, layoutP)
BY Zenon DEF Layout!LastFitting, LastFor, Layout!Between, Layout!WidthOf, WidthFor,
             Layout!cn_text_measure, Measured

LEMMA LastForIs ==
    ASSUME NEW h, NEW v, NEW s, Len(s) \in Nat, NEW q \in 0 .. Len(s)
    PROVE  /\ LastFor(h, v, s, q) \in q .. Len(s)
           /\ LastFor(h, v, s, q) = Len(s) \/ Overflows(h, v, s, q, LastFor(h, v, s, q))
           /\ \A i \in q .. LastFor(h, v, s, q) - 1 : ~Overflows(h, v, s, q, i)
<1> DEFINE O == {i \in q .. Len(s) : Overflows(h, v, s, q, i)}
           a == CHOOSE a : Searches(a, q, Len(s), O)
<1>1. LastFor(h, v, s, q) = a[q]
  <2> DEFINE b == CHOOSE b : b = [i \in q .. Len(s) |->
                     IF i = Len(s) THEN i
                     ELSE IF WidthFor(h, SubSeq(s, q + 1, i)) > 0
                             /\ WidthFor(h, SubSeq(s, q + 1, i + 1)) > v
                     THEN i ELSE b[i + 1]]
  <2>1. LastFor(h, v, s, q) = b[q]
    BY Zenon DEF LastFor
  <2>2. \A x : [i \in q .. Len(s) |-> IF i = Len(s) THEN i ELSE IF i \in O THEN i ELSE x[i + 1]]
               = [i \in q .. Len(s) |->
                     IF i = Len(s) THEN i
                     ELSE IF WidthFor(h, SubSeq(s, q + 1, i)) > 0
                             /\ WidthFor(h, SubSeq(s, q + 1, i + 1)) > v
                     THEN i ELSE x[i + 1]]
    BY Zenon DEF Overflows
  <2>3. a = b
    BY <2>2, Zenon DEF Searches
  <2> QED
    BY <2>1, <2>3
<1>2. Searches(a, q, Len(s), O)
  <2> HIDE DEF O
  <2>1. \E x : Searches(x, q, Len(s), O)
    BY SearchExists
  <2> QED
    BY <2>1, Zenon
<1> HIDE DEF a
<1>3. /\ a[q] \in q .. Len(s)
      /\ a[q] = Len(s) \/ a[q] \in O
      /\ \A i \in q .. a[q] - 1 : i \notin O
  <2> HIDE DEF O
  <2> QED
    BY <1>2, SearchIs
<1>4. \A i \in q .. a[q] - 1 : i \in q .. Len(s)
  BY <1>3
<1> QED
  BY <1>1, <1>3, <1>4, Zenon

LEMMA LayoutMax ==
    ASSUME NEW n \in Nat, NEW S \in SUBSET (0 .. n), S # {}
    PROVE  Layout!Max(S) \in S /\ \A y \in S : Layout!Max(S) >= y
<1>1. \E x \in S : \A y \in S : x >= y
  BY Greatest
<1>2. Layout!Max(S) = CHOOSE x \in S : \A y \in S : x >= y
  BY Zenon DEF Layout!Max
<1> QED
  BY <1>1, <1>2

LEMMA LayoutMin ==
    ASSUME NEW S \in SUBSET Nat, S # {}
    PROVE  Layout!Min(S) \in S /\ \A y \in S : Layout!Min(S) <= y
<1>1. \E x \in S : \A y \in S : x <= y
  BY Least
<1>2. Layout!Min(S) = CHOOSE x \in S : \A y \in S : x <= y
  BY Zenon DEF Layout!Min
<1> QED
  BY <1>1, <1>2

LineFor(h, v, s, q) ==
    LET F == LastFor(h, v, s, q)
        spaces == {k \in q + 1 .. F : s[k] = "space"}
        lastSpace == IF spaces = {} THEN 0 ELSE Layout!Max(spaces)
        broken == IF F < Len(s) /\ lastSpace > q + 1 THEN lastSpace ELSE F
    IN IF broken = q THEN q + 1 ELSE broken

LEMMA LineEndIs == Layout!LineEnd = LineFor(has_ellipsis, avail, layoutShown, layoutP)
BY LastFittingIs, Zenon DEF Layout!LineEnd, LineFor

(* What is promised of the line from behind q to e. *)
LineFits(h, v, s, q, e) ==
    WidthFor(h, SubSeq(s, q + 1, e)) <= v \/ WidthFor(h, SubSeq(s, q + 1, e - 1)) = 0
LineIsWhole(s, q, e) ==
    e < Len(s) /\ s[e] # "space" => \A k \in q + 2 .. e : s[k] # "space"
LineIsFull(h, v, s, q, e) ==
    e < Len(s) =>
        \E k \in e + 1 .. Len(s) :
            /\ WidthFor(h, SubSeq(s, q + 1, k)) > v
            /\ \A j \in e + 1 .. k - 1 : s[j] # "space"
LineOK(h, v, s, q, e) ==
    /\ q \in 0 .. Len(s) /\ e \in q + 1 .. Len(s)
    /\ LineFits(h, v, s, q, e) /\ LineIsWhole(s, q, e) /\ LineIsFull(h, v, s, q, e)

(* The line ends where the search ended, or behind the last space before.    *)
LineFound(h, v, s, q, F, e) ==
    /\ F \in q + 1 .. Len(s) /\ e \in q + 1 .. F
    /\ F = Len(s) \/ Overflows(h, v, s, q, F)
    /\ \A i \in q .. F - 1 : ~Overflows(h, v, s, q, i)
    /\ e # F => F < Len(s)
    /\ e < Len(s) => \A j \in e + 1 .. F : s[j] # "space"
    /\ e < Len(s) /\ s[e] # "space" => \A k \in q + 2 .. e : s[k] # "space"

LEMMA LineForIs ==
    ASSUME NEW h \in BOOLEAN, NEW v \in Int, NEW s \in Seq(Signs), NEW q \in 0 .. Len(s),
           q < Len(s)
    PROVE  LineFound(h, v, s, q, LastFor(h, v, s, q), LineFor(h, v, s, q))
<1> SUFFICES ASSUME NEW F, F = LastFor(h, v, s, q), NEW e, e = LineFor(h, v, s, q)
             PROVE  LineFound(h, v, s, q, F, e)
  OBVIOUS
<1> DEFINE spaces == {k \in q + 1 .. F : s[k] = "space"}
           lastSpace == IF spaces = {} THEN 0 ELSE Layout!Max(spaces)
           broken == IF F < Len(s) /\ lastSpace > q + 1 THEN lastSpace ELSE F
<1>0. Len(s) \in Nat /\ q \in Nat
  OBVIOUS
<1>1. /\ F \in q .. Len(s)
      /\ F = Len(s) \/ Overflows(h, v, s, q, F)
      /\ \A i \in q .. F - 1 : ~Overflows(h, v, s, q, i)
  BY <1>0, LastForIs
<1>2. ~Overflows(h, v, s, q, q)
  <2>1. PICK f : SumsOf(Advances(h, s), Len(s), f)
    BY AdvancesSum
  <2>2. q \in q .. Len(s)
    BY <1>0
  <2>3. WidthFor(h, SubSeq(s, q + 1, q)) = f[q] - f[q] /\ f[q] \in Nat
    BY <2>1, <2>2, WidthBetween
  <2>4. ~(WidthFor(h, SubSeq(s, q + 1, q)) > 0)
    BY <2>3
  <2> QED
    BY <2>4, Zenon DEF Overflows
<1>3. F \in q + 1 .. Len(s)
  <2>1. F # q
    BY <1>1, <1>2
  <2> QED
    BY <1>0, <1>1, <2>1
<1>4. spaces # {} => lastSpace \in spaces /\ \A k \in spaces : lastSpace >= k
  <2>1. spaces \in SUBSET (0 .. Len(s))
    BY <1>0, <1>3
  <2> HIDE DEF spaces
  <2> QED
    BY <1>0, <2>1, LayoutMax
<1>5. spaces = {} => lastSpace = 0
  OBVIOUS
<1>6. e = IF broken = q THEN q + 1 ELSE broken
  BY Zenon DEF LineFor
<1> HIDE DEF lastSpace
<1>7. lastSpace > q + 1 => lastSpace \in spaces
  BY <1>0, <1>4, <1>5
<1>8. broken \in q + 1 .. F /\ e = broken
  BY <1>0, <1>3, <1>6, <1>7
<1>9. e = IF F < Len(s) /\ lastSpace > q + 1 THEN lastSpace ELSE F
  BY <1>8
<1>10. \A j \in q + 1 .. F : s[j] = "space" => lastSpace >= j /\ lastSpace \in q + 1 .. F
  BY <1>4
<1>11. lastSpace > q + 1 => s[lastSpace] = "space" /\ lastSpace \in q + 1 .. F
  BY <1>7
<1> HIDE DEF spaces, broken
<1>12. e # F => F < Len(s) /\ e = lastSpace /\ lastSpace > q + 1
  BY <1>9
<1>13. ASSUME e < Len(s), NEW j \in e + 1 .. F PROVE s[j] # "space"
  <2>1. e # F /\ j \in q + 1 .. F
    BY <1>0, <1>3, <1>8
  <2> QED
    BY <1>0, <1>3, <1>10, <1>12, <2>1
<1>14. ASSUME e < Len(s), s[e] # "space", NEW k \in q + 2 .. e PROVE s[k] # "space"
  <2>1. e = F
    BY <1>11, <1>12, <1>14
  <2>2. ~(lastSpace > q + 1)
    BY <1>9, <1>11, <1>14, <2>1
  <2>3. k \in q + 1 .. F /\ k > q + 1
    BY <1>0, <1>3, <2>1
  <2>4. ASSUME s[k] = "space" PROVE FALSE
    <3>1. lastSpace >= k /\ lastSpace \in q + 1 .. F
      BY <1>10, <2>3, <2>4
    <3> QED
      BY <1>0, <1>3, <2>2, <2>3, <3>1
  <2> QED
    BY <2>4
<1> QED
  BY <1>1, <1>3, <1>8, <1>12, <1>13, <1>14 DEF LineFound

LEMMA LineForOK ==
    ASSUME NEW h \in BOOLEAN, NEW v \in Int, NEW s \in Seq(Signs), NEW q \in 0 .. Len(s),
           q < Len(s)
    PROVE  LineOK(h, v, s, q, LineFor(h, v, s, q))
<1> SUFFICES ASSUME NEW F, F = LastFor(h, v, s, q), NEW e, e = LineFor(h, v, s, q)
             PROVE  LineOK(h, v, s, q, e)
  OBVIOUS
<1>0. Len(s) \in Nat /\ q \in Nat
  OBVIOUS
<1>1. /\ F \in q + 1 .. Len(s) /\ e \in q + 1 .. F
      /\ F = Len(s) \/ Overflows(h, v, s, q, F)
      /\ \A i \in q .. F - 1 : ~Overflows(h, v, s, q, i)
      /\ e # F => F < Len(s)
      /\ e < Len(s) => \A j \in e + 1 .. F : s[j] # "space"
      /\ e < Len(s) /\ s[e] # "space" => \A k \in q + 2 .. e : s[k] # "space"
  <2>1. LineFound(h, v, s, q, F, e)
    BY LineForIs
  <2> QED
    BY <2>1, Zenon DEF LineFound
<1>2. PICK f : SumsOf(Advances(h, s), Len(s), f)
  BY AdvancesSum
<1>3. \A b \in q .. Len(s) : WidthFor(h, SubSeq(s, q + 1, b)) \in Nat
  <2>1. ASSUME NEW b \in q .. Len(s) PROVE WidthFor(h, SubSeq(s, q + 1, b)) \in Nat
    <3>1. f[q] \in Nat /\ f[b] \in Nat /\ f[q] <= f[b]
          /\ WidthFor(h, SubSeq(s, q + 1, b)) = f[b] - f[q]
      BY <1>2, WidthBetween
    <3> QED
      BY <3>1
  <2> QED
    BY <2>1
<1>4. q \in 0 .. Len(s) /\ e \in q + 1 .. Len(s)
  BY <1>0, <1>1
<1>5. LineFits(h, v, s, q, e)
  <2>1. e - 1 \in q .. F - 1 /\ (e - 1) + 1 = e /\ e - 1 \in q .. Len(s) /\ e \in q .. Len(s)
    BY <1>0, <1>1
  <2>2. ~(WidthFor(h, SubSeq(s, q + 1, e - 1)) > 0 /\ WidthFor(h, SubSeq(s, q + 1, e)) > v)
    <3>1. ~Overflows(h, v, s, q, e - 1)
      BY <1>1, <2>1
    <3> QED
      BY <2>1, <3>1, Zenon DEF Overflows
  <2>3. WidthFor(h, SubSeq(s, q + 1, e - 1)) \in Nat /\ WidthFor(h, SubSeq(s, q + 1, e)) \in Nat
    BY <1>3, <2>1
  <2> QED
    BY <2>2, <2>3 DEF LineFits
<1>6. LineIsWhole(s, q, e)
  BY <1>1 DEF LineIsWhole
<1>7. ASSUME e < Len(s)
      PROVE  \E k \in e + 1 .. Len(s) :
                 /\ WidthFor(h, SubSeq(s, q + 1, k)) > v
                 /\ \A j \in e + 1 .. k - 1 : s[j] # "space"
  <2>1. F < Len(s) /\ Overflows(h, v, s, q, F)
    BY <1>0, <1>1, <1>7
  <2>2. F + 1 \in e + 1 .. Len(s) /\ (F + 1) - 1 = F
    BY <1>0, <1>1, <2>1
  <2>3. WidthFor(h, SubSeq(s, q + 1, F + 1)) > v
    BY <2>1, Zenon DEF Overflows
  <2>4. \A j \in e + 1 .. (F + 1) - 1 : s[j] # "space"
    BY <1>1, <1>7, <2>2
  <2> QED
    BY <2>2, <2>3, <2>4
<1>8. LineIsFull(h, v, s, q, e)
  BY <1>7, Zenon DEF LineIsFull
<1> QED
  BY <1>4, <1>5, <1>6, <1>8 DEF LineOK

-----------------------------------------------------------------------------
(* The layout as it goes on.                                                 *)

(* The last glyph of the line before the one that ends at e. *)
LineBefore(ls, e) == Layout!Max({0} \cup {k \in ls : k < e})

LayoutTitle ==
    /\ layoutShown # << >> => /\ WidthFor(has_ellipsis, layoutShown) <= avail
                              /\ Len(layoutShown) <= MAX_CP
    /\ lines \subseteq {Len(layoutShown)}

LayoutInv ==
    /\ layoutText \in Seq(Layout!Glyphs) /\ Len(layoutText) <= MaxText
    /\ avail \in LineWidths /\ has_ellipsis \in BOOLEAN
    /\ layoutPc \in {"text", "shown", "lines", "done"}
    /\ layoutShown \in Seq(Signs)
    /\ layoutP \in 0 .. Len(layoutShown) /\ lines \subseteq 1 .. layoutP
    /\ layoutP # 0 => layoutP \in lines
    /\ layoutPc \in {"text", "shown"} => layoutP = 0
    /\ layoutPc = "text" => layoutShown = << >>
    /\ \A e \in lines : LineOK(has_ellipsis, avail, layoutShown, LineBefore(lines, e), e)
    /\ Layout!Decided /\ mode = "fit" => LayoutTitle

LEMMA LayoutConstants ==
    /\ MAX_CP \in Nat /\ MAX_LIB_CP \in Nat /\ MaxText \in Nat /\ LineWidths \subseteq Int
    /\ MAX_LIB_CP + 3 <= MAX_CP
BY ListsAssumption DEF ListsAssumption, Layout!SizesAssumption, Layout!WidthsAssumption

LEMMA EllipsisIs ==
    /\ Layout!Ellipsis \in Seq(Signs)
    /\ Len(Layout!Ellipsis) \in Nat /\ Len(Layout!Ellipsis) <= 3
<1>1. "ellipsis" \in Signs /\ "dot" \in Signs
  BY Zenon DEF Signs
<1>2. CASE has_ellipsis
  <2>1. Layout!Ellipsis = <<"ellipsis">>
    BY <1>2 DEF Layout!Ellipsis
  <2> QED
    BY <1>1, <2>1
<1>3. CASE ~has_ellipsis
  <2>1. Layout!Ellipsis = <<"dot", "dot", "dot">>
    BY <1>3 DEF Layout!Ellipsis
  <2> QED
    BY <1>1, <2>1
<1> QED
  BY <1>2, <1>3

(* What is read back of a text: the text, if the array holds it. *)
LEMMA ReadBackIs ==
    ASSUME NEW t \in Seq(Signs), NEW max \in Nat, NEW s \in Layout!ReadBack(t, max)
    PROVE  /\ s \in Seq(Signs) /\ Len(s) = Len(t)
           /\ Len(t) <= max => s = t
           /\ Len(t) > max => SubSeq(s, 1, max) = SubSeq(t, 1, max)
<1> DEFINE m == IF Len(t) < max THEN Len(t) ELSE max
           c == SubSeq(t, 1, m)
<1>1. PICK rest \in [1 .. (Len(t) - Len(c)) -> Layout!Glyphs] : s = c \o rest
  BY Zenon DEF Layout!ReadBack, Layout!cn_utf8_decode
<1>2. m \in 0 .. Len(t) /\ Len(t) \in Nat /\ (Len(t) <= max => m = Len(t))
  OBVIOUS
<1> HIDE DEF m
<1>3. c \in Seq(Signs) /\ Len(c) = m
  BY <1>2
<1>4. m = Len(t) => c = t
  BY <1>2
<1> HIDE DEF c
<1>5. Len(t) - Len(c) \in Nat
  BY <1>2, <1>3
<1>6. rest \in Seq(Signs) /\ Len(rest) = Len(t) - Len(c)
  <2>1. Layout!Glyphs \subseteq Signs
    BY DEF Signs
  <2>2. rest \in [1 .. (Len(t) - Len(c)) -> Signs]
    BY <2>1
  <2> QED
    BY <1>5, <2>2
<1>7. s \in Seq(Signs) /\ Len(s) = Len(t)
  <2>1. c \o rest \in Seq(Signs) /\ Len(c \o rest) = Len(c) + Len(rest)
    BY <1>3, <1>6, JoinIs
  <2>2. Len(c) + (Len(t) - Len(c)) = Len(t)
    BY <1>2, <1>3
  <2> QED
    BY <1>1, <1>6, <2>1, <2>2, Zenon
<1>8. ASSUME Len(t) <= max PROVE s = t
  <2>1. c = t /\ Len(rest) = 0
    BY <1>2, <1>3, <1>4, <1>6, <1>8
  <2>2. rest = << >>
    BY <1>6, <2>1
  <2> QED
    BY <1>1, <2>1, <2>2
<1>9. ASSUME Len(t) > max PROVE SubSeq(s, 1, max) = SubSeq(t, 1, max)
  <2>1. c = SubSeq(t, 1, max) /\ Len(c) = max
    BY <1>3, <1>9 DEF c, m
  <2>2. SubSeq(c \o rest, 1, Len(c)) = c
    BY <1>3, <1>6
  <2> QED
    BY <1>1, <2>1, <2>2, Zenon
<1> QED
  BY <1>7, <1>8, <1>9

(* A longer beginning is not narrower. *)
LEMMA BeginningsGrow ==
    ASSUME NEW h \in BOOLEAN, NEW s \in Seq(Signs),
           NEW i \in 0 .. Len(s), NEW j \in i .. Len(s)
    PROVE  /\ WidthFor(h, SubSeq(s, 1, i)) \in Nat /\ WidthFor(h, SubSeq(s, 1, j)) \in Nat
           /\ WidthFor(h, SubSeq(s, 1, i)) <= WidthFor(h, SubSeq(s, 1, j))
<1>0. 0 \in 0 .. Len(s) /\ i \in 0 .. Len(s) /\ j \in 0 .. Len(s) /\ 0 + 1 = 1
  OBVIOUS
<1>1. PICK f : SumsOf(Advances(h, s), Len(s), f)
  BY AdvancesSum
<1>2. WidthFor(h, SubSeq(s, 0 + 1, i)) = f[i] - f[0] /\ f[0] \in Nat /\ f[i] \in Nat
      /\ f[0] <= f[i]
  BY <1>0, <1>1, WidthBetween
<1>3. WidthFor(h, SubSeq(s, 0 + 1, j)) = f[j] - f[0] /\ f[j] \in Nat /\ f[0] <= f[j]
  BY <1>0, <1>1, WidthBetween
<1>4. f[i] <= f[j]
  BY <1>0, <1>1, WidthBetween
<1> QED
  BY <1>0, <1>2, <1>3, <1>4

(* What is stored of a title decides about it: a beginning of what is read    *)
(* that fits was stored.                                                     *)
LEMMA DecidedIs ==
    ASSUME layoutText \in Seq(Signs), has_ellipsis \in BOOLEAN, avail \in Int,
           Layout!Decided, NEW s \in Layout!ReadBack(layoutText, MAX_LIB_CP),
           NEW k \in 0 .. Len(s), WidthFor(has_ellipsis, SubSeq(s, 1, k)) <= avail
    PROVE  k <= MAX_LIB_CP /\ (k = Len(s) => Len(layoutText) <= MAX_LIB_CP)
<1>1. s \in Seq(Signs) /\ Len(s) = Len(layoutText)
      /\ (Len(layoutText) > MAX_LIB_CP =>
            SubSeq(s, 1, MAX_LIB_CP) = SubSeq(layoutText, 1, MAX_LIB_CP))
  BY LayoutConstants, ReadBackIs
<1>2. Len(layoutText) \in Nat /\ MAX_LIB_CP \in Nat
  BY LayoutConstants
<1>3. CASE Len(layoutText) <= MAX_LIB_CP
  BY <1>1, <1>2, <1>3
<1>4. CASE Len(layoutText) > MAX_LIB_CP
  <2>1. WidthFor(has_ellipsis, SubSeq(s, 1, MAX_LIB_CP)) > avail
    <3>1. Layout!WidthOf(SubSeq(layoutText, 1, MAX_LIB_CP)) > avail
      BY <1>2, <1>4 DEF Layout!Decided
    <3> QED
      BY <1>1, <1>4, <3>1, WidthOfIs, Zenon
  <2>2. ASSUME k >= MAX_LIB_CP PROVE FALSE
    <3>1. MAX_LIB_CP \in 0 .. Len(s) /\ k \in MAX_LIB_CP .. Len(s)
      BY <1>1, <1>2, <1>4, <2>2
    <3>2. /\ WidthFor(has_ellipsis, SubSeq(s, 1, MAX_LIB_CP)) \in Nat
          /\ WidthFor(has_ellipsis, SubSeq(s, 1, k)) \in Nat
          /\ WidthFor(has_ellipsis, SubSeq(s, 1, MAX_LIB_CP))
                 <= WidthFor(has_ellipsis, SubSeq(s, 1, k))
      BY <1>1, <3>1, BeginningsGrow
    <3> HIDE DEF WidthFor
    <3> QED
      BY <2>1, <3>2
  <2> QED
    BY <1>1, <1>2, <1>4, <2>2
<1> QED
  BY <1>2, <1>3, <1>4

LEMMA LayoutInitially == ASSUME Layout!Init PROVE LayoutInv
<1>1. layoutText = << >> /\ avail \in LineWidths /\ has_ellipsis \in BOOLEAN
      /\ layoutPc = "text" /\ layoutShown = << >> /\ layoutP = 0 /\ lines = {}
  BY Zenon DEF Layout!Init
<1>2. << >> \in Seq(Layout!Glyphs) /\ << >> \in Seq(Signs) /\ Len(<< >>) = 0
  OBVIOUS
<1> QED
  BY <1>1, <1>2, LayoutConstants DEF LayoutInv, LayoutTitle

LEMMA LayoutTypes == ASSUME LayoutInv, Layout!Type PROVE LayoutInv'
<1>1. PICK g \in Layout!Glyphs : layoutText' = Append(layoutText, g)
  BY Zenon DEF Layout!Type
<1>2. Len(layoutText) < MaxText
      /\ UNCHANGED <<avail, has_ellipsis, mode, layoutPc, layoutShown, layoutP, lines>>
  BY Zenon DEF Layout!Type
<1>3. layoutText' \in Seq(Layout!Glyphs) /\ Len(layoutText') <= MaxText
  BY <1>1, <1>2, LayoutConstants DEF LayoutInv
<1>4. LayoutTitle'
  <2>1. layoutShown = << >> /\ lines = {}
    BY DEF LayoutInv, Layout!Type
  <2> QED
    BY <1>2, <2>1 DEF LayoutTitle
<1> QED
  BY <1>2, <1>3, <1>4, Zenon DEF LayoutInv

LEMMA DecidedStays ==
    ASSUME UNCHANGED <<layoutText, avail, has_ellipsis>>
    PROVE  (Layout!Decided)' <=> Layout!Decided
BY Zenon DEF Layout!Decided, Layout!WidthOf, Layout!cn_text_measure

(* Nothing is drawn yet. *)
LEMMA LayoutShows ==
    ASSUME LayoutInv, layoutPc \in {"text", "shown"}, layoutPc' \in {"shown", "lines", "done"},
           UNCHANGED <<layoutText, avail, has_ellipsis, mode, layoutP, lines>>,
           layoutShown' \in Seq(Signs),
           Layout!Decided /\ mode = "fit" /\ layoutShown' # << >> =>
               WidthFor(has_ellipsis, layoutShown') <= avail /\ Len(layoutShown') <= MAX_CP
    PROVE  LayoutInv'
<1>1. layoutP = 0 /\ lines = {}
  BY DEF LayoutInv
<1>2. layoutP' \in 0 .. Len(layoutShown') /\ lines' \subseteq 1 .. layoutP' /\ lines' = {}
  BY <1>1
<1>3. Layout!Decided /\ mode' = "fit" => LayoutTitle'
  BY <1>2 DEF LayoutTitle
<1>4. layoutPc' \in {"text", "shown", "lines", "done"} /\ layoutPc' # "text"
  OBVIOUS
<1>5. layoutText' \in Seq(Layout!Glyphs) /\ Len(layoutText') <= MaxText
      /\ avail' \in LineWidths /\ has_ellipsis' \in BOOLEAN /\ layoutP' = 0
  BY <1>1 DEF LayoutInv
<1>6. (Layout!Decided)' <=> Layout!Decided
  BY DecidedStays
<1> QED
  BY <1>2, <1>3, <1>4, <1>5, <1>6, Zenon DEF LayoutInv

LEMMA LayoutWraps == ASSUME LayoutInv, Layout!Wrap PROVE LayoutInv'
<1>1. layoutPc = "text" /\ mode = "wrap" /\ layoutPc' = "shown" /\ layoutShown' = layoutText
      /\ UNCHANGED <<layoutText, avail, has_ellipsis, mode, layoutP, lines>>
  BY Zenon DEF Layout!Wrap
<1>2. layoutText \in Seq(Signs)
  BY DEF LayoutInv, Signs
<1> QED
  BY <1>1, <1>2, LayoutShows

LEMMA LayoutDecodes == ASSUME LayoutInv, Layout!Decode PROVE LayoutInv'
<1>1. layoutPc = "shown" /\ layoutPc' = "lines"
      /\ layoutShown' \in Layout!ReadBack(layoutShown, MAX_CP)
      /\ UNCHANGED <<layoutText, avail, has_ellipsis, mode, layoutP, lines>>
  BY Zenon DEF Layout!Decode
<1>2. layoutShown \in Seq(Signs) /\ (Layout!Decided /\ mode = "fit" => LayoutTitle)
  BY DEF LayoutInv
<1>3. layoutShown' \in Seq(Signs) /\ (Len(layoutShown) <= MAX_CP => layoutShown' = layoutShown)
      /\ Len(layoutShown') = Len(layoutShown)
  BY <1>1, <1>2, LayoutConstants, ReadBackIs
<1>4. layoutShown' # << >> => layoutShown # << >>
  BY <1>2, <1>3
<1> QED
  BY <1>1, <1>2, <1>3, <1>4, LayoutShows DEF LayoutTitle

(* The beginning that render_fit keeps leaves room for the ellipsis. *)
LEMMA PrefixIs ==
    ASSUME NEW s \in Seq(Signs), has_ellipsis \in BOOLEAN, avail \in Int,
           Layout!WidthOf(Layout!Ellipsis) <= avail
    PROVE  /\ Layout!Prefix(s) \in 0 .. Len(s)
           /\ Layout!WidthOf(SubSeq(s, 1, Layout!Prefix(s))) + Layout!WidthOf(Layout!Ellipsis)
                  <= avail
<1> DEFINE w == Layout!WidthOf(Layout!Ellipsis)
           Fits(j) == Layout!WidthOf(SubSeq(s, 1, j)) + w <= avail
           S == {k \in 0 .. Len(s) : \A j \in 0 .. k : Fits(j)}
           Kept(k) == /\ k = Len(s) \/ Layout!WidthOf(SubSeq(s, 1, k + 1)) + w > avail
                      /\ \A j \in 0 .. k : Fits(j)
<1>0. Len(s) \in Nat
  OBVIOUS
<1>1. PICK f : SumsOf(Advances(has_ellipsis, s), Len(s), f)
  BY AdvancesSum
<1>2. \A j \in 0 .. Len(s) : Layout!WidthOf(SubSeq(s, 1, j)) = f[j] - f[0]
                             /\ f[j] \in Nat /\ f[0] \in Nat
  <2>1. ASSUME NEW j \in 0 .. Len(s)
        PROVE  Layout!WidthOf(SubSeq(s, 1, j)) = f[j] - f[0] /\ f[j] \in Nat /\ f[0] \in Nat
    <3>1. 0 \in 0 .. Len(s) /\ 0 + 1 = 1
      BY <1>0
    <3>2. WidthFor(has_ellipsis, SubSeq(s, 0 + 1, j)) = f[j] - f[0]
          /\ f[j] \in Nat /\ f[0] \in Nat
      BY <1>1, <3>1, WidthBetween
    <3> QED
      BY <3>1, <3>2, WidthOfIs, Zenon
  <2> QED
    BY <2>1
<1>3. w \in Nat
  <2>1. Layout!Ellipsis \in Seq(Signs)
    BY EllipsisIs
  <2>2. WidthFor(has_ellipsis, Layout!Ellipsis) \in Nat
    BY <2>1, AdvancesSum, WidthIsSum
  <2> QED
    BY <2>2, WidthOfIs
<1>4. w <= avail
  OBVIOUS
<1> HIDE DEF w
<1>5. 0 \in S
  <2>1. 0 \in 0 .. Len(s) /\ \A j \in 0 .. 0 : j = 0
    BY <1>0
  <2>2. Fits(0)
    BY <1>2, <1>3, <1>4, <2>1
  <2> HIDE DEF Fits
  <2> QED
    BY <2>1, <2>2
<1>6. PICK k \in S : \A x \in S : k >= x
  <2>1. S \in SUBSET (0 .. Len(s))
    OBVIOUS
  <2> HIDE DEF S
  <2> QED
    BY <1>0, <1>5, <2>1, Greatest
<1>7. Kept(k)
  <2>1. k \in 0 .. Len(s) /\ \A j \in 0 .. k : Fits(j)
    BY <1>6
  <2>2. ASSUME k # Len(s) PROVE ~Fits(k + 1)
    <3>1. k + 1 \in 0 .. Len(s) /\ ~(k >= k + 1)
          /\ \A j \in 0 .. k + 1 : j \in 0 .. k \/ j = k + 1
      BY <1>0, <2>1, <2>2
    <3> HIDE DEF Fits
    <3> QED
      BY <1>6, <2>1, <3>1
  <2>3. k # Len(s) => Layout!WidthOf(SubSeq(s, 1, k + 1)) + w > avail
    <3>1. ASSUME k # Len(s) PROVE Layout!WidthOf(SubSeq(s, 1, k + 1)) \in Int
      <4>1. k + 1 \in 0 .. Len(s)
        BY <1>0, <2>1, <3>1
      <4> QED
        BY <1>2, <4>1
    <3> QED
      BY <1>3, <2>2, <3>1
  <2> QED
    BY <2>1, <2>3
<1>8. Layout!Prefix(s) = CHOOSE x \in 0 .. Len(s) : Kept(x)
  BY Zenon DEF Layout!Prefix, w
<1>9. Layout!Prefix(s) \in 0 .. Len(s) /\ Kept(Layout!Prefix(s))
  <2>1. k \in 0 .. Len(s)
    BY <1>6
  <2> HIDE DEF Kept
  <2> QED
    BY <1>7, <1>8, <2>1, Zenon
<1>10. Layout!Prefix(s) \in 0 .. Layout!Prefix(s)
  BY <1>9
<1> QED
  BY <1>9, <1>10, Zenon DEF w

LEMMA LayoutShortens == ASSUME LayoutInv, Layout!Fit PROVE LayoutInv'
<1>1. layoutPc = "text" /\ UNCHANGED <<layoutText, avail, has_ellipsis, mode, layoutP, lines>>
  BY Zenon DEF Layout!Fit
<1>2. PICK s \in Layout!ReadBack(layoutText, MAX_LIB_CP) :
          \/ layoutPc' = "done" /\ layoutShown' = layoutShown
          \/ Layout!WidthOf(s) <= avail /\ layoutPc' = "shown" /\ layoutShown' = layoutText
          \/ /\ Layout!WidthOf(Layout!Ellipsis) <= avail /\ layoutPc' = "shown"
             /\ layoutShown' = SubSeq(s, 1, Layout!Prefix(s)) \o Layout!Ellipsis
  BY Zenon DEF Layout!Fit
<1>3. layoutText \in Seq(Signs) /\ Len(layoutText) <= MaxText /\ has_ellipsis \in BOOLEAN
      /\ avail \in Int
  BY LayoutConstants DEF LayoutInv, Signs
<1>4. s \in Seq(Signs) /\ Len(s) = Len(layoutText) /\ (Len(layoutText) <= MAX_LIB_CP => s = layoutText)
  BY <1>2, <1>3, LayoutConstants, ReadBackIs
<1>5. CASE layoutPc' = "done" /\ layoutShown' = layoutShown
  <2>1. layoutShown = << >> /\ layoutShown \in Seq(Signs)
    BY <1>1 DEF LayoutInv
  <2> QED
    BY <1>1, <1>5, <2>1, LayoutShows
<1>6. CASE Layout!WidthOf(s) <= avail /\ layoutPc' = "shown" /\ layoutShown' = layoutText
  <2>1. ASSUME Layout!Decided
        PROVE  WidthFor(has_ellipsis, layoutText) <= avail /\ Len(layoutText) <= MAX_CP
    <3>1. Len(s) \in Nat /\ SubSeq(s, 1, Len(s)) = s
      BY <1>4
    <3>2. WidthFor(has_ellipsis, SubSeq(s, 1, Len(s))) <= avail /\ Len(s) \in 0 .. Len(s)
      <4>1. WidthFor(has_ellipsis, s) <= avail
        BY <1>6, WidthOfIs, Zenon
      <4>2. WidthFor(has_ellipsis, SubSeq(s, 1, Len(s))) <= avail
        BY <3>1, <4>1, Zenon
      <4> QED
        BY <3>1, <4>2
    <3>3. Len(layoutText) <= MAX_LIB_CP
      BY <1>2, <1>3, <2>1, <3>2, DecidedIs
    <3> QED
      BY <1>3, <1>4, <1>6, <3>3, LayoutConstants, WidthOfIs
  <2> QED
    BY <1>1, <1>3, <1>6, <2>1, LayoutShows
<1>7. CASE /\ Layout!WidthOf(Layout!Ellipsis) <= avail /\ layoutPc' = "shown"
           /\ layoutShown' = SubSeq(s, 1, Layout!Prefix(s)) \o Layout!Ellipsis
  <2> DEFINE k == Layout!Prefix(s)
             a == SubSeq(s, 1, k)
             b == Layout!Ellipsis
  <2>1. k \in 0 .. Len(s) /\ Layout!WidthOf(a) + Layout!WidthOf(b) <= avail
    BY <1>3, <1>4, <1>7, PrefixIs
  <2>2. b \in Seq(Signs) /\ Len(b) <= 3 /\ Len(b) \in Nat
    BY EllipsisIs
  <2> HIDE DEF k, b
  <2>3. a \in Seq(Signs) /\ Len(a) = k
    BY <1>4, <2>1
  <2>4. layoutShown' = a \o b
    BY <1>7 DEF k, b
  <2> HIDE DEF a
  <2>5. a \o b \in Seq(Signs) /\ Len(a \o b) = Len(a) + Len(b)
        /\ WidthFor(has_ellipsis, a \o b) = WidthFor(has_ellipsis, a) + WidthFor(has_ellipsis, b)
    BY <1>3, <2>2, <2>3, WidthJoins
  <2>6. WidthFor(has_ellipsis, layoutShown') <= avail
    <3>1. WidthFor(has_ellipsis, a) + WidthFor(has_ellipsis, b) <= avail
      BY <2>1, WidthOfIs, Zenon
    <3> QED
      BY <2>4, <2>5, <3>1, Zenon
  <2>7. ASSUME Layout!Decided PROVE Len(layoutShown') <= MAX_CP
    <3>1. WidthFor(has_ellipsis, SubSeq(s, 1, k)) <= avail
      <4>1. WidthFor(has_ellipsis, b) \in Nat /\ WidthFor(has_ellipsis, a) \in Nat
        BY <1>3, <2>2, <2>3, AdvancesSum, WidthIsSum
      <4>2. WidthFor(has_ellipsis, a) + WidthFor(has_ellipsis, b) <= avail
        BY <2>1, WidthOfIs, Zenon
      <4>3. WidthFor(has_ellipsis, a) <= avail
        BY <1>3, <4>1, <4>2
      <4> QED
        BY <4>3, Zenon DEF a
    <3>2. Len(a) <= MAX_LIB_CP
      BY <1>2, <1>3, <2>1, <2>3, <2>7, <3>1, DecidedIs
    <3>3. Len(a) + Len(b) <= MAX_CP
      BY <2>1, <2>2, <2>3, <3>2, LayoutConstants
    <3> QED
      BY <2>4, <2>5, <3>3, Zenon
  <2>8. layoutShown' \in Seq(Signs)
    BY <2>4, <2>5, Zenon
  <2> QED
    BY <1>1, <1>7, <2>6, <2>7, <2>8, LayoutShows
<1> QED
  BY <1>2, <1>5, <1>6, <1>7

LEMMA LineBeforeIs ==
    ASSUME NEW n \in Nat, NEW ls \in SUBSET (1 .. n), NEW e \in Nat
    PROVE  /\ LineBefore(ls, e) \in {0} \cup {k \in ls : k < e}
           /\ \A k \in ls : k < e => k <= LineBefore(ls, e)
<1> DEFINE T == {0} \cup {k \in ls : k < e}
<1>0. 0 \in 0 .. n /\ \A k \in 1 .. n : k \in 0 .. n
  OBVIOUS
<1>1. T \in SUBSET (0 .. n) /\ T # {}
  <2>1. 0 \in T
    BY Zenon
  <2>2. \A k \in ls : k \in 1 .. n
    BY Zenon
  <2>3. \A k \in T : k = 0 \/ k \in ls
    BY Zenon
  <2> HIDE DEF T
  <2>4. \A k \in T : k \in 0 .. n
    BY <1>0, <2>2, <2>3, Zenon
  <2> QED
    BY <2>1, <2>4, Zenon
<1>2. LineBefore(ls, e) = Layout!Max(T)
  BY Zenon DEF LineBefore
<1> HIDE DEF T
<1>3. Layout!Max(T) \in T /\ \A y \in T : Layout!Max(T) >= y
  BY <1>1, LayoutMax
<1>4. \A y \in T : y \in Nat
  BY <1>1
<1> QED
  BY <1>2, <1>3, <1>4 DEF T

LEMMA LayoutAddsLine == ASSUME LayoutInv, Layout!Line PROVE LayoutInv'
<1> DEFINE e == LineFor(has_ellipsis, avail, layoutShown, layoutP)
           n == Len(layoutShown)
<1>1. layoutPc = "lines" /\ layoutP < n /\ layoutP' = e /\ lines' = lines \cup {e}
      /\ UNCHANGED <<layoutText, avail, has_ellipsis, mode, layoutPc, layoutShown>>
  BY LineEndIs, Zenon DEF Layout!Line
<1>2. layoutShown \in Seq(Signs) /\ n \in Nat /\ layoutP \in 0 .. n
      /\ lines \in SUBSET (1 .. layoutP) /\ (layoutP # 0 => layoutP \in lines)
      /\ has_ellipsis \in BOOLEAN /\ avail \in Int
  BY LayoutConstants DEF LayoutInv
<1>3. LineOK(has_ellipsis, avail, layoutShown, layoutP, e)
  BY <1>1, <1>2, LineForOK
<1>t. ASSUME Layout!Decided, mode = "fit" PROVE LayoutTitle'
  <2>1. LayoutTitle
    BY <1>t DEF LayoutInv
  <2>2. layoutShown # << >>
    BY <1>1, <1>2
  <2>3. layoutP = 0
    <3>1. layoutP \in lines => layoutP = n
      BY <2>1 DEF LayoutTitle
    <3> QED
      BY <1>1, <1>2, <3>1
  <2>4. LineFound(has_ellipsis, avail, layoutShown, layoutP,
                  LastFor(has_ellipsis, avail, layoutShown, layoutP), e)
    BY <1>1, <1>2, LineForIs
  <2>5. ASSUME NEW F \in 0 + 1 .. n, Overflows(has_ellipsis, avail, layoutShown, 0, F) PROVE F = n
    <3> SUFFICES ASSUME F # n PROVE FALSE
      OBVIOUS
    <3>1. PICK f : SumsOf(Advances(has_ellipsis, layoutShown), n, f)
      BY <1>2, AdvancesSum
    <3>2. 0 \in 0 .. n /\ n \in 0 .. n /\ F + 1 \in 0 .. n /\ F + 1 <= n
      BY <1>2
    <3>3. WidthFor(has_ellipsis, SubSeq(layoutShown, 0 + 1, F + 1)) = f[F + 1] - f[0]
          /\ f[0] \in Nat /\ f[F + 1] \in Nat
      BY <1>2, <3>1, <3>2, WidthBetween
    <3>4. f[F + 1] <= f[n] /\ f[n] \in Nat /\ f[0] = 0
      <4>1. f \in [0 .. n -> Nat] /\ f[0] = 0
        BY <3>1 DEF SumsOf
      <4>2. f[F + 1] <= f[n]
        BY <1>2, <3>1, <3>2, AdvancesAre, SumsDoNotShrink
      <4> QED
        BY <3>2, <4>1, <4>2
    <3>5. WidthFor(has_ellipsis, layoutShown) = f[n]
      BY <1>2, <3>1, WidthIsSum
    <3>6. WidthFor(has_ellipsis, layoutShown) <= avail
      BY <2>1, <2>2 DEF LayoutTitle
    <3>7. WidthFor(has_ellipsis, SubSeq(layoutShown, 0 + 1, F + 1)) > avail
      BY <2>5, Zenon DEF Overflows
    <3> QED
      BY <1>2, <3>3, <3>4, <3>5, <3>6, <3>7
  <2>6. e = n
    <3> DEFINE F == LastFor(has_ellipsis, avail, layoutShown, layoutP)
    <3>1. F \in layoutP + 1 .. n /\ e \in layoutP + 1 .. F
          /\ (F = n \/ Overflows(has_ellipsis, avail, layoutShown, layoutP, F))
          /\ (e # F => F < n)
      BY <2>4, Zenon DEF LineFound
    <3> HIDE DEF F
    <3>2. F = n
      BY <2>3, <2>5, <3>1
    <3> QED
      BY <1>2, <3>1, <3>2
  <2> HIDE DEF e
  <2>7. lines' \subseteq {n}
    BY <1>1, <2>1, <2>6 DEF LayoutTitle
  <2> QED
    BY <1>1, <2>1, <2>7 DEF LayoutTitle
<1> HIDE DEF e
<1>4. e \in layoutP + 1 .. n
  BY <1>3 DEF LineOK
<1>5. layoutP' \in 0 .. n /\ lines' \in SUBSET (1 .. layoutP') /\ layoutP' \in lines'
  BY <1>1, <1>2, <1>4
<1>6. ASSUME NEW x \in lines'
      PROVE  LineOK(has_ellipsis, avail, layoutShown, LineBefore(lines', x), x)
  <2>1. CASE x \in lines
    <3>1. {k \in lines' : k < x} = {k \in lines : k < x}
      <4>1. ~(e < x)
        BY <1>2, <1>4, <2>1
      <4> QED
        BY <1>1, <4>1
    <3>2. LineBefore(lines', x) = LineBefore(lines, x)
      BY <3>1, Zenon DEF LineBefore
    <3> QED
      BY <2>1, <3>2, Zenon DEF LayoutInv
  <2>2. CASE x = e
    <3>1. e \in Nat /\ lines' \in SUBSET (1 .. n)
      BY <1>2, <1>4, <1>5
    <3>2. /\ LineBefore(lines', e) \in {0} \cup {k \in lines' : k < e}
          /\ \A k \in lines' : k < e => k <= LineBefore(lines', e)
      BY <1>2, <3>1, LineBeforeIs
    <3>3. \A k \in lines' : k < e => k \in 1 .. layoutP
      BY <1>1, <1>2, <1>4
    <3> DEFINE b == LineBefore(lines', e)
    <3>4. b \in 0 .. layoutP
      BY <1>2, <3>2, <3>3
    <3>5. layoutP # 0 => layoutP <= b
      <4>1. layoutP # 0 => layoutP \in lines' /\ layoutP < e
        BY <1>1, <1>2, <1>4
      <4> QED
        BY <3>2, <4>1, Zenon
    <3> HIDE DEF b
    <3>6. b = layoutP
      BY <1>2, <3>4, <3>5
    <3> QED
      BY <1>3, <2>2, <3>6, Zenon DEF b
  <2> QED
    BY <1>1, <2>1, <2>2
<1>7. (Layout!Decided)' <=> Layout!Decided
  BY <1>1, DecidedStays
<1>8. layoutText' \in Seq(Layout!Glyphs) /\ Len(layoutText') <= MaxText
      /\ avail' \in LineWidths /\ has_ellipsis' \in BOOLEAN /\ layoutShown' \in Seq(Signs)
      /\ layoutPc' = "lines"
  BY <1>1 DEF LayoutInv
<1>9. Len(layoutShown') = n
  BY <1>1
<1>10. \A x \in lines' : LineOK(has_ellipsis', avail', layoutShown', LineBefore(lines', x), x)
  BY <1>1, <1>6, Zenon
<1>11. layoutPc' \in {"text", "shown", "lines", "done"} /\ layoutPc' # "text" /\ layoutPc' # "shown"
  BY <1>8
<1> QED
  BY <1>1, <1>t, <1>5, <1>7, <1>8, <1>9, <1>10, <1>11, Zenon DEF LayoutInv

LEMMA LayoutEnds == ASSUME LayoutInv, Layout!Finish PROVE LayoutInv'
<1>1. layoutPc' = "done"
      /\ UNCHANGED <<layoutText, avail, has_ellipsis, mode, layoutShown, layoutP, lines>>
  BY Zenon DEF Layout!Finish
<1>2. layoutPc' \in {"text", "shown", "lines", "done"} /\ layoutPc' \notin {"text", "shown"}
  BY <1>1
<1>3. LayoutTitle' <=> LayoutTitle
  BY <1>1, Zenon DEF LayoutTitle
<1>4. (Layout!Decided)' <=> Layout!Decided
  BY <1>1, DecidedStays
<1> QED
  BY <1>1, <1>2, <1>3, <1>4, Zenon DEF LayoutInv

LEMMA LayoutStepKeeps == ASSUME LayoutInv, Layout!Next PROVE LayoutInv'
BY LayoutTypes, LayoutShortens, LayoutWraps, LayoutDecodes, LayoutAddsLine, LayoutEnds,
   Zenon DEF Layout!Next

LEMMA LayoutStutters == ASSUME LayoutInv, UNCHANGED layoutVars PROVE LayoutInv'
BY DecidedStays, Zenon DEF LayoutInv, LayoutTitle, layoutVars

(* A line without width but for its last glyph. *)
LEMMA OneWideGlyph ==
    ASSUME NEW h \in BOOLEAN, NEW s \in Seq(Signs), NEW q \in 0 .. Len(s),
           NEW e \in q + 1 .. Len(s), WidthFor(h, SubSeq(s, q + 1, e - 1)) = 0
    PROVE  \A k \in q + 1 .. e - 1 : Measured(h, s[k]) = 0
<1> SUFFICES ASSUME NEW k \in q + 1 .. e - 1 PROVE Measured(h, s[k]) = 0
  OBVIOUS
<1>0. Len(s) \in Nat /\ q \in 0 .. Len(s) /\ e - 1 \in 0 .. Len(s) /\ e - 1 \in q .. Len(s)
      /\ k \in 1 .. Len(s) /\ k \in 0 .. Len(s) /\ k - 1 \in 0 .. Len(s)
      /\ q <= k - 1 /\ k - 1 <= k /\ k <= e - 1
  OBVIOUS
<1>1. PICK f : SumsOf(Advances(h, s), Len(s), f)
  BY AdvancesSum
<1>2. WidthFor(h, SubSeq(s, q + 1, e - 1)) = f[e - 1] - f[q] /\ f[e - 1] \in Nat /\ f[q] \in Nat
  BY <1>0, <1>1, WidthBetween
<1>3. f[q] <= f[k - 1] /\ f[k] <= f[e - 1]
  BY <1>0, <1>1, AdvancesAre, SumsDoNotShrink
<1>4. f[k] = f[k - 1] + Measured(h, s[k]) /\ f[k] \in Nat /\ f[k - 1] \in Nat
      /\ Measured(h, s[k]) \in Nat
  BY <1>0, <1>1, AdvancesAre DEF SumsOf
<1> QED
  BY <1>2, <1>3, <1>4

LEMMA LayoutCardinality ==
    /\ Layout!Cardinality({}) = 0
    /\ \A x : Layout!Cardinality({x}) = 1
<1>1. \A S : Layout!Cardinality(S) = Cardinality(S)
  BY Zenon DEF Layout!Cardinality, Cardinality
<1> QED
  BY <1>1, FS_EmptySet, FS_Singleton, Zenon

LEMMA DrawnFits ==
    ASSUME LayoutInv, NEW e \in lines
    PROVE  \/ Layout!render_cps(e) = << >> \/ Layout!WidthOf(Layout!render_cps(e)) <= avail
           \/ Layout!Cardinality({k \in DOMAIN Layout!GlyphsOf(e) :
                  Layout!cn_text_measure(Layout!GlyphsOf(e)[k]) > 0}) = 1
<1> DEFINE h == has_ellipsis
           s == layoutShown
           q == LineBefore(lines, e)
           ink == {k \in q + 1 .. e : s[k] # "space" /\ Measured(h, s[k]) > 0}
<1>1. s \in Seq(Signs) /\ h \in BOOLEAN /\ avail \in Int /\ LineOK(h, avail, s, q, e)
  BY LayoutConstants DEF LayoutInv
<1>2. Layout!First(e) = q + 1 /\ Layout!GlyphsOf(e) = SubSeq(s, q + 1, e)
      /\ \A g : Layout!cn_text_measure(g) = Measured(h, g)
  BY Zenon DEF Layout!First, Layout!GlyphsOf, LineBefore, Layout!cn_text_measure, Measured
<1>3. Layout!render_cps(e) = IF ink = {} THEN << >> ELSE SubSeq(s, Layout!Min(ink), e)
  BY <1>2, Zenon DEF Layout!render_cps
<1> HIDE DEF q
<1>4. Len(s) \in Nat /\ q \in 0 .. Len(s) /\ e \in q + 1 .. Len(s) /\ LineFits(h, avail, s, q, e)
  BY <1>1 DEF LineOK
<1>5. CASE WidthFor(h, SubSeq(s, q + 1, e)) <= avail
  <2> SUFFICES ASSUME ink # {} PROVE Layout!WidthOf(SubSeq(s, Layout!Min(ink), e)) <= avail
    BY <1>3
  <2> DEFINE m == Layout!Min(ink)
  <2>1. m \in q + 1 .. e
    <3>1. ink \in SUBSET Nat /\ ink \subseteq q + 1 .. e
      BY <1>4
    <3> HIDE DEF ink
    <3>2. m \in ink
      BY <3>1, LayoutMin
    <3> QED
      BY <3>1, <3>2
  <2> HIDE DEF m, ink
  <2>2. m - 1 \in 0 .. Len(s) /\ (m - 1) + 1 = m /\ e \in m - 1 .. Len(s) /\ e \in q .. Len(s)
        /\ q <= m - 1 /\ m - 1 <= e /\ e \in 0 .. Len(s)
    BY <1>4, <2>1
  <2>3. PICK f : SumsOf(Advances(h, s), Len(s), f)
    BY <1>1, AdvancesSum
  <2>4. WidthFor(h, SubSeq(s, q + 1, e)) = f[e] - f[q] /\ f[e] \in Nat /\ f[q] \in Nat
    BY <1>1, <1>4, <2>2, <2>3, WidthBetween
  <2>5. WidthFor(h, SubSeq(s, (m - 1) + 1, e)) = f[e] - f[m - 1] /\ f[m - 1] \in Nat
    BY <1>1, <2>2, <2>3, WidthBetween
  <2>6. f[q] <= f[m - 1]
    BY <1>1, <1>4, <2>2, <2>3, AdvancesAre, SumsDoNotShrink
  <2>7. WidthFor(h, SubSeq(s, (m - 1) + 1, e)) <= avail
    BY <1>1, <1>5, <2>4, <2>5, <2>6
  <2> QED
    BY <2>2, <2>7, WidthOfIs, Zenon DEF m
<1>6. CASE WidthFor(h, SubSeq(s, q + 1, e - 1)) = 0
  <2>1. \A k \in q + 1 .. e - 1 : Measured(h, s[k]) = 0
    BY <1>1, <1>4, <1>6, OneWideGlyph
  <2>2. CASE Measured(h, s[e]) = 0
    <3>1. \A k \in q + 1 .. e : k \in q + 1 .. e - 1 \/ k = e
      BY <1>4
    <3>2. ink = {}
      BY <2>1, <2>2, <3>1
    <3> QED
      BY <1>3, <3>2
  <2>3. CASE Measured(h, s[e]) # 0
    <3> DEFINE t == SubSeq(s, q + 1, e)
               W == {k \in DOMAIN t : Measured(h, t[k]) > 0}
    <3>1. DOMAIN t = 1 .. e - q /\ \A k \in 1 .. e - q : t[k] = s[q + k]
      BY <1>1, <1>4
    <3>2. Measured(h, s[e]) > 0
      BY <1>1, <2>3, AdvancesAre
    <3>3. e - q \in 1 .. e - q /\ q + (e - q) = e
      BY <1>4
    <3>4. \A k \in 1 .. e - q : k = e - q \/ q + k \in q + 1 .. e - 1
      BY <1>4
    <3> HIDE DEF t
    <3>5. W = {e - q}
      BY <2>1, <3>1, <3>2, <3>3, <3>4
    <3>6. {k \in DOMAIN Layout!GlyphsOf(e) :
              Layout!cn_text_measure(Layout!GlyphsOf(e)[k]) > 0} = W
      BY <1>2, Zenon DEF t
    <3> QED
      BY <3>5, <3>6, LayoutCardinality, Zenon
  <2> QED
    BY <2>2, <2>3
<1> QED
  BY <1>4, <1>5, <1>6 DEF LineFits

LEMMA LayoutInvGives ==
    ASSUME LayoutInv
    PROVE  /\ Layout!TypeOK /\ Layout!LinesFit /\ Layout!WordsAreWhole
           /\ Layout!WrapsOnlyOnOverflow
           /\ Layout!TitleIsOneLine
<1>1. Layout!TypeOK
  <2>1. lines \subseteq 1 .. Len(layoutShown)
    BY DEF LayoutInv
  <2> QED
    BY <2>1, Zenon DEF Layout!TypeOK, LayoutInv
<1>2. Layout!LinesFit
  BY DrawnFits, Zenon DEF Layout!LinesFit
<1>3. \A e \in lines : /\ Layout!First(e) = LineBefore(lines, e) + 1
                       /\ LineOK(has_ellipsis, avail, layoutShown, LineBefore(lines, e), e)
  BY Zenon DEF LayoutInv, Layout!First, LineBefore
<1>4. ASSUME NEW e \in lines
      PROVE  /\ Layout!First(e) = LineBefore(lines, e) + 1 /\ LineBefore(lines, e) \in Nat
             /\ LineIsWhole(layoutShown, LineBefore(lines, e), e)
             /\ LineIsFull(has_ellipsis, avail, layoutShown, LineBefore(lines, e), e)
  BY <1>3 DEF LineOK
<1>5. Layout!WordsAreWhole
  <2>1. ASSUME NEW e \in lines, e < Len(layoutShown), layoutShown[e] # "space",
               NEW k \in Layout!First(e) + 1 .. e
        PROVE  layoutShown[k] # "space"
    <3>1. Layout!First(e) + 1 = LineBefore(lines, e) + 2
      BY <1>4
    <3> QED
      BY <1>4, <2>1, <3>1, Zenon DEF LineIsWhole
  <2> QED
    BY <2>1, Zenon DEF Layout!WordsAreWhole
<1>6. Layout!WrapsOnlyOnOverflow
  BY <1>4, WidthOfIs, Zenon DEF Layout!WrapsOnlyOnOverflow, LineIsFull
<1>7. Layout!TitleIsOneLine
  <2> SUFFICES ASSUME mode = "fit", Layout!Decided
               PROVE  Layout!Cardinality(lines) <= 1
                      /\ (lines # {} => Layout!WidthOf(layoutShown) <= avail)
    BY Zenon DEF Layout!TitleIsOneLine, Layout!OneLineInBand
  <2>1. LayoutTitle
    BY DEF LayoutInv
  <2>2. lines = {} \/ lines = {Len(layoutShown)}
    BY <2>1 DEF LayoutTitle
  <2>3. Layout!Cardinality(lines) <= 1
    <3>1. Layout!Cardinality(lines) = 0 \/ Layout!Cardinality(lines) = 1
      BY <2>2, LayoutCardinality, Zenon
    <3> QED
      BY <3>1
  <2>4. ASSUME lines # {} PROVE layoutShown # << >>
    <3>1. lines \subseteq 1 .. Len(layoutShown)
      BY DEF LayoutInv
    <3>2. PICK x \in lines : TRUE
      BY <2>4
    <3>3. layoutShown # << >> \/ x \in 1 .. 0
      BY <3>1
    <3> QED
      BY <3>3
  <2> QED
    BY <2>1, <2>3, <2>4, WidthOfIs, Zenon DEF LayoutTitle
<1> QED
  BY <1>1, <1>2, <1>5, <1>6, <1>7

-----------------------------------------------------------------------------
(* The inductive invariant: a part that is not exercised has no value, and   *)
(* says nothing.                                                             *)
ScreensInv ==
    /\ part = "ui" => UiP!UiStrong
    /\ part = "session" => SessionP!SessionStrong
    /\ part = "engine" => EngineInv
    /\ part = "library" => LibraryInv
    /\ part = "layout" => LayoutInv
    /\ part = "form" => FormInv /\ FormOver
    /\ part = "input" => InputInv

LEMMA ScreensInitially == Init => ScreensInv
<1> SUFFICES ASSUME Init PROVE ScreensInv
  OBVIOUS
<1>1. ASSUME part = "ui" PROVE UiP!UiStrong
  <2>1. UiP!cn_ui_init
    BY <1>1, UiStartsAlike, Zenon DEF Init
  <2> QED
    BY <2>1, UiConstantsHold, UiP!UiInitially
<1>2. ASSUME part = "session" PROVE SessionP!SessionStrong
  <2>1. SessionP!SessionInit
    BY <1>2, SessionStartsAlike, Zenon DEF Init
  <2> QED
    BY <2>1, SessionConstantsHold, SessionP!SessionInitially
<1>3. ASSUME part = "form" PROVE FormInv /\ FormOver
  <2>1. Form!Init
    BY <1>3, Zenon DEF Init
  <2> QED
    BY <2>1, FormInitially
<1>4. ASSUME part = "input" PROVE InputInv
  <2>1. Input!Init
    BY <1>4, Zenon DEF Init
  <2> QED
    BY <2>1, InputInitially
<1>5. ASSUME part = "engine" PROVE EngineInv
  <2>1. Engine!Init
    BY <1>5, Zenon DEF Init
  <2> QED
    BY <2>1, EngineInitially
<1>6. ASSUME part = "library" PROVE LibraryInv
  <2>1. Library!Init
    BY <1>6, Zenon DEF Init
  <2> QED
    BY <2>1, LibraryInitially
<1>7. ASSUME part = "layout" PROVE LayoutInv
  <2>1. Layout!Init
    BY <1>7, Zenon DEF Init
  <2> QED
    BY <2>1, LayoutInitially
<1> QED
  BY <1>1, <1>2, <1>3, <1>4, <1>5, <1>6, <1>7, Zenon DEF ScreensInv

LEMMA ScreensPreserved == ScreensInv /\ [Next]_vars => ScreensInv'
<1> SUFFICES ASSUME ScreensInv, [Next]_vars PROVE ScreensInv'
  OBVIOUS
<1>1. UNCHANGED part
  BY Zenon DEF Next, Only, vars
<1>2. ASSUME part = "ui" PROVE UiP!UiStrong'
  <2>1. UiP!UiStrong
    BY <1>2 DEF ScreensInv
  <2>2. CASE Ui!UiNext
    BY <2>1, <2>2, UiConstantsHold, UiStepsAlike, UiP!UiStepKeeps
  <2>3. CASE UNCHANGED vars
    <3>1. UNCHANGED UiP!uiVars
      BY <2>3, Zenon DEF vars, uiVars, UiP!uiVars, UiP!navVars, UiP!readerVars, UiP!syncVars,
                         UiP!powerVars, UiP!histVars
    <3> QED
      BY <2>1, <3>1, UiP!UiStutters
  <2>4. Ui!UiNext \/ UNCHANGED vars
    BY <1>2 DEF Next
  <2> QED
    BY <2>2, <2>3, <2>4
<1>3. ASSUME part = "session" PROVE SessionP!SessionStrong'
  <2>1. SessionP!SessionStrong
    BY <1>3 DEF ScreensInv
  <2>2. CASE Session!SessionNext
    BY <2>1, <2>2, SessionConstantsHold, SessionStepsAlike, SessionP!SessionStepKeeps
  <2>3. CASE UNCHANGED vars
    <3>1. UNCHANGED SessionP!sessionVars
      BY <2>3, Zenon DEF vars, uiVars, sessionVars, SessionP!sessionVars, SessionP!uiVars,
                         SessionP!navVars, SessionP!readerVars, SessionP!syncVars,
                         SessionP!powerVars, SessionP!histVars, SessionP!ownVars,
                         SessionP!contractVars, SessionP!loopVars, SessionP!conflictVars,
                         SessionP!ghostVars
    <3> QED
      BY <2>1, <3>1, SessionP!SessionStutters
  <2>4. Session!SessionNext \/ UNCHANGED vars
    BY <1>3 DEF Next
  <2> QED
    BY <2>2, <2>3, <2>4
<1>4. ASSUME part = "form" PROVE FormInv' /\ FormOver'
  <2>1. FormInv /\ FormOver /\ (Form!Next \/ UNCHANGED vars)
    BY <1>4 DEF ScreensInv, Next
  <2>2. UNCHANGED vars => UNCHANGED formVars
    BY Zenon DEF vars
  <2> QED
    BY <2>1, <2>2, FormStepKeeps, FormStaysOver, FormStutters
<1>5. ASSUME part = "input" PROVE InputInv'
  <2>1. InputInv /\ (Input!Next \/ UNCHANGED vars)
    BY <1>5 DEF ScreensInv, Next
  <2>2. UNCHANGED vars => UNCHANGED inputVars
    BY Zenon DEF vars
  <2> QED
    BY <2>1, <2>2, InputStepKeeps, InputStutters
<1>6. ASSUME part = "engine" PROVE EngineInv'
  <2>1. EngineInv /\ (Engine!Next \/ UNCHANGED vars)
    BY <1>6 DEF ScreensInv, Next
  <2>2. UNCHANGED vars => UNCHANGED engineVars
    BY Zenon DEF vars
  <2> QED
    BY <2>1, <2>2, EngineStepKeeps, EngineStutters
<1>7. ASSUME part = "library" PROVE LibraryInv'
  <2>1. LibraryInv /\ (Library!Next \/ UNCHANGED vars)
    BY <1>7 DEF ScreensInv, Next
  <2>2. UNCHANGED vars => UNCHANGED libraryVars
    BY Zenon DEF vars
  <2> QED
    BY <2>1, <2>2, LibraryStepKeeps, LibraryStutters
<1>8. ASSUME part = "layout" PROVE LayoutInv'
  <2>1. LayoutInv /\ (Layout!Next \/ UNCHANGED vars)
    BY <1>8 DEF ScreensInv, Next
  <2>2. UNCHANGED vars => UNCHANGED layoutVars
    BY Zenon DEF vars
  <2> QED
    BY <2>1, <2>2, LayoutStepKeeps, LayoutStutters
<1> QED
  BY <1>1, <1>2, <1>3, <1>4, <1>5, <1>6, <1>7, <1>8, Zenon DEF ScreensInv

LEMMA ScreensInvariant == Spec => []ScreensInv
BY ScreensInitially, ScreensPreserved, PTL DEF Spec

(* ui/ui.c: the selection stays in the viewport of the library list, a       *)
(* dialog is only up over the open book it is about, the book that is saved  *)
(* and synced is the one shown, and one conflict authorizes one choice:      *)
(* after any inputs and any calls of the application.                        *)
THEOREM ScreensStayConsistent == Spec => []ScreensConsistent
<1>1. ScreensInv => ScreensConsistent
  BY UiInvAlike, Zenon DEF ScreensInv, UiP!UiStrong, ScreensConsistent
<1> QED
  BY <1>1, ScreensInvariant, PTL

(* app/reader_sync.c, app/reader_conflict.c and the loop over them: a sync   *)
(* that saved first never imports, an explicit push or pull acts on the      *)
(* conflict the user was shown, disk and screen agree after it or the user   *)
(* is told that they may not, and the acknowledgement is true of what the    *)
(* controller did, whatever other devices and processes do meanwhile.        *)
THEOREM SyncKeepsFaithAlways == Spec => []SyncKeepsFaith
<1>1. ScreensInv => SyncKeepsFaith
  <2> SUFFICES ASSUME ScreensInv, part = "session"
               PROVE  /\ Session!SessionTypeOK /\ Session!SaveFirstNeverImports
                      /\ Session!ChoiceActsOnShownConflict /\ Session!DiskAndReaderAgree
                      /\ Session!FeedbackTruthful
    BY DEF SyncKeepsFaith
  <2>1. SessionP!SessionStrong
    BY DEF ScreensInv
  <2> QED
    BY <2>1, SessionConstantsHold, SessionP!SessionStrongImplies, SessionFaithAlike
<1> QED
  BY <1>1, ScreensInvariant, PTL

(* ui/ui.c and ui/account_text_input.c: wherever the loop waits, a typed     *)
(* password is on a form that can be edited; Continue was pressed twice      *)
(* before an account is replaced, none is set up anew over a complete one,   *)
(* doubt is looked into before anything is written, and the stops a touch is *)
(* related to are those of the text.  The caret of a field of any widths is  *)
(* within the part drawn, a touch on a stop puts it there, the highlighted   *)
(* key always exists, NEXT and PREV undo each other, and a touch on a key is *)
(* a touch on no other.                                                     *)
THEOREM FormStaysConsistent == Spec => []FormConsistent
<1>1. ScreensInv => FormConsistent
  BY FormInvGives, InputInvGives, Zenon DEF ScreensInv, FormConsistent
<1> QED
  BY <1>1, ScreensInvariant, PTL

(* reader/reader.cpp, library/library.c and graphics/text.c: the pages are   *)
(* those of the layout the engine has now and a restored position is on the  *)
(* page; a scan of any directory gives each book of it once, in the one      *)
(* order of the titles whatever order readdir had and however qsort breaks   *)
(* ties, and leaks nothing however it fails; and a text of any glyphs is     *)
(* wrapped only where it must be, cutting no word that fits a line.  A title *)
(* of any length is one line in its band when the code points that ui.c has  *)
(* stored decide about it; of the others it is not true (TitleInBand).       *)
THEOREM PagesAndLinesStayCorrect == Spec => []PagesAndLinesCorrect
<1>1. ScreensInv => PagesAndLinesCorrect
  BY EngineInvGives, LibraryInvGives, LayoutInvGives, Zenon DEF ScreensInv, PagesAndLinesCorrect
<1> QED
  BY <1>1, ScreensInvariant, PTL

(* A call of the engine that fails leaves the page alone. *)
LEMMA RefusalsDoNotMove == Engine!Next => Engine!RefusalDoesNotMove
<1> SUFFICES ASSUME Engine!Next, result' = -1, doc' = doc, doc # NoBook, result = 0
             PROVE  UNCHANGED <<enginePage, engineShown>>
  BY DEF Engine!RefusalDoesNotMove
<1>1. -1 # 0
  OBVIOUS
<1> QED
  BY <1>1, Zenon DEF Engine!Next, Engine!cn_reader_new, Engine!cn_reader_open,
     Engine!cn_reader_close, Engine!cn_reader_apply_config, Engine!cn_reader_go,
     Engine!cn_reader_get_position, Engine!cn_reader_goto_position, Engine!ForgetPosition,
     Engine!Open, Engine!Returns, Engine!docVars

(* cn_ui_handle asks for a redraw whenever it changes what is on the screen, *)
(* and a call of the reading engine that fails leaves the page of the open   *)
(* book alone ("goto returns -1 without moving the reader").                 *)
THEOREM ScreenFollowsStateAlways == Spec => ScreenFollowsState
<1> DEFINE Follows == /\ part = "ui" => Ui!RedrawsWhatChanges
                      /\ part = "engine" => Engine!RefusalDoesNotMove
<1>1. ScreensInv /\ [Next]_vars => [Follows]_vars
  <2> SUFFICES ASSUME ScreensInv, Next PROVE Follows
    OBVIOUS
  <2>1. ASSUME part = "ui" PROVE Ui!RedrawsWhatChanges
    BY <2>1, UiConstantsHold, UiP!UiRedraws, UiRedrawsAlike DEF ScreensInv
  <2>2. ASSUME part = "engine" PROVE Engine!RefusalDoesNotMove
    BY <2>2, RefusalsDoNotMove DEF Next
  <2> QED
    BY <2>1, <2>2
<1> QED
  BY <1>1, ScreensInvariant, PTL DEF Spec, ScreenFollowsState

=============================================================================
