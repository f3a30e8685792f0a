----------------------------- MODULE ReaderSession -----------------------------
(***************************************************************************)
(* One reading session with manual sync and conflict resolution: the event  *)
(* loop of app/sync-conflict-ui-test.c over the screens of ReaderUi, the    *)
(* seams app/reader_sync.c and app/reader_conflict.c, and the controllers   *)
(* as their contract promises them (SyncContract).  While the user thinks,  *)
(* other devices upload and another process may save the local record.      *)
(***************************************************************************)
EXTENDS ReaderUi

CONSTANTS
    Positions,      \* positions a server can hold
    XPointers,      \* those that are XPointers: the local store accepts them
    NoRecord,       \* no record
    PageOf,         \* page an XPointer resolves to in the book, -1 for none
    PageStart       \* XPointer the reader captures at the top of a page

XPointersAssumption == XPointers \subseteq Positions
NoRecordAssumption == NoRecord \notin Positions
UnansweredAssumption == "unanswered" \notin Positions \cup {NoRecord}
PageOfAssumption == PageOf \in [XPointers -> -1 .. LastPage]
PageStartAssumption ==
    /\ PageStart \in [0 .. LastPage -> XPointers]
    /\ \A p \in 0 .. LastPage : PageOf[PageStart[p]] = p

VARIABLES
    local, remote, late, call, report,      \* see SyncContract
    here,       \* what cn_ui_reader_get_position captures now
    pc,         \* where the event loop is
    was,        \* had_modal: the dialog when the event was read
    chosen,     \* the request being served
    opened,     \* the position captured when the session began
    snapshot,   \* cn_reader_position kept for the conflict dialog
    verdict,    \* cn_reader_conflict_phase of the resolution, "none" before
    mismatch,   \* disk_reader_mismatch_possible
    saved,      \* history: what the manual sync saved before it called
    evidence    \* history: the call as it was when it returned

contractVars == <<local, remote, late, call, report>>
loopVars == <<pc, was, chosen>>
conflictVars == <<opened, snapshot, verdict, mismatch>>
ghostVars == <<saved, evidence>>
ownVars == <<contractVars, here, loopVars, conflictVars, ghostVars>>
sessionVars == <<uiVars, ownVars>>

Sync == INSTANCE SyncContract

Goto(label) == pc' = label

(* Drawing may fail; the session is then over.  had_modal is the loop's own  *)
(* and read anew for every event.                                           *)
Shows(label) == pc' \in {label, "done"} /\ was' = 0

(* The reader is open five page turns into the book. *)
SessionInit ==
    /\ state = "READER" /\ page = 1
    /\ lib \in {<<l>> : l \in Libraries} /\ sel = 0 /\ top = 0
    /\ Count > 0 /\ BookList[1] = "EPUB"
    /\ attached = TRUE /\ open = 0 /\ rpage \in 0 .. LastPage
    /\ modal = 0 /\ choice = 0 /\ action = "NONE" /\ feedback = "WORKING"
    /\ held = FALSE /\ exit = FALSE /\ redraw = FALSE
    /\ asked = 0 /\ taken = 0 /\ swapped = FALSE
    /\ Sync!Init
    /\ here = PageStart[rpage] /\ opened = here
    /\ pc = "poll" /\ was = 0 /\ chosen = "NONE"
    /\ snapshot = NoRecord /\ verdict = "none" /\ mismatch = FALSE
    /\ saved = NoRecord /\ evidence = Sync!NoCall

-----------------------------------------------------------------------------
(* The event loop.                                                          *)

PollEvent ==
    /\ pc = "poll" /\ cn_ui_handle
    /\ here' = IF <<open', rpage'>> = <<open, rpage>> THEN here
               ELSE PageStart[rpage']
    /\ was' = modal
    /\ Goto("dispatch")
    /\ UNCHANGED <<contractVars, chosen, conflictVars, ghostVars>>

(* The resolution was acknowledged. *)
Acknowledged == verdict # "none" /\ was # 0 /\ modal = 0

NothingRequested ==
    /\ pc = "dispatch" /\ action = "NONE"
    /\ Shows(IF exit \/ Acknowledged THEN "done" ELSE "poll")
    /\ UNCHANGED <<uiVars, contractVars, here, chosen, conflictVars, ghostVars>>

TakeRequest(requests, labels) ==
    /\ pc = "dispatch" /\ action \in requests
    /\ chosen' = action /\ pc' \in labels
    /\ cn_ui_take_sync_action
    /\ evidence' = Sync!NoCall
    /\ UNCHANGED <<contractVars, here, was, opened, snapshot, mismatch, saved>>

ManualRequested == TakeRequest({"MANUAL"}, {"capture"}) /\ UNCHANGED verdict

Cancelled == TakeRequest({"CANCEL"}, {"done"}) /\ verdict' = "CANCELLED"

(* The card is verified again before it is written. *)
ChoiceRequested ==
    /\ TakeRequest({"USE_LOCAL", "USE_REMOTE"}, {"resolve", "done"})
    /\ UNCHANGED verdict

-----------------------------------------------------------------------------
(* cn_reader_sync_manual_once.                                              *)

open_book == state = "READER" /\ ReaderOpen /\ BookList[sel + 1] = "EPUB"

(* Not open, no identity, no position, or the record could not be saved.     *)
ManualFails ==
    /\ pc = "capture" /\ Goto("done")
    /\ UNCHANGED <<uiVars, contractVars, here, was, chosen, conflictVars,
                   ghostVars>>

(* Mutant: the position is only compared, the save is left to the closing.   *)
PreSave_skipped ==
    /\ pc = "capture" /\ open_book
    /\ saved' = here
    /\ Goto("invoke")
    /\ UNCHANGED <<uiVars, contractVars, here, was, chosen, conflictVars,
                   evidence>>

PreSave ==
    /\ pc = "capture" /\ open_book
    /\ local' = here /\ saved' = here
    /\ Goto("invoke")
    /\ UNCHANGED <<uiVars, remote, late, call, report, here, was, chosen,
                   conflictVars, evidence>>

InvokeSync ==
    /\ pc = "invoke" /\ Sync!Call("sync") /\ Goto("busy")
    /\ UNCHANGED <<uiVars, here, was, chosen, conflictVars, ghostVars>>

(* The controller works and returns; the loop waits for it. *)
ControllerWorks ==
    /\ pc = "busy" /\ (Sync!Serve \/ Sync!Upload \/ Sync!Import)
    /\ UNCHANGED <<uiVars, here, loopVars, conflictVars, ghostVars>>

ControllerReturns ==
    /\ pc = "busy" /\ \E r \in Sync!Reports : Sync!Return(r)
    /\ evidence' = call
    /\ Goto("returned")
    /\ UNCHANGED <<uiVars, here, was, chosen, conflictVars, saved>>

(* cn_reader_sync_is_conflict *)
is_conflict == report.outcome = "CONFLICT"

(* What is kept for the dialog is the position of the session's start, not   *)
(* the one just saved. *)
ShowConflict ==
    /\ pc = "returned" /\ chosen = "MANUAL" /\ is_conflict
    /\ snapshot' = opened
    /\ cn_ui_show_sync_conflict
    /\ Shows("poll")
    /\ UNCHANGED <<contractVars, here, chosen, opened, verdict, mismatch,
                   ghostVars>>

(* Nothing to choose, or no memory for the snapshot. *)
SyncSettled ==
    /\ pc = "returned" /\ chosen = "MANUAL"
    /\ report.outcome # "IMPORTED"
    /\ Goto("done")
    /\ UNCHANGED <<uiVars, contractVars, here, was, chosen, conflictVars,
                   ghostVars>>

-----------------------------------------------------------------------------
(* cn_reader_sync_resolve_conflict.                                         *)

(* Mutant: the persisted record is not compared again. *)
SameAsShown_reader_only == open_book /\ here = snapshot

SameAsShown == open_book /\ here = snapshot /\ local = snapshot

(* Something changed, or the local record cannot be loaded any more. *)
Stale ==
    /\ pc = "resolve" /\ verdict' = "STALE" /\ Goto("feedback")
    /\ UNCHANGED <<uiVars, contractVars, here, was, chosen, opened, snapshot,
                   mismatch, ghostVars>>

Execute ==
    /\ pc = "resolve" /\ SameAsShown
    /\ Sync!Call(IF chosen = "USE_LOCAL" THEN "push" ELSE "pull")
    /\ Goto("busy")
    /\ UNCHANGED <<uiVars, here, was, chosen, conflictVars, ghostVars>>

ChoiceSettled ==
    /\ pc = "returned" /\ chosen \in {"USE_LOCAL", "USE_REMOTE"}
    /\ report.outcome # "PERSISTED"
    /\ verdict' = IF chosen = "USE_LOCAL" THEN "LOCAL_COMPLETE"
                  ELSE "REMOTE_COMPLETE"
    /\ Goto("feedback")
    /\ UNCHANGED <<uiVars, contractVars, here, was, chosen, opened, snapshot,
                   mismatch, ghostVars>>

(* Both seams go to an imported record through apply_record. *)
MustApply == pc = "returned" /\ report.outcome \in {"PERSISTED", "IMPORTED"}
AfterApply == IF chosen = "MANUAL" THEN "done" ELSE "feedback"

(* The recaptured bookmark need not be the token the reader went to. *)
ApplyRecord ==
    /\ MustApply /\ open_book /\ local # NoRecord /\ PageOf[local] >= 0
    /\ here' \in {local, PageStart[PageOf[local]]}
    /\ rpage' = PageOf[local]
    /\ verdict' = "REMOTE_APPLIED"
    /\ Goto(AfterApply)
    /\ UNCHANGED <<navVars, attached, open, syncVars, powerVars, redraw, histVars,
                   contractVars, was, chosen, opened, snapshot, mismatch,
                   ghostVars>>

(* Mutant: the failure to move is not reported. *)
ApplyFails_quietly ==
    /\ MustApply
    /\ verdict' = "REMOTE_APPLIED" /\ Goto(AfterApply)
    /\ UNCHANGED <<uiVars, contractVars, here, was, chosen, opened, snapshot,
                   mismatch, ghostVars>>

(* The record cannot be reloaded, or the reader cannot resolve the position: *)
(* it rejects before moving. *)
ApplyFails ==
    /\ MustApply
    /\ verdict' = "REMOTE_APPLY_FAILED" /\ mismatch' = TRUE
    /\ Goto(AfterApply)
    /\ UNCHANGED <<uiVars, contractVars, here, was, chosen, opened, snapshot,
                   ghostVars>>

feedback_for ==
    CASE verdict = "STALE" -> "STALE"
      [] verdict = "REMOTE_APPLY_FAILED" -> "MISMATCH"
      [] verdict = "REMOTE_APPLIED" -> "REMOTE_APPLIED"
      [] verdict = "LOCAL_COMPLETE" /\ report.remote_mutation = "POSSIBLE" ->
             "UPLOAD_POSSIBLE"
      [] verdict = "LOCAL_COMPLETE" /\ report.outcome = "UPLOADED" ->
             "REMOTE_UPDATED"
      [] verdict = "REMOTE_COMPLETE" /\ report.outcome = "REMOTE_MISSING" ->
             "REMOTE_MISSING"
      [] OTHER -> "FAILED"

(* After an applied record the loop checks that the reader captures exactly  *)
(* what was persisted, and ends when it does not. *)
ShowFeedback ==
    /\ pc = "feedback"
    /\ cn_ui_show_sync_feedback(feedback_for)
    /\ Shows(IF exit \/ (verdict = "REMOTE_APPLIED" /\ here # local) THEN "done"
             ELSE "poll")
    /\ UNCHANGED <<contractVars, here, chosen, conflictVars, ghostVars>>

-----------------------------------------------------------------------------
(* Everybody else.                                                          *)

World ==
    /\ pc # "done" /\ Sync!World
    /\ UNCHANGED <<uiVars, here, loopVars, conflictVars, ghostVars>>

(* Another process saves the book's record until the choice is made. *)
OtherProcessSaves ==
    /\ pc = "poll" /\ verdict = "none" /\ Sync!LocalSave
    /\ UNCHANGED <<uiVars, here, loopVars, conflictVars, ghostVars>>

BatteryDies ==
    /\ Sync!Abort /\ Goto("done")
    /\ UNCHANGED <<uiVars, here, was, chosen, conflictVars, ghostVars>>

LoopStep ==
    \/ NothingRequested \/ ManualRequested \/ Cancelled \/ ChoiceRequested
    \/ ManualFails \/ PreSave \/ InvokeSync \/ ShowConflict \/ SyncSettled
    \/ Stale \/ Execute \/ ChoiceSettled \/ ApplyRecord \/ ApplyFails
    \/ ShowFeedback

SessionNext ==
    \/ PollEvent \/ LoopStep \/ ControllerWorks \/ ControllerReturns
    \/ World \/ OtherProcessSaves \/ BatteryDies

SessionSpec == SessionInit /\ [][SessionNext]_sessionVars

-----------------------------------------------------------------------------
(* The session's own variables; those of the screens are ReaderUi's. *)
SessionTypeOK ==
    /\ UiTypeOK
    /\ local \in XPointers \cup {NoRecord} /\ here \in XPointers
    /\ PageOf[here] = rpage \/ open < 0
    /\ snapshot \in XPointers \cup {NoRecord}
    /\ pc \in {"poll", "dispatch", "capture", "invoke", "busy", "returned",
               "resolve", "feedback", "done"}
    /\ mismatch \in BOOLEAN

(* docs/milestone-reader-sync.md: a normal successful save-first call cannot *)
(* produce remote-only IMPORTED or NO_STATE (cn_reader_sync_manual_once      *)
(* saves, then calls the controller once).                                   *)
SaveFirstNeverImports ==
    pc = "returned" /\ chosen = "MANUAL" =>
        report.outcome \notin {"IMPORTED", "NO_STATE"}

(* The choice acts on the conflict the user was shown: while the explicit    *)
(* push or pull runs, disk and reader are still at the position the manual   *)
(* sync saved, whatever other processes did while the dialog was up.         *)
ChoiceActsOnShownConflict ==
    call.kind \in {"push", "pull"} /\ call.imported = 0 =>
        asked = 1 /\ here = saved /\ local = saved

(* After a resolution the page on the screen is the one on the disk, or the  *)
(* result says that they may differ.                                         *)
DiskAndReaderAgree ==
    verdict \in {"LOCAL_COMPLETE", "REMOTE_COMPLETE", "REMOTE_APPLIED",
                 "REMOTE_APPLY_FAILED"} =>
        mismatch \/ (local # NoRecord /\ PageOf[local] = rpage)

(* What the acknowledgement says is true of what the operation did: FAILED   *)
(* is never said of an upload that reached or may still reach the server.    *)
FeedbackTruthful ==
    pc = "poll" /\ modal = 2 =>
        /\ feedback = "REMOTE_UPDATED" => evidence.put = "stored"
        /\ feedback = "REMOTE_APPLIED" => evidence.imported = 1 /\ local = evidence.got
        /\ feedback = "MISMATCH" => evidence.imported = 1
        /\ feedback \in {"FAILED", "STALE", "REMOTE_MISSING"} =>
               evidence.put = "none" /\ evidence.imported = 0
        /\ feedback = "REMOTE_MISSING" => evidence.got = NoRecord

Working == modal = 2 /\ feedback = "WORKING"

=============================================================================
