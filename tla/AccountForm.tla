----------------------------- MODULE AccountForm -----------------------------
(***************************************************************************)
(* The account form: the ACCOUNT_SETUP screen of ui/ui.c, the coordinator   *)
(* app/account_setup_ui.c that serves its requests, and the event loop of   *)
(* app/account-setup-ui.c around both.  The controller is taken by what its *)
(* reports say; how it gets there is AccountSetup.  A field is its length.  *)
(***************************************************************************)
EXTENDS Naturals

CONSTANTS
    TextFields,     \* fields before the password, counted from 0 (code: 3)
    Capacity        \* longest value of a field

TextFieldsAssumption == TextFields \in Nat \ {0}
CapacityAssumption == Capacity \in Nat \ {0}

Password == TextFields
Continue == TextFields + 1
Fields == 0 .. Password
Prefilled == {f \in Fields : f < 2 /\ f # Password}

VARIABLES
    where,      \* "HOME" stands for every other screen
    text,       \* length of each field
    pwlen,      \* account_password_length
    focus, editing, keyboard, confirm, message, option, local, status, action,
    drawn,      \* lengths the caret stops were last computed for
    redraw,     \* what cn_ui_handle returned
    exit,       \* exit_requested
    pc,         \* where the event loop is
    disk,       \* local account state that observe_state would report
    agreed      \* history: times Continue was pressed since the last request
                \* for a correction was accepted or answered

screenVars == <<where, message, exit>>
fieldVars == <<text, pwlen>>
modeVars == <<focus, editing, keyboard, confirm, option>>
reportVars == <<local, status>>
loopVars == <<drawn, redraw, pc>>
vars == <<screenVars, fieldVars, modeVars, reportVars, loopVars, action, disk,
          agreed>>

Known == {"NO_ACCOUNT", "PARTIAL", "ORPHAN", "COMPLETE", "ENABLED", "CORRUPT"}
Uncertain == {"BOOTSTRAP_UNCERTAIN", "IDENTITY_UNCERTAIN", "ACTIVATION_UNCERTAIN"}
Failed == {"BOOTSTRAP_FAILED", "IDENTITY_FAILED", "SAVE_FAILED", "ACTIVATION_FAILED"}
Statuses == Uncertain \cup Failed \cup
    {"OTHER", "ACTIVATED", "ALREADY_ENABLED", "INVALID_INPUT", "PRECONDITION",
     "INCOMPLETE", "CORRUPT", "AUTH_REJECTED", "INFRASTRUCTURE",
     "PROFILE_UNAVAILABLE"}
Messages == Statuses \cup Known \cup
    {"UNCHECKED", "UNREADABLE", "FAILED", "UNCERTAIN", "WORKING", "FULL",
     "INVALID_KEY", "REVIEW"}
Actions == {"NONE", "INSPECT", "SUBMIT", "ACTIVATE", "REPLACE", "RECHECK"}

Init ==
    /\ where = "HOME" /\ message = "UNCHECKED" /\ exit = FALSE
    /\ text = [f \in Fields |-> 0] /\ pwlen = 0
    /\ focus = 0 /\ editing = FALSE /\ keyboard = FALSE /\ confirm = 0 /\ option = 0
    /\ local = "UNKNOWN" /\ status = "OTHER" /\ action = "NONE"
    /\ drawn = text /\ redraw = FALSE /\ pc = "event"
    /\ disk \in Known /\ agreed = 0

-----------------------------------------------------------------------------
(* cn_ui_handle: one event; the loop then looks at redraw and action.       *)

Handles == pc = "event" /\ pc' = "handled" /\ UNCHANGED <<drawn, disk>>
Returns(b) == redraw' = b
OnForm == Handles /\ where = "ACCOUNT_SETUP" /\ UNCHANGED exit
Editing == OnForm /\ editing /\ UNCHANGED <<where, reportVars, editing, option>>

account_wipe == pwlen' = 0 /\ text' = [text EXCEPT ![Password] = 0]

(* MENU or a touch of the button on the home screen. *)
EnterForm ==
    /\ Handles /\ where = "HOME" /\ Returns(TRUE)
    /\ where' = "ACCOUNT_SETUP" /\ action' = "INSPECT" /\ message' = "WORKING"
    /\ UNCHANGED <<exit, fieldVars, modeVars, reportVars, agreed>>

(* Mutant: the password is left for the next visit. *)
account_leave_unwiped ==
    /\ where' = "HOME" /\ editing' = FALSE /\ keyboard' = FALSE /\ confirm' = 0
    /\ UNCHANGED <<fieldVars, focus, option, message, action>>

account_leave ==
    /\ account_wipe
    /\ where' = "HOME" /\ editing' = FALSE /\ keyboard' = FALSE /\ confirm' = 0
    /\ UNCHANGED <<focus, option, message, action>>

(* BACK closes an active keyboard first; HOME does not. *)
Back ==
    /\ OnForm /\ Returns(TRUE) /\ UNCHANGED <<reportVars, agreed>>
    /\ \/ account_leave
       \/ /\ keyboard /\ keyboard' = FALSE
          /\ UNCHANGED <<where, message, fieldVars, focus, editing, confirm, option,
                         action>>

(* Mutant: the password is still there when the program is told to stop. *)
HoldPower_unwiped ==
    /\ Handles /\ exit' = TRUE /\ Returns(FALSE)
    /\ UNCHANGED <<fieldVars, where, message, modeVars, reportVars, action, agreed>>

(* POWER is handled on every screen. *)
HoldPower ==
    /\ Handles /\ exit' = TRUE /\ Returns(FALSE)
    /\ IF where = "ACCOUNT_SETUP" THEN account_wipe ELSE UNCHANGED fieldVars
    /\ UNCHANGED <<where, message, modeVars, reportVars, action, agreed>>

OtherEvent == Handles /\ Returns(FALSE)
              /\ UNCHANGED <<screenVars, fieldVars, modeVars, reportVars, action, agreed>>

(* NEXT and PREV go round the fields and Continue. *)
MoveFocus ==
    /\ Editing /\ ~keyboard /\ Returns(TRUE)
    /\ \E step \in {1, Continue} : focus' = (focus + step) % (Continue + 1)
    /\ UNCHANGED <<fieldVars, keyboard, confirm, message, action, agreed>>

OpenKeyboard ==
    /\ Editing /\ ~keyboard /\ focus # Continue /\ Returns(TRUE)
    /\ keyboard' = TRUE
    /\ UNCHANGED <<fieldVars, focus, confirm, message, action, agreed>>

TouchField ==
    /\ Editing /\ Returns(TRUE)
    /\ focus' \in Fields /\ keyboard' = FALSE
    /\ UNCHANGED <<fieldVars, confirm, message, action, agreed>>

(* A key of the focused field does something to it; the password's length    *)
(* is kept in step. *)
Edit(f, n) ==
    /\ text' = [text EXCEPT ![f] = n]
    /\ pwlen' = IF f = Password THEN n ELSE pwlen

(* A character (or FULL), an erasure, a key that changes the keyboard or     *)
(* the cursor, one that is INVALID, DONE. *)
account_activate_key(by_touch) ==
    /\ Editing /\ focus # Continue /\ (keyboard \/ by_touch) /\ Returns(TRUE)
    /\ UNCHANGED <<focus, confirm, action, agreed>>
    /\ \/ /\ keyboard' = (keyboard /\ ~by_touch) /\ UNCHANGED message
          /\ \/ text[focus] < Capacity /\ Edit(focus, text[focus] + 1)
             \/ text[focus] > 0 /\ Edit(focus, text[focus] - 1)
             \/ UNCHANGED fieldVars
       \/ /\ keyboard' = (keyboard /\ ~by_touch) /\ UNCHANGED fieldVars
          /\ \/ text[focus] = Capacity /\ message' = "FULL"
             \/ message' = "INVALID_KEY"
       \/ keyboard' = FALSE /\ UNCHANGED <<fieldVars, message>>

(* Continue: MENU on it, or a touch.  A correction must be confirmed. *)
account_submit ==
    /\ Editing /\ Returns(TRUE) /\ keyboard' = FALSE /\ agreed' = agreed + 1
    /\ IF confirm = 1
       THEN confirm' = 2 /\ message' = "REVIEW" /\ UNCHANGED action
       ELSE /\ action' = IF confirm = 2 THEN "REPLACE" ELSE "SUBMIT"
            /\ message' = "WORKING" /\ UNCHANGED confirm
    /\ UNCHANGED <<fieldVars, focus>>

(* The choices shown when nothing can be edited. *)
account_options ==
    IF local = "ENABLED" THEN <<"BACK">>
    ELSE IF local # "COMPLETE" THEN <<"RECHECK", "BACK">>
    ELSE CASE status = "PRECONDITION" -> <<"ACTIVATE", "CORRECT">>
           [] status = "AUTH_REJECTED" -> <<"CORRECT", "BACK">>
           [] status = "INFRASTRUCTURE" -> <<"ACTIVATE", "BACK">>
           [] OTHER -> <<"RECHECK", "BACK">>

Count == IF local = "ENABLED" THEN 1 ELSE 2

Choosing == OnForm /\ ~editing /\ Returns(TRUE) /\ UNCHANGED reportVars

MoveOption ==
    /\ Choosing /\ option' = (option + 1) % Count
    /\ UNCHANGED <<where, message, fieldVars, focus, editing, keyboard, confirm,
                   action, agreed>>

Request(a) ==
    /\ action' = a /\ message' = "WORKING"
    /\ UNCHANGED <<where, fieldVars, focus, editing, keyboard, confirm, agreed>>

BeginCorrection ==
    /\ text' = [f \in Fields |-> 0] /\ pwlen' = 0
    /\ editing' = TRUE /\ keyboard' = FALSE /\ confirm' = 1 /\ focus' = 0
    /\ agreed' = 0
    /\ UNCHANGED <<where, message, action>>

(* account_execute_option: MENU takes the highlighted one, a touch any. *)
ExecuteOption ==
    /\ Choosing /\ option' \in 0 .. Count - 1
    /\ CASE account_options[option' + 1] = "BACK" ->
                /\ account_wipe /\ where' = "HOME"
                /\ UNCHANGED <<focus, editing, keyboard, confirm, message, action,
                               agreed>>
         [] account_options[option' + 1] = "CORRECT" -> BeginCorrection
         [] OTHER -> Request(account_options[option' + 1])

cn_ui_handle ==
    \/ EnterForm \/ Back \/ HoldPower \/ OtherEvent
    \/ MoveFocus \/ OpenKeyboard \/ TouchField \/ account_submit
    \/ account_activate_key(TRUE) \/ account_activate_key(FALSE)
    \/ MoveOption \/ ExecuteOption

-----------------------------------------------------------------------------
(* cn_account_setup_ui_process and the reports of the controller.  The local *)
(* state in a report is the one the call found.                             *)

Report(s, l, d) == [status |-> s, local |-> l, disk |-> d]

Activation(found) ==
    {Report(s, found, "COMPLETE") :
        s \in {"CORRUPT", "IDENTITY_FAILED", "IDENTITY_UNCERTAIN", "PRECONDITION",
               "AUTH_REJECTED", "INFRASTRUCTURE", "SAVE_FAILED",
               "ACTIVATION_FAILED"}}
    \cup {Report(s, found, "ENABLED") :
        s \in {"ACTIVATED", "PROFILE_UNAVAILABLE", "ACTIVATION_UNCERTAIN"}}

(* What the interrupted bootstrap may leave behind. *)
Written(found) == IF found = "COMPLETE" THEN {"COMPLETE"} ELSE {"PARTIAL", "COMPLETE"}

Bootstrap(found) ==
    {Report("INVALID_INPUT", found, found)}
    \cup {Report("BOOTSTRAP_FAILED", found, d) : d \in {found} \cup Written(found)}
    \cup {Report("BOOTSTRAP_UNCERTAIN", found, d) : d \in Written(found)}
    \cup Activation(found)

Complete == pwlen > 0 /\ \A f \in Fields : text[f] > 0

Setup(found) ==
    CASE found = "COMPLETE" /\ action = "SUBMIT" ->
            {Report("PRECONDITION", found, found)}
      [] found # "COMPLETE" /\ action = "REPLACE" ->
            {Report("PRECONDITION", found, found)}
      [] ~Complete -> {Report("INVALID_INPUT", found, found)}
      [] OTHER -> Bootstrap(found) \cup
                  (IF found = "PARTIAL" THEN {Report("PRECONDITION", found, found)}
                   ELSE {})      \* other URL or device name

Reports ==
    {Report("PRECONDITION", "UNREADABLE", disk)} \cup
   (CASE disk = "CORRUPT" -> {Report("CORRUPT", disk, disk)}
      [] disk = "ENABLED" -> {Report("ALREADY_ENABLED", disk, disk)}
      [] disk = "ORPHAN" -> {Report("INCOMPLETE", disk, disk)}
      [] action \in {"INSPECT", "RECHECK"} -> {Report("PRECONDITION", disk, disk)}
      [] action = "ACTIVATE" -> IF disk = "COMPLETE" THEN Activation(disk)
                                ELSE {Report("INCOMPLETE", disk, disk)}
      [] OTHER -> Setup(disk))

MessageFor(s, l) ==
    CASE s \in Uncertain -> "UNCERTAIN"
      [] s \in Failed -> "FAILED"
      [] s = "INCOMPLETE" -> IF l = "ORPHAN" THEN "ORPHAN" ELSE "PARTIAL"
      [] s = "PRECONDITION" -> IF l \in {"COMPLETE", "NO_ACCOUNT", "PARTIAL"} THEN l
                               ELSE "FAILED"
      [] OTHER -> s

(* Mutant: doubt does not close the form. *)
cn_ui_account_set_result_in_doubt(s, l) ==
    /\ message' = MessageFor(s, l)
    /\ keyboard' = FALSE /\ option' = 0 /\ status' = s /\ confirm' = 0
    /\ local' = IF s \in {"ACTIVATED", "ALREADY_ENABLED", "PROFILE_UNAVAILABLE"}
                THEN "ENABLED" ELSE l
    /\ editing' = (local' \in {"NO_ACCOUNT", "PARTIAL"})

cn_ui_account_set_result(s, l) ==
    /\ message' = MessageFor(s, l)
    /\ keyboard' = FALSE /\ option' = 0 /\ status' = s
    /\ local' = IF s \in {"ACTIVATED", "ALREADY_ENABLED", "PROFILE_UNAVAILABLE"}
                THEN "ENABLED" ELSE l
    /\ LET correcting == s = "INVALID_INPUT" /\ confirm # 0 /\ local' = "COMPLETE"
       IN  /\ confirm' = IF correcting THEN 1 ELSE 0
           /\ editing' = \/ local' \in {"NO_ACCOUNT", "PARTIAL"} /\ s \notin Uncertain
                         \/ correcting

(* cn_ui_account_prefill with what the settings hold. *)
prefill_partial(prefilled) ==
    IF prefilled
    THEN \E n \in [Prefilled -> 1 .. Capacity] :
            text' = [f \in Fields |-> IF f = Password THEN 0
                                      ELSE IF f \in Prefilled THEN n[f] ELSE text[f]]
    ELSE text' = [text EXCEPT ![Password] = 0]

(* Mutant: a request to inspect is served without an answer. *)
Process_silent ==
    /\ pc = "work" /\ pc' = "served" /\ action' = "NONE" /\ redraw' = TRUE
    /\ UNCHANGED <<message, modeVars, reportVars, disk, fieldVars, where, exit, drawn,
                   agreed>>

Process ==
    /\ pc = "work" /\ pc' = "served"
    /\ \E r \in Reports :
          /\ cn_ui_account_set_result(r.status, r.local)
          /\ disk' = r.disk
          /\ pwlen' = 0
          /\ \E b \in BOOLEAN :
                /\ b => action \in {"INSPECT", "RECHECK"} /\ r.local = "PARTIAL"
                /\ prefill_partial(b)
    /\ action' = "NONE" /\ redraw' = TRUE /\ agreed' = 0
    /\ UNCHANGED <<where, exit, focus, drawn>>

-----------------------------------------------------------------------------
(* The loop: a pending request is drawn before it is served.  The loop ends  *)
(* when the display or the input fails, or when it was asked to.            *)
render == drawn' = IF where = "ACCOUNT_SETUP" /\ editing THEN text ELSE drawn

Rest == UNCHANGED <<screenVars, fieldVars, modeVars, reportVars, redraw, action, disk,
                    agreed>>

PollFails == pc = "event" /\ pc' = "closing" /\ UNCHANGED drawn /\ Rest

DrawRequest ==
    /\ pc = "handled" /\ action # "NONE"
    /\ render /\ pc' \in {"work", "closing"} /\ Rest

Draw ==
    /\ \/ pc = "handled" /\ action = "NONE"
       \/ pc = "served"
    /\ IF redraw THEN render /\ pc' \in {IF exit THEN "closing" ELSE "event", "closing"}
       ELSE pc' = (IF exit THEN "closing" ELSE "event") /\ UNCHANGED drawn
    /\ Rest

(* Mutant: the screens are freed with what was typed into them. *)
cn_ui_free_unwiped == pc = "closing" /\ pc' = "done" /\ UNCHANGED drawn /\ Rest

(* After the loop, however it ended. *)
cn_ui_free ==
    /\ pc = "closing" /\ pc' = "done" /\ account_wipe
    /\ UNCHANGED <<screenVars, modeVars, reportVars, drawn, redraw, action, disk, agreed>>

Next == cn_ui_handle \/ PollFails \/ DrawRequest \/ Process \/ Draw \/ cn_ui_free

Loop == DrawRequest \/ Process \/ Draw \/ cn_ui_free

Spec == Init /\ [][Next]_vars

-----------------------------------------------------------------------------
TypeOK ==
    /\ where \in {"HOME", "ACCOUNT_SETUP"}
    /\ text \in [Fields -> 0 .. Capacity] /\ drawn \in [Fields -> 0 .. Capacity]
    /\ pwlen = text[Password]
    /\ focus \in 0 .. Continue /\ option \in 0 .. 1 /\ confirm \in 0 .. 2
    /\ {editing, keyboard, redraw, exit} \subseteq BOOLEAN
    /\ message \in Messages /\ status \in Statuses /\ action \in Actions
    /\ local \in Known \cup {"UNKNOWN", "UNREADABLE"} /\ disk \in Known
    /\ pc \in {"event", "handled", "work", "served", "closing", "done"}
    /\ agreed \in 0 .. 2

(* A typed password does not outlive the form it was typed into: wherever    *)
(* the loop waits for the next event, there is one only on a form that can   *)
(* be edited; from the moment the user holds POWER there is none, and there  *)
(* is none after the end, whichever failure or request ended the loop.      *)
PasswordOnlyOnForm ==
    /\ pc = "event" /\ pwlen > 0 => where = "ACCOUNT_SETUP" /\ editing
    /\ exit \/ pc = "done" => pwlen = 0

(* account_fields has an entry for every focus the keyboard can be active    *)
(* on; cn_ui_handle does not test the index again for NEXT, PREV and MENU.  *)
KeyboardHasField == keyboard => editing /\ focus \in Fields

(* What is saved is replaced only after Continue was pressed twice for this  *)
(* correction; an invalid one has to be confirmed again.                    *)
ReplaceIsConfirmed == action = "REPLACE" => agreed >= 2

(* A form that was told the account is complete never submits a new one:     *)
(* the controller would refuse it, and what was typed would be lost.        *)
NeverNewOverComplete == action = "SUBMIT" => local # "COMPLETE"

(* After a result that is DURABILITY_UNCERTAIN nothing is written or         *)
(* activated before the local state was looked at again.                    *)
DoubtIsRechecked ==
    status \in Uncertain => action \in {"NONE", "INSPECT", "RECHECK"}

(* A touch is related to the caret stops of the last drawing: they belong to *)
(* the text as it is.                                                       *)
TouchSeesText ==
    pc = "event" /\ where = "ACCOUNT_SETUP" /\ editing => drawn = text

=============================================================================
