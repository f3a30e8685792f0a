---------------------------- MODULE AccountSetup ----------------------------
(***************************************************************************)
(* Setting up the sync account: cn_account_setup_submit,                   *)
(* cn_account_setup_activate_existing and cn_account_setup_inspect         *)
(* (account/account_setup_controller.c) with the bootstrap                 *)
(* (account_bootstrap.c), the activation (sync_activation.c) and the       *)
(* profile check they call.                                                *)
(*                                                                         *)
(* Three files are involved and there is no transaction over them.  Each   *)
(* has a visible content and the one that survives a power loss; a save is *)
(* the register of AtomicRegister, the identity that of DeviceIdentity.    *)
(***************************************************************************)
CONSTANTS
    Sites,      \* base url and device name, as entered
    Accounts,   \* user name and user key, as derived
    Inputs,     \* the pairs the user enters
    Registered  \* the pairs that the server of a site accepts

Missing == "missing"
Corrupt == "corrupt"

ASSUME InputsAssumption == Inputs \subseteq Sites \X Accounts
ASSUME RegisteredAssumption == Registered \subseteq Sites \X Accounts
ASSUME NamesAssumption == {Missing, Corrupt} \cap (Accounts \cup Sites) = {}

VARIABLES
    settings, credentials, identity,    \* the files as a load sees them
    disk,       \* what a power loss leaves of them
    pc, call,   \* where the running call is, and its arguments
    held,       \* the pair the activation has loaded
    status,     \* what the last call returned
    authorized, \* history: the pairs a server accepted
    uncertain,  \* history: the files whose durability was ever in doubt
    activated   \* history: ACTIVATED was returned

files == <<settings, credentials, identity>>
history == <<authorized, uncertain, activated>>
vars == <<files, disk, pc, call, held, status, history>>

(* The settings file; Config(Missing, FALSE) if there is none. *)
Config(s, e) == [site |-> s, enabled |-> e]

Setups == {"NEW_OR_RESUME", "REPLACE_DISABLED"}
Intents == Setups \cup {"ACTIVATE", "INSPECT"}
Identities == {"missing", "torn", "unsynced", "whole"}

PCs == {"idle", "observe", "bootstrap", "save_settings", "settle_settings",
        "save_credentials", "settle_credentials", "identity",
        "create_identity", "write_identity", "settle_identity", "activate",
        "authorize", "enable", "settle_enable", "profile"}

Statuses == {"none", "ACTIVATED", "ALREADY_ENABLED", "INVALID_INPUT",
             "PRECONDITION", "INCOMPLETE_STATE", "CORRUPT_OR_UNSUPPORTED_STATE",
             "BOOTSTRAP_FAILED", "BOOTSTRAP_DURABILITY_UNCERTAIN",
             "IDENTITY_FAILED", "IDENTITY_DURABILITY_UNCERTAIN",
             "AUTH_REJECTED", "INFRASTRUCTURE_OR_SERVICE_FAILED",
             "ACTIVATION_SAVE_FAILED", "ACTIVATION_DURABILITY_UNCERTAIN",
             "ENABLED_PROFILE_UNAVAILABLE", "ACTIVATION_FAILED"}

NoCall == [intent |-> "INSPECT", site |-> Missing, account |-> Missing]
Nobody == [site |-> Missing, account |-> Missing]

Stored == [settings |-> settings, credentials |-> credentials, identity |-> identity]

(* A card on which no account was ever set up; its files may be damaged. *)
Init ==
    /\ settings \in {Config(Missing, FALSE), Config(Corrupt, FALSE)}
    /\ credentials \in {Missing, Corrupt}
    /\ identity \in {"missing", "torn", "whole"}
    /\ disk = Stored
    /\ pc = "idle" /\ call = NoCall /\ held = Nobody /\ status = "none"
    /\ authorized = {} /\ uncertain = {} /\ activated = FALSE

-----------------------------------------------------------------------------
Goto(p) == pc' = p /\ UNCHANGED <<call, held, status, history>>

Ended(s) ==
    /\ pc' = "idle" /\ call' = NoCall /\ held' = Nobody
    /\ status' = s

Return(s) == Ended(s) /\ UNCHANGED history

Unwritten == UNCHANGED <<files, disk>>

Begin(c) ==
    /\ pc = "idle"
    /\ pc' = "observe" /\ call' = c /\ status' = "none"
    /\ UNCHANGED <<held, history>>
    /\ Unwritten

Submit(i, s, a) == Begin([intent |-> i, site |-> s, account |-> a])

ActivateOrInspect(i) == Begin([NoCall EXCEPT !.intent = i])

(***************************************************************************)
(* observe_state and what each entry point makes of it.                    *)
(***************************************************************************)
LocalState ==
    IF settings.site = Corrupt THEN "CORRUPT"
    ELSE IF settings.enabled THEN "ENABLED"
    ELSE IF credentials = Corrupt THEN "CORRUPT"
    ELSE IF credentials = Missing
    THEN IF settings.site = Missing THEN "NO_ACCOUNT" ELSE "PARTIAL_DISABLED"
    ELSE IF settings.site = Missing THEN "ORPHAN_CREDENTIALS" ELSE "COMPLETE_DISABLED"

Refusal ==
    CASE LocalState = "CORRUPT" -> "CORRUPT_OR_UNSUPPORTED_STATE"
      [] LocalState = "ENABLED" -> "ALREADY_ENABLED"
      [] LocalState = "ORPHAN_CREDENTIALS" -> "INCOMPLETE_STATE"
      [] OTHER -> IF call.intent = "ACTIVATE" THEN "INCOMPLETE_STATE" ELSE "PRECONDITION"

(* Mutant: anything but an enabled account can be set up again. *)
MaySetUp_whatever == LocalState # "ENABLED"

MaySetUp ==
    \/ call.intent = "NEW_OR_RESUME" /\ LocalState = "NO_ACCOUNT"
    \/ /\ call.intent = "NEW_OR_RESUME" /\ LocalState = "PARTIAL_DISABLED"
       /\ settings.site = call.site
    \/ call.intent = "REPLACE_DISABLED" /\ LocalState = "COMPLETE_DISABLED"

(* setup_input_basic_valid comes before the comparison with the settings. *)
InputIsLookedAt ==
    MaySetUp \/ (call.intent = "NEW_OR_RESUME" /\ LocalState = "PARTIAL_DISABLED")

Observe ==
    /\ pc = "observe"
    /\ \/ call.intent \in Setups /\ MaySetUp /\ Goto("bootstrap")
       \/ call.intent \in Setups /\ InputIsLookedAt /\ Return("INVALID_INPUT")
       \/ call.intent = "ACTIVATE" /\ LocalState = "COMPLETE_DISABLED" /\ Goto("identity")
       \/ ~(call.intent \in Setups /\ MaySetUp)
          /\ ~(call.intent = "ACTIVATE" /\ LocalState = "COMPLETE_DISABLED")
          /\ Return(Refusal)
       \/ Return("PRECONDITION")    \* a file cannot be read
    /\ Unwritten

(***************************************************************************)
(* cn_account_bootstrap: settings first, disabled; credentials after them. *)
(* What is already there is not written again.                             *)
(***************************************************************************)
CredentialsNext == IF credentials = call.account THEN "identity" ELSE "save_credentials"

Bootstrap ==
    /\ pc = "bootstrap"
    /\ \/ Goto(IF settings = Config(call.site, FALSE) THEN CredentialsNext
               ELSE "save_settings")
       \/ \E s \in {"INVALID_INPUT", "BOOTSTRAP_FAILED"} : Return(s)
    /\ Unwritten

Doubt(f, s) ==
    /\ Ended(s)
    /\ uncertain' = uncertain \cup {f}
    /\ UNCHANGED <<authorized, activated>>

SaveSettings ==
    /\ pc = "save_settings"
    /\ \/ /\ settings' = Config(call.site, FALSE)
          /\ Goto("settle_settings")
          /\ UNCHANGED <<credentials, identity, disk>>
       \/ Return("BOOTSTRAP_FAILED") /\ Unwritten

(* Mutant: an uncertain save does not stop the bootstrap. *)
SettleSettings_goes_on ==
    /\ pc = "settle_settings"
    /\ \/ disk' = [disk EXCEPT !.settings = settings]
       \/ UNCHANGED disk
    /\ Goto(CredentialsNext)
    /\ UNCHANGED files

SettleSettings ==
    /\ pc = "settle_settings"
    /\ \/ disk' = [disk EXCEPT !.settings = settings] /\ Goto(CredentialsNext)
       \/ UNCHANGED disk /\ Doubt("settings", "BOOTSTRAP_DURABILITY_UNCERTAIN")
    /\ UNCHANGED files

SaveCredentials ==
    /\ pc = "save_credentials"
    /\ \/ /\ credentials' = call.account
          /\ Goto("settle_credentials")
          /\ UNCHANGED <<settings, identity, disk>>
       \/ Return("BOOTSTRAP_FAILED") /\ Unwritten

(* Mutant: an uncertain save does not stop the bootstrap. *)
SettleCredentials_goes_on ==
    /\ pc = "settle_credentials"
    /\ \/ disk' = [disk EXCEPT !.credentials = credentials]
       \/ UNCHANGED disk
    /\ Goto("identity")
    /\ UNCHANGED files

SettleCredentials ==
    /\ pc = "settle_credentials"
    /\ \/ disk' = [disk EXCEPT !.credentials = credentials] /\ Goto("identity")
       \/ UNCHANGED disk /\ Doubt("credentials", "BOOTSTRAP_DURABILITY_UNCERTAIN")
    /\ UNCHANGED files

(***************************************************************************)
(* prepare_and_activate: the identity is loaded, or created if there is    *)
(* none.                                                                   *)
(***************************************************************************)
PrepareIdentity ==
    /\ pc = "identity"
    /\ \/ identity \in {"unsynced", "whole"} /\ Goto("activate")
       \/ identity = "missing" /\ Goto("create_identity")
       \/ identity = "torn" /\ Return("CORRUPT_OR_UNSUPPORTED_STATE")
       \/ Return("IDENTITY_FAILED")
    /\ Unwritten

CreateIdentity ==
    /\ pc = "create_identity"
    /\ \/ /\ identity' = "torn"
          /\ Goto("write_identity")
          /\ UNCHANGED <<settings, credentials, disk>>
       \/ Return("IDENTITY_FAILED") /\ Unwritten

WriteIdentity ==
    /\ pc = "write_identity"
    /\ \/ identity' = "unsynced" /\ Goto("settle_identity")
       \/ identity' \in {"missing", "torn"} /\ Return("IDENTITY_FAILED")
    /\ UNCHANGED <<settings, credentials, disk>>

SettleIdentity ==
    /\ pc = "settle_identity"
    /\ \/ /\ identity' = "whole"
          /\ disk' = [disk EXCEPT !.identity = "whole"]
          /\ Goto("activate")
       \/ /\ identity' \in {"unsynced", "whole"}
          /\ UNCHANGED disk
          /\ Doubt("identity", "IDENTITY_DURABILITY_UNCERTAIN")
    /\ UNCHANGED <<settings, credentials>>

(* Everything a profile consists of can be loaded. *)
ProfileStored ==
    /\ settings.site \in Sites
    /\ credentials \in Accounts
    /\ identity \in {"unsynced", "whole"}

(***************************************************************************)
(* cn_sync_activate: load everything, ask the server, enable, save.        *)
(***************************************************************************)
(* A file cannot be read or means nothing; the layout, the runtime or the    *)
(* address is not usable; there is no memory or no client.                  *)
LoadFailures == {"CORRUPT_OR_UNSUPPORTED_STATE", "PRECONDITION",
                 "INFRASTRUCTURE_OR_SERVICE_FAILED"}

LoadForActivation ==
    /\ pc = "activate"
    /\ \/ /\ ProfileStored /\ ~settings.enabled
          /\ pc' = "authorize"
          /\ held' = [site |-> settings.site, account |-> credentials]
          /\ UNCHANGED <<call, status, history>>
       \/ \E s \in LoadFailures : Return(s)
    /\ Unwritten

(* Mutant: an answer that is not a refusal is taken for consent. *)
Authorize_unless_rejected ==
    /\ pc = "authorize"
    /\ \/ pc' = "enable" /\ UNCHANGED <<call, held, status, history>>
       \/ Return("AUTH_REJECTED")
    /\ Unwritten

(* map_authorization and then activation_status: only AUTH_FAILED is a       *)
(* refusal, everything else says nothing of the account.                    *)
AuthorizationFailures == {"AUTH_REJECTED", "INFRASTRUCTURE_OR_SERVICE_FAILED",
                          "PRECONDITION", "ACTIVATION_FAILED"}

Authorize ==
    /\ pc = "authorize"
    /\ \/ /\ <<held.site, held.account>> \in Registered
          /\ pc' = "enable"
          /\ authorized' = authorized \cup {<<held.site, held.account>>}
          /\ UNCHANGED <<call, held, status, uncertain, activated>>
       \/ \E s \in AuthorizationFailures : Return(s)
    /\ Unwritten

(* The settings loaded before the authorization are saved, now enabled. *)
Enable ==
    /\ pc = "enable"
    /\ \/ /\ settings' = Config(held.site, TRUE)
          /\ Goto("settle_enable")
          /\ UNCHANGED <<credentials, identity, disk>>
       \/ Return("ACTIVATION_SAVE_FAILED") /\ Unwritten

(* Mutants: the doubt is not reported; it is reported as a failed save. *)
SettleEnable_best_effort ==
    /\ pc = "settle_enable"
    /\ \/ disk' = [disk EXCEPT !.settings = settings]
       \/ UNCHANGED disk
    /\ Goto("profile")
    /\ UNCHANGED files

SettleEnable_save_failed ==
    /\ pc = "settle_enable"
    /\ \/ disk' = [disk EXCEPT !.settings = settings] /\ Goto("profile")
       \/ UNCHANGED disk /\ Doubt("settings", "ACTIVATION_SAVE_FAILED")
    /\ UNCHANGED files

SettleEnable ==
    /\ pc = "settle_enable"
    /\ \/ disk' = [disk EXCEPT !.settings = settings] /\ Goto("profile")
       \/ UNCHANGED disk /\ Doubt("settings", "ACTIVATION_DURABILITY_UNCERTAIN")
    /\ UNCHANGED files

(* cn_persisted_sync_profile_load is READY. *)
ProfileReady == settings.enabled /\ ProfileStored

CheckProfile ==
    /\ pc = "profile"
    /\ \/ /\ ProfileReady
          /\ Ended("ACTIVATED")
          /\ activated' = TRUE
          /\ UNCHANGED <<authorized, uncertain>>
       \/ Return("ENABLED_PROFILE_UNAVAILABLE")
    /\ Unwritten

-----------------------------------------------------------------------------
(* A file reaches the disk by itself. *)
Writeback ==
    /\ \E f \in DOMAIN disk : disk' = [disk EXCEPT ![f] = Stored[f]]
    /\ UNCHANGED <<files, pc, call, held, status, history>>

(* Power loss: the process is gone, an identity that was never synced may   *)
(* come back torn.                                                          *)
Crash ==
    /\ settings' = disk.settings
    /\ credentials' = disk.credentials
    /\ identity' \in IF disk.identity = "unsynced" THEN {"torn", "whole"}
                     ELSE {disk.identity}
    /\ disk' = [disk EXCEPT !.identity = identity']
    /\ Return("none")

CallStep ==
    \/ Observe \/ Bootstrap
    \/ SaveSettings \/ SettleSettings \/ SaveCredentials \/ SettleCredentials
    \/ PrepareIdentity \/ CreateIdentity \/ WriteIdentity \/ SettleIdentity
    \/ LoadForActivation \/ Authorize \/ Enable \/ SettleEnable \/ CheckProfile

User ==
    \/ \E i \in Setups, s \in Sites, a \in Accounts :
          <<s, a>> \in Inputs /\ Submit(i, s, a)
    \/ \E i \in {"ACTIVATE", "INSPECT"} : ActivateOrInspect(i)

Next == User \/ CallStep \/ Writeback \/ Crash

Spec == Init /\ [][Next]_vars

-----------------------------------------------------------------------------
SettingsFile ==
    [site : Sites, enabled : BOOLEAN] \cup [site : {Missing, Corrupt}, enabled : {FALSE}]
CredentialsFile == Accounts \cup {Missing, Corrupt}

TypeOK ==
    /\ settings \in SettingsFile
    /\ credentials \in CredentialsFile
    /\ identity \in Identities
    /\ disk \in [settings : SettingsFile, credentials : CredentialsFile,
                 identity : Identities]
    /\ pc \in PCs
    /\ call \in [intent : Intents, site : Sites \cup {Missing},
                 account : Accounts \cup {Missing}]
    /\ held \in [site : Sites \cup {Missing}, account : Accounts \cup {Missing}]
    /\ status \in Statuses
    /\ authorized \subseteq Sites \X Accounts
    /\ uncertain \subseteq {"settings", "credentials", "identity"}
    /\ activated \in BOOLEAN

(* An enabled account was accepted by the server (cn_sync_activate saves     *)
(* only after cn_kosync_authorize): its site always; the very pair that is   *)
(* stored, unless a save of the credentials once returned                    *)
(* DURABILITY_UNCERTAIN.  Power losses included.                             *)
EnabledWasAuthorized ==
    settings.enabled =>
        /\ \E a \in Accounts : <<settings.site, a>> \in authorized
        /\ "credentials" \notin uncertain =>
               <<settings.site, credentials>> \in authorized

(* Settings before credentials: with every save of the setup known durable,  *)
(* no interruption leaves a state that none of the entry points accepts:     *)
(* credentials without settings, or an enabled account without a profile.    *)
NoDeadEnd ==
    pc = "idle" /\ uncertain = {} =>
        /\ LocalState # "ORPHAN_CREDENTIALS"
        /\ LocalState = "ENABLED" => ProfileReady

(* Once ACTIVATED was returned the profile is ready for ever, unless a file  *)
(* it consists of was reported as DURABILITY_UNCERTAIN.                      *)
ActivatedStaysReady == activated /\ uncertain = {} => ProfileReady

(* Why EnabledWasAuthorized survives a power loss between any two steps: a    *)
(* credential save that was not reported as uncertain is on the disk, the    *)
(* disk is never enabled before the settings are, an enabled account is out  *)
(* of reach of every step that writes, and what is asked of the server is    *)
(* what is stored.                                                           *)
Writing == {"bootstrap", "save_settings", "settle_settings",
            "save_credentials", "settle_credentials"}

InputHeld ==
    /\ call.intent \in Setups => call.site \in Sites /\ call.account \in Accounts
    /\ pc \in Writing => call.intent \in Setups

CredentialsSettled ==
    pc # "settle_credentials" /\ "credentials" \notin uncertain =>
        disk.credentials = credentials

DiskNotAhead == disk.settings.enabled => settings = disk.settings

EnabledIsFinal ==
    settings.enabled => pc \in {"idle", "observe", "settle_enable", "profile"}

HeldIsStored ==
    pc \in {"authorize", "enable"} =>
        /\ held.site \in Sites /\ held.site = settings.site
        /\ held.account \in Accounts /\ held.account = credentials

EnablesAuthorized == pc = "enable" => <<held.site, held.account>> \in authorized

AccountInv ==
    /\ TypeOK /\ EnabledWasAuthorized /\ InputHeld /\ CredentialsSettled
    /\ DiskNotAhead /\ EnabledIsFinal /\ HeldIsStored /\ EnablesAuthorized

(* What the user is told agrees with what is stored. *)
StatusTruthful ==
    pc = "idle" =>
        /\ status = "ACTIVATED" => ProfileReady
        /\ status \in {"ALREADY_ENABLED", "ENABLED_PROFILE_UNAVAILABLE",
                       "ACTIVATION_DURABILITY_UNCERTAIN"} => settings.enabled
        /\ status \in {"AUTH_REJECTED", "INFRASTRUCTURE_OR_SERVICE_FAILED",
                       "ACTIVATION_SAVE_FAILED", "BOOTSTRAP_FAILED",
                       "IDENTITY_FAILED", "INCOMPLETE_STATE"} => ~settings.enabled

(* A damaged file is never overwritten, and an enabled account is never      *)
(* changed, by any sequence of calls.                                        *)
NeverOverwrites ==
    [][/\ settings.site = Corrupt \/ settings.enabled => settings' = settings \/ Crash
       /\ credentials = Corrupt \/ settings.enabled => credentials' = credentials \/ Crash
       /\ identity \in {"unsynced", "whole"} => identity' \in {"unsynced", "whole"} \/ Crash
      ]_vars

(* Where a call is tells what it has found or made so far. *)
CallKnows ==
    /\ pc \in Writing => settings.site # Corrupt /\ credentials # Corrupt
    /\ pc \in {"settle_settings", "save_credentials", "settle_credentials"} =>
           settings.site \in Sites
    /\ pc = "settle_credentials" => credentials \in Accounts
    /\ pc = "create_identity" => identity = "missing"
    /\ pc = "write_identity" => identity = "torn"
    /\ pc = "settle_identity" => identity = "unsynced"
    /\ pc \in {"settle_enable", "profile"} => settings.enabled

(* As long as no save was ever in doubt, the disk lags behind only while the *)
(* call that writes a file has not settled it; settings are stored before    *)
(* credentials, and all of a profile before it is enabled.                   *)
NothingInDoubt ==
    uncertain = {} =>
        /\ pc \notin {"settle_settings", "settle_enable"} => disk.settings = settings
        /\ credentials \in Accounts =>
               settings.site # Missing /\ disk.settings.site # Missing
        /\ pc # "settle_identity" /\ identity \in {"unsynced", "whole"} =>
               identity = "whole" /\ disk.identity = "whole"
        /\ settings.enabled \/ pc \in {"authorize", "enable"} => ProfileStored
        /\ activated => settings.enabled /\ disk.settings.enabled

SetupInv == CallKnows /\ NothingInDoubt /\ StatusTruthful

(* docs/milestone-sync-account-bootstrap.md, line 96: "A future activation   *)
(* flow must not infer account readiness merely because both files exist.    *)
(* Activation requires explicit successful bootstrap/activation semantics."  *)
(* A pair that was successfully bootstrapped was at least entered as a pair. *)
ActivatesSubmittedAccount ==
    pc = "authorize" => <<held.site, held.account>> \in Inputs

-----------------------------------------------------------------------------
(* A small instance, for TLC: the user tries both accounts at the first site *)
(* and the second account at the second one; the first account happens to    *)
(* be registered at both sites.                                             *)
SmallInputs == {<<"s1", "a1">>, <<"s1", "a2">>, <<"s2", "a2">>}
SmallRegistered == {<<"s1", "a1">>, <<"s2", "a1">>, <<"s2", "a2">>}

=============================================================================
