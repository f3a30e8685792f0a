------------------------ MODULE AccountSetupProofs -------------------------
(***************************************************************************)
(* Proofs about AccountSetup, for any sites, accounts and servers, in two  *)
(* parts.  AccountInv says why an enabled account was authorized, whatever *)
(* was in doubt.  SetupInv, inductive on top of it, says what a call knows *)
(* and, as long as no save was in doubt, what the disk holds; the          *)
(* properties about dead ends, readiness, statuses and overwriting follow. *)
(***************************************************************************)
EXTENDS AccountSetup, TLAPS

LEMMA ConfigType ==
    /\ \A s \in Sites, e \in BOOLEAN :
          Config(s, e) \in SettingsFile /\ Config(s, e).site = s /\ Config(s, e).enabled = e
    /\ \A s \in {Missing, Corrupt} :
          Config(s, FALSE) \in SettingsFile /\ Config(s, FALSE).enabled = FALSE
    /\ \A c \in SettingsFile : /\ c.enabled \in BOOLEAN
                               /\ c.enabled => c.site \in Sites /\ c.site # Corrupt
  BY NamesAssumption DEF Config, SettingsFile, Missing, Corrupt

LEMMA InitAccount == Init => AccountInv
<1> SUFFICES ASSUME Init PROVE AccountInv
  OBVIOUS
<1>1. settings \in SettingsFile /\ settings.enabled = FALSE
  BY ConfigType DEF Init
<1>2. disk.settings = settings /\ disk.credentials = credentials
  BY DEF Init, Stored
<1>3. TypeOK
  BY <1>1 DEF Init, TypeOK, CredentialsFile, Identities, Stored, PCs, Intents,
              Setups, Statuses, NoCall, Nobody
<1>4. InputHeld
  BY DEF Init, InputHeld, Writing, NoCall, Setups
<1> QED
  BY <1>1, <1>2, <1>3, <1>4
  DEF Init, AccountInv, EnabledWasAuthorized, CredentialsSettled, DiskNotAhead,
      EnabledIsFinal, HeldIsStored, EnablesAuthorized

(* A call that returns and leaves the files alone. *)
LEMMA ReturnKeeps ==
    ASSUME AccountInv, Unwritten, pc # "settle_credentials",
           NEW s \in Statuses, Return(s)
    PROVE  AccountInv'
<1> USE DEF Unwritten, Return, Ended, files, history, AccountInv
<1>1. TypeOK'
  BY DEF TypeOK, PCs, NoCall, Nobody, Intents, Setups
<1>2. InputHeld'
  BY DEF InputHeld, Writing, NoCall, Setups
<1>3. EnabledWasAuthorized' /\ CredentialsSettled' /\ DiskNotAhead'
  BY DEF EnabledWasAuthorized, CredentialsSettled, DiskNotAhead
<1>4. EnabledIsFinal' /\ HeldIsStored' /\ EnablesAuthorized'
  BY DEF EnabledIsFinal, HeldIsStored, EnablesAuthorized
<1> QED BY <1>1, <1>2, <1>3, <1>4

(* A call on a disabled account that goes on and leaves the files alone. *)
LEMMA MoveKeeps ==
    ASSUME AccountInv, Unwritten, pc # "settle_credentials", ~settings.enabled,
           NEW p \in PCs \ {"authorize", "enable"}, Goto(p),
           p \in Writing => call.intent \in Setups
    PROVE  AccountInv'
<1> USE DEF Unwritten, Goto, files, history, AccountInv
<1>1. TypeOK'
  BY DEF TypeOK
<1>2. InputHeld'
  BY DEF InputHeld
<1>3. EnabledWasAuthorized' /\ CredentialsSettled' /\ DiskNotAhead'
  BY DEF EnabledWasAuthorized, CredentialsSettled, DiskNotAhead
<1>4. EnabledIsFinal' /\ HeldIsStored' /\ EnablesAuthorized'
  BY DEF EnabledIsFinal, HeldIsStored, EnablesAuthorized
<1> QED BY <1>1, <1>2, <1>3, <1>4

LEMMA BeginKeeps ==
    ASSUME AccountInv, NEW c,
           c \in [intent : Intents, site : Sites \cup {Missing},
                  account : Accounts \cup {Missing}],
           c.intent \in Setups => c.site \in Sites /\ c.account \in Accounts,
           Begin(c)
    PROVE  AccountInv'
<1> USE DEF Unwritten, Begin, files, history, AccountInv
<1>1. TypeOK'
  BY DEF TypeOK, PCs, Statuses
<1>2. InputHeld'
  BY DEF InputHeld, Writing
<1>3. EnabledWasAuthorized' /\ CredentialsSettled' /\ DiskNotAhead'
  BY DEF EnabledWasAuthorized, CredentialsSettled, DiskNotAhead
<1>4. EnabledIsFinal' /\ HeldIsStored' /\ EnablesAuthorized'
  BY DEF EnabledIsFinal, HeldIsStored, EnablesAuthorized
<1> QED BY <1>1, <1>2, <1>3, <1>4

LEMMA UserKeeps == ASSUME AccountInv, User PROVE AccountInv'
<1>1. CASE \E i \in Setups, s \in Sites, a \in Accounts :
              <<s, a>> \in Inputs /\ Submit(i, s, a)
  BY <1>1, BeginKeeps DEF Submit, Intents
<1>2. CASE \E i \in {"ACTIVATE", "INSPECT"} : ActivateOrInspect(i)
  <2>1. PICK i \in {"ACTIVATE", "INSPECT"} : Begin([NoCall EXCEPT !.intent = i])
    BY <1>2 DEF ActivateOrInspect
  <2> QED BY <2>1, BeginKeeps DEF NoCall, Intents, Setups
<1> QED BY <1>1, <1>2 DEF User

LEMMA ObserveKeeps == ASSUME AccountInv, Observe PROVE AccountInv'
<1>1. pc = "observe" /\ Unwritten
  BY DEF Observe
<1>2. Refusal \in Statuses
  BY DEF Refusal, Statuses
<1>3. settings.enabled => LocalState \in {"CORRUPT", "ENABLED"}
  BY DEF LocalState
<1>4. CASE call.intent \in Setups /\ MaySetUp /\ Goto("bootstrap")
  <2>1. ~settings.enabled
    BY <1>3, <1>4 DEF MaySetUp
  <2> QED BY <1>1, <1>4, <2>1, MoveKeeps DEF PCs
<1>5. CASE call.intent = "ACTIVATE" /\ LocalState = "COMPLETE_DISABLED" /\ Goto("identity")
  <2>1. ~settings.enabled
    BY <1>3, <1>5
  <2> QED BY <1>1, <1>5, <2>1, MoveKeeps DEF PCs, Writing
<1>6. CASE Return("INVALID_INPUT") \/ Return(Refusal) \/ Return("PRECONDITION")
  BY <1>1, <1>2, <1>6, ReturnKeeps DEF Statuses
<1> QED BY <1>4, <1>5, <1>6 DEF Observe

LEMMA BootstrapKeeps == ASSUME AccountInv, Bootstrap PROVE AccountInv'
<1>1. pc = "bootstrap" /\ Unwritten
  BY DEF Bootstrap
<1>2. ~settings.enabled /\ call.intent \in Setups
  BY <1>1 DEF AccountInv, EnabledIsFinal, InputHeld, Writing
<1>3. CASE Goto(IF settings = Config(call.site, FALSE) THEN CredentialsNext
                ELSE "save_settings")
  BY <1>1, <1>2, <1>3, MoveKeeps DEF CredentialsNext, PCs
<1>4. CASE \E s \in {"INVALID_INPUT", "BOOTSTRAP_FAILED"} : Return(s)
  BY <1>1, <1>4, ReturnKeeps DEF Statuses
<1> QED BY <1>3, <1>4 DEF Bootstrap

LEMMA SaveSettingsKeeps == ASSUME AccountInv, SaveSettings PROVE AccountInv'
<1>1. pc = "save_settings"
  BY DEF SaveSettings
<1>2. ~settings.enabled /\ ~disk.settings.enabled /\ call.intent \in Setups
      /\ call.site \in Sites
  BY <1>1 DEF AccountInv, EnabledIsFinal, DiskNotAhead, InputHeld, Writing
<1>3. CASE /\ settings' = Config(call.site, FALSE)
           /\ Goto("settle_settings")
           /\ UNCHANGED <<credentials, identity, disk>>
  <2> USE <1>1, <1>2, <1>3 DEF Goto, history, AccountInv
  <2>1. settings' \in SettingsFile /\ settings'.enabled = FALSE
    BY ConfigType
  <2>2. TypeOK'
    BY <2>1 DEF TypeOK, PCs
  <2>3. InputHeld'
    BY DEF InputHeld
  <2>4. EnabledWasAuthorized' /\ CredentialsSettled' /\ DiskNotAhead'
    BY <2>1 DEF EnabledWasAuthorized, CredentialsSettled, DiskNotAhead
  <2>5. EnabledIsFinal' /\ HeldIsStored' /\ EnablesAuthorized'
    BY <2>1 DEF EnabledIsFinal, HeldIsStored, EnablesAuthorized
  <2> QED BY <2>2, <2>3, <2>4, <2>5
<1>4. CASE Return("BOOTSTRAP_FAILED") /\ Unwritten
  BY <1>1, <1>4, ReturnKeeps DEF Statuses
<1> QED BY <1>3, <1>4 DEF SaveSettings

(* The settings reach the disk, whatever the call does then. *)
LEMMA SettingsOnDisk ==
    ASSUME AccountInv, disk' = [disk EXCEPT !.settings = settings], UNCHANGED files
    PROVE  /\ disk' \in [settings : SettingsFile, credentials : CredentialsFile,
                         identity : Identities]
           /\ disk'.credentials = disk.credentials
           /\ DiskNotAhead'
  BY DEF AccountInv, TypeOK, DiskNotAhead, files

LEMMA SettleSettingsKeeps == ASSUME AccountInv, SettleSettings PROVE AccountInv'
<1>1. pc = "settle_settings" /\ UNCHANGED files
  BY DEF SettleSettings
<1>2. ~settings.enabled /\ call.intent \in Setups
  BY <1>1 DEF AccountInv, EnabledIsFinal, InputHeld, Writing
<1>3. CASE disk' = [disk EXCEPT !.settings = settings] /\ Goto(CredentialsNext)
  <2> USE <1>1, <1>2, <1>3, SettingsOnDisk DEF Goto, files, history, AccountInv
  <2>1. TypeOK'
    BY DEF TypeOK, PCs, CredentialsNext
  <2>2. InputHeld'
    BY DEF InputHeld
  <2>3. EnabledWasAuthorized' /\ CredentialsSettled'
    BY DEF EnabledWasAuthorized, CredentialsSettled
  <2>4. EnabledIsFinal' /\ HeldIsStored' /\ EnablesAuthorized'
    BY DEF EnabledIsFinal, HeldIsStored, EnablesAuthorized, CredentialsNext
  <2> QED BY <2>1, <2>2, <2>3, <2>4
<1>4. CASE UNCHANGED disk /\ Doubt("settings", "BOOTSTRAP_DURABILITY_UNCERTAIN")
  <2> USE <1>1, <1>2, <1>4 DEF Doubt, Ended, files, AccountInv
  <2>1. TypeOK'
    BY DEF TypeOK, PCs, NoCall, Nobody, Intents, Setups, Statuses
  <2>2. InputHeld'
    BY DEF InputHeld, NoCall, Setups, Writing
  <2>3. EnabledWasAuthorized' /\ CredentialsSettled' /\ DiskNotAhead'
    BY DEF EnabledWasAuthorized, CredentialsSettled, DiskNotAhead
  <2>4. EnabledIsFinal' /\ HeldIsStored' /\ EnablesAuthorized'
    BY DEF EnabledIsFinal, HeldIsStored, EnablesAuthorized
  <2> QED BY <2>1, <2>2, <2>3, <2>4
<1> QED BY <1>1, <1>3, <1>4 DEF SettleSettings

LEMMA SaveCredentialsKeeps == ASSUME AccountInv, SaveCredentials PROVE AccountInv'
<1>1. pc = "save_credentials"
  BY DEF SaveCredentials
<1>2. ~settings.enabled /\ call.intent \in Setups /\ call.account \in Accounts
  BY <1>1 DEF AccountInv, EnabledIsFinal, InputHeld, Writing
<1>3. CASE /\ credentials' = call.account
           /\ Goto("settle_credentials")
           /\ UNCHANGED <<settings, identity, disk>>
  <2> USE <1>1, <1>2, <1>3 DEF Goto, history, AccountInv
  <2>1. TypeOK'
    BY DEF TypeOK, PCs, CredentialsFile
  <2>2. InputHeld'
    BY DEF InputHeld
  <2>3. EnabledWasAuthorized' /\ CredentialsSettled' /\ DiskNotAhead'
    BY DEF EnabledWasAuthorized, CredentialsSettled, DiskNotAhead
  <2>4. EnabledIsFinal' /\ HeldIsStored' /\ EnablesAuthorized'
    BY DEF EnabledIsFinal, HeldIsStored, EnablesAuthorized
  <2> QED BY <2>1, <2>2, <2>3, <2>4
<1>4. CASE Return("BOOTSTRAP_FAILED") /\ Unwritten
  BY <1>1, <1>4, ReturnKeeps DEF Statuses
<1> QED BY <1>3, <1>4 DEF SaveCredentials

LEMMA SettleCredentialsKeeps ==
    ASSUME AccountInv, SettleCredentials PROVE AccountInv'
<1>1. pc = "settle_credentials" /\ UNCHANGED files
  BY DEF SettleCredentials
<1>2. ~settings.enabled /\ call.intent \in Setups
  BY <1>1 DEF AccountInv, EnabledIsFinal, InputHeld, Writing
<1>3. CASE disk' = [disk EXCEPT !.credentials = credentials] /\ Goto("identity")
  <2> USE <1>1, <1>2, <1>3 DEF Goto, files, history, AccountInv
  <2>1. TypeOK' /\ disk'.credentials = credentials /\ disk'.settings = disk.settings
    BY DEF TypeOK, PCs
  <2>2. InputHeld'
    BY DEF InputHeld
  <2>3. EnabledWasAuthorized' /\ CredentialsSettled' /\ DiskNotAhead'
    BY <2>1 DEF EnabledWasAuthorized, CredentialsSettled, DiskNotAhead
  <2>4. EnabledIsFinal' /\ HeldIsStored' /\ EnablesAuthorized'
    BY DEF EnabledIsFinal, HeldIsStored, EnablesAuthorized
  <2> QED BY <2>1, <2>2, <2>3, <2>4
<1>4. CASE UNCHANGED disk /\ Doubt("credentials", "BOOTSTRAP_DURABILITY_UNCERTAIN")
  <2> USE <1>1, <1>2, <1>4 DEF Doubt, Ended, files, AccountInv
  <2>1. TypeOK'
    BY DEF TypeOK, PCs, NoCall, Nobody, Intents, Setups, Statuses
  <2>2. InputHeld'
    BY DEF InputHeld, NoCall, Setups, Writing
  <2>3. EnabledWasAuthorized' /\ CredentialsSettled' /\ DiskNotAhead'
    BY DEF EnabledWasAuthorized, CredentialsSettled, DiskNotAhead
  <2>4. EnabledIsFinal' /\ HeldIsStored' /\ EnablesAuthorized'
    BY DEF EnabledIsFinal, HeldIsStored, EnablesAuthorized
  <2> QED BY <2>1, <2>2, <2>3, <2>4
<1> QED BY <1>1, <1>3, <1>4 DEF SettleCredentials

LEMMA PrepareIdentityKeeps == ASSUME AccountInv, PrepareIdentity PROVE AccountInv'
<1>1. pc = "identity" /\ Unwritten
  BY DEF PrepareIdentity
<1>2. ~settings.enabled
  BY <1>1 DEF AccountInv, EnabledIsFinal
<1>3. CASE Goto("activate") \/ Goto("create_identity")
  BY <1>1, <1>2, <1>3, MoveKeeps DEF PCs, Writing
<1>4. CASE Return("CORRUPT_OR_UNSUPPORTED_STATE") \/ Return("IDENTITY_FAILED")
  BY <1>1, <1>4, ReturnKeeps DEF Statuses
<1> QED BY <1>3, <1>4 DEF PrepareIdentity

(* The identity says nothing of the account: a step that writes only the    *)
(* identity keeps the invariant.                                            *)
LEMMA IdentityStep ==
    ASSUME AccountInv, ~settings.enabled, pc # "settle_credentials",
           UNCHANGED <<settings, credentials, authorized>>, TypeOK',
           disk'.settings = disk.settings, disk'.credentials = disk.credentials,
           uncertain \subseteq uncertain',
           pc' \notin Writing \cup {"authorize", "enable"},
           call'.intent \in Setups => call' = call
    PROVE  AccountInv'
<1> USE DEF AccountInv
<1>1. InputHeld'
  BY DEF InputHeld
<1>2. EnabledWasAuthorized' /\ CredentialsSettled' /\ DiskNotAhead'
  BY DEF EnabledWasAuthorized, CredentialsSettled, DiskNotAhead
<1>3. EnabledIsFinal' /\ HeldIsStored' /\ EnablesAuthorized'
  BY DEF EnabledIsFinal, HeldIsStored, EnablesAuthorized
<1> QED BY <1>1, <1>2, <1>3

LEMMA CreateIdentityKeeps == ASSUME AccountInv, CreateIdentity PROVE AccountInv'
<1>1. pc = "create_identity" /\ ~settings.enabled
  BY DEF CreateIdentity, AccountInv, EnabledIsFinal
<1>2. CASE /\ identity' = "torn" /\ Goto("write_identity")
           /\ UNCHANGED <<settings, credentials, disk>>
  <2>1. TypeOK'
    BY <1>2 DEF AccountInv, TypeOK, Goto, history, PCs, Identities
  <2> QED BY <1>1, <1>2, <2>1, IdentityStep DEF Goto, history, Writing
<1>3. CASE Return("IDENTITY_FAILED") /\ Unwritten
  BY <1>1, <1>3, ReturnKeeps DEF Statuses
<1> QED BY <1>2, <1>3 DEF CreateIdentity

LEMMA WriteIdentityKeeps == ASSUME AccountInv, WriteIdentity PROVE AccountInv'
<1>1. pc = "write_identity" /\ ~settings.enabled
  BY DEF WriteIdentity, AccountInv, EnabledIsFinal
<1>2. UNCHANGED <<settings, credentials, disk>> /\ identity' \in Identities
  BY DEF WriteIdentity, Identities
<1>3. CASE Goto("settle_identity")
  <2>1. TypeOK'
    BY <1>2, <1>3 DEF AccountInv, TypeOK, Goto, history, PCs
  <2> QED BY <1>1, <1>2, <1>3, <2>1, IdentityStep DEF Goto, history, Writing
<1>4. CASE Return("IDENTITY_FAILED")
  <2>1. TypeOK'
    BY <1>2, <1>4 DEF AccountInv, TypeOK, Return, Ended, history, PCs, Statuses,
                     NoCall, Nobody, Intents, Setups
  <2> QED BY <1>1, <1>2, <1>4, <2>1, IdentityStep
          DEF Return, Ended, history, Writing, NoCall, Setups
<1> QED BY <1>3, <1>4 DEF WriteIdentity

LEMMA SettleIdentityKeeps == ASSUME AccountInv, SettleIdentity PROVE AccountInv'
<1>1. pc = "settle_identity" /\ ~settings.enabled
  BY DEF SettleIdentity, AccountInv, EnabledIsFinal
<1>2. UNCHANGED <<settings, credentials>>
  BY DEF SettleIdentity
<1>3. CASE /\ identity' = "whole"
           /\ disk' = [disk EXCEPT !.identity = "whole"]
           /\ Goto("activate")
  <2>1. TypeOK' /\ disk'.settings = disk.settings /\ disk'.credentials = disk.credentials
    BY <1>2, <1>3 DEF AccountInv, TypeOK, Goto, history, PCs, Identities
  <2> QED BY <1>1, <1>2, <1>3, <2>1, IdentityStep DEF Goto, history, Writing
<1>4. CASE /\ identity' \in {"unsynced", "whole"}
           /\ UNCHANGED disk
           /\ Doubt("identity", "IDENTITY_DURABILITY_UNCERTAIN")
  <2>1. TypeOK'
    BY <1>2, <1>4 DEF AccountInv, TypeOK, Doubt, Ended, PCs, Statuses, Identities,
                     NoCall, Nobody, Intents, Setups
  <2> QED BY <1>1, <1>2, <1>4, <2>1, IdentityStep
          DEF Doubt, Ended, Writing, NoCall, Setups
<1> QED BY <1>3, <1>4 DEF SettleIdentity

LEMMA LoadForActivationKeeps ==
    ASSUME AccountInv, LoadForActivation PROVE AccountInv'
<1>1. pc = "activate" /\ Unwritten
  BY DEF LoadForActivation
<1>2. CASE /\ ProfileStored /\ ~settings.enabled
           /\ pc' = "authorize"
           /\ held' = [site |-> settings.site, account |-> credentials]
           /\ UNCHANGED <<call, status, history>>
  <2> USE <1>1, <1>2 DEF Unwritten, files, history, AccountInv
  <2>1. TypeOK' /\ HeldIsStored'
    BY DEF TypeOK, PCs, HeldIsStored, ProfileStored
  <2>2. InputHeld'
    BY DEF InputHeld, Writing
  <2>3. EnabledWasAuthorized' /\ CredentialsSettled' /\ DiskNotAhead'
    BY DEF EnabledWasAuthorized, CredentialsSettled, DiskNotAhead
  <2>4. EnabledIsFinal' /\ EnablesAuthorized'
    BY DEF EnabledIsFinal, EnablesAuthorized
  <2> QED BY <2>1, <2>2, <2>3, <2>4
<1>3. CASE \E s \in {"CORRUPT_OR_UNSUPPORTED_STATE", "PRECONDITION",
                     "INFRASTRUCTURE_OR_SERVICE_FAILED"} : Return(s)
  BY <1>1, <1>3, ReturnKeeps DEF Statuses
<1> QED BY <1>2, <1>3 DEF LoadForActivation, LoadFailures

LEMMA AuthorizeKeeps == ASSUME AccountInv, Authorize PROVE AccountInv'
<1>1. pc = "authorize" /\ Unwritten
  BY DEF Authorize
<1>2. CASE /\ <<held.site, held.account>> \in Registered
           /\ pc' = "enable"
           /\ authorized' = authorized \cup {<<held.site, held.account>>}
           /\ UNCHANGED <<call, held, status, uncertain, activated>>
  <2> USE <1>1, <1>2 DEF Unwritten, files, AccountInv
  <2>1. ~settings.enabled
    BY DEF EnabledIsFinal
  <2>2. TypeOK' /\ HeldIsStored' /\ EnablesAuthorized'
    BY DEF TypeOK, PCs, HeldIsStored, EnablesAuthorized
  <2>3. InputHeld'
    BY DEF InputHeld, Writing
  <2>4. EnabledWasAuthorized' /\ CredentialsSettled' /\ DiskNotAhead' /\ EnabledIsFinal'
    BY <2>1 DEF EnabledWasAuthorized, CredentialsSettled, DiskNotAhead, EnabledIsFinal
  <2> QED BY <2>2, <2>3, <2>4
<1>3. CASE \E s \in {"AUTH_REJECTED", "INFRASTRUCTURE_OR_SERVICE_FAILED",
                     "PRECONDITION", "ACTIVATION_FAILED"} : Return(s)
  BY <1>1, <1>3, ReturnKeeps DEF Statuses
<1> QED BY <1>2, <1>3 DEF Authorize, AuthorizationFailures

(* The one step that enables: what it enables is stored and was accepted. *)
LEMMA EnableKeeps == ASSUME AccountInv, Enable PROVE AccountInv'
<1>1. pc = "enable"
  BY DEF Enable
<1>2. /\ ~settings.enabled /\ ~disk.settings.enabled
      /\ held.site \in Sites /\ held.account \in Accounts
      /\ held.account = credentials
      /\ <<held.site, held.account>> \in authorized
  BY <1>1 DEF AccountInv, EnabledIsFinal, DiskNotAhead, HeldIsStored, EnablesAuthorized
<1>3. CASE /\ settings' = Config(held.site, TRUE)
           /\ Goto("settle_enable")
           /\ UNCHANGED <<credentials, identity, disk>>
  <2> USE <1>1, <1>2, <1>3 DEF Goto, history, AccountInv
  <2>1. settings' \in SettingsFile /\ settings'.site = held.site
    BY ConfigType
  <2>2. TypeOK'
    BY <2>1 DEF TypeOK, PCs
  <2>3. InputHeld'
    BY DEF InputHeld, Writing
  <2>4. EnabledWasAuthorized'
    BY <2>1 DEF EnabledWasAuthorized
  <2>5. CredentialsSettled' /\ DiskNotAhead'
    BY DEF CredentialsSettled, DiskNotAhead
  <2>6. EnabledIsFinal' /\ HeldIsStored' /\ EnablesAuthorized'
    BY DEF EnabledIsFinal, HeldIsStored, EnablesAuthorized
  <2> QED BY <2>2, <2>3, <2>4, <2>5, <2>6
<1>4. CASE Return("ACTIVATION_SAVE_FAILED") /\ Unwritten
  BY <1>1, <1>4, ReturnKeeps DEF Statuses
<1> QED BY <1>3, <1>4 DEF Enable

LEMMA SettleEnableKeeps == ASSUME AccountInv, SettleEnable PROVE AccountInv'
<1>1. pc = "settle_enable" /\ UNCHANGED files
  BY DEF SettleEnable
<1>2. CASE disk' = [disk EXCEPT !.settings = settings] /\ Goto("profile")
  <2> USE <1>1, <1>2, SettingsOnDisk DEF Goto, files, history, AccountInv
  <2>1. TypeOK'
    BY DEF TypeOK, PCs
  <2>2. InputHeld'
    BY DEF InputHeld, Writing
  <2>3. EnabledWasAuthorized' /\ CredentialsSettled'
    BY DEF EnabledWasAuthorized, CredentialsSettled
  <2>4. EnabledIsFinal' /\ HeldIsStored' /\ EnablesAuthorized'
    BY DEF EnabledIsFinal, HeldIsStored, EnablesAuthorized
  <2> QED BY <2>1, <2>2, <2>3, <2>4
<1>3. CASE UNCHANGED disk /\ Doubt("settings", "ACTIVATION_DURABILITY_UNCERTAIN")
  <2> USE <1>1, <1>3 DEF Doubt, Ended, files, AccountInv
  <2>1. TypeOK'
    BY DEF TypeOK, PCs, NoCall, Nobody, Intents, Setups, Statuses
  <2>2. InputHeld'
    BY DEF InputHeld, NoCall, Setups, Writing
  <2>3. EnabledWasAuthorized' /\ CredentialsSettled' /\ DiskNotAhead'
    BY DEF EnabledWasAuthorized, CredentialsSettled, DiskNotAhead
  <2>4. EnabledIsFinal' /\ HeldIsStored' /\ EnablesAuthorized'
    BY DEF EnabledIsFinal, HeldIsStored, EnablesAuthorized
  <2> QED BY <2>1, <2>2, <2>3, <2>4
<1> QED BY <1>1, <1>2, <1>3 DEF SettleEnable

LEMMA CheckProfileKeeps == ASSUME AccountInv, CheckProfile PROVE AccountInv'
<1>1. pc = "profile" /\ Unwritten
  BY DEF CheckProfile
<1>2. CASE /\ Ended("ACTIVATED") /\ activated' = TRUE
           /\ UNCHANGED <<authorized, uncertain>>
  <2> USE <1>1, <1>2 DEF Unwritten, Ended, files, AccountInv
  <2>1. TypeOK'
    BY DEF TypeOK, PCs, NoCall, Nobody, Intents, Setups, Statuses
  <2>2. InputHeld'
    BY DEF InputHeld, NoCall, Setups, Writing
  <2>3. EnabledWasAuthorized' /\ CredentialsSettled' /\ DiskNotAhead'
    BY DEF EnabledWasAuthorized, CredentialsSettled, DiskNotAhead
  <2>4. EnabledIsFinal' /\ HeldIsStored' /\ EnablesAuthorized'
    BY DEF EnabledIsFinal, HeldIsStored, EnablesAuthorized
  <2> QED BY <2>1, <2>2, <2>3, <2>4
<1>3. CASE Return("ENABLED_PROFILE_UNAVAILABLE")
  BY <1>1, <1>3, ReturnKeeps DEF Statuses
<1> QED BY <1>2, <1>3 DEF CheckProfile

LEMMA WritebackKeeps == ASSUME AccountInv, Writeback PROVE AccountInv'
<1> USE DEF Writeback, files, history, AccountInv
<1>1. PICK f \in DOMAIN disk : disk' = [disk EXCEPT ![f] = Stored[f]]
  OBVIOUS
<1>2. /\ TypeOK'
      /\ disk'.settings \in {disk.settings, settings}
      /\ disk'.credentials \in {disk.credentials, credentials}
  <2>1. f \in {"settings", "credentials", "identity"}
    BY <1>1 DEF TypeOK
  <2>2. CASE f = "settings"
    BY <1>1, <2>2 DEF TypeOK, Stored
  <2>3. CASE f = "credentials"
    BY <1>1, <2>3 DEF TypeOK, Stored
  <2>4. CASE f = "identity"
    BY <1>1, <2>4 DEF TypeOK, Stored
  <2> QED BY <2>1, <2>2, <2>3, <2>4
<1>3. InputHeld'
  BY DEF InputHeld
<1>4. EnabledWasAuthorized' /\ CredentialsSettled' /\ DiskNotAhead'
  BY <1>2 DEF EnabledWasAuthorized, CredentialsSettled, DiskNotAhead
<1>5. EnabledIsFinal' /\ HeldIsStored' /\ EnablesAuthorized'
  BY DEF EnabledIsFinal, HeldIsStored, EnablesAuthorized
<1> QED BY <1>2, <1>3, <1>4, <1>5

(* What comes back is what the disk holds: an enabled account is the one    *)
(* that was enabled before, with the credentials it had.                    *)
LEMMA CrashKeeps == ASSUME AccountInv, Crash PROVE AccountInv'
<1> USE DEF Crash, Return, Ended, history, AccountInv
<1>1. TypeOK' /\ disk'.settings = disk.settings /\ disk'.credentials = disk.credentials
  BY DEF TypeOK, PCs, NoCall, Nobody, Intents, Setups, Statuses, Identities
<1>2. InputHeld'
  BY DEF InputHeld, NoCall, Setups, Writing
<1>3. EnabledWasAuthorized'
  <2>1. SUFFICES ASSUME disk.settings.enabled PROVE EnabledWasAuthorized'
    BY DEF EnabledWasAuthorized
  <2>2. settings = disk.settings /\ settings.enabled /\ pc # "settle_credentials"
    BY <2>1 DEF DiskNotAhead, EnabledIsFinal
  <2>3. "credentials" \notin uncertain => disk.credentials = credentials
    BY <2>2 DEF CredentialsSettled
  <2> QED BY <2>2, <2>3 DEF EnabledWasAuthorized
<1>4. CredentialsSettled' /\ DiskNotAhead'
  BY <1>1 DEF CredentialsSettled, DiskNotAhead
<1>5. EnabledIsFinal' /\ HeldIsStored' /\ EnablesAuthorized'
  BY DEF EnabledIsFinal, HeldIsStored, EnablesAuthorized
<1> QED BY <1>1, <1>2, <1>3, <1>4, <1>5

LEMMA NextAccount == AccountInv /\ [Next]_vars => AccountInv'
<1> SUFFICES ASSUME AccountInv, [Next]_vars PROVE AccountInv'
  OBVIOUS
<1>1. CASE User
  BY <1>1, UserKeeps
<1>2. CASE Observe \/ Bootstrap
  BY <1>2, ObserveKeeps, BootstrapKeeps
<1>3. CASE SaveSettings \/ SettleSettings \/ SaveCredentials \/ SettleCredentials
  BY <1>3, SaveSettingsKeeps, SettleSettingsKeeps, SaveCredentialsKeeps,
     SettleCredentialsKeeps
<1>4. CASE PrepareIdentity \/ CreateIdentity \/ WriteIdentity \/ SettleIdentity
  BY <1>4, PrepareIdentityKeeps, CreateIdentityKeeps, WriteIdentityKeeps,
     SettleIdentityKeeps
<1>5. CASE LoadForActivation \/ Authorize \/ Enable \/ SettleEnable \/ CheckProfile
  BY <1>5, LoadForActivationKeeps, AuthorizeKeeps, EnableKeeps, SettleEnableKeeps,
     CheckProfileKeeps
<1>6. CASE Writeback \/ Crash
  BY <1>6, WritebackKeeps, CrashKeeps
<1>7. CASE UNCHANGED vars
  <2> USE <1>7 DEF vars, files, history, AccountInv
  <2>1. TypeOK' /\ InputHeld'
    BY DEF TypeOK, InputHeld
  <2>2. EnabledWasAuthorized' /\ CredentialsSettled' /\ DiskNotAhead'
    BY DEF EnabledWasAuthorized, CredentialsSettled, DiskNotAhead
  <2>3. EnabledIsFinal' /\ HeldIsStored' /\ EnablesAuthorized'
    BY DEF EnabledIsFinal, HeldIsStored, EnablesAuthorized
  <2> QED BY <2>1, <2>2, <2>3
<1> QED BY <1>1, <1>2, <1>3, <1>4, <1>5, <1>6, <1>7 DEF Next, CallStep

(* The inductive invariant of the account setup, power losses included. *)
THEOREM AccountInvariant == Spec => []AccountInv
<1> QED BY InitAccount, NextAccount, PTL DEF Spec

(* An enabled account was accepted by the server of its site; the very pair *)
(* that is stored was, unless a credential save was reported as uncertain.  *)
THEOREM EnabledOnlyAuthorized == Spec => []EnabledWasAuthorized
<1>1. AccountInv => EnabledWasAuthorized
  BY DEF AccountInv
<1> QED BY <1>1, AccountInvariant, PTL

-----------------------------------------------------------------------------
LEMMA InitSetup == Init => SetupInv
<1> SUFFICES ASSUME Init PROVE SetupInv
  OBVIOUS
<1>1. settings.enabled = FALSE /\ disk.settings = settings /\ credentials \notin Accounts
  BY NamesAssumption, ConfigType DEF Init, Stored, Config
<1>2. CallKnows
  BY DEF Init, CallKnows, Writing
<1>3. NothingInDoubt
  BY <1>1 DEF Init, NothingInDoubt, Stored
<1>4. StatusTruthful
  BY DEF Init, StatusTruthful
<1> QED BY <1>2, <1>3, <1>4 DEF SetupInv

(* A step that leaves the files alone and settles nothing. *)
LEMMA DoubtKept ==
    ASSUME AccountInv, NothingInDoubt, Unwritten, uncertain \subseteq uncertain',
           pc \notin {"settle_settings", "settle_enable", "settle_identity"},
           activated' => activated \/ (settings.enabled /\ disk.settings.enabled),
           pc' \in {"authorize", "enable"} => ProfileStored
    PROVE  NothingInDoubt'
<1> SUFFICES ASSUME uncertain' = {} PROVE NothingInDoubt'
  BY DEF NothingInDoubt
<1>1. uncertain = {}
  OBVIOUS
<1>2. ProfileStored' <=> ProfileStored
  BY DEF Unwritten, files, ProfileStored
<1> QED BY <1>1, <1>2 DEF NothingInDoubt, Unwritten, files

(* What a call may say when it returns. *)
Sayable(s) ==
    /\ s = "ACTIVATED" => ProfileReady
    /\ s \in {"ALREADY_ENABLED", "ENABLED_PROFILE_UNAVAILABLE",
              "ACTIVATION_DURABILITY_UNCERTAIN"} => settings.enabled
    /\ s \in {"AUTH_REJECTED", "INFRASTRUCTURE_OR_SERVICE_FAILED",
              "ACTIVATION_SAVE_FAILED", "BOOTSTRAP_FAILED",
              "IDENTITY_FAILED", "INCOMPLETE_STATE"} => ~settings.enabled

LEMMA EndedTruthful ==
    ASSUME NEW s, Ended(s), Sayable(s)'
    PROVE  StatusTruthful' /\ CallKnows'
<1>1. StatusTruthful'
  BY DEF Ended, StatusTruthful, Sayable
<1>2. CallKnows'
  BY DEF Ended, CallKnows, Writing
<1> QED BY <1>1, <1>2

LEMMA ReturnKeepsSetup ==
    ASSUME AccountInv, SetupInv, Unwritten, NEW s, Return(s), Sayable(s),
           pc \notin {"settle_settings", "settle_enable", "settle_identity"}
    PROVE  SetupInv'
<1>1. Sayable(s)'
  BY DEF Sayable, Unwritten, files, ProfileReady, ProfileStored
<1>2. NothingInDoubt'
  BY DoubtKept DEF Return, Ended, history, SetupInv
<1> QED BY <1>1, <1>2, EndedTruthful DEF Return, SetupInv

LEMMA MoveKeepsSetup ==
    ASSUME AccountInv, SetupInv, Unwritten, NEW p, p # "idle",
           pc \notin {"settle_settings", "settle_enable", "settle_identity"},
           pc' = p, UNCHANGED <<uncertain, activated>>,
           p \in {"authorize", "enable"} => ProfileStored,
           p \in Writing => settings.site # Corrupt /\ credentials # Corrupt,
           p = "save_credentials" => settings.site \in Sites,
           p \notin {"settle_settings", "settle_credentials", "write_identity",
                     "settle_identity", "settle_enable", "profile"},
           p = "create_identity" => identity = "missing"
    PROVE  SetupInv'
<1>1. NothingInDoubt'
  BY DoubtKept DEF SetupInv
<1>2. CallKnows'
  BY DEF CallKnows, Unwritten, files
<1>3. StatusTruthful'
  BY DEF StatusTruthful
<1> QED BY <1>1, <1>2, <1>3 DEF SetupInv

LEMMA UserKeepsSetup == ASSUME AccountInv, SetupInv, User PROVE SetupInv'
<1>1. PICK c : Begin(c)
  BY DEF User, Submit, ActivateOrInspect
<1> QED BY <1>1, MoveKeepsSetup DEF Begin, history, Writing

LEMMA ObserveKeepsSetup == ASSUME AccountInv, SetupInv, Observe PROVE SetupInv'
<1>1. pc = "observe" /\ Unwritten
  BY DEF Observe
<1>2. settings.enabled => settings.site # Corrupt
  BY ConfigType DEF AccountInv, TypeOK
<1>3. CASE call.intent \in Setups /\ MaySetUp /\ Goto("bootstrap")
  <2>1. settings.site # Corrupt /\ credentials # Corrupt
    BY <1>3 DEF MaySetUp, LocalState
  <2> QED BY <1>1, <1>3, <2>1, MoveKeepsSetup DEF Goto, history
<1>4. CASE Goto("identity")
  BY <1>1, <1>4, MoveKeepsSetup DEF Goto, history, Writing
<1>5. CASE Return("INVALID_INPUT") \/ Return("PRECONDITION")
  BY <1>1, <1>5, ReturnKeepsSetup DEF Sayable
<1>6. CASE Return(Refusal)
  <2>1. Sayable(Refusal)
    BY <1>2 DEF Sayable, Refusal, LocalState
  <2> QED BY <1>1, <1>6, <2>1, ReturnKeepsSetup
<1> QED BY <1>3, <1>4, <1>5, <1>6 DEF Observe

LEMMA BootstrapKeepsSetup == ASSUME AccountInv, SetupInv, Bootstrap PROVE SetupInv'
<1>1. pc = "bootstrap" /\ Unwritten
  BY DEF Bootstrap
<1>2. /\ ~settings.enabled /\ call.site \in Sites
      /\ settings.site # Corrupt /\ credentials # Corrupt
  BY <1>1 DEF AccountInv, EnabledIsFinal, InputHeld, Writing, SetupInv, CallKnows
<1>3. CASE settings = Config(call.site, FALSE) /\ Goto(CredentialsNext)
  <2>1. settings.site \in Sites
    BY <1>2, <1>3 DEF Config
  <2>2. CredentialsNext \in {"identity", "save_credentials"}
    BY DEF CredentialsNext
  <2> QED BY <1>1, <1>2, <1>3, <2>1, <2>2, MoveKeepsSetup DEF Goto, history
<1>4. CASE Goto("save_settings")
  BY <1>1, <1>2, <1>4, MoveKeepsSetup DEF Goto, history
<1>5. CASE \E s \in {"INVALID_INPUT", "BOOTSTRAP_FAILED"} : Return(s)
  BY <1>1, <1>2, <1>5, ReturnKeepsSetup DEF Sayable
<1> QED BY <1>3, <1>4, <1>5 DEF Bootstrap

LEMMA SaveSettingsKeepsSetup ==
    ASSUME AccountInv, SetupInv, SaveSettings PROVE SetupInv'
<1>1. pc = "save_settings"
  BY DEF SaveSettings
<1>2. /\ ~settings.enabled /\ credentials # Corrupt
      /\ call.site \in Sites /\ call.site \notin {Missing, Corrupt}
  BY <1>1, NamesAssumption
  DEF AccountInv, EnabledIsFinal, InputHeld, Writing, SetupInv, CallKnows
<1>3. CASE /\ settings' = Config(call.site, FALSE)
           /\ Goto("settle_settings")
           /\ UNCHANGED <<credentials, identity, disk>>
  <2> USE <1>1, <1>2, <1>3 DEF Goto, history
  <2>1. settings'.site = call.site /\ settings'.enabled = FALSE
    BY ConfigType
  <2>2. CallKnows'
    BY <2>1 DEF CallKnows, Writing
  <2>3. NothingInDoubt'
    BY <2>1 DEF NothingInDoubt, SetupInv
  <2>4. StatusTruthful'
    BY DEF StatusTruthful
  <2> QED BY <2>2, <2>3, <2>4 DEF SetupInv
<1>4. CASE Return("BOOTSTRAP_FAILED") /\ Unwritten
  BY <1>1, <1>2, <1>4, ReturnKeepsSetup DEF Sayable
<1> QED BY <1>3, <1>4 DEF SaveSettings

(* A call that returns in doubt: nothing is claimed of the disk any more. *)
LEMMA DoubtKeepsSetup ==
    ASSUME NEW f, NEW s, Doubt(f, s), UNCHANGED settings,
           s \in {"BOOTSTRAP_DURABILITY_UNCERTAIN", "IDENTITY_DURABILITY_UNCERTAIN"}
             \/ (s = "ACTIVATION_DURABILITY_UNCERTAIN" /\ settings.enabled)
    PROVE  SetupInv'
<1>1. Sayable(s)'
  BY DEF Sayable
<1>2. NothingInDoubt'
  BY DEF Doubt, NothingInDoubt
<1> QED BY <1>1, <1>2, EndedTruthful DEF Doubt, SetupInv

LEMMA SettleSettingsKeepsSetup ==
    ASSUME AccountInv, SetupInv, SettleSettings PROVE SetupInv'
<1>1. pc = "settle_settings" /\ UNCHANGED files
  BY DEF SettleSettings
<1>2. /\ settings.site \in Sites /\ settings.site \notin {Missing, Corrupt}
      /\ credentials # Corrupt /\ ~settings.enabled
  BY <1>1, NamesAssumption DEF AccountInv, EnabledIsFinal, SetupInv, CallKnows, Writing
<1>3. CASE disk' = [disk EXCEPT !.settings = settings] /\ Goto(CredentialsNext)
  <2> USE <1>1, <1>2, <1>3 DEF Goto, files, history
  <2>1. disk'.settings = settings /\ disk'.identity = disk.identity
    BY DEF AccountInv, TypeOK
  <2>2. CallKnows'
    BY DEF CallKnows, CredentialsNext, Writing
  <2>3. NothingInDoubt'
    BY <2>1 DEF NothingInDoubt, SetupInv, CredentialsNext
  <2>4. StatusTruthful'
    BY DEF StatusTruthful, CredentialsNext
  <2> QED BY <2>2, <2>3, <2>4 DEF SetupInv
<1>4. CASE Doubt("settings", "BOOTSTRAP_DURABILITY_UNCERTAIN")
  BY <1>1, <1>4, DoubtKeepsSetup DEF files
<1> QED BY <1>3, <1>4 DEF SettleSettings

LEMMA SaveCredentialsKeepsSetup ==
    ASSUME AccountInv, SetupInv, SaveCredentials PROVE SetupInv'
<1>1. pc = "save_credentials"
  BY DEF SaveCredentials
<1>2. /\ ~settings.enabled /\ call.account \in Accounts /\ call.account # Corrupt
      /\ settings.site \in Sites /\ settings.site \notin {Missing, Corrupt}
  BY <1>1, NamesAssumption
  DEF AccountInv, EnabledIsFinal, InputHeld, Writing, SetupInv, CallKnows
<1>3. CASE /\ credentials' = call.account
           /\ Goto("settle_credentials")
           /\ UNCHANGED <<settings, identity, disk>>
  <2> USE <1>1, <1>2, <1>3 DEF Goto, history
  <2>1. CallKnows'
    BY DEF CallKnows, Writing
  <2>2. NothingInDoubt'
    BY DEF NothingInDoubt, SetupInv
  <2>3. StatusTruthful'
    BY DEF StatusTruthful
  <2> QED BY <2>1, <2>2, <2>3 DEF SetupInv
<1>4. CASE Return("BOOTSTRAP_FAILED") /\ Unwritten
  BY <1>1, <1>2, <1>4, ReturnKeepsSetup DEF Sayable
<1> QED BY <1>3, <1>4 DEF SaveCredentials

LEMMA SettleCredentialsKeepsSetup ==
    ASSUME AccountInv, SetupInv, SettleCredentials PROVE SetupInv'
<1>1. pc = "settle_credentials" /\ UNCHANGED files
  BY DEF SettleCredentials
<1>2. ~settings.enabled
  BY <1>1 DEF AccountInv, EnabledIsFinal
<1>3. CASE disk' = [disk EXCEPT !.credentials = credentials] /\ Goto("identity")
  <2> USE <1>1, <1>2, <1>3 DEF Goto, files, history
  <2>1. disk'.settings = disk.settings /\ disk'.identity = disk.identity
    BY DEF AccountInv, TypeOK
  <2>2. CallKnows'
    BY DEF CallKnows, Writing
  <2>3. NothingInDoubt'
    BY <2>1 DEF NothingInDoubt, SetupInv
  <2>4. StatusTruthful'
    BY DEF StatusTruthful
  <2> QED BY <2>2, <2>3, <2>4 DEF SetupInv
<1>4. CASE Doubt("credentials", "BOOTSTRAP_DURABILITY_UNCERTAIN")
  BY <1>1, <1>4, DoubtKeepsSetup DEF files
<1> QED BY <1>3, <1>4 DEF SettleCredentials

LEMMA PrepareIdentityKeepsSetup ==
    ASSUME AccountInv, SetupInv, PrepareIdentity PROVE SetupInv'
<1>1. pc = "identity" /\ Unwritten /\ ~settings.enabled
  BY DEF PrepareIdentity, AccountInv, EnabledIsFinal
<1>2. CASE Goto("activate") \/ (identity = "missing" /\ Goto("create_identity"))
  BY <1>1, <1>2, MoveKeepsSetup DEF Goto, history, Writing
<1>3. CASE Return("CORRUPT_OR_UNSUPPORTED_STATE") \/ Return("IDENTITY_FAILED")
  BY <1>1, <1>3, ReturnKeepsSetup DEF Sayable
<1> QED BY <1>2, <1>3 DEF PrepareIdentity

LEMMA CreateIdentityKeepsSetup ==
    ASSUME AccountInv, SetupInv, CreateIdentity PROVE SetupInv'
<1>1. pc = "create_identity" /\ ~settings.enabled /\ identity = "missing"
  BY DEF CreateIdentity, AccountInv, EnabledIsFinal, SetupInv, CallKnows
<1>2. CASE /\ identity' = "torn" /\ Goto("write_identity")
           /\ UNCHANGED <<settings, credentials, disk>>
  <2> USE <1>1, <1>2 DEF Goto, history
  <2>1. CallKnows' /\ StatusTruthful'
    BY DEF CallKnows, StatusTruthful, Writing
  <2>2. NothingInDoubt'
    BY DEF NothingInDoubt, SetupInv
  <2> QED BY <2>1, <2>2 DEF SetupInv
<1>3. CASE Return("IDENTITY_FAILED") /\ Unwritten
  BY <1>1, <1>3, ReturnKeepsSetup DEF Sayable
<1> QED BY <1>2, <1>3 DEF CreateIdentity

LEMMA WriteIdentityKeepsSetup ==
    ASSUME AccountInv, SetupInv, WriteIdentity PROVE SetupInv'
<1>1. /\ pc = "write_identity" /\ ~settings.enabled
      /\ UNCHANGED <<settings, credentials, disk>>
  BY DEF WriteIdentity, AccountInv, EnabledIsFinal
<1>2. CASE identity' = "unsynced" /\ Goto("settle_identity")
  <2> USE <1>1, <1>2 DEF Goto, history
  <2>1. CallKnows' /\ StatusTruthful'
    BY DEF CallKnows, StatusTruthful, Writing
  <2>2. NothingInDoubt'
    BY DEF NothingInDoubt, SetupInv
  <2> QED BY <2>1, <2>2 DEF SetupInv
<1>3. CASE identity' \in {"missing", "torn"} /\ Return("IDENTITY_FAILED")
  <2> USE <1>1, <1>3 DEF Return, Ended, history
  <2>1. CallKnows' /\ StatusTruthful'
    BY EndedTruthful DEF Sayable
  <2>2. NothingInDoubt'
    BY DEF NothingInDoubt, SetupInv
  <2> QED BY <2>1, <2>2 DEF SetupInv
<1> QED BY <1>2, <1>3 DEF WriteIdentity

LEMMA SettleIdentityKeepsSetup ==
    ASSUME AccountInv, SetupInv, SettleIdentity PROVE SetupInv'
<1>1. pc = "settle_identity" /\ ~settings.enabled /\ UNCHANGED <<settings, credentials>>
  BY DEF SettleIdentity, AccountInv, EnabledIsFinal
<1>2. CASE /\ identity' = "whole"
           /\ disk' = [disk EXCEPT !.identity = "whole"]
           /\ Goto("activate")
  <2> USE <1>1, <1>2 DEF Goto, history
  <2>1. disk'.settings = disk.settings /\ disk'.identity = "whole"
    BY DEF AccountInv, TypeOK
  <2>2. CallKnows' /\ StatusTruthful'
    BY DEF CallKnows, StatusTruthful, Writing
  <2>3. NothingInDoubt'
    BY <2>1 DEF NothingInDoubt, SetupInv
  <2> QED BY <2>2, <2>3 DEF SetupInv
<1>3. CASE Doubt("identity", "IDENTITY_DURABILITY_UNCERTAIN")
  BY <1>1, <1>3, DoubtKeepsSetup
<1> QED BY <1>2, <1>3 DEF SettleIdentity

LEMMA LoadForActivationKeepsSetup ==
    ASSUME AccountInv, SetupInv, LoadForActivation PROVE SetupInv'
<1>1. pc = "activate" /\ Unwritten /\ ~settings.enabled
  BY DEF LoadForActivation, AccountInv, EnabledIsFinal
<1>2. CASE ProfileStored /\ pc' = "authorize" /\ UNCHANGED history
  BY <1>1, <1>2, MoveKeepsSetup DEF history, Writing
<1>3. CASE \E s \in {"CORRUPT_OR_UNSUPPORTED_STATE", "PRECONDITION",
                     "INFRASTRUCTURE_OR_SERVICE_FAILED"} : Return(s)
  BY <1>1, <1>3, ReturnKeepsSetup DEF Sayable
<1> QED BY <1>2, <1>3 DEF LoadForActivation, LoadFailures

LEMMA AuthorizeKeepsSetup == ASSUME AccountInv, SetupInv, Authorize PROVE SetupInv'
<1>1. pc = "authorize" /\ Unwritten /\ ~settings.enabled
  BY DEF Authorize, AccountInv, EnabledIsFinal
<1>2. CASE pc' = "enable" /\ UNCHANGED <<uncertain, activated>>
  <2>1. uncertain = {} => ProfileStored
    BY <1>1 DEF SetupInv, NothingInDoubt
  <2>2. NothingInDoubt'
    BY <1>1, <1>2, <2>1
    DEF SetupInv, NothingInDoubt, Unwritten, files, ProfileStored
  <2>3. CallKnows' /\ StatusTruthful'
    BY <1>2 DEF CallKnows, StatusTruthful, Writing
  <2> QED BY <2>2, <2>3 DEF SetupInv
<1>3. CASE \E s \in {"AUTH_REJECTED", "INFRASTRUCTURE_OR_SERVICE_FAILED",
                     "PRECONDITION", "ACTIVATION_FAILED"} : Return(s)
  BY <1>1, <1>3, ReturnKeepsSetup DEF Sayable
<1> QED BY <1>2, <1>3 DEF Authorize, AuthorizationFailures

LEMMA EnableKeepsSetup == ASSUME AccountInv, SetupInv, Enable PROVE SetupInv'
<1>1. /\ pc = "enable" /\ ~settings.enabled
      /\ held.site \in Sites /\ held.site \notin {Missing, Corrupt}
  BY NamesAssumption DEF Enable, AccountInv, EnabledIsFinal, HeldIsStored
<1>2. CASE /\ settings' = Config(held.site, TRUE)
           /\ Goto("settle_enable")
           /\ UNCHANGED <<credentials, identity, disk>>
  <2> USE <1>1, <1>2 DEF Goto, history
  <2>1. settings'.site = held.site /\ settings'.enabled
    BY ConfigType
  <2>2. CallKnows' /\ StatusTruthful'
    BY <2>1 DEF CallKnows, StatusTruthful, Writing
  <2>3. ProfileStored => ProfileStored'
    BY <2>1 DEF ProfileStored
  <2>4. NothingInDoubt'
    BY <2>1, <2>3 DEF NothingInDoubt, SetupInv
  <2> QED BY <2>2, <2>4 DEF SetupInv
<1>3. CASE Return("ACTIVATION_SAVE_FAILED") /\ Unwritten
  BY <1>1, <1>3, ReturnKeepsSetup DEF Sayable
<1> QED BY <1>2, <1>3 DEF Enable

LEMMA SettleEnableKeepsSetup ==
    ASSUME AccountInv, SetupInv, SettleEnable PROVE SetupInv'
<1>1. pc = "settle_enable" /\ UNCHANGED files /\ settings.enabled
  BY DEF SettleEnable, SetupInv, CallKnows
<1>2. settings.site \in Sites /\ settings.site \notin {Missing, Corrupt}
  BY <1>1, ConfigType, NamesAssumption DEF AccountInv, TypeOK
<1>3. CASE disk' = [disk EXCEPT !.settings = settings] /\ Goto("profile")
  <2> USE <1>1, <1>2, <1>3 DEF Goto, files, history
  <2>1. disk'.settings = settings /\ disk'.identity = disk.identity
    BY DEF AccountInv, TypeOK
  <2>2. CallKnows' /\ StatusTruthful'
    BY DEF CallKnows, StatusTruthful, Writing
  <2>3. ProfileStored' <=> ProfileStored
    BY DEF ProfileStored
  <2>4. NothingInDoubt'
    BY <2>1, <2>3 DEF NothingInDoubt, SetupInv
  <2> QED BY <2>2, <2>4 DEF SetupInv
<1>4. CASE Doubt("settings", "ACTIVATION_DURABILITY_UNCERTAIN")
  BY <1>1, <1>4, DoubtKeepsSetup DEF files
<1> QED BY <1>3, <1>4 DEF SettleEnable

LEMMA CheckProfileKeepsSetup ==
    ASSUME AccountInv, SetupInv, CheckProfile PROVE SetupInv'
<1>1. pc = "profile" /\ Unwritten /\ settings.enabled
  BY DEF CheckProfile, SetupInv, CallKnows
<1>2. CASE /\ ProfileReady /\ Ended("ACTIVATED")
           /\ UNCHANGED <<authorized, uncertain>>
  <2>1. uncertain = {} => disk.settings.enabled
    BY <1>1 DEF SetupInv, NothingInDoubt
  <2>2. NothingInDoubt'
    BY <1>1, <1>2, <2>1
    DEF SetupInv, NothingInDoubt, Unwritten, files, Ended, ProfileStored
  <2>3. Sayable("ACTIVATED")'
    BY <1>1, <1>2 DEF Sayable, ProfileReady, ProfileStored, Unwritten, files
  <2> QED BY <1>2, <2>2, <2>3, EndedTruthful DEF SetupInv
<1>3. CASE Return("ENABLED_PROFILE_UNAVAILABLE")
  BY <1>1, <1>3, ReturnKeepsSetup DEF Sayable
<1> QED BY <1>2, <1>3 DEF CheckProfile

LEMMA WritebackKeepsSetup == ASSUME AccountInv, SetupInv, Writeback PROVE SetupInv'
<1> USE DEF Writeback, files, history
<1>1. PICK f \in DOMAIN disk : disk' = [disk EXCEPT ![f] = Stored[f]]
  OBVIOUS
<1>2. /\ disk'.settings \in {disk.settings, settings}
      /\ disk'.identity \in {disk.identity, identity}
  <2>1. f \in {"settings", "credentials", "identity"}
    BY <1>1 DEF AccountInv, TypeOK
  <2>2. CASE f = "settings"
    BY <1>1, <2>2 DEF AccountInv, TypeOK, Stored
  <2>3. CASE f = "credentials"
    BY <1>1, <2>3 DEF AccountInv, TypeOK, Stored
  <2>4. CASE f = "identity"
    BY <1>1, <2>4 DEF AccountInv, TypeOK, Stored
  <2> QED BY <2>1, <2>2, <2>3, <2>4
<1>3. (ProfileStored' <=> ProfileStored) /\ (ProfileReady' <=> ProfileReady)
  BY DEF ProfileReady, ProfileStored
<1>4. CallKnows' /\ StatusTruthful'
  BY <1>3 DEF CallKnows, StatusTruthful, SetupInv
<1>5. NothingInDoubt'
  BY <1>2, <1>3 DEF NothingInDoubt, SetupInv
<1> QED BY <1>4, <1>5 DEF SetupInv

(* With nothing in doubt, what comes back is either what was there or what   *)
(* was there before the file that was being written.                        *)
LEMMA CrashKeepsSetup == ASSUME AccountInv, SetupInv, Crash PROVE SetupInv'
<1> USE DEF Crash, Return, Ended, history
<1>1. disk'.settings = disk.settings /\ disk'.identity = identity'
  BY DEF AccountInv, TypeOK
<1>2. CallKnows' /\ StatusTruthful'
  BY DEF CallKnows, StatusTruthful, Writing
<1>3. NothingInDoubt'
  <2> SUFFICES ASSUME uncertain = {} PROVE NothingInDoubt'
    BY DEF NothingInDoubt
  <2>1. credentials' = credentials \/ pc = "settle_credentials"
    BY DEF AccountInv, CredentialsSettled
  <2>2. credentials' \in Accounts => settings'.site # Missing
    BY <2>1, NamesAssumption DEF SetupInv, NothingInDoubt, CallKnows
  <2>3. identity' # "unsynced"
    BY DEF AccountInv, TypeOK
  <2>4. settings'.enabled => ProfileStored'
    <3>1. SUFFICES ASSUME disk.settings.enabled PROVE ProfileStored'
      OBVIOUS
    <3>2. settings = disk.settings
      BY <3>1 DEF AccountInv, DiskNotAhead
    <3>3. pc \notin {"settle_credentials", "settle_identity"}
      BY <3>1, <3>2 DEF AccountInv, EnabledIsFinal
    <3>4. ProfileStored
      BY <3>1, <3>2 DEF SetupInv, NothingInDoubt
    <3>5. identity' = "whole"
      BY <3>3, <3>4 DEF SetupInv, NothingInDoubt, ProfileStored
    <3> QED BY <2>1, <3>2, <3>3, <3>4, <3>5 DEF ProfileStored
  <2>5. activated => settings'.enabled
    BY DEF SetupInv, NothingInDoubt
  <2> QED BY <1>1, <2>2, <2>3, <2>4, <2>5 DEF NothingInDoubt
<1> QED BY <1>2, <1>3 DEF SetupInv

LEMMA NextSetup == AccountInv /\ SetupInv /\ [Next]_vars => SetupInv'
<1> SUFFICES ASSUME AccountInv, SetupInv, [Next]_vars PROVE SetupInv'
  OBVIOUS
<1>1. CASE User
  BY <1>1, UserKeepsSetup
<1>2. CASE Observe \/ Bootstrap
  BY <1>2, ObserveKeepsSetup, BootstrapKeepsSetup
<1>3. CASE SaveSettings \/ SettleSettings \/ SaveCredentials \/ SettleCredentials
  BY <1>3, SaveSettingsKeepsSetup, SettleSettingsKeepsSetup,
     SaveCredentialsKeepsSetup, SettleCredentialsKeepsSetup
<1>4. CASE PrepareIdentity \/ CreateIdentity \/ WriteIdentity \/ SettleIdentity
  BY <1>4, PrepareIdentityKeepsSetup, CreateIdentityKeepsSetup,
     WriteIdentityKeepsSetup, SettleIdentityKeepsSetup
<1>5. CASE LoadForActivation \/ Authorize \/ Enable \/ SettleEnable \/ CheckProfile
  BY <1>5, LoadForActivationKeepsSetup, AuthorizeKeepsSetup, EnableKeepsSetup,
     SettleEnableKeepsSetup, CheckProfileKeepsSetup
<1>6. CASE Writeback \/ Crash
  BY <1>6, WritebackKeepsSetup, CrashKeepsSetup
<1>7. CASE UNCHANGED vars
  <2>1. (ProfileStored' <=> ProfileStored) /\ (ProfileReady' <=> ProfileReady)
    BY <1>7 DEF vars, files, ProfileReady, ProfileStored
  <2>2. CallKnows' /\ StatusTruthful'
    BY <1>7, <2>1 DEF vars, files, CallKnows, StatusTruthful, SetupInv
  <2>3. NothingInDoubt'
    BY <1>7, <2>1 DEF vars, files, history, NothingInDoubt, SetupInv
  <2> QED BY <2>2, <2>3 DEF SetupInv
<1> QED BY <1>1, <1>2, <1>3, <1>4, <1>5, <1>6, <1>7 DEF Next, CallStep

(* What a call has found or made, what it says, and what the disk holds as  *)
(* long as no save was in doubt: inductive on top of AccountInv.            *)
THEOREM SetupInvariant == Spec => []SetupInv
<1> QED BY InitSetup, NextSetup, AccountInvariant, PTL DEF Spec

(* No interruption of a setup whose saves were all known to be durable      *)
(* leaves orphaned credentials or an enabled account without a profile:     *)
(* cn_account_bootstrap saves settings before credentials.                  *)
THEOREM NoDeadEnds == Spec => []NoDeadEnd
<1>1. AccountInv /\ SetupInv => NoDeadEnd
  <2> SUFFICES ASSUME AccountInv, SetupInv, pc = "idle", uncertain = {}
               PROVE  /\ LocalState # "ORPHAN_CREDENTIALS"
                      /\ LocalState = "ENABLED" => ProfileReady
    BY DEF NoDeadEnd
  <2>1. LocalState # "ORPHAN_CREDENTIALS"
    BY DEF LocalState, AccountInv, TypeOK, CredentialsFile, SetupInv, NothingInDoubt
  <2>2. LocalState = "ENABLED" => ProfileReady
    BY DEF LocalState, ProfileReady, SetupInv, NothingInDoubt
  <2> QED BY <2>1, <2>2
<1> QED BY <1>1, AccountInvariant, SetupInvariant, PTL

(* After ACTIVATED the profile stays ready, power losses included, unless a *)
(* file it consists of was reported as DURABILITY_UNCERTAIN.                *)
THEOREM ReadyAfterActivated == Spec => []ActivatedStaysReady
<1>1. SetupInv => ActivatedStaysReady
  BY DEF SetupInv, NothingInDoubt, ActivatedStaysReady, ProfileReady
<1> QED BY <1>1, SetupInvariant, PTL

(* What the user is told agrees with what is stored. *)
THEOREM ToldTheTruth == Spec => []StatusTruthful
<1>1. SetupInv => StatusTruthful
  BY DEF SetupInv
<1> QED BY <1>1, SetupInvariant, PTL

(* No sequence of calls overwrites a damaged file, changes an enabled       *)
(* account or replaces an identity; only a power loss takes back what had   *)
(* not reached the disk.                                                    *)
THEOREM DamagedAndEnabledKept == Spec => NeverOverwrites
<1> DEFINE Kept ==
        /\ settings.site = Corrupt \/ settings.enabled => settings' = settings \/ Crash
        /\ credentials = Corrupt \/ settings.enabled =>
               credentials' = credentials \/ Crash
        /\ identity \in {"unsynced", "whole"} =>
               identity' \in {"unsynced", "whole"} \/ Crash
<1>1. ASSUME AccountInv, SetupInv, [Next]_vars PROVE Kept
  <2>1. CASE UNCHANGED files
    BY <2>1 DEF files
  <2>2. CASE Crash
    BY <2>2
  <2>3. CASE SaveSettings \/ SaveCredentials
    <3>1. settings.site # Corrupt /\ credentials # Corrupt /\ ~settings.enabled
      BY <1>1, <2>3 DEF SaveSettings, SaveCredentials, AccountInv, EnabledIsFinal,
                  SetupInv, CallKnows, Writing
    <3>2. UNCHANGED identity
      BY <2>3 DEF SaveSettings, SaveCredentials, Unwritten, files
    <3> QED BY <3>1, <3>2
  <2>4. CASE Enable
    <3>1. ~settings.enabled /\ settings.site # Corrupt
      BY <1>1, <2>4, NamesAssumption DEF Enable, AccountInv, EnabledIsFinal, HeldIsStored
    <3>2. UNCHANGED <<credentials, identity>>
      BY <2>4 DEF Enable, Unwritten, files
    <3> QED BY <3>1, <3>2
  <2>5. CASE CreateIdentity \/ WriteIdentity \/ SettleIdentity
    <3>1. UNCHANGED <<settings, credentials>>
      BY <2>5 DEF CreateIdentity, WriteIdentity, SettleIdentity, Unwritten, files
    <3>2. \/ identity \in {"missing", "torn"} \/ identity' = identity
          \/ identity' \in {"unsynced", "whole"}
      BY <1>1, <2>5 DEF CreateIdentity, WriteIdentity, SettleIdentity, SetupInv, CallKnows
    <3> QED BY <3>1, <3>2
  <2>6. User \/ Observe \/ Bootstrap \/ SettleSettings \/ SettleCredentials
        \/ PrepareIdentity \/ LoadForActivation \/ Authorize \/ SettleEnable
        \/ CheckProfile \/ Writeback \/ UNCHANGED vars
        => UNCHANGED files
    BY DEF User, Submit, ActivateOrInspect, Begin, Observe, Bootstrap, SettleSettings,
           SettleCredentials, PrepareIdentity, LoadForActivation, Authorize,
           SettleEnable, CheckProfile, Writeback, Unwritten, vars
  <2> QED BY <1>1, <2>1, <2>2, <2>3, <2>4, <2>5, <2>6 DEF Next, CallStep
<1> QED BY <1>1, AccountInvariant, SetupInvariant, PTL DEF Spec, NeverOverwrites

=============================================================================
