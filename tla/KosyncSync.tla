----------------------------- MODULE KosyncSync -----------------------------
(***************************************************************************)
(* The three one-shot operations on the progress of one book: normal sync  *)
(* (cn_sync_current_book / cn_kosync_sync_once), explicit push of the      *)
(* local position (cn_sync_push_local_current_book) and explicit pull of   *)
(* the remote one (cn_sync_pull_remote_current_book).                      *)
(*                                                                         *)
(* Every blocking call is a step of its own, so that other devices, the    *)
(* server and a power loss can come in between.  The device itself is      *)
(* single threaded: the reader writes the local record only while no       *)
(* operation runs.                                                         *)
(***************************************************************************)
EXTENDS NetExchange, TLC

CONSTANT XPointers  \* positions the local store accepts: they start with '/'

ASSUME XPointersAssumption == XPointers \subseteq Positions
ASSUME OpsAssumption == Ops \subseteq Nat \ {0}
ASSUME UnansweredAssumption == "unanswered" \notin Positions \cup {NoRecord}

VARIABLES
    settings,   \* the persisted settings file: missing, disabled or enabled
    local,      \* the persisted progress record of the book
    pc,         \* where the running operation is
    op,         \* its number and kind
    loaded,     \* the local record it read
    fetched,    \* the remote position it fetched
    res,        \* cn_kosync_sync_result and its push and pull counterparts
    product,    \* what the last finished operation returned
    reported    \* history: the evidence each finished operation returned

opVars == <<pc, op, loaded, fetched, res, product, reported>>
vars == <<netVars, settings, local, opVars>>

Kinds == {"sync", "push", "pull"}

PCs == {"idle", "settings", "credentials", "config", "identity", "load",
        "time", "dns", "tls", "get", "getting", "decide", "save", "upload",
        "put", "putting", "classify"}

(* progress_10000 matters only by being known (>= 0) or not (-1). *)
Records == [pos : XPointers, progress : {"known", "unknown"}]
Stored == Records \cup {NoRecord}
ASSUME StoredAssumption == NoRecord \notin Records

Flag == {0, 1}

Results ==
    [status : SyncStatuses, decision : Decisions,
     local_present : Flag, remote_present : Flag,
     local_save_attempted : Flag, remote_put_attempted : Flag,
     local_saved : Flag, remote_uploaded : Flag,
     time : TimeFailures \cup {"OK"}, dns : DnsFailures \cup {"OK"},
     kosync : KosyncResults, transport : Transports, http : HttpStatuses]

cn_kosync_sync_result_init ==
    [status |-> "INVALID", decision |-> "NONE",
     local_present |-> 0, remote_present |-> 0,
     local_save_attempted |-> 0, remote_put_attempted |-> 0,
     local_saved |-> 0, remote_uploaded |-> 0,
     time |-> "INVALID", dns |-> "INVALID",
     kosync |-> "INVALID", transport |-> "INVALID", http |-> "0"]

Outcomes ==
    {"DISABLED", "UNCHANGED", "UPLOADED", "IMPORTED", "NO_STATE", "CONFLICT",
     "AUTH_REQUIRED", "TRUSTED_TIME_UNAVAILABLE", "CONNECTIVITY_FAILURE",
     "SECURITY_FAILURE", "SERVICE_FAILURE", "LOCAL_UNSUPPORTED",
     "LOCAL_FAILURE", "CONFIGURATION_FAILURE", "INTERNAL_FAILURE",
     "LOCAL_MISSING", "REMOTE_MISSING", "PERSISTED"}

Products == [outcome : Outcomes, retry : Retries,
             local_mutation : Mutations, remote_mutation : Mutations]

NoProduct == Report(Verdict("INTERNAL_FAILURE", "EXPLICIT_ACTION"),
                    "NONE", "NONE")

Evidence == [local : Mutations, remote : Mutations]

Unreported == [local |-> "unreported", remote |-> "unreported"]

Init ==
    /\ NetInit
    /\ settings \in {"missing", "disabled", "enabled"}
    /\ local \in Stored
    /\ pc = "idle"
    /\ op = [no |-> 0, kind |-> "sync"]
    /\ loaded = NoRecord
    /\ fetched = NoRecord
    /\ res = cn_kosync_sync_result_init
    /\ product = NoProduct
    /\ reported = [n \in Ops |-> Unreported]

-----------------------------------------------------------------------------
(* The shape of an operation: go on at p, end with a status, or return a    *)
(* report to the caller.                                                    *)

Goto(p) == pc' = p

EndWith(r) == res' = r /\ Goto("classify")

End(status) == EndWith([res EXCEPT !.status = status])

Cleared ==
    /\ loaded' = NoRecord /\ fetched' = NoRecord
    /\ res' = cn_kosync_sync_result_init

Return(report) ==
    /\ product' = report
    /\ reported' = [reported EXCEPT ![op.no] =
           [local |-> report.local_mutation, remote |-> report.remote_mutation]]
    /\ Goto("idle")
    /\ Cleared
    /\ UNCHANGED op

Quiet == UNCHANGED <<netVars, settings, local>>
Running == UNCHANGED <<op, product, reported>>

map_kosync(k) ==
    CASE k = "AUTH_FAILED" -> "AUTH_FAILED"
      [] k = "TRANSPORT_ERROR" -> "HTTPS_FAILED"
      [] k \in {"HTTP_ERROR", "BAD_JSON", "BAD_PROTOCOL"} -> "PROTOCOL_FAILED"
      [] k = "NO_MEMORY" -> "NO_MEMORY"
      [] OTHER -> "INVALID"

(* One operation at a time, each with a number of its own. *)
Start(n, k) ==
    /\ pc = "idle"
    /\ n = op.no + 1
    /\ op' = [no |-> n, kind |-> k]
    /\ product' = NoProduct
    /\ Goto("settings")
    /\ UNCHANGED <<loaded, fetched, res, reported>>
    /\ Quiet

(***************************************************************************)
(* Preflight: the controllers resolve settings, credentials and runtime    *)
(* configuration before the integration runs.  Sync, push and pull have a  *)
(* controller each; the three go the same way, op.kind says which it is.   *)
(***************************************************************************)
preflight_failure(outcome) ==
    Return(Report(Verdict(outcome, "EXPLICIT_ACTION"), "NONE", "NONE"))

Pass(p) == Goto(p) /\ UNCHANGED <<op, loaded, fetched, res, product, reported>>

(* Mutant: a settings file is enough, the enabled flag is not looked at. *)
LoadSettings_ignores_enabled ==
    /\ pc = "settings"
    /\ \/ settings # "missing" /\ Pass("credentials")
       \/ /\ settings = "missing"
          /\ Return(Report(Verdict("DISABLED", "NONE"), "NONE", "NONE"))
       \/ preflight_failure("CONFIGURATION_FAILURE")
    /\ Quiet

LoadSettings ==
    /\ pc = "settings"
    /\ \/ settings = "enabled" /\ Pass("credentials")
       \/ /\ settings # "enabled"
          /\ Return(Report(Verdict("DISABLED", "NONE"), "NONE", "NONE"))
       \/ preflight_failure("CONFIGURATION_FAILURE")
    /\ Quiet

LoadCredentials ==
    /\ pc = "credentials"
    /\ \/ Pass("config")
       \/ \E o \in {"AUTH_REQUIRED", "CONFIGURATION_FAILURE",
                    "LOCAL_FAILURE"} : preflight_failure(o)
    /\ Quiet

(* cn_settings_validate, the runtime configuration and cn_kosync_client_init *)
ResolveConfig ==
    /\ pc = "config"
    /\ Pass("identity") \/ preflight_failure("CONFIGURATION_FAILURE")
    /\ Quiet

(***************************************************************************)
(* The integration: identity, local record, time, DNS, TLS client.         *)
(***************************************************************************)
Identify ==
    /\ pc = "identity"
    /\ \/ Goto(IF op.kind = "pull" THEN "time" ELSE "load") /\ UNCHANGED res
       \/ End("IDENTITY_FAILED")
    /\ UNCHANGED <<loaded, fetched>> /\ Running /\ Quiet

LoadFails ==
    /\ pc = "load"
    /\ \E s \in {"LOCAL_FAILED", "NO_MEMORY"} : End(s)
    /\ UNCHANGED <<loaded, fetched>> /\ Running /\ Quiet

LoadForSync ==
    /\ pc = "load" /\ op.kind = "sync"
    /\ loaded' = local
    /\ res' = [res EXCEPT !.local_present = IF local = NoRecord THEN 0 ELSE 1]
    /\ Goto("time")
    /\ UNCHANGED fetched /\ Running /\ Quiet

(* Push converts the record before any network activity: an unknown         *)
(* progress is refused, cn_kosync_progress_set may reject the fields.       *)
LoadForPush ==
    /\ pc = "load" /\ op.kind = "push"
    /\ loaded' = local
    /\ \/ local = NoRecord /\ End("LOCAL_MISSING")
       \/ local # NoRecord /\ local.progress = "unknown" /\ End("LOCAL_UNSUPPORTED")
       \/ local # NoRecord /\ local.progress = "known"
          /\ \E k \in {"INVALID", "NO_MEMORY"} :
                EndWith([res EXCEPT !.kosync = k, !.status = map_kosync(k)])
       \/ local # NoRecord /\ local.progress = "known"
          /\ res' = [res EXCEPT !.kosync = "OK"] /\ Goto("time")
    /\ UNCHANGED fetched /\ Running /\ Quiet

EstablishTime ==
    /\ pc = "time"
    /\ \/ res' = [res EXCEPT !.time = "OK"] /\ Goto("dns")
       \/ \E t \in TimeFailures :
             EndWith([res EXCEPT !.time = t, !.status = "TRUSTED_TIME_FAILED"])
    /\ UNCHANGED <<loaded, fetched>> /\ Running /\ Quiet

ResolveHost ==
    /\ pc = "dns"
    /\ \/ res' = [res EXCEPT !.dns = "OK"] /\ Goto("tls")
       \/ \E d \in DnsFailures :
             EndWith([res EXCEPT !.dns = d, !.status = "DNS_FAILED"])
    /\ UNCHANGED <<loaded, fetched>> /\ Running /\ Quiet

cn_kosync_client_set_tls ==
    /\ pc = "tls"
    /\ \/ /\ res' = [res EXCEPT !.kosync = "OK"]
          /\ Goto(IF op.kind = "push" THEN "put" ELSE "get")
       \/ EndWith([res EXCEPT !.kosync = "INVALID", !.status = "INVALID"])
    /\ UNCHANGED <<loaded, fetched>> /\ Running /\ Quiet

(***************************************************************************)
(* GET: cn_kosync_get_progress.                                            *)
(***************************************************************************)
CallGet ==
    /\ pc = "get"
    /\ StartExchange([op |-> op.no, method |-> "GET", pos |-> NoRecord])
    /\ Goto("getting")
    /\ UNCHANGED <<res, loaded, fetched, settings, local>> /\ Running

(* Failures before the exchange: init_outcome() has reset the outcome. *)
EndKosync(k) ==
    EndWith([res EXCEPT !.kosync = k, !.status = map_kosync(k),
                        !.transport = "INVALID", !.http = "0"])

GetFailsEarly ==
    /\ pc = "get"
    /\ \E k \in {"INVALID", "NO_MEMORY"} : EndKosync(k)
    /\ UNCHANGED <<loaded, fetched>> /\ Running /\ Quiet

map_response(n) ==
    IF n.result # "OK" THEN "TRANSPORT_ERROR"
    ELSE CASE n.reply.http = "401" -> "AUTH_FAILED"
           [] n.reply.http = "200" -> "OK"
           [] OTHER -> "HTTP_ERROR"

HttpOf(n) == IF n.result = "OK" THEN n.reply.http ELSE "0"

(* Mutant: a record with missing or ill-typed fields counts as no record. *)
ParseProgress_lenient(body) ==
    CASE body = "record" -> "OK"
      [] body \in {"empty", "bad_protocol"} -> "NOT_FOUND"
      [] body = "bad_json" -> "BAD_JSON"
      [] OTHER -> "BAD_PROTOCOL"

(* cn_kosync_parse_progress: an object with none of the known fields is how *)
(* a KOSync server says that it has no record.                              *)
ParseProgress(body) ==
    CASE body = "record" -> "OK"
      [] body = "empty" -> "NOT_FOUND"
      [] body = "bad_json" -> "BAD_JSON"
      [] OTHER -> "BAD_PROTOCOL"

GetResults(n) ==
    IF map_response(n) # "OK" THEN {map_response(n)}
    ELSE {ParseProgress(n.reply.body), "NO_MEMORY"}

WithOutcome(k) == [res EXCEPT !.kosync = k, !.transport = net.result,
                              !.http = HttpOf(net)]

GetSucceeds(k) ==
    \/ /\ k = "OK"
       /\ fetched' = net.reply.pos
       /\ res' = [WithOutcome(k) EXCEPT !.remote_present = 1]
    \/ /\ k = "NOT_FOUND"
       /\ fetched' = NoRecord
       /\ res' = WithOutcome(k)

GetReturns ==
    /\ pc = "getting" /\ net.phase = "done"
    /\ \E k \in GetResults(net) :
          \/ GetSucceeds(k) /\ Goto("decide")
          \/ /\ k \notin {"OK", "NOT_FOUND"}
             /\ EndWith([WithOutcome(k) EXCEPT !.status = map_kosync(k)])
             /\ UNCHANGED fetched
    /\ net' = Idle /\ OnlyNet
    /\ UNCHANGED <<loaded, settings, local>> /\ Running

(***************************************************************************)
(* The decision table of cn_kosync_sync_once, and pull's short one.        *)
(***************************************************************************)
(* Mutants: two present records are equal; the remote one always wins. *)
Decision_presence_only ==
    IF loaded = NoRecord
    THEN IF fetched = NoRecord THEN "NO_STATE" ELSE "REMOTE_SELECTED"
    ELSE IF fetched = NoRecord THEN "LOCAL_SELECTED" ELSE "NO_CHANGE"

Decision_remote_wins ==
    IF fetched # NoRecord THEN "REMOTE_SELECTED"
    ELSE IF loaded = NoRecord THEN "NO_STATE" ELSE "LOCAL_SELECTED"

Decision ==
    IF loaded = NoRecord
    THEN IF fetched = NoRecord THEN "NO_STATE" ELSE "REMOTE_SELECTED"
    ELSE IF fetched = NoRecord THEN "LOCAL_SELECTED"
    ELSE IF loaded.pos = fetched THEN "NO_CHANGE" ELSE "AMBIGUOUS"

DecideSync ==
    /\ pc = "decide" /\ op.kind = "sync"
    /\ res' = [res EXCEPT !.decision = Decision,
                          !.status = IF Decision \in {"NO_STATE", "NO_CHANGE",
                                                      "AMBIGUOUS"}
                                     THEN "OK" ELSE @]
    /\ Goto(CASE Decision = "REMOTE_SELECTED" -> "save"
              [] Decision = "LOCAL_SELECTED" -> "upload"
              [] OTHER -> "classify")
    /\ UNCHANGED <<loaded, fetched>> /\ Running /\ Quiet

DecidePull ==
    /\ pc = "decide" /\ op.kind = "pull"
    /\ \/ fetched = NoRecord /\ End("REMOTE_MISSING")
       \/ fetched # NoRecord /\ Goto("save") /\ UNCHANGED res
    /\ UNCHANGED <<loaded, fetched>> /\ Running /\ Quiet

(* cn_progress_store_save replaces the record atomically; it fails only     *)
(* before the rename, and always for a position that is not an XPointer.    *)
SaveRemote ==
    /\ pc = "save" /\ fetched \in XPointers
    /\ local' = [pos |-> fetched, progress |-> "known"]
    /\ EndWith([res EXCEPT !.local_save_attempted = 1, !.local_saved = 1,
                           !.status = IF op.kind = "pull"
                                      THEN "PERSISTED" ELSE "OK"])
    /\ UNCHANGED <<netVars, settings, loaded, fetched>> /\ Running

SaveFails ==
    /\ pc = "save"
    /\ \E s \in {"LOCAL_FAILED", "NO_MEMORY"} :
          /\ s = "NO_MEMORY" => op.kind = "sync" /\ fetched \in XPointers
          /\ EndWith([res EXCEPT !.local_save_attempted = 1, !.status = s])
    /\ UNCHANGED <<loaded, fetched>> /\ Running /\ Quiet

(***************************************************************************)
(* PUT: cn_kosync_put_progress.                                            *)
(***************************************************************************)
PrepareUpload ==
    /\ pc = "upload"
    /\ \/ loaded.progress = "unknown" /\ End("LOCAL_UNSUPPORTED")
       \/ /\ loaded.progress = "known"
          /\ \E k \in {"INVALID", "NO_MEMORY"} :
                EndWith([res EXCEPT !.kosync = k, !.status = map_kosync(k)])
       \/ /\ loaded.progress = "known"
          /\ res' = [res EXCEPT !.kosync = "OK"]
          /\ Goto("put")
    /\ UNCHANGED <<loaded, fetched>> /\ Running /\ Quiet

(* Mutant: the attempt is not recorded before the request goes out. *)
CallPut_unrecorded ==
    /\ pc = "put"
    /\ StartExchange([op |-> op.no, method |-> "PUT", pos |-> loaded.pos])
    /\ Goto("putting")
    /\ UNCHANGED <<res, loaded, fetched, settings, local>> /\ Running

CallPut ==
    /\ pc = "put"
    /\ res' = [res EXCEPT !.remote_put_attempted = 1]
    /\ StartExchange([op |-> op.no, method |-> "PUT", pos |-> loaded.pos])
    /\ Goto("putting")
    /\ UNCHANGED <<loaded, fetched, settings, local>> /\ Running

PutFailsEarly ==
    /\ pc = "put"
    /\ \E k \in {"INVALID", "NO_MEMORY"} :
          EndWith([res EXCEPT !.remote_put_attempted = 1, !.kosync = k,
                              !.status = map_kosync(k),
                              !.transport = "INVALID", !.http = "0"])
    /\ UNCHANGED <<loaded, fetched>> /\ Running /\ Quiet

(* The acknowledgement must carry our document id and a timestamp. *)
ParseAck(body) ==
    CASE body = "ack" -> "OK"
      [] body = "bad_json" -> "BAD_JSON"
      [] OTHER -> "BAD_PROTOCOL"

PutResults(n) ==
    IF map_response(n) # "OK" THEN {map_response(n)}
    ELSE {ParseAck(n.reply.body), "NO_MEMORY"}

PutReturns ==
    /\ pc = "putting" /\ net.phase = "done"
    /\ \E k \in PutResults(net) :
          \/ /\ k = "OK"
             /\ EndWith([WithOutcome(k) EXCEPT
                            !.remote_uploaded = 1,
                            !.status = IF op.kind = "push"
                                       THEN "UPLOADED" ELSE "OK"])
          \/ /\ k # "OK"
             /\ EndWith([WithOutcome(k) EXCEPT !.status = map_kosync(k)])
    /\ net' = Idle /\ OnlyNet
    /\ UNCHANGED <<loaded, fetched, settings, local>> /\ Running

-----------------------------------------------------------------------------
(* Back in the controller: classify, clear, return. *)
ProductOf(kind, r) ==
    CASE kind = "sync" -> cn_kosync_policy_classify(r)
      [] kind = "push" -> classify_push(r)
      [] OTHER -> classify_pull(r)

Classify ==
    /\ pc = "classify"
    /\ Return(ProductOf(op.kind, res))
    /\ Quiet

(* The battery runs out: the process and its connection are gone, files and *)
(* requests on the wire are not.                                            *)
PowerLoss ==
    /\ pc # "idle"
    /\ Goto("idle")
    /\ Cleared
    /\ net' = Idle /\ OnlyNet
    /\ UNCHANGED <<settings, local, op, product, reported>>

(* Between operations: the reader saves its position, the account setup     *)
(* writes the settings file.                                                *)
ReaderSaves ==
    /\ pc = "idle"
    /\ local' \in Records
    /\ UNCHANGED <<netVars, settings, opVars>>

SettingsChange ==
    /\ pc = "idle"
    /\ settings' \in {"disabled", "enabled"}
    /\ UNCHANGED <<netVars, local, opVars>>

-----------------------------------------------------------------------------
NetworkStep == ExchangeStep /\ UNCHANGED <<settings, local, opVars>>

Environment ==
    \/ (ServerStep \/ OtherDevicePuts) /\ UNCHANGED <<settings, local, opVars>>
    \/ ReaderSaves
    \/ SettingsChange
    \/ PowerLoss

OperationStep ==
    \/ LoadSettings \/ LoadCredentials \/ ResolveConfig
    \/ Identify \/ LoadFails \/ LoadForSync \/ LoadForPush
    \/ EstablishTime \/ ResolveHost \/ cn_kosync_client_set_tls
    \/ CallGet \/ GetFailsEarly \/ GetReturns
    \/ DecideSync \/ DecidePull \/ SaveRemote \/ SaveFails
    \/ PrepareUpload \/ CallPut \/ PutFailsEarly \/ PutReturns
    \/ Classify

Begin == \E n \in Ops, k \in Kinds : Start(n, k)

Next == Begin \/ OperationStep \/ NetworkStep \/ Environment

Spec == Init /\ [][Next]_vars

(* Every call of the device is bounded by a deadline: once started, an      *)
(* operation keeps running.  Nothing is assumed of the server.              *)
FairSpec == Spec /\ WF_vars(OperationStep) /\ WF_vars(NetworkStep)

-----------------------------------------------------------------------------
TypeOK ==
    /\ NetTypeOK
    /\ settings \in {"missing", "disabled", "enabled"}
    /\ local \in Stored
    /\ pc \in PCs
    /\ op \in [no : Ops \cup {0}, kind : Kinds]
    /\ loaded \in Stored
    /\ fetched \in Positions \cup {NoRecord}
    /\ res \in Results
    /\ product \in Products
    /\ reported \in [Ops -> Evidence \cup {Unreported}]

(* Evidence soundness (kosync_policy.c remote_mutation, kosync_push.c        *)
(* proven_pre_send): an operation that returned remote NONE has not changed  *)
(* the server and never will, although the request of an operation that gave *)
(* up may still be on the wire; one that returned CONFIRMED did change it.   *)
RemoteEvidenceSound ==
    \A n \in Ops :
        /\ reported[n].remote = "NONE" =>
               /\ applied[n] = NoRecord
               /\ \A r \in wire : r.op = n => r.method = "GET"
        /\ reported[n].remote = "CONFIRMED" => applied[n] # NoRecord

(* Normal sync never uploads over a record its own GET could have shown it   *)
(* (the decision table of cn_kosync_sync_once): when it starts a PUT the     *)
(* server has really answered, to this operation, that it stores nothing.    *)
(* A pull never uploads.                                                     *)
UploadOnlyOverNothing ==
    pc \in {"upload", "put", "putting"} =>
        /\ op.kind = "sync" => answered[op.no] = NoRecord
        /\ op.kind # "pull"

(* The outcome shown to the user is true of the two records it is about:     *)
(* the local one, and the remote one as the server stored it when it served  *)
(* the GET (or took the PUT) of this very operation.                         *)
OutcomeTruthful ==
    pc = "classify" =>
        LET o == ProductOf(op.kind, res).outcome
            remote == answered[op.no]
        IN  /\ o = "UNCHANGED" => local # NoRecord /\ local.pos = remote
            /\ o = "CONFLICT" => /\ local # NoRecord /\ local.pos # remote
                                 /\ remote \in Positions
            /\ o = "NO_STATE" => local = NoRecord /\ remote = NoRecord
            /\ o \in {"IMPORTED", "PERSISTED"} =>
                   local # NoRecord /\ local.pos = remote
            /\ o = "REMOTE_MISSING" => remote = NoRecord
            /\ o = "UPLOADED" => local # NoRecord /\ applied[op.no] = local.pos

(* The only running operations that replace the local record are a pull and  *)
(* a sync that found none; what they store is what the server stored when it *)
(* served their GET, and they report it as saved.                            *)
LocalWriteIsAnImport ==
    [][pc # "idle" /\ local' # local =>
          /\ op.kind = "pull" \/ (op.kind = "sync" /\ local = NoRecord)
          /\ local'.pos = answered[op.no]
          /\ res'.local_saved = 1]_vars

(* No network activity on behalf of an account that is not enabled, and a    *)
(* push contacts nobody before its local record is known to be uploadable.   *)
NetworkOnlyWhenAllowed ==
    pc \in {"time", "dns", "tls", "get", "getting", "put", "putting"} =>
        /\ settings = "enabled"
        /\ op.kind = "push" => loaded # NoRecord /\ loaded.progress = "known"

(* The classifier's defensive branch, which would wipe the evidence of a     *)
(* mutation that did happen, is never taken for a result that the            *)
(* integration can produce.                                                  *)
NeverFailsClosed ==
    pc = "classify" /\ op.kind = "sync" => ~Inconsistent(res)

(* The inductive strengthening of RemoteEvidenceSound.  Sent(n) says that    *)
(* the PUT of operation n is with the server: applied, or still on the wire. *)
Puts(n) == {r \in wire : r.op = n /\ r.method = "PUT"}
Sent(n) == applied[n] # NoRecord \/ Puts(n) # {}

(* A number is used once: later operations have left no trace yet, and the   *)
(* running one has reported nothing. *)
NumbersFresh ==
    /\ \A n \in Ops : n > op.no =>
          ~Sent(n) /\ reported[n] = Unreported
    /\ pc # "idle" => op.no \in Ops /\ reported[op.no] = Unreported

(* A PUT is on the wire once, and not after it was applied. *)
PutHandledOnce ==
    \A r \in wire : r.method = "PUT" =>
        /\ r.pos \in Positions
        /\ applied[r.op] = NoRecord
        /\ \A q \in wire : q.method = "PUT" /\ q.op = r.op => q = r

(* The exchange belongs to the call the operation is blocked in. *)
ExchangeBelongsToCall ==
    /\ net.phase = "idle" <=> pc \notin {"getting", "putting"}
    /\ net.phase # "idle" =>
          /\ net.req.op = op.no
          /\ net.req.method = IF pc = "putting" THEN "PUT" ELSE "GET"
          /\ pc = "putting" => net.req.pos \in Positions
    /\ net.reply.body = "record" => net.reply.pos \in Positions

(* What the progress of a PUT proves, phase by phase. *)
PutProgress ==
    /\ pc \notin {"idle", "putting", "classify"} => ~Sent(op.no)
    /\ pc = "putting" =>
          /\ net.phase \in {"request", "connect", "open", "send"} =>
                 ~Sent(op.no) /\ net.reply = NoReply
          /\ net.phase = "done" /\ net.result \in transport_is_pre_put =>
                 ~Sent(op.no)
          /\ net.phase = "done" /\ net.result = "OK" => net.reply # NoReply
          /\ net.reply.http = "401" => ~Sent(op.no)
          /\ net.reply.body = "ack" => applied[op.no] # NoRecord
          /\ Puts(op.no) \subseteq {net.req}
    /\ pc = "classify" =>
          LET m == ProductOf(op.kind, res).remote_mutation IN
          /\ m = "NONE" => ~Sent(op.no)
          /\ m = "CONFIRMED" => applied[op.no] # NoRecord

(* The flags of the result before the step that sets them. *)
ResultFlags ==
    /\ pc # "classify" => res.remote_uploaded = 0 /\ res.local_save_attempted = 0
                          /\ res.local_saved = 0
    /\ pc \notin {"putting", "classify"} => res.remote_put_attempted = 0
    /\ pc = "putting" => res.remote_put_attempted = 1
    /\ op.kind = "sync" /\ pc \in {"time", "dns", "tls", "get", "getting"} =>
          (res.local_present = 1 <=> loaded # NoRecord) /\ res.remote_present = 0
    /\ op.kind = "sync" /\ pc = "decide" =>
          /\ (res.local_present = 1 <=> loaded # NoRecord)
          /\ (res.remote_present = 1 <=> fetched # NoRecord)
    /\ op.kind = "sync" /\ pc \in {"upload", "put", "putting"} =>
          /\ res.decision = "LOCAL_SELECTED"
          /\ res.local_present = 1 /\ res.remote_present = 0
    /\ pc \in {"upload", "put", "putting"} =>
          loaded # NoRecord /\ op.kind # "pull"
    /\ op.kind = "push" /\ pc \in {"time", "dns", "tls"} => loaded # NoRecord
    /\ op.kind # "push" \/ pc \notin {"get", "getting", "decide", "save", "upload"}
    /\ op.kind # "pull" \/ pc \notin {"load", "upload", "put", "putting"}
    /\ pc \in {"idle", "settings", "credentials", "config", "identity", "load"} =>
          res.remote_present = 0

EvidenceInv ==
    /\ TypeOK
    /\ RemoteEvidenceSound
    /\ NumbersFresh
    /\ PutHandledOnce
    /\ ExchangeBelongsToCall
    /\ PutProgress
    /\ ResultFlags

(* The inductive strengthening of the properties about what an operation     *)
(* does with the two records.  Gets(n): GETs of operation n on the wire.     *)
Gets(n) == {r \in wire : r.op = n /\ r.method = "GET"}

(* Nothing is answered twice: after its GET has returned an answer, an       *)
(* operation has no request left that could still change answered[op.no].    *)
AnswerFinal ==
    /\ \A n \in Ops : n > op.no => Gets(n) = {}
    /\ pc \notin {"idle", "getting", "classify"} => Gets(op.no) = {}
    /\ pc = "getting" =>
          /\ Gets(op.no) \subseteq {net.req}
          /\ net.phase \in {"request", "connect", "open", "send"} =>
                 Gets(op.no) = {} /\ net.reply = NoReply
          /\ net.reply # NoReply => Gets(op.no) = {}
          /\ net.phase = "done" /\ net.result = "OK" => net.reply # NoReply
          /\ net.reply.body = "record" => answered[op.no] = net.reply.pos
          /\ net.reply.body = "empty" => answered[op.no] = NoRecord

(* The settings and the local record are those the operation has read.       *)
ReadsStillHold ==
    /\ pc \notin {"idle", "settings", "classify"} => settings = "enabled"
    /\ /\ op.kind # "pull"
       /\ pc \notin {"idle", "settings", "credentials", "config", "identity",
                     "load", "classify"}
       => loaded = local
    /\ op.kind = "push" /\ pc \in {"time", "dns", "tls", "put", "putting"} =>
          loaded # NoRecord /\ loaded.progress = "known"

(* What was fetched is the answer, and the way taken is the one it calls for;*)
(* what is uploaded is the local record.                                     *)
FetchedIsAnswer ==
    /\ pc \in {"decide", "save"} => fetched = answered[op.no]
    /\ pc = "save" => fetched # NoRecord
    /\ op.kind = "sync" /\ pc = "save" =>
          /\ loaded = NoRecord /\ res.decision = "REMOTE_SELECTED"
          /\ res.local_present = 0 /\ res.remote_present = 1
    /\ op.kind = "sync" /\ pc \in {"upload", "put", "putting"} =>
          answered[op.no] = NoRecord

UploadIsLocal ==
    pc = "putting" =>
        /\ net.req.pos = loaded.pos
        /\ applied[op.no] \in {NoRecord, loaded.pos}

Successes == {"OK", "UPLOADED", "REMOTE_MISSING", "PERSISTED"}

RecordsInv ==
    /\ AnswerFinal
    /\ ReadsStillHold
    /\ FetchedIsAnswer
    /\ UploadIsLocal
    /\ pc = "classify" /\ res.status \in Successes => Gets(op.no) = {}
    /\ OutcomeTruthful
    /\ NeverFailsClosed

(* Every operation ends, whatever the server does or omits.                  *)
OperationEnds == (pc # "idle") ~> (pc = "idle")

-----------------------------------------------------------------------------
(* The operations keep the contract their callers rely on (SyncContract): a  *)
(* step of an operation, of its exchange or of the server is a step of the   *)
(* contract or invisible to the caller.                                      *)
PosOf(record) == IF record = NoRecord THEN NoRecord ELSE record.pos

PutState(n) ==
    IF applied[n] # NoRecord THEN "stored"
    ELSE IF Puts(n) # {} THEN "flying" ELSE "none"

CallSeen ==
    IF pc = "idle" THEN [kind |-> "none", got |-> "unanswered", put |-> "none",
                         imported |-> 0]
    ELSE [kind |-> op.kind, got |-> answered[op.no], put |-> PutState(op.no),
          imported |-> res.local_saved]

LateUploads ==
    {r.pos : r \in {q \in wire : q.method = "PUT" /\ (pc = "idle" \/ q.op # op.no)}}

ReportSeen == [outcome |-> product.outcome,
               local_mutation |-> product.local_mutation,
               remote_mutation |-> product.remote_mutation]

Contract == INSTANCE SyncContract WITH
    local <- PosOf(local), remote <- server, late <- LateUploads,
    call <- CallSeen, report <- ReportSeen

ContractSpec == Contract!Spec

(* What the refinement rests on besides the two invariants: an operation     *)
(* asks once, what it has sent is the record it found, and the status agrees *)
(* with what was done.                                                       *)
BeforeAsking == {"settings", "credentials", "config", "identity", "load",
                 "time", "dns", "tls", "get"}

AskedOnce ==
    /\ \A n \in Ops : n > op.no \/ Gets(n) # {} => answered[n] = "unanswered"
    /\ \A n \in Ops : \A q, r \in Gets(n) : q = r
    /\ \/ pc \in BeforeAsking
       \/ pc = "getting" /\ net.phase \in {"request", "connect", "open", "send"}
       => answered[op.no] = "unanswered"
    /\ pc # "idle" /\ op.kind = "push" => Gets(op.no) = {}

SentIsLocal ==
    pc # "idle" => \A r \in Puts(op.no) : local # NoRecord /\ r.pos = local.pos

StatusAgrees ==
    pc = "classify" =>
        /\ op.kind = "push" =>
               /\ res.local_saved = 0
               /\ res.remote_uploaded = 1 <=> res.status = "UPLOADED"
               /\ res.status \notin {"PERSISTED", "REMOTE_MISSING"}
        /\ op.kind = "pull" =>
               /\ res.local_saved = 1 <=> res.status = "PERSISTED"
               /\ res.status \notin {"UPLOADED", "LOCAL_MISSING"}
        /\ res.status = "LOCAL_MISSING" => local = NoRecord

ContractInv == AskedOnce /\ SentIsLocal /\ StatusAgrees

(* For TLC: positions are only compared. *)
Symmetry == Permutations(XPointers)

=============================================================================
