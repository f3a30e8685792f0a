---------------------------- MODULE SyncContract ----------------------------
(***************************************************************************)
(* What the one-shot operations of the sync controllers promise to their   *)
(* caller about one book, however the network behaves: which operation may *)
(* write which side, and what a report says about both.                    *)
(***************************************************************************)
CONSTANTS
    Positions,  \* positions a record can hold
    XPointers,  \* those the local store accepts
    NoRecord    \* no record

VARIABLES
    local,      \* the position in the persisted local record
    remote,     \* the position the server holds
    late,       \* uploads of operations that are over, still on their way
    call,       \* the operation in progress
    report      \* what the last operation returned

contractVars == <<local, remote, late, call, report>>

NoCall == [kind |-> "none", got |-> "unanswered", put |-> "none",
           imported |-> 0]

NoReport == [outcome |-> "INTERNAL_FAILURE",
             local_mutation |-> "NONE", remote_mutation |-> "NONE"]

Init ==
    /\ local \in XPointers \cup {NoRecord}
    /\ remote \in Positions \cup {NoRecord}
    /\ late = {}
    /\ call = NoCall
    /\ report = NoReport

Running == call.kind # "none"

Call(kind) ==
    /\ ~Running
    /\ call' = [NoCall EXCEPT !.kind = kind]
    /\ report' = NoReport
    /\ UNCHANGED <<local, remote, late>>

(* The server answers the GET of this operation. *)
Serve ==
    /\ call.kind \in {"sync", "pull"} /\ call.got = "unanswered"
    /\ call' = [call EXCEPT !.got = remote]
    /\ UNCHANGED <<local, remote, late, report>>

(* The operation uploads the local position: a push because it was told to, *)
(* a sync because the server holds nothing. *)
Upload ==
    /\ local # NoRecord /\ call.put = "none"
    /\ call.kind = "push" \/ (call.kind = "sync" /\ call.got = NoRecord)
    /\ call' = [call EXCEPT !.put = "flying"]
    /\ UNCHANGED <<local, remote, late, report>>

ServerStores ==
    /\ call.put = "flying"
    /\ remote' = local
    /\ call' = [call EXCEPT !.put = "stored"]
    /\ UNCHANGED <<local, late, report>>

ServerRefuses ==
    /\ call.put = "flying"
    /\ call' = [call EXCEPT !.put = "none"]
    /\ UNCHANGED <<local, remote, late, report>>

Import ==
    /\ call.kind = "pull" \/ (call.kind = "sync" /\ local = NoRecord)
    /\ call.got \in XPointers /\ call.imported = 0
    /\ local' = call.got
    /\ call' = [call EXCEPT !.imported = 1]
    /\ UNCHANGED <<remote, late, report>>

(* What an outcome says of the two records. *)
OutcomeHolds(o) ==
    CASE o = "UNCHANGED" -> local # NoRecord /\ call.got = local
      [] o = "CONFLICT" -> /\ local # NoRecord /\ call.got # local
                           /\ call.got \in Positions
      [] o = "NO_STATE" -> local = NoRecord /\ call.got = NoRecord
      [] o = "REMOTE_MISSING" -> call.got = NoRecord
      [] o = "LOCAL_MISSING" -> local = NoRecord
      [] OTHER -> TRUE

EvidenceHolds(r) ==
    /\ (r.outcome = "IMPORTED") <=> (call.imported = 1 /\ call.kind = "sync")
    /\ (r.outcome = "PERSISTED") <=> (call.imported = 1 /\ call.kind = "pull")
    /\ (r.local_mutation = "CONFIRMED") <=> (call.imported = 1)
    /\ (r.outcome = "UPLOADED") <=> (r.remote_mutation = "CONFIRMED")
    /\ r.remote_mutation = "CONFIRMED" => call.put = "stored"
    /\ r.remote_mutation = "NONE" => call.put = "none"

StillFlying == IF call.put = "flying" THEN late \cup {local} ELSE late

Return(r) ==
    /\ Running
    /\ OutcomeHolds(r.outcome) /\ EvidenceHolds(r)
    /\ report' = r
    /\ call' = NoCall /\ late' = StillFlying
    /\ UNCHANGED <<local, remote>>

(* The battery runs out. *)
Abort ==
    /\ Running
    /\ call' = NoCall /\ late' = StillFlying
    /\ UNCHANGED <<local, remote, report>>

LateUpload ==
    /\ \E p \in late :
          /\ remote' \in {remote, p}
          /\ late' \in {late, late \ {p}}
    /\ UNCHANGED <<local, call, report>>

OtherDevice ==
    /\ remote' \in Positions
    /\ UNCHANGED <<local, late, call, report>>

(* Between operations the reader saves its position. *)
LocalSave ==
    /\ ~Running
    /\ local' \in XPointers
    /\ UNCHANGED <<remote, late, call, report>>

Kinds == {"sync", "push", "pull"}
Mutations == {"NONE", "POSSIBLE", "CONFIRMED"}

Outcomes == {"UNCHANGED", "UPLOADED", "IMPORTED", "NO_STATE", "CONFLICT",
             "LOCAL_MISSING", "REMOTE_MISSING", "PERSISTED"}

(* Any other word for not having done it. *)
Failures == {"DISABLED", "AUTH_REQUIRED", "TRUSTED_TIME_UNAVAILABLE",
             "CONNECTIVITY_FAILURE", "SECURITY_FAILURE", "SERVICE_FAILURE",
             "LOCAL_UNSUPPORTED", "LOCAL_FAILURE", "CONFIGURATION_FAILURE",
             "INTERNAL_FAILURE"}

Reports == [outcome : Outcomes \cup Failures,
            local_mutation : Mutations, remote_mutation : Mutations]

World == ServerStores \/ ServerRefuses \/ LateUpload \/ OtherDevice

Next ==
    \/ \E k \in Kinds : Call(k)
    \/ Serve \/ Upload \/ Import
    \/ \E r \in Reports : Return(r)
    \/ Abort \/ World \/ LocalSave

Spec == Init /\ [][Next]_contractVars

=============================================================================
