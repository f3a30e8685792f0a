-------------------------- MODULE KosyncSyncProofs --------------------------
(***************************************************************************)
(* Machine-checked proofs about KosyncSync, in four parts.                 *)
(*                                                                         *)
(* 1. EvidenceInv, the invariant behind the evidence an operation reports. *)
(*    The steps of Next fall into a few groups, each with a lemma that     *)
(*    says what has to be shown of a step of the group:                    *)
(*     - LocalStepLemma: steps of a running operation that touch neither   *)
(*       the exchange nor the history;                                     *)
(*     - ReturnLemma: steps that return a report to the caller;            *)
(*     - one lemma for each step that talks to the network, and for each   *)
(*       step of the exchange, the server and the environment.             *)
(* 2. RecordsInv, inductive relative to EvidenceInv: the answer of the     *)
(*    server and the local record do not change under an operation that    *)
(*    has read them (lemmas named ...Records).                             *)
(* 3. ContractInv, relative to both: what an operation asks and sends is   *)
(*    seen once by its caller (lemmas named ...Contract).                  *)
(* 4. The refinement of SyncContract: lemmas named ...Step show a step of  *)
(*    the contract, lemmas named ...Seen a group of steps of Next.         *)
(***************************************************************************)
EXTENDS KosyncSync, TLAPS

-----------------------------------------------------------------------------
(* Facts about the pure functions.                                          *)

(* A result without a confirmed upload is never reported as CONFIRMED. *)
LEMMA NotUploadedNotConfirmed ==
    ASSUME NEW k, NEW r, r.remote_uploaded = 0
    PROVE  ProductOf(k, r).remote_mutation # "CONFIRMED"
<1>1. remote_mutation(r) # "CONFIRMED"
  BY DEF remote_mutation
<1>2. push_mutation(r) # "CONFIRMED"
  BY DEF push_mutation
<1>3. CASE k = "sync"
  BY <1>1, <1>3 DEF ProductOf, cn_kosync_policy_classify, fail_closed, Report
<1>4. CASE k = "push"
  BY <1>2, <1>4 DEF ProductOf, classify_push, Report
<1>5. CASE k \notin {"sync", "push"}
  BY <1>5 DEF ProductOf, classify_pull, Report
<1> QED BY <1>3, <1>4, <1>5

(* map_kosync returns a status. *)
LEMMA MapKosyncType ==
    ASSUME NEW k PROVE map_kosync(k) \in SyncStatuses
BY DEF map_kosync, SyncStatuses

-----------------------------------------------------------------------------
LEMMA InitEvidence == Init => EvidenceInv
<1> SUFFICES ASSUME Init PROVE EvidenceInv
  OBVIOUS
<1>1. TypeOK
  BY NoRecordAssumption
  DEF Init, NetInit, TypeOK, NetTypeOK, Idle, NoRequest, NoReply, Transports,
      TransportFailures, Phases, Replies, HttpStatuses, Bodies, Stored, PCs,
      Kinds, Results, Flag, cn_kosync_sync_result_init, SyncStatuses,
      Decisions, TimeFailures, DnsFailures, KosyncResults, Products,
      NoProduct, Report, Verdict, Outcomes, Retries, Mutations, Unreported
<1>2. RemoteEvidenceSound
  BY DEF Init, NetInit, RemoteEvidenceSound, Unreported
<1>3. NumbersFresh
  BY DEF Init, NetInit, NumbersFresh, Sent, Puts
<1>4. PutHandledOnce
  BY DEF Init, NetInit, PutHandledOnce
<1>5. ExchangeBelongsToCall
  BY DEF Init, NetInit, ExchangeBelongsToCall, Idle, NoReply
<1>6. PutProgress
  BY DEF Init, NetInit, PutProgress
<1>7. ResultFlags
  BY DEF Init, ResultFlags, cn_kosync_sync_result_init
<1> QED BY <1>1, <1>2, <1>3, <1>4, <1>5, <1>6, <1>7 DEF EvidenceInv

-----------------------------------------------------------------------------
(* A step between two local points of a running operation: only the result  *)
(* and the operation's own copies change.                                   *)
LEMMA LocalStepLemma ==
    ASSUME EvidenceInv, TypeOK', ResultFlags',
           UNCHANGED <<net, wire, applied, op, reported>>,
           pc \notin {"idle", "getting", "putting", "classify"},
           pc' \notin {"idle", "getting", "putting"},
           res'.remote_uploaded = 0
    PROVE  EvidenceInv'
<1>1. RemoteEvidenceSound'
  BY DEF EvidenceInv, RemoteEvidenceSound
<1>2. NumbersFresh'
  BY DEF EvidenceInv, NumbersFresh, Sent, Puts
<1>3. PutHandledOnce'
  BY DEF EvidenceInv, PutHandledOnce
<1>4. ExchangeBelongsToCall'
  BY DEF EvidenceInv, ExchangeBelongsToCall
<1>5. ~Sent(op.no)'
  BY DEF EvidenceInv, PutProgress, Sent, Puts
<1>6. ProductOf(op.kind, res)'.remote_mutation # "CONFIRMED"
  BY NotUploadedNotConfirmed
<1>7. PutProgress'
  BY <1>5, <1>6 DEF PutProgress
<1> QED BY <1>1, <1>2, <1>3, <1>4, <1>7 DEF EvidenceInv

(* The steps before the first request of an operation, and the decision.    *)
LEMMA IdentifyLemma == EvidenceInv /\ Identify => EvidenceInv'
<1> SUFFICES ASSUME EvidenceInv, Identify PROVE EvidenceInv'
  OBVIOUS
<1> USE DEF End, EndWith, Quiet, Running, netVars, Goto
<1>1. TypeOK'
  BY DEF Identify, EvidenceInv, TypeOK, NetTypeOK, PCs, Results, Kinds, SyncStatuses
<1>2. /\ res'.remote_uploaded = 0 /\ res'.local_save_attempted = 0
      /\ res'.local_saved = 0 /\ res'.remote_put_attempted = 0
      /\ res'.remote_present = 0 /\ res'.local_present = res.local_present
  BY DEF Identify, EvidenceInv, TypeOK, Results, ResultFlags
<1>3. ResultFlags'
  BY <1>2 DEF Identify, EvidenceInv, ResultFlags
<1> QED BY <1>1, <1>2, <1>3, LocalStepLemma DEF Identify

LEMMA LoadFailsLemma == EvidenceInv /\ LoadFails => EvidenceInv'
<1> SUFFICES ASSUME EvidenceInv, LoadFails PROVE EvidenceInv'
  OBVIOUS
<1> USE DEF End, EndWith, Quiet, Running, netVars, Goto
<1>1. TypeOK'
  BY DEF LoadFails, EvidenceInv, TypeOK, NetTypeOK, PCs, Results, SyncStatuses
<1>2. res'.remote_uploaded = 0
  BY DEF LoadFails, EvidenceInv, TypeOK, Results, ResultFlags
<1>3. ResultFlags'
  BY DEF LoadFails, EvidenceInv, ResultFlags
<1> QED BY <1>1, <1>2, <1>3, LocalStepLemma DEF LoadFails

LEMMA LoadForSyncLemma == EvidenceInv /\ LoadForSync => EvidenceInv'
<1> SUFFICES ASSUME EvidenceInv, LoadForSync PROVE EvidenceInv'
  OBVIOUS
<1> USE DEF Quiet, Running, netVars, Goto
<1>1. TypeOK'
  BY DEF LoadForSync, EvidenceInv, TypeOK, NetTypeOK, PCs, Results, Flag
<1>2. /\ res'.remote_uploaded = 0 /\ res'.local_save_attempted = 0
      /\ res'.local_saved = 0 /\ res'.remote_put_attempted = 0
      /\ res'.remote_present = 0
      /\ res'.local_present = 1 <=> local # NoRecord
  BY DEF LoadForSync, EvidenceInv, TypeOK, Results, ResultFlags
<1>3. ResultFlags'
  BY <1>2 DEF LoadForSync, ResultFlags
<1> QED BY <1>1, <1>2, <1>3, LocalStepLemma DEF LoadForSync

LEMMA LoadForPushLemma == EvidenceInv /\ LoadForPush => EvidenceInv'
<1> SUFFICES ASSUME EvidenceInv, LoadForPush PROVE EvidenceInv'
  OBVIOUS
<1> USE DEF End, EndWith, Quiet, Running, netVars, Goto
<1>1. TypeOK'
  <2>1. res' \in Results
    <3>0. res \in Results
      BY DEF EvidenceInv, TypeOK
    <3>1. \/ \E st \in SyncStatuses : res' = [res EXCEPT !.status = st]
          \/ \E k \in KosyncResults, st \in SyncStatuses :
                res' = [res EXCEPT !.kosync = k, !.status = st]
          \/ res' = [res EXCEPT !.kosync = "OK"]
      BY MapKosyncType DEF LoadForPush, SyncStatuses, KosyncResults
    <3> QED BY <3>0, <3>1 DEF Results, KosyncResults
  <2> QED BY <2>1 DEF LoadForPush, EvidenceInv, TypeOK, NetTypeOK, PCs
<1>2. /\ res'.remote_uploaded = 0 /\ res'.local_save_attempted = 0
      /\ res'.local_saved = 0 /\ res'.remote_put_attempted = 0
  BY DEF LoadForPush, EvidenceInv, TypeOK, Results, ResultFlags
<1>3. ResultFlags'
  BY <1>2 DEF LoadForPush, EvidenceInv, ResultFlags
<1> QED BY <1>1, <1>2, <1>3, LocalStepLemma DEF LoadForPush

LEMMA EstablishTimeLemma == EvidenceInv /\ EstablishTime => EvidenceInv'
<1> SUFFICES ASSUME EvidenceInv, EstablishTime PROVE EvidenceInv'
  OBVIOUS
<1> USE DEF EndWith, Quiet, Running, netVars, Goto
<1>1. TypeOK'
  <2>1. res' \in Results
    <3>0. res \in Results
      BY DEF EvidenceInv, TypeOK
    <3>1. \/ res' = [res EXCEPT !.time = "OK"]
          \/ \E c \in TimeFailures :
                res' = [res EXCEPT !.time = c, !.status = "TRUSTED_TIME_FAILED"]
      BY DEF EstablishTime
    <3> QED BY <3>0, <3>1 DEF Results, SyncStatuses
  <2> QED BY <2>1 DEF EstablishTime, EvidenceInv, TypeOK, NetTypeOK, PCs
<1>2. /\ res'.remote_uploaded = 0 /\ res'.local_save_attempted = 0
      /\ res'.local_saved = 0 /\ res'.remote_put_attempted = 0
      /\ res'.remote_present = res.remote_present
      /\ res'.local_present = res.local_present
  BY DEF EstablishTime, EvidenceInv, TypeOK, Results, ResultFlags
<1>3. ResultFlags'
  BY <1>2 DEF EstablishTime, EvidenceInv, ResultFlags
<1> QED BY <1>1, <1>2, <1>3, LocalStepLemma DEF EstablishTime

LEMMA ResolveHostLemma == EvidenceInv /\ ResolveHost => EvidenceInv'
<1> SUFFICES ASSUME EvidenceInv, ResolveHost PROVE EvidenceInv'
  OBVIOUS
<1> USE DEF EndWith, Quiet, Running, netVars, Goto
<1>1. TypeOK'
  <2>1. res' \in Results
    <3>0. res \in Results
      BY DEF EvidenceInv, TypeOK
    <3>1. \/ res' = [res EXCEPT !.dns = "OK"]
          \/ \E c \in DnsFailures :
                res' = [res EXCEPT !.dns = c, !.status = "DNS_FAILED"]
      BY DEF ResolveHost
    <3> QED BY <3>0, <3>1 DEF Results, SyncStatuses
  <2> QED BY <2>1 DEF ResolveHost, EvidenceInv, TypeOK, NetTypeOK, PCs
<1>2. /\ res'.remote_uploaded = 0 /\ res'.local_save_attempted = 0
      /\ res'.local_saved = 0 /\ res'.remote_put_attempted = 0
      /\ res'.remote_present = res.remote_present
      /\ res'.local_present = res.local_present
  BY DEF ResolveHost, EvidenceInv, TypeOK, Results, ResultFlags
<1>3. ResultFlags'
  BY <1>2 DEF ResolveHost, EvidenceInv, ResultFlags
<1> QED BY <1>1, <1>2, <1>3, LocalStepLemma DEF ResolveHost

LEMMA SetTlsLemma == EvidenceInv /\ cn_kosync_client_set_tls => EvidenceInv'
<1> SUFFICES ASSUME EvidenceInv, cn_kosync_client_set_tls PROVE EvidenceInv'
  OBVIOUS
<1> USE DEF EndWith, Quiet, Running, netVars, Goto
<1>1. TypeOK'
  <2>1. res' \in Results
    <3>0. res \in Results
      BY DEF EvidenceInv, TypeOK
    <3>1. \/ res' = [res EXCEPT !.kosync = "OK"]
          \/ res' = [res EXCEPT !.kosync = "INVALID", !.status = "INVALID"]
      BY DEF cn_kosync_client_set_tls
    <3> QED BY <3>0, <3>1 DEF Results, SyncStatuses,
                        KosyncResults
  <2> QED BY <2>1 DEF cn_kosync_client_set_tls, EvidenceInv, TypeOK, NetTypeOK, PCs
<1>2. /\ res'.remote_uploaded = 0 /\ res'.local_save_attempted = 0
      /\ res'.local_saved = 0 /\ res'.remote_put_attempted = 0
      /\ res'.remote_present = res.remote_present
      /\ res'.local_present = res.local_present
  BY DEF cn_kosync_client_set_tls, EvidenceInv, TypeOK, Results, ResultFlags
<1>3. ResultFlags'
  BY <1>2 DEF cn_kosync_client_set_tls, EvidenceInv, ResultFlags, TypeOK, Kinds
<1> QED BY <1>1, <1>2, <1>3, LocalStepLemma DEF cn_kosync_client_set_tls

LEMMA GetFailsEarlyLemma == EvidenceInv /\ GetFailsEarly => EvidenceInv'
<1> SUFFICES ASSUME EvidenceInv, GetFailsEarly PROVE EvidenceInv'
  OBVIOUS
<1> USE DEF EndKosync, EndWith, Quiet, Running, netVars, Goto
<1>1. TypeOK'
  <2>1. res' \in Results
    <3>0. res \in Results
      BY DEF EvidenceInv, TypeOK
    <3>1. \E k \in KosyncResults, st \in SyncStatuses :
             res' = [res EXCEPT !.kosync = k, !.status = st,
                                !.transport = "INVALID", !.http = "0"]
      BY MapKosyncType DEF GetFailsEarly, KosyncResults
    <3> QED BY <3>0, <3>1 DEF Results, Transports,
                        TransportFailures, HttpStatuses
  <2> QED BY <2>1 DEF GetFailsEarly, EvidenceInv, TypeOK, NetTypeOK, PCs
<1>2. res'.remote_uploaded = 0
  BY DEF GetFailsEarly, EvidenceInv, TypeOK, Results, ResultFlags
<1>3. ResultFlags'
  BY DEF GetFailsEarly, EvidenceInv, ResultFlags
<1> QED BY <1>1, <1>2, <1>3, LocalStepLemma DEF GetFailsEarly

LEMMA DecideSyncLemma == EvidenceInv /\ DecideSync => EvidenceInv'
<1> SUFFICES ASSUME EvidenceInv, DecideSync PROVE EvidenceInv'
  OBVIOUS
<1> USE DEF Quiet, Running, netVars, Goto
<1>1. TypeOK'
  <2>1. Decision \in Decisions
    BY DEF DecideSync, Decision, Decisions
  <2>2. res' \in Results
    <3>0. res \in Results
      BY DEF EvidenceInv, TypeOK
    <3>1. \E d \in Decisions, st \in SyncStatuses :
             res' = [res EXCEPT !.decision = d, !.status = st]
      BY <2>1, <3>0 DEF DecideSync, Results, SyncStatuses
    <3> QED BY <3>0, <3>1 DEF Results
  <2> QED BY <2>2 DEF DecideSync, EvidenceInv, TypeOK, NetTypeOK, PCs
<1>2. /\ res'.remote_uploaded = 0 /\ res'.local_save_attempted = 0
      /\ res'.local_saved = 0 /\ res'.remote_put_attempted = 0
      /\ res'.remote_present = res.remote_present
      /\ res'.local_present = res.local_present
      /\ res'.decision = Decision
  BY DEF DecideSync, EvidenceInv, TypeOK, Results, ResultFlags
<1>3. ResultFlags'
  <2>1. CASE pc' = "upload"
    <3>1. Decision = "LOCAL_SELECTED"
      BY <2>1 DEF DecideSync
    <3>2. loaded # NoRecord /\ fetched = NoRecord
      BY <3>1 DEF Decision
    <3>3. res.remote_present = 0 /\ res.local_present = 1
      <4>1. /\ res.local_present = 1 <=> loaded # NoRecord
            /\ res.remote_present = 1 <=> fetched # NoRecord
        BY DEF DecideSync, EvidenceInv, ResultFlags
      <4>2. res.remote_present \in {0, 1}
        BY DEF EvidenceInv, TypeOK, Results, Flag
      <4> QED BY <3>2, <4>1, <4>2
    <3>4. op'.kind = "sync" /\ loaded' # NoRecord
      BY <3>2 DEF DecideSync
    <3> QED BY <1>2, <2>1, <3>1, <3>3, <3>4 DEF ResultFlags
  <2>2. CASE pc' \in {"save", "classify"}
    BY <1>2, <2>2 DEF DecideSync, ResultFlags
  <2> QED BY <2>1, <2>2 DEF DecideSync
<1> QED BY <1>1, <1>2, <1>3, LocalStepLemma DEF DecideSync

LEMMA DecidePullLemma == EvidenceInv /\ DecidePull => EvidenceInv'
<1> SUFFICES ASSUME EvidenceInv, DecidePull PROVE EvidenceInv'
  OBVIOUS
<1> USE DEF End, EndWith, Quiet, Running, netVars, Goto
<1>1. TypeOK'
  BY DEF DecidePull, EvidenceInv, TypeOK, NetTypeOK, PCs, Results, SyncStatuses
<1>2. /\ res'.remote_uploaded = 0 /\ res'.local_save_attempted = 0
      /\ res'.local_saved = 0 /\ res'.remote_put_attempted = 0
  BY DEF DecidePull, EvidenceInv, TypeOK, Results, ResultFlags
<1>3. ResultFlags'
  BY <1>2 DEF DecidePull, EvidenceInv, ResultFlags
<1> QED BY <1>1, <1>2, <1>3, LocalStepLemma DEF DecidePull

LEMMA SaveLemma == EvidenceInv /\ (SaveRemote \/ SaveFails) => EvidenceInv'
<1> SUFFICES ASSUME EvidenceInv, SaveRemote \/ SaveFails PROVE EvidenceInv'
  OBVIOUS
<1> USE DEF EndWith, Quiet, Running, netVars, Goto
<1>1. TypeOK'
  <2>1. res' \in Results
    <3>0. res \in Results
      BY DEF EvidenceInv, TypeOK
    <3>1. \/ \E st \in SyncStatuses :
                res' = [res EXCEPT !.local_save_attempted = 1,
                                   !.local_saved = 1, !.status = st]
          \/ \E st \in SyncStatuses :
                res' = [res EXCEPT !.local_save_attempted = 1, !.status = st]
      BY DEF SaveRemote, SaveFails, SyncStatuses
    <3> QED BY <3>0, <3>1 DEF Results, Flag
  <2>2. local' \in Stored
    BY DEF SaveRemote, SaveFails, EvidenceInv, TypeOK, Stored, Records
  <2> QED BY <2>1, <2>2 DEF SaveRemote, SaveFails, EvidenceInv, TypeOK, NetTypeOK, PCs
<1>2. res'.remote_uploaded = 0
  BY DEF SaveRemote, SaveFails, EvidenceInv, TypeOK, Results, ResultFlags
<1>3. ResultFlags'
  BY DEF SaveRemote, SaveFails, EvidenceInv, ResultFlags
<1> QED BY <1>1, <1>2, <1>3, LocalStepLemma DEF SaveRemote, SaveFails

LEMMA PrepareUploadLemma == EvidenceInv /\ PrepareUpload => EvidenceInv'
<1> SUFFICES ASSUME EvidenceInv, PrepareUpload PROVE EvidenceInv'
  OBVIOUS
<1> USE DEF End, EndWith, Quiet, Running, netVars, Goto
<1>1. TypeOK'
  <2>1. res' \in Results
    <3>0. res \in Results
      BY DEF EvidenceInv, TypeOK
    <3>1. \/ \E st \in SyncStatuses : res' = [res EXCEPT !.status = st]
          \/ \E k \in KosyncResults, st \in SyncStatuses :
                res' = [res EXCEPT !.kosync = k, !.status = st]
          \/ res' = [res EXCEPT !.kosync = "OK"]
      BY MapKosyncType DEF PrepareUpload, SyncStatuses, KosyncResults
    <3> QED BY <3>0, <3>1 DEF Results, KosyncResults
  <2> QED BY <2>1 DEF PrepareUpload, EvidenceInv, TypeOK, NetTypeOK, PCs
<1>2. /\ res'.remote_uploaded = 0 /\ res'.local_save_attempted = 0
      /\ res'.local_saved = 0 /\ res'.remote_put_attempted = 0
      /\ res'.remote_present = res.remote_present
      /\ res'.local_present = res.local_present
      /\ res'.decision = res.decision
  BY DEF PrepareUpload, EvidenceInv, TypeOK, Results, ResultFlags
<1>3. ResultFlags'
  BY <1>2 DEF PrepareUpload, EvidenceInv, ResultFlags
<1> QED BY <1>1, <1>2, <1>3, LocalStepLemma DEF PrepareUpload

LEMMA PutFailsEarlyLemma == EvidenceInv /\ PutFailsEarly => EvidenceInv'
<1> SUFFICES ASSUME EvidenceInv, PutFailsEarly PROVE EvidenceInv'
  OBVIOUS
<1> USE DEF EndWith, Quiet, Running, netVars, Goto
<1>1. TypeOK'
  <2>1. res' \in Results
    <3>0. res \in Results
      BY DEF EvidenceInv, TypeOK
    <3>1. \E k \in KosyncResults, st \in SyncStatuses :
             res' = [res EXCEPT !.remote_put_attempted = 1, !.kosync = k,
                                !.status = st,
                                !.transport = "INVALID", !.http = "0"]
      BY MapKosyncType DEF PutFailsEarly, KosyncResults
    <3> QED BY <3>0, <3>1 DEF Results, Transports, Flag,
                        TransportFailures, HttpStatuses
  <2> QED BY <2>1 DEF PutFailsEarly, EvidenceInv, TypeOK, NetTypeOK, PCs
<1>2. res'.remote_uploaded = 0
  BY DEF PutFailsEarly, EvidenceInv, TypeOK, Results, ResultFlags
<1>3. ResultFlags'
  BY DEF PutFailsEarly, EvidenceInv, ResultFlags
<1> QED BY <1>1, <1>2, <1>3, LocalStepLemma DEF PutFailsEarly

-----------------------------------------------------------------------------
(* Steps that return to the caller.                                         *)

LEMMA ProductType ==
    ASSUME NEW k, NEW r \in Results
    PROVE  ProductOf(k, r) \in Products
<1>1. remote_mutation(r) \in Mutations
  BY DEF remote_mutation, Mutations
<1>2. push_mutation(r) \in Mutations
  BY DEF push_mutation, Mutations
<1>3. saved_mutation(r) \in Mutations
  BY DEF saved_mutation, Mutations
<1>4. ASSUME NEW o \in Outcomes, NEW y \in Retries,
             NEW l \in Mutations, NEW m \in Mutations
      PROVE  Report(Verdict(o, y), l, m) \in Products
  BY DEF Report, Verdict, Products
<1>5. \E o \in Outcomes, y \in Retries : SyncVerdict(r) = Verdict(o, y)
  <2>1. \A c : dns_failure(c) \in Outcomes /\ transport_failure(c) \in Outcomes
    BY DEF dns_failure, transport_failure, Outcomes
  <2>2. \A o : RetryOf(o) \in Retries
    BY DEF RetryOf, Retries
  <2>3. \E o \in Outcomes, y \in Retries : classify_success(r) = Verdict(o, y)
    BY DEF classify_success, Outcomes, Retries
  <2>4. \A c : \E o \in Outcomes, y \in Retries :
           classify_time(c) = Verdict(o, y)
    BY DEF classify_time, Outcomes, Retries
  <2>5. \A c : \E o \in Outcomes, y \in Retries :
           classify_dns(c) = Verdict(o, y)
    BY <2>1, <2>2 DEF classify_dns
  <2>6. \A c : \E o \in Outcomes, y \in Retries :
           classify_https(c) = Verdict(o, y)
    BY <2>1, <2>2 DEF classify_https
  <2>7. \E o \in Outcomes, y \in Retries : classify_protocol(r) = Verdict(o, y)
    BY DEF classify_protocol, Outcomes, Retries
  <2>8. r.status \in SyncStatuses
    BY DEF Results
  <2>9. CASE r.status = "OK"
    BY <2>3, <2>9 DEF SyncVerdict
  <2>10. CASE r.status = "TRUSTED_TIME_FAILED"
    BY <2>4, <2>10 DEF SyncVerdict
  <2>11. CASE r.status = "DNS_FAILED"
    BY <2>5, <2>11 DEF SyncVerdict
  <2>12. CASE r.status = "HTTPS_FAILED"
    BY <2>6, <2>12 DEF SyncVerdict
  <2>13. CASE r.status = "PROTOCOL_FAILED"
    BY <2>7, <2>13 DEF SyncVerdict
  <2>14. CASE r.status \notin {"OK", "TRUSTED_TIME_FAILED", "DNS_FAILED",
                               "HTTPS_FAILED", "PROTOCOL_FAILED"}
    <3>1. \E o \in {"CONFIGURATION_FAILURE", "LOCAL_FAILURE",
                    "LOCAL_UNSUPPORTED", "AUTH_REQUIRED", "INTERNAL_FAILURE"} :
             SyncVerdict(r) = Verdict(o, "EXPLICIT_ACTION")
      BY <2>14 DEF SyncVerdict
    <3> QED BY <3>1 DEF Outcomes, Retries
  <2> QED BY <2>9, <2>10, <2>11, <2>12, <2>13, <2>14
<1>6. OneShotOutcome(r) \in Outcomes
  <2>1. dns_failure(r.dns) \in Outcomes /\ transport_failure(r.transport) \in Outcomes
    BY DEF dns_failure, transport_failure, Outcomes
  <2> QED BY <2>1 DEF OneShotOutcome, Outcomes
<1>7. "NONE" \in Mutations /\ "NONE" \in Retries
  BY DEF Mutations, Retries
<1>8. cn_kosync_policy_classify(r) \in Products
  <2>1. fail_closed \in Products
    BY <1>4, <1>7 DEF fail_closed, Outcomes, Retries
  <2> QED BY <1>1, <1>3, <1>4, <1>5, <2>1 DEF cn_kosync_policy_classify
<1>9. classify_push(r) \in Products
  BY <1>2, <1>4, <1>6, <1>7 DEF classify_push
<1>10. classify_pull(r) \in Products
  BY <1>3, <1>4, <1>6, <1>7 DEF classify_pull
<1> QED BY <1>8, <1>9, <1>10 DEF ProductOf

LEMMA ReturnLemma ==
    ASSUME EvidenceInv,
           pc \notin {"idle", "getting", "putting"},
           NEW report \in Products,
           Return(report), Quiet,
           report.remote_mutation = "NONE" => ~Sent(op.no),
           report.remote_mutation = "CONFIRMED" => applied[op.no] # NoRecord
    PROVE  EvidenceInv'
<1> USE DEF Return, Quiet, Goto, Cleared, netVars
<1>0. op.no \in Ops /\ reported[op.no] = Unreported
  BY DEF EvidenceInv, NumbersFresh
<1>1. TypeOK'
  <2>1. reported' \in [Ops -> Evidence \cup {Unreported}]
    BY <1>0 DEF EvidenceInv, TypeOK, Evidence, Products
  <2>2. cn_kosync_sync_result_init \in Results
    BY DEF Results, Flag, cn_kosync_sync_result_init, SyncStatuses, Decisions,
           TimeFailures, DnsFailures, KosyncResults, Transports,
           TransportFailures, HttpStatuses
  <2> QED BY <2>1, <2>2 DEF EvidenceInv, TypeOK, NetTypeOK, PCs, Stored
<1>2. /\ reported'[op.no].remote = report.remote_mutation
      /\ \A n \in Ops : n # op.no => reported'[n] = reported[n]
  BY <1>0 DEF EvidenceInv, TypeOK
<1>3. RemoteEvidenceSound'
  <2> SUFFICES ASSUME NEW n \in Ops
               PROVE  /\ reported'[n].remote = "NONE" =>
                             /\ applied[n] = NoRecord
                             /\ \A r \in wire : r.op = n => r.method = "GET"
                      /\ reported'[n].remote = "CONFIRMED" =>
                             applied[n] # NoRecord
    BY DEF RemoteEvidenceSound
  <2>1. CASE n = op.no
    <3>1. \A r \in wire : r.method \in {"GET", "PUT"}
      BY DEF EvidenceInv, TypeOK, NetTypeOK, Requests
    <3> QED BY <1>2, <2>1, <3>1 DEF Sent, Puts
  <2>2. CASE n # op.no
    BY <1>2, <2>2 DEF EvidenceInv, RemoteEvidenceSound
  <2> QED BY <2>1, <2>2
<1>4. NumbersFresh'
  BY <1>0, <1>2, OpsAssumption DEF EvidenceInv, NumbersFresh, Sent, Puts
<1>5. PutHandledOnce'
  BY DEF EvidenceInv, PutHandledOnce
<1>6. ExchangeBelongsToCall'
  BY DEF EvidenceInv, ExchangeBelongsToCall
<1>7. PutProgress'
  BY DEF PutProgress
<1>8. ResultFlags'
  BY DEF ResultFlags, cn_kosync_sync_result_init
<1> QED BY <1>1, <1>3, <1>4, <1>5, <1>6, <1>7, <1>8 DEF EvidenceInv

LEMMA PreflightLemma ==
    EvidenceInv /\ (LoadSettings \/ LoadCredentials \/ ResolveConfig)
        => EvidenceInv'
<1> SUFFICES ASSUME EvidenceInv, LoadSettings \/ LoadCredentials \/ ResolveConfig
             PROVE  EvidenceInv'
  OBVIOUS
<1>1. Quiet /\ pc \in {"settings", "credentials", "config"}
  BY DEF LoadSettings, LoadCredentials, ResolveConfig
<1>2. ~Sent(op.no)
  BY <1>1 DEF EvidenceInv, PutProgress
<1>3. CASE \E p \in {"credentials", "config", "identity"} : Pass(p)
  <2> USE <1>1, <1>3 DEF Pass, Quiet, Goto, netVars
  <2>1. TypeOK'
    BY DEF EvidenceInv, TypeOK, NetTypeOK, PCs
  <2>2. ResultFlags' /\ res'.remote_uploaded = 0
    BY DEF EvidenceInv, ResultFlags
  <2> QED BY <2>1, <2>2, LocalStepLemma
<1>4. CASE \E o \in Outcomes, y \in Retries :
              Return(Report(Verdict(o, y), "NONE", "NONE"))
  <2>1. PICK o \in Outcomes, y \in Retries :
              Return(Report(Verdict(o, y), "NONE", "NONE"))
    BY <1>4
  <2> DEFINE rep == Report(Verdict(o, y), "NONE", "NONE")
  <2>2. rep \in Products /\ rep.remote_mutation = "NONE"
    BY DEF Report, Verdict, Products, Mutations
  <2> QED BY <1>1, <1>2, <2>1, <2>2, ReturnLemma
<1> QED BY <1>3, <1>4 DEF LoadSettings, LoadCredentials, ResolveConfig,
                          preflight_failure, Outcomes, Retries

LEMMA ClassifyLemma == EvidenceInv /\ Classify => EvidenceInv'
<1> SUFFICES ASSUME EvidenceInv, Classify PROVE EvidenceInv'
  OBVIOUS
<1>1. ProductOf(op.kind, res) \in Products
  BY ProductType DEF EvidenceInv, TypeOK
<1>2. pc = "classify" /\ Return(ProductOf(op.kind, res)) /\ Quiet
  BY DEF Classify
<1>3. /\ ProductOf(op.kind, res).remote_mutation = "NONE" => ~Sent(op.no)
      /\ ProductOf(op.kind, res).remote_mutation = "CONFIRMED" =>
             applied[op.no] # NoRecord
  BY <1>2 DEF EvidenceInv, PutProgress
<1> QED BY <1>1, <1>2, <1>3, ReturnLemma

-----------------------------------------------------------------------------
(* Steps outside an operation: the user, the reader, a power loss.          *)

LEMMA OpNumbers == \A n \in Ops \cup {0} : n \in Nat
BY OpsAssumption

LEMMA StartLemma ==
    ASSUME EvidenceInv, NEW n \in Ops, NEW k \in Kinds, Start(n, k)
    PROVE  EvidenceInv'
<1> USE DEF Start, Quiet, Goto, netVars
<1>0. /\ op.no \in Nat /\ op'.no = op.no + 1 /\ op'.no = n
      /\ op'.kind = k
  <2>1. op.no \in Ops \cup {0}
    BY DEF EvidenceInv, TypeOK
  <2>2. n = op.no + 1
    OBVIOUS
  <2>3. op'.no = n /\ op'.kind = k
    OBVIOUS
  <2> HIDE DEF Start
  <2>4. op.no \in Nat
    BY <2>1, OpNumbers
  <2> QED BY <2>2, <2>3, <2>4
<1>1. TypeOK'
  <2>1. NoProduct \in Products
    BY DEF NoProduct, Report, Verdict, Products, Outcomes, Retries, Mutations
  <2> QED BY <2>1 DEF EvidenceInv, TypeOK, NetTypeOK, PCs
<1>2. RemoteEvidenceSound'
  BY DEF EvidenceInv, RemoteEvidenceSound
<1>3. ~Sent(n) /\ reported[n] = Unreported
  BY <1>0 DEF EvidenceInv, NumbersFresh
<1>4. NumbersFresh'
  BY <1>0, <1>3, OpsAssumption DEF EvidenceInv, NumbersFresh, Sent, Puts
<1>5. PutHandledOnce'
  BY DEF EvidenceInv, PutHandledOnce
<1>6. ExchangeBelongsToCall'
  BY DEF EvidenceInv, ExchangeBelongsToCall
<1>7. PutProgress'
  BY <1>0, <1>3 DEF PutProgress, Sent, Puts
<1>8. ResultFlags'
  <2>1. pc' = "settings" /\ res' = res
    OBVIOUS
  <2>2. /\ res.remote_uploaded = 0 /\ res.local_save_attempted = 0
        /\ res.local_saved = 0 /\ res.remote_put_attempted = 0
        /\ res.remote_present = 0
    BY DEF EvidenceInv, ResultFlags
  <2> HIDE DEF Start
  <2> QED BY <2>1, <2>2 DEF ResultFlags
<1> QED BY <1>1, <1>2, <1>4, <1>5, <1>6, <1>7, <1>8 DEF EvidenceInv

LEMMA PowerLossLemma == EvidenceInv /\ PowerLoss => EvidenceInv'
<1> SUFFICES ASSUME EvidenceInv, PowerLoss PROVE EvidenceInv'
  OBVIOUS
<1> USE DEF PowerLoss, Cleared, OnlyNet, Goto
<1>1. TypeOK'
  <2>1. cn_kosync_sync_result_init \in Results
    BY DEF Results, Flag, cn_kosync_sync_result_init, SyncStatuses, Decisions,
           TimeFailures, DnsFailures, KosyncResults, Transports,
           TransportFailures, HttpStatuses
  <2>2. NetTypeOK'
    BY DEF EvidenceInv, TypeOK, NetTypeOK, Idle, NoRequest, NoReply, Phases,
           Transports, TransportFailures, Replies, HttpStatuses, Bodies
  <2> QED BY <2>1, <2>2 DEF EvidenceInv, TypeOK, PCs, Stored
<1>2. RemoteEvidenceSound'
  BY DEF EvidenceInv, RemoteEvidenceSound
<1>3. NumbersFresh'
  BY DEF EvidenceInv, NumbersFresh, Sent, Puts
<1>4. PutHandledOnce'
  BY DEF EvidenceInv, PutHandledOnce
<1>5. ExchangeBelongsToCall'
  BY DEF ExchangeBelongsToCall, Idle, NoReply
<1>6. PutProgress'
  BY DEF PutProgress
<1>7. ResultFlags'
  BY DEF ResultFlags, cn_kosync_sync_result_init
<1> QED BY <1>1, <1>2, <1>3, <1>4, <1>5, <1>6, <1>7 DEF EvidenceInv

(* The reader, the account setup and other devices change nothing that the  *)
(* evidence depends on; nor does a stuttering step.                         *)
LEMMA BystanderLemma ==
    ASSUME EvidenceInv, TypeOK', UNCHANGED <<net, wire, applied, opVars>>
    PROVE  EvidenceInv'
<1> USE DEF opVars
<1>1. RemoteEvidenceSound'
  BY DEF EvidenceInv, RemoteEvidenceSound
<1>2. NumbersFresh'
  BY DEF EvidenceInv, NumbersFresh, Sent, Puts
<1>3. PutHandledOnce'
  BY DEF EvidenceInv, PutHandledOnce
<1>4. ExchangeBelongsToCall'
  BY DEF EvidenceInv, ExchangeBelongsToCall
<1>5. PutProgress'
  BY DEF EvidenceInv, PutProgress, Sent, Puts
<1>6. ResultFlags'
  BY DEF EvidenceInv, ResultFlags
<1> QED BY <1>1, <1>2, <1>3, <1>4, <1>5, <1>6 DEF EvidenceInv

-----------------------------------------------------------------------------
(* The steps of the device around an exchange.                              *)

LEMMA CallGetLemma == EvidenceInv /\ CallGet => EvidenceInv'
<1> SUFFICES ASSUME EvidenceInv, CallGet PROVE EvidenceInv'
  OBVIOUS
<1>0. /\ pc = "get" /\ pc' = "getting"
      /\ UNCHANGED <<wire, server, answered, applied, op, product, reported,
                     res, loaded, fetched, settings, local>>
  BY DEF CallGet, Goto, Running, StartExchange, OnlyNet
<1>1. /\ net'.phase = "request" /\ net'.result = "INVALID"
      /\ net'.reply = NoReply
      /\ net'.req = [op |-> op.no, method |-> "GET", pos |-> NoRecord]
  BY DEF CallGet, StartExchange, Idle
<1>2. op.no \in Ops
  BY <1>0 DEF EvidenceInv, NumbersFresh
<1>3. TypeOK'
  <2>1. [op |-> op.no, method |-> "GET", pos |-> NoRecord] \in Requests
    BY <1>2 DEF Requests
  <2>2. net' \in [phase : Phases, req : Requests \cup {NoRequest},
                  result : Transports, reply : Replies]
    BY <2>1 DEF CallGet, StartExchange, Idle, Phases, Transports,
                TransportFailures, Replies, NoReply, HttpStatuses, Bodies
  <2> QED BY <1>0, <2>2 DEF EvidenceInv, TypeOK, NetTypeOK, PCs
<1>4. RemoteEvidenceSound'
  BY <1>0 DEF EvidenceInv, RemoteEvidenceSound
<1>5. NumbersFresh'
  BY <1>0 DEF EvidenceInv, NumbersFresh, Sent, Puts
<1>6. PutHandledOnce'
  BY <1>0 DEF EvidenceInv, PutHandledOnce
<1>7. ExchangeBelongsToCall'
  BY <1>0, <1>1 DEF ExchangeBelongsToCall, NoReply
<1>8. PutProgress'
  BY <1>0 DEF EvidenceInv, PutProgress, Sent, Puts
<1>9. ResultFlags'
  BY <1>0 DEF EvidenceInv, ResultFlags
<1> QED BY <1>3, <1>4, <1>5, <1>6, <1>7, <1>8, <1>9 DEF EvidenceInv

LEMMA CallPutLemma == EvidenceInv /\ CallPut => EvidenceInv'
<1> SUFFICES ASSUME EvidenceInv, CallPut PROVE EvidenceInv'
  OBVIOUS
<1>0. /\ pc = "put" /\ pc' = "putting"
      /\ UNCHANGED <<wire, server, answered, applied, op, product, reported,
                     loaded, fetched, settings, local>>
      /\ res' = [res EXCEPT !.remote_put_attempted = 1]
  BY DEF CallPut, Goto, Running, StartExchange, OnlyNet
<1>1. /\ net'.phase = "request" /\ net'.result = "INVALID"
      /\ net'.reply = NoReply
      /\ net'.req = [op |-> op.no, method |-> "PUT", pos |-> loaded.pos]
  BY DEF CallPut, StartExchange, Idle
<1>2. op.no \in Ops
  BY <1>0 DEF EvidenceInv, NumbersFresh
<1>3. loaded.pos \in Positions
  BY <1>0, XPointersAssumption
  DEF EvidenceInv, ResultFlags, TypeOK, Stored, Records
<1>4. TypeOK'
  <2>1. [op |-> op.no, method |-> "PUT", pos |-> loaded.pos] \in Requests
    BY <1>2, <1>3 DEF Requests
  <2>2. net' \in [phase : Phases, req : Requests \cup {NoRequest},
                  result : Transports, reply : Replies]
    BY <2>1 DEF CallPut, StartExchange, Idle, Phases, Transports,
                TransportFailures, Replies, NoReply, HttpStatuses, Bodies
  <2>3. res \in Results
    BY DEF EvidenceInv, TypeOK
  <2>4. res' \in Results
    BY <1>0, <2>3 DEF Results, Flag
  <2> QED BY <1>0, <2>2, <2>4 DEF EvidenceInv, TypeOK, NetTypeOK, PCs
<1>5. RemoteEvidenceSound'
  BY <1>0 DEF EvidenceInv, RemoteEvidenceSound
<1>6. NumbersFresh'
  BY <1>0 DEF EvidenceInv, NumbersFresh, Sent, Puts
<1>7. PutHandledOnce'
  BY <1>0 DEF EvidenceInv, PutHandledOnce
<1>8. ExchangeBelongsToCall'
  BY <1>0, <1>1, <1>3 DEF ExchangeBelongsToCall, NoReply
<1>9. PutProgress'
  <2>1. applied[op.no] = NoRecord /\ Puts(op.no) = {}
    BY <1>0 DEF EvidenceInv, PutProgress, Sent
  <2> QED BY <1>0, <1>1, <2>1 DEF PutProgress, Sent, Puts, NoReply
<1>10. ResultFlags'
  <2>1. /\ res'.remote_uploaded = 0 /\ res'.local_save_attempted = 0
        /\ res'.local_saved = 0 /\ res'.remote_put_attempted = 1
        /\ res'.decision = res.decision
        /\ res'.local_present = res.local_present
        /\ res'.remote_present = res.remote_present
    BY <1>0 DEF EvidenceInv, ResultFlags, TypeOK, Results
  <2> QED BY <1>0, <2>1 DEF EvidenceInv, ResultFlags
<1> QED BY <1>4, <1>5, <1>6, <1>7, <1>8, <1>9, <1>10 DEF EvidenceInv

LEMMA HttpOfType ==
    ASSUME TypeOK PROVE HttpOf(net) \in HttpStatuses
BY DEF TypeOK, NetTypeOK, HttpOf, Replies, HttpStatuses

(* After the exchange: the device is idle on the network again. *)
LEMMA GetReturnsLemma == EvidenceInv /\ GetReturns => EvidenceInv'
<1> SUFFICES ASSUME EvidenceInv, GetReturns PROVE EvidenceInv'
  OBVIOUS
<1>0. /\ pc = "getting" /\ net' = Idle
      /\ UNCHANGED <<wire, server, answered, applied, op, product, reported,
                     loaded, settings, local>>
  BY DEF GetReturns, Running, OnlyNet
<1>1. PICK k \in GetResults(net) :
          \/ /\ k = "OK" /\ pc' = "decide" /\ fetched' = net.reply.pos
             /\ res' = [WithOutcome(k) EXCEPT !.remote_present = 1]
          \/ /\ k = "NOT_FOUND" /\ pc' = "decide" /\ fetched' = NoRecord
             /\ res' = WithOutcome(k)
          \/ /\ k \notin {"OK", "NOT_FOUND"} /\ pc' = "classify"
             /\ res' = [WithOutcome(k) EXCEPT !.status = map_kosync(k)]
             /\ fetched' = fetched
  BY DEF GetReturns, GetSucceeds, Goto, EndWith
<1>2. k \in KosyncResults
  BY DEF GetResults, map_response, ParseProgress, KosyncResults
<1>3. WithOutcome(k) \in Results
  <2>1. res \in Results /\ net.result \in Transports
    BY DEF EvidenceInv, TypeOK, NetTypeOK
  <2>2. HttpOf(net) \in HttpStatuses
    BY HttpOfType DEF EvidenceInv
  <2> QED BY <1>2, <2>1, <2>2 DEF WithOutcome, Results
<1>4. /\ WithOutcome(k).remote_uploaded = 0
      /\ WithOutcome(k).local_save_attempted = 0
      /\ WithOutcome(k).local_saved = 0
      /\ WithOutcome(k).remote_put_attempted = 0
      /\ WithOutcome(k).local_present = res.local_present
      /\ WithOutcome(k).remote_present = res.remote_present
  BY <1>0 DEF WithOutcome, EvidenceInv, ResultFlags, TypeOK, Results
<1>5. res' \in Results
  BY <1>1, <1>3, MapKosyncType DEF Results, Flag
<1>6. /\ res'.remote_uploaded = 0 /\ res'.local_save_attempted = 0
      /\ res'.local_saved = 0 /\ res'.remote_put_attempted = 0
      /\ res'.local_present = res.local_present
      /\ k = "OK" => res'.remote_present = 1
      /\ k # "OK" => res'.remote_present = res.remote_present
  BY <1>1, <1>3, <1>4 DEF Results
<1>7. k = "OK" => net.reply.pos \in Positions
  <2>1. SUFFICES ASSUME k = "OK" PROVE net.reply.body = "record"
    BY DEF EvidenceInv, ExchangeBelongsToCall
  <2> QED BY <2>1 DEF GetResults, map_response, ParseProgress
<1>8. TypeOK'
  <2>1. Idle \in [phase : Phases, req : Requests \cup {NoRequest},
                  result : Transports, reply : Replies]
    BY DEF Idle, Phases, Transports, TransportFailures, Replies, NoReply,
           HttpStatuses, Bodies
  <2>2. fetched' \in Positions \cup {NoRecord} /\ pc' \in PCs
    BY <1>1, <1>7 DEF EvidenceInv, TypeOK, PCs
  <2> QED BY <1>0, <1>5, <2>1, <2>2 DEF EvidenceInv, TypeOK, NetTypeOK
<1>9. RemoteEvidenceSound'
  BY <1>0 DEF EvidenceInv, RemoteEvidenceSound
<1>10. NumbersFresh'
  BY <1>0 DEF EvidenceInv, NumbersFresh, Sent, Puts
<1>11. PutHandledOnce'
  BY <1>0 DEF EvidenceInv, PutHandledOnce
<1>12. ExchangeBelongsToCall'
  BY <1>0, <1>1 DEF ExchangeBelongsToCall, Idle, NoReply
<1>13. PutProgress'
  <2>1. ~Sent(op.no)'
    BY <1>0 DEF EvidenceInv, PutProgress, Sent, Puts
  <2>2. ProductOf(op.kind, res)'.remote_mutation # "CONFIRMED"
    BY <1>6, NotUploadedNotConfirmed
  <2> QED BY <1>0, <1>1, <2>1, <2>2 DEF PutProgress
<1>14. ResultFlags'
  <2>1. op.kind = "sync" =>
           /\ res.local_present = 1 <=> loaded # NoRecord
           /\ res.remote_present = 0
    BY <1>0 DEF EvidenceInv, ResultFlags
  <2>2. op.kind # "push"
    BY <1>0 DEF EvidenceInv, ResultFlags
  <2>3. CASE pc' = "classify"
    BY <2>3 DEF ResultFlags
  <2>4. CASE pc' = "decide" /\ k = "OK"
    BY <1>0, <1>1, <1>6, <1>7, <2>1, <2>2, <2>4, NoRecordAssumption
    DEF ResultFlags
  <2>5. CASE pc' = "decide" /\ k = "NOT_FOUND"
    BY <1>0, <1>1, <1>6, <2>1, <2>2, <2>5 DEF ResultFlags
  <2> QED BY <1>1, <2>3, <2>4, <2>5
<1> QED BY <1>8, <1>9, <1>10, <1>11, <1>12, <1>13, <1>14 DEF EvidenceInv

(* The end of a PUT: the only place where the evidence is decided.  The     *)
(* result is one of three: the upload was acknowledged; the failure proves  *)
(* that the request was not (or not yet) sent; or the report is POSSIBLE.   *)
LEMMA PutReturnsLemma == EvidenceInv /\ PutReturns => EvidenceInv'
<1> SUFFICES ASSUME EvidenceInv, PutReturns PROVE EvidenceInv'
  OBVIOUS
<1>0. /\ pc = "putting" /\ pc' = "classify" /\ net.phase = "done" /\ net' = Idle
      /\ UNCHANGED <<wire, server, answered, applied, op, product, reported,
                     loaded, fetched, settings, local>>
  BY DEF PutReturns, Running, OnlyNet, EndWith, Goto
<1>1. PICK k \in PutResults(net) :
          \/ /\ k = "OK"
             /\ res' = [WithOutcome(k) EXCEPT
                           !.remote_uploaded = 1,
                           !.status = IF op.kind = "push"
                                      THEN "UPLOADED" ELSE "OK"]
          \/ /\ k # "OK"
             /\ res' = [WithOutcome(k) EXCEPT !.status = map_kosync(k)]
  BY DEF PutReturns, EndWith
<1>2. k \in KosyncResults \ {"NOT_FOUND", "INVALID"}
  BY DEF PutResults, map_response, ParseAck, KosyncResults
<1>3. WithOutcome(k) \in Results
  <2>1. res \in Results /\ net.result \in Transports
    BY DEF EvidenceInv, TypeOK, NetTypeOK
  <2>2. HttpOf(net) \in HttpStatuses
    BY HttpOfType DEF EvidenceInv
  <2> QED BY <1>2, <2>1, <2>2 DEF WithOutcome, Results
<1>4. /\ WithOutcome(k).remote_uploaded = 0
      /\ WithOutcome(k).local_save_attempted = 0
      /\ WithOutcome(k).local_saved = 0
      /\ WithOutcome(k).remote_put_attempted = 1
      /\ WithOutcome(k).local_present = res.local_present
      /\ WithOutcome(k).remote_present = res.remote_present
      /\ WithOutcome(k).decision = res.decision
      /\ WithOutcome(k).kosync = k
      /\ WithOutcome(k).transport = net.result
  BY <1>0 DEF WithOutcome, EvidenceInv, ResultFlags, TypeOK, Results
<1>5. res' \in Results
  <2>1. \A r \in Results, s \in SyncStatuses, f \in Flag :
           /\ [r EXCEPT !.status = s] \in Results
           /\ [r EXCEPT !.remote_uploaded = f, !.status = s] \in Results
    BY DEF Results
  <2>2. /\ map_kosync(k) \in SyncStatuses /\ 1 \in Flag
        /\ (IF op.kind = "push" THEN "UPLOADED" ELSE "OK") \in SyncStatuses
    BY <1>2, MapKosyncType DEF Flag, SyncStatuses
  <2> DEFINE w == WithOutcome(k)
             s == IF op.kind = "push" THEN "UPLOADED" ELSE "OK"
  <2> HIDE DEF w, s
  <2>3. /\ [w EXCEPT !.remote_uploaded = 1, !.status = s] \in Results
        /\ [w EXCEPT !.status = map_kosync(k)] \in Results
    <3>1. w \in Results /\ s \in SyncStatuses
      BY <1>3, <2>2 DEF w, s
    <3> QED BY <2>1, <2>2, <3>1
  <2>4. \/ res' = [w EXCEPT !.remote_uploaded = 1, !.status = s]
        \/ res' = [w EXCEPT !.status = map_kosync(k)]
    BY <1>1, Zenon DEF w, s
  <2> QED BY <2>3, <2>4, Zenon
<1>6. /\ res'.local_save_attempted = 0 /\ res'.local_saved = 0
      /\ res'.remote_put_attempted = 1
      /\ res'.local_present = res.local_present
      /\ res'.remote_present = res.remote_present
      /\ res'.decision = res.decision
      /\ res'.kosync = k /\ res'.transport = net.result
  BY <1>1, <1>3, <1>4 DEF Results
<1>7. /\ k = "OK" => /\ res'.remote_uploaded = 1
                     /\ res'.status = IF op.kind = "push"
                                      THEN "UPLOADED" ELSE "OK"
      /\ k # "OK" => /\ res'.remote_uploaded = 0
                     /\ res'.status = map_kosync(k)
  BY <1>1, <1>3, <1>4 DEF Results
<1>8. op.kind \in {"sync", "push"}
  BY <1>0 DEF EvidenceInv, ResultFlags, TypeOK, Kinds
<1>9. op.kind = "sync" => /\ res.decision = "LOCAL_SELECTED"
                          /\ res.local_present = 1 /\ res.remote_present = 0
  BY <1>0 DEF EvidenceInv, ResultFlags
<1> DEFINE m == ProductOf(op.kind, res').remote_mutation
<1>10. m = "CONFIRMED" => applied[op.no] # NoRecord
  <2>1. CASE k = "OK"
    <3>1. net.reply.body = "ack"
      BY <2>1 DEF PutResults, map_response, ParseAck
    <3> QED BY <1>0, <3>1 DEF EvidenceInv, PutProgress
  <2>2. CASE k # "OK"
    BY <1>7, <2>2, NotUploadedNotConfirmed
  <2> QED BY <2>1, <2>2
<1>11. m = "NONE" => ~Sent(op.no)
  <2>1. CASE k = "OK"
    <3>1. CASE op.kind = "push"
      BY <1>7, <2>1, <3>1 DEF ProductOf, classify_push, Report, push_mutation
    <3>2. CASE op.kind = "sync"
      <4>1. ~Inconsistent(res')
        BY <1>6, <1>7, <1>9, <2>1, <3>2
        DEF Inconsistent, success_invariants_hold
      <4> QED BY <1>7, <2>1, <3>2, <4>1
              DEF ProductOf, cn_kosync_policy_classify, Report, remote_mutation
    <3> QED BY <1>8, <3>1, <3>2
  <2>2. CASE k = "AUTH_FAILED"
    <3>1. net.reply.http = "401"
      BY <2>2 DEF PutResults, map_response, ParseAck
    <3> QED BY <1>0, <3>1 DEF EvidenceInv, PutProgress
  <2>3. CASE k = "TRANSPORT_ERROR"
    <3>1. CASE net.result \in transport_is_pre_put
      BY <1>0, <3>1 DEF EvidenceInv, PutProgress
    <3>2. CASE net.result \notin transport_is_pre_put
      <4>0. net.result # "OK"
        BY <2>3 DEF PutResults, map_response, ParseAck
      <4>1. net.result \notin proven_pre_send
        BY <3>2 DEF transport_is_pre_put
      <4>2. CASE op.kind = "push"
        BY <1>6, <1>7, <2>3, <4>1, <4>2
        DEF ProductOf, classify_push, Report, push_mutation
      <4>3. CASE op.kind = "sync"
        <5>1. res'.status = "HTTPS_FAILED"
          BY <1>7, <2>3 DEF map_kosync
        <5>2. ~Inconsistent(res')
          BY <1>6, <1>7, <2>3, <4>0, <5>1 DEF Inconsistent
        <5> QED BY <1>6, <1>7, <2>3, <3>2, <4>3, <5>1, <5>2
                DEF ProductOf, cn_kosync_policy_classify, Report,
                    remote_mutation
      <4> QED BY <1>8, <4>2, <4>3
    <3> QED BY <3>1, <3>2
  <2>4. CASE k \in {"HTTP_ERROR", "BAD_JSON", "BAD_PROTOCOL", "NO_MEMORY"}
    <3>1. res'.status \in {"PROTOCOL_FAILED", "NO_MEMORY"}
          /\ (res'.status = "PROTOCOL_FAILED" => k # "NO_MEMORY")
      BY <1>7, <2>4 DEF map_kosync
    <3>2. CASE op.kind = "push"
      BY <1>6, <1>7, <2>4, <3>2
      DEF ProductOf, classify_push, Report, push_mutation
    <3>3. CASE op.kind = "sync"
      <4>1. ~Inconsistent(res')
        BY <1>6, <1>7, <2>4, <3>1 DEF Inconsistent
      <4> QED BY <1>6, <1>7, <2>4, <3>1, <3>3, <4>1
              DEF ProductOf, cn_kosync_policy_classify, Report, remote_mutation
    <3> QED BY <1>8, <3>2, <3>3
  <2> QED BY <1>2, <2>1, <2>2, <2>3, <2>4 DEF KosyncResults
<1>12. TypeOK'
  <2>1. Idle \in [phase : Phases, req : Requests \cup {NoRequest},
                  result : Transports, reply : Replies]
    BY DEF Idle, Phases, Transports, TransportFailures, Replies, NoReply,
           HttpStatuses, Bodies
  <2> QED BY <1>0, <1>5, <2>1 DEF EvidenceInv, TypeOK, NetTypeOK, PCs
<1>13. RemoteEvidenceSound'
  BY <1>0 DEF EvidenceInv, RemoteEvidenceSound
<1>14. NumbersFresh'
  BY <1>0 DEF EvidenceInv, NumbersFresh, Sent, Puts
<1>15. PutHandledOnce'
  BY <1>0 DEF EvidenceInv, PutHandledOnce
<1>16. ExchangeBelongsToCall'
  BY <1>0 DEF ExchangeBelongsToCall, Idle, NoReply
<1>17. PutProgress'
  BY <1>0, <1>10, <1>11 DEF PutProgress, Sent, Puts
<1>18. ResultFlags'
  BY <1>0 DEF ResultFlags
<1> QED BY <1>12, <1>13, <1>14, <1>15, <1>16, <1>17, <1>18 DEF EvidenceInv

-----------------------------------------------------------------------------
(* The steps of the exchange itself.                                        *)

LEMMA PhaseLemma ==
    ASSUME EvidenceInv,
           UNCHANGED <<wire, server, answered, applied, settings, local, opVars>>,
           net.phase # "idle",
           NEW p \in Phases \ {"idle"}, NEW c \in Transports,
           net' = [net EXCEPT !.phase = p, !.result = c],
           p \in {"request", "connect", "open", "send"} =>
               net.phase \in {"request", "connect", "open", "send"},
           p = "done" /\ c \in transport_is_pre_put =>
               net.phase \in {"request", "connect", "open", "send"},
           p = "done" /\ c = "OK" => net.reply # NoReply
    PROVE  EvidenceInv'
<1> USE DEF opVars
<1>1. /\ net' \in [phase : Phases, req : Requests \cup {NoRequest},
                   result : Transports, reply : Replies]
      /\ net'.phase = p /\ net'.result = c
      /\ net'.req = net.req /\ net'.reply = net.reply
  <2>1. net \in [phase : Phases, req : Requests \cup {NoRequest},
                 result : Transports, reply : Replies]
    BY DEF EvidenceInv, TypeOK, NetTypeOK
  <2> QED BY <2>1
<1>2. TypeOK'
  BY <1>1 DEF EvidenceInv, TypeOK, NetTypeOK
<1>3. RemoteEvidenceSound'
  BY DEF EvidenceInv, RemoteEvidenceSound
<1>4. NumbersFresh'
  BY DEF EvidenceInv, NumbersFresh, Sent, Puts
<1>5. PutHandledOnce'
  BY DEF EvidenceInv, PutHandledOnce
<1>6. ExchangeBelongsToCall'
  BY <1>1 DEF EvidenceInv, ExchangeBelongsToCall
<1>7. PutProgress'
  <2>1. pc \in {"getting", "putting"}
    BY DEF EvidenceInv, ExchangeBelongsToCall
  <2> QED BY <1>1, <2>1 DEF EvidenceInv, PutProgress, Sent, Puts
<1>8. ResultFlags'
  BY DEF EvidenceInv, ResultFlags
<1> QED BY <1>2, <1>3, <1>4, <1>5, <1>6, <1>7, <1>8 DEF EvidenceInv

LEMMA FailureCodes ==
    /\ SendFailures \cap transport_is_pre_put = {}
    /\ ConnectFailures \cup OpenFailures \cup SendFailures \cup RecvFailures
           \cup {"INVALID", "OK"} \subseteq Transports
    /\ (RecvFailures \cup {"OK"}) \cap transport_is_pre_put = {}
    /\ "OK" \notin ConnectFailures \cup OpenFailures \cup SendFailures
                       \cup RecvFailures
BY DEF ConnectFailures, OpenFailures, SendFailures, RecvFailures, Transports,
       TransportFailures, transport_is_pre_put, proven_pre_send

LEMMA SilentExchangeStepLemma ==
    ASSUME EvidenceInv, UNCHANGED <<settings, local, opVars>>,
           \/ cn_netsimple_build_exchange_request
           \/ connect_with_timeout \/ cn_tls_open
           \/ SendFails /\ UNCHANGED wire
           \/ ReceiveReply \/ ReceiveFails
    PROVE  EvidenceInv'
<1> DEFINE Early == {"request", "connect", "open", "send"}
<1>0. UNCHANGED <<wire, server, answered, applied>>
  BY DEF cn_netsimple_build_exchange_request, connect_with_timeout, cn_tls_open,
         SendFails, ReceiveReply, ReceiveFails, OnlyNet
<1>1. \/ /\ net.phase \in {"request", "connect", "open"}
         /\ \E p \in {"connect", "open", "send"} :
               net' = [net EXCEPT !.phase = p]
      \/ /\ net.phase \in Early
         /\ \E c \in ConnectFailures \cup OpenFailures \cup SendFailures
                         \cup {"INVALID"} :
               net' = [net EXCEPT !.phase = "done", !.result = c]
      \/ /\ net.phase = "recv" /\ net.reply # NoReply
         /\ net' = [net EXCEPT !.phase = "done", !.result = "OK"]
      \/ /\ net.phase = "recv"
         /\ \E c \in RecvFailures :
               net' = [net EXCEPT !.phase = "done", !.result = c]
  BY DEF cn_netsimple_build_exchange_request, connect_with_timeout, cn_tls_open,
         SendFails, ReceiveReply, ReceiveFails, StepTo, FinishExchange
<1>2. CASE /\ net.phase \in {"request", "connect", "open"}
           /\ \E p \in {"connect", "open", "send"} :
                 net' = [net EXCEPT !.phase = p]
  <2>1. PICK p \in {"connect", "open", "send"} : net' = [net EXCEPT !.phase = p]
    BY <1>2
  <2>2. net' = [net EXCEPT !.phase = p, !.result = net.result]
        /\ net.result \in Transports
    BY <2>1 DEF EvidenceInv, TypeOK, NetTypeOK
  <2> QED BY <1>0, <1>2, <2>2, PhaseLemma DEF Phases
<1>3. CASE /\ net.phase \in Early
           /\ \E c \in ConnectFailures \cup OpenFailures \cup SendFailures
                           \cup {"INVALID"} :
                 net' = [net EXCEPT !.phase = "done", !.result = c]
  BY <1>0, <1>3, PhaseLemma, FailureCodes DEF Phases
<1>4. CASE /\ net.phase = "recv" /\ net.reply # NoReply
           /\ net' = [net EXCEPT !.phase = "done", !.result = "OK"]
  BY <1>0, <1>4, PhaseLemma, FailureCodes DEF Phases
<1>5. CASE /\ net.phase = "recv"
           /\ \E c \in RecvFailures :
                 net' = [net EXCEPT !.phase = "done", !.result = c]
  BY <1>0, <1>5, PhaseLemma, FailureCodes DEF Phases
<1> QED BY <1>1, <1>2, <1>3, <1>4, <1>5

(* The request leaves the device, and the exchange goes on to wait for the  *)
(* answer or ends with a failure that does not claim the opposite.          *)
LEMMA RequestLeavesLemma ==
    ASSUME EvidenceInv, UNCHANGED <<settings, local, opVars>>,
           net.phase = "send", wire' = wire \cup {net.req},
           UNCHANGED <<server, answered, applied>>,
           NEW p \in {"recv", "done"},
           NEW c \in Transports \ transport_is_pre_put, p = "done" => c # "OK",
           \/ net' = [net EXCEPT !.phase = p, !.result = c]
           \/ net' = [net EXCEPT !.phase = p] /\ p = "recv"
    PROVE  EvidenceInv'
<1> USE DEF opVars
<1>0. /\ net.phase = "send" /\ wire' = wire \cup {net.req}
      /\ UNCHANGED <<server, answered, applied>>
  OBVIOUS
<1>1. /\ net' \in [phase : Phases, req : Requests \cup {NoRequest},
                   result : Transports, reply : Replies]
      /\ net'.phase = p /\ net'.req = net.req /\ net'.reply = net.reply
      /\ p = "done" => net'.result = c
  <2>1. net \in [phase : Phases, req : Requests \cup {NoRequest},
                 result : Transports, reply : Replies]
    BY DEF EvidenceInv, TypeOK, NetTypeOK
  <2> QED BY <1>0, <2>1 DEF Phases
<1>2. /\ pc \in {"getting", "putting"} /\ net.req.op = op.no
      /\ net.req.method = IF pc = "putting" THEN "PUT" ELSE "GET"
      /\ pc = "putting" => net.req.pos \in Positions
  BY <1>0 DEF EvidenceInv, ExchangeBelongsToCall
<1>3. op.no \in Ops /\ reported[op.no] = Unreported
  BY <1>2 DEF EvidenceInv, NumbersFresh
<1>4. net.req \in Requests
  BY <1>2, <1>3, OpsAssumption DEF EvidenceInv, TypeOK, NetTypeOK, NoRequest
<1>5. ~Sent(op.no)
  BY <1>0, <1>2 DEF EvidenceInv, PutProgress
<1>6. TypeOK'
  BY <1>0, <1>1, <1>4 DEF EvidenceInv, TypeOK, NetTypeOK
<1>7. RemoteEvidenceSound'
  <2>1. reported[op.no].remote = "unreported"
    BY <1>3 DEF Unreported
  <2> QED BY <1>0, <1>2, <2>1 DEF EvidenceInv, RemoteEvidenceSound
<1>8. \A n \in Ops : n # op.no => (Sent(n)' <=> Sent(n))
  BY <1>0, <1>2 DEF Sent, Puts
<1>9. NumbersFresh'
  BY <1>3, <1>8, OpsAssumption DEF EvidenceInv, NumbersFresh
<1>10. PutHandledOnce'
  BY <1>0, <1>2, <1>5 DEF EvidenceInv, PutHandledOnce, Sent, Puts
<1>11. ExchangeBelongsToCall'
  BY <1>1, <1>2 DEF EvidenceInv, ExchangeBelongsToCall
<1>12. PutProgress'
  <2>1. CASE pc = "getting"
    <3>1. Sent(op.no)' <=> Sent(op.no)
      BY <1>0, <1>2, <2>1 DEF Sent, Puts
    <3> QED BY <1>5, <2>1, <3>1 DEF PutProgress
  <2>2. CASE pc = "putting"
    <3>1. Puts(op.no)' \subseteq {net'.req}
      BY <1>0, <1>1, <1>5 DEF Sent, Puts
    <3>2. net'.reply = NoReply
      BY <1>0, <1>1, <2>2 DEF EvidenceInv, PutProgress
    <3> QED BY <1>1, <2>2, <3>1, <3>2 DEF PutProgress, NoReply
  <2> QED BY <1>2, <2>1, <2>2
<1>13. ResultFlags'
  BY DEF EvidenceInv, ResultFlags
<1> QED BY <1>6, <1>7, <1>9, <1>10, <1>11, <1>12, <1>13 DEF EvidenceInv

LEMMA SendRequestLemma ==
    ASSUME EvidenceInv, SendRequest, UNCHANGED <<settings, local, opVars>>
    PROVE  EvidenceInv'
<1>1. "TLS_RECV_TIMEOUT" \in Transports \ transport_is_pre_put
  BY DEF Transports, TransportFailures, transport_is_pre_put, proven_pre_send
<1> QED BY <1>1, RequestLeavesLemma DEF SendRequest, StepTo

(* A failed send either kept the request on the device, or let it go.       *)
LEMMA SendFailsLemma ==
    ASSUME EvidenceInv, SendFails, UNCHANGED <<settings, local, opVars>>
    PROVE  EvidenceInv'
<1>1. CASE wire' = wire
  BY <1>1, SilentExchangeStepLemma
<1>2. CASE wire' = wire \cup {net.req}
  <2>1. PICK c \in SendFailures : FinishExchange(c)
    BY DEF SendFails
  <2>2. c \in Transports \ transport_is_pre_put /\ c # "OK"
    BY <2>1, FailureCodes
  <2> QED BY <1>2, <2>1, <2>2, RequestLeavesLemma DEF SendFails, FinishExchange
<1> QED BY <1>1, <1>2 DEF SendFails

-----------------------------------------------------------------------------
(* The server takes request r off the wire.  A PUT it applies was on the    *)
(* wire before, so Sent never becomes true here, and applied never becomes  *)
(* false.                                                                   *)
LEMMA HandleLemma ==
    ASSUME EvidenceInv, TypeOK', UNCHANGED <<settings, local, opVars>>,
           NEW r \in wire, wire' = wire \ {r},
           \/ UNCHANGED applied
           \/ r.method = "PUT" /\ applied' = [applied EXCEPT ![r.op] = r.pos],
           NEW reply,
           net' = IF net.phase = "recv" /\ net.req = r
                  THEN [net EXCEPT !.reply = reply] ELSE net,
           reply # NoReply,
           reply.body = "record" => r.method = "GET" /\ reply.pos \in Positions,
           reply.http = "401" => UNCHANGED applied,
           reply.body = "ack" => applied' = [applied EXCEPT ![r.op] = r.pos]
    PROVE  EvidenceInv'
<1> USE DEF opVars
<1>0. /\ r \in Requests /\ r.op \in Ops /\ applied \in [Ops -> Positions \cup {NoRecord}]
      /\ r.method \in {"GET", "PUT"}
  BY DEF EvidenceInv, TypeOK, NetTypeOK, Requests
<1>1. \A n \in Ops : applied[n] # NoRecord => applied'[n] # NoRecord
  BY <1>0, NoRecordAssumption DEF EvidenceInv, PutHandledOnce
<1>2. \A n \in Ops : Sent(n)' => Sent(n)
  BY <1>0 DEF Sent, Puts
<1>3. RemoteEvidenceSound'
  <2> SUFFICES ASSUME NEW n \in Ops
               PROVE  /\ reported[n].remote = "NONE" =>
                             /\ applied'[n] = NoRecord
                             /\ \A q \in wire' : q.op = n => q.method = "GET"
                      /\ reported[n].remote = "CONFIRMED" =>
                             applied'[n] # NoRecord
    BY DEF RemoteEvidenceSound
  <2>1. reported[n].remote = "CONFIRMED" => applied'[n] # NoRecord
    BY <1>1 DEF EvidenceInv, RemoteEvidenceSound
  <2>2. ASSUME reported[n].remote = "NONE"
        PROVE  /\ applied'[n] = NoRecord
               /\ \A q \in wire' : q.op = n => q.method = "GET"
    <3>1. applied[n] = NoRecord /\ \A q \in wire : q.op = n => q.method = "GET"
      BY <2>2 DEF EvidenceInv, RemoteEvidenceSound
    <3> QED BY <1>0, <3>1
  <2> QED BY <2>1, <2>2
<1>4. NumbersFresh'
  BY <1>2 DEF EvidenceInv, NumbersFresh
<1>5. PutHandledOnce'
  <2> SUFFICES ASSUME NEW q \in wire', q.method = "PUT"
               PROVE  /\ q.pos \in Positions
                      /\ applied'[q.op] = NoRecord
                      /\ \A t \in wire' : t.method = "PUT" /\ t.op = q.op => t = q
    BY DEF PutHandledOnce
  <2>1. q \in wire /\ q # r
    OBVIOUS
  <2>2. /\ q.pos \in Positions /\ applied[q.op] = NoRecord
        /\ \A t \in wire : t.method = "PUT" /\ t.op = q.op => t = q
    BY <2>1 DEF EvidenceInv, PutHandledOnce
  <2>3. q.op \in Ops
    BY <2>1 DEF EvidenceInv, TypeOK, NetTypeOK, Requests
  <2>4. applied'[q.op] = applied[q.op]
    BY <1>0, <2>1, <2>2, <2>3
  <2> QED BY <2>2, <2>4
<1>6. /\ net'.phase = net.phase /\ net'.result = net.result
      /\ net'.req = net.req
      /\ \/ net'.reply = net.reply
         \/ net.phase = "recv" /\ net.req = r /\ net'.reply = reply
  <2>1. net \in [phase : Phases, req : Requests \cup {NoRequest},
                 result : Transports, reply : Replies]
    BY DEF EvidenceInv, TypeOK, NetTypeOK
  <2>2. CASE net' = [net EXCEPT !.reply = reply] /\ net.phase = "recv" /\ net.req = r
    BY <2>1, <2>2
  <2>3. CASE net' = net
    BY <2>3
  <2> QED BY <2>2, <2>3
<1>7. ExchangeBelongsToCall'
  BY <1>6 DEF EvidenceInv, ExchangeBelongsToCall
<1>8. PutProgress'
  <2>1. ASSUME pc \notin {"idle", "putting", "classify"} PROVE ~Sent(op.no)'
    <3>1. op.no \in Ops /\ ~Sent(op.no)
      BY <2>1 DEF EvidenceInv, PutProgress, NumbersFresh
    <3> QED BY <1>2, <3>1
  <2>2. ASSUME pc = "classify"
        PROVE  LET m == ProductOf(op.kind, res)'.remote_mutation IN
               /\ m = "NONE" => ~Sent(op.no)'
               /\ m = "CONFIRMED" => applied'[op.no] # NoRecord
    <3>1. op.no \in Ops
      BY <2>2 DEF EvidenceInv, NumbersFresh
    <3>2. LET m == ProductOf(op.kind, res).remote_mutation IN
          /\ m = "NONE" => ~Sent(op.no)
          /\ m = "CONFIRMED" => applied[op.no] # NoRecord
      BY <2>2 DEF EvidenceInv, PutProgress
    <3> QED BY <1>1, <1>2, <3>1, <3>2
  <2>3. ASSUME pc = "putting"
        PROVE  /\ net'.phase \in {"request", "connect", "open", "send"} =>
                      ~Sent(op.no)' /\ net'.reply = NoReply
               /\ net'.phase = "done" /\ net'.result \in transport_is_pre_put =>
                      ~Sent(op.no)'
               /\ net'.phase = "done" /\ net'.result = "OK" =>
                      net'.reply # NoReply
               /\ net'.reply.http = "401" => ~Sent(op.no)'
               /\ net'.reply.body = "ack" => applied'[op.no] # NoRecord
               /\ Puts(op.no)' \subseteq {net'.req}
    <3>1. op.no \in Ops
      BY <2>3 DEF EvidenceInv, NumbersFresh
    <3>2. /\ net.phase \in {"request", "connect", "open", "send"} =>
                 ~Sent(op.no) /\ net.reply = NoReply
          /\ net.phase = "done" /\ net.result \in transport_is_pre_put =>
                 ~Sent(op.no)
          /\ net.phase = "done" /\ net.result = "OK" => net.reply # NoReply
          /\ net.reply.http = "401" => ~Sent(op.no)
          /\ net.reply.body = "ack" => applied[op.no] # NoRecord
          /\ Puts(op.no) \subseteq {net.req}
      BY <2>3 DEF EvidenceInv, PutProgress
    <3>3. Puts(op.no)' \subseteq Puts(op.no) \ {r}
      BY DEF Puts
    <3>4. CASE net'.reply = net.reply
      BY <1>1, <1>2, <1>6, <3>1, <3>2, <3>3, <3>4
    <3>5. CASE net.phase = "recv" /\ net.req = r /\ net'.reply = reply
      <4>1. r.op = op.no /\ r.method = "PUT" /\ r.pos \in Positions
        BY <2>3, <3>5 DEF EvidenceInv, ExchangeBelongsToCall
      <4>2. Puts(op.no)' = {}
        BY <3>2, <3>3, <3>5
      <4>3. applied[op.no] = NoRecord
        BY <4>1 DEF EvidenceInv, PutHandledOnce
      <4>4. reply.http = "401" => ~Sent(op.no)'
        BY <4>2, <4>3 DEF Sent
      <4>5. reply.body = "ack" => applied'[op.no] # NoRecord
        BY <1>0, <4>1, NoRecordAssumption
      <4> QED BY <1>6, <3>5, <4>2, <4>4, <4>5
    <3> QED BY <1>6, <3>4, <3>5
  <2> QED BY <2>1, <2>2, <2>3 DEF PutProgress
<1>9. ResultFlags'
  BY DEF EvidenceInv, ResultFlags
<1> QED BY <1>3, <1>4, <1>5, <1>7, <1>8, <1>9 DEF EvidenceInv

LEMMA ServerStepLemma ==
    ASSUME EvidenceInv, ServerStep, UNCHANGED <<settings, local, opVars>>
    PROVE  EvidenceInv'
<1>1. PICK r \in wire : ServerRefuses(r) \/ ServerServesGet(r)
                                         \/ ServerAppliesPut(r)
  BY DEF ServerStep
<1>2. r \in Requests /\ server \in Positions \cup {NoRecord}
  BY DEF EvidenceInv, TypeOK, NetTypeOK
<1>3. \A h \in HttpStatuses, b \in Bodies \ {"none"},
         q \in Positions \cup {NoRecord} :
         Answer(h, b, q) \in Replies \ {NoReply}
  BY DEF Answer, Replies, NoReply
<1>4. \A h \in HttpErrors \cup {"401"} :
         Answer(h, "none", NoRecord) \in Replies \ {NoReply}
  BY DEF Answer, Replies, NoReply, HttpErrors, HttpStatuses, Bodies
<1>5. \A rep \in Failing \cup Garbled :
         /\ rep \in Replies \ {NoReply}
         /\ rep.body \notin {"record", "ack"} /\ rep.http # "401"
  BY <1>3, <1>4 DEF Failing, Garbled, HttpErrors, Answer, HttpStatuses, Bodies
<1>6. ASSUME NEW reply \in Replies, ReplyTo(r, reply),
             server' \in Positions \cup {NoRecord},
             answered' \in [Ops -> Positions \cup {NoRecord, "unanswered"}],
             applied' \in [Ops -> Positions \cup {NoRecord}]
      PROVE  /\ TypeOK'
             /\ wire' = wire \ {r}
             /\ net' = IF net.phase = "recv" /\ net.req = r
                       THEN [net EXCEPT !.reply = reply] ELSE net
  <2>1. net \in [phase : Phases, req : Requests \cup {NoRequest},
                 result : Transports, reply : Replies]
    BY DEF EvidenceInv, TypeOK, NetTypeOK
  <2>2. net' \in [phase : Phases, req : Requests \cup {NoRequest},
                  result : Transports, reply : Replies]
    BY <1>6, <2>1 DEF ReplyTo
  <2> QED BY <1>6, <2>2 DEF ReplyTo, EvidenceInv, TypeOK, NetTypeOK, opVars
<1>7. CASE ServerRefuses(r)
  <2>1. PICK reply \in Failing \cup Garbled \cup {Answer("401", "none", NoRecord)} :
           ReplyTo(r, reply)
    BY <1>7 DEF ServerRefuses
  <2>2. UNCHANGED <<server, answered, applied>>
    BY <1>7 DEF ServerRefuses
  <2>3. reply \in Replies \ {NoReply} /\ reply.body \notin {"record", "ack"}
    BY <1>4, <1>5 DEF Answer
  <2>4. /\ TypeOK' /\ wire' = wire \ {r}
        /\ net' = IF net.phase = "recv" /\ net.req = r
                  THEN [net EXCEPT !.reply = reply] ELSE net
    BY <1>6, <2>1, <2>2, <2>3 DEF EvidenceInv, TypeOK, NetTypeOK
  <2> QED BY <2>2, <2>3, <2>4, HandleLemma
<1>8. CASE ServerServesGet(r)
  <2> DEFINE reply == IF server = NoRecord THEN Answer("200", "empty", NoRecord)
                      ELSE Answer("200", "record", server)
  <2>1. /\ r.method = "GET" /\ ReplyTo(r, reply) /\ UNCHANGED <<server, applied>>
        /\ answered' = [answered EXCEPT ![r.op] = server]
    BY <1>8 DEF ServerServesGet
  <2>2. /\ reply \in Replies \ {NoReply} /\ reply.http = "200"
        /\ reply.body # "ack"
        /\ reply.body = "record" => reply.pos \in Positions
    BY <1>2, <1>3 DEF Answer, HttpStatuses, Bodies
  <2>3. answered' \in [Ops -> Positions \cup {NoRecord, "unanswered"}]
    BY <1>2, <2>1 DEF EvidenceInv, TypeOK, NetTypeOK
  <2> HIDE DEF reply
  <2>4. /\ TypeOK' /\ wire' = wire \ {r}
        /\ net' = IF net.phase = "recv" /\ net.req = r
                  THEN [net EXCEPT !.reply = reply] ELSE net
    BY <1>6, <2>1, <2>2, <2>3 DEF EvidenceInv, TypeOK, NetTypeOK
  <2> QED BY <2>1, <2>2, <2>4, HandleLemma
<1>9. CASE ServerAppliesPut(r)
  <2>1. PICK reply \in Failing \cup Garbled \cup {Answer("200", "ack", NoRecord)} :
           ReplyTo(r, reply)
    BY <1>9 DEF ServerAppliesPut
  <2>2. /\ r.method = "PUT" /\ server' = r.pos /\ UNCHANGED answered
        /\ applied' = [applied EXCEPT ![r.op] = r.pos]
    BY <1>9 DEF ServerAppliesPut
  <2>3. /\ reply \in Replies \ {NoReply}
        /\ reply.body # "record" /\ reply.http # "401"
    BY <1>3, <1>5 DEF Answer, HttpStatuses, Bodies
  <2>4. applied' \in [Ops -> Positions \cup {NoRecord}]
    BY <1>2, <2>2 DEF EvidenceInv, TypeOK, NetTypeOK, Requests
  <2>5. r.pos \in Positions \cup {NoRecord}
    BY <1>2 DEF Requests
  <2>6. /\ TypeOK' /\ wire' = wire \ {r}
        /\ net' = IF net.phase = "recv" /\ net.req = r
                  THEN [net EXCEPT !.reply = reply] ELSE net
    BY <1>6, <2>1, <2>2, <2>3, <2>4, <2>5 DEF EvidenceInv, TypeOK, NetTypeOK
  <2> QED BY <2>2, <2>3, <2>6, HandleLemma
<1> QED BY <1>1, <1>7, <1>8, <1>9

-----------------------------------------------------------------------------
LEMMA NextEvidence == EvidenceInv /\ [Next]_vars => EvidenceInv'
<1> SUFFICES ASSUME EvidenceInv, [Next]_vars PROVE EvidenceInv'
  OBVIOUS
<1>1. CASE Begin
  BY <1>1, StartLemma DEF Begin
<1>2. CASE OperationStep
  BY <1>2, PreflightLemma, IdentifyLemma, LoadFailsLemma, LoadForSyncLemma,
     LoadForPushLemma, EstablishTimeLemma, ResolveHostLemma, SetTlsLemma,
     CallGetLemma, GetFailsEarlyLemma, GetReturnsLemma, DecideSyncLemma,
     DecidePullLemma, SaveLemma, PrepareUploadLemma, CallPutLemma,
     PutFailsEarlyLemma, PutReturnsLemma, ClassifyLemma
  DEF OperationStep
<1>3. CASE NetworkStep
  BY <1>3, SilentExchangeStepLemma, SendRequestLemma, SendFailsLemma
  DEF NetworkStep, ExchangeStep
<1>4. CASE Environment
  <2>1. CASE ServerStep /\ UNCHANGED <<settings, local, opVars>>
    BY <2>1, ServerStepLemma
  <2>2. CASE PowerLoss
    BY <2>2, PowerLossLemma
  <2>3. CASE OtherDevicePuts /\ UNCHANGED <<settings, local, opVars>>
    <3>1. TypeOK'
      BY <2>3 DEF OtherDevicePuts, opVars, EvidenceInv, TypeOK, NetTypeOK
    <3> QED BY <2>3, <3>1, BystanderLemma DEF OtherDevicePuts
  <2>4. CASE ReaderSaves
    <3>1. TypeOK'
      BY <2>4 DEF ReaderSaves, netVars, opVars, EvidenceInv, TypeOK, NetTypeOK,
                  Stored
    <3> QED BY <2>4, <3>1, BystanderLemma DEF ReaderSaves, netVars
  <2>5. CASE SettingsChange
    <3>1. TypeOK'
      BY <2>5 DEF SettingsChange, netVars, opVars, EvidenceInv, TypeOK,
                  NetTypeOK
    <3> QED BY <2>5, <3>1, BystanderLemma DEF SettingsChange, netVars
  <2> QED BY <1>4, <2>1, <2>2, <2>3, <2>4, <2>5 DEF Environment
<1>5. CASE UNCHANGED vars
  <2>1. TypeOK'
    BY <1>5 DEF vars, netVars, opVars, EvidenceInv, TypeOK, NetTypeOK
  <2> QED BY <1>5, <2>1, BystanderLemma DEF vars, netVars
<1> QED BY <1>1, <1>2, <1>3, <1>4, <1>5 DEF Next

(* The invariant holds in every reachable state. *)
THEOREM EvidenceInvariant == Spec => []EvidenceInv
BY InitEvidence, NextEvidence, PTL DEF Spec

(* Type correctness of the operations, the exchange and the server. *)
THEOREM TypeCorrect == Spec => []TypeOK
<1>1. EvidenceInv => TypeOK
  BY DEF EvidenceInv
<1> QED BY <1>1, EvidenceInvariant, PTL

(* Evidence soundness, for any number of operations and any positions: an   *)
(* operation that reported remote NONE (kosync_policy.c remote_mutation,    *)
(* kosync_push.c proven_pre_send) has not changed the server and never      *)
(* will; one that reported CONFIRMED has changed it.                        *)
THEOREM EvidenceSound == Spec => []RemoteEvidenceSound
<1>1. EvidenceInv => RemoteEvidenceSound
  BY DEF EvidenceInv
<1> QED BY <1>1, EvidenceInvariant, PTL

-----------------------------------------------------------------------------
(* What an operation does with the two records.  RecordsInv is inductive    *)
(* relative to EvidenceInv; the lemmas follow the same groups of steps.     *)

(* Outcomes that claim something of the records are those of a success. *)
LEMMA FailureClaimsNothing ==
    ASSUME NEW k, NEW r, r.status \notin Successes
    PROVE  ProductOf(k, r).outcome \notin
               {"UNCHANGED", "CONFLICT", "NO_STATE", "IMPORTED", "PERSISTED",
                "REMOTE_MISSING", "UPLOADED"}
<1> DEFINE claims == {"UNCHANGED", "CONFLICT", "NO_STATE", "IMPORTED",
                      "PERSISTED", "REMOTE_MISSING", "UPLOADED"}
<1>1. \A c : dns_failure(c) \notin claims /\ transport_failure(c) \notin claims
  BY DEF dns_failure, transport_failure
<1>2. CASE k = "sync"
  <2>1. SyncVerdict(r).outcome \notin claims
    BY <1>1 DEF SyncVerdict, Successes, classify_time, classify_dns,
                classify_https, classify_protocol, Verdict
  <2> QED BY <1>2, <2>1 DEF ProductOf, cn_kosync_policy_classify, fail_closed,
                            Report, Verdict
<1>3. CASE k # "sync"
  <2>1. OneShotOutcome(r) \notin claims
    BY <1>1 DEF OneShotOutcome, Successes
  <2> QED BY <1>3, <2>1 DEF ProductOf, classify_push, classify_pull, Report,
                            Verdict
<1> QED BY <1>2, <1>3

(* A result of a failure before anything was mutated is consistent unless   *)
(* it names a layer that did not fail. *)
LEMMA FailureConsistent ==
    ASSUME NEW r, r.status # "OK", r.local_saved = 0, r.remote_uploaded = 0,
           r.status = "TRUSTED_TIME_FAILED" => r.time # "OK",
           r.status = "DNS_FAILED" => r.dns # "OK",
           r.status = "HTTPS_FAILED" => r.transport # "OK",
           r.status = "PROTOCOL_FAILED" =>
               r.kosync \in {"HTTP_ERROR", "BAD_JSON", "BAD_PROTOCOL"}
    PROVE  ~Inconsistent(r)
BY DEF Inconsistent

-----------------------------------------------------------------------------
(* Steps of a running operation that touch neither the exchange, the server *)
(* nor the settings: it goes on, or it ends in a failure.                   *)
LEMMA AnswerStays ==
    ASSUME RecordsInv, UNCHANGED <<wire, op>>,
           pc \notin {"idle", "getting", "classify"}, pc' # "getting"
    PROVE  AnswerFinal' /\ Gets(op.no)' = {}
BY DEF RecordsInv, AnswerFinal, Gets

LEMMA GoesOn ==
    ASSUME RecordsInv, UNCHANGED <<wire, op>>,
           pc \notin {"idle", "getting", "classify"},
           pc' \notin {"getting", "putting", "classify"},
           ReadsStillHold', FetchedIsAnswer'
    PROVE  RecordsInv'
BY AnswerStays DEF RecordsInv, UploadIsLocal, OutcomeTruthful, NeverFailsClosed

LEMMA EndsInFailure ==
    ASSUME RecordsInv, UNCHANGED <<wire, op>>,
           pc \notin {"idle", "getting", "classify"}, pc' = "classify",
           res'.status \notin Successes,
           op.kind = "sync" => ~Inconsistent(res')
    PROVE  RecordsInv'
<1>1. AnswerFinal'
  BY AnswerStays
<1>2. ReadsStillHold' /\ FetchedIsAnswer' /\ UploadIsLocal' /\ NeverFailsClosed'
  BY DEF ReadsStillHold, FetchedIsAnswer, UploadIsLocal, NeverFailsClosed
<1>3. OutcomeTruthful'
  <2>1. ProductOf(op'.kind, res').outcome \notin
            {"UNCHANGED", "CONFLICT", "NO_STATE", "IMPORTED", "PERSISTED",
             "REMOTE_MISSING", "UPLOADED"}
    BY FailureClaimsNothing
  <2> QED BY <2>1 DEF OutcomeTruthful
<1> QED BY <1>1, <1>2, <1>3 DEF RecordsInv

(* Running out of a plain failure: neither time nor dns nor transport nor    *)
(* kosync has to be looked at. *)
LEMMA EndsPlainly ==
    ASSUME EvidenceInv, RecordsInv, UNCHANGED <<wire, op>>,
           pc \notin {"idle", "getting", "putting", "classify"},
           pc' = "classify",
           res'.status \in SyncStatuses \ (Successes \cup
               {"TRUSTED_TIME_FAILED", "DNS_FAILED", "HTTPS_FAILED",
                "PROTOCOL_FAILED"}),
           res'.local_saved = 0, res'.remote_uploaded = 0
    PROVE  RecordsInv'
<1>1. res'.status \notin Successes /\ ~Inconsistent(res')
  BY FailureConsistent DEF Successes
<1> QED BY <1>1, EndsInFailure

LEMMA IdentifyRecords == EvidenceInv /\ RecordsInv /\ Identify => RecordsInv'
<1> SUFFICES ASSUME EvidenceInv, RecordsInv, Identify PROVE RecordsInv'
  OBVIOUS
<1> USE DEF End, EndWith, Quiet, Running, netVars, Goto
<1>1. CASE End("IDENTITY_FAILED")
  <2>1. res'.status = "IDENTITY_FAILED" /\ res'.local_saved = 0
        /\ res'.remote_uploaded = 0
    BY <1>1 DEF Identify, EvidenceInv, TypeOK, Results, ResultFlags
  <2> QED BY <1>1, <2>1, EndsPlainly DEF Identify, SyncStatuses, Successes
<1>2. CASE pc' = IF op.kind = "pull" THEN "time" ELSE "load"
  <2>1. ReadsStillHold' /\ FetchedIsAnswer'
    BY <1>2 DEF Identify, RecordsInv, ReadsStillHold, FetchedIsAnswer
  <2> QED BY <1>2, <2>1, GoesOn DEF Identify
<1> QED BY <1>1, <1>2 DEF Identify

LEMMA LoadRecords ==
    EvidenceInv /\ RecordsInv /\ (LoadFails \/ LoadForSync \/ LoadForPush)
        => RecordsInv'
<1> SUFFICES ASSUME EvidenceInv, RecordsInv,
                    LoadFails \/ LoadForSync \/ LoadForPush
             PROVE  RecordsInv'
  OBVIOUS
<1> USE DEF End, EndWith, Quiet, Running, netVars, Goto
<1>1. res \in Results /\ res.local_saved = 0 /\ res.remote_uploaded = 0
  BY DEF EvidenceInv, TypeOK, ResultFlags, LoadFails, LoadForSync, LoadForPush
<1>2. pc = "load" /\ UNCHANGED <<wire, op, settings, answered>>
  BY DEF LoadFails, LoadForSync, LoadForPush
<1>3. ASSUME pc' = "classify" PROVE RecordsInv'
  <2>1. \E s \in {"LOCAL_FAILED", "NO_MEMORY", "LOCAL_MISSING",
                  "LOCAL_UNSUPPORTED", "INVALID"} :
           \/ res' = [res EXCEPT !.status = s]
           \/ \E k \in KosyncResults : res' = [res EXCEPT !.kosync = k, !.status = s]
    BY <1>3 DEF LoadFails, LoadForSync, LoadForPush, map_kosync, KosyncResults
  <2>2. /\ res'.status \in {"LOCAL_FAILED", "NO_MEMORY", "LOCAL_MISSING",
                            "LOCAL_UNSUPPORTED", "INVALID"}
        /\ res'.local_saved = 0 /\ res'.remote_uploaded = 0
    BY <1>1, <2>1 DEF Results
  <2> QED BY <1>2, <1>3, <2>2, EndsPlainly DEF SyncStatuses, Successes
<1>4. ASSUME pc' = "time" PROVE RecordsInv'
  <2>1. ReadsStillHold' /\ FetchedIsAnswer'
    BY <1>4 DEF LoadFails, LoadForSync, LoadForPush, RecordsInv,
                ReadsStillHold, FetchedIsAnswer
  <2> QED BY <1>2, <1>4, <2>1, GoesOn
<1> QED BY <1>3, <1>4 DEF LoadFails, LoadForSync, LoadForPush

LEMMA ConnectRecords ==
    EvidenceInv /\ RecordsInv
        /\ (EstablishTime \/ ResolveHost \/ cn_kosync_client_set_tls)
        => RecordsInv'
<1> SUFFICES ASSUME EvidenceInv, RecordsInv,
                    EstablishTime \/ ResolveHost \/ cn_kosync_client_set_tls
             PROVE  RecordsInv'
  OBVIOUS
<1> USE DEF EndWith, Quiet, Running, netVars, Goto
<1>1. res \in Results /\ res.local_saved = 0 /\ res.remote_uploaded = 0
  BY DEF EvidenceInv, TypeOK, ResultFlags, EstablishTime, ResolveHost,
         cn_kosync_client_set_tls
<1>2. /\ pc \in {"time", "dns", "tls"}
      /\ UNCHANGED <<wire, op, settings, answered, local, loaded, fetched>>
  BY DEF EstablishTime, ResolveHost, cn_kosync_client_set_tls
<1>3. ASSUME pc' = "classify" PROVE RecordsInv'
  <2>1. \/ \E t \in TimeFailures :
              res' = [res EXCEPT !.time = t, !.status = "TRUSTED_TIME_FAILED"]
        \/ \E d \in DnsFailures :
              res' = [res EXCEPT !.dns = d, !.status = "DNS_FAILED"]
        \/ res' = [res EXCEPT !.kosync = "INVALID", !.status = "INVALID"]
    BY <1>3 DEF EstablishTime, ResolveHost, cn_kosync_client_set_tls
  <2>2. /\ res'.local_saved = 0 /\ res'.remote_uploaded = 0
        /\ \/ res'.status = "TRUSTED_TIME_FAILED" /\ res'.time # "OK"
           \/ res'.status = "DNS_FAILED" /\ res'.dns # "OK"
           \/ res'.status = "INVALID"
    BY <1>1, <2>1 DEF Results, TimeFailures, DnsFailures
  <2>3. res'.status \notin Successes /\ ~Inconsistent(res')
    BY <2>2, FailureConsistent DEF Successes
  <2> QED BY <1>2, <1>3, <2>3, EndsInFailure
<1>4. ASSUME pc' # "classify" PROVE RecordsInv'
  <2>1. /\ pc' \in {"dns", "tls", "put", "get"}
        /\ pc' = "put" => pc = "tls" /\ op.kind = "push"
    BY <1>4 DEF EstablishTime, ResolveHost, cn_kosync_client_set_tls
  <2>2. ReadsStillHold' /\ FetchedIsAnswer'
    BY <1>2, <2>1 DEF RecordsInv, ReadsStillHold, FetchedIsAnswer
  <2> QED BY <1>2, <2>1, <2>2, GoesOn
<1> QED BY <1>3, <1>4

LEMMA FailsEarlyRecords ==
    EvidenceInv /\ RecordsInv /\ (GetFailsEarly \/ PutFailsEarly) => RecordsInv'
<1> SUFFICES ASSUME EvidenceInv, RecordsInv, GetFailsEarly \/ PutFailsEarly
             PROVE  RecordsInv'
  OBVIOUS
<1> USE DEF EndKosync, EndWith, Quiet, Running, netVars, Goto
<1>1. res \in Results /\ res.local_saved = 0 /\ res.remote_uploaded = 0
  BY DEF EvidenceInv, TypeOK, ResultFlags, GetFailsEarly, PutFailsEarly
<1>2. \E k, s \in {"INVALID", "NO_MEMORY"} :
         \/ res' = [res EXCEPT !.kosync = k, !.status = s,
                               !.transport = "INVALID", !.http = "0"]
         \/ res' = [res EXCEPT !.remote_put_attempted = 1, !.kosync = k,
                               !.status = s, !.transport = "INVALID",
                               !.http = "0"]
  BY DEF GetFailsEarly, PutFailsEarly, map_kosync
<1>3. /\ res'.status \in {"INVALID", "NO_MEMORY"}
      /\ res'.local_saved = 0 /\ res'.remote_uploaded = 0
  BY <1>1, <1>2 DEF Results
<1> QED BY <1>3, EndsPlainly DEF GetFailsEarly, PutFailsEarly, SyncStatuses,
                                 Successes

LEMMA PrepareUploadRecords ==
    EvidenceInv /\ RecordsInv /\ PrepareUpload => RecordsInv'
<1> SUFFICES ASSUME EvidenceInv, RecordsInv, PrepareUpload PROVE RecordsInv'
  OBVIOUS
<1> USE DEF End, EndWith, Quiet, Running, netVars, Goto
<1>1. res \in Results /\ res.local_saved = 0 /\ res.remote_uploaded = 0
  BY DEF EvidenceInv, TypeOK, ResultFlags, PrepareUpload
<1>2. ASSUME pc' = "classify" PROVE RecordsInv'
  <2>1. \E s \in {"LOCAL_UNSUPPORTED", "INVALID", "NO_MEMORY"} :
           \/ res' = [res EXCEPT !.status = s]
           \/ \E k \in KosyncResults :
                 res' = [res EXCEPT !.kosync = k, !.status = s]
    BY <1>2 DEF PrepareUpload, map_kosync, KosyncResults
  <2>2. /\ res'.status \in {"LOCAL_UNSUPPORTED", "INVALID", "NO_MEMORY"}
        /\ res'.local_saved = 0 /\ res'.remote_uploaded = 0
    BY <1>1, <2>1 DEF Results
  <2> QED BY <1>2, <2>2, EndsPlainly DEF PrepareUpload, SyncStatuses, Successes
<1>3. ASSUME pc' = "put" PROVE RecordsInv'
  <2>1. op.kind = "sync"
    BY DEF PrepareUpload, EvidenceInv, TypeOK, Kinds, ResultFlags
  <2>2. ReadsStillHold' /\ FetchedIsAnswer'
    BY <1>3, <2>1 DEF PrepareUpload, RecordsInv, ReadsStillHold, FetchedIsAnswer
  <2> QED BY <1>3, <2>2, GoesOn DEF PrepareUpload
<1> QED BY <1>2, <1>3 DEF PrepareUpload

-----------------------------------------------------------------------------
(* The decision, and what it leads to. *)

(* A success that is reached with no request left. *)
LEMMA EndsInSuccess ==
    ASSUME RecordsInv, UNCHANGED <<wire, op>>,
           pc \notin {"idle", "getting", "classify"}, pc' = "classify",
           OutcomeTruthful', NeverFailsClosed'
    PROVE  RecordsInv'
<1>1. AnswerFinal' /\ Gets(op.no)' = {}
  BY AnswerStays
<1>2. ReadsStillHold' /\ FetchedIsAnswer' /\ UploadIsLocal'
  BY DEF ReadsStillHold, FetchedIsAnswer, UploadIsLocal
<1> QED BY <1>1, <1>2 DEF RecordsInv

(* What a consistent success of a sync is reported as. *)
LEMMA SuccessOutcome ==
    ASSUME NEW r, r.status = "OK", ~Inconsistent(r)
    PROVE  ProductOf("sync", r).outcome =
               CASE r.decision = "NO_STATE"        -> "NO_STATE"
                 [] r.decision = "LOCAL_SELECTED"  -> "UPLOADED"
                 [] r.decision = "REMOTE_SELECTED" -> "IMPORTED"
                 [] r.decision = "NO_CHANGE"       -> "UNCHANGED"
                 [] OTHER -> "CONFLICT"
BY DEF ProductOf, cn_kosync_policy_classify, Report, SyncVerdict,
       classify_success, Verdict

LEMMA DecidePullRecords ==
    EvidenceInv /\ RecordsInv /\ DecidePull => RecordsInv'
<1> SUFFICES ASSUME EvidenceInv, RecordsInv, DecidePull PROVE RecordsInv'
  OBVIOUS
<1> USE DEF End, EndWith, Quiet, Running, netVars, Goto
<1>1. CASE fetched = NoRecord /\ End("REMOTE_MISSING")
  <2>1. res'.status = "REMOTE_MISSING"
    BY <1>1 DEF EvidenceInv, TypeOK, Results
  <2>2. ProductOf(op.kind, res)'.outcome = "REMOTE_MISSING"
    BY <2>1 DEF DecidePull, ProductOf, classify_pull, OneShotOutcome, Report,
                Verdict
  <2>3. OutcomeTruthful'
    BY <1>1, <2>2 DEF DecidePull, RecordsInv, FetchedIsAnswer, OutcomeTruthful
  <2>4. NeverFailsClosed'
    BY DEF DecidePull, NeverFailsClosed
  <2> QED BY <1>1, <2>3, <2>4, EndsInSuccess DEF DecidePull
<1>2. CASE fetched # NoRecord /\ pc' = "save" /\ UNCHANGED res
  <2>1. ReadsStillHold' /\ FetchedIsAnswer'
    BY <1>2 DEF DecidePull, RecordsInv, ReadsStillHold, FetchedIsAnswer
  <2> QED BY <1>2, <2>1, GoesOn DEF DecidePull
<1> QED BY <1>1, <1>2 DEF DecidePull

LEMMA DecideSyncRecords ==
    EvidenceInv /\ RecordsInv /\ DecideSync => RecordsInv'
<1> SUFFICES ASSUME EvidenceInv, RecordsInv, DecideSync PROVE RecordsInv'
  OBVIOUS
<1> USE DEF Quiet, Running, netVars, Goto
<1>0. pc = "decide" /\ op.kind = "sync" /\ op' = op
  BY DEF DecideSync
<1>1. /\ res.remote_uploaded = 0 /\ res.local_save_attempted = 0
      /\ res.local_saved = 0 /\ res.remote_put_attempted = 0
      /\ res.local_present = 1 <=> loaded # NoRecord
      /\ res.remote_present = 1 <=> fetched # NoRecord
      /\ res \in Results
  BY <1>0 DEF EvidenceInv, TypeOK, ResultFlags
<1>2. /\ res'.remote_uploaded = 0 /\ res'.local_save_attempted = 0
      /\ res'.local_saved = 0 /\ res'.remote_put_attempted = 0
      /\ res'.local_present = res.local_present
      /\ res'.remote_present = res.remote_present
      /\ res'.decision = Decision
      /\ Decision \in {"NO_STATE", "NO_CHANGE", "AMBIGUOUS"} => res'.status = "OK"
  BY <1>1 DEF DecideSync, Results
<1>3. fetched = answered[op.no] /\ loaded = local
  BY <1>0 DEF RecordsInv, FetchedIsAnswer, ReadsStillHold
<1>4. CASE Decision \in {"NO_STATE", "NO_CHANGE", "AMBIGUOUS"}
  <2>1. pc' = "classify" /\ res'.status = "OK"
    BY <1>2, <1>4 DEF DecideSync
  <2>2. ~Inconsistent(res')
    BY <1>1, <1>2, <1>4, <2>1 DEF Inconsistent, success_invariants_hold, Decision
  <2>3. ProductOf(op.kind, res)'.outcome =
           CASE Decision = "NO_STATE" -> "NO_STATE"
             [] Decision = "NO_CHANGE" -> "UNCHANGED"
             [] OTHER -> "CONFLICT"
    BY <1>0, <1>2, <1>4, <2>1, <2>2, SuccessOutcome
  <2>4. answered[op.no] \in Positions \cup {NoRecord}
    BY <1>3 DEF EvidenceInv, TypeOK
  <2>5. OutcomeTruthful'
    <3>1. local' = local /\ answered' = answered
      BY DEF DecideSync
    <3> QED BY <1>0, <1>3, <1>4, <2>3, <2>4, <3>1 DEF OutcomeTruthful, Decision
  <2> QED BY <1>0, <2>1, <2>2, <2>5, EndsInSuccess DEF DecideSync, NeverFailsClosed
<1>5. CASE Decision \in {"REMOTE_SELECTED", "LOCAL_SELECTED"}
  <2>1. /\ pc' = IF Decision = "REMOTE_SELECTED" THEN "save" ELSE "upload"
        /\ UNCHANGED <<wire, answered, settings, local, loaded, fetched>>
    BY <1>5 DEF DecideSync
  <2>2. /\ Decision = "REMOTE_SELECTED" => loaded = NoRecord /\ fetched # NoRecord
        /\ Decision = "LOCAL_SELECTED" => fetched = NoRecord
    BY DEF Decision
  <2>3. res.local_present \in {0, 1}
    BY <1>1 DEF Results, Flag
  <2>4. ReadsStillHold' /\ FetchedIsAnswer'
    BY <1>0, <1>1, <1>2, <1>3, <1>5, <2>1, <2>2, <2>3
    DEF RecordsInv, ReadsStillHold, FetchedIsAnswer
  <2> QED BY <1>0, <2>1, <2>4, GoesOn
<1> QED BY <1>4, <1>5 DEF Decision

LEMMA SaveRecords ==
    EvidenceInv /\ RecordsInv /\ (SaveRemote \/ SaveFails) => RecordsInv'
<1> SUFFICES ASSUME EvidenceInv, RecordsInv, SaveRemote \/ SaveFails
             PROVE  RecordsInv'
  OBVIOUS
<1> USE DEF EndWith, Quiet, Running, netVars, Goto
<1>0. /\ pc = "save" /\ pc' = "classify" /\ UNCHANGED <<wire, op, answered>>
      /\ op.kind \in {"sync", "pull"}
  BY DEF SaveRemote, SaveFails, EvidenceInv, TypeOK, Kinds, ResultFlags
<1>1. /\ res \in Results /\ res.remote_uploaded = 0 /\ res.local_saved = 0
      /\ res.remote_put_attempted = 0
  BY <1>0 DEF EvidenceInv, TypeOK, ResultFlags
<1>2. CASE SaveFails
  <2>1. /\ res'.status \in {"LOCAL_FAILED", "NO_MEMORY"}
        /\ res'.local_saved = 0 /\ res'.remote_uploaded = 0
    BY <1>1, <1>2 DEF SaveFails, Results
  <2> QED BY <1>0, <2>1, EndsPlainly DEF SyncStatuses, Successes
<1>3. CASE SaveRemote
  <2>1. /\ res'.local_saved = 1 /\ res'.local_save_attempted = 1
        /\ res'.remote_uploaded = 0 /\ res'.remote_put_attempted = 0
        /\ res'.decision = res.decision /\ res'.local_present = res.local_present
        /\ res'.remote_present = res.remote_present
        /\ res'.status = IF op.kind = "pull" THEN "PERSISTED" ELSE "OK"
    BY <1>1, <1>3 DEF SaveRemote, Results
  <2>2. /\ local' = [pos |-> fetched, progress |-> "known"]
        /\ fetched = answered[op.no]
    BY <1>0, <1>3 DEF SaveRemote, RecordsInv, FetchedIsAnswer
  <2>3. local' # NoRecord
    BY <1>3, StoredAssumption DEF SaveRemote, Records
  <2>4. CASE op.kind = "sync"
    <3>1. /\ res.decision = "REMOTE_SELECTED"
          /\ res.local_present = 0 /\ res.remote_present = 1
      BY <1>0, <2>4 DEF RecordsInv, FetchedIsAnswer
    <3>2. ~Inconsistent(res')
      BY <2>1, <2>4, <3>1 DEF Inconsistent, success_invariants_hold
    <3>3. ProductOf(op.kind, res)'.outcome = "IMPORTED"
      BY <1>0, <2>1, <2>4, <3>1, <3>2, SuccessOutcome
    <3>4. OutcomeTruthful' /\ NeverFailsClosed'
      BY <1>0, <2>2, <2>3, <3>2, <3>3 DEF OutcomeTruthful, NeverFailsClosed
    <3> QED BY <1>0, <3>4, EndsInSuccess
  <2>5. CASE op.kind = "pull"
    <3>1. ProductOf(op.kind, res)'.outcome = "PERSISTED"
      BY <1>0, <2>1, <2>5 DEF ProductOf, classify_pull, OneShotOutcome, Report,
                              Verdict
    <3>2. OutcomeTruthful' /\ NeverFailsClosed'
      BY <1>0, <2>2, <2>3, <2>5, <3>1 DEF OutcomeTruthful, NeverFailsClosed
    <3> QED BY <1>0, <3>2, EndsInSuccess
  <2> QED BY <1>0, <2>4, <2>5
<1> QED BY <1>2, <1>3

-----------------------------------------------------------------------------
(* Between operations. *)
LEMMA IdleRecords ==
    ASSUME RecordsInv, pc' = "idle", UNCHANGED <<wire, op>>
    PROVE  RecordsInv'
<1>1. AnswerFinal'
  BY DEF RecordsInv, AnswerFinal, Gets
<1>2. /\ ReadsStillHold' /\ FetchedIsAnswer' /\ UploadIsLocal'
      /\ OutcomeTruthful' /\ NeverFailsClosed'
  BY DEF ReadsStillHold, FetchedIsAnswer, UploadIsLocal, OutcomeTruthful,
         NeverFailsClosed
<1> QED BY <1>1, <1>2 DEF RecordsInv

LEMMA StartRecords ==
    ASSUME EvidenceInv, RecordsInv, NEW n \in Ops, NEW k \in Kinds, Start(n, k)
    PROVE  RecordsInv'
<1>1. /\ pc' = "settings" /\ op'.no = n /\ n = op.no + 1 /\ wire' = wire
  BY DEF Start, Goto, Quiet, netVars
<1>2. op.no \in Nat
  BY OpNumbers DEF EvidenceInv, TypeOK
<1>3. AnswerFinal'
  <2>1. \A m \in Ops : m > op.no => Gets(m) = {}
    BY DEF RecordsInv, AnswerFinal
  <2>2. \A m \in Ops : m \in Nat
    BY OpNumbers
  <2>3. \A m \in Ops : m >= n => Gets(m)' = {}
    BY <1>1, <1>2, <2>1, <2>2 DEF Gets
  <2> QED BY <1>1, <1>2, <2>2, <2>3 DEF AnswerFinal
<1>4. /\ ReadsStillHold' /\ FetchedIsAnswer' /\ UploadIsLocal'
      /\ OutcomeTruthful' /\ NeverFailsClosed'
  BY <1>1 DEF ReadsStillHold, FetchedIsAnswer, UploadIsLocal, OutcomeTruthful,
              NeverFailsClosed
<1> QED BY <1>1, <1>3, <1>4 DEF RecordsInv

LEMMA ControllerRecords ==
    RecordsInv /\ (LoadSettings \/ LoadCredentials \/ ResolveConfig \/ Classify)
        => RecordsInv'
<1> SUFFICES ASSUME RecordsInv,
                    LoadSettings \/ LoadCredentials \/ ResolveConfig \/ Classify
             PROVE  RecordsInv'
  OBVIOUS
<1>1. /\ UNCHANGED <<wire, op, settings>>
      /\ \/ pc' = "idle"
         \/ /\ pc \in {"settings", "credentials", "config"}
            /\ pc' \in {"credentials", "config", "identity"}
            /\ pc = "settings" => settings = "enabled"
  BY DEF LoadSettings, LoadCredentials, ResolveConfig, Classify, Pass, Return,
         preflight_failure, Goto, Quiet, netVars
<1>2. CASE pc' = "idle"
  BY <1>1, <1>2, IdleRecords
<1>3. CASE pc' # "idle"
  <2>1. ReadsStillHold' /\ FetchedIsAnswer'
    BY <1>1, <1>3 DEF RecordsInv, ReadsStillHold, FetchedIsAnswer
  <2> QED BY <1>1, <1>3, <2>1, GoesOn
<1> QED BY <1>2, <1>3

LEMMA EnvironmentRecords ==
    RecordsInv /\ (PowerLoss \/ ReaderSaves \/ SettingsChange) => RecordsInv'
BY IdleRecords DEF PowerLoss, ReaderSaves, SettingsChange, Goto, OnlyNet,
                   netVars, opVars

LEMMA UntouchedRecords ==
    ASSUME RecordsInv,
           UNCHANGED <<net, wire, answered, applied, settings, local, opVars>>
    PROVE  RecordsInv'
<1> USE DEF opVars, RecordsInv
<1>1. AnswerFinal' /\ Gets(op.no)' = Gets(op.no)
  BY DEF AnswerFinal, Gets
<1>2. ReadsStillHold' /\ FetchedIsAnswer' /\ UploadIsLocal'
  BY DEF ReadsStillHold, FetchedIsAnswer, UploadIsLocal
<1>3. OutcomeTruthful' /\ NeverFailsClosed'
  BY DEF OutcomeTruthful, NeverFailsClosed
<1> QED BY <1>1, <1>2, <1>3

-----------------------------------------------------------------------------
(* The exchange. *)
LEMMA CallRecords ==
    EvidenceInv /\ RecordsInv /\ (CallGet \/ CallPut) => RecordsInv'
<1> SUFFICES ASSUME EvidenceInv, RecordsInv, CallGet \/ CallPut PROVE RecordsInv'
  OBVIOUS
<1>1. /\ UNCHANGED <<wire, op, answered, applied, settings, local, loaded, fetched>>
      /\ net'.phase = "request" /\ net'.reply = NoReply
      /\ \/ CallGet /\ pc = "get" /\ pc' = "getting"
         \/ /\ CallPut /\ pc = "put" /\ pc' = "putting"
            /\ net'.req.pos = loaded.pos
  <2>1. CASE CallGet
    BY <2>1 DEF CallGet, StartExchange, OnlyNet, Idle, Running, Goto
  <2>2. CASE CallPut
    BY <2>2 DEF CallPut, StartExchange, OnlyNet, Idle, Running, Goto
  <2> QED BY <2>1, <2>2
<1>2. Gets(op.no)' = {} /\ \A n \in Ops : n > op.no => Gets(n)' = {}
  BY <1>1 DEF RecordsInv, AnswerFinal, Gets
<1>3. AnswerFinal'
  BY <1>1, <1>2 DEF AnswerFinal, NoReply
<1>4. ReadsStillHold'
  BY <1>1 DEF RecordsInv, ReadsStillHold
<1>5. FetchedIsAnswer'
  BY <1>1 DEF RecordsInv, FetchedIsAnswer
<1>6. UploadIsLocal'
  <2>1. CASE pc = "put"
    <3>1. applied[op.no] = NoRecord
      BY <2>1 DEF EvidenceInv, PutProgress, Sent
    <3> QED BY <1>1, <2>1, <3>1 DEF UploadIsLocal
  <2> QED BY <1>1, <2>1 DEF UploadIsLocal
<1> QED BY <1>1, <1>3, <1>4, <1>5, <1>6
        DEF RecordsInv, OutcomeTruthful, NeverFailsClosed

(* What a step of the exchange does to the requests and to the call. *)
LEMMA ExchangeEffect ==
    ASSUME EvidenceInv, ExchangeStep
    PROVE  /\ UNCHANGED <<server, answered, applied>>
           /\ net'.req = net.req /\ net'.reply = net.reply
           /\ \/ wire' = wire
              \/ wire' = wire \cup {net.req} /\ net.phase = "send"
           /\ net'.phase \in {"connect", "open", "send"} =>
                  wire' = wire /\ net.phase \in {"request", "connect", "open"}
           /\ net'.phase # "request"
           /\ net'.phase = "done" /\ net'.result = "OK" => net.reply # NoReply
           /\ pc \in {"getting", "putting"} /\ net.req.op = op.no
           /\ net.req.method = IF pc = "putting" THEN "PUT" ELSE "GET"
<1>1. net \in [phase : Phases, req : Requests \cup {NoRequest},
               result : Transports, reply : Replies]
  BY DEF EvidenceInv, TypeOK, NetTypeOK
<1>2. UNCHANGED <<server, answered, applied>>
      /\ \/ wire' = wire
         \/ wire' = wire \cup {net.req} /\ net.phase = "send"
  BY DEF ExchangeStep, cn_netsimple_build_exchange_request,
         connect_with_timeout, cn_tls_open, SendRequest, SendFails,
         ReceiveReply, ReceiveFails, OnlyNet
<1>3. \/ /\ net.phase \in {"request", "connect", "open"} /\ wire' = wire
         /\ \E p \in {"connect", "open", "send"} :
               net' = [net EXCEPT !.phase = p]
      \/ \E c \in ConnectFailures \cup OpenFailures \cup SendFailures
                     \cup RecvFailures \cup {"INVALID"} :
            net' = [net EXCEPT !.phase = "done", !.result = c]
      \/ /\ net.reply # NoReply
         /\ net' = [net EXCEPT !.phase = "done", !.result = "OK"]
      \/ net' = [net EXCEPT !.phase = "recv"]
  BY DEF ExchangeStep, cn_netsimple_build_exchange_request,
         connect_with_timeout, cn_tls_open, SendRequest, SendFails,
         ReceiveReply, ReceiveFails, OnlyNet, StepTo, FinishExchange
<1>4. "INVALID" # "OK"
  OBVIOUS
<1>5. net.phase # "idle"
  BY DEF ExchangeStep, cn_netsimple_build_exchange_request,
         connect_with_timeout, cn_tls_open, SendRequest, SendFails,
         ReceiveReply, ReceiveFails
<1>6. /\ pc \in {"getting", "putting"} /\ net.req.op = op.no
      /\ net.req.method = IF pc = "putting" THEN "PUT" ELSE "GET"
  BY <1>5 DEF EvidenceInv, ExchangeBelongsToCall
<1> QED BY <1>1, <1>2, <1>3, <1>4, <1>6, FailureCodes

LEMMA ExchangeRecords ==
    ASSUME EvidenceInv, RecordsInv, ExchangeStep,
           UNCHANGED <<settings, local, opVars>>
    PROVE  RecordsInv'
<1> USE DEF opVars
<1>1. /\ UNCHANGED <<answered, applied>>
      /\ net'.req = net.req /\ net'.reply = net.reply
      /\ \/ wire' = wire
         \/ wire' = wire \cup {net.req} /\ net.phase = "send"
      /\ net'.phase \in {"connect", "open", "send"} =>
             wire' = wire /\ net.phase \in {"request", "connect", "open"}
      /\ net'.phase # "request"
      /\ net'.phase = "done" /\ net'.result = "OK" => net.reply # NoReply
  BY ExchangeEffect
<1>2. /\ pc \in {"getting", "putting"} /\ net.req.op = op.no
      /\ net.req.method = IF pc = "putting" THEN "PUT" ELSE "GET"
  BY ExchangeEffect
<1>3. op.no \in Nat
  BY OpNumbers DEF EvidenceInv, TypeOK
<1>4. \A n \in Ops : n # op.no => Gets(n)' = Gets(n)
  BY <1>1, <1>2 DEF Gets
<1>5. AnswerFinal'
  <2>1. \A n \in Ops : n > op.no => Gets(n)' = {}
    BY <1>3, <1>4, OpNumbers DEF RecordsInv, AnswerFinal
  <2>2. CASE pc = "putting"
    <3>1. Gets(op.no)' = Gets(op.no)
      BY <1>1, <1>2, <2>2 DEF Gets
    <3> QED BY <2>1, <2>2, <3>1 DEF RecordsInv, AnswerFinal
  <2>3. CASE pc = "getting"
    <3>1. /\ Gets(op.no) \subseteq {net.req}
          /\ net.phase \in {"request", "connect", "open", "send"} =>
                 Gets(op.no) = {} /\ net.reply = NoReply
          /\ net.reply # NoReply => Gets(op.no) = {}
          /\ net.reply.body = "record" => answered[op.no] = net.reply.pos
          /\ net.reply.body = "empty" => answered[op.no] = NoRecord
      BY <2>3 DEF RecordsInv, AnswerFinal
    <3>2. Gets(op.no)' \subseteq {net.req}
      BY <1>1, <3>1 DEF Gets
    <3>3. wire' = wire => Gets(op.no)' = Gets(op.no)
      BY DEF Gets
    <3>4. net'.phase \in {"request", "connect", "open", "send"} =>
             Gets(op.no)' = {} /\ net'.reply = NoReply
      BY <1>1, <3>1, <3>3
    <3>5. net'.reply # NoReply => Gets(op.no)' = {}
      BY <1>1, <3>1, <3>3
    <3> QED BY <1>1, <2>1, <2>3, <3>1, <3>2, <3>4, <3>5 DEF AnswerFinal
  <2> QED BY <1>2, <2>2, <2>3
<1>6. ReadsStillHold' /\ FetchedIsAnswer' /\ UploadIsLocal'
  BY <1>1 DEF RecordsInv, ReadsStillHold, FetchedIsAnswer, UploadIsLocal
<1> QED BY <1>2, <1>5, <1>6 DEF RecordsInv, OutcomeTruthful, NeverFailsClosed

LEMMA GetReturnsRecords ==
    EvidenceInv /\ RecordsInv /\ GetReturns => RecordsInv'
<1> SUFFICES ASSUME EvidenceInv, RecordsInv, GetReturns PROVE RecordsInv'
  OBVIOUS
<1>0. /\ pc = "getting" /\ net.phase = "done"
      /\ UNCHANGED <<wire, answered, op, loaded, settings, local>>
  BY DEF GetReturns, Running, OnlyNet
<1>1. PICK k \in GetResults(net) :
          \/ k = "OK" /\ pc' = "decide" /\ fetched' = net.reply.pos
          \/ k = "NOT_FOUND" /\ pc' = "decide" /\ fetched' = NoRecord
          \/ /\ k \notin {"OK", "NOT_FOUND"} /\ pc' = "classify"
             /\ res' = [WithOutcome(k) EXCEPT !.status = map_kosync(k)]
  BY DEF GetReturns, GetSucceeds, Goto, EndWith
<1>2. /\ \A n \in Ops : n > op.no => Gets(n)' = {}
      /\ Gets(op.no)' = Gets(op.no)
  BY <1>0 DEF RecordsInv, AnswerFinal, Gets
<1>3. /\ net.reply # NoReply => Gets(op.no) = {}
      /\ net.result = "OK" => net.reply # NoReply
      /\ net.reply.body = "record" => answered[op.no] = net.reply.pos
      /\ net.reply.body = "empty" => answered[op.no] = NoRecord
  BY <1>0 DEF RecordsInv, AnswerFinal
<1>4. /\ op.kind # "pull" => loaded = local
      /\ settings = "enabled" /\ op.kind # "push"
  BY <1>0 DEF RecordsInv, ReadsStillHold, EvidenceInv, ResultFlags
<1>5. CASE pc' = "decide"
  <2>1. /\ net.result = "OK"
        /\ k = "OK" => net.reply.body = "record"
        /\ k = "NOT_FOUND" => net.reply.body = "empty"
        /\ k \in {"OK", "NOT_FOUND"}
    BY <1>1, <1>5 DEF GetResults, map_response, ParseProgress
  <2>2. Gets(op.no)' = {} /\ fetched' = answered[op.no]
    BY <1>1, <1>2, <1>3, <2>1
  <2>3. AnswerFinal'
    BY <1>0, <1>2, <1>5, <2>2 DEF AnswerFinal
  <2>4. ReadsStillHold' /\ FetchedIsAnswer' /\ UploadIsLocal'
    BY <1>0, <1>4, <1>5, <2>2 DEF ReadsStillHold, FetchedIsAnswer, UploadIsLocal
  <2> QED BY <1>5, <2>3, <2>4 DEF RecordsInv, OutcomeTruthful, NeverFailsClosed
<1>6. CASE pc' = "classify"
  <2>1. k \in {"TRANSPORT_ERROR", "AUTH_FAILED", "HTTP_ERROR", "BAD_JSON",
               "BAD_PROTOCOL", "NO_MEMORY"}
    BY <1>1, <1>6 DEF GetResults, map_response, ParseProgress
  <2>2. k = "TRANSPORT_ERROR" => net.result # "OK"
    BY DEF GetResults, map_response, ParseProgress
  <2>3. res \in Results /\ res.local_saved = 0 /\ res.remote_uploaded = 0
    BY <1>0 DEF EvidenceInv, TypeOK, ResultFlags
  <2>4. /\ res'.status = map_kosync(k) /\ res'.kosync = k
        /\ res'.transport = net.result
        /\ res'.local_saved = 0 /\ res'.remote_uploaded = 0
    BY <1>1, <1>6, <2>3 DEF WithOutcome, Results
  <2>5. res'.status \notin Successes /\ ~Inconsistent(res')
    BY <2>1, <2>2, <2>4, FailureConsistent DEF map_kosync, Successes
  <2>6. OutcomeTruthful'
    <3>1. ProductOf(op'.kind, res').outcome \notin
              {"UNCHANGED", "CONFLICT", "NO_STATE", "IMPORTED", "PERSISTED",
               "REMOTE_MISSING", "UPLOADED"}
      BY <2>5, FailureClaimsNothing
    <3> QED BY <3>1 DEF OutcomeTruthful
  <2>7. AnswerFinal'
    BY <1>0, <1>2, <1>6 DEF AnswerFinal
  <2>8. /\ ReadsStillHold' /\ FetchedIsAnswer' /\ UploadIsLocal'
        /\ NeverFailsClosed'
    BY <1>6, <2>5 DEF ReadsStillHold, FetchedIsAnswer, UploadIsLocal,
                      NeverFailsClosed
  <2> QED BY <2>5, <2>6, <2>7, <2>8 DEF RecordsInv
<1> QED BY <1>1, <1>5, <1>6

LEMMA PutReturnsRecords ==
    EvidenceInv /\ RecordsInv /\ PutReturns => RecordsInv'
<1> SUFFICES ASSUME EvidenceInv, RecordsInv, PutReturns PROVE RecordsInv'
  OBVIOUS
<1>0. /\ pc = "putting" /\ pc' = "classify" /\ net.phase = "done"
      /\ UNCHANGED <<wire, answered, applied, op, loaded, fetched, settings, local>>
  BY DEF PutReturns, Running, OnlyNet, EndWith, Goto
<1>1. PICK k \in PutResults(net) :
          \/ /\ k = "OK"
             /\ res' = [WithOutcome(k) EXCEPT
                           !.remote_uploaded = 1,
                           !.status = IF op.kind = "push"
                                      THEN "UPLOADED" ELSE "OK"]
          \/ /\ k # "OK"
             /\ res' = [WithOutcome(k) EXCEPT !.status = map_kosync(k)]
  BY DEF PutReturns, EndWith
<1>2. /\ res \in Results /\ res.local_saved = 0 /\ res.local_save_attempted = 0
      /\ res.remote_uploaded = 0 /\ res.remote_put_attempted = 1
      /\ op.kind \in {"sync", "push"} /\ loaded # NoRecord
  BY <1>0 DEF EvidenceInv, TypeOK, Kinds, ResultFlags
<1>3. loaded = local
  BY <1>0, <1>2 DEF RecordsInv, ReadsStillHold
<1>4. CASE k = "OK"
  <2>1. /\ res'.local_saved = 0 /\ res'.local_save_attempted = 0
        /\ res'.remote_uploaded = 1 /\ res'.remote_put_attempted = 1
        /\ res'.decision = res.decision /\ res'.local_present = res.local_present
        /\ res'.remote_present = res.remote_present
        /\ res'.status = IF op.kind = "push" THEN "UPLOADED" ELSE "OK"
    BY <1>1, <1>2, <1>4 DEF WithOutcome, Results
  <2>2. net.reply.body = "ack"
    BY <1>4 DEF PutResults, map_response, ParseAck
  <2>3. applied[op.no] = local.pos
    BY <1>0, <1>3, <2>2 DEF EvidenceInv, PutProgress, RecordsInv, UploadIsLocal
  <2>4. op.kind = "sync" => ~Inconsistent(res')
    <3>1. op.kind = "sync" =>
             /\ res.decision = "LOCAL_SELECTED"
             /\ res.local_present = 1 /\ res.remote_present = 0
      BY <1>0 DEF EvidenceInv, ResultFlags
    <3> QED BY <2>1, <3>1 DEF Inconsistent, success_invariants_hold
  <2>5. ProductOf(op.kind, res').outcome = "UPLOADED"
    <3>1. CASE op.kind = "sync"
      <4>1. res'.decision = "LOCAL_SELECTED" /\ res'.status = "OK"
        BY <1>0, <2>1, <3>1 DEF EvidenceInv, ResultFlags
      <4> QED BY <2>4, <3>1, <4>1, SuccessOutcome
    <3>2. CASE op.kind = "push"
      BY <2>1, <3>2 DEF ProductOf, classify_push, OneShotOutcome, Report, Verdict
    <3> QED BY <1>2, <3>1, <3>2
  <2>6. OutcomeTruthful' /\ NeverFailsClosed'
    BY <1>0, <1>2, <1>3, <2>3, <2>4, <2>5 DEF OutcomeTruthful, NeverFailsClosed
  <2> QED BY <1>0, <2>6, EndsInSuccess
<1>5. CASE k # "OK"
  <2>1. k \in {"TRANSPORT_ERROR", "AUTH_FAILED", "HTTP_ERROR", "BAD_JSON",
               "BAD_PROTOCOL", "NO_MEMORY"}
    BY <1>5 DEF PutResults, map_response, ParseAck
  <2>2. k = "TRANSPORT_ERROR" => net.result # "OK"
    BY DEF PutResults, map_response, ParseAck
  <2>3. /\ res'.status = map_kosync(k) /\ res'.kosync = k
        /\ res'.transport = net.result
        /\ res'.local_saved = 0 /\ res'.remote_uploaded = 0
    BY <1>1, <1>2, <1>5 DEF WithOutcome, Results
  <2>4. res'.status \notin Successes /\ ~Inconsistent(res')
    BY <2>1, <2>2, <2>3, FailureConsistent DEF map_kosync, Successes
  <2> QED BY <1>0, <2>4, EndsInFailure
<1> QED BY <1>4, <1>5

-----------------------------------------------------------------------------
(* The server takes request r off the wire and answers it. *)
LEMMA AnsweredRecords ==
    ASSUME EvidenceInv, RecordsInv, UNCHANGED <<settings, local, opVars>>,
           NEW r \in wire, wire' = wire \ {r}, NEW reply,
           net' = IF net.phase = "recv" /\ net.req = r
                  THEN [net EXCEPT !.reply = reply] ELSE net,
           reply # NoReply,
           \/ r.method = "GET" /\ answered' = [answered EXCEPT ![r.op] = server]
           \/ UNCHANGED answered,
           r.method = "GET" /\ reply.body = "record" =>
               reply.pos = server /\ answered' = [answered EXCEPT ![r.op] = server],
           r.method = "GET" /\ reply.body = "empty" =>
               server = NoRecord /\ answered' = [answered EXCEPT ![r.op] = server],
           \/ r.method = "PUT" /\ applied' = [applied EXCEPT ![r.op] = r.pos]
           \/ UNCHANGED applied
    PROVE  RecordsInv'
<1> USE DEF opVars
<1>0. /\ r.op \in Ops
      /\ answered \in [Ops -> Positions \cup {NoRecord, "unanswered"}]
      /\ applied \in [Ops -> Positions \cup {NoRecord}]
      /\ net \in [phase : Phases, req : Requests \cup {NoRequest},
                  result : Transports, reply : Replies]
  BY DEF EvidenceInv, TypeOK, NetTypeOK, Requests
<1>1. \A n \in Ops : Gets(n)' = Gets(n) \ {r}
  BY DEF Gets
<1>2. ASSUME pc # "idle", Gets(op.no) = {}
      PROVE  answered'[op.no] = answered[op.no]
  <2>1. ~(r.op = op.no /\ r.method = "GET") /\ op.no \in Ops
    BY <1>2 DEF Gets, EvidenceInv, NumbersFresh
  <2> QED BY <1>0, <2>1
<1>3. /\ net'.phase = net.phase /\ net'.result = net.result
      /\ net'.req = net.req
      /\ \/ net'.reply = net.reply
         \/ net.phase = "recv" /\ net.req = r /\ net'.reply = reply
  BY <1>0
<1>4. AnswerFinal'
  <2>1. \A n \in Ops : n > op.no => Gets(n)' = {}
    BY <1>1 DEF RecordsInv, AnswerFinal
  <2>2. Gets(op.no)' \subseteq Gets(op.no)
    BY DEF Gets
  <2>3. CASE pc # "getting"
    BY <2>1, <2>2, <2>3 DEF RecordsInv, AnswerFinal
  <2>4. CASE pc = "getting"
    <3>1. /\ Gets(op.no) \subseteq {net.req}
          /\ net.phase \in {"request", "connect", "open", "send"} =>
                 Gets(op.no) = {} /\ net.reply = NoReply
          /\ net.reply # NoReply => Gets(op.no) = {}
          /\ net.phase = "done" /\ net.result = "OK" => net.reply # NoReply
          /\ net.reply.body = "record" => answered[op.no] = net.reply.pos
          /\ net.reply.body = "empty" => answered[op.no] = NoRecord
      BY <2>4 DEF RecordsInv, AnswerFinal
    <3>2. op.no \in Ops /\ net.req.op = op.no /\ net.req.method = "GET"
      BY <2>4 DEF EvidenceInv, NumbersFresh, ExchangeBelongsToCall
    <3>3. CASE net.phase = "recv" /\ net.req = r /\ net'.reply = reply
      <4>1. Gets(op.no)' = {}
        BY <1>1, <3>1, <3>2, <3>3
      <4>2. /\ reply.body = "record" => answered'[op.no] = reply.pos
            /\ reply.body = "empty" => answered'[op.no] = NoRecord
        BY <1>0, <3>2, <3>3
      <4> QED BY <1>3, <2>1, <2>4, <3>3, <4>1, <4>2 DEF AnswerFinal
    <3>4. CASE net'.reply = net.reply
      <4>1. net.reply # NoReply => answered'[op.no] = answered[op.no]
        BY <1>2, <2>4, <3>1
      <4>2. /\ net'.reply.body = "record" => answered'[op.no] = net'.reply.pos
            /\ net'.reply.body = "empty" => answered'[op.no] = NoRecord
        BY <3>1, <3>4, <4>1 DEF NoReply
      <4> QED BY <1>3, <2>1, <2>2, <2>4, <3>1, <3>4, <4>2 DEF AnswerFinal
    <3> QED BY <1>3, <3>3, <3>4
  <2> QED BY <2>3, <2>4
<1>5. ReadsStillHold'
  BY DEF RecordsInv, ReadsStillHold
<1>6. FetchedIsAnswer'
  <2>1. pc \in {"decide", "save", "upload", "put", "putting"} =>
           answered'[op.no] = answered[op.no]
    BY <1>2 DEF RecordsInv, AnswerFinal
  <2> QED BY <2>1 DEF RecordsInv, FetchedIsAnswer
<1>7. ASSUME pc \in {"putting", "classify"}, applied[op.no] # NoRecord
      PROVE  applied'[op.no] = applied[op.no]
  <2>1. op.no \in Ops
    BY <1>7 DEF EvidenceInv, NumbersFresh
  <2>2. r.method = "PUT" => applied[r.op] = NoRecord
    BY DEF EvidenceInv, PutHandledOnce
  <2> QED BY <1>0, <1>7, <2>1, <2>2
<1>8. UploadIsLocal'
  <2> SUFFICES ASSUME pc = "putting" PROVE UploadIsLocal'
    BY DEF UploadIsLocal
  <2>1. net.req.pos = loaded.pos /\ applied[op.no] \in {NoRecord, loaded.pos}
    BY DEF RecordsInv, UploadIsLocal
  <2>2. \A q \in wire : q.op = op.no /\ q.method = "PUT" => q = net.req
    BY DEF EvidenceInv, PutProgress, Puts
  <2>0. op.no \in Ops
    BY DEF EvidenceInv, NumbersFresh
  <2>3. applied'[op.no] \in {applied[op.no], net.req.pos}
    BY <1>0, <2>2, <2>0
  <2> QED BY <1>3, <1>7, <2>1, <2>3 DEF UploadIsLocal
<1>9. pc = "classify" /\ res.status \in Successes => Gets(op.no)' = {}
  BY DEF RecordsInv, Gets
<1>10. OutcomeTruthful'
  <2> SUFFICES ASSUME pc = "classify" PROVE OutcomeTruthful'
    BY DEF OutcomeTruthful
  <2> DEFINE o == ProductOf(op.kind, res).outcome
  <2>0. /\ o = "UNCHANGED" => local # NoRecord /\ local.pos = answered[op.no]
        /\ o = "CONFLICT" => /\ local # NoRecord /\ local.pos # answered[op.no]
                             /\ answered[op.no] \in Positions
        /\ o = "NO_STATE" => local = NoRecord /\ answered[op.no] = NoRecord
        /\ o \in {"IMPORTED", "PERSISTED"} =>
               local # NoRecord /\ local.pos = answered[op.no]
        /\ o = "REMOTE_MISSING" => answered[op.no] = NoRecord
        /\ o = "UPLOADED" => local # NoRecord /\ applied[op.no] = local.pos
    BY DEF RecordsInv, OutcomeTruthful
  <2>1. CASE res.status \notin Successes
    <3>1. o \notin {"UNCHANGED", "CONFLICT", "NO_STATE", "IMPORTED", "PERSISTED",
                    "REMOTE_MISSING", "UPLOADED"}
      BY <2>1, FailureClaimsNothing
    <3> QED BY <3>1 DEF OutcomeTruthful
  <2>2. CASE res.status \in Successes
    <3>1. answered'[op.no] = answered[op.no]
      BY <1>2, <2>2 DEF RecordsInv
    <3>2. o = "UPLOADED" => applied'[op.no] = applied[op.no]
      <4>1. local # NoRecord => local.pos # NoRecord
        BY NoRecordAssumption, XPointersAssumption
        DEF EvidenceInv, TypeOK, Stored, Records
      <4> QED BY <1>7, <2>0, <4>1
    <3> QED BY <2>0, <3>1, <3>2 DEF OutcomeTruthful
  <2> QED BY <2>1, <2>2
<1>11. NeverFailsClosed'
  BY DEF RecordsInv, NeverFailsClosed
<1> QED BY <1>4, <1>5, <1>6, <1>8, <1>9, <1>10, <1>11 DEF RecordsInv

LEMMA ServerRecords ==
    ASSUME EvidenceInv, RecordsInv, ServerStep, UNCHANGED <<settings, local, opVars>>
    PROVE  RecordsInv'
<1>1. PICK r \in wire : ServerRefuses(r) \/ ServerServesGet(r)
                                         \/ ServerAppliesPut(r)
  BY DEF ServerStep
<1>2. r.method \in {"GET", "PUT"} /\ "GET" # "PUT"
  BY DEF EvidenceInv, TypeOK, NetTypeOK, Requests
<1>3. \A rep \in Failing \cup Garbled \cup {Answer("401", "none", NoRecord)} :
         rep # NoReply /\ rep.body \notin {"record", "empty"}
  BY DEF Failing, Garbled, Answer, NoReply, HttpErrors
<1>4. CASE ServerRefuses(r)
  <2>1. PICK reply \in Failing \cup Garbled \cup {Answer("401", "none", NoRecord)} :
           ReplyTo(r, reply)
    BY <1>4 DEF ServerRefuses
  <2>2. reply # NoReply /\ reply.body \notin {"record", "empty"}
    BY <1>3
  <2> QED BY <1>4, <2>1, <2>2, AnsweredRecords DEF ServerRefuses, ReplyTo
<1>5. CASE ServerServesGet(r)
  <2> DEFINE reply == IF server = NoRecord THEN Answer("200", "empty", NoRecord)
                      ELSE Answer("200", "record", server)
  <2>1. /\ r.method = "GET" /\ ReplyTo(r, reply) /\ UNCHANGED applied
        /\ answered' = [answered EXCEPT ![r.op] = server]
    BY <1>5 DEF ServerServesGet
  <2>2. /\ reply # NoReply
        /\ reply.body = "record" => reply.pos = server
        /\ reply.body = "empty" => server = NoRecord
    BY DEF Answer, NoReply
  <2> HIDE DEF reply
  <2> QED BY <2>1, <2>2, AnsweredRecords DEF ReplyTo
<1>6. CASE ServerAppliesPut(r)
  <2>1. PICK reply \in Failing \cup Garbled \cup {Answer("200", "ack", NoRecord)} :
           ReplyTo(r, reply)
    BY <1>6 DEF ServerAppliesPut
  <2>2. reply # NoReply
    BY <1>3 DEF Answer, NoReply
  <2>3. /\ r.method = "PUT" /\ UNCHANGED answered
        /\ applied' = [applied EXCEPT ![r.op] = r.pos]
    BY <1>6 DEF ServerAppliesPut
  <2> QED BY <1>2, <2>1, <2>2, <2>3, AnsweredRecords DEF ReplyTo
<1> QED BY <1>1, <1>4, <1>5, <1>6

-----------------------------------------------------------------------------
LEMMA InitRecords == Init => RecordsInv
BY DEF Init, NetInit, RecordsInv, AnswerFinal, Gets, ReadsStillHold,
       FetchedIsAnswer, UploadIsLocal, OutcomeTruthful, NeverFailsClosed

LEMMA NextRecords == EvidenceInv /\ RecordsInv /\ [Next]_vars => RecordsInv'
<1> SUFFICES ASSUME EvidenceInv, RecordsInv, [Next]_vars PROVE RecordsInv'
  OBVIOUS
<1>1. CASE Begin
  BY <1>1, StartRecords DEF Begin
<1>2. CASE OperationStep
  BY <1>2, ControllerRecords, IdentifyRecords, LoadRecords, ConnectRecords,
     CallRecords, FailsEarlyRecords, GetReturnsRecords, DecideSyncRecords,
     DecidePullRecords, SaveRecords, PrepareUploadRecords, PutReturnsRecords
  DEF OperationStep
<1>3. CASE NetworkStep
  BY <1>3, ExchangeRecords DEF NetworkStep
<1>4. CASE Environment
  <2>1. CASE ServerStep /\ UNCHANGED <<settings, local, opVars>>
    BY <2>1, ServerRecords
  <2>2. CASE OtherDevicePuts /\ UNCHANGED <<settings, local, opVars>>
    BY <2>2, UntouchedRecords DEF OtherDevicePuts
  <2> QED BY <1>4, <2>1, <2>2, EnvironmentRecords DEF Environment
<1>5. CASE UNCHANGED vars
  BY <1>5, UntouchedRecords DEF vars, netVars
<1> QED BY <1>1, <1>2, <1>3, <1>4, <1>5 DEF Next

(* The second invariant holds in every reachable state. *)
THEOREM RecordsInvariant == Spec => []RecordsInv
BY InitRecords, NextRecords, EvidenceInvariant, PTL DEF Spec

(* Normal sync uploads only after the server has answered, to this very      *)
(* operation, that it stores nothing (the decision table of                  *)
(* cn_kosync_sync_once); a pull never uploads.                               *)
THEOREM UploadsOnlyOverNothing == Spec => []UploadOnlyOverNothing
<1>1. EvidenceInv /\ RecordsInv => UploadOnlyOverNothing
  BY DEF EvidenceInv, ResultFlags, RecordsInv, FetchedIsAnswer,
         UploadOnlyOverNothing
<1> QED BY <1>1, EvidenceInvariant, RecordsInvariant, PTL

(* What the controller tells the user is true of the local record and of the *)
(* remote one as the server stored it when it served this operation.         *)
THEOREM OutcomesTruthful == Spec => []OutcomeTruthful
<1>1. RecordsInv => OutcomeTruthful
  BY DEF RecordsInv
<1> QED BY <1>1, RecordsInvariant, PTL

(* The fail_closed branch of cn_kosync_policy_classify, which would report   *)
(* that nothing was mutated, is never taken.                                 *)
THEOREM ClassifierNeverFailsClosed == Spec => []NeverFailsClosed
<1>1. RecordsInv => NeverFailsClosed
  BY DEF RecordsInv
<1> QED BY <1>1, RecordsInvariant, PTL

(* No network activity for an account that is not enabled; a push contacts   *)
(* nobody before its record is known to be uploadable.                       *)
THEOREM NetworkWhenAllowed == Spec => []NetworkOnlyWhenAllowed
<1>1. EvidenceInv /\ RecordsInv => NetworkOnlyWhenAllowed
  <2> SUFFICES ASSUME EvidenceInv, RecordsInv PROVE NetworkOnlyWhenAllowed
    OBVIOUS
  <2>1. op.kind = "push" => pc \notin {"get", "getting"}
    BY DEF EvidenceInv, ResultFlags
  <2> QED BY <2>1 DEF RecordsInv, ReadsStillHold, NetworkOnlyWhenAllowed
<1> QED BY <1>1, EvidenceInvariant, RecordsInvariant, PTL

(* A running operation replaces the local record only by what the server     *)
(* answered it: in a pull, or in a sync that had found no local record.      *)
THEOREM LocalWritesAreImports == Spec => LocalWriteIsAnImport
<1>1. ASSUME EvidenceInv, RecordsInv, [Next]_vars
      PROVE  [pc # "idle" /\ local' # local =>
                /\ op.kind = "pull" \/ (op.kind = "sync" /\ local = NoRecord)
                /\ local'.pos = answered[op.no]
                /\ res'.local_saved = 1]_vars
  <2>1. CASE UNCHANGED vars
    BY <2>1
  <2>2. CASE ~(pc # "idle" /\ local' # local)
    BY <2>2
  <2>3. CASE Next /\ pc # "idle" /\ local' # local
    <3>1. SaveRemote
      BY <2>3 DEF Next, Begin, Start, OperationStep, NetworkStep, Environment,
                  LoadSettings, LoadCredentials, ResolveConfig, Identify,
                  LoadFails, LoadForSync, LoadForPush, EstablishTime,
                  ResolveHost, cn_kosync_client_set_tls, CallGet, GetFailsEarly,
                  GetReturns, DecideSync, DecidePull, SaveFails, PrepareUpload,
                  CallPut, PutFailsEarly, PutReturns, Classify, Quiet,
                  ReaderSaves, SettingsChange, PowerLoss
    <3>2. pc = "save" /\ local' = [pos |-> fetched, progress |-> "known"]
      BY <3>1 DEF SaveRemote
    <3>3. op.kind \in {"sync", "pull"}
      BY <1>1, <3>2 DEF EvidenceInv, TypeOK, Kinds, ResultFlags
    <3>4. op.kind = "sync" => local = NoRecord
      BY <1>1, <3>2 DEF RecordsInv, ReadsStillHold, FetchedIsAnswer
    <3>5. fetched = answered[op.no]
      BY <1>1, <3>2 DEF RecordsInv, FetchedIsAnswer
    <3>6. res'.local_saved = 1
      BY <1>1, <3>1 DEF SaveRemote, EndWith, EvidenceInv, TypeOK, Results
    <3> QED BY <3>2, <3>3, <3>4, <3>5, <3>6
  <2> QED BY <1>1, <2>1, <2>2, <2>3
<1> QED BY <1>1, EvidenceInvariant, RecordsInvariant, PTL
        DEF Spec, LocalWriteIsAnImport

-----------------------------------------------------------------------------
(* The contract.  First the invariant ContractInv, relative to the two       *)
(* others: steps of an operation that send and store nothing...              *)
LEMMA ContractStays ==
    ASSUME EvidenceInv, RecordsInv, ContractInv,
           UNCHANGED <<wire, op, answered>>,
           pc \notin {"idle", "getting", "putting", "classify"},
           pc' \notin {"idle", "getting", "putting"},
           pc' \in BeforeAsking => pc \in BeforeAsking,
           StatusAgrees'
    PROVE  ContractInv'
<1>1. \A n \in Ops : Gets(n)' = Gets(n)
  BY DEF Gets
<1>2. Gets(op.no)' = {} /\ Puts(op.no)' = {}
  BY DEF RecordsInv, AnswerFinal, EvidenceInv, PutProgress, Sent, Gets, Puts
<1>3. AskedOnce'
  BY <1>1, <1>2 DEF ContractInv, AskedOnce
<1>4. SentIsLocal'
  BY <1>2 DEF SentIsLocal
<1> QED BY <1>3, <1>4 DEF ContractInv

(* ... a result without evidence and without a special status agrees. *)
LEMMA PlainStatus ==
    ASSUME res'.local_saved = 0, res'.remote_uploaded = 0,
           res'.status \notin {"UPLOADED", "PERSISTED", "REMOTE_MISSING",
                              "LOCAL_MISSING"}
    PROVE  StatusAgrees'
BY DEF StatusAgrees

LEMMA ConnectContract ==
    EvidenceInv /\ RecordsInv /\ ContractInv
        /\ (\/ Identify \/ LoadFails \/ LoadForSync \/ EstablishTime
            \/ ResolveHost \/ cn_kosync_client_set_tls \/ GetFailsEarly
            \/ PutFailsEarly \/ PrepareUpload)
        => ContractInv' /\ res'.local_saved = res.local_saved
<1> SUFFICES ASSUME EvidenceInv, RecordsInv, ContractInv,
                    \/ Identify \/ LoadFails \/ LoadForSync \/ EstablishTime
                    \/ ResolveHost \/ cn_kosync_client_set_tls \/ GetFailsEarly
                    \/ PutFailsEarly \/ PrepareUpload
             PROVE  ContractInv' /\ res'.local_saved = res.local_saved
  OBVIOUS
<1>1. /\ UNCHANGED <<wire, op, answered>>
      /\ pc \notin {"idle", "getting", "putting", "classify"}
      /\ pc' \notin {"idle", "getting", "putting"}
      /\ pc' \in BeforeAsking => pc \in BeforeAsking
  BY DEF Identify, LoadFails, LoadForSync, EstablishTime, ResolveHost,
         cn_kosync_client_set_tls, GetFailsEarly, PutFailsEarly, PrepareUpload,
         Goto, End, EndWith, EndKosync, Running, Quiet, netVars, BeforeAsking
<1>2. res \in Results /\ res.local_saved = 0 /\ res.remote_uploaded = 0
  BY <1>1 DEF EvidenceInv, TypeOK, ResultFlags
<1>3. /\ res'.local_saved = 0 /\ res'.remote_uploaded = 0
      /\ pc' = "classify" => res'.status \notin {"UPLOADED", "PERSISTED",
                                              "REMOTE_MISSING", "LOCAL_MISSING"}
  <2>1. CASE Identify
    BY <1>2, <2>1 DEF Identify, Goto, End, EndWith, Results
  <2>2. CASE LoadFails
    BY <1>2, <2>2 DEF LoadFails, Goto, End, EndWith, Results
  <2>3. CASE LoadForSync
    BY <1>2, <2>3 DEF LoadForSync, Goto, Results
  <2>4. CASE EstablishTime
    BY <1>2, <2>4 DEF EstablishTime, Goto, EndWith, Results
  <2>5. CASE ResolveHost
    BY <1>2, <2>5 DEF ResolveHost, Goto, EndWith, Results
  <2>6. CASE cn_kosync_client_set_tls
    BY <1>2, <2>6 DEF cn_kosync_client_set_tls, Goto, EndWith, Results
  <2>7. CASE GetFailsEarly \/ PutFailsEarly
    <3>1. \E k, t \in {"INVALID", "NO_MEMORY"} :
             \/ res' = [res EXCEPT !.kosync = k, !.status = t,
                                   !.transport = "INVALID", !.http = "0"]
             \/ res' = [res EXCEPT !.remote_put_attempted = 1, !.kosync = k,
                                   !.status = t, !.transport = "INVALID",
                                   !.http = "0"]
      BY <2>7 DEF GetFailsEarly, PutFailsEarly, EndKosync, EndWith, map_kosync
    <3> QED BY <1>2, <3>1 DEF Results
  <2>8. CASE PrepareUpload
    <3>1. \/ /\ pc' = "put" /\ res' = [res EXCEPT !.kosync = "OK"]
          \/ \E t \in {"LOCAL_UNSUPPORTED", "INVALID", "NO_MEMORY"} :
                \/ res' = [res EXCEPT !.status = t]
                \/ \E k \in KosyncResults :
                      res' = [res EXCEPT !.kosync = k, !.status = t]
      BY <2>8 DEF PrepareUpload, End, EndWith, Goto, map_kosync, KosyncResults
    <3> QED BY <1>2, <3>1 DEF Results
  <2> QED BY <2>1, <2>2, <2>3, <2>4, <2>5, <2>6, <2>7, <2>8
<1>4. StatusAgrees'
  BY <1>3, PlainStatus DEF StatusAgrees
<1> QED BY <1>1, <1>2, <1>3, <1>4, ContractStays

LEMMA LoadForPushContract ==
    EvidenceInv /\ RecordsInv /\ ContractInv /\ LoadForPush
        => ContractInv' /\ res'.local_saved = res.local_saved
<1> SUFFICES ASSUME EvidenceInv, RecordsInv, ContractInv, LoadForPush
             PROVE  ContractInv' /\ res'.local_saved = res.local_saved
  OBVIOUS
<1> USE DEF Goto, End, EndWith, Running, Quiet, netVars
<1>1. res \in Results /\ res.local_saved = 0 /\ res.remote_uploaded = 0
  BY DEF LoadForPush, EvidenceInv, TypeOK, ResultFlags
<1>2. \/ local = NoRecord /\ res' = [res EXCEPT !.status = "LOCAL_MISSING"]
      \/ res' = [res EXCEPT !.status = "LOCAL_UNSUPPORTED"]
      \/ \E k, t \in {"INVALID", "NO_MEMORY"} :
            res' = [res EXCEPT !.kosync = k, !.status = t]
      \/ pc' = "time" /\ res' = [res EXCEPT !.kosync = "OK"]
  BY DEF LoadForPush, map_kosync
<1>3. /\ res'.local_saved = 0 /\ res'.remote_uploaded = 0
      /\ pc' = "classify" =>
             /\ res'.status \notin {"UPLOADED", "PERSISTED", "REMOTE_MISSING"}
             /\ res'.status = "LOCAL_MISSING" => local = NoRecord
  BY <1>1, <1>2 DEF Results
<1>4. StatusAgrees'
  BY <1>3 DEF LoadForPush, StatusAgrees
<1> QED BY <1>1, <1>3, <1>4, ContractStays DEF LoadForPush, BeforeAsking

LEMMA DecideContract ==
    EvidenceInv /\ RecordsInv /\ ContractInv /\ (DecideSync \/ DecidePull)
        => ContractInv' /\ res'.local_saved = res.local_saved
<1> SUFFICES ASSUME EvidenceInv, RecordsInv, ContractInv,
                    DecideSync \/ DecidePull
             PROVE  ContractInv' /\ res'.local_saved = res.local_saved
  OBVIOUS
<1> USE DEF Goto, End, EndWith, Running, Quiet, netVars
<1>0. /\ pc = "decide" /\ pc' \in {"save", "upload", "classify"}
      /\ UNCHANGED <<wire, op, answered, local>>
  BY DEF DecideSync, DecidePull
<1>1. res \in Results /\ res.local_saved = 0 /\ res.remote_uploaded = 0
  BY <1>0 DEF EvidenceInv, TypeOK, ResultFlags
<1>2. CASE DecideSync
  <2>1. res'.local_saved = 0 /\ res'.remote_uploaded = 0 /\ op.kind = "sync"
    BY <1>1, <1>2 DEF DecideSync, Results
  <2>2. pc' = "classify" => res'.status = "OK"
    BY <1>1, <1>2 DEF DecideSync, Decision, Results
  <2>3. StatusAgrees'
    BY <1>0, <2>1, <2>2 DEF StatusAgrees
  <2> QED BY <1>0, <1>1, <2>1, <2>3, ContractStays DEF BeforeAsking
<1>3. CASE DecidePull
  <2>1. /\ res'.local_saved = 0 /\ res'.remote_uploaded = 0 /\ op.kind = "pull"
        /\ pc' = "classify" => res'.status = "REMOTE_MISSING"
    BY <1>1, <1>3 DEF DecidePull, Results
  <2>2. StatusAgrees'
    BY <1>0, <2>1 DEF StatusAgrees
  <2> QED BY <1>0, <1>1, <2>1, <2>2, ContractStays DEF BeforeAsking
<1> QED BY <1>2, <1>3

LEMMA SaveContract ==
    EvidenceInv /\ RecordsInv /\ ContractInv /\ (SaveRemote \/ SaveFails)
        => ContractInv'
<1> SUFFICES ASSUME EvidenceInv, RecordsInv, ContractInv, SaveRemote \/ SaveFails
             PROVE  ContractInv'
  OBVIOUS
<1> USE DEF Goto, EndWith, Running, Quiet, netVars
<1>0. /\ pc = "save" /\ pc' = "classify" /\ UNCHANGED <<wire, op, answered>>
      /\ op.kind # "push"
  BY DEF SaveRemote, SaveFails, EvidenceInv, ResultFlags
<1>1. res \in Results /\ res.local_saved = 0 /\ res.remote_uploaded = 0
  BY <1>0 DEF EvidenceInv, TypeOK, ResultFlags
<1>2. \/ /\ res'.local_saved = 1
         /\ res'.status = IF op.kind = "pull" THEN "PERSISTED" ELSE "OK"
      \/ res'.local_saved = 0 /\ res'.status \in {"LOCAL_FAILED", "NO_MEMORY"}
  BY <1>1 DEF SaveRemote, SaveFails, Results
<1>3. StatusAgrees'
  BY <1>0, <1>2 DEF StatusAgrees
<1> QED BY <1>0, <1>3, ContractStays DEF BeforeAsking

(* Between operations. *)
LEMMA IdleContract ==
    ASSUME ContractInv, pc' = "idle", UNCHANGED <<wire, op, answered>>
    PROVE  ContractInv'
<1>1. \A n \in Ops : Gets(n)' = Gets(n)
  BY DEF Gets
<1>2. AskedOnce' /\ SentIsLocal' /\ StatusAgrees'
  BY <1>1 DEF ContractInv, AskedOnce, SentIsLocal, StatusAgrees, BeforeAsking
<1> QED BY <1>2 DEF ContractInv

LEMMA StartContract ==
    ASSUME EvidenceInv, RecordsInv, ContractInv,
           NEW n \in Ops, NEW k \in Kinds, Start(n, k)
    PROVE  ContractInv'
<1>1. /\ pc' = "settings" /\ op'.no = n /\ n = op.no + 1
      /\ UNCHANGED <<wire, answered>>
  BY DEF Start, Goto, Quiet, netVars
<1>2. op.no \in Nat /\ n \in Nat /\ \A m \in Ops : m \in Nat
  BY OpNumbers DEF EvidenceInv, TypeOK
<1>3. Gets(n) = {} /\ Puts(n) = {}
  BY <1>1, <1>2 DEF RecordsInv, AnswerFinal, EvidenceInv, NumbersFresh, Sent
<1>4. \A m \in Ops : Gets(m)' = Gets(m) /\ Puts(m)' = Puts(m)
  BY <1>1 DEF Gets, Puts
<1>5. AskedOnce'
  <2>1. \A m \in Ops : m > op.no \/ Gets(m) # {} => answered[m] = "unanswered"
    BY DEF ContractInv, AskedOnce
  <2>2. \A m \in Ops : m >= n => answered[m] = "unanswered"
    BY <1>1, <1>2, <2>1
  <2>3. \A m \in Ops : \A q, r \in Gets(m)' : q = r
    BY <1>4 DEF ContractInv, AskedOnce
  <2> QED BY <1>1, <1>2, <1>3, <1>4, <2>1, <2>2, <2>3 DEF AskedOnce
<1>6. SentIsLocal' /\ StatusAgrees'
  BY <1>1, <1>3, <1>4 DEF SentIsLocal, StatusAgrees
<1> QED BY <1>5, <1>6 DEF ContractInv

LEMMA ControllerContract ==
    EvidenceInv /\ RecordsInv /\ ContractInv
        /\ (LoadSettings \/ LoadCredentials \/ ResolveConfig \/ Classify)
        => ContractInv'
<1> SUFFICES ASSUME EvidenceInv, RecordsInv, ContractInv,
                    LoadSettings \/ LoadCredentials \/ ResolveConfig \/ Classify
             PROVE  ContractInv'
  OBVIOUS
<1>1. /\ UNCHANGED <<wire, op, answered>>
      /\ \/ pc' = "idle"
         \/ /\ pc \in {"settings", "credentials", "config"}
            /\ pc' \in {"credentials", "config", "identity"}
  BY DEF LoadSettings, LoadCredentials, ResolveConfig, Classify, Pass, Return,
         preflight_failure, Goto, Quiet, netVars
<1>2. CASE pc' = "idle"
  BY <1>1, <1>2, IdleContract
<1>3. CASE pc' # "idle"
  <2>1. StatusAgrees'
    BY <1>1, <1>3 DEF StatusAgrees
  <2> QED BY <1>1, <1>3, <2>1, ContractStays DEF BeforeAsking
<1> QED BY <1>2, <1>3

LEMMA EnvironmentContract ==
    ContractInv /\ (PowerLoss \/ ReaderSaves \/ SettingsChange) => ContractInv'
BY IdleContract DEF PowerLoss, ReaderSaves, SettingsChange, Goto, OnlyNet,
                    netVars, opVars

LEMMA UntouchedContract ==
    ASSUME ContractInv, UNCHANGED <<net, wire, answered, local, opVars>>
    PROVE  ContractInv'
<1> USE DEF opVars, ContractInv
<1>1. \A n : Gets(n)' = Gets(n) /\ Puts(n)' = Puts(n)
  BY DEF Gets, Puts
<1>2. AskedOnce' /\ SentIsLocal' /\ StatusAgrees'
  BY <1>1 DEF AskedOnce, SentIsLocal, StatusAgrees
<1> QED BY <1>2

(* The exchange. *)
LEMMA CallContract ==
    EvidenceInv /\ RecordsInv /\ ContractInv /\ (CallGet \/ CallPut)
        => ContractInv' /\ res'.local_saved = res.local_saved
<1> SUFFICES ASSUME EvidenceInv, RecordsInv, ContractInv, CallGet \/ CallPut
             PROVE  ContractInv' /\ res'.local_saved = res.local_saved
  OBVIOUS
<1>1. /\ UNCHANGED <<wire, op, answered>>
      /\ \/ pc = "get" /\ pc' = "getting"
         \/ pc = "put" /\ pc' = "putting"
  BY DEF CallGet, CallPut, StartExchange, OnlyNet, Running, Goto
<1>2. res'.local_saved = res.local_saved
  BY DEF CallGet, CallPut, EvidenceInv, TypeOK, Results
<1>3. Gets(op.no)' = {} /\ Puts(op.no)' = {}
  BY <1>1 DEF RecordsInv, AnswerFinal, EvidenceInv, PutProgress, Sent, Gets, Puts
<1>4. \A n \in Ops : Gets(n)' = Gets(n)
  BY <1>1 DEF Gets
<1>5. AskedOnce'
  BY <1>1, <1>3, <1>4 DEF ContractInv, AskedOnce, BeforeAsking
<1>6. SentIsLocal' /\ StatusAgrees'
  BY <1>1, <1>3 DEF SentIsLocal, StatusAgrees
<1> QED BY <1>2, <1>5, <1>6 DEF ContractInv

LEMMA ReturnsContract ==
    EvidenceInv /\ RecordsInv /\ ContractInv /\ (GetReturns \/ PutReturns)
        => ContractInv' /\ res'.local_saved = res.local_saved
<1> SUFFICES ASSUME EvidenceInv, RecordsInv, ContractInv, GetReturns \/ PutReturns
             PROVE  ContractInv' /\ res'.local_saved = res.local_saved
  OBVIOUS
<1>0. /\ UNCHANGED <<wire, answered, op, local>>
      /\ \/ GetReturns /\ pc = "getting" /\ pc' \in {"decide", "classify"}
            /\ op.kind # "push"
         \/ PutReturns /\ pc = "putting" /\ pc' = "classify"
            /\ op.kind # "pull"
  BY DEF GetReturns, PutReturns, Running, OnlyNet, EndWith, Goto, EvidenceInv,
         ResultFlags
<1>1. /\ res \in Results /\ res.local_saved = 0 /\ res.remote_uploaded = 0
  BY <1>0 DEF EvidenceInv, TypeOK, ResultFlags
<1>2. /\ res'.local_saved = 0
      /\ \/ /\ res'.remote_uploaded = 0
            /\ pc' = "classify" =>
                   res'.status \notin {"UPLOADED", "PERSISTED", "REMOTE_MISSING",
                                      "LOCAL_MISSING"}
         \/ /\ res'.remote_uploaded = 1 /\ PutReturns
            /\ res'.status = IF op.kind = "push" THEN "UPLOADED" ELSE "OK"
  <2>1. CASE GetReturns
    <3>1. PICK k \in GetResults(net) :
              \/ /\ pc' = "decide"
                 /\ \/ res' = [WithOutcome(k) EXCEPT !.remote_present = 1]
                    \/ res' = WithOutcome(k)
              \/ res' = [WithOutcome(k) EXCEPT !.status = map_kosync(k)]
      BY <2>1 DEF GetReturns, GetSucceeds, Goto, EndWith
    <3>2. map_kosync(k) \notin {"UPLOADED", "PERSISTED", "REMOTE_MISSING",
                               "LOCAL_MISSING"}
      BY DEF map_kosync
    <3>3. "decide" # "classify"
      OBVIOUS
    <3> QED BY <1>1, <3>1, <3>2, <3>3 DEF WithOutcome, Results
  <2>2. CASE PutReturns
    <3>1. PICK k \in PutResults(net) :
              \/ res' = [WithOutcome(k) EXCEPT
                           !.remote_uploaded = 1,
                           !.status = IF op.kind = "push"
                                      THEN "UPLOADED" ELSE "OK"]
              \/ res' = [WithOutcome(k) EXCEPT !.status = map_kosync(k)]
      BY <2>2 DEF PutReturns, EndWith
    <3>2. map_kosync(k) \notin {"UPLOADED", "PERSISTED", "REMOTE_MISSING",
                               "LOCAL_MISSING"}
      BY DEF map_kosync
    <3> QED BY <1>1, <2>2, <3>1, <3>2 DEF WithOutcome, Results
  <2> QED BY <1>0, <2>1, <2>2
<1>3. StatusAgrees'
  BY <1>0, <1>2 DEF StatusAgrees
<1>4. \A n : Gets(n)' = Gets(n) /\ Puts(n)' = Puts(n)
  BY <1>0 DEF Gets, Puts
<1>5. AskedOnce' /\ SentIsLocal'
  BY <1>0, <1>4 DEF ContractInv, AskedOnce, SentIsLocal, BeforeAsking
<1> QED BY <1>1, <1>2, <1>3, <1>5 DEF ContractInv

LEMMA ExchangeContract ==
    ASSUME EvidenceInv, RecordsInv, ContractInv, ExchangeStep,
           UNCHANGED <<settings, local, opVars>>
    PROVE  ContractInv'
<1> USE DEF opVars
<1>1. /\ UNCHANGED <<answered, applied>> /\ net'.phase # "request"
      /\ \/ wire' = wire
         \/ wire' = wire \cup {net.req} /\ net.phase = "send"
      /\ net'.phase \in {"connect", "open", "send"} =>
             wire' = wire /\ net.phase \in {"request", "connect", "open"}
      /\ pc \in {"getting", "putting"} /\ net.req.op = op.no
      /\ net.req.method = IF pc = "putting" THEN "PUT" ELSE "GET"
  BY ExchangeEffect
<1>2. op.no \in Ops /\ op.no \in Nat /\ ~(op.no > op.no)
  BY <1>1, OpNumbers DEF EvidenceInv, NumbersFresh
<1>3. \A n \in Ops : n # op.no => Gets(n)' = Gets(n)
  BY <1>1 DEF Gets
<1>4. AskedOnce'
  <2>1. wire' # wire => answered[op.no] = "unanswered" \/ pc = "putting"
    BY <1>1 DEF ContractInv, AskedOnce
  <2>2. pc = "putting" => Gets(op.no)' = Gets(op.no)
    BY <1>1 DEF Gets
  <2>3. wire' = wire => Gets(op.no)' = Gets(op.no)
    BY DEF Gets
  <2>4. Gets(op.no)' # {} => answered[op.no] = "unanswered"
    BY <1>1, <1>2, <2>1, <2>2, <2>3 DEF ContractInv, AskedOnce
  <2>5. op.kind = "push" => Gets(op.no)' = {}
    BY <1>1, <2>2 DEF ContractInv, AskedOnce, EvidenceInv, ResultFlags
  <2>6. \A n \in Ops : n > op.no \/ Gets(n)' # {} => answered[n] = "unanswered"
    BY <1>2, <1>3, <2>4 DEF ContractInv, AskedOnce
  <2>7. Gets(op.no)' = Gets(op.no) \/ Gets(op.no)' \subseteq {net.req}
    <3>1. pc = "getting" => Gets(op.no) \subseteq {net.req}
      BY DEF RecordsInv, AnswerFinal
    <3> QED BY <1>1, <2>2, <3>1 DEF Gets
  <2>8. \A n \in Ops : \A q, r \in Gets(n)' : q = r
    BY <1>2, <1>3, <2>7 DEF ContractInv, AskedOnce
  <2> QED BY <1>1, <2>5, <2>6, <2>8 DEF ContractInv, AskedOnce, BeforeAsking
<1>5. SentIsLocal'
  <2>1. CASE pc = "putting"
    <3>1. net.req.pos = local.pos /\ local # NoRecord
      BY <2>1 DEF RecordsInv, UploadIsLocal, ReadsStillHold, EvidenceInv,
                  ResultFlags
    <3>2. Puts(op.no)' \subseteq Puts(op.no) \cup {net.req}
      BY <1>1 DEF Puts
    <3> QED BY <2>1, <3>1, <3>2 DEF ContractInv, SentIsLocal
  <2>2. CASE pc = "getting"
    <3>1. Puts(op.no)' = Puts(op.no)
      BY <1>1, <2>2 DEF Puts
    <3> QED BY <3>1 DEF ContractInv, SentIsLocal
  <2> QED BY <1>1, <2>1, <2>2
<1>6. StatusAgrees'
  BY <1>1 DEF StatusAgrees
<1> QED BY <1>4, <1>5, <1>6 DEF ContractInv

(* What the server does with a request. *)
LEMMA ServerEffect ==
    ASSUME EvidenceInv, ServerStep
    PROVE  \E r \in wire :
              /\ wire' = wire \ {r} /\ net'.phase = net.phase
              /\ \/ UNCHANGED <<server, answered, applied>>
                 \/ /\ r.method = "GET" /\ UNCHANGED <<server, applied>>
                    /\ answered' = [answered EXCEPT ![r.op] = server]
                 \/ /\ r.method = "PUT" /\ UNCHANGED answered
                    /\ server' = r.pos
                    /\ applied' = [applied EXCEPT ![r.op] = r.pos]
<1>1. PICK r \in wire : ServerRefuses(r) \/ ServerServesGet(r)
                                         \/ ServerAppliesPut(r)
  BY DEF ServerStep
<1>2. net \in [phase : Phases, req : Requests \cup {NoRequest},
               result : Transports, reply : Replies]
  BY DEF EvidenceInv, TypeOK, NetTypeOK
<1>3. ASSUME NEW reply, ReplyTo(r, reply)
      PROVE  wire' = wire \ {r} /\ net'.phase = net.phase
  BY <1>2, <1>3 DEF ReplyTo
<1> QED BY <1>1, <1>3 DEF ServerRefuses, ServerServesGet, ServerAppliesPut

LEMMA ServerContract ==
    ASSUME EvidenceInv, RecordsInv, ContractInv, ServerStep,
           UNCHANGED <<settings, local, opVars>>
    PROVE  ContractInv'
<1> USE DEF opVars
<1>1. PICK r \in wire :
         /\ wire' = wire \ {r} /\ net'.phase = net.phase
         /\ \/ UNCHANGED answered
            \/ r.method = "GET" /\ answered' = [answered EXCEPT ![r.op] = server]
  BY ServerEffect
<1>2. /\ r.op \in Ops /\ r \in Requests
      /\ answered \in [Ops -> Positions \cup {NoRecord, "unanswered"}]
  BY DEF EvidenceInv, TypeOK, NetTypeOK, Requests
<1>3. \A n \in Ops : Gets(n)' = Gets(n) \ {r} /\ Puts(n)' = Puts(n) \ {r}
  BY <1>1 DEF Gets, Puts
<1>4. AskedOnce'
  <2>1. \A n \in Ops : answered'[n] = answered[n] \/ (r \in Gets(n) /\ r.op = n)
    BY <1>1, <1>2 DEF Gets
  <2>2. \A n \in Ops : r \in Gets(n) => Gets(n)' = {} /\ ~(n > op.no)
    BY <1>3 DEF ContractInv, AskedOnce, RecordsInv, AnswerFinal
  <2>3. /\ \A n \in Ops : n > op.no \/ Gets(n) # {} => answered[n] = "unanswered"
        /\ \A n \in Ops : \A p, q \in Gets(n) : p = q
    BY DEF ContractInv, AskedOnce
  <2>4. \A n \in Ops : n > op.no \/ Gets(n)' # {} => answered'[n] = "unanswered"
    BY <1>3, <2>1, <2>2, <2>3
  <2>5. \A n \in Ops : \A p, q \in Gets(n)' : p = q
    BY <1>3, <2>3
  <2>6. \/ pc \in BeforeAsking
        \/ pc = "getting" /\ net.phase \in {"request", "connect", "open", "send"}
        => Gets(op.no) = {} /\ op.no \in Ops /\ answered[op.no] = "unanswered"
    BY DEF BeforeAsking, RecordsInv, AnswerFinal, EvidenceInv, NumbersFresh,
           ContractInv, AskedOnce
  <2>7. pc # "idle" /\ op.kind = "push" => Gets(op.no)' = {}
    BY <1>3 DEF ContractInv, AskedOnce, EvidenceInv, NumbersFresh
  <2> QED BY <1>1, <2>1, <2>4, <2>5, <2>6, <2>7 DEF AskedOnce
<1>5. SentIsLocal'
  BY <1>3 DEF ContractInv, SentIsLocal, EvidenceInv, NumbersFresh
<1>6. StatusAgrees'
  BY DEF ContractInv, StatusAgrees
<1> QED BY <1>4, <1>5, <1>6 DEF ContractInv

-----------------------------------------------------------------------------
LEMMA InitContract == Init => ContractInv
<1>1. Init => AskedOnce
  BY DEF Init, NetInit, AskedOnce, Gets, BeforeAsking
<1>2. Init => SentIsLocal /\ StatusAgrees
  BY DEF Init, NetInit, SentIsLocal, StatusAgrees
<1> QED BY <1>1, <1>2 DEF ContractInv

LEMMA NextContract ==
    EvidenceInv /\ RecordsInv /\ ContractInv /\ [Next]_vars => ContractInv'
<1> SUFFICES ASSUME EvidenceInv, RecordsInv, ContractInv, [Next]_vars
             PROVE  ContractInv'
  OBVIOUS
<1>1. CASE Begin
  BY <1>1, StartContract DEF Begin
<1>2. CASE OperationStep
  BY <1>2, ControllerContract, ConnectContract, LoadForPushContract,
     CallContract, ReturnsContract, DecideContract, SaveContract
  DEF OperationStep
<1>3. CASE NetworkStep
  BY <1>3, ExchangeContract DEF NetworkStep
<1>4. CASE Environment
  <2>1. CASE ServerStep /\ UNCHANGED <<settings, local, opVars>>
    BY <2>1, ServerContract
  <2>2. CASE OtherDevicePuts /\ UNCHANGED <<settings, local, opVars>>
    BY <2>2, UntouchedContract DEF OtherDevicePuts
  <2> QED BY <1>4, <2>1, <2>2, EnvironmentContract DEF Environment
<1>5. CASE UNCHANGED vars
  BY <1>5, UntouchedContract DEF vars, netVars
<1> QED BY <1>1, <1>2, <1>3, <1>4, <1>5 DEF Next

(* The third invariant holds in every reachable state. *)
THEOREM ContractInvariant == Spec => []ContractInv
BY InitContract, NextContract, EvidenceInvariant, RecordsInvariant, PTL DEF Spec

-----------------------------------------------------------------------------
(* The refinement.  What the contract sees of the records... *)
LEMMA SeenRecords ==
    ASSUME TypeOK
    PROVE  /\ PosOf(local) \in XPointers \cup {NoRecord}
           /\ PosOf(local) = NoRecord <=> local = NoRecord
           /\ local # NoRecord => PosOf(local) = local.pos
           /\ NoRecord \notin XPointers /\ "unanswered" \notin XPointers
BY NoRecordAssumption, XPointersAssumption, UnansweredAssumption
DEF TypeOK, Stored, Records, PosOf

(* ... of the PUT of the running operation, ... *)
LEMMA SeenPut ==
    ASSUME NEW n
    PROVE  /\ PutState(n) = "none" <=> ~Sent(n)
           /\ PutState(n) = "stored" <=> applied[n] # NoRecord
           /\ PutState(n) = "flying" <=> applied[n] = NoRecord /\ Puts(n) # {}
           /\ PutState(n) \in {"none", "stored", "flying"}
BY DEF PutState, Sent

(* ... and a step that changes none of it. *)
LEMMA Unseen ==
    ASSUME pc # "idle", pc' # "idle", res'.local_saved = res.local_saved,
           UNCHANGED <<wire, server, answered, applied, local, op, product>>
    PROVE  UNCHANGED Contract!contractVars
<1>1. PosOf(local)' = PosOf(local) /\ ReportSeen' = ReportSeen
  BY DEF PosOf, ReportSeen
<1>2. PutState(op.no)' = PutState(op.no)
  BY DEF PutState, Puts
<1>3. CallSeen' = CallSeen
  BY <1>2 DEF CallSeen
<1>4. LateUploads' = LateUploads
  BY DEF LateUploads
<1> QED BY <1>1, <1>3, <1>4 DEF Contract!contractVars

LEMMA InitContractStates == Init => Contract!Init
<1> SUFFICES ASSUME Init PROVE Contract!Init
  OBVIOUS
<1>1. PosOf(local) \in XPointers \cup {NoRecord}
  BY InitEvidence, SeenRecords DEF EvidenceInv
<1>2. server \in Positions \cup {NoRecord} /\ LateUploads = {}
  BY DEF Init, NetInit, LateUploads
<1>3. CallSeen = Contract!NoCall
  BY DEF Init, CallSeen, Contract!NoCall
<1>4. ReportSeen = Contract!NoReport
  BY DEF Init, ReportSeen, NoProduct, Report, Verdict, Contract!NoReport
<1> QED BY <1>1, <1>2, <1>3, <1>4 DEF Contract!Init

LEMMA CallStep ==
    ASSUME EvidenceInv, RecordsInv, ContractInv,
           NEW n \in Ops, NEW k \in Kinds, Start(n, k)
    PROVE  Contract!Call(k)
<1>1. /\ pc = "idle" /\ pc' = "settings" /\ n = op.no + 1
      /\ op' = [no |-> n, kind |-> k] /\ product' = NoProduct
      /\ UNCHANGED <<res, wire, server, answered, applied, local>>
  BY DEF Start, Goto, Quiet, netVars
<1>2. n > op.no
  <2>1. op.no \in Nat
    BY OpNumbers DEF EvidenceInv, TypeOK
  <2> QED BY <1>1, <2>1
<1>3. ~Sent(n) /\ answered[n] = "unanswered" /\ res.local_saved = 0
  <2>1. ~Sent(n)
    BY <1>2 DEF EvidenceInv, NumbersFresh
  <2>2. answered[n] = "unanswered"
    BY <1>2 DEF ContractInv, AskedOnce
  <2>3. res.local_saved = 0
    BY <1>1 DEF EvidenceInv, ResultFlags
  <2> QED BY <2>1, <2>2, <2>3
<1>4. PutState(op.no)' = "none"
  BY <1>1, <1>3 DEF PutState, Sent, Puts
<1>5. CallSeen = Contract!NoCall /\ CallSeen' = [Contract!NoCall EXCEPT !.kind = k]
  <2>1. CallSeen = Contract!NoCall
    BY <1>1 DEF CallSeen, Contract!NoCall
  <2>2. CallSeen' = [kind |-> k, got |-> "unanswered", put |-> "none",
                     imported |-> 0]
    BY <1>1, <1>3, <1>4 DEF CallSeen
  <2> QED BY <2>1, <2>2 DEF Contract!NoCall
<1>6. LateUploads' = LateUploads
  <2>1. \A q \in wire : q.method = "PUT" => q.op # n
    BY <1>3 DEF Sent, Puts
  <2>2. {q \in wire' : q.method = "PUT" /\ (pc' = "idle" \/ q.op # op'.no)}
            = {q \in wire : q.method = "PUT" /\ (pc = "idle" \/ q.op # op.no)}
    <3>1. wire' = wire /\ pc = "idle" /\ pc' # "idle" /\ op'.no = n
      BY <1>1
    <3> QED BY <2>1, <3>1
  <2> QED BY <2>2 DEF LateUploads
<1>7. ReportSeen' = Contract!NoReport
  BY <1>1 DEF ReportSeen, NoProduct, Report, Verdict, Contract!NoReport
<1>8. PosOf(local)' = PosOf(local)
  BY <1>1 DEF PosOf
<1> QED BY <1>1, <1>5, <1>6, <1>7, <1>8
        DEF Contract!Call, Contract!Running, Contract!NoCall

(* When an operation is over, its PUT may still be on the wire. *)
LEMMA OverSeen ==
    ASSUME EvidenceInv, ContractInv, pc # "idle", pc' = "idle",
           UNCHANGED <<wire, local>>
    PROVE  /\ Contract!Running
           /\ CallSeen' = Contract!NoCall /\ PosOf(local)' = PosOf(local)
           /\ LateUploads' = Contract!StillFlying
<1>1. op.no \in Ops /\ op.kind \in Kinds
  BY DEF EvidenceInv, TypeOK, NumbersFresh
<1>2. /\ CallSeen.kind = op.kind /\ CallSeen.put = PutState(op.no)
      /\ CallSeen' = Contract!NoCall
  BY DEF CallSeen, Contract!NoCall
<1>3. Contract!Running
  BY <1>1, <1>2 DEF Contract!Running, Kinds
<1>4. LateUploads' = LateUploads \cup {r.pos : r \in Puts(op.no)}
  BY DEF LateUploads, Puts
<1>5. CASE PutState(op.no) = "flying"
  <2>1. Puts(op.no) # {}
    BY <1>5, SeenPut
  <2>2. \A r \in Puts(op.no) : r.pos = PosOf(local)
    BY SeenRecords DEF ContractInv, SentIsLocal, EvidenceInv
  <2>3. {r.pos : r \in Puts(op.no)} = {PosOf(local)}
    BY <2>1, <2>2
  <2> QED BY <1>2, <1>3, <1>4, <1>5, <2>3 DEF Contract!StillFlying, PosOf
<1>6. CASE PutState(op.no) # "flying"
  <2>1. Puts(op.no) = {}
    BY <1>6, SeenPut DEF Puts, EvidenceInv, PutHandledOnce
  <2> QED BY <1>2, <1>3, <1>4, <1>6, <2>1 DEF Contract!StillFlying, PosOf
<1> QED BY <1>5, <1>6

LEMMA AbortStep ==
    EvidenceInv /\ ContractInv /\ PowerLoss => Contract!Abort
<1> SUFFICES ASSUME EvidenceInv, ContractInv, PowerLoss PROVE Contract!Abort
  OBVIOUS
<1>1. pc # "idle" /\ pc' = "idle" /\ UNCHANGED <<wire, server, local, product>>
  BY DEF PowerLoss, Goto, OnlyNet
<1>2. ReportSeen' = ReportSeen
  BY <1>1 DEF ReportSeen
<1> QED BY <1>1, <1>2, OverSeen DEF Contract!Abort

(* What an operation returns is true of the two records. *)
LEMMA ReturnStep ==
    ASSUME EvidenceInv, ContractInv, pc # "idle", pc' = "idle",
           UNCHANGED <<wire, server, local>>, product' \in Products,
           Contract!OutcomeHolds(product'.outcome),
           Contract!EvidenceHolds(ReportSeen')
    PROVE  \E r \in Contract!Reports : Contract!Return(r)
<1>1. ReportSeen' \in Contract!Reports
  BY DEF ReportSeen, Products, Outcomes, Mutations, Contract!Reports,
         Contract!Outcomes, Contract!Failures, Contract!Mutations
<1>2. ReportSeen'.outcome = product'.outcome
  BY DEF ReportSeen
<1>3. Contract!Return(ReportSeen')
  BY <1>2, OverSeen DEF Contract!Return
<1> QED BY <1>1, <1>3

LEMMA PreflightStep ==
    ASSUME EvidenceInv, ContractInv,
           LoadSettings \/ LoadCredentials \/ ResolveConfig, pc' = "idle",
           product' \in Products
    PROVE  \E r \in Contract!Reports : Contract!Return(r)
<1>1. /\ pc \in {"settings", "credentials", "config"}
      /\ UNCHANGED <<wire, server, local>>
  BY DEF LoadSettings, LoadCredentials, ResolveConfig, Quiet, netVars
<1>2. \E o \in {"DISABLED", "CONFIGURATION_FAILURE", "AUTH_REQUIRED",
               "LOCAL_FAILURE"} :
         /\ product'.outcome = o
         /\ product'.local_mutation = "NONE" /\ product'.remote_mutation = "NONE"
  BY DEF LoadSettings, LoadCredentials, ResolveConfig, Pass, preflight_failure,
         Return, Report, Verdict, Goto
<1>3. CallSeen.put = "none" /\ CallSeen.imported = 0
  <2>1. ~Sent(op.no) /\ res.local_saved = 0
    BY <1>1 DEF EvidenceInv, PutProgress, ResultFlags
  <2>2. CallSeen.put = PutState(op.no) /\ CallSeen.imported = res.local_saved
    BY <1>1 DEF CallSeen
  <2> QED BY <2>1, <2>2, SeenPut
<1>4. Contract!OutcomeHolds(product'.outcome)
  BY <1>2 DEF Contract!OutcomeHolds
<1>5. Contract!EvidenceHolds(ReportSeen')
  BY <1>2, <1>3 DEF Contract!EvidenceHolds, ReportSeen
<1> QED BY <1>1, <1>4, <1>5, ReturnStep

(* What the outcome tables of the controllers say of a result. *)
LEMMA OneShotWords ==
    ASSUME NEW r
    PROVE  /\ OneShotOutcome(r) = "UPLOADED" <=> r.status = "UPLOADED"
           /\ OneShotOutcome(r) = "PERSISTED" <=> r.status = "PERSISTED"
           /\ OneShotOutcome(r) = "LOCAL_MISSING" <=> r.status = "LOCAL_MISSING"
           /\ OneShotOutcome(r) # "IMPORTED"
<1>1. \A c : /\ dns_failure(c) \notin {"UPLOADED", "PERSISTED", "LOCAL_MISSING",
                                      "IMPORTED"}
            /\ transport_failure(c) \notin {"UPLOADED", "PERSISTED",
                                            "LOCAL_MISSING", "IMPORTED"}
  BY DEF dns_failure, transport_failure
<1> QED BY <1>1 DEF OneShotOutcome

LEMMA SyncWords ==
    ASSUME NEW r, ~Inconsistent(r), r.local_saved \in Flag,
           r.remote_uploaded \in Flag
    PROVE  LET p == ProductOf("sync", r) IN
           /\ p.outcome = "IMPORTED" <=> r.local_saved = 1
           /\ p.outcome = "UPLOADED" <=> p.remote_mutation = "CONFIRMED"
           /\ p.local_mutation = "CONFIRMED" <=> r.local_saved = 1
           /\ p.outcome \notin {"PERSISTED", "LOCAL_MISSING"}
<1> DEFINE p == ProductOf("sync", r)
<1>1. /\ p.outcome = SyncVerdict(r).outcome
      /\ p.local_mutation = saved_mutation(r)
      /\ p.remote_mutation = remote_mutation(r)
  BY DEF ProductOf, cn_kosync_policy_classify, Report
<1>2. p.local_mutation = "CONFIRMED" <=> r.local_saved = 1
  BY <1>1 DEF saved_mutation
<1>3. p.remote_mutation = "CONFIRMED" <=> r.remote_uploaded = 1
  BY <1>1 DEF remote_mutation
<1>4. CASE r.status = "OK"
  <2>1. success_invariants_hold(r)
    BY <1>4 DEF Inconsistent
  <2>2. /\ r.local_saved = 1 <=> r.decision = "REMOTE_SELECTED"
        /\ r.remote_uploaded = 1 <=> r.decision = "LOCAL_SELECTED"
    BY <2>1 DEF success_invariants_hold
  <2> QED BY <1>2, <1>3, <1>4, <2>2, SuccessOutcome
<1>5. CASE r.status # "OK"
  <2>1. r.local_saved # 1 /\ r.remote_uploaded # 1
    BY <1>5 DEF Inconsistent
  <2>2. \A c : /\ dns_failure(c) \notin {"UPLOADED", "PERSISTED",
                                         "LOCAL_MISSING", "IMPORTED"}
              /\ transport_failure(c) \notin {"UPLOADED", "PERSISTED",
                                               "LOCAL_MISSING", "IMPORTED"}
    BY DEF dns_failure, transport_failure
  <2>3. SyncVerdict(r).outcome \notin {"UPLOADED", "PERSISTED", "LOCAL_MISSING",
                                       "IMPORTED"}
    BY <1>5, <2>2 DEF SyncVerdict, classify_time, classify_dns, classify_https,
                      classify_protocol, Verdict
  <2> QED BY <1>1, <1>2, <1>3, <2>1, <2>3
<1> QED BY <1>4, <1>5

LEMMA ClassifyStep ==
    ASSUME EvidenceInv, RecordsInv, ContractInv, Classify, product' \in Products
    PROVE  \E r \in Contract!Reports : Contract!Return(r)
<1> DEFINE p == ProductOf(op.kind, res)
<1>1. /\ pc = "classify" /\ pc' = "idle" /\ product' = p
      /\ UNCHANGED <<wire, server, local>>
  BY DEF Classify, Return, Quiet, netVars, Goto
<1>2. /\ CallSeen.kind = op.kind /\ CallSeen.got = answered[op.no]
      /\ CallSeen.put = PutState(op.no)
      /\ CallSeen.imported = res.local_saved
  BY <1>1 DEF CallSeen
<1>3. res.local_saved \in Flag /\ res.remote_uploaded \in Flag /\ op.kind \in Kinds
  BY DEF EvidenceInv, TypeOK, Results
<1>4. p.outcome = "LOCAL_MISSING" => local = NoRecord
  <2>1. op.kind = "sync" => p.outcome # "LOCAL_MISSING"
    BY <1>1, <1>3, SyncWords DEF RecordsInv, NeverFailsClosed
  <2>2. op.kind # "sync" => p.outcome = OneShotOutcome(res)
    BY <1>3 DEF ProductOf, classify_push, classify_pull, Report, Verdict
  <2> QED BY <1>1, <2>1, <2>2, OneShotWords DEF ContractInv, StatusAgrees
<1>5. Contract!OutcomeHolds(p.outcome)
  <2>1. /\ p.outcome = "UNCHANGED" => local # NoRecord /\ local.pos = answered[op.no]
        /\ p.outcome = "CONFLICT" => /\ local # NoRecord
                                     /\ local.pos # answered[op.no]
                                     /\ answered[op.no] \in Positions
        /\ p.outcome = "NO_STATE" => local = NoRecord /\ answered[op.no] = NoRecord
        /\ p.outcome = "REMOTE_MISSING" => answered[op.no] = NoRecord
    BY <1>1 DEF RecordsInv, OutcomeTruthful
  <2>2. PosOf(local) = NoRecord <=> local = NoRecord
    BY SeenRecords DEF EvidenceInv
  <2>3. local # NoRecord => PosOf(local) = local.pos
    BY DEF PosOf
  <2> HIDE DEF p
  <2> QED BY <1>2, <1>4, <2>1, <2>2, <2>3 DEF Contract!OutcomeHolds
<1>6. /\ p.remote_mutation = "CONFIRMED" => CallSeen.put = "stored"
      /\ p.remote_mutation = "NONE" => CallSeen.put = "none"
  <2>1. /\ p.remote_mutation = "CONFIRMED" => applied[op.no] # NoRecord
        /\ p.remote_mutation = "NONE" => ~Sent(op.no)
    BY <1>1 DEF EvidenceInv, PutProgress
  <2> QED BY <1>2, <2>1, SeenPut
<1>7. /\ (p.outcome = "IMPORTED") <=> (res.local_saved = 1 /\ op.kind = "sync")
      /\ (p.outcome = "PERSISTED") <=> (res.local_saved = 1 /\ op.kind = "pull")
      /\ (p.local_mutation = "CONFIRMED") <=> res.local_saved = 1
      /\ (p.outcome = "UPLOADED") <=> (p.remote_mutation = "CONFIRMED")
  <2>1. CASE op.kind = "sync"
    BY <1>1, <1>3, <2>1, SyncWords DEF RecordsInv, NeverFailsClosed
  <2>2. CASE op.kind = "push"
    <3>1. /\ res.local_saved = 0
          /\ res.remote_uploaded = 1 <=> res.status = "UPLOADED"
          /\ res.status # "PERSISTED"
      BY <1>1, <2>2 DEF ContractInv, StatusAgrees
    <3>2. /\ p.outcome = OneShotOutcome(res) /\ p.local_mutation = "NONE"
          /\ p.remote_mutation = "CONFIRMED" <=> res.remote_uploaded = 1
      BY <2>2 DEF ProductOf, classify_push, Report, Verdict, push_mutation
    <3> HIDE DEF p
    <3> QED BY <2>2, <3>1, <3>2, OneShotWords
  <2>3. CASE op.kind = "pull"
    <3>1. /\ res.local_saved = 1 <=> res.status = "PERSISTED"
          /\ res.status # "UPLOADED"
      BY <1>1, <2>3 DEF ContractInv, StatusAgrees
    <3>2. /\ p.outcome = OneShotOutcome(res) /\ p.remote_mutation = "NONE"
          /\ p.local_mutation = "CONFIRMED" <=> res.local_saved = 1
      BY <2>3 DEF ProductOf, classify_pull, Report, Verdict, saved_mutation
    <3> HIDE DEF p
    <3> QED BY <2>3, <3>1, <3>2, OneShotWords
  <2> QED BY <1>3, <2>1, <2>2, <2>3 DEF Kinds
<1>8. Contract!EvidenceHolds(ReportSeen')
  <2>1. /\ ReportSeen'.outcome = p.outcome
        /\ ReportSeen'.local_mutation = p.local_mutation
        /\ ReportSeen'.remote_mutation = p.remote_mutation
    BY <1>1 DEF ReportSeen
  <2> HIDE DEF p
  <2> QED BY <1>2, <1>6, <1>7, <2>1 DEF Contract!EvidenceHolds
<1> HIDE DEF p
<1> QED BY <1>1, <1>5, <1>8, ReturnStep

LEMMA ImportStep ==
    EvidenceInv /\ RecordsInv /\ SaveRemote => Contract!Import
<1> SUFFICES ASSUME EvidenceInv, RecordsInv, SaveRemote PROVE Contract!Import
  OBVIOUS
<1>1. /\ pc = "save" /\ pc' = "classify" /\ fetched \in XPointers
      /\ local' = [pos |-> fetched, progress |-> "known"]
      /\ UNCHANGED <<wire, server, answered, applied, op, product>>
  BY DEF SaveRemote, EndWith, Goto, Running, netVars
<1>2. res.local_saved = 0 /\ res'.local_saved = 1
  BY <1>1 DEF SaveRemote, EndWith, EvidenceInv, TypeOK, Results, ResultFlags
<1>3. /\ op.kind \in {"sync", "pull"} /\ fetched = answered[op.no]
      /\ op.kind = "sync" => local = NoRecord
  BY <1>1 DEF EvidenceInv, TypeOK, Kinds, ResultFlags, RecordsInv,
              ReadsStillHold, FetchedIsAnswer
<1>4. PosOf(local)' = fetched
  BY <1>1, StoredAssumption DEF PosOf, Records
<1>5. PutState(op.no)' = PutState(op.no) /\ LateUploads' = LateUploads
  BY <1>1 DEF PutState, Puts, LateUploads
<1>6. /\ CallSeen = [kind |-> op.kind, got |-> answered[op.no],
                     put |-> PutState(op.no), imported |-> 0]
      /\ CallSeen' = [kind |-> op.kind, got |-> answered[op.no],
                      put |-> PutState(op.no), imported |-> 1]
  BY <1>1, <1>2, <1>5 DEF CallSeen
<1>7. /\ CallSeen' = [CallSeen EXCEPT !.imported = 1] /\ CallSeen.imported = 0
      /\ CallSeen.got = fetched /\ CallSeen.kind = op.kind
  BY <1>3, <1>6
<1>8. PosOf(local) = NoRecord <=> local = NoRecord
  BY SeenRecords DEF EvidenceInv
<1>9. ReportSeen' = ReportSeen
  BY <1>1 DEF ReportSeen
<1> QED BY <1>1, <1>3, <1>4, <1>5, <1>7, <1>8, <1>9 DEF Contract!Import

(* The PUT leaves the device. *)
LEMMA UploadStep ==
    ASSUME EvidenceInv, RecordsInv, pc = "putting", net.phase = "send",
           wire' = wire \cup {net.req},
           UNCHANGED <<server, answered, applied, local, opVars>>
    PROVE  Contract!Upload
<1> USE DEF opVars
<1>1. /\ op.no \in Ops /\ net.req.op = op.no /\ net.req.method = "PUT"
      /\ ~Sent(op.no) /\ loaded = local /\ loaded # NoRecord
      /\ op.kind \in {"sync", "push"}
      /\ op.kind = "sync" => answered[op.no] = NoRecord
  <2>1. op.kind \in {"sync", "push"} /\ loaded # NoRecord
    BY DEF EvidenceInv, TypeOK, Kinds, ResultFlags
  <2>2. /\ op.no \in Ops /\ net.req.op = op.no /\ net.req.method = "PUT"
        /\ ~Sent(op.no)
    BY DEF EvidenceInv, NumbersFresh, ExchangeBelongsToCall, PutProgress
  <2>3. loaded = local /\ (op.kind = "sync" => answered[op.no] = NoRecord)
    BY <2>1 DEF RecordsInv, ReadsStillHold, FetchedIsAnswer
  <2> QED BY <2>1, <2>2, <2>3
<1>2. PutState(op.no) = "none" /\ PutState(op.no)' = "flying"
  <2>1. applied[op.no] = NoRecord /\ net.req \in Puts(op.no)'
    BY <1>1 DEF Sent, Puts
  <2> QED BY <1>1, <2>1, SeenPut DEF PutState
<1>3. CallSeen' = [CallSeen EXCEPT !.put = "flying"] /\ CallSeen.put = "none"
      /\ CallSeen.kind = op.kind /\ CallSeen.got = answered[op.no]
  BY <1>2 DEF CallSeen
<1>4. LateUploads' = LateUploads
  BY <1>1 DEF LateUploads
<1>5. PosOf(local)' = PosOf(local) /\ PosOf(local) # NoRecord
  BY <1>1, SeenRecords DEF EvidenceInv, PosOf
<1>6. ReportSeen' = ReportSeen
  BY DEF ReportSeen
<1> QED BY <1>1, <1>3, <1>4, <1>5, <1>6 DEF Contract!Upload

LEMMA ExchangeSeen ==
    ASSUME EvidenceInv, RecordsInv, ExchangeStep,
           UNCHANGED <<settings, local, opVars>>
    PROVE  Contract!Upload \/ UNCHANGED Contract!contractVars
<1> USE DEF opVars
<1>1. /\ UNCHANGED <<server, answered, applied>>
      /\ \/ wire' = wire
         \/ wire' = wire \cup {net.req} /\ net.phase = "send"
      /\ pc \in {"getting", "putting"} /\ net.req.op = op.no
      /\ net.req.method = IF pc = "putting" THEN "PUT" ELSE "GET"
  BY ExchangeEffect
<1>2. CASE wire' = wire
  BY <1>1, <1>2, Unseen
<1>3. CASE wire' # wire /\ pc = "putting"
  BY <1>1, <1>3, UploadStep
<1>4. CASE wire' # wire /\ pc = "getting"
  <2>1. wire' = wire \cup {net.req} /\ net.req.method = "GET" /\ "GET" # "PUT"
    BY <1>1, <1>4
  <2>2. \A n : Puts(n)' = Puts(n)
    BY <2>1 DEF Puts
  <2>3. CallSeen' = CallSeen
    BY <1>1, <2>2 DEF CallSeen, PutState
  <2>4. LateUploads' = LateUploads
    BY <2>1 DEF LateUploads
  <2> QED BY <1>1, <2>3, <2>4 DEF Contract!contractVars, PosOf, ReportSeen
<1> QED BY <1>1, <1>2, <1>3, <1>4

(* The server takes request r of the running operation: its GET, ... *)
LEMMA ServeStep ==
    ASSUME EvidenceInv, ContractInv, NEW r \in wire, wire' = wire \ {r},
           r.method = "GET", pc # "idle", r.op = op.no,
           answered' = [answered EXCEPT ![r.op] = server],
           UNCHANGED <<server, applied, local, opVars>>
    PROVE  Contract!Serve
<1> USE DEF opVars
<1>1. /\ op.no \in Ops /\ op.kind \in Kinds
      /\ answered \in [Ops -> Positions \cup {NoRecord, "unanswered"}]
  BY DEF EvidenceInv, TypeOK, NetTypeOK, NumbersFresh
<1>2. r \in Gets(op.no)
  BY DEF Gets
<1>3. answered[op.no] = "unanswered" /\ op.kind \in {"sync", "pull"}
  BY <1>1, <1>2 DEF ContractInv, AskedOnce, Kinds
<1>4. /\ \A n : Puts(n)' = Puts(n)
      /\ LateUploads' = LateUploads
  BY DEF Puts, LateUploads
<1>5. PutState(op.no)' = PutState(op.no)
  BY <1>4 DEF PutState
<1>6. answered'[op.no] = server
  BY <1>1
<1>7. CallSeen' = [CallSeen EXCEPT !.got = server] /\ CallSeen.kind = op.kind
      /\ CallSeen.got = answered[op.no]
  BY <1>5, <1>6 DEF CallSeen
<1> QED BY <1>3, <1>4, <1>7 DEF Contract!Serve, PosOf, ReportSeen

(* ... its PUT, ... *)
LEMMA OwnPutStep ==
    ASSUME EvidenceInv, ContractInv, NEW r \in wire, wire' = wire \ {r},
           r.method = "PUT", pc # "idle", r.op = op.no,
           \/ UNCHANGED <<server, applied>>
           \/ server' = r.pos /\ applied' = [applied EXCEPT ![r.op] = r.pos],
           UNCHANGED <<answered, local, opVars>>
    PROVE  Contract!ServerStores \/ Contract!ServerRefuses
<1> USE DEF opVars
<1>1. /\ op.no \in Ops /\ applied \in [Ops -> Positions \cup {NoRecord}]
      /\ applied[op.no] = NoRecord /\ r.pos \in Positions
      /\ \A q \in wire : q.method = "PUT" /\ q.op = op.no => q = r
  BY DEF EvidenceInv, TypeOK, NetTypeOK, NumbersFresh, PutHandledOnce
<1>2. r \in Puts(op.no) /\ Puts(op.no)' = {}
  BY <1>1 DEF Puts
<1>3. r.pos = PosOf(local)
  BY <1>2, SeenRecords DEF ContractInv, SentIsLocal, EvidenceInv
<1>4. PutState(op.no) = "flying"
  BY <1>1, <1>2, SeenPut
<1>5. CallSeen.put = "flying"
  BY <1>4 DEF CallSeen
<1>6. LateUploads' = LateUploads
  BY DEF LateUploads
<1>7. PosOf(local)' = PosOf(local) /\ ReportSeen' = ReportSeen
  BY DEF PosOf, ReportSeen
<1>8. CASE UNCHANGED <<server, applied>>
  <2>1. PutState(op.no)' = "none"
    BY <1>1, <1>2, <1>8 DEF PutState
  <2>2. CallSeen' = [CallSeen EXCEPT !.put = "none"]
    BY <2>1 DEF CallSeen
  <2> QED BY <1>5, <1>6, <1>7, <1>8, <2>2 DEF Contract!ServerRefuses
<1>9. CASE server' = r.pos /\ applied' = [applied EXCEPT ![r.op] = r.pos]
  <2>1. applied'[op.no] # NoRecord
    BY <1>1, <1>9, NoRecordAssumption
  <2>2. PutState(op.no)' = "stored"
    BY <2>1 DEF PutState
  <2>3. CallSeen' = [CallSeen EXCEPT !.put = "stored"]
    BY <2>2 DEF CallSeen
  <2> QED BY <1>3, <1>5, <1>6, <1>7, <1>9, <2>3 DEF Contract!ServerStores
<1> QED BY <1>8, <1>9

(* ... or a request of an operation that is over. *)
LEMMA LateStep ==
    ASSUME EvidenceInv, NEW r \in wire, wire' = wire \ {r},
           pc = "idle" \/ r.op # op.no,
           \/ UNCHANGED <<server, answered, applied>>
           \/ /\ r.method = "GET" /\ UNCHANGED <<server, applied>>
              /\ answered' = [answered EXCEPT ![r.op] = server]
           \/ /\ r.method = "PUT" /\ UNCHANGED answered
              /\ server' = r.pos
              /\ applied' = [applied EXCEPT ![r.op] = r.pos],
           UNCHANGED <<local, opVars>>
    PROVE  Contract!LateUpload \/ UNCHANGED Contract!contractVars
<1> USE DEF opVars
<1>1. /\ r.op \in Ops /\ applied \in [Ops -> Positions \cup {NoRecord}]
      /\ answered \in [Ops -> Positions \cup {NoRecord, "unanswered"}]
  BY DEF EvidenceInv, TypeOK, NetTypeOK, Requests
<1>2. CallSeen' = CallSeen
  <2>1. CASE pc = "idle"
    BY <2>1 DEF CallSeen
  <2>2. CASE pc # "idle"
    <3>1. op.no \in Ops /\ r.op # op.no
      BY <2>2 DEF EvidenceInv, NumbersFresh
    <3>2. answered'[op.no] = answered[op.no] /\ applied'[op.no] = applied[op.no]
      BY <1>1, <3>1
    <3>3. Puts(op.no)' = Puts(op.no)
      BY <3>1 DEF Puts
    <3> QED BY <2>2, <3>2, <3>3 DEF CallSeen, PutState
  <2> QED BY <2>1, <2>2
<1>3. PosOf(local)' = PosOf(local) /\ ReportSeen' = ReportSeen
  BY DEF PosOf, ReportSeen
<1>4. CASE r.method = "PUT"
  <2>1. r.pos \in LateUploads
    BY <1>4 DEF LateUploads
  <2>2. LateUploads' \in {LateUploads, LateUploads \ {r.pos}}
    BY <1>4 DEF LateUploads
  <2>3. server' \in {server, r.pos}
    BY <1>4
  <2> QED BY <1>2, <1>3, <2>1, <2>2, <2>3 DEF Contract!LateUpload
<1>5. CASE r.method # "PUT"
  <2>1. LateUploads' = LateUploads
    BY <1>5 DEF LateUploads
  <2> QED BY <1>2, <1>3, <1>5, <2>1 DEF Contract!contractVars
<1> QED BY <1>4, <1>5

LEMMA ServerSeen ==
    ASSUME EvidenceInv, ContractInv, ServerStep, UNCHANGED <<settings, local, opVars>>
    PROVE  \/ Contract!Serve \/ Contract!ServerStores \/ Contract!ServerRefuses
           \/ Contract!LateUpload \/ UNCHANGED Contract!contractVars
<1>1. PICK r \in wire :
         /\ wire' = wire \ {r}
         /\ \/ UNCHANGED <<server, answered, applied>>
            \/ /\ r.method = "GET" /\ UNCHANGED <<server, applied>>
               /\ answered' = [answered EXCEPT ![r.op] = server]
            \/ /\ r.method = "PUT" /\ UNCHANGED answered
               /\ server' = r.pos
               /\ applied' = [applied EXCEPT ![r.op] = r.pos]
  BY ServerEffect
<1>2. r.method \in {"GET", "PUT"} /\ "GET" # "PUT"
  BY DEF EvidenceInv, TypeOK, NetTypeOK, Requests
<1>3. CASE pc = "idle" \/ r.op # op.no
  BY <1>1, <1>3, LateStep
<1>4. CASE pc # "idle" /\ r.op = op.no /\ r.method = "PUT"
  BY <1>1, <1>2, <1>4, OwnPutStep
<1>5. CASE pc # "idle" /\ r.op = op.no /\ r.method = "GET"
  <2>1. CASE UNCHANGED <<server, answered, applied>>
    <3>1. (\A n : Puts(n)' = Puts(n)) /\ LateUploads' = LateUploads
      BY <1>1, <1>2, <1>5 DEF Puts, LateUploads, opVars
    <3>2. CallSeen' = CallSeen
      BY <1>5, <2>1, <3>1 DEF CallSeen, PutState, opVars
    <3> QED BY <2>1, <3>1, <3>2 DEF Contract!contractVars, PosOf, ReportSeen,
                                   opVars
  <2>2. CASE ~UNCHANGED <<server, answered, applied>>
    BY <1>1, <1>2, <1>5, <2>2, ServeStep
  <2> QED BY <2>1, <2>2
<1> QED BY <1>2, <1>3, <1>4, <1>5

LEMMA EnvironmentSeen ==
    ASSUME EvidenceInv, ContractInv, EvidenceInv',
           \/ PowerLoss \/ ReaderSaves \/ SettingsChange
           \/ OtherDevicePuts /\ UNCHANGED <<settings, local, opVars>>
    PROVE  \/ Contract!Abort \/ Contract!LocalSave \/ Contract!OtherDevice
           \/ UNCHANGED Contract!contractVars
<1> USE DEF opVars
<1>1. CASE PowerLoss
  BY <1>1, AbortStep
<1>2. CASE ReaderSaves
  <2>1. /\ pc = "idle" /\ local' \in Records
        /\ UNCHANGED <<wire, server, answered, applied, pc, op, res, product>>
    BY <1>2 DEF ReaderSaves, netVars
  <2>2. PosOf(local)' \in XPointers
    BY <2>1, StoredAssumption DEF PosOf, Records
  <2>3. CallSeen.kind = "none" /\ CallSeen' = CallSeen
    BY <2>1 DEF CallSeen
  <2>4. LateUploads' = LateUploads /\ ReportSeen' = ReportSeen
    BY <2>1 DEF LateUploads, ReportSeen
  <2> QED BY <2>1, <2>2, <2>3, <2>4 DEF Contract!LocalSave, Contract!Running
<1>3. CASE SettingsChange
  <2>1. /\ pc = "idle"
        /\ UNCHANGED <<wire, server, local, pc, op, product>>
    BY <1>3 DEF SettingsChange, netVars
  <2>2. CallSeen' = CallSeen /\ LateUploads' = LateUploads
    BY <2>1 DEF CallSeen, LateUploads
  <2> QED BY <2>1, <2>2 DEF Contract!contractVars, PosOf, ReportSeen
<1>4. CASE OtherDevicePuts /\ UNCHANGED <<settings, local, opVars>>
  <2>1. server' \in Positions /\ UNCHANGED <<wire, answered, applied>>
    BY <1>4 DEF OtherDevicePuts
  <2>2. CallSeen' = CallSeen /\ LateUploads' = LateUploads
    BY <1>4, <2>1 DEF CallSeen, LateUploads, PutState, Puts
  <2> QED BY <1>4, <2>1, <2>2 DEF Contract!OtherDevice, PosOf, ReportSeen
<1> QED BY <1>1, <1>2, <1>3, <1>4

LEMMA ControllerSeen ==
    ASSUME EvidenceInv, RecordsInv, ContractInv, EvidenceInv',
           LoadSettings \/ LoadCredentials \/ ResolveConfig \/ Classify
    PROVE  \/ \E r \in Contract!Reports : Contract!Return(r)
           \/ UNCHANGED Contract!contractVars
<1>1. product' \in Products
  BY DEF EvidenceInv, TypeOK
<1>2. CASE Classify
  BY <1>1, <1>2, ClassifyStep
<1>3. CASE (LoadSettings \/ LoadCredentials \/ ResolveConfig) /\ pc' = "idle"
  BY <1>1, <1>3, PreflightStep
<1>4. CASE (LoadSettings \/ LoadCredentials \/ ResolveConfig) /\ pc' # "idle"
  <2>1. /\ pc # "idle" /\ res' = res
        /\ UNCHANGED <<wire, server, answered, applied, local, op, product>>
    BY <1>4 DEF LoadSettings, LoadCredentials, ResolveConfig, Pass,
                preflight_failure, Return, Goto, Quiet, netVars
  <2> QED BY <1>4, <2>1, Unseen
<1> QED BY <1>2, <1>3, <1>4

LEMMA IntegrationSeen ==
    ASSUME EvidenceInv, RecordsInv, ContractInv,
           \/ Identify \/ LoadFails \/ LoadForSync \/ LoadForPush
           \/ EstablishTime \/ ResolveHost \/ cn_kosync_client_set_tls
           \/ CallGet \/ GetFailsEarly \/ GetReturns
           \/ DecideSync \/ DecidePull \/ SaveFails
           \/ PrepareUpload \/ CallPut \/ PutFailsEarly \/ PutReturns
    PROVE  UNCHANGED Contract!contractVars
<1>1. res'.local_saved = res.local_saved
  <2>1. CASE SaveFails
    BY <2>1 DEF SaveFails, EndWith, EvidenceInv, TypeOK, Results
  <2> QED BY <2>1, ConnectContract, LoadForPushContract, CallContract,
             ReturnsContract, DecideContract
<1>2. /\ pc # "idle" /\ pc' # "idle"
      /\ UNCHANGED <<wire, server, answered, applied, local, op, product>>
  <2> USE DEF Goto, End, EndWith, EndKosync, Running, Quiet, netVars, OnlyNet
  <2>1. CASE \/ Identify \/ LoadFails \/ LoadForSync \/ LoadForPush
             \/ EstablishTime \/ ResolveHost \/ cn_kosync_client_set_tls
    BY <2>1 DEF Identify, LoadFails, LoadForSync, LoadForPush, EstablishTime,
                ResolveHost, cn_kosync_client_set_tls
  <2>2. CASE \/ CallGet \/ GetFailsEarly \/ GetReturns
             \/ CallPut \/ PutFailsEarly \/ PutReturns
    BY <2>2 DEF CallGet, GetFailsEarly, GetReturns, CallPut, PutFailsEarly,
                PutReturns, StartExchange
  <2>3. CASE DecideSync \/ DecidePull \/ SaveFails \/ PrepareUpload
    BY <2>3 DEF DecideSync, DecidePull, SaveFails, PrepareUpload
  <2> QED BY <2>1, <2>2, <2>3
<1> QED BY <1>1, <1>2, Unseen

LEMMA NextSeen ==
    ASSUME EvidenceInv, RecordsInv, ContractInv, EvidenceInv', [Next]_vars
    PROVE  [Contract!Next]_(Contract!contractVars)
<1>1. CASE Begin
  <2>1. PICK n \in Ops, k \in Kinds : Start(n, k)
    BY <1>1 DEF Begin
  <2>2. Contract!Call(k) /\ k \in Contract!Kinds
    BY <2>1, CallStep DEF Kinds, Contract!Kinds
  <2> QED BY <2>2 DEF Contract!Next
<1>2. CASE OperationStep
  <2>1. CASE LoadSettings \/ LoadCredentials \/ ResolveConfig \/ Classify
    BY <2>1, ControllerSeen DEF Contract!Next
  <2>2. CASE SaveRemote
    BY <2>2, ImportStep DEF Contract!Next
  <2>3. CASE ~(LoadSettings \/ LoadCredentials \/ ResolveConfig \/ Classify
               \/ SaveRemote)
    BY <1>2, <2>3, IntegrationSeen DEF OperationStep
  <2> QED BY <2>1, <2>2, <2>3
<1>3. CASE NetworkStep
  BY <1>3, ExchangeSeen DEF NetworkStep, Contract!Next
<1>4. CASE Environment
  <2>1. CASE ServerStep /\ UNCHANGED <<settings, local, opVars>>
    BY <2>1, ServerSeen DEF Contract!Next, Contract!World
  <2>2. CASE \/ PowerLoss \/ ReaderSaves \/ SettingsChange
             \/ OtherDevicePuts /\ UNCHANGED <<settings, local, opVars>>
    BY <2>2, EnvironmentSeen DEF Contract!Next, Contract!World
  <2> QED BY <1>4, <2>1, <2>2 DEF Environment
<1>5. CASE UNCHANGED vars
  <2>1. UNCHANGED <<wire, server, answered, applied, local, pc, op, res, product>>
    BY <1>5 DEF vars, netVars, opVars
  <2>2. CallSeen' = CallSeen /\ LateUploads' = LateUploads
    BY <2>1 DEF CallSeen, LateUploads, PutState, Puts
  <2> QED BY <2>1, <2>2 DEF Contract!contractVars, PosOf, ReportSeen
<1> QED BY <1>1, <1>2, <1>3, <1>4, <1>5 DEF Next

(* Whatever the network, the server and the battery do, the operations keep  *)
(* the contract their callers rely on: every step of the controllers, of the *)
(* exchange and of the server is a step of SyncContract or invisible in it.  *)
THEOREM ContractKept == Spec => ContractSpec
<1>1. Init => Contract!Init
  BY InitContractStates
<1>2. EvidenceInv /\ RecordsInv /\ ContractInv /\ EvidenceInv' /\ [Next]_vars
        => [Contract!Next]_(Contract!contractVars)
  BY NextSeen
<1> QED BY <1>1, <1>2, EvidenceInvariant, RecordsInvariant, ContractInvariant,
           PTL DEF Spec, ContractSpec, Contract!Spec

=============================================================================
