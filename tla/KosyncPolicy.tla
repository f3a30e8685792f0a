---------------------------- MODULE KosyncPolicy ----------------------------
(***************************************************************************)
(* What the sync code says about a finished operation: the result codes of *)
(* the layers below (sockets, TLS, DNS, SNTP, KOSync protocol) and the     *)
(* pure functions of sync/kosync_policy.c, sync/kosync_push.c and the      *)
(* push and pull controllers that turn them into a product outcome, a      *)
(* retry policy and evidence about what was mutated.                       *)
(*                                                                         *)
(* Codes are the C enumerators without their CN_..._ prefix.               *)
(***************************************************************************)

(* cn_netsimple_result: every failure of one HTTP(S) exchange. *)
TransportFailures ==
    {"INVALID", "RESOLVE_ERROR", "CONNECT_REFUSED", "NETWORK_UNREACHABLE",
     "HOST_UNREACHABLE", "CONNECT_TIMEOUT", "CONNECT_ERROR", "SEND_ERROR",
     "RECV_ERROR", "RECV_TIMEOUT", "TRUNCATED", "BAD_RESPONSE",
     "SEND_TIMEOUT", "TLS_ENTROPY_FAILED", "TLS_INVALID_CA",
     "TLS_HANDSHAKE_FAILED", "TLS_HANDSHAKE_TIMEOUT", "TLS_TRUST_FAILED",
     "TLS_HOSTNAME_MISMATCH", "TLS_CERT_TIME_FAILED", "TLS_CERT_INVALID",
     "TLS_PROTOCOL_FAILED", "TLS_INTERNAL", "TLS_RECV_TIMEOUT"}

Transports == TransportFailures \cup {"OK"}

(* cn_dns_result and cn_time_result, failures only. *)
DnsFailures ==
    {"INVALID", "INVALID_HOSTNAME", "ENTROPY_FAILED", "SOCKET_FAILED",
     "NETWORK_FAILED", "TIMEOUT", "PACKET_SIZE", "MALFORMED_RESPONSE",
     "TRUNCATED_RESPONSE", "NXDOMAIN", "SERVER_FAILURE", "NO_ADDRESS",
     "UNSUPPORTED_CNAME"}

TimeFailures ==
    {"INVALID", "INTERNAL", "ENTROPY_FAILED", "SOCKET_FAILED", "SEND_FAILED",
     "TIMEOUT", "RECV_FAILED", "PEER_MISMATCH", "PACKET_SIZE", "VERSION",
     "MODE", "UNSYNCHRONIZED", "KISS_OF_DEATH", "STRATUM",
     "ORIGINATE_MISMATCH", "ZERO_RECEIVE", "ZERO_TRANSMIT", "TIME_RANGE",
     "CLOCK_SET_FAILED"}

(* cn_kosync_result; HTTP statuses by the ranges the code tells apart. *)
KosyncResults ==
    {"OK", "NOT_FOUND", "INVALID", "AUTH_FAILED", "HTTP_ERROR",
     "TRANSPORT_ERROR", "BAD_JSON", "BAD_PROTOCOL", "NO_MEMORY"}

HttpStatuses == {"0", "200", "401", "408", "429", "5xx", "other"}

SyncStatuses ==
    {"OK", "INVALID", "IDENTITY_FAILED", "LOCAL_FAILED", "LOCAL_UNSUPPORTED",
     "TRUSTED_TIME_FAILED", "DNS_FAILED", "AUTH_FAILED", "HTTPS_FAILED",
     "PROTOCOL_FAILED", "NO_MEMORY",
     "UPLOADED", "LOCAL_MISSING", "REMOTE_MISSING", "PERSISTED"}

Decisions == {"NONE", "NO_STATE", "LOCAL_SELECTED", "REMOTE_SELECTED",
              "NO_CHANGE", "AMBIGUOUS"}

Mutations == {"NONE", "CONFIRMED", "POSSIBLE"}

Retries == {"NONE", "AUTOMATIC_LATER", "EXPLICIT_ACTION"}

(***************************************************************************)
(* Which transport failures prove that no byte of the PUT was sent.        *)
(***************************************************************************)

(* Mutant: a send that failed is taken for a request that did not leave. *)
proven_pre_send_any_send ==
    {"RESOLVE_ERROR", "CONNECT_REFUSED", "NETWORK_UNREACHABLE",
     "HOST_UNREACHABLE", "CONNECT_TIMEOUT", "CONNECT_ERROR",
     "SEND_TIMEOUT", "SEND_ERROR"}

proven_pre_send ==
    {"RESOLVE_ERROR", "CONNECT_REFUSED", "NETWORK_UNREACHABLE",
     "HOST_UNREACHABLE", "CONNECT_TIMEOUT", "CONNECT_ERROR",
     "TLS_ENTROPY_FAILED", "TLS_INVALID_CA", "TLS_HANDSHAKE_FAILED",
     "TLS_HANDSHAKE_TIMEOUT", "TLS_TRUST_FAILED", "TLS_HOSTNAME_MISMATCH",
     "TLS_CERT_TIME_FAILED", "TLS_CERT_INVALID"}

(* Mutant: a send that ran out of time is taken for one that never began. *)
transport_is_pre_put_any_send ==
    proven_pre_send \cup {"INVALID", "TLS_INTERNAL", "SEND_TIMEOUT"}

(* The policy's own list (kosync_policy.c) has two codes more. *)
transport_is_pre_put == proven_pre_send \cup {"INVALID", "TLS_INTERNAL"}

(***************************************************************************)
(* Normal sync: cn_kosync_policy_classify.                                 *)
(***************************************************************************)
remote_mutation(r) ==
    IF r.remote_uploaded = 1 THEN "CONFIRMED"
    ELSE IF \/ r.remote_put_attempted = 0
            \/ r.status \in {"AUTH_FAILED", "INVALID"}
            \/ r.status = "HTTPS_FAILED" /\ r.transport \in transport_is_pre_put
    THEN "NONE" ELSE "POSSIBLE"

saved_mutation(r) ==
    IF r.local_saved = 1 THEN "CONFIRMED"
    ELSE IF r.local_save_attempted = 1 THEN "POSSIBLE" ELSE "NONE"

success_invariants_hold(r) ==
    /\ r.local_saved = 1 => r.local_save_attempted = 1
    /\ r.remote_uploaded = 1 => r.remote_put_attempted = 1
    /\ r.decision # "NONE"
    /\ (r.local_present = 1 <=> r.decision \notin {"NO_STATE", "REMOTE_SELECTED"})
    /\ (r.remote_present = 1 <=> r.decision \notin {"NO_STATE", "LOCAL_SELECTED"})
    /\ (r.local_save_attempted = 1 <=> r.decision = "REMOTE_SELECTED")
    /\ (r.local_saved = 1 <=> r.decision = "REMOTE_SELECTED")
    /\ (r.remote_put_attempted = 1 <=> r.decision = "LOCAL_SELECTED")
    /\ (r.remote_uploaded = 1 <=> r.decision = "LOCAL_SELECTED")

Verdict(o, y) == [outcome |-> o, retry |-> y]

classify_success(r) ==
    CASE r.decision = "NO_STATE"        -> Verdict("NO_STATE", "NONE")
      [] r.decision = "LOCAL_SELECTED"  -> Verdict("UPLOADED", "NONE")
      [] r.decision = "REMOTE_SELECTED" -> Verdict("IMPORTED", "NONE")
      [] r.decision = "NO_CHANGE"       -> Verdict("UNCHANGED", "NONE")
      [] OTHER -> Verdict("CONFLICT", "EXPLICIT_ACTION")

classify_time(code) ==
    Verdict("TRUSTED_TIME_UNAVAILABLE",
            IF code \in {"SOCKET_FAILED", "SEND_FAILED", "TIMEOUT",
                         "RECV_FAILED"}
            THEN "AUTOMATIC_LATER" ELSE "EXPLICIT_ACTION")

(* Shared by the policy and by the push and pull controllers. *)
dns_failure(code) ==
    CASE code \in {"SOCKET_FAILED", "NETWORK_FAILED", "TIMEOUT",
                   "SERVER_FAILURE"} -> "CONNECTIVITY_FAILURE"
      [] code \in {"INVALID", "INVALID_HOSTNAME"} -> "CONFIGURATION_FAILURE"
      [] code = "ENTROPY_FAILED" -> "INTERNAL_FAILURE"
      [] OTHER -> "SERVICE_FAILURE"

transport_failure(code) ==
    CASE code \in {"RESOLVE_ERROR", "CONNECT_REFUSED", "NETWORK_UNREACHABLE",
                   "HOST_UNREACHABLE", "CONNECT_TIMEOUT", "CONNECT_ERROR",
                   "SEND_ERROR", "RECV_ERROR", "RECV_TIMEOUT", "SEND_TIMEOUT",
                   "TLS_HANDSHAKE_TIMEOUT", "TLS_RECV_TIMEOUT"} ->
             "CONNECTIVITY_FAILURE"
      [] code \in {"TLS_INVALID_CA", "TLS_TRUST_FAILED",
                   "TLS_HOSTNAME_MISMATCH", "TLS_CERT_TIME_FAILED",
                   "TLS_CERT_INVALID"} -> "SECURITY_FAILURE"
      [] code = "INVALID" -> "CONFIGURATION_FAILURE"
      [] code \in {"TLS_ENTROPY_FAILED", "TLS_INTERNAL"} -> "INTERNAL_FAILURE"
      [] OTHER -> "SERVICE_FAILURE"

RetryOf(outcome) == IF outcome = "CONNECTIVITY_FAILURE"
                    THEN "AUTOMATIC_LATER" ELSE "EXPLICIT_ACTION"

classify_dns(code) == Verdict(dns_failure(code), RetryOf(dns_failure(code)))

classify_https(code) ==
    Verdict(transport_failure(code), RetryOf(transport_failure(code)))

classify_protocol(r) ==
    Verdict("SERVICE_FAILURE",
            IF r.kosync = "HTTP_ERROR" /\ r.http \in {"408", "429", "5xx"}
            THEN "AUTOMATIC_LATER" ELSE "EXPLICIT_ACTION")

SyncVerdict(r) ==
    CASE r.status = "OK" -> classify_success(r)
      [] r.status = "INVALID" ->
             Verdict("CONFIGURATION_FAILURE", "EXPLICIT_ACTION")
      [] r.status \in {"IDENTITY_FAILED", "LOCAL_FAILED"} ->
             Verdict("LOCAL_FAILURE", "EXPLICIT_ACTION")
      [] r.status = "LOCAL_UNSUPPORTED" ->
             Verdict("LOCAL_UNSUPPORTED", "EXPLICIT_ACTION")
      [] r.status = "TRUSTED_TIME_FAILED" -> classify_time(r.time)
      [] r.status = "DNS_FAILED" -> classify_dns(r.dns)
      [] r.status = "AUTH_FAILED" -> Verdict("AUTH_REQUIRED", "EXPLICIT_ACTION")
      [] r.status = "HTTPS_FAILED" -> classify_https(r.transport)
      [] r.status = "PROTOCOL_FAILED" -> classify_protocol(r)
      [] OTHER -> Verdict("INTERNAL_FAILURE", "EXPLICIT_ACTION")

Report(v, l, m) == [outcome |-> v.outcome, retry |-> v.retry,
                    local_mutation |-> l, remote_mutation |-> m]

(* A result whose fields contradict each other makes the classifier fall    *)
(* back to fail_closed(), which also resets the evidence to NONE: it claims *)
(* that nothing was mutated.                                                *)
Inconsistent(r) ==
    \/ r.local_saved = 1 /\ r.local_save_attempted = 0
    \/ r.remote_uploaded = 1 /\ r.remote_put_attempted = 0
    \/ r.status # "OK" /\ (r.local_saved = 1 \/ r.remote_uploaded = 1)
    \/ r.status = "OK" /\ ~success_invariants_hold(r)
    \/ r.status = "TRUSTED_TIME_FAILED" /\ r.time = "OK"
    \/ r.status = "DNS_FAILED" /\ r.dns = "OK"
    \/ r.status = "HTTPS_FAILED" /\ r.transport = "OK"
    \/ /\ r.status = "PROTOCOL_FAILED"
       /\ r.kosync \notin {"HTTP_ERROR", "BAD_JSON", "BAD_PROTOCOL"}

fail_closed == Report(Verdict("INTERNAL_FAILURE", "EXPLICIT_ACTION"),
                      "NONE", "NONE")

cn_kosync_policy_classify(r) ==
    IF Inconsistent(r) THEN fail_closed
    ELSE Report(SyncVerdict(r), saved_mutation(r), remote_mutation(r))

(***************************************************************************)
(* Explicit push and pull: the evidence of kosync_push.c and the outcome   *)
(* tables of the two controllers.  They have no retry policy.              *)
(***************************************************************************)
push_mutation(r) ==
    IF r.remote_uploaded = 1 THEN "CONFIRMED"
    ELSE IF \/ r.remote_put_attempted = 0
            \/ r.kosync = "TRANSPORT_ERROR" /\ r.transport \in proven_pre_send
    THEN "NONE" ELSE "POSSIBLE"

OneShotOutcome(r) ==
    CASE r.status \in {"UPLOADED", "PERSISTED", "LOCAL_MISSING",
                       "REMOTE_MISSING", "LOCAL_UNSUPPORTED"} -> r.status
      [] r.status \in {"LOCAL_FAILED", "IDENTITY_FAILED"} -> "LOCAL_FAILURE"
      [] r.status = "AUTH_FAILED" -> "AUTH_REQUIRED"
      [] r.status = "TRUSTED_TIME_FAILED" -> "TRUSTED_TIME_UNAVAILABLE"
      [] r.status = "DNS_FAILED" -> dns_failure(r.dns)
      [] r.status = "HTTPS_FAILED" -> transport_failure(r.transport)
      [] r.status = "PROTOCOL_FAILED" -> "SERVICE_FAILURE"
      [] r.status = "INVALID" -> "CONFIGURATION_FAILURE"
      [] OTHER -> "INTERNAL_FAILURE"

classify_push(r) ==
    Report(Verdict(OneShotOutcome(r), "NONE"), "NONE", push_mutation(r))

classify_pull(r) ==
    Report(Verdict(OneShotOutcome(r), "NONE"), saved_mutation(r), "NONE")

=============================================================================
