---------------------------- MODULE NetExchange ----------------------------
(***************************************************************************)
(* One HTTPS request/response exchange (cn_netsimple_exchange over the TLS *)
(* layer of net/tlssimple.c) and the KOSync server it talks to.            *)
(*                                                                         *)
(* The exchange is a sequence of blocking calls, each of which can fail:   *)
(* build the request, connect, TLS open, send, receive.  The server is a   *)
(* concurrent actor outside the repository: a request that left the device *)
(* completely stays on the wire until the server handles it, whether the   *)
(* device is still waiting for the answer or gave up long ago.             *)
(***************************************************************************)
EXTENDS Naturals, KosyncPolicy

CONSTANTS
    Ops,        \* numbers of the operations the device performs
    Positions,  \* logical positions a KOSync record can hold
    NoRecord    \* "the server (or the store) has no record of the book"

ASSUME NoRecordAssumption == NoRecord \notin Positions

VARIABLES
    net,        \* the exchange in progress: phase, request, result, reply
    wire,       \* complete requests the server has not handled yet
    server,     \* the position the server stores for the book
    answered,   \* history: what the server stored when it served op n's GET
    applied     \* history: the position op n's PUT stored on the server

netVars == <<net, wire, server, answered, applied>>

Phases == {"idle", "request", "connect", "open", "send", "recv", "done"}

Requests == [op : Ops, method : {"GET", "PUT"}, pos : Positions \cup {NoRecord}]

Bodies == {"none", "record", "empty", "ack", "bad_json", "bad_protocol"}

Replies == [http : HttpStatuses, body : Bodies,
            pos : Positions \cup {NoRecord}]

NoRequest == [op |-> 0, method |-> "GET", pos |-> NoRecord]
NoReply == [http |-> "0", body |-> "none", pos |-> NoRecord]

Idle == [phase |-> "idle", req |-> NoRequest, result |-> "INVALID",
         reply |-> NoReply]

NetInit ==
    /\ net = Idle
    /\ wire = {}
    /\ server \in Positions \cup {NoRecord}
    /\ answered = [n \in Ops |-> "unanswered"]
    /\ applied = [n \in Ops |-> NoRecord]

-----------------------------------------------------------------------------
(* The failures of each phase, as cn_netsimple_exchange returns them.       *)

(* cn_netsimple_connect_error plus the local failures of the same step: the *)
(* fcntl() after connect() is reported as SEND_ERROR.                       *)
ConnectFailures ==
    {"CONNECT_REFUSED", "NETWORK_UNREACHABLE", "HOST_UNREACHABLE",
     "CONNECT_TIMEOUT", "CONNECT_ERROR", "SEND_ERROR"}

(* cn_tls_map of what cn_tls_open returns: certificate and handshake        *)
(* verdicts, and PROTOCOL_FAILED when the peer closes during the handshake. *)
OpenFailures ==
    {"INVALID", "TLS_INTERNAL", "TLS_ENTROPY_FAILED", "TLS_INVALID_CA",
     "TLS_HANDSHAKE_FAILED", "TLS_HANDSHAKE_TIMEOUT", "TLS_TRUST_FAILED",
     "TLS_HOSTNAME_MISMATCH", "TLS_CERT_TIME_FAILED", "TLS_CERT_INVALID",
     "TLS_PROTOCOL_FAILED"}

SendFailures == {"SEND_TIMEOUT", "SEND_ERROR"}

RecvFailures ==
    {"TLS_RECV_TIMEOUT", "TLS_PROTOCOL_FAILED", "TRUNCATED", "BAD_RESPONSE"}

StepTo(p) == net' = [net EXCEPT !.phase = p]

FinishExchange(code) == net' = [net EXCEPT !.phase = "done", !.result = code]

OnlyNet == UNCHANGED <<wire, server, answered, applied>>

StartExchange(r) ==
    /\ net' = [Idle EXCEPT !.phase = "request", !.req = r]
    /\ OnlyNet

cn_netsimple_build_exchange_request ==
    /\ net.phase = "request"
    /\ StepTo("connect") \/ FinishExchange("INVALID")
    /\ OnlyNet

connect_with_timeout ==
    /\ net.phase = "connect"
    /\ \/ StepTo("open")
       \/ \E c \in ConnectFailures : FinishExchange(c)
    /\ OnlyNet

cn_tls_open ==
    /\ net.phase = "open"
    /\ \/ StepTo("send")
       \/ \E c \in OpenFailures : FinishExchange(c)
    /\ OnlyNet

(* Headers and body leave the device: from here on the server may act. *)
SendRequest ==
    /\ net.phase = "send"
    /\ StepTo("recv")
    /\ wire' = wire \cup {net.req}
    /\ UNCHANGED <<server, answered, applied>>

(* A send that failed says nothing about delivery: cn_tls_close flushes what *)
(* the TLS engine still holds, so the whole request may leave all the same.  *)
SendFails ==
    /\ net.phase = "send"
    /\ \E c \in SendFailures : FinishExchange(c)
    /\ wire' \in {wire, wire \cup {net.req}}
    /\ UNCHANGED <<server, answered, applied>>

ReceiveReply ==
    /\ net.phase = "recv"
    /\ net.reply # NoReply
    /\ FinishExchange("OK")
    /\ OnlyNet

(* Mutant: no receive deadline, only an answer can end the wait. *)
ReceiveFails_no_deadline ==
    /\ net.phase = "recv" /\ net.reply # NoReply
    /\ \E c \in RecvFailures : FinishExchange(c)
    /\ OnlyNet

(* The deadline, a broken connection, a short or an unparsable response,    *)
(* whatever the server did with the request.                                *)
ReceiveFails ==
    /\ net.phase = "recv"
    /\ \E c \in RecvFailures : FinishExchange(c)
    /\ OnlyNet

ExchangeStep ==
    \/ cn_netsimple_build_exchange_request
    \/ connect_with_timeout
    \/ cn_tls_open
    \/ SendRequest
    \/ SendFails
    \/ ReceiveReply
    \/ ReceiveFails

-----------------------------------------------------------------------------
(* The KOSync server, external: it handles a request at most once, answers  *)
(* 401 only without applying it and acknowledges a PUT only after applying  *)
(* it.  A proxy in front of it may replace any answer by an HTTP error.     *)

ReplyTo(r, reply) ==
    /\ wire' = wire \ {r}
    /\ net' = IF net.phase = "recv" /\ net.req = r
              THEN [net EXCEPT !.reply = reply] ELSE net

HttpErrors == {"408", "429", "5xx", "other"}

Answer(http, body, pos) == [http |-> http, body |-> body, pos |-> pos]

Failing == {Answer(h, "none", NoRecord) : h \in HttpErrors}

Garbled == {Answer("200", b, NoRecord) : b \in {"bad_json", "bad_protocol"}}

ServerRefuses(r) ==
    /\ \E reply \in Failing \cup Garbled \cup {Answer("401", "none", NoRecord)} :
          ReplyTo(r, reply)
    /\ UNCHANGED <<server, answered, applied>>

ServerServesGet(r) ==
    /\ r.method = "GET"
    /\ ReplyTo(r, IF server = NoRecord THEN Answer("200", "empty", NoRecord)
                  ELSE Answer("200", "record", server))
    /\ answered' = [answered EXCEPT ![r.op] = server]
    /\ UNCHANGED <<server, applied>>

ServerAppliesPut(r) ==
    /\ r.method = "PUT"
    /\ \E reply \in Failing \cup Garbled \cup {Answer("200", "ack", NoRecord)} :
          ReplyTo(r, reply)
    /\ server' = r.pos
    /\ applied' = [applied EXCEPT ![r.op] = r.pos]
    /\ UNCHANGED answered

ServerStep == \E r \in wire : ServerRefuses(r) \/ ServerServesGet(r)
                                               \/ ServerAppliesPut(r)

(* Another device of the same account uploads its position. *)
OtherDevicePuts ==
    /\ \E p \in Positions : server' = p
    /\ UNCHANGED <<net, wire, answered, applied>>

-----------------------------------------------------------------------------
NetTypeOK ==
    /\ net \in [phase : Phases, req : Requests \cup {NoRequest},
                result : Transports, reply : Replies]
    /\ wire \subseteq Requests
    /\ server \in Positions \cup {NoRecord}
    /\ answered \in [Ops -> Positions \cup {NoRecord, "unanswered"}]
    /\ applied \in [Ops -> Positions \cup {NoRecord}]

=============================================================================
