------------------------------ MODULE DnsClient ------------------------------
(***************************************************************************)
(* cn_dnssimple_resolve_a over UDP (net/dnssimple.c): the servers are asked *)
(* in turn; each question is sent up to three times, a quarter of the       *)
(* timeout apart.  Queries and replies may be lost, duplicated, delayed     *)
(* past their attempt and reordered.  Time is counted in quarters of one    *)
(* attempt's timeout.                                                       *)
(***************************************************************************)
EXTENDS Integers, Sequences, FiniteSetsExt

CONSTANTS
    Servers,        \* the configured servers, in order
    Addresses,      \* IPv4 addresses
    MaxAddresses    \* CN_DNS_MAX_IPV4

ServersAssumption == Servers \in Seq(STRING) /\ Len(Servers) \in 1 .. 2
MaxAssumption == MaxAddresses \in Nat \ {0} /\ IsFiniteSet(Addresses)

VARIABLES
    pc,         \* "idle", "send", "wait", "ended" (one attempt), "done"
    attempt,    \* index of the server asked; its transaction id
    sends, tick,
    queries,    \* [to, id] in the network
    replies,    \* [from, id, body] in the network, each any number of times
    answer,     \* addresses filled in
    result,
    ended       \* what the last attempt ended with; one that lets the next
                \* server be asked is forgotten then

clientVars == <<pc, attempt, sends, answer, result, ended>>
vars == <<clientVars, tick, queries, replies>>

(* A reply: its address records, if it has an alias, and what else is to be  *)
(* said of it.  Only those whose records are read have any; the alias        *)
(* matters where there is no address.                                       *)
Kinds == {"whole", "malformed", "truncated", "oversize", "rcode 3", "rcode 2"}
Bodies ==
    {b \in [addrs : SUBSET Addresses, cname : BOOLEAN, kind : Kinds] :
        /\ b.cname => b.kind = "whole" /\ b.addrs = {}
        /\ b.addrs # {} => b.kind \in {"whole", "malformed"}}

Deadline == 4
Final == {"NXDOMAIN", "NO_ADDRESS", "UNSUPPORTED_CNAME", "ENTROPY_FAILED",
          "INVALID", "INVALID_HOSTNAME"}
Passing == {"SOCKET_FAILED", "NETWORK_FAILED", "TIMEOUT", "PACKET_SIZE",
            "MALFORMED_RESPONSE", "TRUNCATED_RESPONSE", "SERVER_FAILURE"}

Init ==
    /\ pc = "idle" /\ attempt = 0 /\ sends = 0 /\ tick = 0
    /\ queries = {} /\ replies = {} /\ answer = {} /\ result = "none" /\ ended = "none"

Quiet == UNCHANGED <<queries, replies, tick>>

-----------------------------------------------------------------------------
(* parse_response: the verdict on a reply and the addresses it leaves.      *)
Verdict(b) ==
    CASE b.kind = "oversize" -> "PACKET_SIZE"
      [] b.kind = "truncated" -> "TRUNCATED_RESPONSE"
      [] b.kind = "malformed" -> "MALFORMED_RESPONSE"
      [] b.kind = "rcode 3" -> "NXDOMAIN"
      [] b.kind = "rcode 2" -> "SERVER_FAILURE"
      [] b.kind = "whole" /\ b.addrs # {} -> "OK"
      [] b.kind = "whole" /\ b.cname -> "UNSUPPORTED_CNAME"
      [] OTHER -> "NO_ADDRESS"

(* What the answer may hold then: records before the malformed one have been *)
(* taken, an rcode clears all. *)
Taken(b) ==
    LET all == answer \cup b.addrs
        fits == {a \in SUBSET all : answer \subseteq a /\ Cardinality(a) <= MaxAddresses}
    IN  IF b.kind \in {"rcode 3", "rcode 2"} THEN {{}}
        ELSE IF b.kind = "malformed" THEN fits
        ELSE {a \in fits : Cardinality(a) = Min({MaxAddresses, Cardinality(all)})}

Forgotten == IF ended \in Passing THEN "none" ELSE ended

(* Mutant: what the last attempt left is not cleared. *)
BeginAttempt_uncleared ==
    /\ attempt' = attempt + 1 /\ sends' = 0 /\ tick' = 0
    /\ pc' = "send" /\ ended' = Forgotten /\ UNCHANGED <<answer, result>>

(* query_server: the answer is cleared, the id drawn, the clock read. *)
BeginAttempt ==
    /\ attempt' = attempt + 1 /\ sends' = 0 /\ tick' = 0
    /\ answer' = {}
    /\ pc' = "send" /\ ended' = Forgotten /\ UNCHANGED result

EndAttempt(r) == pc' = "ended" /\ ended' = r

Resolve ==
    /\ pc = "idle"
    /\ \/ BeginAttempt
       \/ /\ pc' = "done" /\ result' \in {"INVALID", "INVALID_HOSTNAME"}
          /\ UNCHANGED <<attempt, sends, tick, answer, ended>>
    /\ UNCHANGED <<queries, replies>>

(* Nothing was sent: no entropy, a bad address, no socket. *)
CannotSend ==
    /\ pc = "send"
    /\ \/ sends = 0 /\ \E r \in {"INVALID", "ENTROPY_FAILED", "SOCKET_FAILED"} :
                          EndAttempt(r)
       \/ EndAttempt("NETWORK_FAILED")
    /\ UNCHANGED <<attempt, sends, answer, result>> /\ Quiet

Send ==
    /\ pc = "send" /\ tick < Deadline
    /\ queries' = queries \cup {[to |-> Servers[attempt], id |-> attempt]}
    /\ sends' = sends + 1 /\ pc' = "wait"
    /\ UNCHANGED <<attempt, answer, result, ended, replies, tick>>

SendTooLate ==
    /\ pc = "send" /\ tick = Deadline
    /\ EndAttempt("TIMEOUT")
    /\ UNCHANGED <<attempt, sends, answer, result>> /\ Quiet

(* retransmit_deadlines, and the deadline after the third time. *)
WaitUntil == IF sends < 3 THEN sends ELSE Deadline

WaitOver ==
    /\ pc = "wait" /\ tick >= WaitUntil
    /\ IF sends < 3 /\ tick < Deadline THEN pc' = "send" /\ UNCHANGED ended
       ELSE EndAttempt("TIMEOUT")
    /\ UNCHANGED <<attempt, sends, answer, result>> /\ Quiet

WaitFails ==
    /\ pc = "wait" /\ EndAttempt("NETWORK_FAILED")
    /\ UNCHANGED <<attempt, sends, answer, result>> /\ Quiet

Ours(r) == r.from = Servers[attempt] /\ r.id = attempt

(* Mutant: every packet that is ignored starts the waiting anew. *)
Ignore_restarts ==
    /\ pc = "wait" /\ tick < WaitUntil
    /\ \E r \in replies : ~Ours(r)
    /\ tick' = 0
    /\ UNCHANGED <<clientVars, queries, replies>>

(* Wrong source or id: the client goes on waiting for the same deadline.    *)
Ignore ==
    /\ pc = "wait" /\ tick < WaitUntil
    /\ \E r \in replies : ~Ours(r)
    /\ UNCHANGED vars

Receive ==
    /\ pc = "wait" /\ tick < WaitUntil
    /\ \E r \in replies :
          /\ Ours(r) /\ EndAttempt(Verdict(r.body)) /\ answer' \in Taken(r.body)
    /\ UNCHANGED <<attempt, sends, result>> /\ Quiet

Decide_keeps_answer ==
    /\ pc = "ended"
    /\ IF ended \in Passing /\ attempt < Len(Servers) THEN BeginAttempt
       ELSE /\ pc' = "done" /\ result' = ended
            /\ UNCHANGED <<attempt, sends, tick, answer, ended>>
    /\ UNCHANGED <<queries, replies>>

(* The loop of cn_dnssimple_resolve_a. *)
Decide ==
    /\ pc = "ended"
    /\ IF ended \in Passing /\ attempt < Len(Servers) THEN BeginAttempt
       ELSE /\ pc' = "done" /\ result' = ended
            /\ answer' = IF ended \in {"OK"} \cup Final THEN answer ELSE {}
            /\ UNCHANGED <<attempt, sends, tick, ended>>
    /\ UNCHANGED <<queries, replies>>

-----------------------------------------------------------------------------
(* The network and the servers (external).  A query or a reply that is never *)
(* used is lost; a reply stays and may come again, to a later attempt too.  *)
Reply ==
    /\ \E q \in queries, b \in Bodies :
          replies' = replies \cup {[from |-> q.to, id |-> q.id, body |-> b]}
    /\ Cardinality(replies') <= 2       \* bound of the model
    /\ UNCHANGED <<clientVars, tick, queries>>

Tick ==
    /\ pc \in {"send", "wait"} /\ tick < Deadline
    /\ tick' = tick + 1
    /\ UNCHANGED <<clientVars, queries, replies>>

Client ==
    \/ Resolve \/ CannotSend \/ Send \/ SendTooLate
    \/ WaitOver \/ WaitFails \/ Ignore \/ Receive \/ Decide

Next == Client \/ Reply \/ Tick

Spec == Init /\ [][Next]_vars

(* The process runs, and time passes; no error of the network is relied on.  *)
Progress == Resolve \/ Send \/ SendTooLate \/ WaitOver \/ Receive \/ Decide

-----------------------------------------------------------------------------
TypeOK ==
    /\ pc \in {"idle", "send", "wait", "ended", "done"}
    /\ attempt \in 0 .. Len(Servers) /\ sends \in 0 .. 3 /\ tick \in 0 .. Deadline
    /\ answer \subseteq Addresses /\ Cardinality(answer) <= MaxAddresses
    /\ {result, ended} \subseteq Final \cup Passing \cup {"none", "OK"}

(* The addresses are those of one reply to the question that was asked: a    *)
(* reply that was given up half read leaves nothing in the answer of the     *)
(* next server.                                                             *)
AnswerIsOneReply ==
    pc = "done" /\ result = "OK" =>
        \E r \in replies : /\ Ours(r) /\ Verdict(r.body) = "OK"
                           /\ answer # {} /\ answer \subseteq r.body.addrs

(* A call that fails hands out no address, however far the parsing came.     *)
FailureIsEmpty == pc = "done" /\ result # "OK" => answer = {}

(* The second server is asked only when the first did not settle the matter: *)
(* "no such name" and "no address" are answers.                              *)
DefinitiveIsFinal == pc \in {"send", "wait"} => ended = "none"

(* Repetitions are a quarter of the timeout apart, and there are two.        *)
Paced == (sends = 2 => tick >= 1) /\ (sends = 3 => tick >= 2)

=============================================================================
