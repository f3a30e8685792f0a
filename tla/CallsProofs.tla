---------------------------- MODULE CallsProofs ----------------------------
(***************************************************************************)
(* Proofs about the calls of Calls: first those that wait for the network,  *)
(* with the entropy and the anchors that TLS needs, then those that look at *)
(* files and mounts.  Each call has an inductive invariant of its own, which*)
(* its steps preserve; the steps of the other calls leave its variables     *)
(* alone.                                                                   *)
(***************************************************************************)
EXTENDS Calls, Sequences, FiniteSetTheorems, SequenceTheorems,
        WellFoundedInduction, TLAPS

-----------------------------------------------------------------------------
(* The DNS client.                                                          *)

(* While an attempt runs, nothing has been taken and nothing is decided; a   *)
(* repetition waits for its deadline.  What ended an attempt says what the   *)
(* answer holds.                                                            *)
DnsEvidence ==
    \E r \in dnsReplies : /\ Dns!Ours(r) /\ Dns!Verdict(r.body) = "OK"
                          /\ answer # {} /\ answer \subseteq r.body.addrs

DnsInv ==
    /\ Dns!TypeOK
    /\ \A r \in dnsReplies : r.body \in Dns!Bodies
    /\ dnsPc = "idle" => dnsAttempt = 0 /\ dnsEnded = "none" /\ answer = {}
    /\ dnsPc = "send" => sends < 3 /\ tick >= sends
    /\ dnsPc = "wait" => sends \in 1 .. 3
    /\ dnsPc \in {"send", "wait"} => answer = {} /\ dnsEnded = "none"
    /\ dnsPc = "ended" /\ dnsEnded = "OK" => DnsEvidence
    /\ dnsPc = "ended" /\ dnsEnded \in Dns!Final => answer = {}
    /\ dnsPc = "ended" => dnsEnded # "none"
    /\ Dns!AnswerIsOneReply
    /\ Dns!FailureIsEmpty
    /\ Dns!Paced

LEMMA DnsFinite == ASSUME NEW S PROVE Dns!IsFiniteSet(S) <=> IsFiniteSet(S)
BY DEF Dns!IsFiniteSet, IsFiniteSet

LEMMA DnsCardinality == ASSUME NEW S PROVE Dns!Cardinality(S) = Cardinality(S)
BY DEF Dns!Cardinality, Cardinality

LEMMA DnsInitially == ASSUME Dns!Init PROVE DnsInv
BY DnsAssumption, FS_EmptySet, DnsCardinality
DEF DnsAssumption, Dns!ServersAssumption, Dns!MaxAssumption, Dns!Init, DnsInv, Dns!TypeOK,
    Dns!AnswerIsOneReply, Dns!FailureIsEmpty, Dns!Paced, Dns!Deadline, Dns!Final, Dns!Passing

LEMMA DnsMin ==
    ASSUME NEW m \in Nat, NEW n \in Nat
    PROVE  Dns!Min({m, n}) = IF m <= n THEN m ELSE n
<1>1. PICK x \in {m, n} : \A y \in {m, n} : x <= y
  BY SMT
<1>2. Dns!Min({m, n}) \in {m, n} /\ \A y \in {m, n} : Dns!Min({m, n}) <= y
  BY <1>1, Zenon DEF Dns!Min
<1> QED
  BY <1>2, SMT

(* What the addresses of a reply leave in an answer that was cleared.        *)
LEMMA DnsTaken ==
    ASSUME answer = {}, NEW b \in Dns!Bodies, NEW a \in Dns!Taken(b)
    PROVE  /\ a \subseteq Addresses /\ Dns!Cardinality(a) <= MaxAddresses
           /\ Dns!Verdict(b) = "OK" => a # {} /\ a \subseteq b.addrs
           /\ Dns!Verdict(b) \in Dns!Final => a = {}
           /\ Dns!Verdict(b) \in Dns!Final \cup Dns!Passing \cup {"OK"}
<1>1. MaxAddresses \in Nat \ {0} /\ IsFiniteSet(Addresses)
  BY DnsAssumption, DnsFinite DEF DnsAssumption, Dns!MaxAssumption
<1>2. b.addrs \subseteq Addresses /\ IsFiniteSet(b.addrs) /\ b.kind \in Dns!Kinds
      /\ (b.cname => b.addrs = {})
      /\ (b.addrs # {} => b.kind \in {"whole", "malformed"})
  BY <1>1, FS_Subset DEF Dns!Bodies
<1>3. Cardinality(b.addrs) \in Nat /\ (Cardinality(b.addrs) = 0 <=> b.addrs = {})
  BY <1>2, FS_CardinalityType, FS_EmptySet
<1>4. Dns!Cardinality({}) = 0
  BY FS_EmptySet, DnsCardinality
<1>5. answer \cup b.addrs = b.addrs
  OBVIOUS
<1>6. CASE b.kind \in {"rcode 3", "rcode 2"}
  <2>1. a = {}
    BY <1>6 DEF Dns!Taken
  <2>2. Dns!Verdict(b) \in {"NXDOMAIN", "SERVER_FAILURE"}
    BY <1>6 DEF Dns!Verdict
  <2>3. Dns!Cardinality(a) <= MaxAddresses
    BY <1>1, <1>4, <2>1
  <2> QED
    BY <2>1, <2>2, <2>3 DEF Dns!Final, Dns!Passing
<1>7. CASE b.kind = "malformed"
  <2>1. a \subseteq b.addrs /\ Dns!Cardinality(a) <= MaxAddresses
    BY <1>5, <1>7 DEF Dns!Taken
  <2> QED
    BY <1>2, <1>7, <2>1 DEF Dns!Verdict, Dns!Final, Dns!Passing
<1>8. CASE b.kind \notin {"rcode 3", "rcode 2", "malformed"}
  <2>1. a \subseteq b.addrs /\ Dns!Cardinality(a) <= MaxAddresses
        /\ Dns!Cardinality(a) = Dns!Min({MaxAddresses, Dns!Cardinality(b.addrs)})
    BY <1>5, <1>8 DEF Dns!Taken
  <2>2. Dns!Verdict(b) = "OK" => a # {}
    <3> SUFFICES ASSUME Dns!Verdict(b) = "OK", a = {} PROVE FALSE
      OBVIOUS
    <3>1. b.addrs # {}
      BY <1>8 DEF Dns!Verdict, Dns!Kinds
    <3>2. Dns!Cardinality(b.addrs) \in Nat \ {0}
      BY <1>3, <3>1, DnsCardinality
    <3> QED
      BY <1>1, <1>4, <2>1, <3>2, DnsMin
  <2>3. Dns!Verdict(b) \in Dns!Final \cup Dns!Passing \cup {"OK"}
    BY <1>2, <1>8 DEF Dns!Verdict, Dns!Final, Dns!Passing, Dns!Kinds
  <2>4. Dns!Verdict(b) \in Dns!Final => b.addrs = {}
    BY <1>2, <1>8 DEF Dns!Verdict, Dns!Final, Dns!Kinds
  <2> QED
    BY <1>2, <2>1, <2>2, <2>3, <2>4
<1> QED
  BY <1>6, <1>7, <1>8

LEMMA DnsStep == ASSUME DnsInv, Dns!Next PROVE DnsInv'
<1> USE DnsAssumption DEF DnsAssumption, Dns!ServersAssumption, Dns!MaxAssumption
<1>0. Dns!Cardinality({}) = 0
  BY FS_EmptySet, DnsCardinality
<1>1. CASE Dns!Resolve /\ ~Dns!BeginAttempt
  BY <1>1
  DEF Dns!Resolve, DnsInv, DnsEvidence, Dns!TypeOK, Dns!Final, Dns!Passing,
      Dns!AnswerIsOneReply, Dns!FailureIsEmpty, Dns!Paced, Dns!Ours
<1>2. ASSUME dnsAttempt < Len(Servers), dnsPc \in {"idle", "ended"},
             dnsPc = "ended" => dnsEnded \in Dns!Passing,
             Dns!BeginAttempt, UNCHANGED <<dnsQueries, dnsReplies>>
      PROVE  DnsInv'
  BY <1>0, <1>2
  DEF Dns!BeginAttempt, Dns!Forgotten, DnsInv, Dns!TypeOK, Dns!Final, Dns!Passing,
      Dns!AnswerIsOneReply, Dns!FailureIsEmpty, Dns!Paced, Dns!Deadline
<1>3. CASE Dns!CannotSend \/ Dns!SendTooLate \/ Dns!WaitOver \/ Dns!WaitFails
  BY <1>3
  DEF Dns!CannotSend, Dns!SendTooLate, Dns!WaitOver, Dns!WaitFails, Dns!EndAttempt,
      Dns!Quiet, Dns!WaitUntil, DnsInv, Dns!TypeOK, Dns!Final, Dns!Passing,
      Dns!AnswerIsOneReply, Dns!FailureIsEmpty, Dns!Paced, Dns!Deadline
<1>4. CASE Dns!Send
  BY <1>4
  DEF Dns!Send, DnsInv, Dns!TypeOK, Dns!Final, Dns!Passing,
      Dns!AnswerIsOneReply, Dns!FailureIsEmpty, Dns!Paced, Dns!Deadline
<1>5. CASE Dns!Ignore
  BY <1>5
  DEF Dns!Ignore, Dns!vars, Dns!clientVars, DnsInv, DnsEvidence, Dns!TypeOK,
      Dns!AnswerIsOneReply, Dns!FailureIsEmpty, Dns!Paced, Dns!Ours
<1>6. CASE Dns!Receive
  <2>1. PICK r \in dnsReplies :
          /\ Dns!Ours(r) /\ Dns!EndAttempt(Dns!Verdict(r.body))
          /\ answer' \in Dns!Taken(r.body)
    BY <1>6 DEF Dns!Receive
  <2>2. answer = {} /\ r.body \in Dns!Bodies
    BY <1>6 DEF Dns!Receive, DnsInv
  <2>3. /\ answer' \subseteq Addresses /\ Dns!Cardinality(answer') <= MaxAddresses
        /\ Dns!Verdict(r.body) = "OK" => answer' # {} /\ answer' \subseteq r.body.addrs
        /\ Dns!Verdict(r.body) \in Dns!Final => answer' = {}
        /\ Dns!Verdict(r.body) \in Dns!Final \cup Dns!Passing \cup {"OK"}
    BY <2>1, <2>2, DnsTaken
  <2>4. (dnsPc = "ended" /\ dnsEnded = "OK" => DnsEvidence)'
    BY <1>6, <2>1, <2>3 DEF Dns!Receive, Dns!EndAttempt, DnsEvidence, Dns!Ours, Dns!Quiet
  <2> QED
    BY <1>6, <2>1, <2>3, <2>4
    DEF Dns!Receive, Dns!EndAttempt, Dns!Quiet, DnsInv, Dns!TypeOK, Dns!Final,
        Dns!Passing, Dns!AnswerIsOneReply, Dns!FailureIsEmpty, Dns!Paced
<1>7. CASE Dns!Decide /\ ~(dnsEnded \in Dns!Passing /\ dnsAttempt < Len(Servers))
  <2>1. /\ dnsPc = "ended" /\ dnsPc' = "done" /\ dnsResult' = dnsEnded
        /\ answer' = IF dnsEnded \in {"OK"} \cup Dns!Final THEN answer ELSE {}
        /\ UNCHANGED <<dnsAttempt, sends, tick, dnsEnded, dnsQueries, dnsReplies>>
    BY <1>7 DEF Dns!Decide
  <2>2. dnsEnded = "OK" => DnsEvidence
    BY <2>1 DEF DnsInv
  <2>3. Dns!AnswerIsOneReply'
    BY <2>1, <2>2 DEF DnsEvidence, Dns!AnswerIsOneReply, Dns!Ours
  <2> QED
    BY <1>0, <2>1, <2>3
    DEF DnsInv, Dns!TypeOK, Dns!FailureIsEmpty, Dns!Paced
<1>8. CASE Dns!Reply
  <2>1. \A r \in dnsReplies' : r.body \in Dns!Bodies
    BY <1>8 DEF Dns!Reply, DnsInv
  <2>2. dnsReplies \subseteq dnsReplies'
    BY <1>8 DEF Dns!Reply
  <2> QED
    BY <1>8, <2>1, <2>2
    DEF Dns!Reply, Dns!clientVars, DnsInv, DnsEvidence, Dns!TypeOK, Dns!Ours,
        Dns!AnswerIsOneReply, Dns!FailureIsEmpty, Dns!Paced
<1>9. CASE Dns!Tick
  BY <1>9
  DEF Dns!Tick, Dns!clientVars, DnsInv, DnsEvidence, Dns!TypeOK, Dns!Ours,
      Dns!AnswerIsOneReply, Dns!FailureIsEmpty, Dns!Paced, Dns!Deadline
<1>10. CASE Dns!Resolve /\ Dns!BeginAttempt
  BY <1>2, <1>10 DEF Dns!Resolve, DnsInv, Dns!TypeOK
<1>11. CASE Dns!Decide /\ dnsEnded \in Dns!Passing /\ dnsAttempt < Len(Servers)
  BY <1>2, <1>11 DEF Dns!Decide
<1> QED
  BY <1>1, <1>3, <1>4, <1>5, <1>6, <1>7, <1>8, <1>9, <1>10, <1>11
  DEF Dns!Next, Dns!Client

-----------------------------------------------------------------------------
(* The HTTP exchange.                                                       *)

(* Whoever owns the descriptor depends on the step the call is at; a server  *)
(* that closed properly has sent all of its answer.                         *)
HttpInv ==
    /\ Http!TypeOK
    /\ response \in [style : {"crlf", "lf", "garbage"}, declared : Int, body : Nat,
                     end : {"close", "eof", "reset", "silent"}]
    /\ tls \in BOOLEAN /\ httpEnded \in BOOLEAN
    /\ httpPc = "connect" => httpFd = "none" /\ address < HttpAddresses
    /\ httpPc = "open" => httpFd = "exchange" /\ tls
    /\ httpPc \in {"send head", "send body", "recv"} => httpFd = IF tls THEN "tls" ELSE "exchange"
    /\ httpPc = "done" => httpFd = "none"
    /\ httpPc # "done" => httpOut = Http!Zero
    /\ tls /\ httpPc # "done" => Http!Framing(httpTotal) # -1
    /\ httpEnded /\ response.end = "close" => served = Http!All
    /\ Http!TlsOkIsWhole
    /\ Http!PlainOkIsAll

LEMMA HttpConstants ==
    /\ HttpHead \in Nat \ {0} /\ Cap \in Nat \ {0} /\ HttpAddresses \in Nat \ {0}
    /\ Responses \subseteq [style : {"crlf", "lf", "garbage"}, declared : Int, body : Nat,
                            end : {"close", "eof", "reset", "silent"}]
BY HttpAssumption DEF HttpAssumption, Http!ResponsesAssumption

LEMMA HttpInitially == ASSUME Http!Init PROVE HttpInv
<1>1. response \in [style : {"crlf", "lf", "garbage"}, declared : Int, body : Nat,
                    end : {"close", "eof", "reset", "silent"}]
  BY HttpConstants DEF Http!Init
<1>2. Http!All \in Nat /\ Http!Zero \in [header : 0 .. HttpHead, body : 0 .. Cap]
  BY <1>1, HttpConstants DEF Http!All, Http!Zero
<1>3. Http!TypeOK
  BY <1>2, HttpConstants DEF Http!Init, Http!Zero, Http!TypeOK
<1>4. Http!TlsOkIsWhole /\ Http!PlainOkIsAll
  BY DEF Http!Init, Http!TlsOkIsWhole, Http!PlainOkIsAll
<1>5. address < HttpAddresses
  BY HttpConstants DEF Http!Init
<1>6. Http!Framing(httpTotal) # -1
  BY HttpConstants DEF Http!Init, Http!Framing
<1> QED
  BY <1>1, <1>3, <1>4, <1>5, <1>6, Zenon DEF Http!Init, HttpInv

(* How an exchange that received t pieces ends. *)
LEMMA HttpParsed ==
    ASSUME response.style \in {"crlf", "lf", "garbage"}, NEW t \in 0 .. Cap, NEW cut \in BOOLEAN
    PROVE  /\ Http!Parsed(t, cut).out \in [header : 0 .. HttpHead, body : 0 .. Cap]
           /\ Http!Parsed(t, cut).out.header + Http!Parsed(t, cut).out.body \in {0, t}
           /\ cut => Http!Parsed(t, cut).result # "OK"
           /\ Http!Parsed(t, cut).result = "OK" =>
                 /\ response.style # "garbage"
                 /\ Http!Parsed(t, cut).out.header = IF t < HttpHead THEN t ELSE HttpHead
                 /\ Http!Parsed(t, cut).out.body = t - Http!Parsed(t, cut).out.header
<1>1. CASE response.style = "garbage" \/ t < 1
  BY <1>1, HttpConstants DEF Http!Parsed, Http!Zero
<1>2. CASE ~(response.style = "garbage" \/ t < 1)
  <2> DEFINE h == IF t < HttpHead THEN t ELSE HttpHead
  <2>1. Http!Parsed(t, cut) = [result |-> IF cut THEN "TRUNCATED" ELSE "OK",
                               out |-> [header |-> h, body |-> t - h]]
    BY <1>2 DEF Http!Parsed
  <2>2. h \in 0 .. HttpHead /\ t - h \in 0 .. Cap /\ h + (t - h) = t
    BY HttpConstants
  <2> QED
    BY <1>2, <2>1, <2>2
<1> QED
  BY <1>1, <1>2

(* The descriptor belongs to nobody outside the exchange. *)
LEMMA HttpDescriptor == ASSUME HttpInv PROVE Http!DescriptorReleased
<1>1. (httpFd = "none") <=> (httpPc \in {"connect", "done"})
  BY DEF HttpInv, Http!TypeOK
<1>2. httpPc = "recv" => ((httpFd = "tls") <=> tls)
  BY DEF HttpInv
<1> QED
  BY <1>1, <1>2, Zenon DEF HttpInv, Http!DescriptorReleased

(* The end of an exchange with t pieces, in order or not. *)
LEMMA HttpEnds ==
    ASSUME HttpInv, httpPc = "recv", UNCHANGED <<tls, put, response, served, httpEnded>>,
           NEW t \in 0 .. Cap, t <= served,
           \/ \E cut \in BOOLEAN :
                 /\ Http!Finish(t, cut)
                 /\ tls /\ ~cut =>
                      /\ response.style = "crlf" /\ t >= HttpHead
                      /\ IF response.declared >= 0 THEN t = Http!WholeAt
                         ELSE /\ response.declared = -1 /\ httpEnded
                              /\ response.end = "close" /\ t = served
                 /\ ~tls /\ ~cut => httpEnded /\ t = served /\ served < Cap
           \/ \E r : Http!Fail(t, r) /\ r # "OK"
    PROVE  HttpInv'
<1> USE HttpConstants
<1>1. ASSUME NEW r, Http!Fail(t, r), r # "OK" PROVE HttpInv'
  <2>1. /\ httpPc' = "done" /\ httpFd' = "none" /\ httpTotal' = t /\ httpResult' = r
        /\ UNCHANGED <<address, httpOut>> /\ httpOut = Http!Zero
    BY <1>1 DEF Http!Fail, HttpInv
  <2>2. Http!TypeOK'
    BY <2>1 DEF HttpInv, Http!TypeOK, Http!All, Http!Zero
  <2>3. Http!TlsOkIsWhole' /\ Http!PlainOkIsAll'
    BY <1>1, <2>1 DEF Http!TlsOkIsWhole, Http!PlainOkIsAll
  <2>4. (httpEnded /\ response.end = "close" => served = Http!All)'
    BY DEF HttpInv, Http!All
  <2> QED
    BY <2>1, <2>2, <2>3, <2>4, Zenon DEF HttpInv
<1>2. ASSUME NEW cut \in BOOLEAN, Http!Finish(t, cut),
             tls /\ ~cut =>
               /\ response.style = "crlf" /\ t >= HttpHead
               /\ IF response.declared >= 0 THEN t = Http!WholeAt
                  ELSE /\ response.declared = -1 /\ httpEnded
                       /\ response.end = "close" /\ t = served,
             ~tls /\ ~cut => httpEnded /\ t = served /\ served < Cap
      PROVE  HttpInv'
  <2>1. /\ httpPc' = "done" /\ httpFd' = "none" /\ httpTotal' = t /\ UNCHANGED address
        /\ httpResult' = Http!Parsed(t, cut).result /\ httpOut' = Http!Parsed(t, cut).out
    BY <1>2 DEF Http!Finish
  <2>2. /\ httpOut' \in [header : 0 .. HttpHead, body : 0 .. Cap]
        /\ httpOut'.header + httpOut'.body \in {0, t}
        /\ cut => httpResult' # "OK"
        /\ httpResult' = "OK" =>
              /\ httpOut'.header = IF t < HttpHead THEN t ELSE HttpHead
              /\ httpOut'.body = t - httpOut'.header
    BY <2>1, HttpParsed DEF HttpInv
  <2>3. Http!TypeOK'
    BY <2>1, <2>2 DEF HttpInv, Http!TypeOK, Http!All
  <2>4. Http!PlainOkIsAll'
    BY <1>2, <2>1, <2>2 DEF Http!PlainOkIsAll
  <2>5. (httpEnded /\ response.end = "close" => served = Http!All)'
    BY DEF HttpInv, Http!All
  <2>6. Http!TlsOkIsWhole'
    <3> SUFFICES ASSUME httpResult' = "OK", tls PROVE
          /\ httpOut'.header = HttpHead
          /\ IF response.declared >= 0 THEN httpOut'.body = response.declared
             ELSE /\ response.declared = -1 /\ httpEnded
                  /\ response.end = "close" /\ httpOut'.body = response.body
      BY <2>1, Zenon DEF Http!TlsOkIsWhole
    <3>1. t >= HttpHead /\ httpOut'.header = HttpHead /\ httpOut'.body = t - HttpHead
      BY <1>2, <2>2
    <3>2. CASE response.declared >= 0
      BY <1>2, <2>2, <3>1, <3>2 DEF Http!WholeAt, HttpInv
    <3>3. CASE ~(response.declared >= 0)
      <4>1. t = HttpHead + response.body
        BY <1>2, <2>2, <3>3 DEF HttpInv, Http!All
      <4> QED
        BY <1>2, <2>2, <3>1, <3>3, <4>1 DEF HttpInv
    <3> QED
      BY <3>2, <3>3
  <2> QED
    BY <2>1, <2>3, <2>4, <2>5, <2>6, Zenon DEF HttpInv
<1> QED
  BY <1>1, <1>2

(* There is one address more to try while a call connects. *)
LEMMA HttpAddress ==
    ASSUME HttpInv, httpPc = "connect"
    PROVE  address \in Nat /\ address + 1 \in 0 .. HttpAddresses
<1>1. HttpAddresses \in Nat
  BY HttpConstants
<1>2. address \in 0 .. HttpAddresses /\ address < HttpAddresses
  BY Zenon DEF HttpInv, Http!TypeOK
<1> QED
  BY <1>1, <1>2

(* Up to the receiving, the answer is empty. *)
LEMMA HttpRequestStep ==
    ASSUME HttpInv,
           Http!Refused \/ Http!Connect \/ Http!Open \/ Http!Send \/ Http!SendFails
           \/ Http!Expire
    PROVE  HttpInv'
<1> USE HttpConstants
<1>1. /\ UNCHANGED <<tls, put, response, served, httpEnded, httpTotal, httpOut>>
      /\ httpPc' = "done" => httpResult' # "OK"
      /\ httpPc # "done"
      /\ address' \in 0 .. HttpAddresses
      /\ \/ httpPc' = "done" /\ httpFd' = "none"
         \/ httpPc' = "connect" /\ httpFd' = "none" /\ address' < HttpAddresses
         \/ httpPc' = "open" /\ httpFd' = "exchange" /\ tls
         \/ /\ httpPc' \in {"send head", "send body", "recv"}
            /\ httpFd' = IF tls THEN "tls" ELSE "exchange"
  <2>1. CASE Http!Refused
    BY <2>1 DEF Http!Refused, Http!Return, Http!Request, Http!serverVars, HttpInv, Http!TypeOK
  <2>2. CASE Http!Connect
    <3>1. httpFd = "none" /\ address + 1 \in 0 .. HttpAddresses
      BY <2>2, HttpAddress, Zenon DEF Http!Connect, HttpInv
    <3>2. /\ UNCHANGED <<tls, put, response, served, httpEnded, httpTotal, httpOut>>
          /\ httpPc = "connect" /\ address' = address + 1
          /\ \/ /\ httpFd' = "exchange" /\ httpResult' = "OK"
                /\ httpPc' = IF tls THEN "open" ELSE "send head"
             \/ /\ address + 1 < HttpAddresses /\ httpResult' = "CONNECT_ERROR"
                /\ UNCHANGED <<httpFd, httpPc>>
             \/ httpPc' = "done" /\ httpResult' = "CONNECT_ERROR" /\ UNCHANGED httpFd
      BY <2>2, Zenon DEF Http!Connect, Http!Request, Http!serverVars
    <3> QED
      BY <3>1, <3>2, Zenon
  <2>3. CASE Http!Open
    BY <2>3 DEF Http!Open, Http!Request, Http!serverVars, HttpInv, Http!TypeOK
  <2>4. CASE Http!Send
    BY <2>4
    DEF Http!Send, Http!Sending, Http!Goto, Http!Return, Http!Request, Http!serverVars,
        HttpInv, Http!TypeOK
  <2>5. CASE Http!SendFails
    BY <2>5
    DEF Http!SendFails, Http!Sending, Http!Return, Http!Request, Http!serverVars,
        HttpInv, Http!TypeOK
  <2>6. CASE Http!Expire
    BY <2>6
    DEF Http!Expire, Http!Sending, Http!serverVars, HttpInv, Http!TypeOK
  <2> QED
    BY <2>1, <2>2, <2>3, <2>4, <2>5, <2>6
<1>2. Http!TypeOK'
  BY <1>1 DEF HttpInv, Http!TypeOK, Http!All
<1>3. (httpEnded /\ response.end = "close" => served = Http!All)'
  BY <1>1 DEF HttpInv, Http!All
<1>4. Http!TlsOkIsWhole' /\ Http!PlainOkIsAll'
  BY <1>1 DEF Http!TlsOkIsWhole, Http!PlainOkIsAll
<1>5. httpPc' = "connect" => address' < HttpAddresses
  BY <1>1
<1>6. httpOut' = Http!Zero
  BY <1>1 DEF HttpInv
<1>7. Http!Framing(httpTotal)' = Http!Framing(httpTotal)
  BY <1>1, Zenon DEF Http!Framing
<1> QED
  BY <1>1, <1>2, <1>3, <1>4, <1>5, <1>6, <1>7, Zenon DEF HttpInv

(* What the invariant says of the counts, and of the server's answer. *)
LEMMA HttpCounts ==
    ASSUME HttpInv
    PROVE  /\ httpTotal \in 0 .. Cap /\ httpTotal <= served
           /\ httpTotal \in Nat /\ served \in Nat
           /\ response.style \in {"crlf", "lf", "garbage"}
           /\ response.declared \in Int /\ response.body \in Nat
<1>1. response.style \in {"crlf", "lf", "garbage"}
      /\ response.declared \in Int /\ response.body \in Nat
  BY DEF HttpInv
<1>2. served \in 0 .. Http!All /\ httpTotal \in 0 .. Cap /\ httpTotal <= served
  BY Zenon DEF HttpInv, Http!TypeOK
<1>3. Http!All \in Nat /\ Cap \in Nat
  BY <1>1, HttpConstants DEF Http!All
<1> QED
  BY <1>1, <1>2, <1>3

(* More of the answer arrives within the buffer. *)
LEMMA HttpMore ==
    ASSUME HttpInv, httpPc = "recv", UNCHANGED <<tls, put, response, served, httpEnded>>,
           NEW t \in 0 .. Cap, t <= served, Http!More(t),
           tls => Http!Framing(t) # -1
    PROVE  HttpInv'
<1>1. /\ httpPc' = "recv" /\ httpTotal' = t
      /\ UNCHANGED <<address, httpFd, httpResult, httpOut>>
  BY DEF Http!More
<1>2. httpOut = Http!Zero
  BY DEF HttpInv
<1>3. Http!TypeOK'
  BY <1>1, <1>2, HttpConstants DEF HttpInv, Http!TypeOK, Http!All, Http!Zero
<1>4. Http!TlsOkIsWhole' /\ Http!PlainOkIsAll'
  BY <1>1 DEF Http!TlsOkIsWhole, Http!PlainOkIsAll
<1>5. (httpEnded /\ response.end = "close" => served = Http!All)'
  BY DEF HttpInv, Http!All
<1>6. tls' => Http!Framing(t)' # -1
  BY Zenon DEF Http!Framing
<1> QED
  BY <1>1, <1>3, <1>4, <1>5, <1>6, Zenon DEF HttpInv

LEMMA HttpReceiveStep ==
    ASSUME HttpInv,
           Http!BufferFull \/ Http!ReceiveTls \/ Http!ClosedTls \/ Http!ReceivePlain
           \/ Http!RecvTimesOut
    PROVE  HttpInv'
<1> USE HttpConstants
<1>1. httpPc = "recv" /\ UNCHANGED <<tls, put, response, served, httpEnded>>
  BY DEF Http!BufferFull, Http!ReceiveTls, Http!ClosedTls, Http!ReceivePlain,
         Http!RecvTimesOut, Http!Receiving, Http!Request, Http!serverVars
<1>2. httpTotal \in 0 .. Cap /\ httpTotal <= served /\ served \in Nat
      /\ httpTotal \in Nat
  BY HttpCounts
<1>3. \A n \in Http!Pieces : httpTotal + n \in 0 .. Cap /\ httpTotal + n <= served
  BY <1>2 DEF Http!Pieces
<1>4. CASE Http!BufferFull
  BY <1>1, <1>2, <1>4, HttpEnds DEF Http!BufferFull
<1>5. CASE Http!ReceiveTls
  <2>1. PICK n \in Http!Pieces : Http!Framed(httpTotal + n)
    BY <1>5 DEF Http!ReceiveTls
  <2> DEFINE t == httpTotal + n
  <2>2. t \in 0 .. Cap /\ t <= served
    BY <1>3
  <2> HIDE DEF t
  <2>3. Http!Framed(t)
    BY <2>1 DEF t
  <2>4. CASE Http!Framing(t) = -1 \/ (Http!Framing(t) = 2 /\ t > Http!WholeAt)
    <3>1. Http!Fail(t, "BAD_RESPONSE")
      BY <2>3, <2>4, Zenon DEF Http!Framed
    <3> QED
      BY <1>1, <2>2, <3>1, HttpEnds
  <2>5. CASE Http!Framing(t) = 2 /\ t = Http!WholeAt
    <3>1. Http!Finish(t, FALSE)
      <4>1. Http!WholeAt \in Int
        BY HttpCounts DEF Http!WholeAt
      <4>2. ~(t > Http!WholeAt) /\ ~(Http!Framing(t) = -1)
        BY <2>5, <4>1
      <4> QED
        BY <2>3, <2>5, <4>2, Zenon DEF Http!Framed
    <3>2. response.style = "crlf" /\ t >= HttpHead /\ response.declared >= 0
      BY <2>2, <2>5, HttpCounts DEF Http!Framing, Http!WholeAt
    <3>3. tls
      BY <1>5 DEF Http!ReceiveTls
    <3> QED
      BY <1>1, <2>2, <2>5, <3>1, <3>2, <3>3, HttpEnds
  <2>6. CASE Http!More(t) /\ Http!Framing(t) # -1
    BY <1>1, <2>2, <2>6, HttpMore
  <2> QED
    BY <2>3, <2>4, <2>5, <2>6, Zenon DEF Http!Framed
<1>6. CASE Http!ClosedTls
  <2>1. tls /\ httpEnded /\ served = httpTotal
    BY <1>6 DEF Http!ClosedTls
  <2>2. CASE \E r \in {"TLS_PROTOCOL_FAILED", "TRUNCATED"} : Http!Fail(httpTotal, r)
    BY <1>1, <1>2, <2>2, HttpEnds
  <2>3. CASE /\ response.end = "close" /\ Http!Framing(httpTotal) \notin {0, 2}
             /\ Http!Finish(httpTotal, FALSE)
    <3>1. response.style = "crlf" /\ httpTotal >= HttpHead
          /\ response.declared = -1
      <4>1. Http!Framing(httpTotal) # -1
        BY <1>1, <2>1, Zenon DEF HttpInv
      <4> QED
        BY <1>2, <2>3, <4>1, HttpCounts DEF Http!Framing
    <3>2. ~(response.declared >= 0) /\ httpTotal = served /\ response.end = "close"
      BY <2>1, <2>3, <3>1
    <3> QED
      BY <1>1, <1>2, <2>1, <2>3, <3>1, <3>2, HttpEnds, Zenon
  <2> QED
    BY <1>6, <2>2, <2>3, Zenon DEF Http!ClosedTls
<1>7. CASE Http!ReceivePlain
  <2>1. CASE ~tls /\ \E n \in Http!Pieces : Http!More(httpTotal + n)
    BY <1>1, <1>3, <2>1, HttpMore
  <2>2. CASE httpEnded /\ served = httpTotal /\ Http!Finish(httpTotal, FALSE)
    <3>1. ~tls /\ httpTotal < Cap
      BY <1>7 DEF Http!ReceivePlain
    <3> QED
      BY <1>1, <1>2, <2>2, <3>1, HttpEnds
  <2>3. CASE Http!Fail(httpTotal, "RECV_ERROR")
    BY <1>1, <1>2, <2>3, HttpEnds
  <2> QED
    BY <1>7, <2>1, <2>2, <2>3 DEF Http!ReceivePlain
<1>8. CASE Http!RecvTimesOut
  BY <1>1, <1>2, <1>8, HttpEnds DEF Http!RecvTimesOut
<1> QED
  BY <1>4, <1>5, <1>6, <1>7, <1>8

(* The server goes on, or the connection breaks. *)
LEMMA HttpServerStep == ASSUME HttpInv, Http!Serve \/ Http!Cut PROVE HttpInv'
<1> USE HttpConstants
<1>1. /\ UNCHANGED <<tls, put, httpPc, address, httpExpired, httpFd, httpTotal, httpResult,
                     httpOut>>
      /\ ~httpEnded /\ httpFd # "none" /\ httpPc # "done"
  BY DEF Http!Serve, Http!Cut, HttpInv
<1>2. /\ response' \in [style : {"crlf", "lf", "garbage"}, declared : Int, body : Nat,
                        end : {"close", "eof", "reset", "silent"}]
      /\ response'.style = response.style /\ response'.declared = response.declared
      /\ response'.body = response.body
  BY DEF Http!Serve, Http!Cut, HttpInv
<1>3. Http!All' = Http!All /\ Http!All \in Nat /\ Http!Framing(httpTotal)' = Http!Framing(httpTotal)
  <2>1. Http!All \in Nat /\ Http!All' = Http!All
    BY <1>2, HttpCounts DEF Http!All
  <2> QED
    BY <1>1, <1>2, <2>1, Zenon DEF Http!Framing
<1>4. /\ served' \in 0 .. Http!All /\ served <= served' /\ httpEnded' \in BOOLEAN
      /\ httpEnded' /\ response'.end = "close" => served' = Http!All
  <2>1. served \in 0 .. Http!All /\ served \in Nat
    BY HttpCounts, Zenon DEF HttpInv, Http!TypeOK
  <2>2. CASE Http!Serve
    <3>1. \/ /\ served < Http!All /\ served' = served + 1 /\ httpEnded' = httpEnded
          \/ /\ ~(served < Http!All) /\ served' = served /\ httpEnded' = TRUE
      BY <2>2, Zenon DEF Http!Serve
    <3>2. served' \in 0 .. Http!All /\ served <= served'
          /\ (~(served < Http!All) => served = Http!All)
      BY <1>3, <2>1, <3>1
    <3>3. CASE httpEnded' = httpEnded
      <4>1. httpEnded' = FALSE
        BY <1>1, <3>3, Zenon DEF HttpInv
      <4> QED
        BY <3>2, <4>1
    <3>4. CASE ~(served < Http!All) /\ served' = served /\ httpEnded' = TRUE
      BY <1>3, <3>2, <3>4, Zenon
    <3> QED
      BY <3>1, <3>3, <3>4
  <2>3. CASE Http!Cut
    <3>1. served' = served /\ httpEnded' = TRUE /\ response' = [response EXCEPT !.end = "eof"]
      BY <2>3 DEF Http!Cut
    <3>2. response'.end = "eof"
      BY <3>1 DEF HttpInv
    <3>3. served <= served
      BY <2>1
    <3> QED
      BY <2>1, <3>1, <3>2, <3>3
  <2> QED
    BY <2>2, <2>3
<1>5. Http!TypeOK'
  <2>1. httpTotal' <= served'
    BY <1>1, <1>4, HttpCounts
  <2> QED
    BY <1>1, <1>3, <1>4, <2>1, Zenon DEF HttpInv, Http!TypeOK
<1>6. Http!TlsOkIsWhole' /\ Http!PlainOkIsAll'
  BY <1>1 DEF Http!TlsOkIsWhole, Http!PlainOkIsAll
<1> QED
  BY <1>1, <1>2, <1>3, <1>4, <1>5, <1>6, Zenon DEF HttpInv

LEMMA HttpStep == ASSUME HttpInv, Http!Next PROVE HttpInv'
<1>1. CASE Http!Refused \/ Http!Connect \/ Http!Open \/ Http!Send \/ Http!SendFails
           \/ Http!Expire
  BY <1>1, HttpRequestStep, Zenon
<1>2. CASE Http!BufferFull \/ Http!ReceiveTls \/ Http!ClosedTls \/ Http!ReceivePlain
           \/ Http!RecvTimesOut
  BY <1>2, HttpReceiveStep, Zenon
<1>3. CASE Http!Serve \/ Http!Cut
  BY <1>3, HttpServerStep, Zenon
<1> QED
  BY <1>1, <1>2, <1>3 DEF Http!Next, Http!Progress

LEMMA HttpIdle == ASSUME HttpInv, UNCHANGED httpVars PROVE HttpInv'
<1>1. Http!TypeOK' /\ Http!TlsOkIsWhole' /\ Http!PlainOkIsAll'
  BY DEF httpVars, HttpInv, Http!TypeOK, Http!All, Http!TlsOkIsWhole, Http!PlainOkIsAll
<1>2. Http!Framing(httpTotal)' = Http!Framing(httpTotal) /\ Http!All' = Http!All
  BY DEF httpVars, Http!Framing, Http!All
<1> QED
  BY <1>1, <1>2 DEF httpVars, HttpInv

LEMMA DnsIdle == ASSUME DnsInv, UNCHANGED dnsVars PROVE DnsInv'
BY Zenon
DEF dnsVars, DnsInv, DnsEvidence, Dns!TypeOK, Dns!Ours, Dns!AnswerIsOneReply,
    Dns!FailureIsEmpty, Dns!Paced, Dns!Deadline

-----------------------------------------------------------------------------
(* The calls of the TLS layer.                                              *)

TlsRecords == {"handshake", "data", "close", "garbage"}

(* The data records that wait in the socket. *)
DataIn(s) ==
    (IF Len(s) >= 1 /\ s[1] = "data" THEN 1 ELSE 0)
    + (IF Len(s) >= 2 /\ s[2] = "data" THEN 1 ELSE 0)

(* And the one that waits in the engine. *)
AppIn(ready) == IF ready THEN 1 ELSE 0

(* The close_notify, once sent, is the last record in the socket. *)
CloseLast(s, sent_it) == \A i \in 1 .. Len(s) : s[i] = "close" => sent_it /\ i = Len(s)

(* A handshake that failed leaves nothing to call with.  What the peer sent  *)
(* is in the socket, in the engine or taken, as long as the engine lives;    *)
(* when the peer's close_notify ended it, all of it was taken.              *)
TlsInv ==
    /\ Tls!TypeOK
    /\ app \in BOOLEAN /\ closed \in BOOLEAN /\ finished \in BOOLEAN
    /\ error \in Tls!CertificateErrors \cup {"none", "unexpected", "bad record"}
    /\ incoming \in Seq(TlsRecords) /\ Len(incoming) <= 2
    /\ phase = "handshake" =>
          taken = 0 /\ (call = "open" \/ (call = "none" /\ tlsFd = "closed"))
    /\ phase = "data" => call # "open"
    /\ call # "none" => tlsFd = "open"
    /\ CloseLast(incoming, finished)
    /\ ~closed => sent = taken + AppIn(app) + DataIn(incoming)
    /\ closed /\ error = "none" => finished /\ taken = sent
    /\ error \in Tls!CertificateErrors => phase = "handshake" /\ closed
    /\ tlsResult = "CLOSED" => closed /\ error = "none"
    /\ phase = "data" =>
          tlsResult \notin Tls!CertificateErrors \cup {"HANDSHAKE_FAILED", "HANDSHAKE_TIMEOUT"}
    /\ phase = "handshake" => tlsResult \notin {"SEND_TIMEOUT", "RECV_TIMEOUT"}

LEMMA TlsConstants == Turns \in Nat \ {0, 1} /\ MaxData \in Nat
BY TlsAssumption DEF TlsAssumption, Tls!TurnsAssumption

(* What the readings of the invariant give. *)
LEMMA TlsAnswers ==
    ASSUME TlsInv PROVE Tls!EndIsThePeers /\ Tls!OnlyOverTls /\ Tls!ReasonFitsPhase
<1>1. Tls!EndIsThePeers
  BY Zenon DEF TlsInv, Tls!EndIsThePeers
<1>2. phase = "handshake" => ~(taken > 0)
  <2>1. phase = "handshake" => taken = 0
    BY Zenon DEF TlsInv
  <2> QED
    BY <2>1
<1>3. phase \in {"handshake", "data"}
  BY DEF TlsInv, Tls!TypeOK
<1>4. Tls!ReasonFitsPhase
  BY <1>3 DEF TlsInv, Tls!ReasonFitsPhase
<1> QED
  BY <1>1, <1>2, <1>3, <1>4 DEF TlsInv, Tls!OnlyOverTls

LEMMA TlsInitially == ASSUME Tls!Init PROVE TlsInv
<1>1. Tls!TypeOK
  BY TlsConstants DEF Tls!Init, Tls!TypeOK
<1>2. incoming \in Seq(TlsRecords) /\ Len(incoming) = 0
  BY EmptySeq, Zenon DEF Tls!Init
<1>3. sent = taken + AppIn(app) + DataIn(incoming)
  BY <1>2 DEF Tls!Init, DataIn, AppIn
<1>4. CloseLast(incoming, finished) /\ Len(incoming) <= 2
  BY <1>2 DEF CloseLast
<1>5. "none" \notin Tls!CertificateErrors
  BY DEF Tls!CertificateErrors
<1> QED
  BY <1>1, <1>2, <1>3, <1>4, <1>5, Zenon DEF Tls!Init, TlsInv

LEMMA DataShorter ==
    ASSUME NEW R, NEW s \in Seq(R), NEW t \in Seq(R), Len(s) \in 1 .. 2, Len(t) = Len(s) - 1,
           Len(s) = 2 => t[1] = s[2]
    PROVE  DataIn(s) = DataIn(t) + (IF s[1] = "data" THEN 1 ELSE 0)
<1>5. CASE Len(s) = 1
  BY <1>5 DEF DataIn
<1>6. CASE Len(s) = 2
  BY <1>6 DEF DataIn
<1> QED
  BY <1>5, <1>6

LEMMA DataLonger ==
    ASSUME NEW R, NEW s \in Seq(R), NEW t \in Seq(R), NEW r, Len(s) \in 0 .. 1, Len(t) = Len(s) + 1,
           Len(s) = 1 => t[1] = s[1], t[Len(t)] = r
    PROVE  DataIn(t) = DataIn(s) + (IF r = "data" THEN 1 ELSE 0)
<1>5. CASE Len(s) = 0
  BY <1>5 DEF DataIn
<1>6. CASE Len(s) = 1
  BY <1>6 DEF DataIn
<1> QED
  BY <1>5, <1>6

(* A record leaves the socket, or comes into it. *)
LEMMA DataOut ==
    ASSUME NEW R, NEW s \in Seq(R), s # <<>>, Len(s) <= 2
    PROVE  /\ DataIn(s) = DataIn(Tail(s)) + (IF Head(s) = "data" THEN 1 ELSE 0)
           /\ Tail(s) \in Seq(R) /\ Len(Tail(s)) <= 2
<1>1. Len(s) \in 1 .. 2
  BY EmptySeq
<1>2. /\ Tail(s) \in Seq(R) /\ Len(Tail(s)) = Len(s) - 1
      /\ \A i \in 1 .. Len(Tail(s)) : Tail(s)[i] = s[i + 1]
  BY HeadTailProperties, Zenon
<1>3. PICK t \in Seq(R) : t = Tail(s)
  BY <1>2
<1>4. Len(t) = Len(s) - 1 /\ \A i \in 1 .. Len(t) : t[i] = s[i + 1]
  BY <1>2, <1>3, Zenon
<1>5. Len(s) = 2 => t[1] = s[2]
  BY <1>1, <1>4
<1>6. DataIn(s) = DataIn(t) + (IF s[1] = "data" THEN 1 ELSE 0)
  BY <1>1, <1>4, <1>5, DataShorter
<1>7. Head(s) = s[1]
  OBVIOUS
<1>8. Len(t) <= 2
  BY <1>1, <1>4
<1> QED
  BY <1>3, <1>6, <1>7, <1>8, Zenon

LEMMA DataAppended ==
    ASSUME NEW R, NEW s \in Seq(R), NEW r \in R, Len(s) \in 0 .. 1
    PROVE  /\ DataIn(Append(s, r)) = DataIn(s) + (IF r = "data" THEN 1 ELSE 0)
<1>1. PICK t \in Seq(R) : t = Append(s, r)
  BY AppendProperties, Zenon
<1>2. Len(t) = Len(s) + 1 /\ t[Len(s) + 1] = r /\ \A i \in 1 .. Len(s) : t[i] = s[i]
  <2>1. Len(Append(s, r)) = Len(s) + 1
    BY AppendProperties, Zenon
  <2>2. Append(s, r)[Len(s) + 1] = r
    BY AppendProperties, Zenon
  <2>3. \A i \in 1 .. Len(s) : Append(s, r)[i] = s[i]
    BY AppendProperties
  <2> QED
    BY <1>1, <2>1, <2>2, <2>3, Zenon
<1>3. t[Len(t)] = r /\ (Len(s) = 1 => t[1] = s[1])
  BY <1>2
<1>4. DataIn(t) = DataIn(s) + (IF r = "data" THEN 1 ELSE 0)
  BY <1>2, <1>3, DataLonger
<1> QED
  BY <1>1, <1>4, Zenon

LEMMA CloseOut ==
    ASSUME NEW R, NEW s \in Seq(R), s # <<>>, NEW f \in BOOLEAN, CloseLast(s, f)
    PROVE  /\ CloseLast(Tail(s), f)
           /\ Head(s) = "close" => f /\ DataIn(s) = 0
<1>1. Len(s) \in Nat \ {0}
  BY EmptySeq
<1>2. Head(s) = s[1]
  OBVIOUS
<1>3. /\ Tail(s) \in Seq(R) /\ Len(Tail(s)) = Len(s) - 1
      /\ \A i \in 1 .. Len(Tail(s)) : Tail(s)[i] = s[i + 1]
  BY HeadTailProperties, Zenon
<1>4. PICK t \in Seq(R) : t = Tail(s)
  BY <1>3
<1>5. Len(t) = Len(s) - 1 /\ \A i \in 1 .. Len(t) : t[i] = s[i + 1]
  BY <1>3, <1>4, Zenon
<1>6. ASSUME NEW i \in 1 .. Len(t), t[i] = "close" PROVE f /\ i = Len(t)
  <2>1. i + 1 \in 1 .. Len(s) /\ s[i + 1] = "close"
    BY <1>1, <1>5, <1>6
  <2>2. f /\ i + 1 = Len(s)
    BY <2>1 DEF CloseLast
  <2> QED
    BY <1>1, <1>5, <2>2
<1>7. CloseLast(t, f)
  BY <1>6 DEF CloseLast
<1>8. Head(s) = "close" => f /\ DataIn(s) = 0
  <2> SUFFICES ASSUME s[1] = "close" PROVE f /\ DataIn(s) = 0
    BY <1>2
  <2>1. f /\ Len(s) = 1
    <3>1. 1 \in 1 .. Len(s)
      BY <1>1
    <3> QED
      BY <3>1, Zenon DEF CloseLast
  <2> QED
    BY <2>1 DEF DataIn
<1> QED
  BY <1>4, <1>7, <1>8, Zenon

LEMMA CloseAppended ==
    ASSUME NEW R, NEW s \in Seq(R), NEW r \in R, CloseLast(s, FALSE)
    PROVE  CloseLast(Append(s, r), r = "close")
<1>1. PICK t \in Seq(R) : t = Append(s, r)
  BY AppendProperties, Zenon
<1>2. Len(t) = Len(s) + 1 /\ t[Len(s) + 1] = r
  BY <1>1, AppendProperties, Zenon
<1>3. \A i \in 1 .. Len(s) : t[i] = s[i]
  <2>1. \A i \in 1 .. Len(s) : Append(s, r)[i] = s[i]
    BY AppendProperties
  <2> QED
    BY <1>1, <2>1, Zenon
<1>4. Len(s) \in Nat
  BY LenProperties, Zenon
<1>5. ASSUME NEW i \in 1 .. Len(t), t[i] = "close" PROVE r = "close" /\ i = Len(t)
  BY <1>2, <1>3, <1>4, <1>5 DEF CloseLast
<1>6. CloseLast(t, r = "close")
  BY <1>5 DEF CloseLast
<1> QED
  BY <1>1, <1>6, Zenon

LEMMA ShortLength == ASSUME NEW n \in Nat, n < 2 PROVE n \in 0 .. 1 /\ n + 1 <= 2
OBVIOUS

LEMMA AppCounts == AppIn(TRUE) = 1 /\ AppIn(FALSE) = 0
BY DEF AppIn

(* A call ends with a reason that fits. *)
LEMMA TlsReturns ==
    ASSUME TlsInv, NEW r, Tls!Return(r), call # "none",
           r = "OK" => call = "flush" \/ (call = "open" /\ turn = Turns),
           r = "CLOSED" => closed /\ error = "none",
           r \in Tls!CertificateErrors \cup {"HANDSHAKE_FAILED", "HANDSHAKE_TIMEOUT"}
             => phase = "handshake",
           r \in {"SEND_TIMEOUT", "RECV_TIMEOUT"} => phase = "data",
           call = "open" /\ r = "OK" => error \notin Tls!CertificateErrors
    PROVE  TlsInv'
<1>1. /\ UNCHANGED <<turn, tlsOut, app, closed, error, incoming, sent, finished, taken>>
      /\ tlsResult' = r /\ call' = "none"
      /\ IF call = "open" /\ r # "OK" THEN tlsFd' = "closed" /\ phase' = phase
         ELSE tlsFd' = tlsFd /\ phase' = IF call = "open" THEN "data" ELSE phase
  BY Zenon DEF Tls!Return, Tls!engineVars, Tls!socketVars
<1>2. phase \in {"handshake", "data"} /\ tlsFd \in {"open", "closed"}
      /\ (phase = "data" => turn = Turns)
  BY DEF TlsInv, Tls!TypeOK
<1>3. r \in {"HANDSHAKE_TIMEOUT", "HANDSHAKE_FAILED"} \cup Tls!CertificateErrors
        => r # "OK" /\ r # "CLOSED"
  BY DEF Tls!CertificateErrors
<1>4. phase = "handshake" => call = "open"
  BY DEF TlsInv
<1>5. /\ phase' = "data" => tlsResult' \notin
            Tls!CertificateErrors \cup {"HANDSHAKE_FAILED", "HANDSHAKE_TIMEOUT"}
      /\ phase' = "handshake" => tlsResult' \notin {"SEND_TIMEOUT", "RECV_TIMEOUT"}
  BY <1>1, <1>2, <1>3, <1>4 DEF Tls!CertificateErrors
<1>6. Tls!TypeOK'
  BY <1>1, <1>2 DEF TlsInv, Tls!TypeOK
<1>7. /\ phase' = "handshake" => taken' = 0 /\ tlsFd' = "closed"
      /\ error' \in Tls!CertificateErrors => phase' = "handshake" /\ closed'
  BY <1>1, <1>2, <1>4 DEF TlsInv
<1>8. DataIn(incoming)' = DataIn(incoming)
  BY <1>1 DEF DataIn
<1> QED
  BY <1>1, <1>5, <1>6, <1>7, <1>8 DEF TlsInv

LEMMA TlsCounts ==
    ASSUME TlsInv
    PROVE  /\ taken \in Nat /\ sent \in Nat /\ taken <= sent /\ sent <= MaxData
           /\ DataIn(incoming) \in Nat
<1>1. taken \in 0 .. sent /\ sent \in 0 .. MaxData
  BY Zenon DEF TlsInv, Tls!TypeOK
<1>2. DataIn(incoming) \in Nat
  BY DEF DataIn
<1> QED
  BY <1>1, <1>2, TlsConstants

(* A step between the calls, or of the engine's own. *)
LEMMA TlsQuiet ==
    ASSUME TlsInv, UNCHANGED <<closed, error, incoming, finished, sent, phase>>,
           tlsResult' \in {tlsResult, "OK"},
           \/ UNCHANGED <<app, taken>>
           \/ app = TRUE /\ app' = FALSE /\ ~closed /\ taken' = taken + 1 /\ phase = "data",
           turn' \in 0 .. Turns, phase = "data" => turn' = Turns,
           tlsFd' \in {"open", "closed"}, call' # "none" => tlsFd' = "open",
           call' \in {"none", "open", "send", "flush", "recv", "close"},
           phase = "data" => call' # "open",
           phase = "handshake" => UNCHANGED <<call, tlsFd>>
    PROVE  TlsInv'
<1>1. DataIn(incoming)' = DataIn(incoming)
  BY DEF DataIn
<1>2. /\ taken' \in 0 .. sent /\ app' \in BOOLEAN
      /\ phase = "handshake" => taken' = 0
      /\ ~closed => sent = taken' + AppIn(app') + DataIn(incoming)
      /\ closed /\ error = "none" => taken' = sent
  <2>1. CASE UNCHANGED <<app, taken>>
    BY <2>1, Zenon DEF TlsInv, Tls!TypeOK
  <2>2. CASE app = TRUE /\ app' = FALSE /\ ~closed /\ taken' = taken + 1 /\ phase = "data"
    <3>1. sent = taken + AppIn(app) + DataIn(incoming)
      BY <2>2, Zenon DEF TlsInv
    <3>2. sent = taken + 1 + DataIn(incoming)
      BY <2>2, <3>1, AppCounts, Zenon
    <3>3. taken + 1 \in 0 .. sent /\ sent = (taken + 1) + 0 + DataIn(incoming)
      BY <3>2, TlsCounts
    <3>4. taken' \in 0 .. sent /\ sent = taken' + AppIn(app') + DataIn(incoming)
      BY <2>2, <3>3, AppCounts, Zenon
    <3> QED
      BY <2>2, <3>4, Zenon DEF TlsInv, Tls!TypeOK
  <2> QED
    BY <2>1, <2>2
<1>3. Tls!TypeOK'
  BY <1>2, Zenon DEF TlsInv, Tls!TypeOK
<1>4. "OK" # "CLOSED" /\ "OK" \notin {"SEND_TIMEOUT", "RECV_TIMEOUT"} /\
      "OK" \notin Tls!CertificateErrors \cup {"HANDSHAKE_FAILED", "HANDSHAKE_TIMEOUT"}
  BY DEF Tls!CertificateErrors
<1>5. tlsResult' = tlsResult \/ tlsResult' = "OK"
  OBVIOUS
<1> QED
  BY <1>1, <1>2, <1>3, <1>4, <1>5, Zenon DEF TlsInv

(* The calls that do not read a record. *)
LEMMA TlsCallStep ==
    ASSUME TlsInv,
           Tls!Ended \/ Tls!Flush \/ Tls!HandshakeDone \/ Tls!Fill \/ Tls!Flushed \/ Tls!Take
           \/ Tls!Close \/ Tls!Expire \/ Tls!OpenFails \/ Tls!CallNext
    PROVE  TlsInv'
<1>0. /\ phase \in {"handshake", "data"} /\ (phase = "handshake" => call \in {"open", "none"})
      /\ (phase = "handshake" /\ call = "none" => tlsFd = "closed")
      /\ (phase = "data" => turn = Turns /\ call # "open") /\ turn \in 0 .. Turns
      /\ tlsFd \in {"open", "closed"} /\ (call # "none" => tlsFd = "open")
      /\ call \in {"none", "open", "send", "flush", "recv", "close"}
      /\ error \in Tls!CertificateErrors \cup {"none", "unexpected", "bad record"}
      /\ (error \in Tls!CertificateErrors => phase = "handshake" /\ closed)
  BY DEF TlsInv, Tls!TypeOK
<1>1. CASE Tls!Ended
  <2>1. closed /\ call # "none" /\ Tls!Return(Tls!classify_engine)
    BY <1>1 DEF Tls!Ended, Tls!Working, Tls!EngineState
  <2>2. /\ Tls!classify_engine \notin {"OK", "SEND_TIMEOUT", "RECV_TIMEOUT"}
        /\ Tls!classify_engine = "CLOSED" => error = "none"
        /\ Tls!classify_engine \in Tls!CertificateErrors \cup {"HANDSHAKE_FAILED", "HANDSHAKE_TIMEOUT"}
             => phase = "handshake"
    BY <1>0 DEF Tls!classify_engine, Tls!CertificateErrors
  <2> QED
    BY <2>1, <2>2, TlsReturns
<1>2. ASSUME call # "none",
             NEW way \in {"SEND_TIMEOUT", "RECV_TIMEOUT"}, Tls!Return(Tls!TimedOut(way))
      PROVE  TlsInv'
  <2>1. /\ Tls!TimedOut(way) \notin {"OK", "CLOSED"} /\ Tls!TimedOut(way) \notin Tls!CertificateErrors
        /\ Tls!TimedOut(way) = "HANDSHAKE_TIMEOUT" => phase = "handshake"
        /\ Tls!TimedOut(way) # "HANDSHAKE_FAILED"
        /\ Tls!TimedOut(way) \in {"SEND_TIMEOUT", "RECV_TIMEOUT"} => phase = "data"
    BY <1>0 DEF Tls!TimedOut, Tls!CertificateErrors
  <2> QED
    BY <1>2, <2>1, TlsReturns
<1>3. ASSUME call # "none",
             NEW r \in {"PROTOCOL_FAILED", "INVALID", "INTERNAL", "INVALID_CA", "ENTROPY_FAILED"},
             Tls!Return(r)
      PROVE  TlsInv'
  BY <1>3, TlsReturns DEF Tls!CertificateErrors
<1>4. CASE Tls!Flush
  <2>1. call # "none"
    BY <1>4 DEF Tls!Flush, Tls!Working
  <2>2. CASE /\ turn' = (IF turn < Turns THEN turn + 1 ELSE turn)
             /\ UNCHANGED <<app, closed, error, Tls!socketVars, Tls!callVars>>
    <3>1. turn' \in 0 .. Turns /\ (turn = Turns => turn' = Turns)
      <4>1. turn \in 0 .. Turns /\ Turns \in Nat
        BY <1>0, TlsConstants
      <4> QED
        BY <2>2, <4>1
    <3> QED
      BY <1>0, <2>2, <3>1, TlsQuiet DEF Tls!socketVars, Tls!callVars
  <2> QED
    BY <1>2, <1>3, <1>4, <2>1, <2>2 DEF Tls!Flush
<1>5. CASE Tls!HandshakeDone
  <2>1. call = "open" /\ turn = Turns /\ ~closed /\ Tls!Return("OK")
    BY <1>5 DEF Tls!HandshakeDone
  <2> QED
    BY <1>0, <2>1, TlsReturns DEF Tls!CertificateErrors
<1>6. CASE Tls!Fill
  <2>1. phase = "data" /\ call # "none"
    BY <1>0, <1>6 DEF Tls!Fill
  <2>2. CASE UNCHANGED <<turn, app, closed, error, Tls!socketVars, tlsFd, phase, tlsResult, taken>>
             /\ call' = "flush"
    BY <1>0, <2>1, <2>2, TlsQuiet DEF Tls!socketVars
  <2> QED
    BY <1>3, <1>6, <2>1, <2>2 DEF Tls!Fill
<1>7. CASE Tls!Flushed
  BY <1>7, TlsReturns DEF Tls!Flushed, Tls!CertificateErrors
<1>8. CASE Tls!Take
  <2>1. ~closed /\ app = TRUE /\ phase = "data"
    BY <1>0, <1>8 DEF Tls!Take, Tls!EngineState, TlsInv
  <2> QED
    BY <1>0, <1>8, <2>1, TlsQuiet DEF Tls!Take, Tls!socketVars
<1>9. CASE Tls!Close \/ Tls!Expire \/ Tls!CallNext
  BY <1>0, <1>9, TlsQuiet
  DEF Tls!Close, Tls!Expire, Tls!CallNext, Tls!engineVars, Tls!socketVars
<1>10. CASE Tls!OpenFails
  BY <1>3, <1>10 DEF Tls!OpenFails
<1> QED
  BY <1>1, <1>4, <1>5, <1>6, <1>7, <1>8, <1>9, <1>10

(* What a record does to an engine with nothing to send and nothing to give. *)
LEMMA TlsIngest ==
    ASSUME TlsInv, call # "none", ~closed, ~app, incoming # <<>>,
           Tls!Ingest(Head(incoming)), incoming' = Tail(incoming),
           UNCHANGED <<sent, finished, tlsFd, phase, call, tlsResult, taken>>
    PROVE  TlsInv'
<1>1. /\ incoming \in Seq(TlsRecords) /\ Len(incoming) <= 2 /\ CloseLast(incoming, finished)
      /\ turn \in 0 .. Turns /\ (phase = "data" => turn = Turns)
      /\ phase \in {"handshake", "data"} /\ error \notin Tls!CertificateErrors
      /\ app = FALSE /\ closed = FALSE /\ finished \in BOOLEAN
      /\ error \in Tls!CertificateErrors \cup {"none", "unexpected", "bad record"}
      /\ tlsResult # "CLOSED"
  BY DEF TlsInv, Tls!TypeOK
<1>2. sent = taken + 0 + DataIn(incoming)
  BY <1>1, AppCounts, Zenon DEF TlsInv
<1> DEFINE r == Head(incoming)
<1>3. /\ DataIn(incoming) = DataIn(incoming') + (IF r = "data" THEN 1 ELSE 0)
      /\ incoming' \in Seq(TlsRecords) /\ Len(incoming') <= 2
  BY <1>1, DataOut
<1>4. r \in TlsRecords
  BY <1>1, HeadTailProperties, Zenon
<1>5. CloseLast(incoming', finished) /\ (r = "close" => finished /\ DataIn(incoming) = 0)
  BY <1>1, CloseOut
<1> HIDE DEF r
<1>6. DataIn(incoming') \in Nat /\ taken \in Nat /\ sent \in Nat
  BY TlsCounts DEF DataIn
<1>7. Tls!Ingest(r)
  BY DEF r
<1>8. ASSUME turn' \in 0 .. Turns, phase = "data" => turn' = turn,
             UNCHANGED <<closed, error>>, app' = (r = "data")
      PROVE  TlsInv'
  <2>1. sent = taken + AppIn(app') + DataIn(incoming')
    <3>1. CASE r = "data"
      <4>1. AppIn(app') = 1 /\ DataIn(incoming) = DataIn(incoming') + 1
        BY <1>3, <1>8, <3>1, AppCounts
      <4> QED
        BY <1>2, <1>6, <4>1
    <3>2. CASE r # "data"
      <4>1. AppIn(app') = 0 /\ DataIn(incoming) = DataIn(incoming') + 0
        BY <1>3, <1>8, <3>2, AppCounts
      <4> QED
        BY <1>2, <1>6, <4>1
    <3> QED
      BY <3>1, <3>2
  <2>2. Tls!TypeOK'
    BY <1>8, Zenon DEF TlsInv, Tls!TypeOK
  <2>3. app' \in BOOLEAN
    BY <1>8
  <2> QED
    BY <1>1, <1>3, <1>5, <1>8, <2>1, <2>2, <2>3, Zenon DEF TlsInv
<1>9. ASSUME NEW e, Tls!Die(e), e \in Tls!CertificateErrors \cup {"none", "unexpected", "bad record"},
             e = "none" => r = "close",
             e \in Tls!CertificateErrors => turn = 1
      PROVE  TlsInv'
  <2>1. closed' = TRUE /\ error' = e /\ UNCHANGED <<turn, tlsOut, app>>
    BY <1>9 DEF Tls!Die
  <2>2. e = "none" => finished /\ taken = sent
    BY <1>2, <1>5, <1>6, <1>9
  <2>3. e \in Tls!CertificateErrors => phase = "handshake"
    <3>1. Turns # 1
      BY TlsConstants
    <3> QED
      BY <1>1, <1>9, <3>1, Zenon
  <2>4. Tls!TypeOK'
    BY <2>1, Zenon DEF TlsInv, Tls!TypeOK
  <2> QED
    BY <1>1, <1>3, <1>5, <1>9, <2>1, <2>2, <2>3, <2>4, Zenon DEF TlsInv
<1>10. /\ "none" \notin Tls!CertificateErrors /\ "unexpected" \notin Tls!CertificateErrors
       /\ "bad record" \notin Tls!CertificateErrors
  BY DEF Tls!CertificateErrors
<1>11. CASE r = "handshake"
  <2>1. CASE turn < Turns /\ turn' = turn + 1 /\ UNCHANGED <<app, closed, error>>
    <3>1. turn' \in 0 .. Turns /\ turn # Turns
      <4>1. turn \in 0 .. Turns /\ Turns \in Nat
        BY <1>1, TlsConstants
      <4> QED
        BY <2>1, <4>1
    <3> QED
      BY <1>1, <1>8, <1>11, <2>1, <3>1
  <2> QED
    BY <1>7, <1>9, <1>10, <1>11, <2>1 DEF Tls!Ingest
<1>12. CASE r = "data"
  BY <1>1, <1>7, <1>8, <1>9, <1>10, <1>12 DEF Tls!Ingest
<1>13. CASE r \in {"close", "garbage"}
  BY <1>7, <1>9, <1>10, <1>13 DEF Tls!Ingest
<1> QED
  BY <1>4, <1>11, <1>12, <1>13 DEF TlsRecords

(* The peer sends, stops sending, or stops reading. *)
LEMMA TlsPeer == ASSUME TlsInv, Tls!Peer PROVE TlsInv'
<1>1. UNCHANGED <<turn, tlsOut, app, closed, error, tlsFd, phase, call, tlsExpired, tlsResult, taken>>
  BY DEF Tls!Peer, Tls!engineVars, Tls!callVars
<1>2. CASE UNCHANGED <<incoming, sent, finished>>
  <2>1. DataIn(incoming)' = DataIn(incoming) /\ CloseLast(incoming, finished)' = CloseLast(incoming, finished)
        /\ AppIn(app)' = AppIn(app)
    BY <1>1, <1>2 DEF DataIn, CloseLast, AppIn
  <2> QED
    BY <1>1, <1>2, <2>1, Zenon DEF TlsInv, Tls!TypeOK
<1>3. ASSUME NEW r \in TlsRecords, ~finished, r = "data" => sent < MaxData,
             incoming' = Append(incoming, r), Len(incoming) < 2,
             sent' = IF r = "data" THEN sent + 1 ELSE sent,
             finished' = (r = "close")
      PROVE  TlsInv'
  <2>1. incoming \in Seq(TlsRecords) /\ CloseLast(incoming, FALSE)
    BY <1>3, Zenon DEF TlsInv, CloseLast
  <2>2. Len(incoming) \in 0 .. 1
    <3>1. Len(incoming) \in Nat
      BY <2>1, LenProperties, Zenon
    <3> QED
      BY <1>3, <3>1, ShortLength, Zenon
  <2>3. DataIn(incoming') = DataIn(incoming) + (IF r = "data" THEN 1 ELSE 0)
    BY <1>3, <2>1, <2>2, DataAppended
  <2>4. CloseLast(incoming', finished')
    BY <1>3, <2>1, CloseAppended, Zenon
  <2>5. incoming' \in Seq(TlsRecords) /\ Len(incoming') <= 2
    <3>1. incoming' \in Seq(TlsRecords) /\ Len(incoming') = Len(incoming) + 1
      BY <1>3, <2>1, AppendProperties, Zenon
    <3>2. Len(incoming) \in Nat
      BY <2>1, LenProperties, Zenon
    <3> QED
      BY <1>3, <3>1, <3>2, ShortLength, Zenon
  <2>6. ~closed => sent' = taken + AppIn(app) + DataIn(incoming')
    <3>1. ~closed => sent = taken + AppIn(app) + DataIn(incoming)
      BY Zenon DEF TlsInv
    <3>2. AppIn(app) \in Nat
      BY DEF AppIn
    <3> QED
      BY <1>3, <2>3, <3>1, <3>2, TlsCounts
  <2>7. ~(closed /\ error = "none")
    BY <1>3, Zenon DEF TlsInv
  <2>8. sent' \in 0 .. MaxData /\ taken \in 0 .. sent'
    BY <1>3, TlsCounts, TlsConstants
  <2>9. Tls!TypeOK'
    BY <1>1, <2>8, Zenon DEF TlsInv, Tls!TypeOK
  <2>10. finished' \in BOOLEAN
    BY <1>3
  <2> QED
    BY <1>1, <2>4, <2>5, <2>6, <2>7, <2>9, <2>10, Zenon DEF TlsInv
<1> QED
  BY <1>2, <1>3 DEF Tls!Peer, TlsRecords

LEMMA TlsStep == ASSUME TlsInv, Tls!Next PROVE TlsInv'
<1>1. CASE Tls!IngestIn
  <2>1. call # "none" /\ ~closed /\ ~app
    BY <1>1 DEF Tls!IngestIn, Tls!Working, Tls!EngineState
  <2>2. CASE /\ incoming # <<>> /\ Tls!Ingest(Head(incoming)) /\ incoming' = Tail(incoming)
             /\ UNCHANGED <<sent, finished, Tls!callVars>>
    BY <2>1, <2>2, TlsIngest DEF Tls!callVars
  <2>3. CASE Tls!Return(Tls!TimedOut("RECV_TIMEOUT"))
    <3>1. /\ Tls!TimedOut("RECV_TIMEOUT") \in {"HANDSHAKE_TIMEOUT", "RECV_TIMEOUT"}
          /\ Tls!TimedOut("RECV_TIMEOUT") = "HANDSHAKE_TIMEOUT" <=> phase = "handshake"
      BY DEF Tls!TimedOut
    <3>2. phase # "handshake" => phase = "data"
      BY DEF TlsInv, Tls!TypeOK
    <3> QED
      BY <2>1, <2>3, <3>1, <3>2, TlsReturns DEF Tls!CertificateErrors
  <2>4. CASE Tls!Return("PROTOCOL_FAILED")
    BY <2>1, <2>4, TlsReturns DEF Tls!CertificateErrors
  <2> QED
    BY <1>1, <2>2, <2>3, <2>4 DEF Tls!IngestIn
<1>2. CASE Tls!Peer
  BY <1>2, TlsPeer
<1>3. CASE Tls!Ended \/ Tls!Flush \/ Tls!HandshakeDone \/ Tls!Fill \/ Tls!Flushed \/ Tls!Take
           \/ Tls!Close \/ Tls!Expire \/ Tls!OpenFails \/ Tls!CallNext
  BY <1>3, TlsCallStep, Zenon
<1> QED
  BY <1>1, <1>2, <1>3 DEF Tls!Next, Tls!Progress

LEMMA TlsIdle == ASSUME TlsInv, UNCHANGED tlsVars PROVE TlsInv'
<1>1. Tls!TypeOK'
  BY DEF tlsVars, TlsInv, Tls!TypeOK
<1>2. DataIn(incoming)' = DataIn(incoming) /\ AppIn(app)' = AppIn(app)
      /\ CloseLast(incoming, finished)' = CloseLast(incoming, finished)
  BY DEF tlsVars, DataIn, CloseLast, AppIn
<1> QED
  BY <1>1, <1>2, Zenon DEF tlsVars, TlsInv

-----------------------------------------------------------------------------
(* The anchors and the entropy of a TLS connection.                         *)

OpenNatural == {"pem", "clock", "ready", "open", "entropy", "handshake"}

(* The certificates among the objects before n. *)
OpenBefore(n) == {i \in 1 .. n - 1 : Open!is_pem_certificate(ca.objects[i])}

(* The anchors are the certificates of the objects decoded so far; past the  *)
(* reading the whole file was read, and past the decoding all of it was      *)
(* decoded.  Until the end, nothing has failed.                             *)
OpenInv ==
    /\ Open!TypeOK
    /\ ca \in Open!Files
    /\ next \in 1 .. Len(ca.objects) + 1
    /\ anchors \in Seq(Nat)
    /\ Open!Range(anchors) = OpenBefore(next)
    /\ \A i \in OpenBefore(next) : ca.objects[i].content \in {"rsa", "ec"}
    /\ openPc \in OpenNatural \/ openResult = "OK" => openTotal = ca.size
    /\ openPc \in OpenNatural \ {"pem"} \/ openResult = "OK" =>
          next = Len(ca.objects) + 1 /\ ca.end = "clean"
    /\ openPc = "handshake" \/ openResult = "OK" => have = EntropyMin
    /\ openPc = "handshake" => files = {}
    /\ openPc # "done" => connection = TRUE /\ openResult = "none"
    /\ Open!DescriptorsClosed

LEMMA OpenConstants ==
    FileCap \in Nat \ {0} /\ MaxAnchors \in Nat \ {0} /\ EntropyMin \in Nat \ {0}
    /\ MaxObjects \in Nat
BY TlsAssumption DEF TlsAssumption, Open!BoundsAssumption

LEMMA OpenFile ==
    ASSUME NEW f \in Open!Files
    PROVE  /\ f.objects \in Seq(Open!Objects) /\ Len(f.objects) \in Nat
           /\ f.size \in Nat
           /\ f.size <= FileCap => Len(f.objects) <= MaxObjects
<1> USE OpenConstants
<1>1. ASSUME NEW n \in Nat, NEW s \in Open!SeqOf(Open!Objects, n)
      PROVE  s \in Seq(Open!Objects) /\ Len(s) \in 0 .. n
  <2>1. PICK m \in 0 .. n : s \in [1 .. m -> Open!Objects]
    BY <1>1 DEF Open!SeqOf
  <2> QED
    BY <2>1
<1>2. CASE f \in [size : 1 .. FileCap, end : {"clean", "in object", "error"},
                  objects : Open!SeqOf(Open!Objects, MaxObjects)]
  <2>1. f.objects \in Open!SeqOf(Open!Objects, MaxObjects) /\ f.size \in 1 .. FileCap
    BY <1>2
  <2>2. f.objects \in Seq(Open!Objects) /\ Len(f.objects) \in 0 .. MaxObjects
    BY <1>1, <2>1
  <2> QED
    BY <2>1, <2>2
<1>3. CASE f \in [size : {0}, end : {"clean"}, objects : {<< >>}]
  <2>1. f.objects = << >> /\ f.size = 0
    BY <1>3
  <2>2. f.objects \in Seq(Open!Objects) /\ Len(f.objects) = 0
    BY <2>1, EmptySeq
  <2> QED
    BY <2>1, <2>2
<1>4. CASE f \in [size : {FileCap + 1}, end : {"clean"}, objects : Open!SeqOf(Open!Objects, 1)]
  <2>1. f.objects \in Open!SeqOf(Open!Objects, 1) /\ f.size = FileCap + 1
    BY <1>4
  <2>2. f.objects \in Seq(Open!Objects) /\ Len(f.objects) \in 0 .. 1
    BY <1>1, <2>1
  <2> QED
    BY <2>1, <2>2
<1> QED
  BY <1>2, <1>3, <1>4 DEF Open!Files

LEMMA OpenInitially == ASSUME Open!Init PROVE OpenInv
<1>1. ca \in Open!Files /\ next = 1 /\ anchors = <<>> /\ openPc = "begin" /\ files = {}
      /\ openResult = "none" /\ connection = TRUE
  BY DEF Open!Init
<1>2. next \in 1 .. Len(ca.objects) + 1
  BY <1>1, OpenFile
<1>3. OpenBefore(next) = {} /\ anchors \in Seq(Nat) /\ Open!Range(anchors) = {}
  BY <1>1 DEF OpenBefore, Open!Range
<1>4. Open!TypeOK
  <2>1. Len(anchors) = 0
    BY <1>1
  <2>2. /\ 1 \in 1 .. MaxObjects + 1 /\ 0 \in 0 .. FileCap /\ 0 \in 0 .. MaxAnchors
        /\ 0 \in 0 .. EntropyMin
    BY OpenConstants
  <2> QED
    BY <2>1, <2>2, Zenon DEF Open!Init, Open!TypeOK
<1>5. Open!DescriptorsClosed
  BY <1>1 DEF Open!DescriptorsClosed
<1> QED
  BY <1>1, <1>2, <1>3, <1>4, <1>5 DEF OpenInv, OpenNatural

LEMMA OpenAnswers == ASSUME OpenInv PROVE Open!HandshakeIsPrepared
<1> SUFFICES ASSUME openPc = "handshake" \/ openResult = "OK"
             PROVE  /\ ca.size <= FileCap /\ ca.end = "clean" /\ have = EntropyMin
                    /\ Open!Range(anchors) = Open!Certificates
                    /\ \A i \in Open!Certificates : ca.objects[i].content \in {"rsa", "ec"}
  BY DEF Open!HandshakeIsPrepared
<1>1. openTotal = ca.size /\ openTotal \in 0 .. FileCap /\ next = Len(ca.objects) + 1
      /\ ca.end = "clean" /\ have = EntropyMin /\ ca \in Open!Files
  BY DEF OpenInv, OpenNatural, Open!TypeOK
<1>2. ca.objects \in Seq(Open!Objects) /\ Len(ca.objects) \in Nat
  BY <1>1, OpenFile
<1>3. OpenBefore(next) = Open!Certificates
  <2>1. DOMAIN ca.objects = 1 .. Len(ca.objects) /\ next - 1 = Len(ca.objects)
    BY <1>1, <1>2, LenProperties
  <2> QED
    BY <2>1, Zenon DEF OpenBefore, Open!Certificates
<1>4. ca.size <= FileCap
  BY <1>1, OpenConstants
<1> QED
  BY <1>1, <1>3, <1>4, Zenon DEF OpenInv

(* The call fails, whatever it was at. *)
LEMMA OpenFails ==
    ASSUME OpenInv, openPc # "done", NEW r, r # "OK", Open!Fail(r),
           UNCHANGED <<ca, openTotal, next, count, anchors, openExpired>>,
           have' \in 0 .. EntropyMin
    PROVE  OpenInv'
<1>1. openPc' = "done" /\ openResult' # "OK" /\ connection' = FALSE /\ files' = {}
  BY DEF Open!Fail
<1>2. Open!TypeOK' /\ Open!DescriptorsClosed'
  BY <1>1 DEF OpenInv, Open!TypeOK, Open!DescriptorsClosed
<1>3. OpenBefore(next)' = OpenBefore(next) /\ Open!Range(anchors)' = Open!Range(anchors)
  BY DEF OpenBefore, Open!Range, Open!is_pem_certificate
<1> QED
  BY <1>1, <1>2, <1>3 DEF OpenInv, OpenNatural

LEMMA RangeAppended ==
    ASSUME NEW S, NEW s \in Seq(S), NEW e \in S
    PROVE  /\ Append(s, e) \in Seq(S) /\ Len(Append(s, e)) = Len(s) + 1
           /\ Open!Range(Append(s, e)) = Open!Range(s) \cup {e}
<1>1. PICK t \in Seq(S) : t = Append(s, e)
  BY AppendProperties, Zenon
<1>2. Len(t) = Len(s) + 1 /\ t[Len(s) + 1] = e
  BY <1>1, AppendProperties, Zenon
<1>3. \A i \in 1 .. Len(s) : t[i] = s[i]
  <2>1. \A i \in 1 .. Len(s) : Append(s, e)[i] = s[i]
    BY AppendProperties
  <2> QED
    BY <1>1, <2>1, Zenon
<1>4. Len(s) \in Nat /\ DOMAIN s = 1 .. Len(s) /\ DOMAIN t = 1 .. Len(t)
  BY LenProperties, Zenon
<1>5. 1 .. Len(t) = (1 .. Len(s)) \cup {Len(s) + 1}
  BY <1>2, <1>4
<1>6. Open!Range(t) = Open!Range(s) \cup {e}
  BY <1>2, <1>3, <1>4, <1>5 DEF Open!Range
<1> QED
  BY <1>1, <1>2, <1>6, Zenon

(* One object more is decoded, a certificate or not. *)
LEMMA OpenObject == ASSUME OpenInv, Open!Object PROVE OpenInv'
<1> USE OpenConstants
<1>1. /\ openPc = "pem" /\ next <= Len(ca.objects) /\ UNCHANGED <<ca, own_source, openExpired, have>>
      /\ openResult = "none" /\ connection = TRUE
  BY DEF Open!Object, Open!Config, OpenInv
<1>2. /\ ca.objects \in Seq(Open!Objects) /\ Len(ca.objects) \in Nat
      /\ ca.size <= FileCap => Len(ca.objects) <= MaxObjects
      /\ ca \in Open!Files
  BY OpenFile DEF OpenInv
<1>3. /\ openTotal = ca.size /\ openTotal \in 0 .. FileCap /\ next \in 1 .. MaxObjects + 1
      /\ count \in 0 .. MaxAnchors /\ Len(anchors) = count /\ anchors \in Seq(Nat)
      /\ next \in 1 .. Len(ca.objects) + 1
  BY <1>1 DEF OpenInv, Open!TypeOK, OpenNatural
<1>4. Len(ca.objects) <= MaxObjects /\ next \in 1 .. MaxObjects /\ next + 1 \in 1 .. MaxObjects + 1
      /\ next + 1 \in 1 .. Len(ca.objects) + 1
  BY <1>1, <1>2, <1>3
<1> DEFINE o == ca.objects[next]
<1>5. CASE \E r \in {"INVALID_CA"} :
             Open!Fail(r) /\ UNCHANGED <<openTotal, next, count, anchors>>
  <2>1. have' \in 0 .. EntropyMin
    BY <1>1 DEF OpenInv, Open!TypeOK
  <2> QED
    BY <1>1, <1>5, <2>1, OpenFails
<1>6. ASSUME next' = next + 1, UNCHANGED <<openPc, files, openTotal, connection, openResult>>,
             \/ /\ Open!is_pem_certificate(o) /\ Open!decode_anchor(o) /\ count < MaxAnchors
                /\ count' = count + 1 /\ anchors' = Append(anchors, next)
             \/ ~Open!is_pem_certificate(o) /\ UNCHANGED <<count, anchors>>
      PROVE  OpenInv'
  <2>1. OpenBefore(next)' = IF Open!is_pem_certificate(o) THEN OpenBefore(next) \cup {next}
                            ELSE OpenBefore(next)
    <3>1. 1 .. (next + 1) - 1 = (1 .. next - 1) \cup {next}
      BY <1>3
    <3> QED
      BY <1>1, <1>6, <3>1 DEF OpenBefore, Open!is_pem_certificate
  <2>2. /\ anchors' \in Seq(Nat) /\ Len(anchors') = count' /\ count' \in 0 .. MaxAnchors
        /\ Open!Range(anchors)' = IF Open!is_pem_certificate(o) THEN Open!Range(anchors) \cup {next}
                                  ELSE Open!Range(anchors)
    <3>1. CASE ~Open!is_pem_certificate(o)
      BY <1>3, <1>6, <3>1 DEF Open!Range
    <3>2. CASE Open!is_pem_certificate(o)
      <4>1. anchors' = Append(anchors, next) /\ count' = count + 1 /\ count < MaxAnchors /\ next \in Nat
        BY <1>3, <1>6, <3>2
      <4>2. /\ anchors' \in Seq(Nat) /\ Len(anchors') = Len(anchors) + 1
            /\ Open!Range(anchors') = Open!Range(anchors) \cup {next}
        BY <1>3, <4>1, RangeAppended, Zenon
      <4>3. Len(anchors') = count' /\ count' \in 0 .. MaxAnchors
        BY <1>3, <4>1, <4>2
      <4> QED
        BY <3>2, <4>2, <4>3, Zenon DEF Open!Range
    <3> QED
      BY <3>1, <3>2
  <2>3. \A i \in OpenBefore(next)' : ca'.objects[i].content \in {"rsa", "ec"}
    BY <1>1, <1>6, <2>1 DEF OpenInv, Open!decode_anchor
  <2>4. Open!TypeOK'
    BY <1>1, <1>4, <1>6, <2>2 DEF OpenInv, Open!TypeOK
  <2>5. Open!Range(anchors)' = OpenBefore(next)'
    BY <2>1, <2>2, Zenon DEF OpenInv
  <2>6. Open!DescriptorsClosed'
    BY <1>1, <1>6 DEF Open!DescriptorsClosed
  <2> QED
    BY <1>1, <1>4, <1>6, <2>2, <2>3, <2>4, <2>5, <2>6 DEF OpenInv, OpenNatural
<1> QED
  <2>1. CASE ~Open!is_pem_certificate(o)
    BY <1>6, <2>1, Zenon DEF Open!Object, Open!Going
  <2>2. CASE Open!is_pem_certificate(o) /\ Open!Room /\ Open!decode_anchor(o)
    <3>1. next' = next + 1 /\ count' = count + 1 /\ anchors' = Append(anchors, next)
          /\ UNCHANGED <<openPc, files, openTotal, connection, openResult>>
      BY <2>2, Zenon DEF Open!Object, Open!Going
    <3> QED
      BY <1>6, <2>2, <3>1, Zenon DEF Open!Room
  <2>3. CASE Open!is_pem_certificate(o) /\ ~(Open!Room /\ Open!decode_anchor(o))
    BY <1>5, <2>3, Zenon DEF Open!Object, Open!loading
  <2> QED
    BY <2>1, <2>2, <2>3

(* A step that only goes on to the next one. *)
LEMMA OpenGoesOn ==
    ASSUME OpenInv, openPc # "done",
           UNCHANGED <<ca, next, count, anchors, connection>>,
           openTotal' \in 0 .. FileCap, have' \in 0 .. EntropyMin, openExpired' \in BOOLEAN,
           files' \in SUBSET {"ca", "entropy"},
           openPc' \in {"begin", "read"} \cup OpenNatural, openResult' = openResult,
           openPc' \in OpenNatural => openTotal' = ca.size,
           openPc' \in OpenNatural \ {"pem"} => next = Len(ca.objects) + 1 /\ ca.end = "clean",
           openPc' = "handshake" => have' = EntropyMin /\ files' = {}
    PROVE  OpenInv'
<1>1. Open!TypeOK' /\ Open!DescriptorsClosed'
  BY DEF OpenInv, Open!TypeOK, Open!DescriptorsClosed, OpenNatural
<1>2. OpenBefore(next)' = OpenBefore(next) /\ Open!Range(anchors)' = Open!Range(anchors)
  BY DEF OpenBefore, Open!Range, Open!is_pem_certificate
<1>3. openResult' = "none" /\ connection' = TRUE /\ openPc' # "done"
  BY DEF OpenInv, OpenNatural
<1> QED
  BY <1>1, <1>2, <1>3 DEF OpenInv

LEMMA OpenStep == ASSUME OpenInv, Open!Next PROVE OpenInv'
<1> USE OpenConstants
<1>0. /\ openTotal \in 0 .. FileCap /\ have \in 0 .. EntropyMin /\ openExpired \in BOOLEAN
      /\ files \in SUBSET {"ca", "entropy"} /\ ca \in Open!Files
      /\ openPc \in {"begin", "read", "done"} \cup OpenNatural
      /\ (openPc \in OpenNatural => openTotal = ca.size)
      /\ (openPc \in OpenNatural \ {"pem"} => next = Len(ca.objects) + 1 /\ ca.end = "clean")
      /\ (openPc = "handshake" => have = EntropyMin /\ files = {})
      /\ (openPc # "done" => openResult = "none")
  BY DEF OpenInv, Open!TypeOK, OpenNatural
<1>1. CASE Open!Begin
  <2>1. openPc = "begin" /\ UNCHANGED <<ca, openExpired, openTotal, next, count, anchors, have>>
    BY <1>1 DEF Open!Begin, Open!Config, Open!loading
  <2>2. CASE \E r \in {"INVALID", "INTERNAL", "INVALID_CA"} : Open!Fail(r)
    BY <1>0, <2>1, <2>2, OpenFails
  <2>3. CASE openPc' = "read" /\ files' = {"ca"} /\ Open!Going
    BY <1>0, <2>1, <2>3, OpenGoesOn DEF Open!Going, OpenNatural
  <2> QED
    BY <1>1, <2>2, <2>3 DEF Open!Begin
<1>2. CASE Open!Read
  <2>1. openPc = "read" /\ UNCHANGED <<ca, openExpired, have>>
    BY <1>2 DEF Open!Read, Open!Config
  <2>2. CASE Open!Fail("INVALID_CA") /\ UNCHANGED Open!loading
    BY <1>0, <2>1, <2>2, OpenFails DEF Open!loading
  <2>3. CASE /\ \E n \in 1 .. FileCap - openTotal :
                   openTotal + n <= ca.size /\ openTotal' = openTotal + n
             /\ UNCHANGED <<openPc, files, next, count, anchors>>
             /\ Open!Going
    <3>1. openTotal' \in 0 .. FileCap
      BY <1>0, <2>3
    <3> QED
      BY <1>0, <2>1, <2>3, <3>1, OpenGoesOn DEF Open!Going, OpenNatural
  <2>4. CASE Open!FileEnds /\ openPc' = "pem" /\ files' = {} /\ UNCHANGED Open!loading /\ Open!Going
    BY <1>0, <2>1, <2>4, OpenGoesOn DEF Open!Going, Open!loading, Open!FileEnds, OpenNatural
  <2> QED
    BY <1>2, <2>2, <2>3, <2>4 DEF Open!Read
<1>3. CASE Open!PemEnds
  <2>1. openPc = "pem" /\ UNCHANGED <<ca, openExpired, have, openTotal, next, count, anchors>>
    BY <1>3 DEF Open!PemEnds, Open!Config, Open!loading
  <2>2. CASE Open!Fail("INVALID_CA")
    BY <1>0, <2>1, <2>2, OpenFails
  <2>3. CASE ca.end = "clean" /\ openPc' = "clock" /\ UNCHANGED files /\ Open!Going
    <3>1. next = Len(ca.objects) + 1
      <4>1. next \in 1 .. Len(ca.objects) + 1 /\ next > Len(ca.objects) /\ Len(ca.objects) \in Nat
        BY <1>0, <1>3, OpenFile DEF OpenInv, Open!PemEnds
      <4> QED
        BY <4>1
    <3> QED
      BY <1>0, <2>1, <2>3, <3>1, OpenGoesOn DEF Open!Going, OpenNatural
  <2> QED
    BY <1>3, <2>2, <2>3, Zenon DEF Open!PemEnds
<1>4. CASE Open!Clock \/ Open!Ready \/ Open!OpenSource \/ Open!EntropyEnds
  <2>1. /\ openPc \in OpenNatural \ {"pem"}
        /\ UNCHANGED <<ca, openExpired, have, openTotal, next, count, anchors>>
    BY <1>4 DEF Open!Clock, Open!Ready, Open!OpenSource, Open!EntropyEnds, Open!Config,
                Open!loading, OpenNatural
  <2>2. \/ \E r \in {"INTERNAL", "ENTROPY_FAILED"} : Open!Fail(r)
        \/ /\ openPc' \in {"open", "ready", "entropy"} /\ files' \in {files, {"entropy"}} /\ Open!Going
        \/ openPc' = "handshake" /\ files' = {} /\ Open!Gathered /\ Open!Going
    BY <1>4 DEF Open!Clock, Open!Ready, Open!OpenSource, Open!EntropyEnds
  <2>3. CASE \E r \in {"INTERNAL", "ENTROPY_FAILED"} : Open!Fail(r)
    BY <1>0, <2>1, <2>3, OpenFails DEF OpenNatural
  <2>4. CASE openPc' \in {"open", "ready", "entropy"} /\ files' \in {files, {"entropy"}} /\ Open!Going
    BY <1>0, <2>1, <2>4, OpenGoesOn DEF Open!Going, OpenNatural
  <2>5. CASE openPc' = "handshake" /\ files' = {} /\ Open!Gathered /\ Open!Going
    <3>1. have = EntropyMin
      BY <1>0, <2>5 DEF Open!Gathered
    <3> QED
      BY <1>0, <2>1, <2>5, <3>1, OpenGoesOn DEF Open!Going, OpenNatural
  <2> QED
    BY <2>2, <2>3, <2>4, <2>5
<1>5. CASE Open!Gather \/ Open!Wait
  <2>1. openPc = "entropy" /\ UNCHANGED <<ca, openExpired, openTotal, next, count, anchors>>
    BY <1>5 DEF Open!Gather, Open!Wait, Open!Config, Open!loading
  <2>2. CASE Open!Fail("ENTROPY_FAILED") /\ UNCHANGED have
    BY <1>0, <2>1, <2>2, OpenFails
  <2>3. CASE /\ \E n \in 1 .. EntropyMin - have : have' = have + n
             /\ UNCHANGED <<openPc, files>>
             /\ Open!Going
    <3>1. have' \in 0 .. EntropyMin
      BY <1>0, <2>3
    <3> QED
      BY <1>0, <2>1, <2>3, <3>1, OpenGoesOn DEF Open!Going, OpenNatural
  <2> QED
    BY <1>5, <2>2, <2>3 DEF Open!Gather, Open!Wait
<1>6. CASE Open!Expire
  BY <1>0, <1>6, OpenGoesOn DEF Open!Expire, Open!loading
<1>7. CASE Open!Handshake
  <2>1. openPc = "handshake" /\ UNCHANGED <<ca, openExpired, have, openTotal, next, count, anchors>>
    BY <1>7 DEF Open!Handshake, Open!Config, Open!loading
  <2>2. CASE Open!Fail("HANDSHAKE_FAILED")
    BY <1>0, <2>1, <2>2, OpenFails
  <2>3. CASE openPc' = "done" /\ openResult' = "OK" /\ UNCHANGED <<files, connection>>
    <3>1. OpenBefore(next)' = OpenBefore(next) /\ Open!Range(anchors)' = Open!Range(anchors)
      BY <2>1 DEF OpenBefore, Open!Range, Open!is_pem_certificate
    <3>2. Open!TypeOK' /\ Open!DescriptorsClosed'
      BY <2>1, <2>3 DEF OpenInv, Open!TypeOK, Open!DescriptorsClosed
    <3> QED
      BY <1>0, <2>1, <2>3, <3>1, <3>2 DEF OpenInv, OpenNatural
  <2> QED
    BY <1>7, <2>2, <2>3 DEF Open!Handshake
<1>8. CASE Open!Object
  BY <1>8, OpenObject
<1> QED
  BY <1>1, <1>2, <1>3, <1>4, <1>5, <1>6, <1>7, <1>8 DEF Open!Next, Open!Step

LEMMA OpenIdle == ASSUME OpenInv, UNCHANGED openVars PROVE OpenInv'
<1>1. Open!TypeOK' /\ Open!DescriptorsClosed'
  BY DEF openVars, OpenInv, Open!TypeOK, Open!DescriptorsClosed
<1>2. OpenBefore(next)' = OpenBefore(next) /\ Open!Range(anchors)' = Open!Range(anchors)
  BY DEF openVars, OpenBefore, Open!Range, Open!is_pem_certificate
<1> QED
  BY <1>1, <1>2 DEF openVars, OpenInv

-----------------------------------------------------------------------------
(* The time of a server.                                                    *)

LEMMA SntpConstants ==
    /\ Len(Servers) \in 1 .. 2 /\ Fine \in Nat \ {0} /\ Timeout \in Nat \ {0}
    /\ Era \in Nat /\ Delta \in Nat /\ WindowMin \in Nat /\ WindowMax \in Nat
    /\ Delta < Era /\ WindowMin < WindowMax /\ WindowMax < Era /\ Era > 0
    /\ Starts \subseteq Nat
    /\ \A t \in Starts : t + Len(Servers) * Timeout < (WindowMin + Era) * Fine
<1>1. /\ Len(Servers) \in 1 .. 2 /\ Fine \in Nat \ {0} /\ Timeout \in Nat \ {0}
      /\ Era \in Nat /\ Delta \in Nat /\ WindowMin \in Nat /\ WindowMax \in Nat
      /\ Delta < Era /\ WindowMin < WindowMax /\ WindowMax < Era
      /\ Starts \subseteq Nat
      /\ \A t \in Starts : t + Len(Servers) * Timeout < (WindowMin + Era) * Fine
  BY SntpAssumption, Zenon DEF SntpAssumption, Sntp!ServersAssumption, Sntp!FineAssumption,
     Sntp!WindowAssumption, Sntp!StartsAssumption
<1>2. Era > 0
  BY <1>1
<1> QED
  BY <1>1, <1>2, Zenon

LEMMA Quotient ==
    ASSUME NEW t \in Nat, NEW f \in Nat \ {0}
    PROVE  f * (t \div f) + (t % f) = t /\ t % f \in 0 .. f - 1 /\ t \div f \in Nat
OBVIOUS

LEMMA QuotientOf ==
    ASSUME NEW c \in Nat, NEW r \in Nat, NEW f \in Nat \ {0}, r < f PROVE (c * f + r) \div f = c
OBVIOUS

LEMMA QuotientsGrow ==
    ASSUME NEW a \in Nat, NEW b \in Nat, a <= b, NEW f \in Nat \ {0} PROVE a \div f <= b \div f
OBVIOUS

LEMMA Half ==
    ASSUME NEW a \in Nat
    PROVE  a \div 2 \in Nat /\ 2 * (a \div 2) <= a /\ a <= 2 * (a \div 2) + 1
OBVIOUS

LEMMA SameEra ==
    ASSUME NEW c \in Nat, NEW x \in Nat, NEW e \in Nat \ {0}, NEW q \in Int, NEW k \in {0, 1},
           x = e * q + c - k * e, c < e, x < c + e
    PROVE  x = c
OBVIOUS

(* No date of the call is an era after one that is accepted.                 *)
SntpLimit == (WindowMin + Era) * Fine

(* A stamp means the time it was made at, or nothing.                        *)
LEMMA SntpMeant ==
    ASSUME NEW t \in Nat, t < SntpLimit, NEW rtt \in Nat
    PROVE  LET meant == Sntp!decode_transmit_time(Sntp!StampOf(t), rtt)
           IN  /\ \A m \in meant : m = t + rtt \div 2
               /\ Sntp!InWindow(t \div Fine) /\ Sntp!InWindow((t + rtt \div 2) \div Fine)
                    => meant # {}
<1> DEFINE d == t \div Fine
           f == t % Fine
           s == (d + Delta) % Era
           q == (d + Delta) \div Era
           h == rtt \div 2
<1>1. Fine * d + f = t /\ f \in 0 .. Fine - 1 /\ d \in Nat /\ h \in Nat
  BY SntpConstants, Quotient, Half
<1>2. Era * q + s = d + Delta /\ s \in 0 .. Era - 1 /\ q \in Nat
  <2> HIDE DEF d
  <2>1. d + Delta \in Nat /\ Era \in Nat \ {0}
    BY <1>1, SntpConstants
  <2> QED
    BY <2>1, Quotient
<1>3. Sntp!StampOf(t).seconds = s /\ Sntp!StampOf(t).fraction = f
  BY DEF Sntp!StampOf
<1>4. d < WindowMin + Era
  <2> HIDE DEF d, f
  <2>1. Fine * d <= t /\ t < (WindowMin + Era) * Fine
    BY <1>1, SntpConstants DEF SntpLimit
  <2>2. Fine * d < Fine * (WindowMin + Era)
    BY <1>1, <2>1, SntpConstants
  <2>3. \A a, b \in Nat : Fine * a < Fine * b => a < b
    BY SntpConstants
  <2> QED
    BY <1>1, <2>2, <2>3, SntpConstants
<1>5. Sntp!decode_transmit_time(Sntp!StampOf(t), rtt) =
        {Sntp!Decoded(Sntp!StampOf(t), rtt, c) : c \in {e \in Sntp!CandidateSeconds(Sntp!StampOf(t)) :
            Sntp!InWindow(Sntp!Decoded(Sntp!StampOf(t), rtt, e) \div Fine)}}
  BY Zenon DEF Sntp!decode_transmit_time
<1>6. Sntp!CandidateSeconds(Sntp!StampOf(t)) = {c \in {s - Delta, s + Era - Delta} : Sntp!InWindow(c)}
  BY <1>3, Zenon DEF Sntp!CandidateSeconds
<1>7. \A c : Sntp!Decoded(Sntp!StampOf(t), rtt, c) = c * Fine + f + h
  BY <1>3, Zenon DEF Sntp!Decoded
<1> HIDE DEF d, f, s, q, h
<1>8. d * Fine + f + h = t + h
  BY <1>1, SntpConstants
<1>9. ASSUME NEW c \in Sntp!CandidateSeconds(Sntp!StampOf(t)) PROVE c = d
  <2>1. c \in WindowMin .. WindowMax /\ (c = s - Delta \/ c = s + Era - Delta)
    BY <1>6 DEF Sntp!InWindow
  <2>2. c \in Nat /\ c < Era /\ d < c + Era
    BY <1>1, <1>4, <2>1, SntpConstants
  <2>3. PICK k \in {0, 1} : c = s + k * Era - Delta
    <3>1. CASE c = s - Delta
      <4>1. c = s + 0 * Era - Delta
        BY <1>2, <3>1, SntpConstants
      <4> QED
        BY <4>1
    <3>2. CASE c = s + Era - Delta
      <4>1. c = s + 1 * Era - Delta
        BY <1>2, <3>2, SntpConstants
      <4> QED
        BY <4>1
    <3> QED
      BY <2>1, <3>1, <3>2
  <2>4. d = Era * q + c - k * Era
    BY <1>1, <1>2, <2>2, <2>3, SntpConstants
  <2>5. Era \in Nat \ {0} /\ q \in Int
    BY <1>2, SntpConstants
  <2> QED
    BY <1>1, <2>2, <2>4, <2>5, SameEra
<1>10. \A m \in Sntp!decode_transmit_time(Sntp!StampOf(t), rtt) : m = t + h
  BY <1>5, <1>7, <1>8, <1>9, Zenon
<1>11. ASSUME Sntp!InWindow(d), Sntp!InWindow((t + h) \div Fine)
       PROVE  Sntp!decode_transmit_time(Sntp!StampOf(t), rtt) # {}
  <2>1. d <= WindowMax /\ d < Era /\ d + Delta < 2 * Era
    BY <1>1, <1>11, SntpConstants DEF Sntp!InWindow
  <2>2. q \in {0, 1}
    <3>1. Era * q < Era * 2
      BY <1>1, <1>2, <2>1, SntpConstants
    <3>2. \A a \in Nat : Era * a < Era * 2 => a \in {0, 1}
      BY SntpConstants
    <3> QED
      BY <1>2, <3>1, <3>2
  <2>3. d = s - Delta \/ d = s + Era - Delta
    <3>1. CASE q = 0
      BY <1>1, <1>2, <3>1, SntpConstants
    <3>2. CASE q = 1
      BY <1>1, <1>2, <3>2, SntpConstants
    <3> QED
      BY <2>2, <3>1, <3>2
  <2>4. d \in Sntp!CandidateSeconds(Sntp!StampOf(t))
    BY <1>6, <1>11, <2>3, Zenon
  <2>5. Sntp!Decoded(Sntp!StampOf(t), rtt, d) = t + h
    BY <1>7, <1>8, Zenon
  <2> QED
    BY <1>5, <1>11, <2>4, <2>5, Zenon
<1> QED
  BY <1>10, <1>11, Zenon DEF d, h

LEMMA SntpMeantIsInWindow ==
    ASSUME NEW s \in Sntp!Stamps, NEW rtt \in Nat, NEW m \in Sntp!decode_transmit_time(s, rtt)
    PROVE  m \in Nat /\ Sntp!InWindow(m \div Fine)
<1>1. PICK c : /\ Sntp!InWindow(c) /\ m = Sntp!Decoded(s, rtt, c)
               /\ Sntp!InWindow(Sntp!Decoded(s, rtt, c) \div Fine)
  BY Zenon DEF Sntp!decode_transmit_time, Sntp!CandidateSeconds
<1>2. c \in Nat /\ s.fraction \in Nat /\ rtt \div 2 \in Nat
  BY <1>1, Half, SntpConstants DEF Sntp!Stamps, Sntp!InWindow
<1>3. c * Fine \in Nat
  BY <1>2, SntpConstants
<1>4. c * Fine + s.fraction + rtt \div 2 \in Nat
  <2> DEFINE a == c * Fine
             b == s.fraction
             h == rtt \div 2
  <2> HIDE DEF a, b, h
  <2>1. a \in Nat /\ b \in Nat /\ h \in Nat
    BY <1>2, <1>3 DEF a, b, h
  <2>2. a + b + h \in Nat
    BY <2>1
  <2> QED
    BY <2>2 DEF a, b, h
<1> QED
  BY <1>1, <1>4, Zenon DEF Sntp!Decoded

LEMMA StampIsAStamp == ASSUME NEW t \in Nat PROVE Sntp!StampOf(t) \in Sntp!Stamps
<1>1. t \div Fine \in Nat /\ t % Fine \in 0 .. Fine - 1
  BY Quotient, SntpConstants
<1>2. (t \div Fine + Delta) % Era \in 0 .. Era - 1
  <2> DEFINE d == t \div Fine
  <2> HIDE DEF d
  <2>1. d + Delta \in Nat /\ Era \in Nat \ {0}
    BY <1>1, SntpConstants DEF d
  <2>2. (d + Delta) % Era \in 0 .. Era - 1
    BY <2>1, Quotient
  <2> QED
    BY <2>2 DEF d
<1> QED
  BY <1>1, <1>2 DEF Sntp!StampOf, Sntp!Stamps

(* The tries that are left end before the limit; what is in the network was   *)
(* asked by one of the attempts so far, and an honest answer to this one was  *)
(* stamped since it was sent.                                                *)
SntpLeft == (Len(Servers) - sntpAttempt) * Timeout
SntpStamped(s) == \E t \in sentAt .. time : s = Sntp!StampOf(t)
SntpTimes ==
    /\ time + SntpLeft < SntpLimit /\ sentAt <= time
    /\ sntpPc \in {"send", "wait"} =>
          time <= deadline /\ deadline + SntpLeft < SntpLimit
    /\ sntpPc = "send" => deadline <= time + Timeout
    /\ sntpPc = "wait" => deadline <= sentAt + Timeout
SntpQueries ==
    \A q \in sntpQueries : /\ q.nonce \in 1 .. sntpAttempt /\ q.to = Servers[q.nonce]
                           /\ sntpPc = "send" => q.nonce # sntpAttempt
SntpReplies ==
    \A r \in sntpReplies :
       /\ r.nonce \in 1 .. sntpAttempt /\ r.from = Servers[r.nonce] /\ r.stamp \in Sntp!Stamps
       /\ sntpPc = "send" => r.nonce # sntpAttempt
       /\ r.nonce = sntpAttempt /\ r.from \notin Wrong => SntpStamped(r.stamp)

SntpInv ==
    /\ Sntp!TypeOK /\ SntpTimes /\ SntpQueries /\ SntpReplies
    /\ sntpPc = "idle" => sntpAttempt = 0
    /\ sntpPc \in {"send", "wait"} => sntpAttempt # 0
    /\ sntpPc \in {"idle", "send", "wait", "ended"} => sntpResult # "OK"
    /\ Sntp!Accurate /\ Sntp!SetInWindow /\ Sntp!RangeIsTheDate

LEMMA SntpInitially == ASSUME Sntp!Init PROVE SntpInv
<1>1. /\ time \in Starts /\ offset \in {0, -time} /\ sntpPc = "idle" /\ sntpAttempt = 0
      /\ sentAt = 0 /\ deadline = 0 /\ sntpQueries = {} /\ sntpReplies = {}
      /\ sample = [time |-> 0, rtt |-> 0] /\ sntpResult = "INVALID" /\ missed = 0
  BY Zenon DEF Sntp!Init
<1>2. time \in Nat /\ time + Len(Servers) * Timeout < SntpLimit
  BY <1>1, SntpConstants, Zenon DEF SntpLimit
<1>3. offset \in Int /\ 0 \in 0 .. Len(Servers) /\ 0 \in 0 .. Timeout /\ 0 <= time
  BY <1>1, <1>2, SntpConstants
<1>4. sample \in [time : Nat, rtt : 0 .. Timeout] /\ missed \in Int
  BY <1>1, <1>3
<1>5. "INVALID" \in Sntp!Results
  BY DEF Sntp!Results
<1>6. {sentAt, deadline} \subseteq Nat
  BY <1>1
<1>7. Sntp!TypeOK
  BY <1>1, <1>2, <1>3, <1>4, <1>5, <1>6, Zenon DEF Sntp!TypeOK
<1>8. Len(Servers) - 0 = Len(Servers)
  BY SntpConstants
<1>9. SntpTimes
  BY <1>1, <1>2, <1>3, <1>8, Zenon DEF SntpTimes, SntpLeft
<1> QED
  BY <1>1, <1>7, <1>9, Zenon
  DEF SntpInv, SntpQueries, SntpReplies, Sntp!Accurate, Sntp!SetInWindow, Sntp!RangeIsTheDate

(* What TypeOK and the times say in numbers.                                 *)
LEMMA SntpTypes ==
    ASSUME SntpInv
    PROVE  /\ time \in Nat /\ offset \in Int /\ sntpAttempt \in 0 .. Len(Servers)
           /\ sentAt \in Nat /\ deadline \in Nat /\ missed \in Int /\ SntpLeft \in Nat
           /\ sample \in [time : Nat, rtt : 0 .. Timeout] /\ time < SntpLimit
           /\ sentAt <= time /\ sntpResult \in Sntp!Results
<1>1. /\ time \in Nat /\ offset \in Int /\ sntpAttempt \in 0 .. Len(Servers)
      /\ {sentAt, deadline} \subseteq Nat /\ missed \in Int
      /\ sample \in [time : Nat, rtt : 0 .. Timeout] /\ sntpResult \in Sntp!Results
  BY Zenon DEF SntpInv, Sntp!TypeOK
<1>2. time + SntpLeft < SntpLimit /\ sentAt <= time
  BY Zenon DEF SntpInv, SntpTimes
<1>3. SntpLeft \in Nat
  <2>1. Len(Servers) - sntpAttempt \in Nat
    BY <1>1, SntpConstants
  <2> QED
    BY <2>1, SntpConstants DEF SntpLeft
<1>4. SntpLimit \in Nat
  BY SntpConstants DEF SntpLimit
<1>5. time < SntpLimit
  BY <1>1, <1>2, <1>3, <1>4
<1>6. sentAt \in Nat /\ deadline \in Nat
  BY <1>1
<1> QED
  BY <1>1, <1>2, <1>3, <1>5, <1>6, Zenon

(* An attempt ends; nothing was taken of it.                                 *)
LEMMA SntpEnds ==
    ASSUME SntpInv, sntpPc \in {"send", "wait"}, Sntp!Still, NEW r \in Sntp!Results \ {"OK"},
           Sntp!EndAttempt(r),
           r = "TIME_RANGE" /\ Sntp!Honest =>
               \/ ~Sntp!InWindow(sentAt \div Fine)
               \/ ~Sntp!InWindow((time + (time - sentAt) \div 2) \div Fine)
    PROVE  SntpInv'
<1>1. /\ sntpPc' = "ended" /\ sntpResult' = r /\ sntpAttempt' = sntpAttempt /\ sentAt' = sentAt
      /\ deadline' = deadline /\ sample' = sample /\ missed' = missed
      /\ time' = time /\ offset' = offset /\ sntpQueries' = sntpQueries
      /\ sntpReplies' = sntpReplies
      /\ r # "OK" /\ r \in Sntp!Results
  BY Zenon DEF Sntp!EndAttempt, Sntp!Still
<1>2. /\ Sntp!TypeOK /\ SntpTimes /\ SntpQueries /\ SntpReplies
  BY Zenon DEF SntpInv
<1>3. Sntp!TypeOK'
  BY <1>1, <1>2, Zenon DEF Sntp!TypeOK
<1>4. SntpTimes'
  BY <1>1, <1>2, Zenon DEF SntpTimes, SntpLeft, SntpLimit
<1>5. SntpQueries' /\ SntpReplies'
  BY <1>1, <1>2, Zenon DEF SntpQueries, SntpReplies, SntpStamped
<1>6. Sntp!Accurate' /\ Sntp!SetInWindow'
  BY <1>1, Zenon DEF Sntp!Accurate, Sntp!SetInWindow
<1>7. Sntp!RangeIsTheDate'
  BY <1>1, Zenon DEF Sntp!RangeIsTheDate, Sntp!Honest, Sntp!InWindow
<1> QED
  BY <1>1, <1>3, <1>4, <1>5, <1>6, <1>7, Zenon DEF SntpInv

LEMMA SntpBegins ==
    ASSUME SntpInv, sntpPc \in {"idle", "ended"}, Sntp!Still, Sntp!BeginAttempt,
           sntpAttempt < Len(Servers)
    PROVE  SntpInv'
<1>1. /\ sntpPc' = "send" /\ sntpResult' = "INVALID" /\ sntpAttempt' = sntpAttempt + 1
      /\ sentAt' = sentAt /\ deadline' = time + Timeout /\ sample' = sample /\ missed' = missed
      /\ time' = time /\ offset' = offset /\ sntpQueries' = sntpQueries
      /\ sntpReplies' = sntpReplies
  BY Zenon DEF Sntp!BeginAttempt, Sntp!Still
<1>2. /\ Sntp!TypeOK /\ SntpTimes /\ SntpQueries /\ SntpReplies
  BY Zenon DEF SntpInv
<1>3. "INVALID" \in Sntp!Results
  BY DEF Sntp!Results
<1>4. /\ sntpAttempt' \in 0 .. Len(Servers) /\ sntpAttempt' # 0 /\ deadline' \in Nat
      /\ time <= deadline' /\ {sentAt', deadline'} \subseteq Nat
      /\ deadline' <= time + Timeout
  BY <1>1, SntpTypes, SntpConstants
<1>5. Sntp!TypeOK'
  BY <1>1, <1>2, <1>3, <1>4, Zenon DEF Sntp!TypeOK
<1>6. SntpLeft' + Timeout = SntpLeft /\ SntpLeft' \in Nat
  <2>1. Len(Servers) \in Nat /\ sntpAttempt \in Nat /\ Timeout \in Nat
        /\ Len(Servers) - (sntpAttempt + 1) \in Nat
    BY SntpTypes, SntpConstants
  <2>2. /\ SntpLeft' = (Len(Servers) - (sntpAttempt + 1)) * Timeout
        /\ SntpLeft = (Len(Servers) - sntpAttempt) * Timeout
    BY <1>1, Zenon DEF SntpLeft
  <2>3. \A l, a, t \in Nat : (l - (a + 1)) * t + t = (l - a) * t
    OBVIOUS
  <2>4. \A a, b \in Nat : a * b \in Nat
    OBVIOUS
  <2> QED
    BY <2>1, <2>2, <2>3, <2>4, Zenon
<1>7. SntpTimes'
  <2>1. time + SntpLeft < SntpLimit /\ sentAt <= time /\ SntpLimit' = SntpLimit
    BY <1>2, Zenon DEF SntpTimes, SntpLimit
  <2>2. SntpLimit \in Nat
    BY SntpConstants DEF SntpLimit
  <2>3. time + SntpLeft' < SntpLimit /\ deadline' + SntpLeft' < SntpLimit
    <3>1. time \in Nat /\ Timeout \in Nat
      BY SntpTypes, SntpConstants
    <3>2. \A t, o, l, m, n \in Nat : l + o = m /\ t + m < n => t + l < n /\ (t + o) + l < n
      OBVIOUS
    <3>3. SntpLeft \in Nat
      BY SntpTypes, Zenon
    <3> QED
      BY <1>1, <1>6, <2>1, <2>2, <3>1, <3>2, <3>3, Zenon
  <2>4. deadline' <= time' + Timeout
    BY <1>1, <1>4, Zenon
  <2> QED
    BY <1>1, <1>4, <2>1, <2>3, <2>4, Zenon DEF SntpTimes
<1>8. \A n \in 1 .. sntpAttempt : n \in 1 .. sntpAttempt' /\ n # sntpAttempt'
  BY <1>1, SntpTypes
<1>9. SntpQueries' /\ SntpReplies'
  BY <1>1, <1>2, <1>8, Zenon DEF SntpQueries, SntpReplies
<1>10. Sntp!Accurate' /\ Sntp!SetInWindow' /\ Sntp!RangeIsTheDate'
  BY <1>1, Zenon DEF Sntp!Accurate, Sntp!SetInWindow, Sntp!RangeIsTheDate
<1> QED
  BY <1>1, <1>4, <1>5, <1>7, <1>9, <1>10, Zenon DEF SntpInv

(* The call is over without a time. *)
LEMMA SntpGivesUp ==
    ASSUME SntpInv, sntpPc' = "done", Sntp!Still, sntpResult' \in Sntp!Results \ {"OK"},
           UNCHANGED <<sntpAttempt, sentAt, deadline, sample, missed>>
    PROVE  SntpInv'
<1>1. /\ sntpPc' = "done" /\ sntpResult' # "OK" /\ sntpResult' \in Sntp!Results
      /\ sntpAttempt' = sntpAttempt /\ sentAt' = sentAt
      /\ deadline' = deadline /\ sample' = sample /\ missed' = missed
      /\ time' = time /\ offset' = offset /\ sntpQueries' = sntpQueries
      /\ sntpReplies' = sntpReplies
  BY Zenon DEF Sntp!Still
<1>2. /\ Sntp!TypeOK /\ SntpTimes /\ SntpQueries /\ SntpReplies
  BY Zenon DEF SntpInv
<1>3. Sntp!TypeOK'
  BY <1>1, <1>2, Zenon DEF Sntp!TypeOK
<1>4. SntpTimes'
  BY <1>1, <1>2, Zenon DEF SntpTimes, SntpLeft, SntpLimit
<1>5. SntpQueries' /\ SntpReplies'
  BY <1>1, <1>2, Zenon DEF SntpQueries, SntpReplies, SntpStamped
<1>6. Sntp!Accurate' /\ Sntp!SetInWindow' /\ Sntp!RangeIsTheDate'
  BY <1>1, Zenon DEF Sntp!Accurate, Sntp!SetInWindow, Sntp!RangeIsTheDate
<1> QED
  BY <1>1, <1>3, <1>4, <1>5, <1>6, Zenon DEF SntpInv

LEMMA SntpSendStep == ASSUME SntpInv, Sntp!Send PROVE SntpInv'
<1> DEFINE new == [to |-> Servers[sntpAttempt], nonce |-> sntpAttempt]
<1>1. /\ sntpPc = "send" /\ sntpPc' = "wait" /\ sentAt' = time
      /\ sntpQueries' = sntpQueries \cup {new}
      /\ time' = time /\ offset' = offset /\ sntpReplies' = sntpReplies
      /\ sntpAttempt' = sntpAttempt /\ deadline' = deadline /\ sample' = sample
      /\ sntpResult' = sntpResult /\ missed' = missed
  BY Zenon DEF Sntp!Send
<1>2. /\ Sntp!TypeOK /\ SntpTimes /\ SntpQueries /\ SntpReplies
      /\ sntpAttempt # 0 /\ sntpResult # "OK"
  BY <1>1, Zenon DEF SntpInv
<1>3. /\ {sentAt', deadline'} \subseteq Nat /\ sntpAttempt \in 1 .. sntpAttempt
      /\ sentAt' <= time
  BY <1>1, <1>2, SntpTypes, SntpConstants
<1>4. Sntp!TypeOK'
  BY <1>1, <1>2, <1>3, Zenon DEF Sntp!TypeOK
<1>5. SntpTimes'
  <2>1. time + SntpLeft < SntpLimit /\ time <= deadline /\ deadline + SntpLeft < SntpLimit
    BY <1>1, <1>2, Zenon DEF SntpTimes
  <2>2. SntpLeft' = SntpLeft /\ SntpLimit' = SntpLimit
    BY <1>1, Zenon DEF SntpLeft, SntpLimit
  <2>3. deadline <= time + Timeout
    BY <1>1, <1>2, Zenon DEF SntpTimes
  <2> QED
    BY <1>1, <1>3, <2>1, <2>2, <2>3, Zenon DEF SntpTimes
<1>6. SntpQueries'
  <2>1. new.to = Servers[sntpAttempt] /\ new.nonce = sntpAttempt
    BY Zenon
  <2> HIDE DEF new
  <2> SUFFICES ASSUME NEW q \in sntpQueries'
               PROVE  q.nonce \in 1 .. sntpAttempt /\ q.to = Servers[q.nonce]
    BY <1>1, Zenon DEF SntpQueries
  <2>2. q \in sntpQueries \/ q = new
    BY <1>1
  <2> QED
    BY <1>2, <1>3, <2>1, <2>2, Zenon DEF SntpQueries
<1>7. SntpReplies'
  BY <1>1, <1>2, Zenon DEF SntpReplies
<1>8. Sntp!Accurate' /\ Sntp!SetInWindow' /\ Sntp!RangeIsTheDate'
  BY <1>1, Zenon DEF Sntp!Accurate, Sntp!SetInWindow, Sntp!RangeIsTheDate
<1> QED
  BY <1>1, <1>2, <1>4, <1>5, <1>6, <1>7, <1>8, Zenon DEF SntpInv

(* What the reply of an honest server says.                                  *)
LEMMA SntpHonest ==
    ASSUME SntpInv, NEW r \in sntpReplies, Sntp!Originate(r), Sntp!Honest
    PROVE  LET rtt == time - sentAt
               meant == Sntp!decode_transmit_time(r.stamp, rtt)
           IN  /\ \A m \in meant : 2 * (m - time) \in -(rtt + 1) .. rtt + 1
               /\ meant = {} => \/ ~Sntp!InWindow(sentAt \div Fine)
                                \/ ~Sntp!InWindow((time + rtt \div 2) \div Fine)
<1>1. r.nonce = sntpAttempt /\ r.from \notin Wrong
  BY Zenon DEF Sntp!Originate, Sntp!Honest, SntpInv, SntpReplies
<1>2. PICK t \in sentAt .. time : r.stamp = Sntp!StampOf(t)
  BY <1>1, Zenon DEF SntpInv, SntpReplies, SntpStamped
<1>3. sentAt \in Nat /\ time \in Nat /\ sentAt <= time /\ time < SntpLimit /\ SntpLimit \in Nat
  <2>1. SntpLimit \in Nat
    BY SntpConstants DEF SntpLimit
  <2> QED
    BY <2>1, SntpTypes, Zenon
<1>4. t \in Nat /\ t < SntpLimit /\ sentAt <= t /\ t <= time /\ time - sentAt \in Nat
  BY <1>2, <1>3
<1> DEFINE rtt == time - sentAt
           h == rtt \div 2
<1>5. h \in Nat /\ 2 * h <= rtt /\ rtt <= 2 * h + 1
  BY <1>4, Half
<1>6. /\ \A m \in Sntp!decode_transmit_time(Sntp!StampOf(t), rtt) : m = t + h
      /\ Sntp!InWindow(t \div Fine) /\ Sntp!InWindow((t + h) \div Fine)
            => Sntp!decode_transmit_time(Sntp!StampOf(t), rtt) # {}
  BY <1>4, SntpMeant
<1>7. 2 * ((t + h) - time) \in -(rtt + 1) .. rtt + 1
  <2>1. rtt \in Nat /\ rtt = time - sentAt
    BY <1>4
  <2> HIDE DEF rtt, h
  <2> QED
    BY <1>3, <1>4, <1>5, <2>1
<1>8. ASSUME Sntp!InWindow(sentAt \div Fine), Sntp!InWindow((time + h) \div Fine)
      PROVE  Sntp!InWindow(t \div Fine) /\ Sntp!InWindow((t + h) \div Fine)
  <2> HIDE DEF rtt, h
  <2>1. t + h \in Nat /\ time + h \in Nat /\ t <= t + h /\ t + h <= time + h
    BY <1>3, <1>4, <1>5
  <2>2. Fine \in Nat \ {0}
    BY SntpConstants, Zenon
  <2>3. sentAt \div Fine <= t \div Fine
    BY <1>3, <1>4, <2>2, QuotientsGrow
  <2>4. t \div Fine <= (t + h) \div Fine
    BY <1>4, <2>1, <2>2, QuotientsGrow
  <2>5. (t + h) \div Fine <= (time + h) \div Fine
    BY <2>1, <2>2, QuotientsGrow
  <2>6. sentAt \div Fine \in Nat /\ t \div Fine \in Nat
    BY <1>3, <1>4, <2>2, Quotient
  <2>7. (t + h) \div Fine \in Nat /\ (time + h) \div Fine \in Nat
    BY <2>1, <2>2, Quotient
  <2> DEFINE a == sentAt \div Fine
             b == t \div Fine
             c == (t + h) \div Fine
             d == (time + h) \div Fine
  <2>8. a \in Nat /\ b \in Nat /\ c \in Nat /\ d \in Nat /\ a <= b /\ b <= c /\ c <= d
    BY <2>3, <2>4, <2>5, <2>6, <2>7
  <2>9. a \in WindowMin .. WindowMax /\ d \in WindowMin .. WindowMax
    BY <1>8, Zenon DEF Sntp!InWindow
  <2> HIDE DEF a, b, c, d
  <2>10. b \in WindowMin .. WindowMax /\ c \in WindowMin .. WindowMax
    BY <2>8, <2>9, SntpConstants
  <2> QED
    BY <2>10, Zenon DEF b, c, Sntp!InWindow
<1> QED
  BY <1>2, <1>6, <1>7, <1>8, Zenon

LEMMA SntpTaken ==
    ASSUME SntpInv, sntpPc = "wait", Sntp!Still, NEW r \in sntpReplies, Sntp!Originate(r),
           NEW m \in Sntp!decode_transmit_time(r.stamp, time - sentAt),
           sample' = [time |-> m, rtt |-> time - sentAt], missed' = m - time,
           sntpPc' = "set", sntpResult' = "OK", UNCHANGED <<sntpAttempt, sentAt, deadline>>
    PROVE  SntpInv'
<1>1. /\ sntpPc' = "set" /\ sntpResult' = "OK" /\ sntpAttempt' = sntpAttempt
      /\ sentAt' = sentAt /\ deadline' = deadline
      /\ time' = time /\ offset' = offset /\ sntpQueries' = sntpQueries
      /\ sntpReplies' = sntpReplies
  BY Zenon DEF Sntp!Still
<1>2. /\ Sntp!TypeOK /\ SntpTimes /\ SntpQueries /\ SntpReplies
      /\ time <= deadline /\ deadline <= sentAt + Timeout
  <2>1. Sntp!TypeOK /\ SntpTimes /\ SntpQueries /\ SntpReplies
    BY Zenon DEF SntpInv
  <2> QED
    BY <2>1, Zenon DEF SntpTimes
<1>3. time - sentAt \in 0 .. Timeout
  BY <1>2, SntpTypes, SntpConstants
<1>4. time - sentAt \in Nat /\ r.stamp \in Sntp!Stamps
  <2>1. r.stamp \in Sntp!Stamps
    BY <1>2, Zenon DEF SntpReplies
  <2> QED
    BY <1>3, <2>1, SntpConstants
<1>5. m \in Nat /\ Sntp!InWindow(m \div Fine)
  BY <1>4, SntpMeantIsInWindow
<1>6. sample' \in [time : Nat, rtt : 0 .. Timeout] /\ sample'.time = m
      /\ sample'.rtt = time - sentAt
  BY <1>3, <1>5
<1>7. missed' \in Int
  BY <1>5, SntpTypes
<1>8. "OK" \in Sntp!Results
  BY DEF Sntp!Results
<1>9. Sntp!TypeOK'
  BY <1>1, <1>2, <1>6, <1>7, <1>8, Zenon DEF Sntp!TypeOK
<1>10. SntpTimes'
  BY <1>1, <1>2, Zenon DEF SntpTimes, SntpLeft, SntpLimit
<1>11. SntpQueries' /\ SntpReplies'
  BY <1>1, <1>2, Zenon DEF SntpQueries, SntpReplies, SntpStamped
<1>12. Sntp!Accurate'
  <2>1. Sntp!Honest' <=> Sntp!Honest
    BY <1>1, Zenon DEF Sntp!Honest
  <2>2. Sntp!Honest => 2 * (m - time) \in -((time - sentAt) + 1) .. (time - sentAt) + 1
    BY SntpHonest, Zenon
  <2> QED
    BY <1>6, <2>1, <2>2, Zenon DEF Sntp!Accurate
<1>13. Sntp!SetInWindow'
  BY <1>5, <1>6, Zenon DEF Sntp!SetInWindow, Sntp!InWindow
<1>14. Sntp!RangeIsTheDate'
  BY <1>1, Zenon DEF Sntp!RangeIsTheDate
<1> QED
  BY <1>1, <1>9, <1>10, <1>11, <1>12, <1>13, <1>14, Zenon DEF SntpInv

LEMMA SntpReceiveStep == ASSUME SntpInv, Sntp!Receive PROVE SntpInv'
<1>1. sntpPc = "wait" /\ Sntp!Still
  BY Zenon DEF Sntp!Receive
<1>2. sntpPc \in {"send", "wait"}
  BY <1>1
<1>3. PICK r \in sntpReplies :
        \/ Sntp!EndAttempt("PEER_MISMATCH")
        \/ \E f \in Sntp!HeaderFaults : Sntp!EndAttempt(f)
        \/ Sntp!EndAttempt("ORIGINATE_MISMATCH")
        \/ \E f \in Sntp!ZeroFaults : Sntp!EndAttempt(f)
        \/ /\ Sntp!Originate(r) /\ Sntp!decode_transmit_time(r.stamp, time - sentAt) = {}
           /\ Sntp!EndAttempt("TIME_RANGE")
        \/ /\ Sntp!Originate(r)
           /\ \E t \in Sntp!decode_transmit_time(r.stamp, time - sentAt) :
                 sample' = [time |-> t, rtt |-> time - sentAt] /\ missed' = t - time
           /\ sntpPc' = "set" /\ sntpResult' = "OK"
           /\ UNCHANGED <<sntpAttempt, sentAt, deadline>>
  BY Zenon DEF Sntp!Receive
<1>4. ASSUME NEW f \in {"PEER_MISMATCH", "ORIGINATE_MISMATCH"} \cup Sntp!HeaderFaults
                       \cup Sntp!ZeroFaults, Sntp!EndAttempt(f)
      PROVE  SntpInv'
  <2>1. f \in Sntp!Results \ {"OK"} /\ f # "TIME_RANGE"
    BY DEF Sntp!Results, Sntp!HeaderFaults, Sntp!ZeroFaults
  <2> QED
    BY <1>1, <1>2, <1>4, <2>1, SntpEnds, Zenon
<1>5. ASSUME Sntp!Originate(r), Sntp!decode_transmit_time(r.stamp, time - sentAt) = {},
             Sntp!EndAttempt("TIME_RANGE")
      PROVE  SntpInv'
  <2>1. "TIME_RANGE" \in Sntp!Results \ {"OK"}
    BY DEF Sntp!Results
  <2>2. Sntp!Honest => \/ ~Sntp!InWindow(sentAt \div Fine)
                       \/ ~Sntp!InWindow((time + (time - sentAt) \div 2) \div Fine)
    BY <1>5, SntpHonest, Zenon
  <2> QED
    BY <1>1, <1>2, <1>5, <2>1, <2>2, SntpEnds, Zenon
<1>6. ASSUME Sntp!Originate(r), NEW t \in Sntp!decode_transmit_time(r.stamp, time - sentAt),
             sample' = [time |-> t, rtt |-> time - sentAt] /\ missed' = t - time,
             sntpPc' = "set" /\ sntpResult' = "OK",
             UNCHANGED <<sntpAttempt, sentAt, deadline>>
      PROVE  SntpInv'
  BY <1>1, <1>6, SntpTaken, Zenon
<1> QED
  BY <1>3, <1>4, <1>5, <1>6, Zenon

LEMMA SntpSetClockStep == ASSUME SntpInv, Sntp!SetClock PROVE SntpInv'
<1>1. /\ sntpPc = "set" /\ sntpPc' = "done"
      /\ \/ offset' = sample.time - time /\ sntpResult' = sntpResult
         \/ offset' = offset /\ sntpResult' = "CLOCK_SET_FAILED"
      /\ time' = time /\ sntpAttempt' = sntpAttempt /\ sentAt' = sentAt
      /\ deadline' = deadline /\ sample' = sample /\ missed' = missed
      /\ sntpQueries' = sntpQueries /\ sntpReplies' = sntpReplies
  BY Zenon DEF Sntp!SetClock
<1>2. /\ Sntp!TypeOK /\ SntpTimes /\ SntpQueries /\ SntpReplies
      /\ Sntp!Accurate /\ Sntp!SetInWindow
  BY Zenon DEF SntpInv
<1>3. offset' \in Int
  <2>1. sample.time \in Nat /\ time \in Nat /\ offset \in Int
    BY SntpTypes
  <2>2. sample.time - time \in Int
    BY <2>1
  <2> QED
    BY <1>1, <2>1, <2>2, Zenon
<1>4. sntpResult' \in Sntp!Results
  BY <1>1, SntpTypes DEF Sntp!Results
<1>5. Sntp!TypeOK'
  BY <1>1, <1>2, <1>3, <1>4, Zenon DEF Sntp!TypeOK
<1>6. SntpTimes'
  BY <1>1, <1>2, Zenon DEF SntpTimes, SntpLeft, SntpLimit
<1>7. SntpQueries' /\ SntpReplies'
  BY <1>1, <1>2, Zenon DEF SntpQueries, SntpReplies, SntpStamped
<1>8. sntpResult' = "OK" => sntpResult = "OK"
  BY <1>1
<1>9. Sntp!Accurate' /\ Sntp!SetInWindow' /\ Sntp!RangeIsTheDate'
  BY <1>1, <1>2, <1>8, Zenon
  DEF Sntp!Accurate, Sntp!SetInWindow, Sntp!RangeIsTheDate, Sntp!Honest, Sntp!InWindow
<1> QED
  BY <1>1, <1>5, <1>6, <1>7, <1>9, Zenon DEF SntpInv

LEMMA SntpReplyStep == ASSUME SntpInv, Sntp!Reply PROVE SntpInv'
<1>1. PICK q \in sntpQueries : \E s \in IF q.to \in Wrong THEN Sntp!Stamps
                                                         ELSE {Sntp!StampOf(time)} :
        sntpReplies' = sntpReplies \cup {[from |-> q.to, nonce |-> q.nonce, stamp |-> s]}
  BY Zenon DEF Sntp!Reply
<1>2. /\ time' = time /\ offset' = offset /\ sntpPc' = sntpPc /\ sntpAttempt' = sntpAttempt
      /\ sentAt' = sentAt /\ deadline' = deadline /\ sample' = sample
      /\ sntpResult' = sntpResult /\ missed' = missed /\ sntpQueries' = sntpQueries
  BY Zenon DEF Sntp!Reply, Sntp!clientVars
<1>3. /\ SntpInv /\ Sntp!TypeOK /\ SntpTimes /\ SntpQueries /\ SntpReplies
      /\ Sntp!Accurate /\ Sntp!SetInWindow /\ Sntp!RangeIsTheDate
  BY Zenon DEF SntpInv
<1>4. Sntp!TypeOK'
  BY <1>2, <1>3, Zenon DEF Sntp!TypeOK
<1>5. SntpTimes' /\ SntpQueries'
  BY <1>2, <1>3, Zenon DEF SntpTimes, SntpLeft, SntpLimit, SntpQueries
<1>6. Sntp!Accurate' /\ Sntp!SetInWindow' /\ Sntp!RangeIsTheDate'
  BY <1>2, <1>3, Zenon
  DEF Sntp!Accurate, Sntp!SetInWindow, Sntp!RangeIsTheDate, Sntp!Honest, Sntp!InWindow
<1>7. SntpReplies'
  <2>9. PICK s \in IF q.to \in Wrong THEN Sntp!Stamps ELSE {Sntp!StampOf(time)} :
          sntpReplies' = sntpReplies \cup {[from |-> q.to, nonce |-> q.nonce, stamp |-> s]}
    BY <1>1
  <2> DEFINE new == [from |-> q.to, nonce |-> q.nonce, stamp |-> s]
  <2>1. new.from = q.to /\ new.nonce = q.nonce /\ new.stamp = s
    BY Zenon
  <2>2. sntpReplies' = sntpReplies \cup {new}
    BY <2>9, Zenon
  <2>3. time \in sentAt .. time
    BY SntpTypes
  <2>4. s \in Sntp!Stamps /\ (q.to \notin Wrong => SntpStamped(s))
    BY <2>3, StampIsAStamp, SntpTypes, Zenon DEF SntpStamped
  <2>5. \A x : SntpStamped(x)' <=> SntpStamped(x)
    BY <1>2, Zenon DEF SntpStamped
  <2> HIDE DEF new
  <2> SUFFICES ASSUME NEW r \in sntpReplies'
               PROVE  /\ r.nonce \in 1 .. sntpAttempt /\ r.from = Servers[r.nonce]
                      /\ r.stamp \in Sntp!Stamps
                      /\ sntpPc = "send" => r.nonce # sntpAttempt
                      /\ r.nonce = sntpAttempt /\ r.from \notin Wrong => SntpStamped(r.stamp)
    BY <1>2, <2>5, Zenon DEF SntpReplies, Sntp!Stamps
  <2>6. r \in sntpReplies \/ r = new
    BY <2>2
  <2>7. CASE r \in sntpReplies
    BY <1>3, <2>7, Zenon DEF SntpReplies
  <2>8. CASE r = new
    BY <1>3, <2>1, <2>4, <2>8, Zenon DEF SntpQueries
  <2> QED
    BY <2>6, <2>7, <2>8
<1> QED
  BY <1>2, <1>3, <1>4, <1>5, <1>6, <1>7, Zenon DEF SntpInv

LEMMA SntpTickStep == ASSUME SntpInv, Sntp!Tick PROVE SntpInv'
<1>1. /\ sntpPc \in {"send", "wait"} /\ time < deadline /\ time' = time + 1
      /\ offset' = offset /\ sntpPc' = sntpPc /\ sntpAttempt' = sntpAttempt
      /\ sentAt' = sentAt /\ deadline' = deadline /\ sample' = sample
      /\ sntpResult' = sntpResult /\ missed' = missed /\ sntpQueries' = sntpQueries
      /\ sntpReplies' = sntpReplies
  BY Zenon DEF Sntp!Tick, Sntp!clientVars
<1>2. /\ SntpInv /\ Sntp!TypeOK /\ SntpTimes /\ SntpQueries /\ SntpReplies
  BY Zenon DEF SntpInv
<1>3. time' \in Nat /\ sentAt <= time' /\ time' <= deadline
  BY <1>1, SntpTypes
<1>4. Sntp!TypeOK'
  BY <1>1, <1>2, <1>3, Zenon DEF Sntp!TypeOK
<1>5. SntpTimes'
  <2>1. SntpLeft' = SntpLeft /\ SntpLimit' = SntpLimit
    BY <1>1, Zenon DEF SntpLeft, SntpLimit
  <2>2. /\ deadline + SntpLeft < SntpLimit /\ (sntpPc = "wait" => deadline <= sentAt + Timeout)
        /\ (sntpPc = "send" => deadline <= time + Timeout)
    BY <1>1, <1>2, Zenon DEF SntpTimes
  <2>4. deadline <= time + Timeout => deadline <= time' + Timeout
    BY <1>1, SntpTypes, SntpConstants
  <2>3. time' + SntpLeft < SntpLimit
    <3>1. SntpLimit \in Nat /\ SntpLeft \in Nat /\ deadline \in Nat
      BY SntpTypes, SntpConstants DEF SntpLimit
    <3>2. \A a, b, c, d \in Nat : a <= b /\ b + c < d => a + c < d
      OBVIOUS
    <3> QED
      BY <1>3, <2>2, <3>1, <3>2, Zenon
  <2> QED
    BY <1>1, <1>3, <2>1, <2>2, <2>3, <2>4, Zenon DEF SntpTimes
<1>6. SntpQueries'
  BY <1>1, <1>2, Zenon DEF SntpQueries
<1>7. SntpReplies'
  <2>1. ASSUME NEW s, SntpStamped(s) PROVE SntpStamped(s)'
    <3>1. sentAt .. time \subseteq sentAt .. time'
      BY <1>1, SntpTypes
    <3> QED
      BY <1>1, <2>1, <3>1, Zenon DEF SntpStamped, Sntp!StampOf
  <2> QED
    BY <1>1, <1>2, <2>1, Zenon DEF SntpReplies, Sntp!Stamps
<1>8. sntpPc' \notin {"set", "done", "ended"}
  BY <1>1
<1>9. Sntp!Accurate' /\ Sntp!SetInWindow' /\ Sntp!RangeIsTheDate'
  BY <1>8 DEF Sntp!Accurate, Sntp!SetInWindow, Sntp!RangeIsTheDate
<1> QED
  BY <1>1, <1>2, <1>4, <1>5, <1>6, <1>7, <1>9, Zenon DEF SntpInv

LEMMA SntpStep == ASSUME SntpInv, Sntp!Next PROVE SntpInv'
<1>1. CASE Sntp!Query
  <2>1. sntpPc = "idle" /\ Sntp!Still
    BY <1>1, Zenon DEF Sntp!Query
  <2>2. sntpAttempt = 0
    BY <2>1, Zenon DEF SntpInv
  <2>3. sntpPc \in {"idle", "ended"} /\ sntpAttempt < Len(Servers)
    BY <2>1, <2>2, SntpConstants
  <2>4. "INVALID" \in Sntp!Results \ {"OK"}
    BY DEF Sntp!Results
  <2> QED
    BY <1>1, <2>1, <2>3, <2>4, SntpBegins, SntpGivesUp, Zenon DEF Sntp!Query
<1>2. CASE Sntp!TimesOut
  <2>1. "TIMEOUT" \in Sntp!Results \ {"OK"} /\ "TIMEOUT" # "TIME_RANGE"
    BY DEF Sntp!Results
  <2> QED
    BY <1>2, <2>1, SntpEnds, Zenon DEF Sntp!TimesOut
<1>3. CASE Sntp!CannotSend \/ Sntp!ReceiveFails
  <2>1. sntpPc \in {"send", "wait"} /\ Sntp!Still
    BY <1>3 DEF Sntp!CannotSend, Sntp!ReceiveFails
  <2>2. PICK r \in {"INVALID", "INTERNAL", "ENTROPY_FAILED", "SOCKET_FAILED", "SEND_FAILED",
                    "RECV_FAILED"} : Sntp!EndAttempt(r)
    BY <1>3 DEF Sntp!CannotSend, Sntp!ReceiveFails
  <2>3. r \in Sntp!Results \ {"OK"} /\ r # "TIME_RANGE"
    BY DEF Sntp!Results
  <2> QED
    BY <2>1, <2>2, <2>3, SntpEnds, Zenon
<1>4. CASE Sntp!Decide
  <2>1. sntpPc = "ended" /\ Sntp!Still
    BY <1>4, Zenon DEF Sntp!Decide
  <2>2. sntpResult \in Sntp!Results \ {"OK"}
    <3>1. sntpResult # "OK"
      BY <2>1, Zenon DEF SntpInv
    <3> QED
      BY <3>1, SntpTypes
  <2>3. sntpPc \in {"idle", "ended"}
    BY <2>1
  <2>4. CASE sntpAttempt < Len(Servers) /\ Sntp!BeginAttempt
    BY <2>1, <2>3, <2>4, SntpBegins, Zenon
  <2>5. CASE /\ sntpPc' = "done"
             /\ UNCHANGED <<sntpAttempt, sentAt, deadline, sample, sntpResult, missed>>
    <3>1. sntpResult' = sntpResult /\ UNCHANGED <<sntpAttempt, sentAt, deadline, sample, missed>>
      BY <2>5
    <3>2. sntpResult' \in Sntp!Results' \ {"OK"}
      BY <2>2, <3>1, Zenon DEF Sntp!Results, Sntp!HeaderFaults, Sntp!ZeroFaults
    <3> QED
      BY <2>1, <2>2, <2>5, <3>1, SntpGivesUp, Zenon
  <2> QED
    BY <1>4, <2>4, <2>5, Zenon DEF Sntp!Decide
<1> QED
  BY <1>1, <1>2, <1>3, <1>4, SntpSendStep, SntpReceiveStep, SntpSetClockStep, SntpReplyStep,
     SntpTickStep, Zenon DEF Sntp!Next, Sntp!Progress

LEMMA SntpIdle == ASSUME SntpInv, UNCHANGED sntpVars PROVE SntpInv'
<1>1. UNCHANGED <<time, offset, sntpPc, sntpAttempt, sentAt, deadline, sntpQueries,
                  sntpReplies, sample, sntpResult, missed>>
  BY DEF sntpVars
<1>2. /\ time' = time /\ offset' = offset /\ sntpPc' = sntpPc /\ sntpAttempt' = sntpAttempt
      /\ sentAt' = sentAt /\ deadline' = deadline /\ sample' = sample
      /\ sntpResult' = sntpResult /\ missed' = missed /\ sntpQueries' = sntpQueries
      /\ sntpReplies' = sntpReplies
  BY <1>1
<1>3. SntpInv /\ Sntp!TypeOK /\ SntpTimes /\ SntpQueries /\ SntpReplies
  BY Zenon DEF SntpInv
<1>4. Sntp!TypeOK' /\ SntpTimes' /\ SntpQueries'
  BY <1>2, <1>3, Zenon DEF Sntp!TypeOK, SntpTimes, SntpLeft, SntpLimit, SntpQueries
<1>5. SntpReplies'
  BY <1>2, <1>3, Zenon DEF SntpReplies, SntpStamped
<1> QED
  BY <1>2, <1>3, <1>4, <1>5, Zenon
  DEF SntpInv, Sntp!Accurate, Sntp!SetInWindow, Sntp!RangeIsTheDate, Sntp!Honest,
      Sntp!InWindow

-----------------------------------------------------------------------------
(* The calls together.  A behaviour is one call, and a step is of that call.  *)

NetworkInv ==
    /\ part = "dns" => DnsInv
    /\ part = "sntp" => SntpInv
    /\ part = "http" => HttpInv
    /\ part = "tls" => TlsInv
    /\ part = "open" => OpenInv

LEMMA NetworkInitially == Init => NetworkInv
<1> SUFFICES ASSUME Init PROVE NetworkInv
  OBVIOUS
<1>1. /\ part = "dns" => Dns!Init
      /\ part = "sntp" => Sntp!Init
      /\ part = "http" => Http!Init
      /\ part = "tls" => Tls!Init
      /\ part = "open" => Open!Init
  BY Zenon DEF Init
<1> QED
  BY <1>1, DnsInitially, SntpInitially, HttpInitially, TlsInitially, OpenInitially, Zenon
  DEF NetworkInv

LEMMA NetworkStep == ASSUME NetworkInv, [Next]_vars PROVE NetworkInv'
<1>1. CASE Next
  <2>1. /\ part' = part
        /\ part = "dns" => Dns!Next
        /\ part = "sntp" => Sntp!Next
        /\ part = "http" => Http!Next
        /\ part = "tls" => Tls!Next
        /\ part = "open" => Open!Next
    BY <1>1 DEF Next, Only
  <2> QED
    BY <2>1, DnsStep, SntpStep, HttpStep, TlsStep, OpenStep, Zenon DEF NetworkInv
<1>2. CASE UNCHANGED vars
  <2>1. /\ part' = part /\ UNCHANGED dnsVars /\ UNCHANGED sntpVars /\ UNCHANGED httpVars
        /\ UNCHANGED tlsVars /\ UNCHANGED openVars
    BY <1>2 DEF vars
  <2> QED
    BY <2>1, DnsIdle, SntpIdle, HttpIdle, TlsIdle, OpenIdle, Zenon DEF NetworkInv
<1> QED
  BY <1>1, <1>2

LEMMA NetworkInvariant == Spec => []NetworkInv
<1>1. Init => NetworkInv
  BY NetworkInitially
<1>2. NetworkInv /\ [Next]_vars => NetworkInv'
  BY NetworkStep
<1> QED
  BY <1>1, <1>2, PTL DEF Spec

LEMMA NetworkAnswers == NetworkInv => NetworkAnswersAreTrue
<1> SUFFICES ASSUME NetworkInv PROVE NetworkAnswersAreTrue
  OBVIOUS
<1>1. ASSUME DnsInv
      PROVE  Dns!TypeOK /\ Dns!AnswerIsOneReply /\ Dns!DefinitiveIsFinal /\ Dns!Paced
  BY <1>1, Zenon DEF DnsInv, Dns!DefinitiveIsFinal
<1>2. ASSUME SntpInv
      PROVE  Sntp!TypeOK /\ Sntp!Accurate /\ Sntp!SetInWindow /\ Sntp!RangeIsTheDate
  BY <1>2, Zenon DEF SntpInv
<1>3. ASSUME HttpInv PROVE Http!TypeOK /\ Http!TlsOkIsWhole /\ Http!PlainOkIsAll
  BY <1>3, Zenon DEF HttpInv
<1>4. ASSUME TlsInv PROVE Tls!TypeOK /\ Tls!EndIsThePeers /\ Tls!ReasonFitsPhase
  <2>1. Tls!TypeOK
    BY <1>4, Zenon DEF TlsInv
  <2> QED
    BY <1>4, <2>1, TlsAnswers, Zenon
<1>5. ASSUME OpenInv PROVE Open!TypeOK /\ Open!HandshakeIsPrepared
  BY <1>5, OpenAnswers, Zenon DEF OpenInv
<1> QED
  BY <1>1, <1>2, <1>3, <1>4, <1>5, Zenon DEF NetworkInv, NetworkAnswersAreTrue

(* What a network call reports is true of what was received: addresses are  *)
(* those of one reply to the question asked, a server's final answer is not *)
(* asked for again and repetitions wait (cn_dnssimple_resolve_a); the       *)
(* sample of an honest time server misses the true time by half the round   *)
(* trip at most, the clock is only set to a date in the window, and a date  *)
(* is only refused for being outside (cn_timesimple_sync); a response is    *)
(* whole (cn_netsimple_exchange); TLS says that the stream ended only when  *)
(* the peer did, and a failure is named after the phase it happened in      *)
(* (cn_tls_recv_some); no handshake begins without all anchors and all      *)
(* entropy (cn_tls_open).                                                   *)
THEOREM NetworkCallsAnswerTruly == Spec => []NetworkAnswersAreTrue
<1>1. NetworkInv => NetworkAnswersAreTrue
  BY NetworkAnswers
<1> QED
  BY <1>1, NetworkInvariant, PTL


-----------------------------------------------------------------------------
(* The load of a record.                                                    *)

(* A file number, if there is one, holds a record that the load has seen.    *)
Stored(i) == i # Load!NoInode => Load!Parses(content[i]) /\ Load!Parsed(content[i]) \in seen

(* What was read so far is the beginning of what the descriptor leads to.    *)
LoadPrefix ==
    /\ opened = Len(content[loadFd])
    /\ \A k \in 1 .. Len(data) : data[k] = content[loadFd][k]

(* While a load runs that nothing disturbed, the name and the descriptor     *)
(* lead to whole records, and the name always led somewhere unless a moment  *)
(* without a file was noted.                                                *)
LoadRuns ==
    /\ output = Load!Earlier /\ loadResult = "none"
    /\ loadPc \in {"lstat", "open"} => loadFd = Load!NoInode
    /\ loadPc \in {"fstat", "read", "close"} => loadFd # Load!NoInode
    /\ loadPc \in {"lstat", "open", "fstat"} => data = << >>
    /\ loadPc \in {"read", "close"} => opened <= RecordSize /\ Len(data) <= opened
    /\ loadPc = "close" => Len(data) = opened
    /\ path = Load!NoInode => absent
    /\ ~loadDisturbed => Stored(path) /\ Stored(loadFd)
    /\ ~loadDisturbed /\ loadPc \in {"read", "close"} => LoadPrefix

LoadInv ==
    /\ Load!TypeOK
    /\ data \in Seq(Versions) /\ opened \in Nat
    /\ loadPc # "idle" => LoadRuns
    /\ Load!OkIsAVersion /\ Load!RaceIsNoDamage /\ Load!MissingIsTrue
    /\ Load!FailureLeavesNothing

LEMMA LoadConstants ==
    /\ RecordSize \in Nat /\ Versions \subseteq 1 .. RecordSize /\ MaxEdits \in Nat
    /\ Load!NoInode \notin Inodes /\ Load!Earlier = RecordSize + 1 /\ Load!Empty = 0
BY LoadAssumption
DEF LoadAssumption, Load!SizeAssumption, Load!EditsAssumption, Load!InodesAssumption,
    Load!Earlier, Load!Empty

LEMMA LoadWhole ==
    ASSUME NEW v \in Versions
    PROVE  Load!Whole(v) \in Seq(Versions) /\ Len(Load!Whole(v)) = v /\ Load!Parses(Load!Whole(v))
<1>1. v \in Nat
  BY LoadConstants
<1>2. Load!Whole(v) \in Seq(Versions) /\ Len(Load!Whole(v)) = v
  BY <1>1 DEF Load!Whole
<1> QED
  BY <1>2, Zenon DEF Load!Parses

LEMMA LoadParsed ==
    ASSUME NEW c, Load!Parses(c)
    PROVE  /\ Load!Parsed(c) \in Versions /\ c = Load!Whole(Load!Parsed(c))
           /\ c \in Seq(Versions) /\ Load!SizeFits(Len(c))
<1>1. Load!Parsed(c) \in Versions /\ c = Load!Whole(Load!Parsed(c))
  BY Zenon DEF Load!Parses, Load!Parsed
<1>2. c \in Seq(Versions) /\ Len(c) = Load!Parsed(c)
  BY <1>1, LoadWhole, Zenon
<1>3. \A v \in Versions : Load!SizeFits(v)
  BY LoadConstants DEF Load!SizeFits
<1> QED
  BY <1>1, <1>2, <1>3, Zenon

LEMMA LoadInitially == ASSUME Load!Init PROVE LoadInv
<1> USE LoadConstants
<1>1. content \in [Inodes -> Seq(Versions)]
  <2>1. PICK v \in Versions : content = [i \in Inodes |-> IF i = path THEN Load!Whole(v) ELSE << >>]
    BY DEF Load!Init
  <2>2. Load!Whole(v) \in Seq(Versions) /\ << >> \in Seq(Versions)
    BY LoadWhole, EmptySeq
  <2> QED
    BY <2>1, <2>2
<1>2. data = << >> /\ data \in Seq(Versions) /\ Len(data) = 0
  BY EmptySeq DEF Load!Init
<1>3. Load!TypeOK
  <2>1. 0 \in 0 .. MaxEdits /\ Len(data) <= RecordSize
    BY <1>2
  <2>2. before.ino = Load!NoInode
    BY DEF Load!Init
  <2> QED
    BY <1>1, <2>1, <2>2, Zenon DEF Load!Init, Load!TypeOK
<1> QED
  BY <1>2, <1>3
  DEF Load!Init, LoadInv, Load!OkIsAVersion, Load!RaceIsNoDamage, Load!MissingIsTrue,
      Load!FailureLeavesNothing

(* The load ends without a record. *)
LEMMA LoadFails ==
    ASSUME LoadInv, loadPc # "idle", NEW r, Load!Fail(r), r \notin {"OK", "none"},
           UNCHANGED <<path, content, edits, load, seen, absent>>,
           data' \in Seq(Versions), Len(data') <= RecordSize, opened' \in Nat,
           before'.ino \in Inodes \cup {Load!NoInode}, loadDisturbed' \in BOOLEAN,
           r = "CORRUPT" => loadDisturbed',
           r \in {"MISSING", "NOT_FOUND"} => absent
    PROVE  LoadInv'
<1>1. /\ loadPc' = "idle" /\ loadResult' = r /\ loadFd' = Load!NoInode
      /\ output' = IF load.on_failure = "empty" THEN Load!Empty ELSE Load!Earlier
  BY Zenon DEF Load!Fail, Load!Return, LoadInv, LoadRuns
<1>2. Load!TypeOK'
  BY <1>1 DEF LoadInv, Load!TypeOK
<1>3. /\ Load!OkIsAVersion' /\ Load!RaceIsNoDamage' /\ Load!MissingIsTrue'
      /\ Load!FailureLeavesNothing'
  BY <1>1
  DEF Load!OkIsAVersion, Load!RaceIsNoDamage, Load!MissingIsTrue, Load!FailureLeavesNothing,
      Load!Empty, Load!Earlier
<1> QED
  BY <1>1, <1>2, <1>3, Zenon DEF LoadInv

(* A step of the load that does not end it. *)
LEMMA LoadGoesOn ==
    ASSUME LoadInv, UNCHANGED <<path, content, edits, load>>,
           loadPc' \in {"lstat", "open", "fstat", "read", "close"}, LoadRuns',
           data' \in Seq(Versions), Len(data') <= RecordSize, opened' \in Nat,
           before'.ino \in Inodes \cup {Load!NoInode}, loadFd' \in Inodes \cup {Load!NoInode},
           seen' \subseteq Versions, absent' \in BOOLEAN, loadDisturbed' \in BOOLEAN
    PROVE  LoadInv'
<1>1. loadPc' # "idle" /\ loadResult' = "none" /\ output' = Load!Earlier
  BY DEF LoadRuns
<1>2. Load!TypeOK'
  BY <1>1 DEF LoadInv, Load!TypeOK
<1>3. /\ Load!OkIsAVersion' /\ Load!RaceIsNoDamage' /\ Load!MissingIsTrue'
      /\ Load!FailureLeavesNothing'
  BY <1>1
  DEF Load!OkIsAVersion, Load!RaceIsNoDamage, Load!MissingIsTrue, Load!FailureLeavesNothing
<1> QED
  BY <1>1, <1>2, <1>3, Zenon DEF LoadInv

LEMMA LoadTypes ==
    ASSUME LoadInv
    PROVE  /\ path \in Inodes \cup {Load!NoInode} /\ loadFd \in Inodes \cup {Load!NoInode}
           /\ before.ino \in Inodes \cup {Load!NoInode} /\ seen \subseteq Versions
           /\ content \in [Inodes -> Seq(Versions)] /\ load \in Load!Loads
           /\ absent \in BOOLEAN /\ loadDisturbed \in BOOLEAN
           /\ data \in Seq(Versions) /\ Len(data) \in Nat /\ Len(data) <= RecordSize
           /\ opened \in Nat
           /\ \A i \in Inodes : content[i] \in Seq(Versions) /\ Len(content[i]) \in Nat
<1>1. data \in Seq(Versions) /\ content \in [Inodes -> Seq(Versions)]
  BY DEF LoadInv, Load!TypeOK
<1>2. Len(data) \in Nat
  BY <1>1, LenProperties, Zenon
<1>3. \A i \in Inodes : content[i] \in Seq(Versions) /\ Len(content[i]) \in Nat
  BY <1>1, LenProperties
<1> QED
  BY <1>1, <1>2, <1>3 DEF LoadInv, Load!TypeOK

LEMMA LoadBeginStep == ASSUME LoadInv, Load!Begin PROVE LoadInv'
<1>1. /\ loadPc' \in {"lstat", "open"} /\ output' = Load!Earlier /\ loadResult' = "none"
      /\ data' = << >> /\ absent' = (path = Load!NoInode)
      /\ seen' = IF path # Load!NoInode /\ Load!Parses(content[path])
                 THEN {Load!Parsed(content[path])} ELSE {}
      /\ loadDisturbed' = (path # Load!NoInode /\ ~Load!Parses(content[path]))
      /\ UNCHANGED <<path, content, edits, load, before, loadFd, opened>>
      /\ loadPc = "idle"
  BY DEF Load!Begin, Load!Own, Load!files
<1>2. loadFd = Load!NoInode
  BY <1>1 DEF LoadInv, Load!FailureLeavesNothing
<1>3. seen' \subseteq Versions
  BY <1>1, LoadParsed
<1>4. ~loadDisturbed' => Stored(path)' /\ Stored(loadFd)'
  <2>1. (Load!Parses(content[path])' <=> Load!Parses(content[path]))
        /\ Load!Parsed(content[path])' = Load!Parsed(content[path])
    BY <1>1 DEF Load!Parses, Load!Parsed
  <2>2. path # Load!NoInode /\ Load!Parses(content[path]) => Load!Parsed(content[path]) \in seen'
    BY <1>1
  <2> QED
    BY <1>1, <1>2, <2>1, <2>2, Zenon DEF Stored
<1>5. LoadRuns'
  BY <1>1, <1>2, <1>4 DEF LoadRuns
<1>6. data' \in Seq(Versions) /\ Len(data') <= RecordSize
  BY <1>1, EmptySeq, LoadConstants
<1> QED
  BY <1>1, <1>3, <1>5, <1>6, LoadTypes, LoadGoesOn

LEMMA LoadStored ==
    ASSUME LoadInv, loadPc # "idle", ~loadDisturbed
    PROVE  /\ path # Load!NoInode => Load!SizeFits(Len(content[path]))
           /\ loadFd # Load!NoInode => Load!SizeFits(Len(content[loadFd]))
BY LoadParsed, Zenon DEF LoadInv, LoadRuns, Stored

LEMMA LoadLstatStep == ASSUME LoadInv, Load!Lstat PROVE LoadInv'
<1>1. /\ loadPc = "lstat"
      /\ UNCHANGED <<path, content, edits, load, opened, data, seen, absent, loadDisturbed>>
  BY DEF Load!Lstat, Load!Own, Load!files, Load!history
<1>2. LoadRuns
  BY <1>1 DEF LoadInv
<1>3. CASE path = Load!NoInode /\ Load!Fail("MISSING") /\ UNCHANGED before
  BY <1>1, <1>2, <1>3, LoadTypes, LoadFails DEF LoadRuns
<1>4. CASE path # Load!NoInode /\ before' = [ino |-> path, size |-> Len(content[path])]
  <2>1. before'.ino = path /\ before'.size = Len(content[path])
    BY <1>4
  <2>2. CASE Load!SizeFits(before'.size)
    <3>1. loadPc' = "open" /\ UNCHANGED <<loadFd, output, loadResult>>
      BY <1>1, <1>4, <2>2, Zenon DEF Load!Lstat
    <3>2. LoadRuns'
      BY <1>1, <1>2, <3>1 DEF LoadRuns, Stored, Load!Parses, Load!Parsed
    <3> QED
      BY <1>1, <2>1, <3>1, <3>2, LoadTypes, LoadGoesOn
  <2>3. CASE ~Load!SizeFits(before'.size)
    <3>1. Load!Fail("CORRUPT") /\ loadDisturbed
      BY <1>1, <1>4, <2>1, <2>3, LoadStored, Zenon DEF Load!Lstat
    <3> QED
      BY <1>1, <2>1, <3>1, LoadTypes, LoadFails
  <2> QED
    BY <2>2, <2>3
<1> QED
  BY <1>3, <1>4 DEF Load!Lstat

LEMMA LoadOpenStep == ASSUME LoadInv, Load!Open PROVE LoadInv'
<1>1. /\ loadPc = "open"
      /\ UNCHANGED <<path, content, edits, load, before, opened, data, seen, absent, loadDisturbed>>
  BY DEF Load!Open, Load!Own, Load!files, Load!history
<1>2. LoadRuns
  BY <1>1 DEF LoadInv
<1>3. ASSUME NEW r \in {"NOT_FOUND", "MISSING", "IO_ERROR"}, Load!Fail(r),
             r # "IO_ERROR" => path = Load!NoInode
      PROVE  LoadInv'
  BY <1>1, <1>2, <1>3, LoadTypes, LoadFails DEF LoadRuns
<1>4. CASE /\ path # Load!NoInode /\ loadFd' = path /\ loadPc' = "fstat"
           /\ UNCHANGED <<output, loadResult>>
  <2>1. LoadRuns'
    BY <1>1, <1>2, <1>4 DEF LoadRuns, Stored, Load!Parses, Load!Parsed
  <2> QED
    BY <1>1, <1>4, <2>1, LoadTypes, LoadGoesOn
<1>5. CASE path = Load!NoInode /\ Load!Fail(IF load.lstats THEN "NOT_FOUND" ELSE "MISSING")
  BY <1>3, <1>5
<1> QED
  BY <1>3, <1>4, <1>5 DEF Load!Open

LEMMA LoadFstatStep == ASSUME LoadInv, Load!Fstat PROVE LoadInv'
<1>1. /\ loadPc = "fstat" /\ opened' = Len(content[loadFd])
      /\ UNCHANGED <<path, content, edits, load, before, data, seen, absent, loadDisturbed>>
  BY DEF Load!Fstat, Load!Own, Load!files, Load!history
<1>2. LoadRuns /\ loadFd \in Inodes /\ opened' \in Nat /\ data = << >> /\ Len(data) = 0
  BY <1>1, LoadTypes DEF LoadInv, LoadRuns
<1>3. CASE \E r \in {"IO_ERROR", "CORRUPT"} :
             Load!Fail(r) /\ (r = "CORRUPT" => ~Load!SizeFits(opened'))
  <2>1. ~Load!SizeFits(opened') => loadDisturbed
    BY <1>1, <1>2, LoadStored DEF LoadRuns
  <2> QED
    BY <1>1, <1>2, <1>3, <2>1, LoadTypes, LoadFails
<1>4. CASE Load!SizeFits(opened') /\ loadPc' = "read" /\ UNCHANGED <<loadFd, output, loadResult>>
  <2>1. opened' <= RecordSize /\ Len(data') <= opened'
    BY <1>1, <1>2, <1>4 DEF Load!SizeFits
  <2>2. LoadPrefix'
    BY <1>1, <1>2, <1>4 DEF LoadPrefix
  <2>3. LoadRuns'
    BY <1>1, <1>2, <1>4, <2>1, <2>2 DEF LoadRuns, Stored, Load!Parses, Load!Parsed
  <2> QED
    BY <1>1, <1>2, <1>4, <2>3, LoadTypes, LoadGoesOn
<1> QED
  BY <1>3, <1>4, Zenon DEF Load!Fstat

LEMMA LoadReadStep == ASSUME LoadInv, Load!Read PROVE LoadInv'
<1>1. /\ loadPc = "read" /\ Len(data) < opened
      /\ UNCHANGED <<path, content, edits, load, before, opened, seen, absent>>
  BY DEF Load!Read, Load!Own, Load!files
<1>2. LoadRuns /\ loadFd \in Inodes /\ opened <= RecordSize
      /\ content[loadFd] \in Seq(Versions) /\ Len(content[loadFd]) \in Nat
  BY <1>1, LoadTypes DEF LoadInv, LoadRuns
<1>3. CASE Load!Fail("CORRUPT") /\ Len(data) >= Len(content[loadFd]) /\ UNCHANGED <<data, loadDisturbed>>
  <2>1. loadDisturbed
    <3> SUFFICES ASSUME ~loadDisturbed PROVE FALSE
      OBVIOUS
    <3>1. opened = Len(content[loadFd])
      BY <1>1, <1>2 DEF LoadRuns, LoadPrefix
    <3> QED
      BY <1>1, <1>2, <1>3, <3>1, LoadTypes
  <2> QED
    BY <1>1, <1>3, <2>1, LoadTypes, LoadFails
<1>4. CASE Load!Fail(load.read_error) /\ loadDisturbed' = TRUE /\ UNCHANGED data
  <2>1. load.read_error \in {"IO_ERROR", "CORRUPT"}
    BY LoadTypes
    DEF Load!Loads, Load!cn_settings_load, Load!cn_credential_store_load, Load!cn_progress_store_load
  <2> QED
    BY <1>1, <1>4, <2>1, LoadTypes, LoadFails
<1>5. ASSUME NEW n \in 1 .. (opened - Len(data)), Len(data) + n <= Len(content[loadFd]),
             data' = data \o SubSeq(content[loadFd], Len(data) + 1, Len(data) + n),
             UNCHANGED <<loadPc, loadFd, output, loadResult, loadDisturbed>>
      PROVE  LoadInv'
  <2> DEFINE m == Len(data)
             more == SubSeq(content[loadFd], m + 1, m + n)
  <2>0. m \in Nat /\ n \in Nat /\ n >= 1 /\ m + n <= opened /\ m + n <= Len(content[loadFd])
        /\ m + n <= RecordSize /\ (m + n) - (m + 1) + 1 = n /\ m + 1 <= m + n
    BY <1>1, <1>2, <1>5, LoadTypes, LoadConstants
  <2>1. more \in Seq(Versions) /\ Len(more) = n /\ \A k \in 1 .. n : more[k] = content[loadFd][m + k]
    <3>1. \A i \in m + 1 .. m + n : content[loadFd][i] \in Versions
      <4>1. \A i \in m + 1 .. m + n : i \in 1 .. Len(content[loadFd])
        BY <1>2, <2>0
      <4> QED
        BY <1>2, <4>1, ElementOfSeq
    <3>2. /\ more \in Seq(Versions)
          /\ Len(more) = IF m + 1 <= m + n THEN (m + n) - (m + 1) + 1 ELSE 0
          /\ \A i \in 1 .. (m + n) - (m + 1) + 1 : more[i] = content[loadFd][m + 1 + i - 1]
      BY <2>0, <3>1, SubSeqProperties
    <3>3. \A i \in 1 .. n : m + 1 + i - 1 = m + i
      BY <2>0
    <3> QED
      BY <2>0, <3>2, <3>3
  <2> HIDE DEF more
  <2>2. data' = data \o more /\ data \in Seq(Versions)
    BY <1>5, LoadTypes DEF more
  <2>3. /\ data' \in Seq(Versions) /\ Len(data') = m + n
        /\ \A k \in 1 .. m + n : data'[k] = IF k <= m THEN data[k] ELSE more[k - m]
    BY <2>1, <2>2, ConcatProperties
  <2>4. ~loadDisturbed => LoadPrefix'
    <3> SUFFICES ASSUME ~loadDisturbed PROVE LoadPrefix'
      OBVIOUS
    <3>1. opened = Len(content[loadFd]) /\ \A k \in 1 .. m : data[k] = content[loadFd][k]
      BY <1>1, <1>2 DEF LoadRuns, LoadPrefix
    <3>2. ASSUME NEW k \in 1 .. m + n PROVE data'[k] = content[loadFd][k]
      <4>1. CASE k <= m
        BY <2>0, <2>3, <3>1, <3>2, <4>1
      <4>2. CASE ~(k <= m)
        <5>1. k - m \in 1 .. n /\ m + (k - m) = k
          BY <2>0, <3>2, <4>2
        <5> QED
          BY <2>1, <2>3, <3>2, <4>2, <5>1
      <4> QED
        BY <4>1, <4>2
    <3> QED
      BY <1>1, <1>5, <2>3, <3>1, <3>2 DEF LoadPrefix
  <2>5. Len(data') <= opened /\ Len(data') <= RecordSize
    BY <2>0, <2>3
  <2>6. LoadRuns'
    BY <1>1, <1>2, <1>5, <2>4, <2>5 DEF LoadRuns, Stored, Load!Parses, Load!Parsed
  <2> QED
    BY <1>1, <1>5, <2>3, <2>5, <2>6, LoadTypes, LoadGoesOn
<1> QED
  BY <1>1, <1>3, <1>4, <1>5 DEF Load!Read

LEMMA LoadReadExtraStep == ASSUME LoadInv, Load!ReadExtra PROVE LoadInv'
<1>1. /\ loadPc = "read" /\ Len(data) = opened
      /\ UNCHANGED <<path, content, edits, load, before, opened, data, seen, absent, loadDisturbed>>
  BY DEF Load!ReadExtra, Load!Own, Load!files, Load!history
<1>2. LoadRuns /\ loadFd \in Inodes /\ Len(content[loadFd]) \in Nat
  BY <1>1, LoadTypes DEF LoadInv, LoadRuns
<1>3. CASE loadPc' = "close" /\ UNCHANGED <<loadFd, output, loadResult>>
  <2>1. LoadPrefix' = LoadPrefix
    BY <1>1, <1>3 DEF LoadPrefix
  <2>2. LoadRuns'
    BY <1>1, <1>2, <1>3, <2>1 DEF LoadRuns, Stored, Load!Parses, Load!Parsed
  <2> QED
    BY <1>1, <1>3, <2>2, LoadTypes, LoadGoesOn
<1>4. CASE Load!Fail("CORRUPT") /\ Len(content[loadFd]) > opened
  <2>1. loadDisturbed
    BY <1>1, <1>2, <1>4, LoadTypes DEF LoadRuns, LoadPrefix
  <2> QED
    BY <1>1, <1>4, <2>1, LoadTypes, LoadFails
<1>5. CASE Load!Fail("IO_ERROR")
  BY <1>1, <1>5, LoadTypes, LoadFails
<1> QED
  BY <1>3, <1>4, <1>5 DEF Load!ReadExtra

LEMMA LoadCloseStep == ASSUME LoadInv, Load!Close PROVE LoadInv'
<1>1. /\ loadPc = "close"
      /\ UNCHANGED <<path, content, edits, load, before, opened, data, seen, absent, loadDisturbed>>
  BY DEF Load!Close, Load!Own, Load!files, Load!history
<1>2. LoadRuns /\ loadFd \in Inodes /\ content[loadFd] \in Seq(Versions)
  BY <1>1, LoadTypes DEF LoadInv, LoadRuns
<1>3. ~loadDisturbed => data = content[loadFd]
  <2> SUFFICES ASSUME ~loadDisturbed PROVE data = content[loadFd]
    OBVIOUS
  <2>1. Len(data) = Len(content[loadFd]) /\ \A k \in 1 .. Len(data) : data[k] = content[loadFd][k]
    BY <1>1, <1>2, Zenon DEF LoadRuns, LoadPrefix
  <2> QED
    BY <1>2, <2>1, LoadTypes, SeqEqual
<1>4. ~loadDisturbed => Load!Parses(data) /\ Load!Parsed(data) \in seen
  BY <1>1, <1>2, <1>3, LoadConstants DEF LoadRuns, Stored
<1>5. CASE Load!Parses(data) /\ Load!Return("OK", Load!Parsed(data))
  <2>1. /\ loadPc' = "idle" /\ loadResult' = "OK" /\ loadFd' = Load!NoInode
        /\ output' = Load!Parsed(data)
    BY <1>5 DEF Load!Return
  <2>2. Load!Parsed(data) \in Versions /\ data = Load!Whole(Load!Parsed(data))
    BY <1>5, LoadParsed, Zenon
  <2>3. Load!OkIsAVersion'
    <3>1. data' = Load!Whole(output)'
      BY <1>1, <2>1, <2>2, Zenon DEF Load!Whole
    <3> QED
      BY <1>1, <1>4, <2>1, <3>1, Zenon DEF Load!OkIsAVersion
  <2>4. Load!TypeOK'
    BY <1>1, <2>1, <2>2 DEF LoadInv, Load!TypeOK
  <2>5. Load!RaceIsNoDamage' /\ Load!MissingIsTrue' /\ Load!FailureLeavesNothing'
    BY <2>1 DEF Load!RaceIsNoDamage, Load!MissingIsTrue, Load!FailureLeavesNothing
  <2> QED
    BY <1>1, <2>1, <2>3, <2>4, <2>5, Zenon DEF LoadInv
<1>6. CASE ~Load!Parses(data) /\ Load!Fail("CORRUPT")
  BY <1>1, <1>4, <1>6, LoadTypes, LoadFails
<1>7. CASE Load!Fail("IO_ERROR")
  BY <1>1, <1>7, LoadTypes, LoadFails
<1> QED
  BY <1>5, <1>6, <1>7, Zenon DEF Load!Close

(* What others do to the file while a load runs, or none. *)
LEMMA LoadEnvironment ==
    ASSUME LoadInv, Load!Quiet, Load!Look, edits' \in 0 .. MaxEdits,
           path' \in Inodes \cup {Load!NoInode}, content' \in [Inodes -> Seq(Versions)],
           loadDisturbed' \in BOOLEAN, loadDisturbed => loadDisturbed',
           ~loadDisturbed' /\ loadFd # Load!NoInode => content'[loadFd] = content[loadFd],
           ~loadDisturbed' /\ Stored(path) /\ path' # Load!NoInode => Load!Parses(content'[path'])
    PROVE  LoadInv'
<1>1. UNCHANGED <<load, loadPc, before, loadFd, opened, data, output, loadResult>>
  BY DEF Load!Quiet
<1>2. /\ seen' = seen \cup (IF path' # Load!NoInode /\ Load!Parses(content'[path'])
                            THEN {Load!Parsed(content'[path'])} ELSE {})
      /\ absent' = (absent \/ path' = Load!NoInode)
  BY DEF Load!Look
<1>3. seen \subseteq seen' /\ seen' \subseteq Versions /\ absent' \in BOOLEAN /\ (absent => absent')
      /\ (path' = Load!NoInode => absent')
      /\ (path' # Load!NoInode /\ Load!Parses(content'[path']) => Load!Parsed(content'[path']) \in seen')
  BY <1>2, LoadTypes, LoadParsed
<1>4. Load!TypeOK'
  BY <1>1, <1>3 DEF LoadInv, Load!TypeOK
<1>5. Load!OkIsAVersion' /\ Load!RaceIsNoDamage' /\ Load!MissingIsTrue' /\ Load!FailureLeavesNothing'
  BY <1>1, <1>3, Zenon
  DEF LoadInv, Load!OkIsAVersion, Load!RaceIsNoDamage, Load!MissingIsTrue,
      Load!FailureLeavesNothing, Load!Whole
<1>6. ASSUME loadPc # "idle" PROVE LoadRuns'
  <2>1. LoadRuns
    BY <1>6 DEF LoadInv
  <2>2. ASSUME ~loadDisturbed' PROVE Stored(path)'
    <3>1. path' # Load!NoInode => Load!Parses(content'[path'])
      BY <1>3, <2>1, <2>2, Zenon DEF LoadRuns
    <3>2. path' # Load!NoInode =>
             Load!Parses(content'[path']) /\ Load!Parsed(content'[path']) \in seen'
      BY <1>3, <3>1, Zenon
    <3>3. Stored(path)' <=> (path' # Load!NoInode =>
             Load!Parses(content'[path']) /\ Load!Parsed(content'[path']) \in seen')
      BY DEF Stored, Load!Parses, Load!Parsed
    <3> QED
      BY <3>2, <3>3, Zenon
  <2>3. ASSUME ~loadDisturbed'
        PROVE  (Stored(loadFd)' /\ (LoadPrefix => LoadPrefix')) \/ loadFd = Load!NoInode
    <3>1. CASE loadFd # Load!NoInode
      <4>1. content'[loadFd] = content[loadFd]
        BY <2>3, <3>1, Zenon
      <4>2. Load!Parses(content[loadFd]) /\ Load!Parsed(content[loadFd]) \in seen'
        BY <1>3, <2>1, <2>3, <3>1, Zenon DEF LoadRuns, Stored
      <4>3. Stored(loadFd)'
        BY <1>1, <4>1, <4>2 DEF Stored, Load!Parses, Load!Parsed
      <4>4. LoadPrefix' = LoadPrefix
        BY <1>1, <4>1 DEF LoadPrefix
      <4> QED
        BY <4>3, <4>4
    <3> QED
      BY <3>1
  <2>4. Stored(Load!NoInode)'
    BY DEF Stored
  <2>5. ~loadDisturbed' => Stored(loadFd)'
    BY <1>1, <2>3 DEF Stored
  <2>6. ~loadDisturbed' /\ loadPc' \in {"read", "close"} => LoadPrefix'
    BY <1>1, <2>1, <2>3, Zenon DEF LoadRuns
  <2>7. path' = Load!NoInode => absent'
    BY <1>3
  <2> QED
    BY <1>1, <2>1, <2>2, <2>5, <2>6, <2>7, Zenon DEF LoadRuns
<1> QED
  BY <1>1, <1>4, <1>5, <1>6, LoadTypes, Zenon DEF LoadInv

LEMMA LoadMayEdit == ASSUME LoadInv, Load!MayEdit PROVE edits' \in 0 .. MaxEdits
<1>1. edits \in 0 .. MaxEdits /\ edits < MaxEdits /\ edits' = edits + 1
  BY Zenon DEF LoadInv, Load!TypeOK, Load!MayEdit
<1> QED
  BY <1>1, LoadConstants

LEMMA LoadReplaceStep == ASSUME LoadInv, Load!Replace PROVE LoadInv'
<1>1. PICK i \in Inodes \ {path, loadFd}, v \in Versions :
        path' = i /\ content' = [content EXCEPT ![i] = Load!Whole(v)]
  BY DEF Load!Replace
<1>2. Load!Whole(v) \in Seq(Versions) /\ Load!Parses(Load!Whole(v)) /\ content \in [Inodes -> Seq(Versions)]
  BY LoadWhole, LoadTypes
<1>3. content' \in [Inodes -> Seq(Versions)] /\ content'[path'] = Load!Whole(v)
      /\ (loadFd # Load!NoInode => content'[loadFd] = content[loadFd])
  BY <1>1, <1>2, LoadTypes
<1>4. Load!Look /\ Load!Quiet /\ edits' \in 0 .. MaxEdits /\ loadDisturbed' = loadDisturbed
  BY LoadMayEdit DEF Load!Replace
<1>5. Load!Parses(content'[path'])
  BY <1>2, <1>3, Zenon
<1> QED
  BY <1>1, <1>3, <1>4, <1>5, LoadTypes, LoadEnvironment

LEMMA LoadRemoveStep == ASSUME LoadInv, Load!Remove PROVE LoadInv'
<1>1. Load!Look /\ Load!Quiet /\ edits' \in 0 .. MaxEdits /\ UNCHANGED <<content, loadDisturbed>>
      /\ path' = Load!NoInode
  BY LoadMayEdit DEF Load!Remove
<1> QED
  BY <1>1, LoadTypes, LoadEnvironment

LEMMA LoadRewriteStep == ASSUME LoadInv, Load!Rewrite PROVE LoadInv'
<1>1. Load!Look /\ Load!Quiet /\ edits' \in 0 .. MaxEdits /\ loadDisturbed' = TRUE
      /\ path' = path /\ path \in Inodes /\ content[path] # << >>
  BY LoadMayEdit, LoadTypes DEF Load!Rewrite
<1> DEFINE old == content[path]
           cut == SubSeq(old, 1, Len(old) - 1)
<1>2. old \in Seq(Versions) /\ Len(old) \in Nat
  BY <1>1, LoadTypes
<1>3. cut \in Seq(Versions)
  <2>1. \A i \in 1 .. Len(old) - 1 : old[i] \in Versions
    <3>1. \A i \in 1 .. Len(old) - 1 : i \in 1 .. Len(old)
      BY <1>2
    <3> QED
      BY <1>2, <3>1, ElementOfSeq
  <2>2. 1 \in Int /\ Len(old) - 1 \in Int
    BY <1>2
  <2> QED
    BY <2>1, <2>2, SubSeqProperties
<1>4. PICK c \in {cut} \cup {Append(old, v) : v \in Versions} \cup {Append(cut, v) : v \in Versions} :
        content' = [content EXCEPT ![path] = c]
  BY DEF Load!Rewrite
<1>5. c \in Seq(Versions)
  <2>1. ASSUME NEW v \in Versions PROVE Append(old, v) \in Seq(Versions)
    BY <1>2, AppendProperties, Zenon
  <2>2. ASSUME NEW v \in Versions PROVE Append(cut, v) \in Seq(Versions)
    BY <1>3, AppendProperties, Zenon
  <2> QED
    BY <1>3, <1>4, <2>1, <2>2, Zenon
<1>6. content' \in [Inodes -> Seq(Versions)]
  BY <1>1, <1>4, <1>5, LoadTypes
<1> QED
  BY <1>1, <1>6, LoadTypes, LoadEnvironment

LEMMA LoadStep == ASSUME LoadInv, Load!Next PROVE LoadInv'
BY LoadReplaceStep, LoadRemoveStep, LoadRewriteStep, LoadBeginStep, LoadLstatStep, LoadOpenStep,
   LoadFstatStep, LoadReadStep, LoadReadExtraStep, LoadCloseStep
DEF Load!Next

LEMMA LoadIdle == ASSUME LoadInv, UNCHANGED loadVars PROVE LoadInv'
<1>1. Load!TypeOK' /\ Load!OkIsAVersion' /\ Load!RaceIsNoDamage' /\ Load!MissingIsTrue'
      /\ Load!FailureLeavesNothing'
  BY DEF loadVars, LoadInv, Load!TypeOK, Load!OkIsAVersion, Load!RaceIsNoDamage,
         Load!MissingIsTrue, Load!FailureLeavesNothing, Load!Whole
<1>2. LoadPrefix' = LoadPrefix /\ (Stored(path)' <=> Stored(path)) /\ (Stored(loadFd)' <=> Stored(loadFd))
  BY DEF loadVars, LoadPrefix, Stored, Load!Parses, Load!Parsed
<1>3. LoadRuns' <=> LoadRuns
  BY <1>2 DEF loadVars, LoadRuns
<1> QED
  BY <1>1, <1>3 DEF loadVars, LoadInv

-----------------------------------------------------------------------------
(* Where the storage is.                                                    *)

Rows == [point : Seq(STRING), dev : Devices, rw : BOOLEAN, plain : BOOLEAN]

LEMMA Least ==
    ASSUME NEW S \in SUBSET Nat, S # {}
    PROVE  \E x \in S : \A y \in S : x <= y
<1>1. \E x \in S : \A y \in S : ~(<<y, x>> \in OpToRel(<, Nat))
  BY NatLessThanWellFounded, WFMin, Zenon
<1>2. PICK x \in S : \A y \in S : ~(<<y, x>> \in OpToRel(<, Nat))
  BY <1>1
<1>3. ASSUME NEW y \in S PROVE x <= y
  <2>1. <<y, x>> \in Nat \X Nat
    OBVIOUS
  <2>2. ~(y < x)
    BY <1>2, <2>1 DEF OpToRel
  <2> QED
    BY <2>2
<1> QED
  BY <1>3

LEMMA VerifyMax ==
    ASSUME NEW n \in Nat, NEW S \in SUBSET (1 .. n), S # {}
    PROVE  /\ Verify!Max(S) \in S
           /\ \A y \in S : y <= Verify!Max(S)
<1> DEFINE T == {x \in 0 .. n : n - x \in S}
<1>1. T \in SUBSET Nat /\ T # {}
  <2>1. PICK y \in S : TRUE
    OBVIOUS
  <2>2. n - y \in 0 .. n /\ n - (n - y) \in S
    <3>1. y \in 1 .. n
      BY <2>1
    <3>2. n - y \in 0 .. n /\ n - (n - y) = y
      BY <3>1
    <3> QED
      BY <2>1, <3>2
  <2>3. n - y \in T
    BY <2>2
  <2>4. T \subseteq Nat
    BY SMT
  <2> HIDE DEF T
  <2> QED
    BY <2>3, <2>4
<1>2. PICK x \in T : \A y \in T : x <= y
  BY <1>1, Least
<1>3. n - x \in S /\ \A y \in S : n - x >= y
  <2>1. ASSUME NEW y \in S PROVE n - x >= y
    <3>1. n - y \in 0 .. n /\ n - (n - y) = y
      OBVIOUS
    <3>2. x <= n - y
      BY <1>2, <3>1
    <3> QED
      BY <3>2
  <2> QED
    BY <2>1
<1>4. Verify!Max(S) \in S /\ \A y \in S : Verify!Max(S) >= y
  BY <1>3, Zenon DEF Verify!Max
<1> QED
  BY <1>4

(* One path is above another. *)
LEMMA PrefixIs ==
    ASSUME NEW s \in Seq(STRING), NEW t \in Seq(STRING)
    PROVE  Verify!IsPrefix(s, t) <=>
              Len(s) <= Len(t) /\ \A i \in 1 .. Len(s) : s[i] = t[i]
<1>1. Len(s) \in Nat /\ Len(t) \in Nat
  BY LenProperties
<1>2. CASE Len(s) <= Len(t)
  <2>1. \A i \in 1 .. Len(s) : s[i] \in STRING /\ t[i] \in STRING
    BY <1>1, <1>2, ElementOfSeq
  <2>2. /\ SubSeq(s, 1, Len(s)) \in Seq(STRING) /\ SubSeq(t, 1, Len(s)) \in Seq(STRING)
        /\ Len(SubSeq(s, 1, Len(s))) = IF 1 <= Len(s) THEN Len(s) - 1 + 1 ELSE 0
        /\ Len(SubSeq(t, 1, Len(s))) = IF 1 <= Len(s) THEN Len(s) - 1 + 1 ELSE 0
        /\ \A i \in 1 .. Len(s) - 1 + 1 :
              SubSeq(s, 1, Len(s))[i] = s[1 + i - 1] /\ SubSeq(t, 1, Len(s))[i] = t[1 + i - 1]
    BY <1>1, <2>1, SubSeqProperties
  <2>3. \A i \in 1 .. Len(s) :
           SubSeq(s, 1, Len(s))[i] = s[i] /\ SubSeq(t, 1, Len(s))[i] = t[i]
    BY <1>1, <2>2
  <2>4. Len(SubSeq(s, 1, Len(s))) = Len(s) /\ Len(SubSeq(t, 1, Len(s))) = Len(s)
    BY <1>1, <2>2
  <2>5. SubSeq(s, 1, Len(s)) = SubSeq(t, 1, Len(s)) <=> \A i \in 1 .. Len(s) : s[i] = t[i]
    <3>1. ASSUME SubSeq(s, 1, Len(s)) = SubSeq(t, 1, Len(s)), NEW i \in 1 .. Len(s)
          PROVE  s[i] = t[i]
      BY <2>3, <3>1
    <3>2. ASSUME \A i \in 1 .. Len(s) : s[i] = t[i]
          PROVE  SubSeq(s, 1, Len(s)) = SubSeq(t, 1, Len(s))
      BY <2>2, <2>3, <2>4, <3>2, SeqEqual
    <3> QED
      BY <3>1, <3>2
  <2> QED
    BY <1>2, <2>5 DEF Verify!IsPrefix
<1>3. CASE ~(Len(s) <= Len(t))
  BY <1>3 DEF Verify!IsPrefix
<1> QED
  BY <1>2, <1>3

LEMMA PrefixOrder ==
    ASSUME NEW a \in Seq(STRING), NEW b \in Seq(STRING), NEW c \in Seq(STRING)
    PROVE  /\ Verify!IsPrefix(a, a)
           /\ Verify!IsPrefix(<<>>, a)
           /\ Verify!IsPrefix(a, b) /\ Verify!IsPrefix(b, c) => Verify!IsPrefix(a, c)
           /\ Verify!IsPrefix(a, c) /\ Verify!IsPrefix(b, c) /\ Len(a) <= Len(b)
                 => Verify!IsPrefix(a, b)
           /\ Verify!IsPrefix(a, b) /\ Len(a) = Len(b) => a = b
<1>1. Len(a) \in Nat /\ Len(b) \in Nat /\ Len(c) \in Nat
      /\ <<>> \in Seq(STRING) /\ Len(<<>>) = 0
  BY LenProperties, EmptySeq
<1>2. Verify!IsPrefix(a, a) /\ Verify!IsPrefix(<<>>, a)
  <2>1. ASSUME NEW e \in Seq(STRING), Len(e) = 0 PROVE Verify!IsPrefix(e, a)
    <3>1. Len(a) \in Nat /\ Len(e) <= Len(a)
      BY <2>1, LenProperties
    <3>2. \A i \in 1 .. Len(e) : e[i] = a[i]
      BY <2>1
    <3> QED
      BY <3>1, <3>2, PrefixIs
  <2>2. Verify!IsPrefix(<<>>, a)
    BY <1>1, <2>1, Zenon
  <2>3. Verify!IsPrefix(a, a)
    BY <1>1, PrefixIs
  <2> QED
    BY <2>2, <2>3
<1>3. ASSUME Verify!IsPrefix(a, b), Verify!IsPrefix(b, c) PROVE Verify!IsPrefix(a, c)
  <2>1. Len(a) <= Len(b) /\ (\A i \in 1 .. Len(a) : a[i] = b[i])
        /\ Len(b) <= Len(c) /\ (\A i \in 1 .. Len(b) : b[i] = c[i])
    BY <1>3, PrefixIs
  <2>2. Len(a) <= Len(c) /\ \A i \in 1 .. Len(a) : a[i] = c[i]
    BY <1>1, <2>1
  <2> QED
    BY <2>2, PrefixIs
<1>4. ASSUME Verify!IsPrefix(a, c), Verify!IsPrefix(b, c), Len(a) <= Len(b)
      PROVE  Verify!IsPrefix(a, b)
  <2>1. (\A i \in 1 .. Len(a) : a[i] = c[i]) /\ (\A i \in 1 .. Len(b) : b[i] = c[i])
    BY <1>4, PrefixIs
  <2>2. \A i \in 1 .. Len(a) : a[i] = b[i]
    BY <1>1, <1>4, <2>1
  <2> QED
    BY <1>4, <2>2, PrefixIs
<1>5. ASSUME Verify!IsPrefix(a, b), Len(a) = Len(b) PROVE a = b
  BY <1>5, PrefixIs, SeqEqual
<1> QED
  BY <1>2, <1>3, <1>4, <1>5

(* What a path leads to is a mount, the last of those above it. *)
LEMMA VerifyTop ==
    ASSUME mounts \in Seq(Rows), Len(mounts) >= 1, mounts[1].point = <<>>,
           NEW path_ \in Seq(STRING)
    PROVE  /\ Verify!Top(path_) \in 1 .. Len(mounts)
           /\ Verify!IsPrefix(mounts[Verify!Top(path_)].point, path_)
           /\ \A j \in 1 .. Len(mounts) :
                 Verify!IsPrefix(mounts[j].point, path_) => j <= Verify!Top(path_)
           /\ Verify!MountAt(path_) \in Rows
<1>1. Len(mounts) \in Nat /\ DOMAIN mounts = 1 .. Len(mounts)
  BY LenProperties
<1> DEFINE S == {k \in DOMAIN mounts : Verify!IsPrefix(mounts[k].point, path_)}
<1>2. 1 \in S
  BY <1>1, PrefixOrder
<1>3. S \in SUBSET (1 .. Len(mounts)) /\ S # {}
  BY <1>1, <1>2
<1>4. Verify!Max(S) \in S /\ \A y \in S : y <= Verify!Max(S)
  BY <1>1, <1>3, VerifyMax, Zenon
<1>5. Verify!Top(path_) = Verify!Max(S)
  BY DEF Verify!Top
<1> HIDE DEF S
<1>6. /\ Verify!Top(path_) \in S
      /\ \A y \in S : y <= Verify!Top(path_)
  BY <1>4, <1>5
<1>7. Verify!Top(path_) \in 1 .. Len(mounts)
  BY <1>1, <1>6 DEF S
<1> QED
  BY <1>1, <1>6, <1>7, ElementOfSeq DEF S, Verify!MountAt

(* The paths that are looked at. *)
Paths == Verify!Range(Verify!Components(candidate.root)) \cup {candidate.point}

LEMMA ComponentsAre ==
    ASSUME NEW p \in Seq(STRING)
    PROVE  /\ Verify!Components(p) \in Seq(Seq(STRING))
           /\ Len(Verify!Components(p)) >= 1
           /\ Verify!Components(p)[Len(Verify!Components(p))] = p
           /\ p # <<>> =>
                 /\ Len(Verify!Components(p)) = Len(p)
                 /\ \A i \in 1 .. Len(p) : Verify!Components(p)[i] = SubSeq(p, 1, i)
<1>1. CASE p = <<>>
  <2>1. Verify!Components(p) = <<p>>
    BY <1>1 DEF Verify!Components
  <2>2. <<p>> \in Seq(Seq(STRING)) /\ Len(<<p>>) = 1 /\ <<p>>[1] = p
    OBVIOUS
  <2>3. 1 >= 1
    OBVIOUS
  <2> QED
    BY <1>1, <2>1, <2>2, <2>3, Zenon
<1>2. CASE p # <<>>
  <2>1. Verify!Components(p) = [n \in 1 .. Len(p) |-> SubSeq(p, 1, n)]
    BY <1>2 DEF Verify!Components
  <2>2. Len(p) \in Nat \ {0}
    BY <1>2, EmptySeq
  <2>3. \A n \in 1 .. Len(p) : SubSeq(p, 1, n) \in Seq(STRING)
    <3> TAKE n \in 1 .. Len(p)
    <3>1. \A i \in 1 .. n : p[i] \in STRING
      BY <2>2, ElementOfSeq
    <3> QED
      BY <2>2, <3>1, SubSeqProperties
  <2>4. Verify!Components(p) \in Seq(Seq(STRING)) /\ Len(Verify!Components(p)) = Len(p)
    BY <2>1, <2>2, <2>3
  <2>5. \A i \in 1 .. Len(p) : Verify!Components(p)[i] = SubSeq(p, 1, i)
    BY <2>1
  <2>6. SubSeq(p, 1, Len(p)) = p
    BY <2>2, SubSeqFull
  <2>7. Verify!Components(p)[Len(p)] = p
    BY <2>2, <2>5, <2>6
  <2> QED
    BY <2>2, <2>4, <2>5, <2>7
<1> QED
  BY <1>1, <1>2

(* Of the mounts above the root that were read, the longest and those that   *)
(* are as long.                                                             *)
Above(k) == Verify!IsPrefix(table[k].point, candidate.root)

VerifyChosen ==
    IF chosen = Verify!None THEN \A k \in 1 .. row - 1 : ~Above(k)
    ELSE /\ \E k \in 1 .. row - 1 : Above(k) /\ chosen = table[k]
         /\ \A k \in 1 .. row - 1 : Above(k) => Len(table[k].point) <= Len(chosen.point)
         /\ duplicates > 0 => \E j, k \in 1 .. row - 1 :
                                 /\ j # k /\ Above(j) /\ Above(k)
                                 /\ Len(table[j].point) = Len(chosen.point)
                                 /\ Len(table[k].point) = Len(chosen.point)

(* The mount that was accepted, and what is still looked at below it. *)
VerifyAccepted ==
    /\ chosen.point = candidate.point /\ chosen.dev = Expected
    /\ chosen.rw = TRUE /\ chosen.plain = TRUE
    /\ \E k \in 1 .. Len(table) : chosen = table[k]

VerifyRoot == Verify!Lstat(candidate.root) = [kind |-> "dir", dev |-> Expected]

(* Before the walk down to the root, the one that ends at the mount point.   *)
PointBefore ==
    LET n == Len(Verify!Components(candidate.root))
    IN  Len(looked) > n => looked[Len(looked) - n] = candidate.point

VerifyInv ==
    /\ Verify!TypeOK
    /\ mounts \in Seq(Rows) /\ mounts[1].point = <<>>
    /\ table \in Seq(Rows) /\ Len(table) <= MaxMounts
    /\ looked \in Seq(Seq(STRING)) /\ duplicates < row
    /\ verifyPc = "begin" =>
          /\ table = <<>> /\ row = 1 /\ chosen = Verify!None /\ duplicates = 0
          /\ looked = <<>>
    /\ verifyPc \in {"select", "look"} =>
          /\ Verify!IsPrefix(candidate.point, candidate.root)
          /\ quiet => table = mounts
    /\ verifyPc = "select" => VerifyChosen
    /\ verifyPc = "look" =>
          /\ VerifyAccepted
          /\ looked # <<>> => looked[Len(looked)] = candidate.root
          /\ looked = <<>> /\ quiet => VerifyRoot
          /\ \A i \in 1 .. Len(looked) : looked[i] \in Paths
          /\ PointBefore
    /\ Verify!OkIsTheCard /\ Verify!CardIsTaken

LEMMA VerifyConstants ==
    /\ Expected \in Devices /\ "none" \notin Devices
    /\ Candidates \subseteq [root : Seq(STRING), point : Seq(STRING)]
    /\ MaxMounts \in Nat /\ MaxMountChanges \in Nat
    /\ \A b \in Booted : b \in Seq(Rows) /\ Len(b) \in 1 .. MaxMounts /\ b[1].point = <<>>
BY VerifyAssumption
DEF VerifyAssumption, Verify!DevicesAssumption, Verify!CandidatesAssumption,
    Verify!BootedAssumption, Rows

LEMMA VerifyInitially == ASSUME Verify!Init PROVE VerifyInv
<1>1. mounts \in Seq(Rows) /\ Len(mounts) \in 1 .. MaxMounts /\ mounts[1].point = <<>>
  BY VerifyConstants DEF Verify!Init
<1>2. /\ <<>> \in Seq(Rows) /\ <<>> \in Seq(Seq(STRING)) /\ Len(<<>>) = 0
  BY EmptySeq
<1>3. Verify!TypeOK
  BY <1>1, <1>2, VerifyConstants DEF Verify!Init, Verify!TypeOK
<1>4. Verify!OkIsTheCard /\ Verify!CardIsTaken
  BY DEF Verify!Init, Verify!OkIsTheCard, Verify!CardIsTaken
<1> QED
  BY <1>1, <1>2, <1>3, <1>4, VerifyConstants DEF Verify!Init, VerifyInv

(* The card is mounted as CardIsTaken wants it. *)
CardThere(k) ==
    /\ quiet
    /\ mounts[k].point = candidate.point /\ Verify!Top(candidate.point) = k
    /\ mounts[k].dev = Expected /\ mounts[k].rw /\ mounts[k].plain
    /\ \A j \in DOMAIN mounts :
          Verify!IsPrefix(candidate.point, mounts[j].point) => j = k
    /\ \A p \in Paths : Verify!Lstat(p).kind = "dir"

(* The call returns r, having looked at nothing more. *)
LEMMA VerifyReturns ==
    ASSUME VerifyInv, verifyPc \in {"begin", "select", "look"},
           UNCHANGED <<mounts, changes, quiet>>, NEW r, Verify!Return(r),
           r = "OK" => verifyPc = "look" /\ looked = <<>>,
           r \in {"OK", "IO_ERROR", "WRONG_DEVICE"}
           \/ verifyPc = "begin"
           \/ \A k \in DOMAIN mounts : ~CardThere(k)
    PROVE  VerifyInv'
<1>1. /\ verifyPc' = "done" /\ verifyResult' = r
      /\ UNCHANGED <<candidate, table, row, chosen, duplicates, looked>>
  BY DEF Verify!Return
<1>2. DOMAIN mounts = 1 .. Len(mounts)
  BY LenProperties DEF VerifyInv
<1>3. Verify!TypeOK'
  BY <1>1 DEF VerifyInv, Verify!TypeOK
<1>4. Verify!OkIsTheCard'
  <2> SUFFICES ASSUME r = "OK", quiet,
                      \A j, k \in DOMAIN mounts :
                         mounts[j].dev = Expected /\ mounts[k].dev = Expected => j = k
               PROVE  /\ VerifyRoot
                      /\ Verify!MountAt(candidate.root).rw
                      /\ Verify!MountAt(candidate.root).plain
    BY <1>1 DEF Verify!OkIsTheCard, VerifyRoot, Verify!Lstat, Verify!MountAt, Verify!Top
  <2>1. VerifyRoot /\ VerifyAccepted /\ table = mounts
    BY DEF VerifyInv
  <2>2. candidate.root \in Seq(STRING) /\ Len(mounts) >= 1
    BY VerifyConstants DEF VerifyInv, Verify!TypeOK
  <2>3. Verify!Top(candidate.root) \in DOMAIN mounts
    BY <1>2, <2>2, VerifyTop DEF VerifyInv
  <2>4. mounts[Verify!Top(candidate.root)].dev = Expected
    BY <2>1 DEF VerifyRoot, Verify!Lstat, Verify!MountAt
  <2>5. PICK k \in DOMAIN mounts : chosen = mounts[k]
    BY <1>2, <2>1 DEF VerifyAccepted
  <2>6. k = Verify!Top(candidate.root)
    BY <2>1, <2>3, <2>4, <2>5 DEF VerifyAccepted
  <2> QED
    BY <2>1, <2>5, <2>6 DEF VerifyAccepted, Verify!MountAt
<1>5. Verify!CardIsTaken'
  <2> SUFFICES ASSUME quiet, table # <<>>, r \notin {"OK", "IO_ERROR", "WRONG_DEVICE"},
                      NEW k \in DOMAIN mounts,
                      mounts[k].point = candidate.point, Verify!Top(candidate.point) = k,
                      mounts[k].dev = Expected, mounts[k].rw, mounts[k].plain,
                      \A j \in DOMAIN mounts :
                         Verify!IsPrefix(candidate.point, mounts[j].point) => j = k,
                      \A p \in Paths : Verify!Lstat(p).kind = "dir"
               PROVE  FALSE
    <3>1. /\ Verify!Top(candidate.point)' = Verify!Top(candidate.point)
          /\ Paths' = Paths
          /\ \A p : Verify!Lstat(p)' = Verify!Lstat(p)
      BY <1>1 DEF Verify!Top, Paths, Verify!Components, Verify!Range, Verify!Lstat,
                  Verify!MountAt
    <3> QED
      BY <1>1, <3>1 DEF Verify!CardIsTaken, Paths
  <2>1. verifyPc # "begin"
    BY DEF VerifyInv
  <2>2. CardThere(k)
    BY Zenon DEF CardThere
  <2> QED
    BY <2>1, <2>2, Zenon
<1> QED
  BY <1>1, <1>3, <1>4, <1>5 DEF VerifyInv

LEMMA VerifyBeginStep == ASSUME VerifyInv, Verify!Begin PROVE VerifyInv'
<1>1. CASE ~Verify!IsPrefix(candidate.point, candidate.root)
  BY <1>1, VerifyReturns DEF Verify!Begin, Verify!World
<1>2. CASE Verify!Return("IO_ERROR") \/ Verify!Return("MALFORMED_MOUNTS")
  BY <1>2, VerifyReturns DEF Verify!Begin, Verify!World
<1>3. CASE /\ Verify!IsPrefix(candidate.point, candidate.root)
           /\ verifyPc' = "select" /\ table' = mounts
           /\ UNCHANGED <<candidate, verifyResult, row, chosen, duplicates, looked>>
  <2>1. /\ verifyPc = "begin" /\ UNCHANGED <<mounts, changes, quiet>>
        /\ row = 1 /\ chosen = Verify!None /\ duplicates = 0 /\ looked = <<>>
    BY <1>3 DEF Verify!Begin, Verify!World, VerifyInv
  <2>2. Len(mounts) \in 1 .. MaxMounts
    BY DEF VerifyInv, Verify!TypeOK
  <2>3. Verify!TypeOK'
    BY <1>3, <2>1, <2>2 DEF VerifyInv, Verify!TypeOK
  <2>4. VerifyChosen'
    BY <1>3, <2>1 DEF VerifyChosen, Verify!None
  <2>5. Verify!OkIsTheCard' /\ Verify!CardIsTaken'
    BY <1>3 DEF Verify!OkIsTheCard, Verify!CardIsTaken
  <2> QED
    BY <1>3, <2>1, <2>2, <2>3, <2>4, <2>5, VerifyConstants DEF VerifyInv
<1> QED
  BY <1>1, <1>2, <1>3 DEF Verify!Begin

LEMMA VerifyReadStep == ASSUME VerifyInv, Verify!ReadRow PROVE VerifyInv'
<1>1. /\ verifyPc = "select" /\ row <= Len(table) /\ row' = row + 1
      /\ UNCHANGED <<mounts, changes, quiet, candidate, verifyPc, verifyResult, table, looked>>
  BY DEF Verify!ReadRow, Verify!World
<1>2. /\ row \in 1 .. Len(table) /\ Len(table) \in Nat /\ Len(table) <= MaxMounts
      /\ duplicates \in Nat /\ duplicates < row /\ VerifyChosen /\ table \in Seq(Rows)
      /\ MaxMounts \in Nat
  BY <1>1, LenProperties, VerifyConstants DEF VerifyInv, Verify!TypeOK
<1>3. \A k : Above(k)' <=> Above(k)
  BY <1>1 DEF Above
<1>4. \A k \in 1 .. row : /\ table[k] \in Rows /\ table[k].point \in Seq(STRING)
                          /\ Len(table[k].point) \in Nat /\ table[k] # Verify!None
  <2> TAKE k \in 1 .. row
  <2>1. table[k] \in Rows
    BY <1>2, ElementOfSeq
  <2> QED
    BY <2>1, LenProperties, VerifyConstants DEF Rows, Verify!None
<1>5. VerifyChosen' /\ duplicates' \in 0 .. row
  <2>1. CASE ~Above(row)
    <3>1. UNCHANGED <<chosen, duplicates>>
      BY <2>1 DEF Verify!ReadRow, Above
    <3>2. \A k \in 1 .. row' - 1 : Above(k)' => k \in 1 .. row - 1
      BY <1>1, <1>2, <1>3, <2>1
    <3>3. 1 .. row - 1 \subseteq 1 .. row' - 1
      BY <1>1, <1>2
    <3> QED
      BY <1>1, <1>2, <1>3, <3>1, <3>2, <3>3 DEF VerifyChosen
  <2>2. CASE Above(row) /\ (chosen = Verify!None \/ Len(table[row].point) > Len(chosen.point))
    <3>1. chosen' = table[row] /\ duplicates' = 0
      BY <2>2 DEF Verify!ReadRow, Verify!Select, Above
    <3>2. \A k \in 1 .. row' - 1 : Above(k)' =>
             Len(table[k].point) <= Len(table[row].point)
      <4> SUFFICES ASSUME NEW k \in 1 .. row, Above(k), k # row
                   PROVE  Len(table[k].point) <= Len(table[row].point)
        BY <1>1, <1>2, <1>3, <1>4
      <4>1. k \in 1 .. row - 1
        BY <1>2
      <4>2. chosen # Verify!None /\ Len(table[k].point) <= Len(chosen.point)
            /\ \E j \in 1 .. row - 1 : chosen = table[j]
        BY <1>2, <4>1 DEF VerifyChosen
      <4>3. Len(chosen.point) \in Nat
        BY <1>2, <1>4, <4>2
      <4>4. Len(table[k].point) \in Nat /\ Len(table[row].point) \in Nat
        BY <1>2, <1>4
      <4>5. Len(table[row].point) > Len(chosen.point)
        BY <2>2, <4>2, Zenon
      <4> QED
        BY <4>2, <4>3, <4>4, <4>5, SMT
    <3>3. row \in 1 .. row' - 1 /\ chosen' # Verify!None' /\ 0 \in 0 .. row
      BY <1>1, <1>2, <1>4, <3>1 DEF Verify!None
    <3> QED
      BY <1>1, <1>3, <2>2, <3>1, <3>2, <3>3 DEF VerifyChosen
  <2>3. CASE /\ Above(row) /\ chosen # Verify!None
             /\ ~(Len(table[row].point) > Len(chosen.point))
    <3>1. PICK l \in 1 .. row - 1 : Above(l) /\ chosen = table[l]
      BY <1>2, <2>3 DEF VerifyChosen
    <3>2. Len(chosen.point) \in Nat /\ l \in 1 .. row' - 1 /\ row \in 1 .. row' - 1 /\ l # row
      BY <1>1, <1>2, <1>4, <3>1
    <3>3. chosen' = chosen
      BY <2>3 DEF Verify!ReadRow, Verify!Select
    <3>4. \A k \in 1 .. row' - 1 : Above(k)' => Len(table[k].point) <= Len(chosen.point)
      <4> SUFFICES ASSUME NEW k \in 1 .. row, Above(k), k # row
                   PROVE  Len(table[k].point) <= Len(chosen.point)
        BY <1>1, <1>2, <1>3, <1>4, <2>3, <3>2
      <4>1. k \in 1 .. row - 1
        BY <1>2
      <4> QED
        BY <1>2, <2>3, <4>1 DEF VerifyChosen
    <3>5. duplicates' > 0 => \E j, k \in 1 .. row' - 1 :
                                 /\ j # k /\ Above(j) /\ Above(k)
                                 /\ Len(table[j].point) = Len(chosen.point)
                                 /\ Len(table[k].point) = Len(chosen.point)
      <4>1. CASE Len(table[row].point) = Len(chosen.point)
        BY <2>3, <3>1, <3>2, <4>1
      <4>2. CASE Len(table[row].point) # Len(chosen.point)
        <5>1. duplicates' = duplicates
          BY <2>3, <4>2 DEF Verify!ReadRow, Verify!Select
        <5>2. 1 .. row - 1 \subseteq 1 .. row' - 1
          BY <1>1, <1>2
        <5> QED
          BY <1>2, <2>3, <5>1, <5>2 DEF VerifyChosen
      <4> QED
        BY <4>1, <4>2
    <3>6. duplicates' \in 0 .. row
      <4>1. duplicates' = duplicates + 1 \/ duplicates' = duplicates
        BY <2>3 DEF Verify!ReadRow, Verify!Select
      <4> QED
        BY <1>2, <4>1
    <3>7. Verify!None' = Verify!None
      BY DEF Verify!None
    <3> QED
      BY <1>1, <1>3, <2>3, <3>1, <3>2, <3>3, <3>4, <3>5, <3>6, <3>7 DEF VerifyChosen
  <2> QED
    BY <2>1, <2>2, <2>3
<1>6. Verify!TypeOK' /\ duplicates' < row'
  <2>1. row' \in 1 .. Len(table) + 1 /\ duplicates' \in 0 .. MaxMounts /\ duplicates' < row'
    BY <1>1, <1>2, <1>5
  <2> QED
    BY <1>1, <2>1 DEF VerifyInv, Verify!TypeOK
<1>7. Verify!OkIsTheCard' /\ Verify!CardIsTaken'
  BY <1>1 DEF Verify!OkIsTheCard, Verify!CardIsTaken
<1> QED
  BY <1>1, <1>5, <1>6, <1>7 DEF VerifyInv

(* A card that is there is the longest mount above the root, and the only    *)
(* one that is as long.                                                     *)
LEMMA VerifyCard ==
    ASSUME VerifyInv, verifyPc = "select", row = Len(table) + 1,
           NEW k \in DOMAIN mounts, CardThere(k)
    PROVE  chosen = mounts[k] /\ duplicates = 0
<1>1. /\ table = mounts /\ Verify!IsPrefix(candidate.point, candidate.root)
      /\ Len(mounts) \in Nat /\ DOMAIN mounts = 1 .. Len(mounts) /\ VerifyChosen
      /\ duplicates \in Nat
  BY LenProperties DEF VerifyInv, CardThere, Verify!TypeOK
<1>2. row - 1 = Len(mounts)
  BY <1>1
<1>3. candidate.root \in Seq(STRING) /\ candidate.point \in Seq(STRING)
      /\ mounts[k].point = candidate.point
  BY VerifyConstants DEF VerifyInv, Verify!TypeOK, CardThere
<1>4. \A j \in 1 .. Len(mounts) : mounts[j].point \in Seq(STRING) /\ mounts[j] # Verify!None
  <2> TAKE j \in 1 .. Len(mounts)
  <2>1. mounts[j] \in Rows
    BY ElementOfSeq DEF VerifyInv
  <2> QED
    BY <2>1, VerifyConstants DEF Rows, Verify!None
<1>5. ASSUME NEW j \in 1 .. Len(mounts), Above(j), j # k
      PROVE  Len(mounts[j].point) < Len(candidate.point)
  <2>1. ~Verify!IsPrefix(candidate.point, mounts[j].point)
    BY <1>1, <1>5 DEF CardThere
  <2>2. Verify!IsPrefix(mounts[j].point, candidate.root)
    BY <1>1, <1>5 DEF Above
  <2>3. Len(mounts[j].point) \in Nat /\ Len(candidate.point) \in Nat
    BY <1>3, <1>4, LenProperties
  <2>4. ~(Len(candidate.point) <= Len(mounts[j].point))
    BY <1>1, <1>3, <1>4, <2>1, <2>2, PrefixOrder
  <2> QED
    BY <2>3, <2>4
<1>6. k \in 1 .. row - 1 /\ Above(k)
  BY <1>1, <1>2, <1>3 DEF Above
<1>7. chosen # Verify!None
  BY <1>6 DEF VerifyChosen, VerifyInv
<1>8. PICK l \in 1 .. row - 1 : Above(l) /\ chosen = mounts[l]
  BY <1>1, <1>7 DEF VerifyChosen
<1>9. Len(candidate.point) <= Len(chosen.point) /\ Len(candidate.point) \in Nat
  BY <1>1, <1>3, <1>6, <1>7, LenProperties DEF VerifyChosen
<1>10. l = k
  <2> SUFFICES ASSUME l # k PROVE FALSE
    OBVIOUS
  <2>1. Len(chosen.point) < Len(candidate.point)
    BY <1>2, <1>5, <1>8
  <2>2. Len(chosen.point) \in Nat
    BY <1>2, <1>4, <1>8, LenProperties
  <2> QED
    BY <1>9, <2>1, <2>2
<1>11. ~(duplicates > 0)
  <2> SUFFICES ASSUME duplicates > 0 PROVE FALSE
    OBVIOUS
  <2>1. PICK i, j \in 1 .. row - 1 :
          /\ i # j /\ Above(i) /\ Above(j)
          /\ Len(mounts[i].point) = Len(chosen.point)
          /\ Len(mounts[j].point) = Len(chosen.point)
    BY <1>1, <1>7 DEF VerifyChosen
  <2>2. Len(chosen.point) = Len(candidate.point)
    BY <1>3, <1>8, <1>10
  <2>3. \E m \in {i, j} : m # k /\ Above(m) /\ m \in 1 .. Len(mounts)
                          /\ Len(mounts[m].point) = Len(candidate.point)
    BY <1>2, <2>1, <2>2
  <2> QED
    BY <1>5, <1>9, <2>3
<1> QED
  BY <1>1, <1>8, <1>10, <1>11

LEMMA VerifyJudgeStep == ASSUME VerifyInv, Verify!Judge PROVE VerifyInv'
<1>1. /\ verifyPc = "select" /\ row > Len(table)
      /\ UNCHANGED <<mounts, changes, quiet>>
  BY DEF Verify!Judge, Verify!World
<1>2. row = Len(table) + 1 /\ Len(table) \in Nat /\ duplicates \in Nat /\ MaxMounts \in Nat
      /\ candidate \in Candidates
  BY <1>1, LenProperties, VerifyConstants DEF VerifyInv, Verify!TypeOK
<1>3. ASSUME NEW r, Verify!Return(r), r # "OK",
             \A k \in DOMAIN mounts : ~CardThere(k)
      PROVE  VerifyInv'
  BY <1>1, <1>3, VerifyReturns
<1>4. \A k \in DOMAIN mounts : CardThere(k) =>
         /\ chosen = mounts[k] /\ duplicates = 0 /\ chosen.point = candidate.point
         /\ chosen.plain /\ chosen.rw /\ chosen.dev = Expected /\ chosen # Verify!None
  <2> TAKE k \in DOMAIN mounts
  <2> HAVE CardThere(k)
  <2>1. chosen = mounts[k] /\ duplicates = 0
    BY <1>1, <1>2, VerifyCard
  <2>2. "none" # Expected
    BY VerifyConstants
  <2> QED
    BY <2>1, <2>2 DEF CardThere, Verify!None
<1>5. CASE \/ chosen = Verify!None \/ duplicates > 0 \/ chosen.point # candidate.point
           \/ ~chosen.plain \/ ~chosen.rw \/ chosen.dev # Expected
  <2>1. \A k \in DOMAIN mounts : ~CardThere(k)
    <3>1. duplicates > 0 => duplicates # 0
      BY <1>2
    <3> QED
      BY <1>4, <1>5, <3>1, Zenon
  <2>2. \E r : Verify!Return(r) /\ r # "OK"
    BY <1>5 DEF Verify!Judge
  <2> QED
    BY <1>3, <2>1, <2>2
<1>6. CASE ~(\/ chosen = Verify!None \/ duplicates > 0 \/ chosen.point # candidate.point
             \/ ~chosen.plain \/ ~chosen.rw \/ chosen.dev # Expected)
  <2>1. CASE \E r \in {"IO_ERROR", "WRONG_DEVICE"} : Verify!Return(r)
    BY <1>1, <2>1, VerifyReturns
  <2>2. CASE /\ verifyPc' = "look"
             /\ looked' = Verify!Components(candidate.point)
                             \o Verify!Components(candidate.root)
             /\ UNCHANGED <<candidate, verifyResult, table, row, chosen, duplicates>>
    <3> DEFINE p == Verify!Components(candidate.point)
               q == Verify!Components(candidate.root)
    <3>1. candidate.root \in Seq(STRING) /\ candidate.point \in Seq(STRING)
          /\ Verify!IsPrefix(candidate.point, candidate.root)
      BY <1>1, <1>2, VerifyConstants DEF VerifyInv
    <3>2. /\ p \in Seq(Seq(STRING)) /\ q \in Seq(Seq(STRING)) /\ Len(p) \in Nat
          /\ Len(q) \in Nat \ {0} /\ q[Len(q)] = candidate.root /\ DOMAIN q = 1 .. Len(q)
          /\ Len(p) >= 1 /\ p[Len(p)] = candidate.point
      <4>1. p \in Seq(Seq(STRING)) /\ q \in Seq(Seq(STRING)) /\ Len(q) >= 1
            /\ q[Len(q)] = candidate.root /\ Len(p) >= 1 /\ p[Len(p)] = candidate.point
        BY <3>1, ComponentsAre
      <4> HIDE DEF p, q
      <4>2. Len(p) \in Nat /\ Len(q) \in Nat /\ DOMAIN q = 1 .. Len(q)
        BY <4>1, LenProperties, Zenon
      <4> QED
        BY <4>1, <4>2
    <3>3. \A i \in 1 .. Len(q) : q[i] \in Paths
      BY <3>2 DEF Paths, Verify!Range
    <3>4. \A i \in 1 .. Len(p) : p[i] \in Paths
      <4>1. CASE candidate.point = <<>>
        <5>1. p = <<candidate.point>>
          BY <4>1 DEF Verify!Components
        <5> QED
          BY <5>1 DEF Paths
      <4>2. CASE candidate.point # <<>>
        <5> TAKE i \in 1 .. Len(p)
        <5>1. /\ Len(p) = Len(candidate.point) /\ p[i] = SubSeq(candidate.point, 1, i)
              /\ Len(candidate.point) \in Nat \ {0} /\ Len(candidate.root) \in Nat
          BY <3>1, <4>2, ComponentsAre, EmptySeq, LenProperties
        <5>2. /\ Len(candidate.point) <= Len(candidate.root)
              /\ \A n \in 1 .. Len(candidate.point) : candidate.point[n] = candidate.root[n]
          BY <3>1, PrefixIs
        <5>3. /\ i \in 1 .. Len(candidate.root) /\ i \in Nat \ {0}
              /\ i \in 1 .. Len(candidate.point)
          BY <5>1, <5>2
        <5>4. candidate.root # <<>>
          <6>1. Len(candidate.root) # 0
            BY <5>1, <5>2
          <6> QED
            BY <6>1, EmptySeq
        <5>5. q[i] = SubSeq(candidate.root, 1, i) /\ Len(q) = Len(candidate.root)
          BY <3>1, <5>3, <5>4, ComponentsAre
        <5>6. SubSeq(candidate.point, 1, i) = SubSeq(candidate.root, 1, i)
          <6>1. \A n \in 1 .. i : /\ candidate.point[n] = candidate.root[n]
                                  /\ candidate.root[n] \in STRING
            BY <3>1, <5>2, <5>3, ElementOfSeq
          <6>2. \A n \in 1 .. i : candidate.point[n] \in STRING
            BY <6>1
          <6>3. /\ SubSeq(candidate.point, 1, i) \in Seq(STRING)
                /\ Len(SubSeq(candidate.point, 1, i)) = i
                /\ \A n \in 1 .. i : SubSeq(candidate.point, 1, i)[n] = candidate.point[n]
            BY <5>3, <6>2, SubSeqProperties
          <6>4. /\ SubSeq(candidate.root, 1, i) \in Seq(STRING)
                /\ Len(SubSeq(candidate.root, 1, i)) = i
                /\ \A n \in 1 .. i : SubSeq(candidate.root, 1, i)[n] = candidate.root[n]
            BY <5>3, <6>1, SubSeqProperties
          <6> QED
            BY <6>1, <6>3, <6>4, SeqEqual
        <5> QED
          BY <3>3, <5>1, <5>3, <5>5, <5>6
      <4> QED
        BY <4>1, <4>2
    <3> HIDE DEF p, q
    <3>5. /\ p \o q \in Seq(Seq(STRING)) /\ Len(p \o q) = Len(p) + Len(q)
          /\ \A i \in 1 .. Len(p) + Len(q) :
                (p \o q)[i] = IF i <= Len(p) THEN p[i] ELSE q[i - Len(p)]
      BY <3>2, ConcatProperties
    <3>6. PICK l \in Seq(Seq(STRING)) :
             /\ l = p \o q /\ Len(l) = Len(p) + Len(q)
             /\ \A i \in 1 .. Len(p) + Len(q) : l[i] = IF i <= Len(p) THEN p[i] ELSE q[i - Len(p)]
      BY <3>5
    <3>7. l[Len(l)] = candidate.root /\ l # <<>>
      <4>1. Len(l) \in 1 .. Len(p) + Len(q) /\ ~(Len(l) <= Len(p)) /\ Len(l) - Len(p) = Len(q)
            /\ Len(l) # 0
        BY <3>2, <3>6
      <4>2. l[Len(l)] = candidate.root
        BY <3>2, <3>6, <4>1
      <4>3. l # <<>>
        BY <4>1, EmptySeq
      <4> QED
        BY <4>2, <4>3
    <3>8. \A i \in 1 .. Len(l) : l[i] \in Paths
      <4> TAKE i \in 1 .. Len(l)
      <4>1. i <= Len(p) => i \in 1 .. Len(p)
        BY <3>2, <3>6
      <4>2. ~(i <= Len(p)) => i - Len(p) \in 1 .. Len(q)
        BY <3>2, <3>6
      <4> QED
        BY <3>3, <3>4, <3>6, <4>1, <4>2
    <3>9. looked' = l
      BY <2>2, <3>6 DEF p, q
    <3>10. Verify!TypeOK'
      BY <1>1, <2>2 DEF VerifyInv, Verify!TypeOK
    <3>11. Paths' = Paths
      BY <2>2 DEF Paths, Verify!Components, Verify!Range
    <3>12. VerifyAccepted'
      <4>1. \E k \in 1 .. row - 1 : chosen = table[k]
        BY <1>1, <1>6 DEF VerifyInv, VerifyChosen
      <4>2. chosen.rw = TRUE /\ chosen.plain = TRUE
        <5>1. chosen \in Rows
          BY <1>2, <4>1, ElementOfSeq DEF VerifyInv
        <5> QED
          BY <1>6, <5>1 DEF Rows
      <4> QED
        BY <1>2, <1>6, <2>2, <4>1, <4>2 DEF VerifyAccepted
    <3>13. Verify!OkIsTheCard' /\ Verify!CardIsTaken'
      BY <2>2 DEF Verify!OkIsTheCard, Verify!CardIsTaken
    <3>14. PointBefore'
      <4>1. l[Len(l) - Len(q)] = candidate.point
        <5>1. Len(l) - Len(q) = Len(p) /\ Len(p) \in 1 .. Len(p) + Len(q)
          BY <3>2, <3>6
        <5> QED
          BY <3>2, <3>6, <5>1
      <4>2. Len(Verify!Components(candidate.root))' = Len(q)
        BY <2>2 DEF q, Verify!Components
      <4> QED
        BY <2>2, <3>9, <4>1, <4>2 DEF PointBefore
    <3> QED
      BY <1>1, <2>2, <3>7, <3>8, <3>9, <3>10, <3>11, <3>12, <3>13, <3>14 DEF VerifyInv
  <2> QED
    BY <1>6, <2>1, <2>2, Zenon DEF Verify!Judge
<1> QED
  BY <1>5, <1>6

LEMMA VerifyLookStep == ASSUME VerifyInv, Verify!Look PROVE VerifyInv'
<1>1. verifyPc = "look" /\ UNCHANGED <<mounts, changes, quiet>>
  BY DEF Verify!Look, Verify!World
<1>2. /\ VerifyAccepted /\ looked \in Seq(Seq(STRING)) /\ candidate \in Candidates
      /\ \A i \in 1 .. Len(looked) : looked[i] \in Paths
      /\ PointBefore
      /\ mounts \in Seq(Rows) /\ DOMAIN mounts = 1 .. Len(mounts)
      /\ Verify!IsPrefix(candidate.point, candidate.root)
  BY <1>1, LenProperties DEF VerifyInv, Verify!TypeOK
<1>3. CASE looked = <<>>
  BY <1>1, <1>3, VerifyReturns DEF Verify!Look
<1> DEFINE place == Head(looked)
           st == Verify!Lstat(place)
<1>4. CASE looked # <<>> /\ Verify!Return("IO_ERROR")
  BY <1>1, <1>4, VerifyReturns
<1>5. ASSUME looked # <<>> PROVE place \in Paths
  <2>1. 1 \in 1 .. Len(looked) /\ place = looked[1]
    BY <1>2, <1>5, HeadTailProperties, EmptySeq
  <2> QED
    BY <1>2, <2>1
<1>6. CASE /\ looked # <<>> /\ st.kind # "dir"
           /\ \E r : r # "OK" /\ Verify!Return(r)
  <2>1. \A k \in DOMAIN mounts : ~CardThere(k)
    BY <1>5, <1>6 DEF CardThere
  <2> QED
    BY <1>1, <1>6, <2>1, VerifyReturns
<1>7. CASE looked # <<>> /\ ~Verify!OnDevice(st) /\ Verify!Return("WRONG_MOUNT")
  <2>1. place \in {candidate.point, candidate.root} /\ st.dev # Expected
    <3>1. /\ Len(looked) \in {1, Len(Verify!Components(candidate.root)) + 1}
          /\ st.dev # Expected
      BY <1>2, <1>7 DEF Verify!OnDevice, VerifyAccepted
    <3>2. place = looked[1] /\ looked[Len(looked)] = candidate.root
      BY <1>1, <1>2, <1>7, HeadTailProperties, EmptySeq DEF VerifyInv
    <3>3. Len(Verify!Components(candidate.root)) \in Nat
      BY <1>2, VerifyConstants, ComponentsAre, LenProperties
    <3>4. CASE Len(looked) = 1
      BY <3>1, <3>2, <3>4
    <3>5. CASE Len(looked) = Len(Verify!Components(candidate.root)) + 1
      <4>1. Len(looked) - Len(Verify!Components(candidate.root)) = 1
        BY <3>3, <3>5
      <4>2. looked[1] = candidate.point
        BY <1>2, <3>3, <3>5, <4>1 DEF PointBefore
      <4> QED
        BY <3>1, <3>2, <4>2
    <3> QED
      BY <3>1, <3>4, <3>5
  <2>2. ASSUME NEW k \in DOMAIN mounts, CardThere(k) PROVE FALSE
    <3>1. /\ mounts[k].point = candidate.point /\ Verify!Top(candidate.point) = k
          /\ mounts[k].dev = Expected
          /\ \A j \in DOMAIN mounts :
                Verify!IsPrefix(candidate.point, mounts[j].point) => j = k
      BY <2>2 DEF CardThere
    <3>2. candidate.root \in Seq(STRING) /\ candidate.point \in Seq(STRING)
          /\ Len(mounts) >= 1 /\ mounts[1].point = <<>>
      BY <1>2, VerifyConstants DEF VerifyInv, Verify!TypeOK
    <3>3. CASE place = candidate.point
      BY <2>1, <3>1, <3>3 DEF Verify!Lstat, Verify!MountAt
    <3>4. CASE place = candidate.root
      <4> DEFINE j == Verify!Top(candidate.root)
      <4>1. /\ j \in 1 .. Len(mounts)
            /\ Verify!IsPrefix(mounts[j].point, candidate.root) /\ k <= j
        BY <1>2, <3>1, <3>2, VerifyTop
      <4>2. mounts[j].point \in Seq(STRING)
        <5>1. mounts[j] \in Rows
          BY <1>2, <4>1, ElementOfSeq
        <5> QED
          BY <5>1 DEF Rows
      <4> HIDE DEF j
      <4>3. Len(mounts[j].point) \in Nat /\ Len(candidate.point) \in Nat
        BY <3>2, <4>2, LenProperties
      <4>4. CASE Len(candidate.point) <= Len(mounts[j].point)
        <5>2. Verify!IsPrefix(candidate.point, mounts[j].point)
          BY <1>2, <3>2, <4>1, <4>2, <4>4, PrefixOrder
        <5>1. j = k
          BY <1>2, <3>1, <4>1, <5>2
        <5> QED
          BY <2>1, <3>1, <3>4, <5>1 DEF Verify!Lstat, Verify!MountAt, j
      <4>5. CASE Len(mounts[j].point) <= Len(candidate.point)
        <5>1. Verify!IsPrefix(mounts[j].point, candidate.point)
          BY <1>2, <3>2, <4>1, <4>2, <4>5, PrefixOrder
        <5>2. j <= k
          BY <1>2, <3>1, <3>2, <4>1, <5>1, VerifyTop
        <5>3. j = k
          BY <1>2, <4>1, <5>2
        <5> QED
          BY <2>1, <3>1, <3>4, <5>3 DEF Verify!Lstat, Verify!MountAt, j
      <4> QED
        BY <4>3, <4>4, <4>5
    <3> QED
      BY <2>1, <3>3, <3>4
  <2> QED
    BY <1>1, <1>7, <2>2, VerifyReturns
<1>8. CASE /\ looked # <<>> /\ st.kind = "dir" /\ Verify!OnDevice(st)
           /\ looked' = Tail(looked)
           /\ UNCHANGED <<candidate, verifyPc, verifyResult, table, row, chosen, duplicates>>
  <2>1. PICK l \in Seq(Seq(STRING)) :
           /\ l = Tail(looked) /\ Len(l) = Len(looked) - 1
           /\ \A i \in 1 .. Len(l) : l[i] = looked[i + 1]
    BY <1>2, <1>8, HeadTailProperties
  <2>2. Len(looked) \in Nat \ {0} /\ Len(l) \in Nat /\ looked' = l /\ place = looked[1]
        /\ looked[Len(looked)] = candidate.root
    BY <1>1, <1>2, <1>8, <2>1, EmptySeq, LenProperties, HeadTailProperties DEF VerifyInv
  <2>3. l # <<>> => l[Len(l)] = candidate.root
    <3> SUFFICES ASSUME l # <<>> PROVE l[Len(l)] = candidate.root
      OBVIOUS
    <3>1. Len(l) # 0
      BY EmptySeq
    <3>2. Len(l) \in 1 .. Len(l) /\ Len(l) + 1 = Len(looked)
      BY <2>1, <2>2, <3>1
    <3> QED
      BY <2>1, <2>2, <3>2
  <2>4. \A i \in 1 .. Len(l) : l[i] \in Paths
    <3> TAKE i \in 1 .. Len(l)
    <3>1. i + 1 \in 1 .. Len(looked)
      BY <2>1, <2>2
    <3> QED
      BY <1>2, <2>1, <3>1
  <2>5. l = <<>> => VerifyRoot
    <3> SUFFICES ASSUME l = <<>> PROVE VerifyRoot
      OBVIOUS
    <3>1. Len(l) = 0
      BY EmptySeq
    <3>2. Len(looked) = 1
      BY <2>1, <2>2, <3>1
    <3>3. place = candidate.root
      BY <2>2, <3>2
    <3>4. st.dev = Expected
      BY <1>2, <1>8, <3>2 DEF Verify!OnDevice, VerifyAccepted
    <3>5. st = [kind |-> st.kind, dev |-> st.dev]
      BY DEF Verify!Lstat
    <3> QED
      BY <1>8, <3>3, <3>4, <3>5 DEF VerifyRoot
  <2>6. Paths' = Paths /\ (VerifyRoot <=> VerifyRoot') /\ (VerifyAccepted <=> VerifyAccepted')
    BY <1>1, <1>8 DEF Paths, Verify!Components, Verify!Range, VerifyRoot, Verify!Lstat,
                      Verify!MountAt, Verify!Top, VerifyAccepted
  <2>7. Verify!TypeOK'
    BY <1>1, <1>8 DEF VerifyInv, Verify!TypeOK
  <2>8. Verify!OkIsTheCard' /\ Verify!CardIsTaken'
    BY <1>1, <1>8 DEF Verify!OkIsTheCard, Verify!CardIsTaken
  <2>9. PointBefore'
    <3> DEFINE n == Len(Verify!Components(candidate.root))
    <3>1. n \in Nat
      BY <1>2, VerifyConstants, ComponentsAre, LenProperties
    <3>2. n' = n /\ candidate' = candidate
      BY <1>8 DEF Verify!Components
    <3>3. PointBefore = (Len(looked) > n => looked[Len(looked) - n] = candidate.point)
      BY DEF PointBefore
    <3>4. PointBefore' = (Len(l) > n => l[Len(l) - n] = candidate.point)
      BY <2>2, <3>2 DEF PointBefore
    <3> HIDE DEF n
    <3> SUFFICES ASSUME Len(l) > n PROVE l[Len(l) - n] = candidate.point
      BY <3>4
    <3>5. /\ Len(l) - n \in 1 .. Len(l) /\ Len(looked) - n = Len(l) - n + 1
          /\ Len(looked) > n
      BY <2>1, <2>2, <3>1
    <3> QED
      BY <1>2, <2>1, <3>3, <3>5
  <2> QED
    BY <1>1, <1>2, <1>8, <2>2, <2>3, <2>4, <2>5, <2>6, <2>7, <2>8, <2>9 DEF VerifyInv
<1> HIDE DEF place, st
<1>9. CASE looked # <<>>
  <2>1. \/ Verify!Return("IO_ERROR")
        \/ st.kind # "dir" /\ \E r : r # "OK" /\ Verify!Return(r)
        \/ ~Verify!OnDevice(st) /\ Verify!Return("WRONG_MOUNT")
        \/ /\ st.kind = "dir" /\ Verify!OnDevice(st)
           /\ looked' = Tail(looked)
           /\ UNCHANGED <<candidate, verifyPc, verifyResult, table, row, chosen, duplicates>>
    BY <1>9 DEF Verify!Look, place, st
  <2> QED
    BY <1>4, <1>6, <1>7, <1>8, <1>9, <2>1
<1> QED
  BY <1>3, <1>9

LEMMA VerifyAgainStep == ASSUME VerifyInv, Verify!Again PROVE VerifyInv'
<1>1. <<>> \in Seq(Rows) /\ <<>> \in Seq(Seq(STRING)) /\ Len(<<>>) = 0
  BY EmptySeq
<1>2. Verify!TypeOK'
  BY <1>1, VerifyConstants DEF Verify!Again, VerifyInv, Verify!TypeOK
<1>3. Verify!OkIsTheCard' /\ Verify!CardIsTaken'
  BY DEF Verify!Again, Verify!OkIsTheCard, Verify!CardIsTaken
<1> QED
  BY <1>1, <1>2, <1>3, VerifyConstants DEF Verify!Again, VerifyInv, Verify!None

(* Mounts that come and go during the call leave nothing to show of it. *)
LEMMA VerifyChanges ==
    ASSUME VerifyInv, Verify!Change, mounts' \in Seq(Rows),
           Len(mounts') \in 1 .. MaxMounts, mounts'[1].point = <<>>
    PROVE  VerifyInv'
<1>1. /\ changes' \in 0 .. MaxMountChanges /\ quiet' = FALSE
      /\ UNCHANGED <<candidate, verifyPc, verifyResult, table, row, chosen, duplicates, looked>>
  BY VerifyConstants DEF Verify!Change, Verify!callVars, VerifyInv, Verify!TypeOK
<1>2. Verify!TypeOK'
  BY <1>1 DEF VerifyInv, Verify!TypeOK
<1>3. Verify!OkIsTheCard' /\ Verify!CardIsTaken'
  BY <1>1 DEF Verify!OkIsTheCard, Verify!CardIsTaken
<1>4. /\ Paths' = Paths /\ (VerifyAccepted <=> VerifyAccepted')
      /\ (VerifyChosen <=> VerifyChosen') /\ (PointBefore <=> PointBefore')
  BY <1>1 DEF PointBefore, Paths, Verify!Components, Verify!Range, VerifyAccepted, VerifyChosen, Above,
              Verify!None
<1>5. Verify!None' = Verify!None
  BY DEF Verify!None
<1> QED
  BY <1>1, <1>2, <1>3, <1>4, <1>5 DEF VerifyInv

LEMMA VerifyMountStep == ASSUME VerifyInv, Verify!Mount PROVE VerifyInv'
<1>1. PICK m \in Rows : mounts' = Append(mounts, m)
  <2>1. PICK p \in Verify!Points, d \in Devices, rw \in BOOLEAN, plain \in BOOLEAN :
           mounts' = Append(mounts, [point |-> p, dev |-> d, rw |-> rw, plain |-> plain])
    BY DEF Verify!Mount
  <2>2. p \in Seq(STRING)
    BY VerifyConstants DEF Verify!Points
  <2>3. [point |-> p, dev |-> d, rw |-> rw, plain |-> plain] \in Rows
    BY <2>2 DEF Rows
  <2> QED
    BY <2>1, <2>3
<1>2. /\ mounts \in Seq(Rows) /\ Len(mounts) \in 1 .. MaxMounts /\ mounts[1].point = <<>>
      /\ Len(mounts) < MaxMounts /\ MaxMounts \in Nat /\ Verify!Change
  BY VerifyConstants DEF Verify!Mount, VerifyInv, Verify!TypeOK
<1>3. /\ mounts' \in Seq(Rows) /\ Len(mounts') = Len(mounts) + 1
      /\ \A i \in 1 .. Len(mounts) : mounts'[i] = mounts[i]
  BY <1>1, <1>2, AppendProperties
<1>4. Len(mounts') \in 1 .. MaxMounts /\ 1 \in 1 .. Len(mounts)
  BY <1>2, <1>3
<1>5. mounts'[1].point = <<>>
  BY <1>2, <1>3, <1>4
<1> QED
  BY <1>2, <1>3, <1>4, <1>5, VerifyChanges

LEMMA VerifyUnmountStep == ASSUME VerifyInv, Verify!Unmount PROVE VerifyInv'
<1>1. PICK k \in DOMAIN mounts :
         mounts[k].point # <<>> /\ mounts' = Verify!RemoveAt(mounts, k)
  BY DEF Verify!Unmount
<1>2. /\ mounts \in Seq(Rows) /\ Len(mounts) \in 1 .. MaxMounts /\ mounts[1].point = <<>>
      /\ MaxMounts \in Nat /\ Verify!Change /\ DOMAIN mounts = 1 .. Len(mounts)
  BY VerifyConstants, LenProperties DEF Verify!Unmount, VerifyInv, Verify!TypeOK
<1>3. k \in 2 .. Len(mounts)
  <2>1. k \in 1 .. Len(mounts) /\ k # 1
    BY <1>1, <1>2
  <2> QED
    BY <1>2, <2>1
<1> DEFINE before_k == SubSeq(mounts, 1, k - 1)
           after_k == SubSeq(mounts, k + 1, Len(mounts))
<1>4. \A i \in 1 .. Len(mounts) : mounts[i] \in Rows
  BY <1>2, ElementOfSeq
<1>5. before_k \in Seq(Rows) /\ Len(before_k) = k - 1 /\ before_k[1] = mounts[1]
  <2>1. \A i \in 1 .. k - 1 : mounts[i] \in Rows
    BY <1>2, <1>3, <1>4
  <2>2. /\ before_k \in Seq(Rows)
        /\ Len(before_k) = IF 1 <= k - 1 THEN k - 1 - 1 + 1 ELSE 0
        /\ \A i \in 1 .. k - 1 - 1 + 1 : before_k[i] = mounts[1 + i - 1]
    BY <1>3, <2>1, SubSeqProperties
  <2> HIDE DEF before_k
  <2>3. 1 \in 1 .. k - 1 - 1 + 1 /\ 1 + 1 - 1 = 1
    BY <1>3
  <2>4. before_k[1] = mounts[1]
    BY <2>2, <2>3
  <2> QED
    BY <1>3, <2>2, <2>4
<1>6. after_k \in Seq(Rows) /\ Len(after_k) = Len(mounts) - k
  <2>1. \A i \in k + 1 .. Len(mounts) : mounts[i] \in Rows
    BY <1>2, <1>3, <1>4
  <2>2. /\ after_k \in Seq(Rows)
        /\ Len(after_k) = IF k + 1 <= Len(mounts) THEN Len(mounts) - (k + 1) + 1 ELSE 0
    BY <1>2, <1>3, <2>1, SubSeqProperties
  <2> HIDE DEF after_k
  <2> QED
    BY <1>2, <1>3, <2>2
<1>7. mounts' = before_k \o after_k
  BY <1>1 DEF Verify!RemoveAt
<1> HIDE DEF before_k, after_k
<1>8. /\ mounts' \in Seq(Rows) /\ Len(mounts') = Len(before_k) + Len(after_k)
      /\ \A i \in 1 .. Len(before_k) + Len(after_k) :
            mounts'[i] = IF i <= Len(before_k) THEN before_k[i] ELSE after_k[i - Len(before_k)]
  BY <1>5, <1>6, <1>7, ConcatProperties
<1>9. Len(mounts') \in 1 .. MaxMounts
  BY <1>2, <1>3, <1>5, <1>6, <1>8
<1>10. mounts'[1] = mounts[1]
  <2>1. 1 \in 1 .. Len(before_k) + Len(after_k) /\ 1 <= Len(before_k)
    BY <1>2, <1>3, <1>5, <1>6
  <2> QED
    BY <1>5, <1>8, <2>1
<1> QED
  BY <1>2, <1>8, <1>9, <1>10, VerifyChanges

LEMMA VerifyStep == ASSUME VerifyInv, Verify!Next PROVE VerifyInv'
BY VerifyBeginStep, VerifyReadStep, VerifyJudgeStep, VerifyLookStep, VerifyAgainStep,
   VerifyMountStep, VerifyUnmountStep
DEF Verify!Next

LEMMA VerifyIdle == ASSUME VerifyInv, UNCHANGED verifyVars PROVE VerifyInv'
<1>0. UNCHANGED <<mounts, changes, quiet, candidate, verifyPc, verifyResult, table, row,
                  chosen, duplicates, looked>>
  BY DEF verifyVars
<1>3. /\ \A p : Verify!Top(p)' = Verify!Top(p) /\ Verify!Lstat(p)' = Verify!Lstat(p)
                 /\ Verify!MountAt(p)' = Verify!MountAt(p)
      /\ Verify!Range(Verify!Components(candidate.root))'
            = Verify!Range(Verify!Components(candidate.root))
  BY <1>0 DEF Verify!Top, Verify!Lstat, Verify!MountAt, Verify!Range, Verify!Components
<1>4. Verify!TypeOK'
  BY <1>0 DEF VerifyInv, Verify!TypeOK
<1>5. Verify!OkIsTheCard'
  BY <1>0, <1>3 DEF VerifyInv, Verify!OkIsTheCard
<1>6. Verify!CardIsTaken'
  BY <1>0, <1>3 DEF VerifyInv, Verify!CardIsTaken
<1>7. (VerifyRoot <=> VerifyRoot') /\ Verify!None' = Verify!None
  BY <1>0, <1>3 DEF VerifyRoot, Verify!None
<1>2. /\ Paths' = Paths /\ (VerifyAccepted <=> VerifyAccepted')
      /\ (VerifyChosen <=> VerifyChosen') /\ (PointBefore <=> PointBefore')
  BY DEF verifyVars, PointBefore, Paths, Verify!Components, Verify!Range, VerifyAccepted, VerifyChosen,
         Above, Verify!None
<1> QED
  BY <1>0, <1>2, <1>4, <1>5, <1>6, <1>7 DEF VerifyInv

(* What is looked at last is the root, on the device that was accepted. *)
LEMMA VerifyLast == ASSUME VerifyInv, Verify!Next PROVE Verify!AcceptedWasThere
<1> SUFFICES ASSUME verifyPc = "look", looked = <<candidate.root>>, looked' = <<>>
             PROVE  Verify!Lstat(candidate.root) = [kind |-> "dir", dev |-> Expected]
  BY DEF Verify!AcceptedWasThere
<1>1. looked # looked' /\ looked # <<>> /\ Head(looked) = candidate.root
  OBVIOUS
<1>2. Verify!Look
  BY <1>1 DEF Verify!Next, Verify!Begin, Verify!ReadRow, Verify!Judge, Verify!Again,
              Verify!Mount, Verify!Unmount, Verify!Change, Verify!callVars
<1>3. /\ Verify!Lstat(candidate.root).kind = "dir"
      /\ Verify!OnDevice(Verify!Lstat(candidate.root))
  BY <1>1, <1>2 DEF Verify!Look, Verify!Return
<1>4. Verify!Lstat(candidate.root).dev = Expected
  BY <1>3, Len(looked) = 1 DEF VerifyInv, VerifyAccepted, Verify!OnDevice
<1> QED
  BY <1>3, <1>4 DEF Verify!Lstat

-----------------------------------------------------------------------------
(* The mount table as it is read.                                           *)

(* While the table does not change, what was read is no longer than it is,   *)
(* and as long once the end was seen.                                       *)
MountsInv ==
    /\ Mounts!TypeOK
    /\ mountsOut \in Seq(Nat)
    /\ mountsPc \in {"open", "read", "probe", "close", "fail", "done"}
    /\ mountsPc = "open" => Len(mountsOut) = 0
    /\ mountsPc # "done" => mountsResult = "none"
    /\ mountsPc = "read" => Len(mountsOut) < CAPACITY
    /\ mountsStill /\ mountsPc \in {"read", "probe"} => Len(mountsOut) <= length
    /\ mountsStill /\ mountsPc = "close" => Len(mountsOut) = length
    /\ Mounts!OkIsWhole

LEMMA MountsConstants ==
    CAPACITY \in Nat \ {0} /\ MaxLength \in Nat /\ MaxTableChanges \in Nat
BY MountsAssumption DEF MountsAssumption, Mounts!CapacityAssumption

LEMMA MountsInitially == ASSUME Mounts!Init PROVE MountsInv
<1>1. PICK e \in Seq(Nat) : e = <<>> /\ Len(e) = 0
  BY EmptySeq
<1>2. mountsOut = e
  BY <1>1 DEF Mounts!Init
<1>3. Mounts!TypeOK
  BY <1>1, <1>2, MountsConstants DEF Mounts!Init, Mounts!TypeOK
<1> QED
  BY <1>1, <1>2, <1>3 DEF Mounts!Init, MountsInv, Mounts!OkIsWhole

(* A step that reads nothing more. *)
LEMMA MountsGoesOn ==
    ASSUME MountsInv, UNCHANGED <<length, version, mountsStill, mountsOut>>,
           mountsPc # "done", got' \in 0 .. CAPACITY,
           mountsPc' \in {"read", "probe", "close", "fail", "done"},
           descriptor' \in {"none", "open", "closed"},
           (descriptor' = "open") <=> (mountsPc' # "done"),
           mountsPc' # "done" => mountsResult' = "none",
           mountsPc' = "read" => mountsPc = "open",
           mountsPc' # "probe",
           mountsPc' = "close" => mountsPc \in {"read", "probe"} /\ length <= Len(mountsOut),
           mountsResult' = "ok" => mountsPc = "close" /\ Len(mountsOut) > 0
    PROVE  MountsInv'
<1>1. /\ Len(mountsOut) \in Nat /\ length \in 0 .. MaxLength /\ Len(mountsOut) <= CAPACITY
      /\ MaxLength \in Nat /\ CAPACITY \in Nat \ {0} /\ mountsStill \in BOOLEAN
      /\ version \in 0 .. MaxTableChanges
  BY MountsConstants, LenProperties DEF MountsInv, Mounts!TypeOK
<1>2. Mounts!TypeOK'
  <2>1. (descriptor' = "open") <=> (mountsPc' \in {"read", "probe", "close", "fail"})
    OBVIOUS
  <2> QED
    BY <1>1, <2>1 DEF Mounts!TypeOK
<1>3. Mounts!OkIsWhole'
  BY <1>1 DEF MountsInv, Mounts!OkIsWhole
<1>4. mountsPc = "open" => Len(mountsOut) = 0
  BY DEF MountsInv
<1>5. mountsPc' = "read" => Len(mountsOut) < CAPACITY /\ Len(mountsOut) <= length
  BY <1>1, <1>4
<1>6. mountsStill /\ mountsPc' = "close" => Len(mountsOut) = length
  <2>1. mountsStill /\ mountsPc \in {"read", "probe"} => Len(mountsOut) <= length
    BY DEF MountsInv
  <2> QED
    BY <1>1, <2>1
<1> QED
  BY <1>2, <1>3, <1>5, <1>6 DEF MountsInv

LEMMA MountsReadStep == ASSUME MountsInv, Mounts!Read PROVE MountsInv'
<1>1. /\ mountsPc = "read" /\ UNCHANGED <<length, version, mountsStill, descriptor, mountsResult>>
      /\ mountsResult = "none" /\ descriptor = "open"
  BY DEF Mounts!Read, Mounts!World, MountsInv, Mounts!TypeOK
<1>2. /\ Len(mountsOut) \in Nat /\ length \in 0 .. MaxLength /\ MaxLength \in Nat
      /\ CAPACITY \in Nat \ {0} /\ Len(mountsOut) < CAPACITY /\ version \in Nat
      /\ mountsOut \in Seq(Nat)
      /\ mountsStill => Len(mountsOut) <= length
  BY <1>1, MountsConstants, LenProperties DEF MountsInv, Mounts!TypeOK
<1>3. PICK k \in Mounts!Returned(CAPACITY - Mounts!Done) :
        /\ got' = k /\ mountsOut' = mountsOut \o [n \in 1 .. k |-> version]
        /\ mountsPc' = IF k = 0 THEN "close"
                       ELSE IF Mounts!Done + k = CAPACITY THEN "probe" ELSE "read"
  BY DEF Mounts!Read
<1>4. k \in 0 .. CAPACITY - Len(mountsOut)
      /\ (k = 0 => length <= Len(mountsOut)) /\ (k # 0 => Len(mountsOut) + k <= length)
  BY <1>2, <1>3 DEF Mounts!Returned, Mounts!Done
<1>5. [n \in 1 .. k |-> version] \in Seq(Nat) /\ Len([n \in 1 .. k |-> version]) = k
  BY <1>2, <1>4
<1>6. mountsOut' \in Seq(Nat) /\ Len(mountsOut') = Len(mountsOut) + k
  BY <1>2, <1>3, <1>5, ConcatProperties
<1>7. /\ Len(mountsOut') <= CAPACITY /\ got' \in 0 .. CAPACITY
      /\ mountsPc' = "read" => Len(mountsOut') < CAPACITY
      /\ mountsStill /\ mountsPc' \in {"read", "probe"} => Len(mountsOut') <= length
      /\ mountsStill /\ mountsPc' = "close" => Len(mountsOut') = length
      /\ mountsPc' \in {"read", "probe", "close"}
  <2>1. got' = k /\ k \in Nat /\ Len(mountsOut') <= CAPACITY /\ k <= CAPACITY
    BY <1>2, <1>3, <1>4, <1>6
  <2>2. CASE k = 0
    <3>1. mountsPc' = "close"
      BY <1>3, <2>2
    <3>2. length <= Len(mountsOut) /\ Len(mountsOut') = Len(mountsOut)
      BY <1>2, <1>4, <1>6, <2>2
    <3>3. mountsStill => Len(mountsOut') = length
      BY <1>2, <3>2
    <3> QED
      BY <1>2, <2>1, <3>1, <3>3
  <2>3. CASE k # 0
    <3>1. mountsPc' = IF Len(mountsOut') = CAPACITY THEN "probe" ELSE "read"
      BY <1>3, <1>6, <2>3 DEF Mounts!Done
    <3>2. Len(mountsOut') <= length /\ Len(mountsOut') \in Nat
      BY <1>2, <1>4, <1>6, <2>3
    <3> QED
      BY <1>2, <2>1, <3>1, <3>2
  <2> QED
    BY <2>2, <2>3
<1>8. Mounts!TypeOK'
  BY <1>1, <1>7 DEF MountsInv, Mounts!TypeOK
<1>9. Mounts!OkIsWhole'
  BY <1>1 DEF Mounts!OkIsWhole
<1> QED
  BY <1>1, <1>6, <1>7, <1>8, <1>9 DEF MountsInv

LEMMA MountsStep == ASSUME MountsInv, Mounts!Next PROVE MountsInv'
<1> USE MountsConstants
<1>0. got \in 0 .. CAPACITY /\ descriptor \in {"none", "open", "closed"}
      /\ ((descriptor = "open") <=> (mountsPc \in {"read", "probe", "close", "fail"}))
      /\ (mountsPc # "done" => mountsResult = "none")
      /\ length \in Nat /\ Len(mountsOut) \in Nat
  BY LenProperties DEF MountsInv, Mounts!TypeOK
<1>1. CASE Mounts!Open
  BY <1>0, <1>1, MountsGoesOn DEF Mounts!Open, Mounts!World, Mounts!Return
<1>2. CASE Mounts!Read
  BY <1>2, MountsReadStep
<1>3. CASE Mounts!Probe
  <2>1. /\ mountsPc = "probe" /\ UNCHANGED <<length, version, mountsStill, mountsOut>>
        /\ UNCHANGED <<descriptor, mountsResult>>
    BY <1>3 DEF Mounts!Probe, Mounts!World
  <2>2. PICK k \in Mounts!Returned(1) : got' = k /\ mountsPc' = IF k = 0 THEN "close" ELSE "fail"
    BY <1>3 DEF Mounts!Probe
  <2>3. k \in 0 .. 1 /\ (k = 0 => length <= Len(mountsOut))
    BY <1>0, <2>2 DEF Mounts!Returned, Mounts!Done
  <2>4. got' \in 0 .. CAPACITY
    BY <2>2, <2>3
  <2> QED
    BY <1>0, <2>1, <2>2, <2>3, <2>4, MountsGoesOn
<1>4. CASE Mounts!ReadFails
  BY <1>0, <1>4, MountsGoesOn DEF Mounts!ReadFails, Mounts!World
<1>5. CASE Mounts!Close
  BY <1>0, <1>5, MountsGoesOn DEF Mounts!Close, Mounts!World, Mounts!Return, Mounts!Done
<1>6. CASE Mounts!Fail
  BY <1>0, <1>6, MountsGoesOn DEF Mounts!Fail, Mounts!World, Mounts!Return
<1>7. CASE Mounts!Change
  <2>1. /\ version' \in 0 .. MaxTableChanges /\ length' \in 0 .. MaxLength
        /\ mountsStill' = (mountsPc = "open")
        /\ UNCHANGED <<mountsPc, mountsOut, got, descriptor, mountsResult>>
    BY <1>7 DEF Mounts!Change, Mounts!callVars, MountsInv, Mounts!TypeOK
  <2>2. Mounts!TypeOK'
    BY <2>1 DEF MountsInv, Mounts!TypeOK
  <2>3. Mounts!OkIsWhole'
    BY <1>0, <2>1 DEF Mounts!OkIsWhole
  <2> QED
    BY <2>1, <2>2, <2>3 DEF MountsInv
<1> QED
  BY <1>1, <1>2, <1>3, <1>4, <1>5, <1>6, <1>7 DEF Mounts!Next

LEMMA MountsIdle == ASSUME MountsInv, UNCHANGED mountsVars PROVE MountsInv'
<1>1. UNCHANGED <<length, version, mountsStill, mountsPc, mountsOut, got, descriptor,
                  mountsResult>>
  BY DEF mountsVars
<1>2. Mounts!TypeOK' /\ Mounts!OkIsWhole'
  BY <1>1 DEF MountsInv, Mounts!TypeOK, Mounts!OkIsWhole
<1> QED
  BY <1>1, <1>2 DEF MountsInv

-----------------------------------------------------------------------------
(* The directories of the storage.                                          *)

PrepareBusy(p) == preparePc[p] \in {"look", "make", "look again"}

(* What a process has passed is a directory and stays one; what it found     *)
(* there when it made a directory stays too.  Nothing but directories is     *)
(* about until something else was noted.                                    *)
PrepareInv ==
    /\ Prepare!TypeOK
    /\ \A p \in Procs : PrepareBusy(p) => errno[p] = FALSE
    /\ \A p \in Procs : preparePc[p] = "look again" => fs[Prepare!Order[at[p]]] # "absent"
    /\ ~prepareDisturbed => \A l \in Prepare!Locations : fs[l] \in {"absent", "dir"}
    /\ Prepare!OkIsPrepared /\ Prepare!RaceIsNoFailure /\ Prepare!PassedAreDirectories

LEMMA PrepareOrder ==
    /\ Len(Prepare!Order) = 3
    /\ \A i \in 1 .. 3 : Prepare!Order[i] \in Prepare!Locations
    /\ \A l \in Prepare!Locations : \E i \in 1 .. 3 : l = Prepare!Order[i]
BY DEF Prepare!Order, Prepare!Locations

LEMMA PrepareInitially == ASSUME Prepare!Init PROVE PrepareInv
<1>1. Prepare!TypeOK
  BY PrepareOrder DEF Prepare!Init, Prepare!TypeOK
<1>2. prepareDisturbed <=> \E l \in Prepare!Locations : fs[l] \in {"file", "link"}
  BY DEF Prepare!Init
<1>3. ~prepareDisturbed => \A l \in Prepare!Locations : fs[l] \in {"absent", "dir"}
  BY <1>1, <1>2 DEF Prepare!TypeOK, Prepare!Kinds
<1>4. \A p \in Procs : preparePc[p] = "idle"
  BY DEF Prepare!Init
<1> QED
  BY <1>1, <1>3, <1>4
  DEF PrepareInv, PrepareBusy, Prepare!OkIsPrepared, Prepare!RaceIsNoFailure,
      Prepare!PassedAreDirectories

PrepareResults == Prepare!InspectionErrors \cup Prepare!CreationErrors
                    \cup {"OK", "INVALID", "SYMLINK", "NOT_FOUND"}

(* What is created stays; what is no directory is noted. *)
PrepareGrows ==
    /\ fs' \in [Prepare!Locations -> Prepare!Kinds]
    /\ \A l \in Prepare!Locations : fs[l] # "absent" => fs'[l] = fs[l]
    /\ prepareDisturbed' \in BOOLEAN /\ (prepareDisturbed => prepareDisturbed')
    /\ ~prepareDisturbed' => \A l \in Prepare!Locations : fs'[l] \in {"absent", "dir"}

LEMMA ThreeBelow == ASSUME NEW n \in 1 .. 3, NEW i \in 1 .. n - 1 PROVE i \in 1 .. 3
OBVIOUS

(* What is true of a process that comes to label, with the location a.       *)
PrepareComes(a, e, label, r) ==
    /\ label \in {"look", "make", "look again"} =>
          /\ e = FALSE /\ \A i \in 1 .. a - 1 : fs'[Prepare!Order[i]] = "dir"
    /\ label = "look again" => fs'[Prepare!Order[a]] # "absent"
    /\ label = "done" /\ r = "OK" =>
          e = FALSE /\ \A l \in Prepare!Locations : fs'[l] = "dir"
    /\ label = "done" /\ ~prepareDisturbed' => r = "OK"

(* A step of p, after which what it has passed are directories. *)
PrepareMove(p, a, e, label, r) ==
    /\ a \in 1 .. 3 /\ e \in BOOLEAN /\ r \in PrepareResults
    /\ label \in {"idle", "look", "make", "look again", "done"}
    /\ preparePc' = [preparePc EXCEPT ![p] = label]
    /\ at' = [at EXCEPT ![p] = a] /\ errno' = [errno EXCEPT ![p] = e]
    /\ prepareResult' = [prepareResult EXCEPT ![p] = r]
    /\ PrepareComes(a, e, label, r)

LEMMA PrepareMoves ==
    ASSUME PrepareInv, PrepareGrows, NEW p \in Procs, NEW a, NEW e, NEW label, NEW r,
           PrepareMove(p, a, e, label, r)
    PROVE  PrepareInv'
<1>0. /\ a \in 1 .. 3 /\ e \in BOOLEAN /\ r \in PrepareResults
      /\ label \in {"idle", "look", "make", "look again", "done"}
      /\ preparePc' = [preparePc EXCEPT ![p] = label]
      /\ at' = [at EXCEPT ![p] = a] /\ errno' = [errno EXCEPT ![p] = e]
      /\ prepareResult' = [prepareResult EXCEPT ![p] = r]
      /\ PrepareComes(a, e, label, r)
  BY DEF PrepareMove
<1>1. Prepare!TypeOK'
  BY <1>0, PrepareOrder DEF PrepareInv, Prepare!TypeOK, PrepareGrows, PrepareResults
<1>2. /\ preparePc \in [Procs -> {"idle", "look", "make", "look again", "done"}]
      /\ at \in [Procs -> 1 .. 3] /\ errno \in [Procs -> BOOLEAN]
      /\ DOMAIN prepareResult = Procs
  BY PrepareOrder DEF PrepareInv, Prepare!TypeOK
<1>3. /\ preparePc'[p] = label /\ at'[p] = a /\ errno'[p] = e /\ prepareResult'[p] = r
  BY <1>0, <1>2
<1>4. \A q \in Procs \ {p} :
        /\ preparePc'[q] = preparePc[q] /\ at'[q] = at[q]
        /\ errno'[q] = errno[q] /\ prepareResult'[q] = prepareResult[q]
  BY <1>0, <1>2
<1>5. \A q \in Procs : PrepareBusy(q)' => errno'[q] = FALSE
  <2> SUFFICES ASSUME NEW q \in Procs, PrepareBusy(q)' PROVE errno'[q] = FALSE
    OBVIOUS
  <2>1. CASE q = p
    BY <1>0, <1>3, <2>1, Zenon DEF PrepareComes, PrepareBusy
  <2>2. CASE q # p
    BY <1>4, <2>2, Zenon DEF PrepareInv, PrepareBusy
  <2> QED
    BY <2>1, <2>2
<1>6. \A q \in Procs : preparePc'[q] = "look again" => fs'[Prepare!Order[at'[q]]] # "absent"
  <2> SUFFICES ASSUME NEW q \in Procs, preparePc'[q] = "look again"
               PROVE  fs'[Prepare!Order[at'[q]]] # "absent"
    OBVIOUS
  <2>1. CASE q = p
    BY <1>0, <1>3, <2>1, Zenon DEF PrepareComes
  <2>2. CASE q # p
    <3>1. preparePc[q] = "look again" /\ at'[q] = at[q] /\ at[q] \in 1 .. 3
      BY <1>2, <1>4, <2>2
    <3>2. fs[Prepare!Order[at[q]]] # "absent"
      BY <3>1, Zenon DEF PrepareInv
    <3>3. Prepare!Order[at[q]] \in Prepare!Locations
      BY <3>1, PrepareOrder, Zenon
    <3> QED
      BY <3>1, <3>2, <3>3, Zenon DEF PrepareGrows
  <2> QED
    BY <2>1, <2>2
<1>7. Prepare!OkIsPrepared'
  <2> SUFFICES ASSUME NEW q \in Procs, preparePc'[q] = "done", prepareResult'[q] = "OK"
               PROVE  (\A l \in Prepare!Locations : fs'[l] = "dir") /\ ~errno'[q]
    BY DEF Prepare!OkIsPrepared, Prepare!Locations, Prepare!Order
  <2>1. CASE q = p
    BY <1>0, <1>3, <2>1, Zenon DEF PrepareComes
  <2>2. CASE q # p
    <3>1. preparePc[q] = "done" /\ prepareResult[q] = "OK" /\ errno'[q] = errno[q]
      BY <1>4, <2>2
    <3>2. (\A l \in Prepare!Locations : fs[l] = "dir") /\ ~errno[q]
      BY <3>1, Zenon DEF PrepareInv, Prepare!OkIsPrepared
    <3>3. \A l \in Prepare!Locations : fs'[l] = "dir"
      <4> TAKE l \in Prepare!Locations
      <4>1. fs[l] = "dir" /\ "dir" # "absent"
        BY <3>2
      <4> QED
        BY <4>1, Zenon DEF PrepareGrows
    <3> QED
      BY <3>1, <3>2, <3>3, Zenon
  <2> QED
    BY <2>1, <2>2
<1>8. Prepare!RaceIsNoFailure'
  <2> SUFFICES ASSUME ~prepareDisturbed', NEW q \in Procs, preparePc'[q] = "done"
               PROVE  prepareResult'[q] = "OK"
    BY Zenon DEF Prepare!RaceIsNoFailure
  <2>1. CASE q = p
    BY <1>0, <1>3, <2>1, Zenon DEF PrepareComes
  <2>2. CASE q # p
    BY <1>4, <2>2, Zenon DEF PrepareGrows, PrepareInv, Prepare!RaceIsNoFailure
  <2> QED
    BY <2>1, <2>2
<1>9. Prepare!PassedAreDirectories'
  <2> SUFFICES ASSUME NEW q \in Procs, PrepareBusy(q)', NEW i \in 1 .. at'[q] - 1
               PROVE  fs'[Prepare!Order[i]] = "dir"
    BY DEF Prepare!PassedAreDirectories, Prepare!Order, PrepareBusy
  <2>1. CASE q = p
    BY <1>0, <1>3, <2>1, Zenon DEF PrepareComes, PrepareBusy
  <2>2. CASE q # p
    <3>1. preparePc[q] \in {"look", "make", "look again"} /\ i \in 1 .. at[q] - 1
          /\ at[q] \in 1 .. 3
      BY <1>2, <1>4, <2>2 DEF PrepareBusy
    <3>2. fs[Prepare!Order[i]] = "dir"
      BY <3>1, Zenon DEF PrepareInv, Prepare!PassedAreDirectories
    <3>3. i \in 1 .. 3 /\ "dir" # "absent"
      <4>1. i \in 1 .. 3
        BY <3>1, ThreeBelow, Zenon
      <4> QED
        BY <4>1, Zenon
    <3>4. Prepare!Order[i] \in Prepare!Locations
      BY <3>3, PrepareOrder, Zenon
    <3> QED
      BY <3>2, <3>3, <3>4, Zenon DEF PrepareGrows
  <2> QED
    BY <2>1, <2>2
<1>10. (~prepareDisturbed => \A l \in Prepare!Locations : fs[l] \in {"absent", "dir"})'
  BY DEF PrepareGrows, Prepare!Locations, Prepare!Order
<1> QED
  BY <1>1, <1>5, <1>6, <1>7, <1>8, <1>9, <1>10
  DEF PrepareInv, Prepare!Locations, Prepare!Order

(* The location that p is busy with is a directory now. *)
LEMMA PrepareReady ==
    ASSUME PrepareInv, NEW p \in Procs, PrepareBusy(p), Prepare!Ready(p),
           PrepareGrows, UNCHANGED prepareDisturbed, fs'[Prepare!Order[at[p]]] = "dir"
    PROVE  PrepareInv'
<1>1. /\ at[p] \in 1 .. 3 /\ errno[p] = FALSE /\ prepareResult[p] \in PrepareResults
      /\ at \in [Procs -> 1 .. 3] /\ errno \in [Procs -> BOOLEAN]
      /\ prepareResult \in [Procs -> PrepareResults]
  BY PrepareOrder DEF PrepareInv, Prepare!TypeOK, PrepareResults
<1>2. \A i \in 1 .. at[p] : fs'[Prepare!Order[i]] = "dir"
  <2> SUFFICES ASSUME NEW i \in 1 .. at[p], i # at[p] PROVE fs'[Prepare!Order[i]] = "dir"
    OBVIOUS
  <2>1. i \in 1 .. at[p] - 1 /\ i \in 1 .. 3 /\ "dir" # "absent"
    BY <1>1
  <2>2. fs[Prepare!Order[i]] = "dir"
    BY <2>1, Zenon DEF PrepareInv, PrepareBusy, Prepare!PassedAreDirectories
  <2>3. Prepare!Order[i] \in Prepare!Locations
    BY <2>1, PrepareOrder, Zenon
  <2> QED
    BY <2>1, <2>2, <2>3, Zenon DEF PrepareGrows
<1>3. CASE at[p] = 3
  <2>1. /\ preparePc' = [preparePc EXCEPT ![p] = "done"]
        /\ prepareResult' = [prepareResult EXCEPT ![p] = "OK"]
        /\ errno' = [errno EXCEPT ![p] = FALSE] /\ at' = at
    BY <1>1, <1>3, PrepareOrder DEF Prepare!Ready, Prepare!Return
  <2>2. at' = [at EXCEPT ![p] = 3]
    BY <1>1, <1>3, <2>1
  <2>3. \A l \in Prepare!Locations : fs'[l] = "dir"
    BY <1>2, <1>3, PrepareOrder
  <2>4. PrepareComes(3, FALSE, "done", "OK")
    BY <2>3 DEF PrepareComes
  <2>5. "OK" \in PrepareResults /\ 3 \in 1 .. 3 /\ FALSE \in BOOLEAN
        /\ "done" \in {"idle", "look", "make", "look again", "done"}
    BY DEF PrepareResults
  <2> QED
    <3>1. PrepareMove(p, 3, FALSE, "done", "OK")
      BY <2>1, <2>2, <2>4, <2>5, Zenon DEF PrepareMove
    <3> QED
      BY <3>1, PrepareMoves
<1>4. CASE at[p] # 3
  <2>1. /\ preparePc' = [preparePc EXCEPT ![p] = "look"]
        /\ at' = [at EXCEPT ![p] = at[p] + 1] /\ UNCHANGED <<prepareResult, errno>>
    BY <1>1, <1>4, PrepareOrder DEF Prepare!Ready
  <2>2. errno' = [errno EXCEPT ![p] = FALSE]
        /\ prepareResult' = [prepareResult EXCEPT ![p] = prepareResult[p]]
    <3>1. errno = [errno EXCEPT ![p] = FALSE]
      BY <1>1, Zenon
    <3>2. prepareResult = [prepareResult EXCEPT ![p] = prepareResult[p]]
      BY <1>1, Zenon
    <3> QED
      BY <2>1, <3>1, <3>2
  <2>3. at[p] + 1 \in 1 .. 3 /\ \A i \in 1 .. (at[p] + 1) - 1 : i \in 1 .. at[p]
    BY <1>1, <1>4
  <2>4. PrepareComes(at[p] + 1, FALSE, "look", prepareResult[p])
    <3>1. \A i \in 1 .. (at[p] + 1) - 1 : fs'[Prepare!Order[i]] = "dir"
      BY <1>2, <2>3, Zenon
    <3>2. "look" # "look again" /\ "look" # "done"
      OBVIOUS
    <3> QED
      BY <3>1, <3>2, Zenon DEF PrepareComes
  <2>5. FALSE \in BOOLEAN /\ "look" \in {"idle", "look", "make", "look again", "done"}
    OBVIOUS
  <2> QED
    <3>1. PrepareMove(p, at[p] + 1, FALSE, "look", prepareResult[p])
      BY <1>1, <2>1, <2>2, <2>3, <2>4, <2>5, Zenon DEF PrepareMove
    <3> QED
      BY <3>1, PrepareMoves
<1> QED
  BY <1>3, <1>4

LEMMA PrepareStays ==
    ASSUME PrepareInv, UNCHANGED fs,
           prepareDisturbed' \in BOOLEAN, prepareDisturbed => prepareDisturbed'
    PROVE  PrepareGrows
BY DEF PrepareInv, Prepare!TypeOK, PrepareGrows

(* The call of p returns r. *)
LEMMA PrepareReturns ==
    ASSUME PrepareInv, UNCHANGED fs, NEW p \in Procs, NEW r \in PrepareResults, NEW e \in BOOLEAN,
           Prepare!Return(p, r, e), r # "OK", prepareDisturbed' = TRUE
    PROVE  PrepareInv'
<1>1. PrepareGrows
  BY PrepareStays
<1>2. /\ at' = [at EXCEPT ![p] = at[p]] /\ at[p] \in 1 .. 3
      /\ preparePc' = [preparePc EXCEPT ![p] = "done"]
      /\ prepareResult' = [prepareResult EXCEPT ![p] = r]
      /\ errno' = [errno EXCEPT ![p] = e]
  BY PrepareOrder DEF PrepareInv, Prepare!TypeOK, Prepare!Return
<1>3. PrepareComes(at[p], e, "done", r)
  BY DEF PrepareComes
<1>4. "done" \in {"idle", "look", "make", "look again", "done"}
  OBVIOUS
<1>5. PrepareMove(p, at[p], e, "done", r)
  BY <1>2, <1>3, <1>4, Zenon DEF PrepareMove
<1> QED
  BY <1>1, <1>5, PrepareMoves

(* It goes on, at the same location. *)
LEMMA PrepareGoesOn ==
    ASSUME PrepareInv, UNCHANGED <<fs, prepareDisturbed>>, NEW p \in Procs, PrepareBusy(p),
           NEW label \in {"make", "look again"},
           preparePc' = [preparePc EXCEPT ![p] = label],
           UNCHANGED <<at, prepareResult>>,
           errno' = [errno EXCEPT ![p] = FALSE] \/ UNCHANGED errno,
           label = "look again" => fs[Prepare!Order[at[p]]] # "absent"
    PROVE  PrepareInv'
<1>1. PrepareGrows
  BY PrepareStays DEF PrepareInv, Prepare!TypeOK
<1>2. /\ at[p] \in 1 .. 3 /\ errno[p] = FALSE /\ prepareResult[p] \in PrepareResults
      /\ at \in [Procs -> 1 .. 3] /\ errno \in [Procs -> BOOLEAN]
      /\ prepareResult \in [Procs -> PrepareResults]
  BY PrepareOrder DEF PrepareInv, Prepare!TypeOK, PrepareResults
<1>3. /\ at' = [at EXCEPT ![p] = at[p]]
      /\ prepareResult' = [prepareResult EXCEPT ![p] = prepareResult[p]]
  <2>1. at = [at EXCEPT ![p] = at[p]]
    BY <1>2, Zenon
  <2>2. prepareResult = [prepareResult EXCEPT ![p] = prepareResult[p]]
    BY <1>2, Zenon
  <2> QED
    BY <2>1, <2>2
<1>4. errno' = [errno EXCEPT ![p] = FALSE]
  <2>1. errno = [errno EXCEPT ![p] = FALSE]
    BY <1>2, Zenon
  <2> QED
    BY <2>1
<1>5. \A i \in 1 .. at[p] - 1 : fs'[Prepare!Order[i]] = "dir"
  BY Zenon DEF PrepareInv, PrepareBusy, Prepare!PassedAreDirectories
<1>6. fs' = fs /\ label # "done"
  OBVIOUS
<1>7. PrepareComes(at[p], FALSE, label, prepareResult[p])
  BY <1>5, <1>6, Zenon DEF PrepareComes
<1>8. label \in {"idle", "look", "make", "look again", "done"} /\ FALSE \in BOOLEAN
  OBVIOUS
<1>9. PrepareMove(p, at[p], FALSE, label, prepareResult[p])
  BY <1>2, <1>3, <1>4, <1>7, <1>8 DEF PrepareMove
<1> QED
  BY <1>1, <1>9, PrepareMoves

LEMMA PrepareCallStep ==
    ASSUME PrepareInv, NEW p \in Procs, Prepare!Call(p) \/ Prepare!Crash(p) PROVE PrepareInv'
<1>1. PrepareGrows
  BY PrepareStays DEF PrepareInv, Prepare!TypeOK, Prepare!Call, Prepare!Crash
<1>2. /\ at[p] \in 1 .. 3 /\ errno[p] \in BOOLEAN /\ prepareResult[p] \in PrepareResults
      /\ at \in [Procs -> 1 .. 3] /\ errno \in [Procs -> BOOLEAN]
      /\ prepareResult \in [Procs -> PrepareResults]
  BY PrepareOrder DEF PrepareInv, Prepare!TypeOK, PrepareResults
<1>3. /\ at = [at EXCEPT ![p] = at[p]] /\ errno = [errno EXCEPT ![p] = errno[p]]
      /\ prepareResult = [prepareResult EXCEPT ![p] = prepareResult[p]]
  BY <1>2, Zenon
<1>4. CASE Prepare!Call(p)
  <2>1. /\ preparePc' = [preparePc EXCEPT ![p] = "look"] /\ at' = [at EXCEPT ![p] = 1]
        /\ errno' = [errno EXCEPT ![p] = FALSE]
        /\ prepareResult' = [prepareResult EXCEPT ![p] = prepareResult[p]]
    BY <1>3, <1>4 DEF Prepare!Call
  <2>2. PrepareComes(1, FALSE, "look", prepareResult[p])
    BY DEF PrepareComes
  <2>3. /\ "look" \in {"idle", "look", "make", "look again", "done"} /\ FALSE \in BOOLEAN
        /\ 1 \in 1 .. 3
    OBVIOUS
  <2> QED
    <3>1. PrepareMove(p, 1, FALSE, "look", prepareResult[p])
      BY <1>2, <2>1, <2>2, <2>3, Zenon DEF PrepareMove
    <3> QED
      BY <1>1, <3>1, PrepareMoves
<1>5. CASE Prepare!Crash(p)
  <2>1. /\ preparePc' = [preparePc EXCEPT ![p] = "idle"]
        /\ prepareResult' = [prepareResult EXCEPT ![p] = "INVALID"]
        /\ at' = [at EXCEPT ![p] = at[p]] /\ errno' = [errno EXCEPT ![p] = errno[p]]
    BY <1>3, <1>5 DEF Prepare!Crash
  <2>2. PrepareComes(at[p], errno[p], "idle", "INVALID")
    BY DEF PrepareComes
  <2>3. "idle" \in {"idle", "look", "make", "look again", "done"} /\ "INVALID" \in PrepareResults
    BY DEF PrepareResults
  <2> QED
    <3>1. PrepareMove(p, at[p], errno[p], "idle", "INVALID")
      BY <1>2, <2>1, <2>2, <2>3, Zenon DEF PrepareMove
    <3> QED
      BY <1>1, <3>1, PrepareMoves
<1> QED
  BY <1>4, <1>5

LEMMA PrepareLookStep ==
    ASSUME PrepareInv, NEW p \in Procs, Prepare!Look(p) \/ Prepare!LookFails(p)
    PROVE  PrepareInv'
<1>1. PrepareBusy(p) /\ UNCHANGED fs
  BY DEF Prepare!Look, Prepare!LookFails, PrepareBusy
<1>2. errno[p] \in BOOLEAN /\ at[p] \in 1 .. 3 /\ Prepare!Order[at[p]] \in Prepare!Locations
  <2>1. errno[p] \in BOOLEAN /\ at[p] \in 1 .. 3
    BY PrepareOrder DEF PrepareInv, Prepare!TypeOK
  <2> QED
    BY <2>1, PrepareOrder, Zenon
<1>3. CASE Prepare!LookFails(p)
  <2>1. PICK r \in Prepare!InspectionErrors : Prepare!Return(p, r, TRUE)
    BY <1>3 DEF Prepare!LookFails
  <2>2. r \in PrepareResults /\ r # "OK" /\ prepareDisturbed' = TRUE
    BY <1>3 DEF PrepareResults, Prepare!InspectionErrors, Prepare!LookFails
  <2> QED
    BY <1>1, <2>1, <2>2, PrepareReturns
<1>4. CASE Prepare!Look(p)
  <2> DEFINE k == fs[Prepare!Order[at[p]]]
  <2>1. UNCHANGED prepareDisturbed /\ k \in Prepare!Kinds
        /\ prepareDisturbed \in BOOLEAN
        /\ (preparePc[p] = "look again" => k # "absent")
    BY <1>2, <1>4 DEF Prepare!Look, PrepareInv, Prepare!TypeOK
  <2>2. CASE k = "absent"
    <3>1. Prepare!Goto(p, "make")
      BY <1>4, <2>1, <2>2 DEF Prepare!Look, Prepare!inspect_directory
    <3> QED
      BY <1>1, <2>1, <3>1, PrepareGoesOn DEF Prepare!Goto
  <2>3. CASE k \in {"file", "link"}
    <3>1. \E r \in {"SYMLINK", "NOT_DIRECTORY"} : Prepare!Return(p, r, errno[p])
      BY <1>4, <2>3 DEF Prepare!Look, Prepare!inspect_directory
    <3>2. prepareDisturbed' = TRUE
      BY <1>2, <2>1, <2>3 DEF PrepareInv
    <3>3. {"SYMLINK", "NOT_DIRECTORY"} \subseteq PrepareResults
      BY DEF PrepareResults, Prepare!InspectionErrors
    <3> QED
      BY <1>1, <1>2, <3>1, <3>2, <3>3, PrepareReturns
  <2>4. CASE k = "dir"
    <3>1. Prepare!Ready(p)
      BY <1>4, <2>4 DEF Prepare!Look, Prepare!inspect_directory
    <3>2. PrepareGrows
      BY <1>1, <2>1, PrepareStays
    <3> QED
      BY <1>1, <2>1, <2>4, <3>1, <3>2, PrepareReady
  <2> QED
    BY <2>1, <2>2, <2>3, <2>4 DEF Prepare!Kinds
<1> QED
  BY <1>3, <1>4

LEMMA PrepareMakeStep ==
    ASSUME PrepareInv, NEW p \in Procs, Prepare!Make(p) \/ Prepare!MakeFails(p)
    PROVE  PrepareInv'
<1>1. PrepareBusy(p)
  BY DEF Prepare!Make, Prepare!MakeFails, PrepareBusy
<1>2. at[p] \in 1 .. 3 /\ Prepare!Order[at[p]] \in Prepare!Locations
  <2>1. at[p] \in 1 .. 3
    BY PrepareOrder DEF PrepareInv, Prepare!TypeOK
  <2> QED
    BY <2>1, PrepareOrder, Zenon
<1>3. CASE Prepare!MakeFails(p)
  <2>1. PICK r \in Prepare!CreationErrors : Prepare!Return(p, r, TRUE)
    BY <1>3 DEF Prepare!MakeFails
  <2>2. r \in PrepareResults /\ r # "OK" /\ prepareDisturbed' = TRUE /\ UNCHANGED fs
    BY <1>3 DEF PrepareResults, Prepare!CreationErrors, Prepare!MakeFails
  <2> QED
    BY <2>1, <2>2, PrepareReturns
<1>4. CASE Prepare!Make(p)
  <2> DEFINE l == Prepare!Order[at[p]]
  <2>1. UNCHANGED prepareDisturbed
    BY <1>4 DEF Prepare!Make
  <2>2. CASE fs[l] = "absent"
    <3>1. fs' = [fs EXCEPT ![l] = "dir"] /\ Prepare!Ready(p)
      BY <1>4, <2>2 DEF Prepare!Make
    <3>2. PrepareGrows /\ fs'[l] = "dir"
      BY <1>2, <2>1, <2>2, <3>1
      DEF PrepareGrows, PrepareInv, Prepare!TypeOK, Prepare!Kinds
    <3> QED
      BY <1>1, <2>1, <3>1, <3>2, PrepareReady
  <2>3. CASE fs[l] # "absent"
    BY <1>1, <1>4, <2>1, <2>3, PrepareGoesOn DEF Prepare!Make, Prepare!Exists
  <2> QED
    BY <2>2, <2>3
<1> QED
  BY <1>3, <1>4

LEMMA PrepareMeddleStep == ASSUME PrepareInv, Prepare!Meddle PROVE PrepareInv'
<1>1. PICK l \in Prepare!Locations, k \in Prepare!Kinds \ {"absent"} :
        /\ fs[l] = "absent" /\ fs' = [fs EXCEPT ![l] = k]
        /\ prepareDisturbed' = (prepareDisturbed \/ k # "dir")
        /\ UNCHANGED <<preparePc, at, prepareResult, errno>>
  BY DEF Prepare!Meddle
<1>2. PrepareGrows
  BY <1>1 DEF PrepareGrows, PrepareInv, Prepare!TypeOK, Prepare!Kinds
<1>3. \A p \in Procs : at[p] \in 1 .. 3
  BY PrepareOrder DEF PrepareInv, Prepare!TypeOK
<1>4. \A m \in Prepare!Locations : fs[m] # "absent" => fs'[m] = fs[m]
  BY <1>2 DEF PrepareGrows
<1>5. Prepare!TypeOK'
  BY <1>1, <1>2 DEF PrepareGrows, PrepareInv, Prepare!TypeOK, Prepare!Order
<1>6. \A p \in Procs : preparePc[p] = "look again" => fs'[Prepare!Order[at[p]]] # "absent"
  <2> SUFFICES ASSUME NEW p \in Procs, preparePc[p] = "look again"
               PROVE  fs'[Prepare!Order[at[p]]] # "absent"
    OBVIOUS
  <2>1. fs[Prepare!Order[at[p]]] # "absent"
    BY Zenon DEF PrepareInv
  <2>2. Prepare!Order[at[p]] \in Prepare!Locations
    BY <1>3, PrepareOrder, Zenon
  <2> QED
    BY <1>4, <2>1, <2>2, Zenon
<1>7. (~prepareDisturbed => \A m \in Prepare!Locations : fs[m] \in {"absent", "dir"})'
  BY <1>2 DEF PrepareGrows, Prepare!Locations, Prepare!Order
<1>8. Prepare!OkIsPrepared'
  <2> SUFFICES ASSUME NEW p \in Procs, preparePc[p] = "done", prepareResult[p] = "OK"
               PROVE  (\A m \in Prepare!Locations : fs'[m] = "dir") /\ ~errno[p]
    BY <1>1 DEF Prepare!OkIsPrepared, Prepare!Locations, Prepare!Order
  <2>1. (\A m \in Prepare!Locations : fs[m] = "dir") /\ ~errno[p]
    BY Zenon DEF PrepareInv, Prepare!OkIsPrepared
  <2>2. "dir" # "absent"
    OBVIOUS
  <2> QED
    BY <1>4, <2>1, <2>2, Zenon
<1>9. Prepare!RaceIsNoFailure'
  <2>1. prepareDisturbed => prepareDisturbed'
    BY <1>1, Zenon
  <2> QED
    BY <1>1, <2>1 DEF PrepareInv, Prepare!RaceIsNoFailure
<1>10. Prepare!PassedAreDirectories'
  <2> SUFFICES ASSUME NEW p \in Procs, PrepareBusy(p), NEW i \in 1 .. at[p] - 1
               PROVE  fs'[Prepare!Order[i]] = "dir"
    BY <1>1 DEF Prepare!PassedAreDirectories, Prepare!Order, PrepareBusy
  <2>1. fs[Prepare!Order[i]] = "dir" /\ "dir" # "absent"
    <3>1. fs[Prepare!Order[i]] = "dir"
      BY Zenon DEF PrepareInv, Prepare!PassedAreDirectories, PrepareBusy
    <3> QED
      BY <3>1
  <2>2. i \in 1 .. 3
    <3>1. PICK n \in 1 .. 3 : i \in 1 .. n - 1
      BY <1>3, Zenon
    <3> QED
      BY <3>1
  <2>3. Prepare!Order[i] \in Prepare!Locations
    BY <2>2, PrepareOrder, Zenon
  <2> QED
    BY <1>4, <2>1, <2>3, Zenon
<1>11. \A p \in Procs : PrepareBusy(p)' => errno'[p] = FALSE
  BY <1>1 DEF PrepareInv, PrepareBusy
<1> QED
  BY <1>1, <1>5, <1>6, <1>7, <1>8, <1>9, <1>10, <1>11
  DEF PrepareInv, Prepare!Locations, Prepare!Order

LEMMA PrepareStep == ASSUME PrepareInv, Prepare!Next PROVE PrepareInv'
BY PrepareCallStep, PrepareLookStep, PrepareMakeStep, PrepareMeddleStep DEF Prepare!Next

LEMMA PrepareIdle == ASSUME PrepareInv, UNCHANGED prepareVars PROVE PrepareInv'
<1>1. UNCHANGED <<fs, preparePc, at, prepareResult, errno, prepareDisturbed>>
  BY DEF prepareVars
<1>2. /\ Prepare!TypeOK' /\ Prepare!OkIsPrepared' /\ Prepare!RaceIsNoFailure'
      /\ Prepare!PassedAreDirectories' /\ Prepare!Locations' = Prepare!Locations
      /\ \A p : PrepareBusy(p)' <=> PrepareBusy(p)
  BY <1>1 DEF PrepareInv, Prepare!TypeOK, Prepare!OkIsPrepared, Prepare!RaceIsNoFailure,
              Prepare!PassedAreDirectories, Prepare!Order, Prepare!Locations, PrepareBusy
<1> QED
  BY <1>1, <1>2 DEF PrepareInv, Prepare!Order

-----------------------------------------------------------------------------
(* The identity of a book.                                                  *)

(* The powers of four, up to n; they exist, and there is one choice.         *)
Powers(n, f) ==
    /\ f \in [0 .. n -> Nat] /\ f[0] = 1
    /\ \A k \in 1 .. n : f[k] = 4 * f[k - 1]

LEMMA PowersExist == ASSUME NEW n \in Nat PROVE \E f : Powers(n, f)
<1> DEFINE Bad == {m \in Nat : ~\E f : Powers(m, f)}
<1> SUFFICES ASSUME Bad # {} PROVE FALSE
  OBVIOUS
<1>1. PICK m \in Bad : \A k \in Bad : m <= k
  BY Least
<1>2. CASE m = 0
  <2>1. Powers(0, [k \in 0 .. 0 |-> 1])
    BY DEF Powers
  <2> QED
    BY <1>1, <1>2, <2>1
<1>3. CASE m # 0
  <2>1. m \in Nat \ {0} /\ m - 1 \in Nat /\ ~(m <= m - 1)
    BY <1>1, <1>3
  <2>2. PICK f : Powers(m - 1, f)
    BY <1>1, <2>1
  <2> DEFINE g == [k \in 0 .. m |-> IF k = m THEN 4 * f[m - 1] ELSE f[k]]
  <2>3. Powers(m, g)
    BY <2>1, <2>2 DEF Powers
  <2> QED
    BY <1>1, <2>3
<1> QED
  BY <1>2, <1>3

LEMMA PowersAgree ==
    ASSUME NEW m \in Nat, NEW n \in Nat, NEW f, NEW g, Powers(m, f), Powers(n, g),
           NEW k \in 0 .. m, k <= n
    PROVE  f[k] = g[k]
<1> DEFINE Bad == {j \in Nat : j <= m /\ j <= n /\ f[j] # g[j]}
<1> SUFFICES ASSUME Bad # {} PROVE FALSE
  OBVIOUS
<1>1. PICK j \in Bad : \A l \in Bad : j <= l
  BY Least
<1>2. j # 0
  BY <1>1 DEF Powers
<1>3. j \in Nat \ {0} /\ j - 1 \in Nat /\ ~(j <= j - 1) /\ j - 1 <= m /\ j - 1 <= n
      /\ j \in 1 .. m /\ j \in 1 .. n
  BY <1>1, <1>2
<1>4. f[j - 1] = g[j - 1]
  BY <1>1, <1>3
<1>5. f[j] = 4 * f[j - 1] /\ g[j] = 4 * g[j - 1]
  BY <1>3 DEF Powers
<1> QED
  BY <1>1, <1>4, <1>5

LEMMA FourTo ==
    /\ Identity!FourTo \in [Nat -> Nat] /\ Identity!FourTo[0] = 1
    /\ \A n \in Nat : Identity!FourTo[n + 1] = 4 * Identity!FourTo[n]
<1> DEFINE P(n) == CHOOSE f : Powers(n, f)
           G == [n \in Nat |-> P(n)[n]]
<1>1. \A n \in Nat : Powers(n, P(n))
  BY PowersExist, Zenon
<1> HIDE DEF P
<1>2. G[0] = 1 /\ G \in [Nat -> Nat]
  <2>1. \A n \in Nat : n \in 0 .. n
    OBVIOUS
  <2> QED
    BY <1>1, <2>1 DEF Powers
<1>3. ASSUME NEW n \in Nat PROVE G[n + 1] = 4 * G[n]
  <2>1. n + 1 \in Nat /\ n + 1 \in 1 .. n + 1 /\ (n + 1) - 1 = n /\ n \in 0 .. n + 1 /\ n <= n
    OBVIOUS
  <2>2. P(n + 1)[n + 1] = 4 * P(n + 1)[n]
    BY <1>1, <2>1 DEF Powers
  <2>3. P(n + 1)[n] = P(n)[n]
    BY <1>1, <2>1, PowersAgree
  <2> QED
    BY <2>1, <2>2, <2>3
<1>4. G = [n \in Nat |-> IF n = 0 THEN 1 ELSE 4 * G[n - 1]]
  <2>1. ASSUME NEW n \in Nat \ {0} PROVE G[n] = 4 * G[n - 1]
    <3>1. n - 1 \in Nat /\ (n - 1) + 1 = n
      OBVIOUS
    <3> HIDE DEF G
    <3> QED
      BY <1>3, <3>1
  <2> HIDE DEF G
  <2> QED
    BY <1>2, <2>1
<1>5. Identity!FourTo = [n \in Nat |-> IF n = 0 THEN 1 ELSE 4 * Identity!FourTo[n - 1]]
  <2> HIDE DEF G
  <2>1. \E f : f = [n \in Nat |-> IF n = 0 THEN 1 ELSE 4 * f[n - 1]]
    BY <1>4, Zenon
  <2> QED
    BY <2>1, Zenon DEF Identity!FourTo
<1>6. \A n \in Nat : Identity!FourTo[n] \in Nat
  <2> DEFINE Bad == {n \in Nat : Identity!FourTo[n] \notin Nat}
  <2> SUFFICES ASSUME Bad # {} PROVE FALSE
    OBVIOUS
  <2>1. PICK n \in Bad : \A k \in Bad : n <= k
    BY Least
  <2>2. n # 0
    BY <1>5, <2>1
  <2>3. n - 1 \in Nat /\ ~(n <= n - 1)
    BY <2>1, <2>2
  <2>4. Identity!FourTo[n - 1] \in Nat
    BY <2>1, <2>3
  <2>5. Identity!FourTo[n] = 4 * Identity!FourTo[n - 1]
    BY <1>5, <2>1, <2>2
  <2> QED
    BY <2>1, <2>4, <2>5
<1>7. DOMAIN Identity!FourTo = Nat
  BY <1>5, Zenon
<1> QED
  <2>1. Identity!FourTo \in [Nat -> Nat]
    BY <1>5, <1>6, Zenon
  <2>2. Identity!FourTo[0] = 1
    BY <1>5
  <2>3. ASSUME NEW n \in Nat PROVE Identity!FourTo[n + 1] = 4 * Identity!FourTo[n]
    <3>1. n + 1 \in Nat /\ n + 1 # 0 /\ (n + 1) - 1 = n
      OBVIOUS
    <3> QED
      BY <1>5, <3>1
  <2> QED
    BY <2>1, <2>2, <2>3

(* The windows follow one another.                                           *)
Offset(k) == Identity!SAMPLE_OFFSET(k)
Inside(p, k) == Offset(k) <= p /\ p < Offset(k) + SAMPLE_BYTES

LEMMA Times == ASSUME NEW a \in Nat, NEW b \in Nat, NEW c \in Nat, a <= b PROVE a * c <= b * c
<1>1. b - a \in Nat /\ b = a + (b - a)
  OBVIOUS
<1>2. b * c = a * c + (b - a) * c
  BY <1>1
<1>3. (b - a) * c \in Nat /\ a * c \in Nat
  BY <1>1
<1> QED
  BY <1>2, <1>3

LEMMA PowerIsPositive == \A n \in Nat : Identity!FourTo[n] >= 1
<1> DEFINE Bad == {n \in Nat : ~(Identity!FourTo[n] >= 1)}
<1> SUFFICES ASSUME Bad # {} PROVE FALSE
  OBVIOUS
<1>1. PICK n \in Bad : \A k \in Bad : n <= k
  BY Least
<1>2. n # 0
  BY <1>1, FourTo
<1>3. n - 1 \in Nat /\ ~(n <= n - 1) /\ (n - 1) + 1 = n
  BY <1>1, <1>2
<1>4. Identity!FourTo[n] = 4 * Identity!FourTo[n - 1]
  BY <1>3, FourTo
<1>5. Identity!FourTo[n - 1] >= 1 /\ Identity!FourTo[n - 1] \in Nat
  BY <1>1, <1>3, FourTo
<1> QED
  BY <1>1, <1>4, <1>5

LEMMA Offsets ==
    /\ Offset(0) = 0
    /\ \A k \in Nat : Offset(k) \in Nat /\ Offset(k) + SAMPLE_BYTES <= Offset(k + 1)
<1>1. SAMPLE_BYTES \in Nat \ {0}
  BY IdentityAssumption, Zenon DEF Identity!SampleAssumption
<1>2. Offset(0) = 0 /\ Offset(1) = SAMPLE_BYTES
  BY <1>1, FourTo DEF Offset, Identity!SAMPLE_OFFSET
<1>3. ASSUME NEW k \in Nat, k # 0
      PROVE  Offset(k) \in Nat /\ Offset(k) + SAMPLE_BYTES <= Offset(k + 1)
  <2>1. k - 1 \in Nat /\ (k + 1) - 1 = (k - 1) + 1 /\ k + 1 # 0 /\ k = (k - 1) + 1
    BY <1>3
  <2>2. PICK f \in Nat : f = Identity!FourTo[k - 1] /\ f >= 1
    BY <2>1, FourTo, PowerIsPositive
  <2>3. Identity!FourTo[(k + 1) - 1] = 4 * f
    BY <2>1, <2>2, FourTo
  <2>4. Offset(k) = SAMPLE_BYTES * f
    BY <1>3, <2>2 DEF Offset, Identity!SAMPLE_OFFSET
  <2>5. Offset(k + 1) = SAMPLE_BYTES * (4 * f)
    BY <2>1, <2>3, Zenon DEF Offset, Identity!SAMPLE_OFFSET
  <2>6. SAMPLE_BYTES * (4 * f) = 4 * (SAMPLE_BYTES * f)
    BY <1>1
  <2>7. 1 * SAMPLE_BYTES <= f * SAMPLE_BYTES
    BY <1>1, <2>2, Times
  <2>8. SAMPLE_BYTES <= SAMPLE_BYTES * f /\ SAMPLE_BYTES * f \in Nat
    BY <1>1, <2>7
  <2> QED
    BY <1>1, <2>4, <2>5, <2>6, <2>8
<1> QED
  BY <1>1, <1>2, <1>3

LEMMA OffsetsGrow ==
    ASSUME NEW j \in Nat, NEW k \in Nat, j < k PROVE Offset(j) + SAMPLE_BYTES <= Offset(k)
<1> DEFINE Bad == {n \in Nat : j < n /\ ~(Offset(j) + SAMPLE_BYTES <= Offset(n))}
<1> SUFFICES ASSUME Bad # {} PROVE FALSE
  OBVIOUS
<1>1. PICK n \in Bad : \A m \in Bad : n <= m
  BY Least
<1>2. n - 1 \in Nat /\ ~(n <= n - 1) /\ (n - 1) + 1 = n /\ n - 1 >= j
  BY <1>1
<1>3. SAMPLE_BYTES \in Nat \ {0}
  BY IdentityAssumption, Zenon DEF Identity!SampleAssumption
<1>4. Offset(n - 1) + SAMPLE_BYTES <= Offset(n) /\ Offset(n - 1) \in Nat /\ Offset(n) \in Nat
      /\ Offset(j) \in Nat
  BY <1>2, Offsets
<1>5. CASE n - 1 = j
  BY <1>1, <1>4, <1>5
<1>6. CASE n - 1 # j
  <2>1. Offset(j) + SAMPLE_BYTES <= Offset(n - 1)
    BY <1>1, <1>2, <1>6
  <2> QED
    BY <1>1, <1>3, <1>4, <2>1
<1> QED
  BY <1>5, <1>6

LEMMA SampledIsInside ==
    ASSUME NEW p \in Nat PROVE Identity!Sampled(p) <=> \E k \in 0 .. SAMPLES - 1 : Inside(p, k)
<1>1. SAMPLE_BYTES \in Nat \ {0} /\ SAMPLES \in Nat \ {0}
  BY IdentityAssumption, Zenon DEF Identity!SampleAssumption
<1>2. Inside(p, 0) <=> p < SAMPLE_BYTES
  BY <1>1, Offsets DEF Inside
<1>3. ASSUME NEW n \in 0 .. SAMPLES - 2
      PROVE  /\ n + 1 \in 0 .. SAMPLES - 1
             /\ Offset(n + 1) = SAMPLE_BYTES * Identity!FourTo[n]
  <2>1. n + 1 \in 0 .. SAMPLES - 1 /\ n + 1 # 0 /\ (n + 1) - 1 = n
    BY <1>1
  <2> QED
    BY <2>1, Zenon DEF Offset, Identity!SAMPLE_OFFSET
<1>4. ASSUME NEW k \in 0 .. SAMPLES - 1, k # 0
      PROVE  /\ k - 1 \in 0 .. SAMPLES - 2
             /\ Offset(k) = SAMPLE_BYTES * Identity!FourTo[k - 1]
  <2>1. k - 1 \in 0 .. SAMPLES - 2
    BY <1>1, <1>4
  <2> QED
    BY <1>4, <2>1 DEF Offset, Identity!SAMPLE_OFFSET
<1>5. ASSUME Identity!Sampled(p) PROVE \E k \in 0 .. SAMPLES - 1 : Inside(p, k)
  <2>1. CASE p < SAMPLE_BYTES
    <3>1. 0 \in 0 .. SAMPLES - 1
      BY <1>1
    <3> QED
      BY <1>2, <2>1, <3>1
  <2>2. ASSUME NEW n \in 0 .. SAMPLES - 2,
               p >= SAMPLE_BYTES * Identity!FourTo[n],
               p < SAMPLE_BYTES * Identity!FourTo[n] + SAMPLE_BYTES
        PROVE  \E k \in 0 .. SAMPLES - 1 : Inside(p, k)
    <3> DEFINE o == SAMPLE_BYTES * Identity!FourTo[n]
    <3>1. o = Offset(n + 1) /\ n + 1 \in 0 .. SAMPLES - 1 /\ n + 1 \in Nat
      BY <1>3
    <3>2. o \in Nat
      BY <3>1, Offsets
    <3>3. p >= o /\ p < o + SAMPLE_BYTES
      BY <2>2
    <3> HIDE DEF o
    <3>4. o <= p
      BY <3>2, <3>3
    <3> QED
      BY <3>1, <3>3, <3>4, Zenon DEF Inside
  <2> QED
    BY <1>5, <2>1, <2>2, Zenon DEF Identity!Sampled
<1>6. ASSUME NEW k \in 0 .. SAMPLES - 1, Inside(p, k) PROVE Identity!Sampled(p)
  <2>1. CASE k = 0
    BY <1>2, <1>6, <2>1, Zenon DEF Identity!Sampled
  <2>2. CASE k # 0
    <3>1. k - 1 \in 0 .. SAMPLES - 2 /\ Offset(k) = SAMPLE_BYTES * Identity!FourTo[k - 1]
      BY <1>4, <2>2
    <3>2. Offset(k) \in Nat
      BY Offsets
    <3>3. p >= Offset(k) /\ p < Offset(k) + SAMPLE_BYTES
      BY <1>6, <3>2 DEF Inside
    <3> QED
      BY <3>1, <3>3, Zenon DEF Identity!Sampled
  <2> QED
    BY <2>1, <2>2
<1> QED
  BY <1>5, <1>6, Zenon

(* What has been fed to the digest: of the bytes there are, in order, those   *)
(* of the windows read so far.                                               *)
Reached(k) == {q \in 0 .. size - 1 : \E j \in 0 .. k - 1 : Inside(q, j)}
IdentityFed ==
    /\ \A m, n \in DOMAIN context : m < n => context[m][1] < context[n][1]
    /\ {context[n] : n \in DOMAIN context} = {<<p, writes>> : p \in Reached(identityI)}
    /\ identityPc = "close" => identityI = SAMPLES \/ size <= Offset(identityI)

IdentityInv ==
    /\ Identity!TypeOK /\ context \in Seq(Nat \X Nat)
    /\ Len(context) <= identityI * SAMPLE_BYTES
    /\ identityPc = "sample" => identityI < SAMPLES
    /\ identityPc # "idle" => hex = Identity!NoHex
    /\ identityStill /\ identityPc # "idle" => IdentityFed
    /\ Identity!OkIsKoreaders /\ Identity!FailureHasNoText

LEMMA IdentityConstants ==
    /\ SAMPLE_BYTES \in Nat \ {0} /\ SAMPLES \in Nat \ {0}
    /\ BookSize \in Nat /\ MaxWrites \in Nat /\ MaxCalls \in Nat
BY IdentityAssumption, Zenon DEF Identity!SampleAssumption

LEMMA IdentityInitially == ASSUME Identity!Init PROVE IdentityInv
<1>1. /\ size \in 0 .. BookSize /\ writes = 0 /\ identityStill = TRUE /\ calls = 0
      /\ identityPc = "idle" /\ identityI = 0 /\ context = <<>> /\ open = FALSE
      /\ hex = Identity!NoHex /\ identityResult = "INVALID"
  BY Zenon DEF Identity!Init
<1>2. context \in Seq(Nat \X Nat) /\ Len(context) = 0
  BY <1>1
<1>3. 0 <= SAMPLES * SAMPLE_BYTES /\ 0 <= 0 * SAMPLE_BYTES
  <2>1. SAMPLES * SAMPLE_BYTES \in Nat
    BY IdentityConstants
  <2> QED
    BY <2>1, IdentityConstants
<1>4. /\ 0 \in 0 .. MaxWrites /\ 0 \in 0 .. MaxCalls /\ 0 \in 0 .. SAMPLES
  BY IdentityConstants
<1>5. Identity!TypeOK
  BY <1>1, <1>2, <1>3, <1>4, Zenon DEF Identity!TypeOK
<1>6. ~hex.text
  BY <1>1, Zenon DEF Identity!NoHex
<1>7. Identity!OkIsKoreaders /\ Identity!FailureHasNoText
  BY <1>1, <1>6, Zenon DEF Identity!OkIsKoreaders, Identity!FailureHasNoText
<1> QED
  BY <1>1, <1>2, <1>3, <1>5, <1>7, Zenon DEF IdentityInv

LEMMA IdentityBeginStep == ASSUME IdentityInv, Identity!Begin PROVE IdentityInv'
<1>1. /\ Identity!TypeOK
      /\ calls < MaxCalls /\ calls' = calls + 1 /\ identityStill' = TRUE /\ identityI' = 0
      /\ context' = <<>> /\ hex' = Identity!NoHex /\ size' = size /\ writes' = writes
      /\ \/ identityPc' = "sample" /\ open' = TRUE /\ identityResult' = "IO_ERROR"
         \/ identityPc' = "idle" /\ open' = FALSE
            /\ (identityResult' = "INVALID" \/ identityResult' = "IO_ERROR")
  BY Zenon DEF IdentityInv, Identity!Begin
<1>2. context' \in Seq(Nat \X Nat) /\ Len(context') = 0 /\ DOMAIN context' = {}
  BY <1>1
<1>3. 0 <= SAMPLES * SAMPLE_BYTES /\ 0 <= 0 * SAMPLE_BYTES
  <2>1. SAMPLES * SAMPLE_BYTES \in Nat
    BY IdentityConstants
  <2> QED
    BY <2>1, IdentityConstants
<1>4. 0 \in 0 .. SAMPLES /\ 0 < SAMPLES
  BY IdentityConstants
<1>5. calls \in 0 .. MaxCalls => calls' \in 0 .. MaxCalls
  BY <1>1, IdentityConstants
<1>6. Identity!TypeOK'
  BY <1>1, <1>2, <1>3, <1>4, <1>5, Zenon DEF Identity!TypeOK
<1>7. ~hex'.text
  BY <1>1, Zenon DEF Identity!NoHex
<1>8. Identity!OkIsKoreaders' /\ Identity!FailureHasNoText'
  BY <1>1, <1>7, Zenon DEF Identity!OkIsKoreaders, Identity!FailureHasNoText
<1>9. IdentityFed'
  <2>1. Reached(0)' = {}
    <3>1. \A j : j \notin 0 .. 0 - 1
      OBVIOUS
    <3> QED
      BY <3>1, Zenon DEF Reached
  <2>2. {context'[n] : n \in DOMAIN context'} = {} /\ {<<p, writes'>> : p \in Reached(0)'} = {}
    BY <1>2, <2>1
  <2>3. identityPc' # "close"
    BY <1>1
  <2> QED
    BY <1>1, <1>2, <2>1, <2>2, <2>3, Zenon DEF IdentityFed
<1>10. hex' = Identity!NoHex'
  BY <1>1, Zenon DEF Identity!NoHex
<1> QED
  BY <1>1, <1>2, <1>3, <1>4, <1>6, <1>8, <1>9, <1>10, Zenon DEF IdentityInv

(* One window: the bytes from an offset on, up to the end of the file.       *)
LEMMA WindowIs ==
    ASSUME NEW from \in Nat, size \in Nat, writes \in Nat
    PROVE  LET w == Identity!Window(from)
           IN  /\ w \in Seq(Nat \X Nat) /\ Len(w) <= SAMPLE_BYTES
               /\ w = <<>> => size <= from
               /\ w # <<>> => from + Len(w) <= size
               /\ w # <<>> => Len(w) = SAMPLE_BYTES \/ from + Len(w) = size
               /\ DOMAIN w = 1 .. Len(w)
               /\ \A n \in 1 .. Len(w) : w[n] = <<from + n - 1, writes>>
<1> DEFINE m == Identity!Max({size, from})
           l == Identity!Min({SAMPLE_BYTES, m - from})
<1>1. m \in Nat /\ (size >= from => m = size) /\ (size < from => m = from)
  <2>1. m \in {size, from} /\ m >= size /\ m >= from
    <3>1. \E y \in {size, from} : \A z \in {size, from} : y >= z
      OBVIOUS
    <3>2. m = CHOOSE y \in {size, from} : \A z \in {size, from} : y >= z
      BY Zenon DEF Identity!Max
    <3> HIDE DEF m
    <3>3. m \in {size, from} /\ \A z \in {size, from} : m >= z
      BY <3>1, <3>2
    <3> QED
      BY <3>3
  <2> HIDE DEF m
  <2> QED
    BY <2>1
<1>2. l \in {SAMPLE_BYTES, m - from} /\ l <= SAMPLE_BYTES /\ l <= m - from
  <2> HIDE DEF m
  <2> DEFINE s == {SAMPLE_BYTES, m - from}
  <2>1. m - from \in Nat
    BY <1>1
  <2>2. \E y \in s : \A z \in s : y <= z
    BY <2>1, IdentityConstants
  <2>3. l = CHOOSE y \in s : \A z \in s : y <= z
    BY Zenon DEF Identity!Min
  <2> HIDE DEF l
  <2>4. l \in s /\ \A z \in s : l <= z
    BY <2>2, <2>3
  <2> QED
    BY <2>4
<1> DEFINE w == [n \in 1 .. l |-> <<from + n - 1, writes>>]
<1>3. Identity!Window(from) = w
  BY Zenon DEF Identity!Window
<1> HIDE DEF m, l
<1>4. l \in Nat
  BY <1>1, <1>2, IdentityConstants
<1>5. \A n \in 1 .. l : <<from + n - 1, writes>> \in Nat \X Nat
  OBVIOUS
<1>6. w \in Seq(Nat \X Nat) /\ Len(w) = l /\ DOMAIN w = 1 .. l
  BY <1>4, <1>5
<1>7. w = <<>> => l = 0
  BY <1>6
<1>8. w # <<>> => l # 0
  BY <1>6
<1>9. l = 0 => size <= from
  BY <1>1, <1>2, IdentityConstants
<1>10. l # 0 => from + l <= size /\ (l = SAMPLE_BYTES \/ from + l = size)
  BY <1>1, <1>2, <1>4, IdentityConstants
<1>11. \A n \in 1 .. l : w[n] = <<from + n - 1, writes>>
  OBVIOUS
<1> HIDE DEF w
<1> QED
  BY <1>2, <1>3, <1>6, <1>7, <1>8, <1>9, <1>10, <1>11

LEMMA IdentityFailsStep == ASSUME IdentityInv, Identity!Fails PROVE IdentityInv'
<1>1. /\ identityPc' = "idle" /\ identityResult' = "IO_ERROR" /\ open' = FALSE
      /\ size' = size /\ writes' = writes /\ identityStill' = identityStill
      /\ calls' = calls /\ identityI' = identityI /\ context' = context /\ hex' = hex
      /\ Identity!TypeOK /\ context \in Seq(Nat \X Nat)
      /\ Len(context) <= identityI * SAMPLE_BYTES /\ hex = Identity!NoHex
  BY Zenon DEF IdentityInv, Identity!Fails, Identity!Return, Identity!World
<1>2. Identity!TypeOK'
  BY <1>1, Zenon DEF Identity!TypeOK
<1>3. ~hex'.text
  BY <1>1, Zenon DEF Identity!NoHex
<1>4. Identity!OkIsKoreaders' /\ Identity!FailureHasNoText'
  BY <1>1, <1>3, Zenon DEF Identity!OkIsKoreaders, Identity!FailureHasNoText
<1> QED
  BY <1>1, <1>2, <1>4, Zenon DEF IdentityInv

LEMMA WindowPlaces ==
    ASSUME NEW s \in Nat, NEW l \in Nat, NEW o \in Nat, NEW b \in Nat,
           b <= l, o + b <= s, b = l \/ o + b = s
    PROVE  /\ \A p \in 0 .. s - 1 : o <= p /\ p < o + l =>
                  p - o + 1 \in 1 .. b /\ o + (p - o + 1) - 1 = p
           /\ \A n \in 1 .. b :
                  o + n - 1 \in 0 .. s - 1 /\ o <= o + n - 1 /\ o + n - 1 < o + l
OBVIOUS

(* A window of bytes is what comes next.                                     *)
LEMMA WindowFeeds ==
    ASSUME NEW k \in Nat, size \in Nat, writes \in Nat, context \in Seq(Nat \X Nat),
           \A m, n \in DOMAIN context : m < n => context[m][1] < context[n][1],
           {context[n] : n \in DOMAIN context} = {<<p, writes>> : p \in Reached(k)},
           NEW w \in Seq(Nat \X Nat), Len(w) <= SAMPLE_BYTES, Offset(k) + Len(w) <= size,
           Len(w) = SAMPLE_BYTES \/ Offset(k) + Len(w) = size,
           \A n \in 1 .. Len(w) : w[n] = <<Offset(k) + n - 1, writes>>
    PROVE  LET c == context \o w
           IN  /\ \A m, n \in DOMAIN c : m < n => c[m][1] < c[n][1]
               /\ {c[n] : n \in DOMAIN c} = {<<p, writes>> : p \in Reached(k + 1)}
<1>1. /\ SAMPLE_BYTES \in Nat \ {0} /\ Offset(k) \in Nat
      /\ Len(w) \in Nat /\ Len(context) \in Nat
  <2>1. Len(w) \in Nat
    OBVIOUS
  <2>2. Len(context) \in Nat
    OBVIOUS
  <2> QED
    BY <2>1, <2>2, IdentityConstants, Offsets, Zenon
<1> DEFINE c == context \o w
           a == Len(context)
           b == Len(w)
           o == Offset(k)
<1>2. /\ DOMAIN c = 1 .. a + b /\ DOMAIN context = 1 .. a /\ DOMAIN w = 1 .. b
      /\ \A n \in 1 .. a : c[n] = context[n]
      /\ \A n \in 1 .. b : c[a + n] = w[n]
  BY <1>1
<1> HIDE DEF c
<1>3. \A n \in 1 .. a : \E p \in Reached(k) : context[n] = <<p, writes>>
  <2> SUFFICES ASSUME NEW n \in 1 .. a PROVE \E p \in Reached(k) : context[n] = <<p, writes>>
    OBVIOUS
  <2>1. context[n] \in {context[l] : l \in DOMAIN context}
    BY <1>2
  <2>2. context[n] \in {<<p, writes>> : p \in Reached(k)}
    BY <2>1, Zenon
  <2> QED
    BY <2>2
<1>4. \A p \in Reached(k) : \E n \in 1 .. a : context[n] = <<p, writes>>
  <2> SUFFICES ASSUME NEW p \in Reached(k) PROVE \E n \in 1 .. a : context[n] = <<p, writes>>
    OBVIOUS
  <2>1. <<p, writes>> \in {<<q, writes>> : q \in Reached(k)}
    OBVIOUS
  <2>2. <<p, writes>> \in {context[l] : l \in DOMAIN context}
    BY <2>1, Zenon
  <2> QED
    BY <1>2, <2>2
<1>5. \A p \in Reached(k) : p \in Nat /\ p < o
  <2> SUFFICES ASSUME NEW p \in Reached(k) PROVE p \in Nat /\ p < o
    OBVIOUS
  <2>1. PICK j \in 0 .. k - 1 : Inside(p, j)
    BY DEF Reached
  <2>5. j \in Nat /\ j < k
    OBVIOUS
  <2>2. j \in Nat /\ j < k /\ Offset(j) \in Nat
    BY <2>5, Offsets, Zenon
  <2>3. Offset(j) + SAMPLE_BYTES <= o
    BY <2>2, OffsetsGrow
  <2>4. p \in Nat
    BY DEF Reached
  <2> QED
    BY <1>1, <2>1, <2>2, <2>3, <2>4 DEF Inside
<1>6. \A n \in 1 .. a : context[n][1] \in Nat /\ context[n][1] < o
  BY <1>3, <1>5
<1>7. \A n \in 1 .. b : w[n][1] = o + n - 1 /\ w[n] = <<o + n - 1, writes>>
  OBVIOUS
<1>8. \A n \in 1 .. a + b : n \in 1 .. a \/ (n - a \in 1 .. b /\ n = a + (n - a))
  BY <1>1
<1>9. ASSUME NEW m \in DOMAIN c, NEW n \in DOMAIN c, m < n PROVE c[m][1] < c[n][1]
  <2>1. m \in 1 .. a + b /\ n \in 1 .. a + b
    BY <1>2
  <2>2. CASE n \in 1 .. a
    <3>1. m \in 1 .. a
      BY <1>1, <1>9, <2>1, <2>2
    <3>2. context[m][1] < context[n][1]
      BY <1>2, <1>9, <2>2, <3>1
    <3> QED
      BY <1>2, <2>2, <3>1, <3>2, Zenon
  <2>3. CASE n \notin 1 .. a
    <3>1. n - a \in 1 .. b /\ n = a + (n - a)
      BY <1>8, <2>1, <2>3
    <3>2. c[n] = w[n - a]
      BY <1>2, <3>1, Zenon
    <3>3. c[n][1] = o + (n - a) - 1
      BY <1>7, <3>1, <3>2
    <3>4. CASE m \in 1 .. a
      <4>1. c[m][1] \in Nat /\ c[m][1] < o
        BY <1>2, <1>6, <3>4, Zenon
      <4>2. \A x, y, z \in Nat : x < y /\ z >= 1 => x < y + z - 1
        OBVIOUS
      <4>3. o \in Nat /\ n - a \in Nat /\ n - a >= 1
        BY <1>1, <3>1
      <4> QED
        BY <3>3, <4>1, <4>2, <4>3, Zenon
    <3>5. CASE m \notin 1 .. a
      <4>1. m - a \in 1 .. b /\ m = a + (m - a)
        BY <1>8, <2>1, <3>5
      <4>2. c[m] = w[m - a]
        BY <1>2, <4>1, Zenon
      <4>3. c[m][1] = o + (m - a) - 1
        BY <1>7, <4>1, <4>2
      <4> QED
        BY <1>1, <1>9, <2>1, <3>3, <4>3
    <3> QED
      BY <3>4, <3>5
  <2> QED
    BY <2>2, <2>3
<1>10. \A p : p \in Reached(k + 1) <=>
               p \in Reached(k) \/ (p \in 0 .. size - 1 /\ o <= p /\ p < o + SAMPLE_BYTES)
  <2>1. \A j : j \in 0 .. (k + 1) - 1 <=> (j \in 0 .. k - 1 \/ j = k)
    OBVIOUS
  <2> QED
    BY <2>1, Zenon DEF Reached, Inside
<1>11. /\ \A p \in 0 .. size - 1 : o <= p /\ p < o + SAMPLE_BYTES =>
                  p - o + 1 \in 1 .. b /\ o + (p - o + 1) - 1 = p
       /\ \A n \in 1 .. b : /\ o + n - 1 \in 0 .. size - 1 /\ o <= o + n - 1
                           /\ o + n - 1 < o + SAMPLE_BYTES
  <2>1. /\ SAMPLE_BYTES \in Nat /\ o \in Nat /\ b \in Nat /\ size \in Nat
        /\ b <= SAMPLE_BYTES /\ o + b <= size /\ (b = SAMPLE_BYTES \/ o + b = size)
    BY <1>1
  <2> HIDE DEF o, b
  <2> QED
    BY <2>1, WindowPlaces
<1>13. ASSUME NEW n \in DOMAIN c PROVE \E p \in Reached(k + 1) : c[n] = <<p, writes>>
  <2>1. CASE n \in 1 .. a
    BY <1>2, <1>3, <1>10, <2>1, Zenon
  <2>2. CASE n - a \in 1 .. b /\ n = a + (n - a)
    <3>1. c[n] = <<o + (n - a) - 1, writes>>
      BY <1>2, <1>7, <2>2, Zenon
    <3>2. o + (n - a) - 1 \in Reached(k + 1)
      BY <1>10, <1>11, <2>2, Zenon
    <3> QED
      BY <3>1, <3>2, Zenon
  <2> QED
    BY <1>2, <1>8, <2>1, <2>2, Zenon
<1>14. ASSUME NEW p \in Reached(k + 1) PROVE \E n \in DOMAIN c : c[n] = <<p, writes>>
  <2>1. CASE p \in Reached(k)
    <3>1. PICK n \in 1 .. a : context[n] = <<p, writes>>
      BY <1>4, <2>1
    <3>2. n \in 1 .. a + b
      BY <1>1
    <3> QED
      BY <1>2, <3>1, <3>2, Zenon
  <2>2. CASE p \in 0 .. size - 1 /\ o <= p /\ p < o + SAMPLE_BYTES
    <3> DEFINE n == p - o + 1
    <3>1. n \in 1 .. b /\ o + n - 1 = p
      BY <1>11, <2>2
    <3> HIDE DEF n
    <3>2. c[a + n] = <<p, writes>>
      BY <1>2, <1>7, <3>1, Zenon
    <3>3. a + n \in 1 .. a + b
      BY <1>1, <3>1
    <3> QED
      BY <1>2, <3>2, <3>3, Zenon
  <2> QED
    BY <1>10, <2>1, <2>2
<1>15. {c[n] : n \in DOMAIN c} = {<<p, writes>> : p \in Reached(k + 1)}
  <2>1. \A e : e \in {c[n] : n \in DOMAIN c} => e \in {<<p, writes>> : p \in Reached(k + 1)}
    BY <1>13, Zenon
  <2>2. \A e : e \in {<<p, writes>> : p \in Reached(k + 1)} => e \in {c[n] : n \in DOMAIN c}
    BY <1>14, Zenon
  <2> QED
    BY <2>1, <2>2, Zenon
<1> QED
  BY <1>9, <1>15 DEF c

LEMMA IdentitySampleStep == ASSUME IdentityInv, Identity!Sample PROVE IdentityInv'
<1> DEFINE w == Identity!Window(Offset(identityI))
<1>1. /\ Identity!TypeOK /\ context \in Seq(Nat \X Nat) /\ identityPc = "sample"
      /\ Len(context) <= identityI * SAMPLE_BYTES /\ identityI < SAMPLES
      /\ hex = Identity!NoHex /\ (identityStill => IdentityFed)
  BY Zenon DEF IdentityInv, Identity!Sample
<1>2. /\ size' = size /\ writes' = writes /\ identityStill' = identityStill
      /\ calls' = calls /\ open' = open /\ hex' = hex /\ identityResult' = identityResult
      /\ IF w = <<>>
         THEN identityPc' = "close" /\ identityI' = identityI /\ context' = context
         ELSE /\ context' = context \o w /\ identityI' = identityI + 1
              /\ identityPc' = IF identityI + 1 = SAMPLES THEN "close" ELSE "sample"
  BY Zenon DEF Identity!Sample, Identity!World, Offset
<1>3. /\ size \in 0 .. BookSize /\ writes \in 0 .. MaxWrites /\ identityI \in 0 .. SAMPLES
      /\ Len(context) <= SAMPLES * SAMPLE_BYTES /\ open = TRUE
  <2>1. open \in BOOLEAN /\ (open <=> identityPc # "idle")
    BY <1>1, Zenon DEF Identity!TypeOK
  <2> QED
    BY <1>1, <2>1, Zenon DEF Identity!TypeOK
<1>4. /\ size \in Nat /\ writes \in Nat /\ identityI \in Nat /\ identityI + 1 \in Nat
      /\ identityI + 1 \in 0 .. SAMPLES /\ (identityI + 1 # SAMPLES => identityI + 1 < SAMPLES)
      /\ identityI + 1 <= SAMPLES
  BY <1>1, <1>3, IdentityConstants
<1>5. Offset(identityI) \in Nat
  BY <1>4, Offsets, Zenon
<1>6. /\ w \in Seq(Nat \X Nat) /\ Len(w) <= SAMPLE_BYTES
      /\ w = <<>> => size <= Offset(identityI)
      /\ w # <<>> => Offset(identityI) + Len(w) <= size
      /\ w # <<>> => Len(w) = SAMPLE_BYTES \/ Offset(identityI) + Len(w) = size
      /\ DOMAIN w = 1 .. Len(w)
      /\ \A n \in 1 .. Len(w) : w[n] = <<Offset(identityI) + n - 1, writes>>
  BY <1>4, <1>5, WindowIs
<1> HIDE DEF w
<1>7. Len(context \o w) <= (identityI + 1) * SAMPLE_BYTES /\ context \o w \in Seq(Nat \X Nat)
  <2>1. Len(context \o w) = Len(context) + Len(w) /\ Len(context) \in Nat /\ Len(w) \in Nat
        /\ context \o w \in Seq(Nat \X Nat)
    BY <1>1, <1>6
  <2>2. (identityI + 1) * SAMPLE_BYTES = identityI * SAMPLE_BYTES + SAMPLE_BYTES
        /\ identityI * SAMPLE_BYTES \in Nat
    BY <1>4, IdentityConstants
  <2>3. Len(context) <= identityI * SAMPLE_BYTES /\ Len(w) <= SAMPLE_BYTES
    BY <1>1, <1>6, Zenon
  <2>4. \A a, b, c, d \in Nat : a <= c /\ b <= d => a + b <= c + d
    OBVIOUS
  <2>5. Len(context) + Len(w) <= identityI * SAMPLE_BYTES + SAMPLE_BYTES
    BY <2>1, <2>2, <2>3, <2>4, IdentityConstants, Zenon
  <2> QED
    BY <2>1, <2>2, <2>5, Zenon
<1>8. (identityI + 1) * SAMPLE_BYTES <= SAMPLES * SAMPLE_BYTES
  BY <1>4, IdentityConstants, Times
<1>9. /\ context' \in Seq(Nat \X Nat) /\ Len(context') <= identityI' * SAMPLE_BYTES
      /\ identityI' \in 0 .. SAMPLES /\ (identityPc' = "sample" => identityI' < SAMPLES)
      /\ Len(context') <= SAMPLES * SAMPLE_BYTES /\ identityPc' \in {"sample", "close"}
  <2>1. CASE w = <<>>
    BY <1>1, <1>2, <1>3, <2>1, Zenon
  <2>2. CASE w # <<>>
    <3>1. /\ context' = context \o w /\ identityI' = identityI + 1
          /\ identityPc' = IF identityI + 1 = SAMPLES THEN "close" ELSE "sample"
      BY <1>2, <2>2, Zenon
    <3>2. Len(context \o w) <= SAMPLES * SAMPLE_BYTES
      <4>1. /\ (identityI + 1) * SAMPLE_BYTES \in Nat /\ SAMPLES * SAMPLE_BYTES \in Nat
            /\ Len(context \o w) \in Nat
        BY <1>4, <1>7, IdentityConstants
      <4> QED
        BY <1>7, <1>8, <4>1
    <3>3. identityPc' \in {"sample", "close"}
          /\ (identityPc' = "sample" => identityI + 1 # SAMPLES)
      BY <3>1
    <3> QED
      BY <1>4, <1>7, <3>1, <3>2, <3>3, Zenon
  <2> QED
    BY <2>1, <2>2
<1>10. identityPc' # "idle"
  BY <1>9
<1>11. Identity!TypeOK'
  BY <1>1, <1>2, <1>3, <1>9, <1>10, Zenon DEF Identity!TypeOK
<1>12. ~hex'.text
  BY <1>1, <1>2, Zenon DEF Identity!NoHex
<1>13. Identity!OkIsKoreaders' /\ Identity!FailureHasNoText'
  BY <1>10, <1>12, Zenon DEF Identity!OkIsKoreaders, Identity!FailureHasNoText
<1>14. \A k : Reached(k)' = Reached(k)
  BY <1>2, Zenon DEF Reached
<1>15. ASSUME identityStill PROVE IdentityFed'
  <2>1. IdentityFed
    BY <1>1, <1>15
  <2>2. CASE w = <<>>
    <3>1. size' <= Offset(identityI')
      BY <1>2, <1>6, <2>2, Zenon
    <3> QED
      BY <1>2, <1>14, <2>1, <2>2, <3>1, Zenon DEF IdentityFed
  <2>3. CASE w # <<>>
    <3>1. /\ \A m, n \in DOMAIN context : m < n => context[m][1] < context[n][1]
          /\ {context[n] : n \in DOMAIN context} = {<<p, writes>> : p \in Reached(identityI)}
      BY <2>1, Zenon DEF IdentityFed
    <3>2. LET c == context \o w
          IN  /\ \A m, n \in DOMAIN c : m < n => c[m][1] < c[n][1]
              /\ {c[n] : n \in DOMAIN c} = {<<p, writes>> : p \in Reached(identityI + 1)}
      BY <1>1, <1>4, <1>6, <2>3, <3>1, WindowFeeds, Zenon
    <3>3. /\ context' = context \o w /\ identityI' = identityI + 1
          /\ identityPc' = IF identityI + 1 = SAMPLES THEN "close" ELSE "sample"
      BY <1>2, <2>3, Zenon
    <3>4. identityPc' = "close" => identityI' = SAMPLES
      BY <3>3
    <3> QED
      BY <1>2, <1>14, <3>2, <3>3, <3>4, Zenon DEF IdentityFed
  <2> QED
    BY <2>2, <2>3
<1>16. hex' = Identity!NoHex'
  BY <1>1, <1>2, Zenon DEF Identity!NoHex
<1> QED
  BY <1>2, <1>9, <1>11, <1>13, <1>15, <1>16, Zenon DEF IdentityInv

(* What was read until the end of the file is what KOReader reads.           *)
LEMMA AllReached ==
    ASSUME size \in Nat, NEW k \in 0 .. SAMPLES, k = SAMPLES \/ size <= Offset(k)
    PROVE  Reached(k) = {q \in 0 .. size - 1 : Identity!Sampled(q)}
<1>1. ASSUME NEW q \in 0 .. size - 1
      PROVE  (\E j \in 0 .. k - 1 : Inside(q, j)) <=> (\E j \in 0 .. SAMPLES - 1 : Inside(q, j))
  <2>1. \A j \in 0 .. k - 1 : j \in 0 .. SAMPLES - 1
    BY IdentityConstants
  <2>2. ASSUME NEW j \in 0 .. SAMPLES - 1, Inside(q, j) PROVE j \in 0 .. k - 1
    <3>1. CASE k = SAMPLES
      BY <3>1
    <3>2. CASE size <= Offset(k) /\ k # SAMPLES
      <4>1. j \in Nat /\ k \in Nat /\ (j \in 0 .. k - 1 \/ j = k \/ k < j)
        BY IdentityConstants
      <4>2. Offset(j) \in Nat /\ Offset(k) \in Nat
        BY <4>1, Offsets, Zenon
      <4>3. k < j => Offset(k) + SAMPLE_BYTES <= Offset(j)
        BY <4>1, OffsetsGrow, Zenon
      <4>4. Offset(j) <= q
        BY <2>2, Zenon DEF Inside
      <4>5. j = k => FALSE
        BY <3>2, <4>2, <4>4
      <4>6. k < j => FALSE
        BY <3>2, <4>2, <4>3, <4>4, IdentityConstants
      <4> QED
        BY <4>1, <4>5, <4>6, Zenon
    <3> QED
      BY <3>1, <3>2
  <2> QED
    BY <2>1, <2>2, Zenon
<1>2. \A q \in 0 .. size - 1 : q \in Nat
  OBVIOUS
<1> QED
  BY <1>1, <1>2, SampledIsInside, Zenon DEF Reached

LEMMA IdentityCloseStep == ASSUME IdentityInv, Identity!Close PROVE IdentityInv'
<1>1. /\ Identity!TypeOK /\ context \in Seq(Nat \X Nat) /\ identityPc = "close"
      /\ Len(context) <= identityI * SAMPLE_BYTES
      /\ hex = Identity!NoHex /\ (identityStill => IdentityFed)
      /\ size' = size /\ writes' = writes /\ identityStill' = identityStill
      /\ identityPc' = "idle" /\ open' = FALSE
      /\ calls' = calls /\ identityI' = identityI /\ context' = context
      /\ \/ identityResult' = "IO_ERROR" /\ hex' = hex
         \/ identityResult' = "OK" /\ hex' = Identity!Hex(context)
  BY Zenon DEF IdentityInv, Identity!Close, Identity!World, Identity!Return
<1>2. Identity!TypeOK'
  BY <1>1, Zenon DEF Identity!TypeOK
<1>3. ~Identity!NoHex.text /\ Identity!Hex(context).text /\ Identity!Hex(context).digest = context
  BY DEF Identity!NoHex, Identity!Hex
<1>4. Identity!FailureHasNoText'
  BY <1>1, <1>3 DEF Identity!FailureHasNoText
<1>5. ASSUME identityStill PROVE Identity!IsPartialMD5(context)
  <2>1. /\ \A m, n \in DOMAIN context : m < n => context[m][1] < context[n][1]
        /\ {context[n] : n \in DOMAIN context} = {<<p, writes>> : p \in Reached(identityI)}
        /\ identityI = SAMPLES \/ size <= Offset(identityI)
    BY <1>1, <1>5, Zenon DEF IdentityFed
  <2>2. size \in 0 .. BookSize /\ identityI \in 0 .. SAMPLES
    BY <1>1, Zenon DEF Identity!TypeOK
  <2>3. size \in Nat
    BY <2>2, IdentityConstants
  <2>4. Reached(identityI) = {q \in 0 .. size - 1 : Identity!Sampled(q)}
    BY <2>1, <2>2, <2>3, AllReached, Zenon
  <2> QED
    BY <2>1, <2>4, Zenon DEF Identity!IsPartialMD5
<1>6. \A d : Identity!IsPartialMD5(d)' <=> Identity!IsPartialMD5(d)
  BY <1>1, Zenon DEF Identity!IsPartialMD5, Identity!Sampled
<1>7. Identity!OkIsKoreaders'
  <2>1. CASE identityResult' = "IO_ERROR"
    BY <2>1 DEF Identity!OkIsKoreaders
  <2>2. CASE hex' = Identity!Hex(context)
    <3>1. hex'.text /\ hex'.digest = context
      BY <1>3, <2>2, Zenon
    <3>2. identityStill' => Identity!IsPartialMD5(hex.digest)'
      BY <1>1, <1>5, <3>1, Zenon DEF Identity!IsPartialMD5, Identity!Sampled
    <3> QED
      BY <3>1, <3>2, Zenon DEF Identity!OkIsKoreaders
  <2> QED
    BY <1>1, <2>1, <2>2
<1> QED
  BY <1>1, <1>2, <1>4, <1>7, Zenon DEF IdentityInv

LEMMA IdentityWriteStep == ASSUME IdentityInv, Identity!Write PROVE IdentityInv'
<1>1. /\ writes < MaxWrites /\ writes' = writes + 1 /\ identityStill' = FALSE
      /\ size' \in {0, size, BookSize}
      /\ calls' = calls /\ identityPc' = identityPc /\ identityI' = identityI
      /\ context' = context /\ open' = open /\ hex' = hex /\ identityResult' = identityResult
      /\ IdentityInv /\ Identity!TypeOK /\ Identity!FailureHasNoText
  BY Zenon DEF IdentityInv, Identity!Write, Identity!callVars
<1>2. size' \in 0 .. BookSize /\ writes' \in 0 .. MaxWrites
  <2>1. size \in 0 .. BookSize /\ writes \in 0 .. MaxWrites
    BY <1>1, Zenon DEF Identity!TypeOK
  <2> QED
    BY <1>1, <2>1, IdentityConstants
<1>3. Identity!TypeOK'
  BY <1>1, <1>2, Zenon DEF Identity!TypeOK
<1>4. Identity!OkIsKoreaders' /\ Identity!FailureHasNoText'
  BY <1>1, Zenon DEF Identity!OkIsKoreaders, Identity!FailureHasNoText
<1>5. hex' = hex /\ Identity!NoHex' = Identity!NoHex
  BY <1>1, Zenon DEF Identity!NoHex
<1> QED
  BY <1>1, <1>3, <1>4, <1>5, Zenon DEF IdentityInv

LEMMA IdentityStep == ASSUME IdentityInv, Identity!Next PROVE IdentityInv'
BY IdentityBeginStep, IdentitySampleStep, IdentityFailsStep, IdentityCloseStep,
   IdentityWriteStep, Zenon DEF Identity!Next

LEMMA IdentityIdle == ASSUME IdentityInv, UNCHANGED identityVars PROVE IdentityInv'
<1>1. UNCHANGED <<size, writes, identityStill, calls, identityPc, identityI, context, open,
                  hex, identityResult>>
  BY DEF identityVars
<1>2. /\ size' = size /\ writes' = writes /\ identityStill' = identityStill
      /\ calls' = calls /\ identityPc' = identityPc /\ identityI' = identityI
      /\ context' = context /\ open' = open /\ hex' = hex /\ identityResult' = identityResult
  BY <1>1
<1>3. Identity!TypeOK' <=> Identity!TypeOK
  BY <1>2, Zenon DEF Identity!TypeOK
<1>4. (Identity!OkIsKoreaders' <=> Identity!OkIsKoreaders)
      /\ (Identity!FailureHasNoText' <=> Identity!FailureHasNoText)
  BY <1>2, Zenon DEF Identity!OkIsKoreaders, Identity!FailureHasNoText,
                     Identity!IsPartialMD5, Identity!Sampled
<1>5. IdentityFed' <=> IdentityFed
  <2>1. \A k : Reached(k)' = Reached(k)
    BY <1>2, Zenon DEF Reached
  <2> QED
    BY <1>2, <2>1, Zenon DEF IdentityFed
<1> QED
  BY <1>2, <1>3, <1>4, <1>5, Zenon DEF IdentityInv, Identity!NoHex

-----------------------------------------------------------------------------
(* The calls together.                                                      *)

CallsInv ==
    /\ NetworkInv
    /\ part = "load" => LoadInv
    /\ part = "mounts" => MountsInv
    /\ part = "verify" => VerifyInv
    /\ part = "prepare" => PrepareInv
    /\ part = "identity" => IdentityInv

LEMMA CallsInitially == Init => CallsInv
<1> SUFFICES ASSUME Init PROVE CallsInv
  OBVIOUS
<1>1. /\ part = "load" => Load!Init
      /\ part = "mounts" => Mounts!Init
      /\ part = "verify" => Verify!Init
      /\ part = "prepare" => Prepare!Init
      /\ part = "identity" => Identity!Init
  BY Zenon DEF Init
<1> QED
  BY <1>1, NetworkInitially, LoadInitially, MountsInitially, VerifyInitially,
     PrepareInitially, IdentityInitially, Zenon DEF CallsInv

LEMMA CallsNext ==
    ASSUME Next
    PROVE  /\ part' = part
           /\ part = "load" => Load!Next
           /\ part = "mounts" => Mounts!Next
           /\ part = "verify" => Verify!Next
           /\ part = "prepare" => Prepare!Next
           /\ part = "identity" => Identity!Next
BY DEF Next, Only

LEMMA CallsStep == ASSUME CallsInv, [Next]_vars PROVE CallsInv'
<1>1. NetworkInv'
  BY NetworkStep, Zenon DEF CallsInv
<1>2. CASE Next
  BY <1>1, <1>2, CallsNext, LoadStep, MountsStep, VerifyStep, PrepareStep, IdentityStep, Zenon
  DEF CallsInv
<1>3. CASE UNCHANGED vars
  <2>1. /\ part' = part /\ UNCHANGED loadVars /\ UNCHANGED mountsVars /\ UNCHANGED verifyVars
        /\ UNCHANGED prepareVars /\ UNCHANGED identityVars
    BY <1>3 DEF vars
  <2> QED
    BY <1>1, <2>1, LoadIdle, MountsIdle, VerifyIdle, PrepareIdle, IdentityIdle, Zenon
    DEF CallsInv
<1> QED
  BY <1>2, <1>3

LEMMA CallsInvariant == Spec => []CallsInv
<1>1. Init => CallsInv
  BY CallsInitially
<1>2. CallsInv /\ [Next]_vars => CallsInv'
  BY CallsStep
<1> QED
  BY <1>1, <1>2, PTL DEF Spec

(* What a call reports of files and mounts is true of them although others   *)
(* change them meanwhile: a record is one that was stored, and a race is     *)
(* never called damage (cn_settings_store_load and its siblings); a table of *)
(* mounts is whole; the root that was accepted is a directory on the card    *)
(* that was expected, and a card that is mounted and still is taken          *)
(* (cn_platform_storage_verify); the directories of the layout are           *)
(* directories, and losing a race to make one is no failure                  *)
(* (cn_storage_layout_prepare); the identity of a book that nobody writes is *)
(* KOReader's partial MD5, for every length of the file and every size and   *)
(* number of windows (cn_book_identity_koreader_binary).                     *)
THEOREM StorageCallsAnswerTruly == Spec => []StorageAnswersAreTrue
<1>1. CallsInv => StorageAnswersAreTrue
  BY Zenon DEF CallsInv, LoadInv, MountsInv, VerifyInv, PrepareInv, IdentityInv,
     StorageAnswersAreTrue
<1> QED
  BY <1>1, CallsInvariant, PTL

(* A call that failed leaves nothing behind: no address of a rejected reply, *)
(* no part of a record, no digest of what had been read before the failure,  *)
(* no descriptor; and nothing passes outside TLS or over a descriptor that   *)
(* was closed.                                                              *)
THEOREM CallsFailCleanly == Spec => []FailureLeavesNothing
<1>1. CallsInv => FailureLeavesNothing
  <2> SUFFICES ASSUME CallsInv PROVE FailureLeavesNothing
    OBVIOUS
  <2>1. /\ part = "dns" => Dns!FailureIsEmpty
        /\ part = "http" => HttpInv
        /\ part = "tls" => TlsInv
        /\ part = "open" => Open!DescriptorsClosed
    BY Zenon DEF CallsInv, NetworkInv, DnsInv, OpenInv
  <2>2. /\ part = "load" => Load!FailureLeavesNothing
        /\ part = "identity" => Identity!FailureHasNoText
    BY Zenon DEF CallsInv, LoadInv, IdentityInv
  <2> QED
    BY <2>1, <2>2, HttpDescriptor, TlsAnswers, Zenon DEF FailureLeavesNothing
<1> QED
  BY <1>1, CallsInvariant, PTL

(* The root that cn_platform_storage_verify accepts was a directory of the   *)
(* expected device in the step that looked at it last, whatever was mounted  *)
(* over it before or after.                                                 *)
THEOREM AcceptedRootWasThere == Spec => AcceptedWasThere
<1>1. CallsInv /\ [Next]_vars => [part = "verify" => Verify!AcceptedWasThere]_vars
  <2> SUFFICES ASSUME CallsInv, Next, part = "verify" PROVE Verify!AcceptedWasThere
    BY DEF vars
  <2> QED
    BY CallsNext, VerifyLast, Zenon DEF CallsInv
<1> QED
  BY <1>1, CallsInvariant, PTL DEF Spec, AcceptedWasThere

=============================================================================
