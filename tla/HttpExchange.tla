---------------------------- MODULE HttpExchange ----------------------------
(***************************************************************************)
(* The bytes of one exchange (cn_netsimple_exchange in net/netsimple.c),    *)
(* plain or over TLS: addresses are tried, the request goes out, the        *)
(* response comes in pieces and is framed and parsed.  A response is a head  *)
(* of Head pieces, the first of them the status line, and its body.         *)
(***************************************************************************)
EXTENDS Integers

CONSTANTS
    Head,           \* pieces of the head, the blank line included
    Cap,            \* of the caller's buffer, in pieces
    Addresses,      \* how many the resolver gives
    Responses       \* [style, declared, body, end]: what servers do

(* style: "crlf", "lf" (line ends), "garbage"; declared: the content length,  *)
(* none (-1) or one that is malformed, doubled or too large (-2); end: "close" *)
(* (with close_notify under TLS), "eof" (without), "reset" or "silent".       *)
ResponsesAssumption ==
    /\ {Head, Cap, Addresses} \subseteq Nat \ {0}
    /\ Responses \subseteq [style : {"crlf", "lf", "garbage"}, declared : Int, body : Nat,
                            end : {"close", "eof", "reset", "silent"}]

VARIABLES
    tls, put,       \* of the request: over TLS? with a body?
    response, served, ended,    \* the server: what it sends, sent, and its end
    pc, address, expired,
    fd,             \* who owns the descriptor: "none", "exchange", "tls"
    total, truncated,
    result, out     \* the answer: [header, body]

serverVars == <<response, served, ended>>
vars == <<tls, put, serverVars, pc, address, expired, fd, total, truncated, result, out>>

Zero == [header |-> 0, body |-> 0]

Init ==
    /\ tls \in BOOLEAN /\ put \in BOOLEAN
    /\ response \in Responses /\ served = 0 /\ ended = FALSE
    /\ pc = "connect" /\ address = 0 /\ expired = FALSE /\ fd = "none"
    /\ total = 0 /\ truncated = FALSE /\ result = "OK" /\ out = Zero

-----------------------------------------------------------------------------
Request == UNCHANGED <<tls, put>>

(* done: whoever owns the descriptor closes it. *)
Return(r) ==
    /\ pc' = "done" /\ result' = r /\ fd' = "none"
    /\ UNCHANGED <<address, expired, total, truncated, out>>

Goto(label) ==
    /\ pc' = label /\ expired' = FALSE
    /\ UNCHANGED <<address, fd, total, truncated, result, out>>

Refused ==
    /\ pc = "connect" /\ address = 0
    /\ Return("INVALID") \/ Return("RESOLVE_ERROR")
    /\ Request /\ UNCHANGED serverVars

(* connect_with_timeout for one address after the other. *)
Connect ==
    /\ pc = "connect" /\ Request /\ UNCHANGED serverVars
    /\ \/ /\ fd' = "exchange" /\ pc' = IF tls THEN "open" ELSE "send head"
          /\ result' = "OK" /\ expired' = FALSE /\ address' = address + 1
       \/ /\ address + 1 < Addresses /\ address' = address + 1
          /\ result' = "CONNECT_ERROR" /\ UNCHANGED <<fd, pc, expired>>
       \/ /\ address + 1 = Addresses /\ address' = address + 1
          /\ result' = "CONNECT_ERROR" /\ pc' = "done" /\ UNCHANGED <<fd, expired>>
    /\ UNCHANGED <<total, truncated, out>>

(* cn_tls_open closes the descriptor itself when it fails. *)
Open ==
    /\ pc = "open" /\ Request /\ UNCHANGED serverVars
    /\ \/ /\ pc' = "send head" /\ fd' = "tls" /\ UNCHANGED <<result, expired>>
       \/ pc' = "done" /\ result' = "TLS_HANDSHAKE_FAILED" /\ fd' = "none" /\ UNCHANGED expired
    /\ UNCHANGED <<address, total, truncated, out>>

Sending == pc \in {"send head", "send body"}
Incoming == served > total \/ ended

(* An answer that comes early ends the sending of a plain request, and is    *)
(* an error of a TLS one when there is still something to send.             *)
Send ==
    /\ Sending /\ Request /\ UNCHANGED serverVars
    /\ \/ /\ tls \/ ~Incoming
          /\ IF pc = "send head" /\ put
             THEN /\ pc' = "send body"
                  /\ UNCHANGED <<address, expired, fd, total, truncated, result, out>>
             ELSE Goto("recv")
       \/ ~tls /\ Incoming /\ Goto("recv")
       \/ tls /\ Incoming /\ Return("SEND_ERROR")

SendFails ==
    /\ Sending /\ Request /\ UNCHANGED serverVars
    /\ Return("SEND_ERROR") \/ (expired /\ Return("SEND_TIMEOUT"))

-----------------------------------------------------------------------------
(* response_content_length: 0 no whole head yet, 1 no length in it, 2 with a *)
(* length, -1 refused.  Only CRLF ends a head here.                          *)
Framing(t) ==
    CASE response.style # "crlf" \/ t < Head -> 0
      [] OTHER -> CASE response.declared = -2 -> -1
                    [] response.declared = -1 -> 1
                    [] OTHER -> 2

WholeAt == Head + response.declared

(* cn_netsimple_parse_status and the end of cn_netsimple_exchange. *)
Parsed(t, cut) ==
    IF response.style = "garbage" \/ t < 1
    THEN [result |-> IF cut THEN "TRUNCATED" ELSE "BAD_RESPONSE", out |-> Zero]
    ELSE LET header == IF t < Head THEN t ELSE Head
         IN  [result |-> IF cut THEN "TRUNCATED" ELSE "OK",
              out |-> [header |-> header, body |-> t - header]]

Finish(t, cut) ==
    /\ pc' = "done" /\ fd' = "none" /\ total' = t /\ truncated' = cut
    /\ result' = Parsed(t, cut).result /\ out' = Parsed(t, cut).out
    /\ UNCHANGED <<address, expired>>

Fail(t, r) ==
    /\ pc' = "done" /\ fd' = "none" /\ total' = t /\ result' = r
    /\ UNCHANGED <<address, expired, truncated, out>>

More(t) == total' = t /\ UNCHANGED <<pc, address, expired, fd, truncated, result, out>>

Receiving == pc = "recv" /\ Request /\ UNCHANGED serverVars

BufferFull == Receiving /\ total >= Cap /\ Finish(total, TRUE)

Pieces == {n \in 1 .. served - total : total + n <= Cap}

(* Mutant: the answer is taken when its end was reached, or passed. *)
Framed_or_longer(t) ==
    IF Framing(t) = -1 THEN Fail(t, "BAD_RESPONSE")
    ELSE IF Framing(t) = 2 /\ t >= WholeAt THEN Finish(t, FALSE)
    ELSE More(t)

Framed(t) ==
    IF Framing(t) = -1 \/ (Framing(t) = 2 /\ t > WholeAt) THEN Fail(t, "BAD_RESPONSE")
    ELSE IF Framing(t) = 2 /\ t = WholeAt THEN Finish(t, FALSE)
    ELSE More(t)

ReceiveTls == Receiving /\ tls /\ total < Cap /\ \E n \in Pieces : Framed(total + n)

(* close_notify, or an end without it. *)
ClosedTls ==
    /\ Receiving /\ tls /\ total < Cap /\ ended /\ served = total
    /\ IF response.end # "close" THEN Fail(total, "TLS_PROTOCOL_FAILED")
       ELSE IF Framing(total) \in {0, 2} THEN Fail(total, "TRUNCATED")
       ELSE Finish(total, FALSE)

(* Plain: there is no framing, the end of the connection is the end.        *)
ReceivePlain ==
    /\ Receiving /\ ~tls /\ total < Cap
    /\ \/ ~expired /\ \E n \in Pieces : More(total + n)
       \/ ~expired /\ ended /\ served = total /\ response.end # "reset" /\ Finish(total, FALSE)
       \/ ended /\ response.end = "reset" /\ Fail(total, "RECV_ERROR")

(* Mutant: the deadline of the call starts again with every piece. *)
RecvTimesOut_after_silence ==
    /\ Receiving /\ total < Cap /\ expired /\ total = 0
    /\ Fail(total, IF tls THEN "TLS_RECV_TIMEOUT" ELSE "RECV_TIMEOUT")

RecvTimesOut ==
    /\ Receiving /\ total < Cap /\ expired
    /\ Fail(total, IF tls THEN "TLS_RECV_TIMEOUT" ELSE "RECV_TIMEOUT")

Expire ==
    /\ Sending \/ pc = "recv"
    /\ ~expired
    /\ expired' = TRUE
    /\ UNCHANGED <<tls, put, serverVars, pc, address, fd, total, truncated, result, out>>

-----------------------------------------------------------------------------
(* The server (external): it may answer while the request is on its way.    *)
All == Head + response.body

Serve ==
    /\ fd # "none" /\ ~ended
    /\ IF served < All THEN served' = served + 1 /\ UNCHANGED ended
       ELSE response.end # "silent" /\ ended' = TRUE /\ UNCHANGED served
    /\ UNCHANGED <<tls, put, response, pc, address, expired, fd, total, truncated, result, out>>

Cut ==          \* the connection breaks
    /\ fd # "none" /\ ~ended /\ ended' = TRUE
    /\ response' = [response EXCEPT !.end = "eof"]
    /\ UNCHANGED <<tls, put, served, pc, address, expired, fd, total, truncated, result, out>>

Progress ==
    \/ Connect \/ Open \/ Send \/ BufferFull \/ ReceiveTls \/ ClosedTls \/ ReceivePlain
    \/ RecvTimesOut \/ Expire

Next == Progress \/ Refused \/ SendFails \/ Serve \/ Cut

Spec == Init /\ [][Next]_vars

-----------------------------------------------------------------------------
TypeOK ==
    /\ served \in 0 .. All /\ total \in 0 .. Cap /\ total <= served
    /\ pc \in {"connect", "open", "send head", "send body", "recv", "done"}
    /\ address \in 0 .. Addresses /\ fd \in {"none", "exchange", "tls"}
    /\ out \in [header : 0 .. Head, body : 0 .. Cap] /\ out.header + out.body \in {0, total}

(* A TLS answer that is OK is a whole one: of the length that its head       *)
(* declares or, where it declares none, ended by the server itself.          *)
TlsOkIsWhole ==
    pc = "done" /\ result = "OK" /\ tls =>
        /\ out.header = Head
        /\ IF response.declared >= 0 THEN out.body = response.declared
           ELSE response.declared = -1 /\ ended /\ response.end = "close" /\ out.body = response.body

(* A plain answer that is OK is all that came before the connection ended,   *)
(* and nothing that was received is passed off as complete when the buffer   *)
(* was too small for it.                                                    *)
PlainOkIsAll ==
    pc = "done" /\ result = "OK" /\ ~tls => ended /\ total = served /\ served < Cap

(* Nothing owns a descriptor that the call left, and it is the TLS layer's   *)
(* or the exchange's own, never both's.                                     *)
DescriptorReleased ==
    /\ fd = "none" <=> pc \in {"connect", "done"}
    /\ pc = "recv" => (fd = "tls" <=> tls)

=============================================================================
