---------------------------- MODULE TlsConnection ----------------------------
(***************************************************************************)
(* The calls of net/tlssimple.c around the TLS engine: open with its        *)
(* handshake, send, receive and close, each with a deadline, over a socket  *)
(* that takes and gives records when the peer likes.  The engine (BearSSL,  *)
(* one buffer for both directions) and the peer are external.               *)
(***************************************************************************)
EXTENDS Naturals, Sequences

CONSTANTS
    Turns,          \* records of the handshake, the device's and the peer's in turn
    MaxData         \* bound of the model: data records of the peer

(* The peer's certificate comes before the handshake is over. *)
TurnsAssumption == Turns \in Nat \ {0, 1} /\ MaxData \in Nat

VARIABLES
    turn,           \* engine: handshake records exchanged
    out, app,       \* engine: a record to be sent; data not yet taken
    closed, error,  \* engine: it has ended, and why
    incoming, eof,  \* socket: records of the peer, and the end of the stream
    room,           \* socket: does it take a record?
    sent,           \* history: data records the peer has sent
    finished,       \* history: the peer sent its close_notify
    fd, phase, call, expired,
    result,         \* of the last call
    taken           \* data records handed to the caller

engineVars == <<turn, out, app, closed, error>>
socketVars == <<incoming, eof, room, sent, finished>>
callVars == <<fd, phase, call, expired, result, taken>>
vars == <<engineVars, socketVars, callVars>>

Init ==
    /\ turn = 0 /\ out = TRUE /\ app = FALSE /\ closed = FALSE /\ error = "none"
    /\ incoming = <<>> /\ eof = FALSE /\ room = TRUE /\ sent = 0 /\ finished = FALSE
    /\ fd = "open" /\ phase = "handshake" /\ call = "open" /\ expired = FALSE
    /\ result = "none" /\ taken = 0

-----------------------------------------------------------------------------
(* The engine: what it is ready for, and what a record does to it.          *)
EngineState ==
    IF closed THEN {"CLOSED"}
    ELSE IF out THEN {"SENDREC"}
    ELSE IF app THEN {"RECVAPP"}
    ELSE IF turn < Turns THEN {"RECVREC"} ELSE {"SENDAPP", "RECVREC"}

CertificateErrors == {"TRUST_FAILED", "HOSTNAME_MISMATCH", "CERT_TIME_FAILED", "CERT_INVALID"}

Die(e) == closed' = TRUE /\ error' = e /\ UNCHANGED <<turn, out, app>>

Ingest(record) ==
    CASE record = "handshake" ->
           \/ /\ turn < Turns /\ turn' = turn + 1 /\ out' = (turn + 1 < Turns)
              /\ UNCHANGED <<app, closed, error>>
           \/ turn = 1 /\ \E e \in CertificateErrors : Die(e)
           \/ turn = Turns /\ Die("unexpected")
      [] record = "data" -> IF turn = Turns
                            THEN app' = TRUE /\ UNCHANGED <<turn, out, closed, error>>
                            ELSE Die("unexpected")
      [] record = "close" -> Die("none")
      [] record = "garbage" -> Die("bad record")

(* classify_engine *)
classify_engine ==
    CASE error = "none" -> "CLOSED"
      [] error \in CertificateErrors -> error
      [] OTHER -> IF phase = "handshake" THEN "HANDSHAKE_FAILED" ELSE "PROTOCOL_FAILED"

-----------------------------------------------------------------------------
(* A call that ends; one that fails to open closes the descriptor.          *)
Return(r) ==
    /\ result' = r /\ call' = "none" /\ expired' = FALSE
    /\ IF call = "open" /\ r # "OK" THEN fd' = "closed" /\ UNCHANGED phase
       ELSE /\ UNCHANGED fd
            /\ phase' = IF call = "open" THEN "data" ELSE phase
    /\ UNCHANGED <<engineVars, socketVars, taken>>

TimedOut(way) == IF phase = "handshake" THEN "HANDSHAKE_TIMEOUT" ELSE way

Working == call \in {"open", "send", "flush", "recv"}

(* What fails before the handshake: flags, anchors, clock, entropy.          *)
OpenFails ==
    /\ call = "open" /\ turn = 0 /\ out
    /\ \E r \in {"INVALID", "INTERNAL", "INVALID_CA", "ENTROPY_FAILED"} : Return(r)

Ended == Working /\ "CLOSED" \in EngineState /\ Return(classify_engine)

(* io_flush_out *)
Flush ==
    /\ Working /\ "SENDREC" \in EngineState
    /\ \/ /\ room /\ ~expired        \* also when the peer sends no more
          /\ turn' = IF turn < Turns THEN turn + 1 ELSE turn
          /\ out' = FALSE
          /\ UNCHANGED <<app, closed, error, socketVars, callVars>>
       \/ expired /\ Return(TimedOut("SEND_TIMEOUT"))
       \/ eof /\ Return("PROTOCOL_FAILED")

(* Mutant: the end of the stream counts as the end of the answer. *)
IngestIn_eof_is_end ==
    /\ Working /\ "RECVREC" \in EngineState /\ call \in {"open", "recv"}
    /\ \/ /\ incoming # <<>> /\ ~expired
          /\ Ingest(Head(incoming)) /\ incoming' = Tail(incoming)
          /\ UNCHANGED <<eof, room, sent, finished, callVars>>
       \/ expired /\ Return(TimedOut("RECV_TIMEOUT"))
       \/ incoming = <<>> /\ eof /\ Return("CLOSED")

(* io_ingest_in: once there is something to send, a send does not wait for  *)
(* the peer, because SENDAPP is looked at before RECVREC.                   *)
IngestIn ==
    /\ Working /\ "RECVREC" \in EngineState /\ call \in {"open", "recv"}
    /\ \/ /\ incoming # <<>> /\ ~expired
          /\ Ingest(Head(incoming)) /\ incoming' = Tail(incoming)
          /\ UNCHANGED <<eof, room, sent, finished, callVars>>
       \/ expired /\ Return(TimedOut("RECV_TIMEOUT"))
       \/ incoming = <<>> /\ eof /\ Return("PROTOCOL_FAILED")

HandshakeDone == call = "open" /\ turn = Turns /\ ~out /\ ~closed /\ Return("OK")

(* cn_tls_send_all: a record is filled, then flushed; data that is still to  *)
(* be taken is an error.                                                    *)
Fill ==
    /\ call = "send"
    /\ \/ /\ "SENDAPP" \in EngineState /\ out' = TRUE /\ call' = "flush"
          /\ UNCHANGED <<turn, app, closed, error, socketVars, fd, phase, expired, result, taken>>
       \/ "RECVAPP" \in EngineState /\ Return("PROTOCOL_FAILED")

Flushed == call = "flush" /\ EngineState \cap {"CLOSED", "SENDREC"} = {} /\ Return("OK")

(* cn_tls_recv_some *)
Take ==
    /\ call = "recv" /\ "RECVAPP" \in EngineState
    /\ app' = FALSE /\ taken' = taken + 1
    /\ result' = "OK" /\ call' = "none" /\ expired' = FALSE
    /\ UNCHANGED <<turn, out, closed, error, socketVars, fd, phase>>

(* cn_tls_close: close_notify, for 200 ms at most, then the descriptor.     *)
Close ==
    /\ call = "close" /\ fd = "open"
    /\ fd' = "closed" /\ call' = "none" /\ expired' = FALSE
    /\ UNCHANGED <<engineVars, socketVars, phase, result, taken>>

(* The exchange goes on after OK and closes after anything else.            *)
CallNext ==
    /\ call = "none" /\ fd = "open"
    /\ call' \in (IF result = "OK" THEN {"send", "recv", "close"} ELSE {"close"})
    /\ UNCHANGED <<engineVars, socketVars, fd, phase, expired, result, taken>>

Expire ==
    /\ Working /\ ~expired /\ expired' = TRUE
    /\ UNCHANGED <<engineVars, socketVars, fd, phase, call, result, taken>>

-----------------------------------------------------------------------------
(* The peer: it sends what it likes, in time or never, and stops reading.   *)
Peer ==
    /\ ~eof /\ Len(incoming) < 2
    /\ \/ \E r \in {"handshake", "data", "close", "garbage"} :
             /\ ~finished
             /\ r = "data" => sent < MaxData
             /\ incoming' = Append(incoming, r)
             /\ sent' = IF r = "data" THEN sent + 1 ELSE sent
             /\ finished' = (r = "close")
             /\ UNCHANGED <<eof, room>>
       \/ eof' = TRUE /\ UNCHANGED <<incoming, room, sent, finished>>
       \/ room' = ~room /\ UNCHANGED <<incoming, eof, sent, finished>>
    /\ UNCHANGED <<engineVars, callVars>>

Progress ==
    \/ Ended \/ Flush \/ IngestIn \/ HandshakeDone \/ Fill \/ Flushed \/ Take \/ Close \/ Expire

Next == Progress \/ OpenFails \/ CallNext \/ Peer

Spec == Init /\ [][Next]_vars

-----------------------------------------------------------------------------
TypeOK ==
    /\ turn \in 0 .. Turns /\ sent \in 0 .. MaxData /\ taken \in 0 .. sent
    /\ fd \in {"open", "closed"} /\ phase \in {"handshake", "data"}
    /\ call \in {"none", "open", "send", "flush", "recv", "close"}
    /\ phase = "data" => turn = Turns

(* A receive says that the connection was closed only when the peer said so, *)
(* and then all the data it sent before was handed over.  A stream that just *)
(* ends, or breaks, is never an end of the answer.                          *)
EndIsThePeers ==
    call = "none" /\ phase = "data" /\ result = "CLOSED" => finished /\ taken = sent

(* Nothing is sent or received through an unfinished handshake, and no call  *)
(* works on a descriptor that was closed.                                   *)
OnlyOverTls ==
    /\ call \in {"send", "flush", "recv"} => phase = "data" /\ fd = "open"
    /\ call \in {"open", "close"} => fd = "open"
    /\ taken > 0 => phase = "data"

(* A certificate is the reason of a failed open, never of a later failure,   *)
(* and each timeout is named after what was waited for.                     *)
ReasonFitsPhase ==
    call = "none" => /\ result \in CertificateErrors \cup {"HANDSHAKE_FAILED", "HANDSHAKE_TIMEOUT"}
                           => phase = "handshake" /\ fd = "closed"
                     /\ result \in {"SEND_TIMEOUT", "RECV_TIMEOUT"} => phase = "data"

(* Every call returns, whether the peer reads, writes or neither.           *)
CallsReturn == call # "none" ~> call = "none"

=============================================================================
