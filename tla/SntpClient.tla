------------------------------ MODULE SntpClient ------------------------------
(***************************************************************************)
(* cn_timesimple_sync (time/timesimple.c): ask the servers in turn for the  *)
(* time, once each, and set the clock to the first answer that holds.       *)
(* Queries and replies take any time, get lost and come again.  Time is     *)
(* counted in ticks, Fine of them to a second; NTP seconds are counted from *)
(* Delta seconds before zero and wrap after Era.                            *)
(***************************************************************************)
EXTENDS Integers, Sequences

CONSTANTS
    Servers,        \* the configured servers, in order
    Wrong,          \* those whose clock is wrong
    Fine, Era, Delta,
    WindowMin, WindowMax,   \* CN_TIME_RELEASE_MIN_UNIX, CN_TIME_TARGET_MAX_UNIX
    Timeout,        \* of one attempt, in ticks
    Starts          \* bound of the model: true times at which the call begins

ServersAssumption == Len(Servers) \in 1 .. 2
FineAssumption == Fine \in Nat \ {0} /\ Timeout \in Nat \ {0}
(* The window ends within an era of zero: 2^31 - 1 and 2^32 in the code. *)
WindowAssumption ==
    /\ {Era, Delta, WindowMin, WindowMax} \subseteq Nat
    /\ Delta < Era /\ WindowMin < WindowMax /\ WindowMax < Era
(* No date during the call is an era later than one that is accepted. *)
StartsAssumption ==
    /\ Starts \subseteq Nat
    /\ \A t \in Starts : t + Len(Servers) * Timeout < (WindowMin + Era) * Fine

VARIABLES
    time,           \* true time
    offset,         \* how far the wall clock is ahead of it
    pc,             \* "idle", "send", "wait", "ended" (one attempt), "set", "done"
    attempt,        \* index of the server asked; nonce of the request
    sentAt, deadline,
    queries,        \* [to, nonce] in the network
    replies,        \* [from, nonce, stamp] in the network, any number of times
    sample,         \* [time, rtt]
    result,
    missed          \* history: by how much the sample missed the true time
                    \* when it was taken

clientVars == <<pc, attempt, sentAt, deadline, sample, result, missed>>
vars == <<time, offset, clientVars, queries, replies>>

HeaderFaults == {"PACKET_SIZE", "VERSION", "MODE", "UNSYNCHRONIZED",
                 "KISS_OF_DEATH", "STRATUM"}
ZeroFaults == {"ZERO_RECEIVE", "ZERO_TRANSMIT"}
Results == HeaderFaults \cup ZeroFaults \cup
    {"OK", "INVALID", "INTERNAL", "ENTROPY_FAILED", "SOCKET_FAILED", "SEND_FAILED",
     "TIMEOUT", "RECV_FAILED", "PEER_MISMATCH", "ORIGINATE_MISMATCH", "TIME_RANGE",
     "CLOCK_SET_FAILED"}
Stamps == [seconds : 0 .. Era - 1, fraction : 0 .. Fine - 1]

InWindow(seconds) == seconds \in WindowMin .. WindowMax

Init ==
    /\ time \in Starts /\ offset \in {0, -time}
    /\ pc = "idle" /\ attempt = 0 /\ sentAt = 0 /\ deadline = 0
    /\ queries = {} /\ replies = {}
    /\ sample = [time |-> 0, rtt |-> 0] /\ result = "INVALID" /\ missed = 0

-----------------------------------------------------------------------------
(* decode_transmit_time.                                                    *)
StampOf(t) == [seconds |-> (t \div Fine + Delta) % Era, fraction |-> t % Fine]

CandidateSeconds(s) == {c \in {s.seconds - Delta, s.seconds + Era - Delta} : InWindow(c)}

Decoded(s, rtt, c) == c * Fine + s.fraction + rtt \div 2

(* The one time that is meant, or none. *)
decode_transmit_time(s, rtt) ==
    {Decoded(s, rtt, c) : c \in {d \in CandidateSeconds(s) :
        InWindow(Decoded(s, rtt, d) \div Fine)}}

-----------------------------------------------------------------------------
EndAttempt(r) ==
    /\ pc' = "ended" /\ result' = r
    /\ UNCHANGED <<attempt, sentAt, deadline, sample, missed>>

Still == UNCHANGED <<time, offset, queries, replies>>

(* What came of the attempt before is not read again. *)
BeginAttempt ==
    /\ attempt' = attempt + 1 /\ deadline' = time + Timeout /\ pc' = "send"
    /\ result' = "INVALID"
    /\ UNCHANGED <<sentAt, sample, missed>>

Query ==
    /\ pc = "idle" /\ Still
    /\ \/ BeginAttempt
       \/ /\ pc' = "done" /\ result' = "INVALID"
          /\ UNCHANGED <<attempt, sentAt, deadline, sample, missed>>

CannotSend ==
    /\ pc = "send" /\ Still
    /\ \E r \in {"INVALID", "INTERNAL", "ENTROPY_FAILED", "SOCKET_FAILED",
                 "SEND_FAILED"} : EndAttempt(r)

(* The time of sending is read again before each try to send. *)
Send ==
    /\ pc = "send"
    /\ sentAt' = time /\ pc' = "wait"
    /\ queries' = queries \cup {[to |-> Servers[attempt], nonce |-> attempt]}
    /\ UNCHANGED <<time, offset, replies, attempt, deadline, sample, result, missed>>

TimesOut == pc \in {"send", "wait"} /\ time >= deadline /\ EndAttempt("TIMEOUT") /\ Still

(* Mutant: a reply to any request will do. *)
Originate_any(r) == TRUE

Originate(r) == r.nonce = attempt

(* What becomes of a packet that was received: any of them may be spoilt.    *)
Receive ==
    /\ pc = "wait" /\ time < deadline /\ Still
    /\ \E r \in replies :
          LET rtt == time - sentAt
              meant == decode_transmit_time(r.stamp, rtt)
          IN  IF r.from # Servers[attempt] THEN EndAttempt("PEER_MISMATCH")
              ELSE \/ \E f \in HeaderFaults : EndAttempt(f)
                   \/ /\ ~Originate(r) /\ EndAttempt("ORIGINATE_MISMATCH")
                   \/ /\ Originate(r) /\ \E f \in ZeroFaults : EndAttempt(f)
                   \/ /\ Originate(r) /\ meant = {} /\ EndAttempt("TIME_RANGE")
                   \/ /\ Originate(r)
                      /\ \E t \in meant : /\ sample' = [time |-> t, rtt |-> rtt]
                                          /\ missed' = t - time
                      /\ pc' = "set" /\ result' = "OK"
                      /\ UNCHANGED <<attempt, sentAt, deadline>>

ReceiveFails ==
    pc = "wait" /\ Still /\ \E r \in {"RECV_FAILED", "INTERNAL"} : EndAttempt(r)

Decide ==
    /\ pc = "ended" /\ Still
    /\ IF result \notin {"ENTROPY_FAILED", "INTERNAL"} /\ attempt < Len(Servers)
       THEN BeginAttempt
       ELSE pc' = "done"
            /\ UNCHANGED <<attempt, sentAt, deadline, sample, result, missed>>

(* clock_settime *)
SetClock ==
    /\ pc = "set" /\ pc' = "done"
    /\ \/ offset' = sample.time - time /\ UNCHANGED result
       \/ UNCHANGED offset /\ result' = "CLOCK_SET_FAILED"
    /\ UNCHANGED <<time, attempt, sentAt, deadline, sample, missed, queries, replies>>

-----------------------------------------------------------------------------
(* The network and the servers (external).  A wrong server sends what it     *)
(* likes; a reply stays about and may reach the socket of a later attempt.  *)
Reply ==
    /\ \E q \in queries :
          \E s \in IF q.to \in Wrong THEN Stamps ELSE {StampOf(time)} :
             replies' = replies \cup {[from |-> q.to, nonce |-> q.nonce, stamp |-> s]}
    /\ \A q \in queries :           \* bound of the model: a reply per query
          \A r, s \in replies' : r.nonce = q.nonce /\ s.nonce = q.nonce => r = s
    /\ UNCHANGED <<time, offset, clientVars, queries>>

Tick ==
    /\ pc \in {"send", "wait"} /\ time < deadline
    /\ time' = time + 1
    /\ UNCHANGED <<offset, clientVars, queries, replies>>

Progress == Query \/ Send \/ TimesOut \/ Receive \/ Decide \/ SetClock

Next == Progress \/ CannotSend \/ ReceiveFails \/ Reply \/ Tick

Spec == Init /\ [][Next]_vars

-----------------------------------------------------------------------------
TypeOK ==
    /\ time \in Nat /\ offset \in Int
    /\ pc \in {"idle", "send", "wait", "ended", "set", "done"}
    /\ attempt \in 0 .. Len(Servers) /\ {sentAt, deadline} \subseteq Nat
    /\ sample \in [time : Nat, rtt : 0 .. Timeout] /\ missed \in Int
    /\ result \in Results

Honest == Servers[attempt] \notin Wrong

(* An honest server's sample misses the true time by half the round trip at  *)
(* most (and the tick that halving loses), in whichever era it was stamped,  *)
(* with replies to earlier attempts about.                                  *)
Accurate ==
    pc \in {"set", "done"} /\ result = "OK" /\ Honest =>
        2 * missed \in -(sample.rtt + 1) .. sample.rtt + 1

(* The clock is never set to a date outside the window, whatever the server  *)
(* says: the 32-bit clock of the device does not know later ones.           *)
SetInWindow ==
    pc \in {"set", "done"} /\ result = "OK" => InWindow(sample.time \div Fine)

(* An honest server's answer is refused for its date only when the date is   *)
(* not in the window, or leaves it before half the round trip has passed     *)
(* again: no era and no fraction makes a good date look like another.       *)
RangeIsTheDate ==
    pc = "ended" /\ result = "TIME_RANGE" /\ Honest =>
        \/ ~InWindow(sentAt \div Fine)
        \/ ~InWindow((time + (time - sentAt) \div 2) \div Fine)

=============================================================================
