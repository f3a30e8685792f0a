---------------------------- MODULE BookIdentity ----------------------------
(***************************************************************************)
(* cn_book_identity_koreader_binary (book/koreader_identity.c): the digest  *)
(* KOReader takes of a book, of the bytes of a few windows of the file.     *)
(* The digest is kept as what was fed to it (MD5 is taken to be             *)
(* injective); a byte is its position and the writing it is of.  The file   *)
(* may be written to while it is sampled, and any call may fail.            *)
(***************************************************************************)
EXTENDS Naturals, Sequences, FiniteSetsExt

CONSTANTS
    SAMPLE_BYTES,   \* KOREADER_SAMPLE_BYTES: 1024 in the code
    SAMPLES,        \* entries of SAMPLE_OFFSETS: 12 in the code
    MaxSize, MaxWrites, MaxCalls    \* bounds of the model

SampleAssumption ==
    /\ SAMPLE_BYTES \in Nat \ {0} /\ SAMPLES \in Nat \ {0}
    /\ {MaxSize, MaxWrites, MaxCalls} \subseteq Nat

VARIABLES
    size, writes,   \* the file: its length, and how often it was written
    still,          \* history: no writing since the call began
    calls, pc, i, context, open,
    hex, result     \* the caller's identity and the returned value

callVars == <<calls, pc, i, context, open, hex, result>>
vars == <<size, writes, still, callVars>>

(* An identity: hexadecimal digits, or the zeros of _init. *)
Hex(digest) == [text |-> TRUE, digest |-> digest]
NoHex == [text |-> FALSE, digest |-> <<>>]

FourTo[n \in Nat] == IF n = 0 THEN 1 ELSE 4 * FourTo[n - 1]

(* Mutant: the windows start at twice the offset of the one before. *)
SAMPLE_OFFSET_doubling(k) == IF k = 0 THEN 0 ELSE SAMPLE_BYTES * 2 ^ (k - 1)

(* SAMPLE_OFFSETS[k] is 1024 * 4 ^ (k - 1), and 0 for the first. *)
SAMPLE_OFFSET(k) == IF k = 0 THEN 0 ELSE SAMPLE_BYTES * FourTo[k - 1]

Init ==
    /\ size \in 0 .. MaxSize /\ writes = 0 /\ still = TRUE
    /\ calls = 0 /\ pc = "idle" /\ i = 0 /\ context = <<>> /\ open = FALSE
    /\ hex = NoHex /\ result = "INVALID"

World == UNCHANGED <<size, writes, still>>

-----------------------------------------------------------------------------
Return(r) ==
    /\ pc' = "idle" /\ result' = r /\ open' = FALSE
    /\ UNCHANGED <<calls, i, context>>

(* The identity is cleared; then the path is looked at and opened. *)
Begin ==
    /\ pc = "idle" /\ calls < MaxCalls /\ calls' = calls + 1
    /\ still' = TRUE /\ i' = 0 /\ context' = <<>> /\ hex' = NoHex
    /\ \/ pc' = "sample" /\ open' = TRUE /\ result' = "IO_ERROR"
       \/ \E r \in {"INVALID", "IO_ERROR"} :
             pc' = "idle" /\ open' = FALSE /\ result' = r
    /\ UNCHANGED <<size, writes>>

(* What fread returns: fewer bytes than asked for only at the end. *)
Window(from) ==
    [n \in 1 .. Min({SAMPLE_BYTES, Max({size, from}) - from}) |-> <<from + n - 1, writes>>]

(* A failing fseek or fread: the file is closed. *)
Fails == pc = "sample" /\ World /\ Return("IO_ERROR") /\ UNCHANGED hex

(* One fseek and one fread. *)
Sample ==
    /\ pc = "sample" /\ World
    /\ LET sample == Window(SAMPLE_OFFSET(i))
       IN  /\ IF sample = <<>>
              THEN pc' = "close" /\ UNCHANGED <<i, context>>
              ELSE /\ context' = context \o sample /\ i' = i + 1
                   /\ pc' = IF i + 1 = SAMPLES THEN "close" ELSE "sample"
           /\ UNCHANGED <<calls, open, hex, result>>

Close ==
    /\ pc = "close" /\ World
    /\ \/ Return("IO_ERROR") /\ UNCHANGED hex
       \/ Return("OK") /\ hex' = Hex(context)

-----------------------------------------------------------------------------
(* The file is written to in place: longer, shorter, or with other bytes.    *)
Write ==
    /\ writes < MaxWrites /\ writes' = writes + 1 /\ still' = FALSE
    /\ size' \in {0, size, MaxSize}
    /\ UNCHANGED callVars

Next == Begin \/ Sample \/ Fails \/ Close \/ Write

Spec == Init /\ [][Next]_vars

-----------------------------------------------------------------------------
(* The state of a call that is running or over. *)
TypeOK ==
    /\ size \in 0 .. MaxSize /\ writes \in 0 .. MaxWrites /\ still \in BOOLEAN
    /\ calls \in 0 .. MaxCalls /\ pc \in {"idle", "sample", "close"}
    /\ i \in 0 .. SAMPLES /\ Len(context) <= SAMPLES * SAMPLE_BYTES
    /\ open \in BOOLEAN /\ (open <=> pc # "idle")

(* What docs/milestone-koreader-identity.md asks of Binary: the bytes at the *)
(* offsets 0 and SAMPLE_BYTES * 4^n, SAMPLE_BYTES at most from each, in the  *)
(* order of the file, and no others.  It is stated of positions, not of      *)
(* reads.                                                                   *)
Sampled(p) ==
    \/ p < SAMPLE_BYTES
    \/ \E n \in 0 .. SAMPLES - 2 :
          p >= SAMPLE_BYTES * FourTo[n] /\ p < SAMPLE_BYTES * FourTo[n] + SAMPLE_BYTES
IsPartialMD5(digest) ==
    /\ \A m, n \in DOMAIN digest : m < n => digest[m][1] < digest[n][1]
    /\ {digest[n] : n \in DOMAIN digest} =
          {<<p, writes>> : p \in {q \in 0 .. size - 1 : Sampled(q)}}

(* The identity of a file that nobody writes during the call is the one      *)
(* KOReader computes, wherever the file ends; another device finds the book  *)
(* on the server only under that one.                                       *)
OkIsKoreaders == pc = "idle" /\ result = "OK" /\ still =>
    hex.text /\ IsPartialMD5(hex.digest)

(* A call that failed leaves no text (cn_koreader_document_id_text) to sync  *)
(* under: not the digest of what it had read, and not the identity of the    *)
(* book before.                                                             *)
FailureHasNoText == pc # "idle" \/ result # "OK" => ~hex.text

=============================================================================
