------------------------------ MODULE MountInfo ------------------------------
(***************************************************************************)
(* read_live (platform/storage_verify.c): the whole of                       *)
(* /proc/self/mountinfo into a buffer of CAPACITY bytes, in reads that may   *)
(* be short, be interrupted or fail, while the table may grow and shrink.    *)
(* A piece of the table is known by the version it was read of.              *)
(***************************************************************************)
EXTENDS Naturals, Sequences

CONSTANTS
    CAPACITY,               \* CN_PLATFORM_MOUNTINFO_CAPACITY
    MaxLength, MaxChanges   \* bounds of the model

CapacityAssumption == CAPACITY \in Nat \ {0} /\ MaxLength \in Nat /\ MaxChanges \in Nat

VARIABLES
    length, version,    \* the table
    still,              \* history: the table since the file was opened
    pc, out, got, descriptor, result

callVars == <<pc, out, got, descriptor, result>>
vars == <<length, version, still, callVars>>

Init ==
    /\ length \in 0 .. MaxLength /\ version = 0 /\ still = TRUE
    /\ pc = "open" /\ out = <<>> /\ got = 0 /\ descriptor = "none" /\ result = "none"

World == UNCHANGED <<length, version, still>>
Done == Len(out)

Return(r) == pc' = "done" /\ result' = r /\ UNCHANGED <<out, got>>

Open ==
    /\ pc = "open" /\ World
    /\ \/ Return("failed") /\ UNCHANGED descriptor
       \/ pc' = "read" /\ descriptor' = "open" /\ UNCHANGED <<out, got, result>>

(* What a read of n bytes may return; 0 is the end of the table. *)
Returned(n) ==
    IF Done >= length THEN {0} ELSE {k \in 1 .. n : Done + k <= length}

(* The loop: until the buffer is full or a read returns nothing.  A read     *)
(* that is interrupted is made again, which changes nothing.                 *)
Read ==
    /\ pc = "read" /\ World
    /\ \E k \in Returned(CAPACITY - Done) :
          /\ got' = k /\ out' = out \o [n \in 1 .. k |-> version]
          /\ pc' = IF k = 0 THEN "close" ELSE IF Done + k = CAPACITY THEN "probe" ELSE "read"
    /\ UNCHANGED <<descriptor, result>>

(* Mutant: a full buffer is taken for the whole table. *)
Probe_unasked ==
    /\ pc = "probe" /\ World
    /\ got' = 0 /\ pc' = "close"
    /\ UNCHANGED <<out, descriptor, result>>

(* One byte more: is there anything after the buffer? *)
Probe ==
    /\ pc = "probe" /\ World
    /\ \E k \in Returned(1) :
          /\ got' = k
          /\ pc' = IF k = 0 THEN "close" ELSE "fail"
    /\ UNCHANGED <<out, descriptor, result>>

ReadFails == pc \in {"read", "probe"} /\ World /\ pc' = "fail"
             /\ UNCHANGED <<out, got, descriptor, result>>

(* The end was seen: an empty table is a failure, and so is a close that is. *)
Close ==
    /\ pc = "close" /\ World
    /\ descriptor' = "closed"
    /\ \/ Done > 0 /\ Return("ok")
       \/ Return("failed")

Fail == pc = "fail" /\ World /\ descriptor' = "closed" /\ Return("failed")

(* Mounts come and go: the table is as long as they make it. *)
Change ==
    /\ version < MaxChanges /\ version' = version + 1
    /\ still' = (pc = "open") /\ length' \in 0 .. MaxLength
    /\ UNCHANGED callVars

Next == Open \/ Read \/ Probe \/ ReadFails \/ Close \/ Fail \/ Change

Spec == Init /\ [][Next]_vars

(* Interrupted reads come to an end, and the program goes on. *)
Progress == Open \/ Read \/ Probe \/ Close \/ Fail

-----------------------------------------------------------------------------
(* The buffer is never passed, and the descriptor is open between the open    *)
(* that worked and the return.                                               *)
TypeOK ==
    /\ length \in 0 .. MaxLength /\ version \in 0 .. MaxChanges /\ still \in BOOLEAN
    /\ Len(out) <= CAPACITY /\ got \in 0 .. CAPACITY
    /\ descriptor \in {"none", "open", "closed"}
    /\ (descriptor = "open") <=> (pc \in {"read", "probe", "close", "fail"})

(* A table that did not change while it was read is returned whole or not at *)
(* all, whatever the reads returned, the table that just fills the buffer    *)
(* and the one a byte longer included: a mount that is left out could be the *)
(* one that hides the card.                                                  *)
OkIsWhole ==
    result = "ok" /\ still => Len(out) = length /\ length \in 1 .. CAPACITY

=============================================================================
