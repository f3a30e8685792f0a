------------------------------ MODULE KosyncJson ------------------------------
(***************************************************************************)
(* How kosync.c takes a response body apart: parse_object one member at a  *)
(* time, with the position buffer that it allocates on the way, and its    *)
(* three users: cn_kosync_parse_progress, the record of a GET, and the     *)
(* acknowledgement of a PUT.  The server sends any object, and memory can  *)
(* run out.                                                                *)
(*                                                                         *)
(* A member is its key and whether its value is well-formed; of the values *)
(* only the document id is looked at here.                                 *)
(***************************************************************************)
EXTENDS Naturals, Sequences, FiniteSets

CONSTANTS
    Documents,  \* document ids of 32 hexadecimal digits
    Asked,      \* the one that the operation is about
    Blocks,     \* allocations
    MaxMembers, \* members of an object
    MaxCalls    \* operations on the same progress record

AskedAssumption == Asked \in Documents
BoundsAssumption == MaxMembers \in Nat /\ MaxCalls \in Nat

Null == "null"
Malformed == "malformed"    \* text that is no document id
NoDocument == "none"
NamesAssumption ==
    /\ Null \notin Blocks
    /\ {Malformed, NoDocument} \cap Documents = {}

Known == {"document", "progress", "percentage", "device", "device_id",
          "timestamp"}
Required == {"document", "progress", "percentage", "device"}
Ack == {"document", "timestamp"}

VARIABLES
    op,         \* the last operation: "get", "put", or "none"
    pc,         \* where it is
    fields,     \* parsed->fields
    document,   \* parsed->progress.document_id
    device,     \* parsed->progress.device is not empty
    parsed,     \* parsed->progress.logical_position: a block
    position,   \* parse_object's own pointer: a block
    caller,     \* the caller's progress record
    heap,       \* blocks allocated and not freed
    freed_twice,\* a block was freed that was not allocated
    members,    \* history: the members read
    result,
    calls

parser == <<fields, document, device, parsed, position>>
memory == <<caller, heap, freed_twice>>
vars == <<op, pc, parser, memory, members, result, calls>>

Nobody == [document |-> NoDocument, position |-> Null]

Init ==
    /\ op = "none"
    /\ pc = "idle"
    /\ fields = {}
    /\ document = NoDocument
    /\ device = FALSE
    /\ parsed = Null
    /\ position = Null
    /\ caller = Nobody
    /\ heap = {}
    /\ freed_twice = FALSE
    /\ members = << >>
    /\ result = "none"
    /\ calls = 0

-----------------------------------------------------------------------------
(* free() of some pointers, none of them twice in the same step. *)
Free(pointers) ==
    LET real == pointers \ {Null}
    IN /\ heap' = heap \ real
       /\ freed_twice' = (freed_twice \/ ~ real \subseteq heap)

Kept == UNCHANGED memory

(* What the object said, in order. *)
Said(k, good, d) ==
    members' = Append(members, [key |-> k, good |-> good, document |-> d])

(* cn_kosync_progress_init of the parsed record. *)
ParsedEmpty ==
    /\ document' = NoDocument
    /\ device' = FALSE
    /\ parsed' = Null

Return(r) ==
    /\ pc' = "idle"
    /\ op' = op
    /\ result' = r

(* Mutant: the caller's record is cleared as well. *)
BadJson_clears_caller ==
    /\ Return("BAD_JSON")
    /\ Free({position, parsed, caller.position})
    /\ position' = Null
    /\ ParsedEmpty
    /\ fields' = {}
    /\ caller' = Nobody

(* bad_json: the pointer and the parsed record are freed. *)
BadJson ==
    /\ Return("BAD_JSON")
    /\ Free({position, parsed})
    /\ position' = Null
    /\ ParsedEmpty
    /\ fields' = {}
    /\ UNCHANGED caller

-----------------------------------------------------------------------------
(* A 200 answered the request; its body begins to be parsed. *)
Begin(o) ==
    /\ pc = "idle"
    /\ calls < MaxCalls
    /\ calls' = calls + 1
    /\ op' = o
    /\ pc' = "open"
    /\ fields' = {}
    /\ ParsedEmpty
    /\ position' = Null
    /\ members' = << >>
    /\ result' = "none"
    /\ Kept

(* The first characters: no object, an empty one, or a member. *)
Opening ==
    /\ pc = "open"
    /\ \/ /\ Return("BAD_JSON")
          /\ Kept
       \/ /\ pc' \in {"key", "whole"}
          /\ Kept
          /\ UNCHANGED <<op, result>>
    /\ UNCHANGED <<parser, members, calls>>

(* A key and its colon; a key of 32 bytes or more is refused. *)
KeyFails ==
    /\ pc = "key"
    /\ BadJson
    /\ UNCHANGED <<members, calls>>

Duplicate(k) == k \in fields

(* The value of a known member is malformed, or the member came before; an  *)
(* unknown one is neither a string, a number, true, false nor null.         *)
ValueFails ==
    /\ pc = "key"
    /\ Len(members) < MaxMembers
    /\ \E k \in Known \cup {"unknown"} :
          /\ k # "progress" \/ Duplicate(k)
          /\ Said(k, FALSE, NoDocument)
    /\ BadJson
    /\ UNCHANGED calls

Value ==
    /\ pc = "key"
    /\ Len(members) < MaxMembers
    /\ \E k \in (Known \ {"progress"}) \cup {"unknown"} :
          /\ ~ Duplicate(k)
          /\ fields' = fields \cup ({k} \cap Known)
          /\ \E d \in IF k = "document" THEN Documents \cup {Malformed}
                                        ELSE {NoDocument} :
                /\ Said(k, TRUE, d)
                /\ document' = IF k = "document" THEN d ELSE document
          /\ device' \in IF k = "device" THEN BOOLEAN ELSE {device}
    /\ pc' = "after"
    /\ Kept
    /\ UNCHANGED <<op, parsed, position, result, calls>>

(* "progress": the buffer is allocated before the string is read into it.   *)
Allocate ==
    /\ pc = "key"
    /\ Len(members) < MaxMembers
    /\ ~ Duplicate("progress")
    /\ fields' = fields \cup {"progress"}
    /\ \/ \E b \in Blocks \ heap :
             /\ position' = b
             /\ heap' = heap \cup {b}
             /\ pc' = "position"
             /\ UNCHANGED <<op, document, device, parsed, freed_twice, result>>
       \/ /\ Free({parsed})
          /\ ParsedEmpty
          /\ Return("NO_MEMORY")
          /\ UNCHANGED position
    /\ UNCHANGED <<caller, members, calls>>

(* The string is read, and not empty: the record owns it from now on. *)
Position ==
    /\ pc = "position"
    /\ \/ /\ parsed' = position
          /\ position' = Null
          /\ pc' = "after"
          /\ Said("progress", TRUE, NoDocument)
          /\ Kept
          /\ UNCHANGED <<op, fields, document, device, result>>
       \/ /\ Said("progress", FALSE, NoDocument)
          /\ BadJson
    /\ UNCHANGED calls

(* A comma and the next member, the end of the object, or neither; after    *)
(* the end there may be only white space.                                   *)
After ==
    /\ pc = "after"
    /\ \/ /\ pc' \in {"key", "whole"}
          /\ Kept
          /\ UNCHANGED <<op, parser, result>>
       \/ BadJson
    /\ UNCHANGED <<members, calls>>

-----------------------------------------------------------------------------
(* cn_kosync_parse_progress and, for a GET, the comparison with the         *)
(* document that was asked for.                                             *)

(* Mutant: the caller's record is overwritten and its position lost. *)
TakeRecord_uncleared(record) ==
    /\ caller' = record
    /\ UNCHANGED <<heap, freed_twice>>

TakeRecord(record) ==
    /\ caller' = IF record.document = Asked THEN record ELSE Nobody
    /\ Free({caller.position} \cup
            (IF record.document = Asked THEN {} ELSE {record.position}))

Usable == Required \subseteq fields /\ document # Malformed /\ device

Missing == fields = {}

Judge ==
    /\ pc = "whole"
    /\ op = "get"
    /\ \/ /\ Missing
          /\ Free({parsed})
          /\ Return("NOT_FOUND")
          /\ UNCHANGED caller
       \/ /\ ~ Missing
          /\ ~ Usable
          /\ Free({parsed})
          /\ Return("BAD_PROTOCOL")
          /\ UNCHANGED caller
       \/ /\ ~ Missing
          /\ Usable
          /\ TakeRecord([document |-> document, position |-> parsed])
          /\ Return(IF caller'.document = NoDocument THEN "BAD_PROTOCOL" ELSE "OK")
    /\ ParsedEmpty
    /\ UNCHANGED <<fields, position, members, calls>>

(* The acknowledgement names the document and has a timestamp; what else it *)
(* holds is freed.                                                          *)
Acknowledge ==
    /\ pc = "whole"
    /\ op = "put"
    /\ Return(IF Ack \subseteq fields /\ document = Asked
              THEN "OK" ELSE "BAD_PROTOCOL")
    /\ Free({parsed})
    /\ ParsedEmpty
    /\ UNCHANGED <<fields, position, caller, members, calls>>

Next ==
    \/ Begin("get") \/ Begin("put")
    \/ Opening \/ KeyFails \/ ValueFails \/ Value \/ Allocate \/ Position
    \/ After \/ Judge \/ Acknowledge

Spec == Init /\ [][Next]_vars
-----------------------------------------------------------------------------
Pointers == <<position, parsed, caller.position>>

(* Every variable has its type, and the position is read into a buffer that *)
(* exists.                                                                  *)
TypeOK ==
    /\ pc = "position" => position \in heap
    /\ op \in {"none", "get", "put"}
    /\ pc \in {"idle", "open", "key", "position", "after", "whole"}
    /\ fields \subseteq Known
    /\ document \in Documents \cup {Malformed, NoDocument}
    /\ device \in BOOLEAN
    /\ caller.document \in Documents \cup {NoDocument}
    /\ \A i \in 1 .. 3 : Pointers[i] \in Blocks \cup {Null}
    /\ heap \subseteq Blocks
    /\ freed_twice \in BOOLEAN
    /\ Len(members) <= MaxMembers
    /\ calls \in 0 .. MaxCalls

(* Every allocated buffer has exactly one owner at any time, on every error *)
(* path of parse_object and of its callers: nothing leaks, nothing is freed *)
(* twice, and no pointer is left to freed memory.                           *)
OneOwner ==
    /\ heap = {Pointers[i] : i \in 1 .. 3} \ {Null}
    /\ \A i, j \in 1 .. 3 :
          i # j /\ Pointers[i] = Pointers[j] => Pointers[i] = Null
    /\ ~ freed_twice

Times(k) == Cardinality({i \in DOMAIN members : members[i].key = k})

(* OK says that the whole object was well-formed, that no known member came *)
(* twice, that every member the operation needs was there, and that it was  *)
(* about the document asked for, whatever order the server chose.           *)
OkIsTheAnswer ==
    result = "OK" =>
        /\ \A i \in DOMAIN members : members[i].good
        /\ \A k \in Known : Times(k) <= 1
        /\ \A k \in IF op = "get" THEN Required ELSE Ack : Times(k) = 1
        /\ \A i \in DOMAIN members :
              members[i].key = "document" => members[i].document = Asked
        /\ op = "get" => caller.document = Asked /\ caller.position # Null

(* NOT_FOUND, which lets a sync upload, is never said of an object that has *)
(* any member of a record, nor of one that is not well-formed.              *)
NotFoundSaysNothing ==
    result = "NOT_FOUND" =>
        \A i \in DOMAIN members : members[i].good /\ members[i].key \notin Known

(* A failed operation leaves the caller's record as it was; only a record   *)
(* of another document clears it.                                           *)
FailureKeepsRecord ==
    pc # "idle" /\ pc' = "idle" /\ result' # "OK" =>
        \/ caller' = caller
        \/ op = "get" /\ result' = "BAD_PROTOCOL" /\ caller' = Nobody

=============================================================================
