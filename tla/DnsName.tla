------------------------------- MODULE DnsName -------------------------------
(***************************************************************************)
(* decode_name of net/dnssimple.c: a name in a DNS packet is a walk over    *)
(* labels and compression pointers.  A state is one turn of its loop; the   *)
(* packet is any sequence of the bytes of Bytes, as a server may send it,   *)
(* and what the buffer holds behind it is arbitrary too.                    *)
(***************************************************************************)
EXTENDS Integers

CONSTANTS
    PacketLen,      \* bytes of the packet (code: up to 512)
    Bytes,          \* values a byte takes
    HopsMax,        \* CN_DNS_POINTER_HOPS_MAX
    WireMax,        \* longest expanded name (code: 255)
    HostMax         \* longest host name (code: 253)

PacketAssumption == PacketLen \in Nat \ {0} /\ Bytes \subseteq 0 .. 255
LimitsAssumption ==
    /\ HopsMax \in Nat /\ HostMax \in Nat \ {0}
    /\ WireMax \in Nat \ {0}

VARIABLES
    packet, offset,
    position, expanded, hops, seen, jumped, next, syntax, output,
    result,         \* "walking", then "name" or "bad"
    trail           \* history: the positions that were read

vars == <<packet, offset, position, expanded, hops, seen, jumped, next, syntax,
          output, result, trail>>

Positions == 0 .. PacketLen - 1
Buffer == 0 .. PacketLen
Hyphen == 45
Alnum == (48 .. 57) \cup (65 .. 90) \cup (97 .. 122)

(* label_ok *)
label_ok(p, n) ==
    /\ p[position + 1] # Hyphen /\ p[position + n] # Hyphen
    /\ \A i \in position + 1 .. position + n : p[i] \in Alnum \cup {Hyphen}

Init ==
    /\ packet \in [Buffer -> Bytes] /\ offset \in 0 .. PacketLen
    /\ position = offset /\ expanded = 1 /\ hops = 0 /\ seen = {} /\ jumped = FALSE
    /\ next = offset /\ syntax = TRUE /\ output = 0 /\ trail = {}
    /\ result = IF offset >= PacketLen THEN "bad" ELSE "walking"

Walking == result = "walking" /\ UNCHANGED <<packet, offset>>
Byte == packet[position]
Inside == position < PacketLen
IsPointer == Byte >= 192
IsLabel == Byte \in 1 .. 63
Reads(places) == trail' = trail \cup places
ReadsByte == Reads({position})
Keep == UNCHANGED <<position, expanded, hops, seen, jumped, next, syntax, output>>

Refuse == result' = "bad" /\ Keep

RunOff == Walking /\ ~Inside /\ Refuse /\ UNCHANGED trail

(* 64 .. 191: no kind of label. *)
Reserved == Walking /\ Inside /\ Byte \in 64 .. 191 /\ ReadsByte /\ Refuse

Target == (Byte % 64) * 256 + packet[position + 1]

(* The second byte is read only when it is there and may count. *)
HasTarget == position + 1 < PacketLen /\ hops < HopsMax

MayJump ==
    /\ HasTarget
    /\ Target < PacketLen /\ Target \notin seen

Pointer ==
    /\ Walking /\ Inside /\ IsPointer
    /\ Reads({position} \cup IF HasTarget THEN {position + 1} ELSE {})
    /\ IF MayJump
       THEN /\ position' = Target /\ seen' = seen \cup {Target} /\ hops' = hops + 1
            /\ jumped' = TRUE
            /\ next' = IF jumped THEN next ELSE position + 2
            /\ UNCHANGED <<expanded, syntax, output, result>>
       ELSE Refuse

End ==
    /\ Walking /\ Inside /\ Byte = 0 /\ ReadsByte
    /\ result' = "name"
    /\ next' = IF jumped THEN next ELSE position + 1
    /\ UNCHANGED <<position, expanded, hops, seen, jumped, syntax, output>>

(* Mutant: the label may end one byte behind the packet. *)
LabelFits_one_more == position + Byte <= PacketLen /\ expanded + Byte + 1 <= WireMax

LabelFits == position + 1 + Byte <= PacketLen /\ expanded + Byte + 1 <= WireMax

(* A label that is no host name syntax ends the collecting of the text. *)
Label ==
    /\ Walking /\ Inside /\ IsLabel
    /\ Reads(position .. position + IF LabelFits /\ syntax THEN Byte ELSE 0)
    /\ LET n == Byte
           good == syntax /\ label_ok(packet, n)
           dot == IF output = 0 THEN 0 ELSE 1
       IN  IF ~LabelFits \/ (good /\ output + dot + n > HostMax)
           THEN Refuse
           ELSE /\ position' = position + 1 + n /\ expanded' = expanded + n + 1
                /\ syntax' = good
                /\ output' = IF good THEN output + dot + n ELSE 0
                /\ UNCHANGED <<hops, seen, jumped, next, result>>

Next == RunOff \/ Reserved \/ Pointer \/ End \/ Label

Spec == Init /\ [][Next]_vars

-----------------------------------------------------------------------------
TypeOK ==
    /\ position \in Nat /\ expanded \in 1 .. WireMax /\ hops \in 0 .. HopsMax
    /\ seen \subseteq Positions /\ next \in Nat /\ output \in 0 .. HostMax
    /\ {jumped, syntax} \subseteq BOOLEAN /\ result \in {"walking", "name", "bad"}

(* Every byte that is read, those of a label included, is in the packet.     *)
ReadsInside ==
    /\ trail \subseteq Positions
    /\ result = "walking" => position \in Positions \cup {PacketLen}

(* The caller goes on behind the name as it is stored in front of it: its    *)
(* labels up to the zero, or up to the first pointer.                       *)
StoredEnd[p \in 0 .. PacketLen + 255] ==
    IF p >= PacketLen THEN 0
    ELSE CASE packet[p] = 0 -> p + 1
           [] packet[p] >= 192 -> p + 2
           [] OTHER -> StoredEnd[p + 1 + packet[p]]

NextFollowsName == result = "name" => next = StoredEnd[offset]

=============================================================================
