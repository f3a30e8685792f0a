----------------------------- MODULE StoragePath -----------------------------
(***************************************************************************)
(* The two readings of a storage root: that of the mount verifier           *)
(* (normalize in platform/storage_verify.c), whose result the applications  *)
(* hand to the layout (cn_storage_layout_init and build_path in             *)
(* storage/storage_layout.c).  One action per loop iteration.               *)
(***************************************************************************)
EXTENDS Integers, Sequences

CONSTANTS
    Chars,          \* of which "/" and "." mean something
    Capacity,       \* of a path buffer, with its terminator
    Suffix,         \* length of the longest suffix, "/state/progress"
    MaxText         \* bound of the model: the longest text given

CapacityAssumption ==
    {Capacity, Suffix, MaxText} \subseteq Nat \ {0} /\ {"/", "."} \subseteq Chars
    /\ Suffix + 2 < Capacity

VARIABLES
    input,          \* the configured root
    reader,         \* "verify" or "layout": who reads the root
    root,           \* what is being read
    pc,             \* "begin", "trim", "scan", "accepted", "refused"
    i, component,   \* of the scanning loop
    verdict         \* of each reader, with the path it accepts

vars == <<input, reader, root, pc, i, component, verdict>>

Texts == UNION {[1 .. n -> Chars] : n \in 0 .. MaxText}

Init ==
    /\ input \in Texts /\ reader = "verify" /\ root = input
    /\ pc = "begin" /\ i = 1 /\ component = 1
    /\ verdict = [r \in {"verify", "layout"} |-> <<"none">>]

-----------------------------------------------------------------------------
Refuse(why) ==
    /\ pc' = "refused" /\ verdict' = [verdict EXCEPT ![reader] = <<why>>]
    /\ UNCHANGED <<input, reader, root, i, component>>

(* The first character and the length. *)
Begin ==
    /\ pc = "begin"
    /\ IF reader = "layout" /\ Len(root) >= Capacity THEN Refuse("PATH_TOO_LONG")
       ELSE IF root = <<>> \/ root[1] # "/" THEN Refuse("INVALID")
       ELSE IF Len(root) >= Capacity THEN Refuse("PATH_TOO_LONG")
       ELSE pc' = "trim" /\ UNCHANGED <<input, reader, root, i, component, verdict>>

Trim ==
    /\ pc = "trim"
    /\ IF Len(root) > 1 /\ root[Len(root)] = "/"
       THEN /\ root' = SubSeq(root, 1, Len(root) - 1)
            /\ UNCHANGED <<input, reader, pc, i, component, verdict>>
       ELSE IF Len(root) <= 1 THEN Refuse("INVALID")
       ELSE /\ pc' = "scan" /\ i' = 2 /\ component' = 2
            /\ UNCHANGED <<input, reader, root, verdict>>

(* Mutant: only the layout knows dot components. *)
is_dot_component_layout_only(part) == reader = "layout" /\ part \in {<<".">>, <<".", ".">>}

is_dot_component(part) == part \in {<<".">>, <<".", ".">>}

TooLong == reader = "layout" /\ Len(root) > Capacity - 1 - Suffix

AtEnd == i = Len(root) + 1

(* validate_normalized_root and the loop of normalize. *)
Scan ==
    /\ pc = "scan"
    /\ LET part == SubSeq(root, component, i - 1)
       IN  IF AtEnd \/ root[i] = "/"
           THEN IF part = <<>> \/ is_dot_component(part) THEN Refuse("INVALID")
                ELSE IF ~AtEnd
                THEN /\ i' = i + 1 /\ component' = i + 1
                     /\ UNCHANGED <<input, reader, root, pc, verdict>>
                ELSE IF TooLong THEN Refuse("PATH_TOO_LONG")
                ELSE /\ pc' = "accepted"
                     /\ verdict' = [verdict EXCEPT ![reader] = <<"OK", root>>]
                     /\ UNCHANGED <<input, reader, root, i, component>>
           ELSE i' = i + 1 /\ UNCHANGED <<input, reader, root, pc, component, verdict>>

(* verified.root goes to cn_storage_layout_init; a diagnostic program gives  *)
(* the layout the root as it was typed.                                     *)
HandOver ==
    /\ reader = "verify" /\ pc \in {"accepted", "refused"}
    /\ reader' = "layout" /\ pc' = "begin"
    /\ root' \in (IF pc = "accepted" THEN {root, input} ELSE {input})
    /\ UNCHANGED <<input, i, component, verdict>>

Done == reader = "layout" /\ pc \in {"accepted", "refused"} /\ UNCHANGED vars

Next == Begin \/ Trim \/ Scan \/ HandOver \/ Done

Spec == Init /\ [][Next]_vars

-----------------------------------------------------------------------------
TypeOK ==
    /\ reader \in {"verify", "layout"}
    /\ pc \in {"begin", "trim", "scan", "accepted", "refused"}
    /\ i \in 1 .. MaxText + 1 /\ component \in 1 .. i
    /\ Len(root) <= Len(input)

(* What a path is: components, each after a slash, none of them a dot name.  *)
Parts(t) ==
    LET ends == {n \in 1 .. Len(t) : t[n] = "/"} \cup {Len(t) + 1}
        next(n) == CHOOSE e \in ends : e > n /\ \A d \in ends : d > n => e <= d
    IN  {SubSeq(t, n + 1, next(n) - 1) : n \in ends \ {Len(t) + 1}}

Normal(t) ==
    /\ Len(t) > 1 /\ t[1] = "/"
    /\ Parts(t) \cap {<<>>, <<".">>, <<".", ".">>} = {}

Slashes(t, n) == \A k \in n + 1 .. Len(t) : t[k] = "/"

(* A reader accepts what is a normal path but for slashes at its end, and    *)
(* answers with the path without them: nothing else, and nothing less.      *)
AcceptsNormalPaths ==
    pc \in {"accepted", "refused"} =>
        LET meant == {n \in 0 .. Len(input) :
                        Slashes(input, n) /\ Normal(SubSeq(input, 1, n))}
            limit == IF reader = "layout" THEN Capacity - 1 - Suffix ELSE Capacity - 1
        IN  IF pc = "accepted" THEN \E n \in meant : root = SubSeq(input, 1, n)
            ELSE meant = {} \/ Len(input) >= Capacity \/ \E n \in meant : n > limit

(* What the verifier accepts is what the layout works below: the same path   *)
(* or, for want of room for the suffixes, none.                             *)
ReadersAgree ==
    reader = "layout" /\ pc \in {"accepted", "refused"} /\ verdict["verify"][1] = "OK" =>
        verdict["layout"] \in {verdict["verify"], <<"PATH_TOO_LONG">>}

(* Every location below an accepted root fits a path buffer.                 *)
LocationsFit ==
    verdict["layout"][1] = "OK" => Len(verdict["layout"][2]) + Suffix + 1 <= Capacity

=============================================================================
