------------------------------ MODULE TextRecord ------------------------------
(***************************************************************************)
(* The two text files: settings.conf (settings_store.c) and the credentials*)
(* (credential_store.c).  A file is written by serialize from a valid      *)
(* record; afterwards it may be damaged, cut off, edited by hand, or       *)
(* written by another version of the program; then it is parsed.           *)
(*                                                                         *)
(* A line is a key and a value; a value is what it says and its length.    *)
(* The checksum of a crc32 line is the lines that it was computed over.    *)
(***************************************************************************)
EXTENDS Naturals, Sequences

CONSTANTS
    Stores,     \* "settings", "credentials"
    MaxEdits    \* changes to a file

StoresAssumption ==
    Stores \subseteq {"settings", "credentials"} /\ MaxEdits \in Nat

VARIABLES
    store,
    saved,      \* the record that was saved
    file,
    edits,
    written     \* the files that a checksum was computed for
vars == <<store, saved, file, edits, written>>

(* The keys, in their order. *)
Schema(s) ==
    IF s = "settings"
    THEN <<"crossnook-settings", "kosync.enabled", "kosync.base_url",
           "kosync.device_name", "crc32">>
    ELSE <<"crossnook-credentials", "username", "userkey", "crc32">>

V(says, n) == [says |-> says, n |-> n]
One == V("one", 1)

Text(n) == {V("good", n), V("control", n), V("nul", n)}

(* The values that a line may be given. *)
ValuesOf(key) ==
    CASE key = "crossnook-settings" -> {One, V("two", 1), V("padded", 2), V("letter", 1)}
      [] key = "crossnook-credentials" -> {One, V("two", 1), V("padded", 2), V("letter", 1)}
      [] key = "kosync.enabled" -> {V("true", 4), V("false", 5), V("TRUE", 4)}
      [] key = "kosync.base_url" -> {V("good", 0), V("good", 1297)} \cup Text(1296)
      [] key = "crc32" -> {V("hex", 8), V("upper", 8), V("hex", 7)}
      [] OTHER -> {V("good", 0), V("good", 256)} \cup Text(255)

Limit(key) ==
    CASE key = "kosync.base_url" -> 1296
      [] OTHER -> 255

(* cn_settings_validate and valid_text, of one field. *)
Valid(key, v) == v.says = "good" /\ v.n \in 1 .. Limit(key)

(* All but the last: what the checksum is computed over. *)
Body(lines) == SubSeq(lines, 1, Len(lines) - 1)

Fields(s) == Tail(Body(Schema(s)))

(* A record has a value for each field. *)
ValidRecord(s, r) ==
    IF s = "settings"
    THEN /\ r[1] \in {V("true", 4), V("false", 5)}
         /\ \/ Valid("kosync.base_url", r[2])
            \/ r[1].says = "false" /\ r[2] = V("good", 0)
         /\ Valid("kosync.device_name", r[3])
    ELSE Valid("username", r[1]) /\ Valid("userkey", r[2])

Records(s) ==
    {r \in [DOMAIN Fields(s) -> UNION {ValuesOf(Fields(s)[i]) : i \in DOMAIN Fields(s)}] :
        ValidRecord(s, r)}

-----------------------------------------------------------------------------
(* A line with its checksum, when it has one; a file, and whether its last  *)
(* line is ended by a newline.                                              *)
Said(lines) == [i \in DOMAIN lines |-> <<lines[i].key, lines[i].value>>]

Line(key, value) == [key |-> key, value |-> value, over |-> << >>]

Crc(lines) == [key |-> "crc32", value |-> V("hex", 8), over |-> Said(lines)]

serialize(s, r) ==
    LET lines == <<Line(Schema(s)[1], One)>>
                 \o [i \in DOMAIN r |-> Line(Fields(s)[i], r[i])]
    IN [lines |-> Append(lines, Crc(lines)), ended |-> TRUE]

(* What serialize writes: key, "=", value and newline for every line. *)
KeyLength(key) ==
    CASE key = "crossnook-settings" -> 18
      [] key = "crossnook-credentials" -> 21
      [] key = "kosync.enabled" -> 14
      [] key = "kosync.base_url" -> 15
      [] key = "kosync.device_name" -> 18
      [] key = "username" -> 8
      [] key = "userkey" -> 7
      [] key = "crc32" -> 5

Bytes(f) ==
    LET size(line) == KeyLength(line.key) + line.value.n + 2
        upto[i \in 0 .. Len(f.lines)] ==
            IF i = 0 THEN 0 ELSE upto[i - 1] + size(f.lines[i])
    IN upto[Len(f.lines)]

FILE_MAX(s) == IF s = "settings" THEN 2048 ELSE 1024

-----------------------------------------------------------------------------
(* parse_settings and parse. *)

HasNul(f) == \E i \in DOMAIN f.lines : f.lines[i].value.says = "nul"

(* As many lines as the schema has, the last one ended. *)
Whole(s, f) == Len(f.lines) = Len(Schema(s)) /\ f.ended

FirstLine(f) == Len(f.lines) > 1 \/ (Len(f.lines) = 1 /\ f.ended)

(* The header line: "one", "other" or "none". *)
Version(s, f) ==
    LET line == f.lines[1]
    IN IF line.key # Schema(s)[1] \/ line.value.says \in {"letter", "padded"}
       THEN "none"
       ELSE IF line.value = One THEN "one" ELSE "other"

FieldsFit(s, f) == \A i \in DOMAIN Schema(s) : f.lines[i].key = Schema(s)[i]

RecordOf(s, f) == [i \in DOMAIN Fields(s) |-> f.lines[i + 1].value]

(* Mutant: the checksum is only looked at. *)
SumFits_format_only(s, f) == f.lines[Len(Schema(s))].value = V("hex", 8)

SumFits(s, f) ==
    LET line == f.lines[Len(Schema(s))]
    IN /\ line.value = V("hex", 8)
       /\ line.over = Said(SubSeq(f.lines, 1, Len(Schema(s)) - 1))

(* The settings judge the version by the first line; the credentials want   *)
(* the whole file first.                                                    *)
parse(s, f) ==
    IF HasNul(f) \/ f.lines = << >> THEN "CORRUPT"
    ELSE IF IF s = "settings" THEN ~ FirstLine(f) ELSE ~ Whole(s, f) THEN "CORRUPT"
    ELSE IF Version(s, f) = "none" THEN "CORRUPT"
    ELSE IF Version(s, f) = "other" THEN "UNSUPPORTED_VERSION"
    ELSE IF /\ Whole(s, f)
            /\ FieldsFit(s, f)
            /\ ValidRecord(s, RecordOf(s, f))
            /\ SumFits(s, f)
         THEN "OK" ELSE "CORRUPT"

-----------------------------------------------------------------------------
Init ==
    /\ store \in Stores
    /\ saved \in Records(store)
    /\ file = serialize(store, saved)
    /\ edits = 0
    /\ written = {file}

Edit(lines, ended) ==
    /\ edits < MaxEdits
    /\ file' = [lines |-> lines, ended |-> ended]
    /\ edits' = edits + 1
    /\ UNCHANGED <<store, saved, written>>

Places == DOMAIN file.lines

ChangeValue ==
    \E i \in Places : \E v \in ValuesOf(file.lines[i].key) :
        Edit([file.lines EXCEPT ![i].value = v], file.ended)

ChangeKey ==
    \E i \in Places : \E key \in {Schema(store)[n] : n \in DOMAIN Schema(store)} :
        Edit([file.lines EXCEPT ![i] = IF key = @.key THEN @ ELSE Line(key, @.value)],
             file.ended)

RemoveLine ==
    \E i \in Places :
        Edit(SubSeq(file.lines, 1, i - 1) \o SubSeq(file.lines, i + 1, Len(file.lines)),
             file.ended)

RepeatLine ==
    \E i \in Places :
        Edit(SubSeq(file.lines, 1, i) \o SubSeq(file.lines, i, Len(file.lines)), file.ended)

(* Cut off: whole lines, or within a line, which is then not ended. *)
CutOff ==
    \E i \in Places, ended \in BOOLEAN :
        /\ ended => file.ended \/ i < Len(file.lines)
        /\ Edit(SubSeq(file.lines, 1, i), ended)

(* Another program, or another version of this one, computes the checksum. *)
Reseal ==
    /\ edits < MaxEdits
    /\ file.lines # << >>
    /\ file.lines[Len(file.lines)].key = "crc32"
    /\ file' = [lines |-> Append(Body(file.lines), Crc(Body(file.lines))), ended |-> TRUE]
    /\ edits' = edits + 1
    /\ written' = written \cup {file'}
    /\ UNCHANGED <<store, saved>>

Next == ChangeValue \/ ChangeKey \/ RemoveLine \/ RepeatLine \/ CutOff \/ Reseal

Spec == Init /\ [][Next]_vars
-----------------------------------------------------------------------------
(* What save writes, load reads: every valid record, the longest included,  *)
(* fits the buffer it is built in (serialize of credential_store.c appends  *)
(* without looking) and is read back as it was.                             *)
SavedIsLoaded ==
    edits = 0 =>
        /\ Bytes(file) <= FILE_MAX(store)
        /\ parse(store, file) = "OK"
        /\ RecordOf(store, file) = saved

(* A file that loads is byte for byte what serialize writes of the record   *)
(* that was loaded: there is no second spelling of a record.                *)
OkIsCanonical ==
    parse(store, file) = "OK" =>
        file = serialize(store, RecordOf(store, file))

(* A file that was damaged, or edited by hand, after its checksum was       *)
(* computed is not loaded: neither a changed value, nor a line that is      *)
(* missing, repeated or renamed, nor a cut.                                 *)
DamageIsSeen == parse(store, file) = "OK" => file \in written

FutureVersion(s) ==
    /\ ~ HasNul(file)
    /\ file.lines # << >>
    /\ FirstLine(file)
    /\ file.lines[1].key = Schema(s)[1]
    /\ file.lines[1].value = V("two", 1)

(* The settings of another version are recognised as such, whatever lines   *)
(* that version has ("A syntactically valid version other than 1 returns    *)
(* UNSUPPORTED_VERSION").                                                   *)
SettingsOfFutureVersion ==
    store = "settings" /\ FutureVersion("settings") =>
        parse(store, file) = "UNSUPPORTED_VERSION"

=============================================================================
