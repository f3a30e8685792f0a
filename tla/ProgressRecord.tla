---------------------------- MODULE ProgressRecord ----------------------------
(***************************************************************************)
(* The binary file that keeps the position in a book                         *)
(* (progress/progress_store.c): written by cn_progress_store_save, then      *)
(* perhaps damaged, cut off, extended, or written by another version, and    *)
(* read by cn_progress_store_load into the caller's record.                  *)
(*                                                                         *)
(* A file is a sequence of cells; an integer of the code takes one cell, and *)
(* so do the magic and the checksum: 12 bytes are MIN, 28 are HEADER + 1.     *)
(* What the location's bytes are is left to their validity: "/" is 1, a byte  *)
(* that begins no UTF-8 sequence BadByte (module Utf8 has the rules).         *)
(***************************************************************************)
EXTENDS Naturals, Sequences

CONSTANTS
    CELL,               \* the values of a cell are 0 .. CELL - 1, an odd number
    TOKEN, LOCATION,    \* longest token and longest location
    MaxProgress,        \* 10000 in the code
    MaxEdits            \* bound of the model

CellAssumption ==
    /\ {CELL, TOKEN, LOCATION, MaxProgress, MaxEdits} \subseteq Nat
    /\ CELL > 4 /\ CELL % 2 = 1 /\ MaxProgress < CELL - 1
    /\ TOKEN \in 2 .. CELL - 1 /\ LOCATION < CELL - 1

VARIABLES
    identity,   \* of the book that is opened
    saved,      \* what was saved last: [identity, location, progress]
    file, edits,
    record,     \* the caller's: [location, progress]
    result

vars == <<identity, saved, file, edits, record, result>>

Magic == 3
Version == 1
Unknown == CELL - 1         \* UINT32_MAX: a progress of -1
BadByte == 4
HEADER == 5                 \* magic, version, two lengths, progress
MIN == 2                    \* the bytes up to the version
NoRecord == [location |-> <<>>, progress |-> Unknown]

(* progress_crc32: like it, changed by any change of one cell.  *)
Crc(cells) ==
    LET upto[n \in 0 .. Len(cells)] ==
            IF n = 0 THEN 0 ELSE (upto[n - 1] * 2 + cells[n] + 1) % CELL
    IN  upto[Len(cells)]

ValidProgress(progress) == progress = Unknown \/ progress <= MaxProgress

(* The validity that save and load both ask of a location. *)
ValidLocation(text) ==
    /\ Len(text) \in 1 .. LOCATION /\ text[1] = 1
    /\ \A n \in DOMAIN text : text[n] \notin {0, BadByte}

Tokens == {<<1, 2>>, <<1, 3>>}      \* the tokens all have one length
Locations == UNION {[1 .. n -> {0, 1, 2, BadByte}] : n \in 0 .. LOCATION + 1}

(* cn_progress_store_save, up to the bytes it writes. *)
Serialize(r) ==
    LET body == <<Magic, Version, Len(r.identity), Len(r.location), r.progress>>
                \o r.identity \o r.location
    IN  Append(body, Crc(body))

Init ==
    /\ identity \in Tokens /\ edits = 0
    /\ saved = [identity |-> <<>>, location |-> <<>>, progress |-> Unknown] /\ file = <<>>
    /\ record = NoRecord /\ result = "none"

(* An invalid record is not saved. *)
Save ==
    /\ file = <<>>
    /\ \E token \in Tokens, location \in Locations, progress \in 0 .. CELL - 1 :
          /\ ValidLocation(location) /\ ValidProgress(progress)
          /\ saved' = [identity |-> token, location |-> location, progress |-> progress]
          /\ file' = Serialize(saved')
    /\ UNCHANGED <<identity, edits, record, result>>

-----------------------------------------------------------------------------
(* What happens to the file (external). *)
Edit(as) ==
    /\ file # <<>> /\ edits < MaxEdits /\ edits' = edits + 1 /\ file' = as
    /\ UNCHANGED <<identity, saved, record, result>>

CutOff == \E n \in 1 .. Len(file) - 1 : Edit(SubSeq(file, 1, n))
Extended == Edit(Append(file, 0))
Changed == \E n \in DOMAIN file, cell \in 0 .. CELL - 1 : Edit([file EXCEPT ![n] = cell])
OtherVersion ==
    \E n \in MIN .. Len(file) : Edit([SubSeq(file, 1, n) EXCEPT ![2] = Version + 1])

(* Written by a program with other limits, with a fitting checksum.          *)
Foreign ==
    \E location \in Locations, progress \in 0 .. CELL - 1 :
        Edit(Serialize([saved EXCEPT !.location = location, !.progress = progress]))

-----------------------------------------------------------------------------
(* Mutant: the checksum is asked before the version. *)
Judge_crc_first(cells) ==
    LET size == Len(cells)
    IN  IF size < HEADER + 1 THEN "CORRUPT"
        ELSE IF cells[1] # Magic \/ cells[size] # Crc(SubSeq(cells, 1, size - 1)) THEN "CORRUPT"
        ELSE IF cells[2] # Version THEN "UNSUPPORTED" ELSE "OK"

Sized(size, ids, locations) == size = HEADER + ids + locations + 1

(* What cn_progress_store_load says of a file: the version right after the   *)
(* magic, then the lengths, the size, the checksum, the identity, the values.*)
Judge(cells) ==
    LET size == Len(cells)
        ids == cells[3]     locations == cells[4]
        location == SubSeq(cells, HEADER + ids + 1, size - 1)
    IN  IF size < MIN \/ size > HEADER + TOKEN + 1 + LOCATION + 1 THEN "CORRUPT"
        ELSE IF cells[1] # Magic THEN "CORRUPT"
        ELSE IF cells[2] # Version THEN "UNSUPPORTED"
        ELSE IF /\ size >= HEADER + 1
                /\ ids \in 1 .. TOKEN /\ locations \in 1 .. LOCATION
                /\ Sized(size, ids, locations)
                /\ cells[size] = Crc(SubSeq(cells, 1, size - 1))
                /\ SubSeq(cells, HEADER + 1, HEADER + ids) = identity
                /\ ValidProgress(cells[5]) /\ ValidLocation(location)
             THEN "OK" ELSE "CORRUPT"

(* The record of a file that is judged OK. *)
Loaded(cells) ==
    [location |-> SubSeq(cells, HEADER + cells[3] + 1, Len(cells) - 1), progress |-> cells[5]]

(* The record is replaced only when the file is judged OK; memory may be     *)
(* short at either allocation.                                              *)
Load ==
    /\ file # <<>> /\ UNCHANGED <<identity, saved, file, edits>>
    /\ \/ result' = "NO_MEMORY" /\ UNCHANGED record
       \/ /\ result' = Judge(file)
          /\ record' = IF result' = "OK" THEN Loaded(file) ELSE record

Next == Save \/ CutOff \/ Extended \/ Changed \/ OtherVersion \/ Foreign \/ Load

Spec == Init /\ [][Next]_vars

-----------------------------------------------------------------------------
(* A file as it was saved is loaded as it was saved when the book is the      *)
(* same, an unknown progress included, and is refused for another book.      *)
SavedIsLoaded ==
    file # <<>> /\ file = Serialize(saved) =>
        IF identity # saved.identity THEN Judge(file) = "CORRUPT"
        ELSE /\ Judge(file) = "OK"
             /\ Loaded(file) = [location |-> saved.location, progress |-> saved.progress]

(* A record that load gives out is one that save would have written: the     *)
(* reader is not sent to a place that could not be saved again.              *)
OkCanBeSaved ==
    result' = "OK" /\ record' # record =>
        /\ ValidLocation(record'.location) /\ ValidProgress(record'.progress)
        /\ file = Serialize([identity |-> identity, location |-> record'.location,
                             progress |-> record'.progress])

(* The first of two files is the second one, cut off. *)
Begins(start, cells) ==
    Len(start) < Len(cells) /\ start = SubSeq(cells, 1, Len(start))

(* One damaged cell, a lost end, or something after the end: the file is not *)
(* taken for a record.                                                      *)
DamageIsSeen ==
    LET whole == Serialize(saved)
        damaged ==
            \/ Begins(file, whole) \/ Begins(whole, file)
            \/ /\ Len(file) = Len(whole)
               /\ \E n \in DOMAIN file : file[n] # whole[n] /\ [file EXCEPT ![n] = whole[n]] = whole
    IN  file # <<>> /\ damaged => Judge(file) # "OK"

(* A file of another version is told from a damaged one, however the rest of *)
(* it looks: the next program may have longer records and another checksum.  *)
OtherVersionIsSaid ==
    Len(file) \in MIN .. HEADER + TOKEN + 1 + LOCATION + 1
    /\ file[1] = Magic /\ file[2] # Version => Judge(file) = "UNSUPPORTED"

(* A load that fails leaves the caller the record it had. *)
FailureKeepsRecord == result' # "OK" => record' = record

=============================================================================
