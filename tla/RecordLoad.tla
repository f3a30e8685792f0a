------------------------------ MODULE RecordLoad ------------------------------
(***************************************************************************)
(* How the three stores read their file: cn_settings_load,                 *)
(* cn_credential_store_load and cn_progress_store_load, one system call at *)
(* a time, while another process replaces the file by rename, removes it,  *)
(* or rewrites it in place.                                                *)
(*                                                                         *)
(* A content is a sequence of pieces, each of one version of the record;   *)
(* only a content all of one version, of its full length, passes the       *)
(* checksum.                                                               *)
(***************************************************************************)
EXTENDS Naturals, Sequences

CONSTANTS
    Versions,   \* records that a save may write; number v has v pieces
    MaxSize,    \* pieces of the largest file that a load accepts
    Inodes,     \* file numbers; one is used again when its file is gone
    MaxEdits    \* changes of the file during a behaviour

SizeAssumption == MaxSize \in Nat /\ Versions \subseteq 1 .. MaxSize
EditsAssumption == MaxEdits \in Nat

NoInode == 0
InodesAssumption == NoInode \notin Inodes

(* What differs between the three: a look at the path before the open, and  *)
(* whether the opened size is checked before the file number is compared; a *)
(* read past the end; how a failed read is classified; what the caller's    *)
(* record holds after a failure.                                            *)
cn_settings_load ==
    [lstats |-> TRUE, size_first |-> TRUE, reads_extra |-> TRUE,
     read_error |-> "IO_ERROR", on_failure |-> "empty"]

cn_credential_store_load ==
    [lstats |-> TRUE, size_first |-> FALSE, reads_extra |-> TRUE,
     read_error |-> "IO_ERROR", on_failure |-> "empty"]

cn_progress_store_load ==
    [lstats |-> FALSE, size_first |-> TRUE, reads_extra |-> FALSE,
     read_error |-> "CORRUPT", on_failure |-> "kept"]

Loads == {cn_settings_load, cn_credential_store_load, cn_progress_store_load}

VARIABLES
    path,       \* the file number that the final name leads to
    content,    \* content[i]: the pieces in file number i
    edits,      \* how often the file was changed
    load,       \* which of the three loads this is
    pc,         \* where the load is
    before,     \* the file number and the size that lstat saw
    fd,         \* the file number of the open descriptor
    opened,     \* the size that fstat saw
    data,       \* the pieces read
    output,     \* the caller's record
    result,
    seen,       \* history: versions the final name led to during this load
    absent,     \* history: the final name led nowhere during this load
    disturbed   \* history: an in-place change or a read error met this load

files == <<path, content, edits>>
history == <<seen, absent, disturbed>>
vars == <<files, load, pc, before, fd, opened, data, output, result, history>>

Whole(v) == [k \in 1 .. v |-> v]

(* parse: the version in a content, if the checksum holds. *)
Parses(c) == \E v \in Versions : c = Whole(v)
Parsed(c) == CHOOSE v \in Versions : c = Whole(v)

SizeFits(n) == n > 0 /\ n <= MaxSize

(* What the caller holds when it is no version: the cleared record, and     *)
(* whatever it passed in.                                                   *)
Empty == 0
Earlier == MaxSize + 1

Init ==
    /\ \/ path = NoInode
       \/ path \in Inodes
    /\ \E v \in Versions :
          content = [i \in Inodes |-> IF i = path THEN Whole(v) ELSE << >>]
    /\ edits = 0
    /\ load \in Loads
    /\ pc = "idle"
    /\ before = [ino |-> NoInode, size |-> 0]
    /\ fd = NoInode
    /\ opened = 0
    /\ data = << >>
    /\ output = Earlier
    /\ result = "none"
    /\ seen = {}
    /\ absent = FALSE
    /\ disturbed = FALSE

-----------------------------------------------------------------------------
(* Other processes. *)

Look ==
    /\ seen' = seen \cup (IF path' # NoInode /\ Parses(content'[path'])
                          THEN {Parsed(content'[path'])} ELSE {})
    /\ absent' = (absent \/ path' = NoInode)

MayEdit == edits < MaxEdits /\ edits' = edits + 1

Quiet == UNCHANGED <<load, pc, before, fd, opened, data, output, result>>

(* A save renames a whole file over the name; it has a number that neither  *)
(* the name nor the descriptor holds.                                       *)
Replace ==
    /\ MayEdit
    /\ \E i \in Inodes \ {path, fd}, v \in Versions :
          /\ path' = i
          /\ content' = [content EXCEPT ![i] = Whole(v)]
    /\ Look
    /\ Quiet
    /\ UNCHANGED disturbed

Remove ==
    /\ MayEdit
    /\ path # NoInode
    /\ path' = NoInode
    /\ Look
    /\ Quiet
    /\ UNCHANGED <<content, disturbed>>

(* Something outside the program cuts, extends or overwrites the file. *)
Rewrite ==
    /\ MayEdit
    /\ path # NoInode
    /\ LET old == content[path]
           cut == SubSeq(old, 1, Len(old) - 1)
       IN /\ old # << >>
          /\ \E c \in {cut} \cup {Append(old, v) : v \in Versions}
                          \cup {Append(cut, v) : v \in Versions} :
                content' = [content EXCEPT ![path] = c]
    /\ path' = path
    /\ Look
    /\ Quiet
    /\ disturbed' = TRUE

-----------------------------------------------------------------------------
(* The load. *)

Own == UNCHANGED files

Return(r, out) ==
    /\ pc' = "idle"
    /\ result' = r
    /\ output' = out
    /\ fd' = NoInode

(* Mutant: the descriptor stays open. *)
Fail_open(r) ==
    /\ pc' = "idle"
    /\ result' = r
    /\ output' = IF load.on_failure = "empty" THEN Empty ELSE output
    /\ fd' = fd

(* goto done, and every other failure: the descriptor is closed.  IO_ERROR  *)
(* stands for what tells nothing of the record: no permission, no memory, a *)
(* link or a directory under the name, a file that is not the one lstat saw.*)
Fail(r) ==
    Return(r, IF load.on_failure = "empty" THEN Empty ELSE output)

Begin ==
    /\ pc = "idle"
    /\ pc' = IF load.lstats THEN "lstat" ELSE "open"
    /\ output' = Earlier
    /\ result' = "none"
    /\ data' = << >>
    /\ seen' = IF path # NoInode /\ Parses(content[path])
               THEN {Parsed(content[path])} ELSE {}
    /\ absent' = (path = NoInode)
    /\ disturbed' = (path # NoInode /\ ~ Parses(content[path]))
    /\ Own
    /\ UNCHANGED <<load, before, fd, opened>>

Lstat ==
    /\ pc = "lstat"
    /\ \/ /\ path = NoInode
          /\ Fail("MISSING")
          /\ UNCHANGED before
       \/ /\ path # NoInode
          /\ before' = [ino |-> path, size |-> Len(content[path])]
          /\ IF SizeFits(before'.size)
             THEN pc' = "open" /\ UNCHANGED <<fd, output, result>>
             ELSE Fail("CORRUPT")
    /\ Own
    /\ UNCHANGED <<load, opened, data, history>>

Open ==
    /\ pc = "open"
    /\ \/ /\ path = NoInode
          /\ Fail(IF load.lstats THEN "NOT_FOUND" ELSE "MISSING")
       \/ /\ path # NoInode
          /\ fd' = path
          /\ pc' = "fstat"
          /\ UNCHANGED <<output, result>>
       \/ Fail("IO_ERROR")
    /\ Own
    /\ UNCHANGED <<load, before, opened, data, history>>

(* The checks on what is now open; which of two failures is reported does   *)
(* depend on their order.                                                   *)
Fstat ==
    /\ pc = "fstat"
    /\ opened' = Len(content[fd])
    /\ LET size_bad == ~ SizeFits(opened')
           other == load.lstats /\ fd # before.ino
       IN \/ Fail("IO_ERROR")
          \/ /\ size_bad
             /\ load.size_first \/ ~ other
             /\ Fail("CORRUPT")
          \/ /\ other
             /\ load.size_first => ~ size_bad
             /\ Fail("IO_ERROR")
          \/ /\ ~ size_bad
             /\ ~ other
             /\ pc' = "read"
             /\ UNCHANGED <<fd, output, result>>
    /\ Own
    /\ UNCHANGED <<load, before, data, history>>

(* One read: any number of the pieces that are there.  An interrupted one   *)
(* is repeated and changes nothing.                                         *)
Read ==
    /\ pc = "read"
    /\ Len(data) < opened
    /\ \/ \E n \in 1 .. (opened - Len(data)) :
             /\ Len(data) + n <= Len(content[fd])
             /\ data' = data \o SubSeq(content[fd], Len(data) + 1, Len(data) + n)
             /\ UNCHANGED <<pc, fd, output, result, disturbed>>
       \/ /\ Len(data) >= Len(content[fd])
          /\ Fail("CORRUPT")
          /\ UNCHANGED <<data, disturbed>>
       \/ /\ Fail(load.read_error)
          /\ disturbed' = TRUE
          /\ UNCHANGED data
    /\ Own
    /\ UNCHANGED <<load, before, opened, seen, absent>>

ReadExtra ==
    /\ pc = "read"
    /\ Len(data) = opened
    /\ \/ /\ load.reads_extra => Len(content[fd]) <= opened
          /\ pc' = "close"
          /\ UNCHANGED <<fd, output, result>>
       \/ /\ load.reads_extra
          /\ Len(content[fd]) > opened
          /\ Fail("CORRUPT")
       \/ /\ load.reads_extra
          /\ Fail("IO_ERROR")
    /\ Own
    /\ UNCHANGED <<load, before, opened, data, history>>

(* Mutant: the checksum is not looked at. *)
Close_unchecked ==
    /\ pc = "close"
    /\ Return("OK", data[1])
    /\ Own
    /\ UNCHANGED <<load, before, opened, data, history>>

(* close, parse, and the copy to the caller. *)
Close ==
    /\ pc = "close"
    /\ \/ IF Parses(data) THEN Return("OK", Parsed(data)) ELSE Fail("CORRUPT")
       \/ Fail("IO_ERROR")
    /\ Own
    /\ UNCHANGED <<load, before, opened, data, history>>

Next ==
    \/ Replace \/ Remove \/ Rewrite
    \/ Begin \/ Lstat \/ Open \/ Fstat \/ Read \/ ReadExtra \/ Close

Spec == Init /\ [][Next]_vars

Progress == Lstat \/ Open \/ Fstat \/ Read \/ ReadExtra \/ Close

-----------------------------------------------------------------------------
(* Every variable has its type, and at most what was asked for is read: the *)
(* buffer of MaxSize pieces is never overrun.                               *)
TypeOK ==
    /\ path \in Inodes \cup {NoInode}
    /\ content \in [Inodes -> Seq(Versions)]
    /\ edits \in 0 .. MaxEdits
    /\ load \in Loads
    /\ pc \in {"idle", "lstat", "open", "fstat", "read", "close"}
    /\ before.ino \in Inodes \cup {NoInode}
    /\ fd \in Inodes \cup {NoInode}
    /\ Len(data) <= MaxSize
    /\ output \in Versions \cup {Empty, Earlier}
    /\ seen \subseteq Versions
    /\ absent \in BOOLEAN
    /\ disturbed \in BOOLEAN

(* A load that succeeds read a whole record, not a mixture of two, and, if   *)
(* nobody changed the file in place meanwhile, one that was stored under the *)
(* name while the load ran: not one that was replaced before it began.       *)
OkIsAVersion ==
    result = "OK" => data = Whole(output) /\ (disturbed \/ output \in seen)

(* A save that replaces the file under a load in progress does not make the *)
(* load report the record as damaged: only an in-place change or a failed   *)
(* read does.  The user would otherwise be told to set the account up again.*)
RaceIsNoDamage == result = "CORRUPT" => disturbed

(* MISSING is said only when there was a moment without a file: a rename    *)
(* leaves none.                                                             *)
MissingIsTrue == result \in {"MISSING", "NOT_FOUND"} => absent

(* After a failure the caller does not hold a part of a record: settings    *)
(* and credentials are cleared, a progress record is what it was.  No       *)
(* descriptor is left open on any path.                                     *)
FailureLeavesNothing ==
    pc = "idle" =>
        /\ fd = NoInode
        /\ result \notin {"OK", "none"} =>
              output = IF load.on_failure = "empty" THEN Empty ELSE Earlier
=============================================================================
