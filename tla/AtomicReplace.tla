---------------------------- MODULE AtomicReplace ----------------------------
(***************************************************************************)
(* How the progress, settings and credential stores replace their file:    *)
(* write a temporary file, fsync it, rename it over the final name, fsync  *)
(* the directory.  Every system call is a step that can fail, the power    *)
(* can fail between any two of them, and the operating system writes       *)
(* directory entries back whenever it likes.                               *)
(*                                                                         *)
(* Store selects the differences between the three implementations.        *)
(***************************************************************************)
EXTENDS Naturals, TLC

CONSTANTS
    Writers,    \* processes that save; each has temporary names of its own
    Values,     \* whole file contents
    Nothing,    \* no file
    Torn,       \* a content that no load accepts
    MaxSeq,     \* temporary names of a process (the code's counter is 32 bits)
    Tries,      \* attempts to create one (32 in the code)
    Store       \* which store: one of the three records below

(* unlink_first: remove a left-over temporary file, then create it; else    *)
(*   take the next name while the file exists.                              *)
(* strict: a directory that may not have reached the disk is reported.      *)
(* always_cleans: the error exit unlinks although nothing was created.      *)
cn_progress_store_save ==
    [unlink_first |-> TRUE, strict |-> FALSE, always_cleans |-> TRUE]

cn_settings_save ==
    [unlink_first |-> TRUE, strict |-> TRUE, always_cleans |-> FALSE]

cn_credential_store_save ==
    [unlink_first |-> FALSE, strict |-> TRUE, always_cleans |-> FALSE]

Stores == {cn_progress_store_save, cn_settings_save, cn_credential_store_save}

ASSUME StoreAssumption == Store \in Stores
ASSUME ValuesAssumption == Nothing \notin Values
ASSUME NamesAssumption == MaxSeq \in Nat \ {0} /\ Tries \in Nat \ {0}

VARIABLES
    cache,      \* directory entries and files as the processes see them
    disk,       \* the entries that survive a power loss
    pc, new,    \* each writer's save: where it is, what it saves,
    seq, tries, \* the number in its temporary name, the names it has tried,
    result      \* and what its last save returned

wVars == <<pc, new, seq, tries, result>>
vars == <<cache, disk, wVars>>

Final == <<"final", 0>>
TempOf(w, n) == <<w, n>>
Temp(w) == TempOf(w, seq[w])
Names == {Final} \cup (Writers \X (1 .. MaxSeq))

PCs == {"idle", "inspect", "unlink", "create", "write", "fsync", "close",
        "rename", "syncdir", "closedir", "cleanup"}

(* full: all bytes are written; synced: they have reached the disk. *)
File == [val : Values, full : BOOLEAN, synced : BOOLEAN]
NoFile == [val |-> Nothing, full |-> TRUE, synced |-> TRUE]
Entry == File \cup {NoFile}

Empty(v) == [val |-> v, full |-> FALSE, synced |-> FALSE]
Written(v) == [val |-> v, full |-> TRUE, synced |-> FALSE]
Whole(v) == [val |-> v, full |-> TRUE, synced |-> TRUE]
Synced(e) == [val |-> e.val, full |-> e.full, synced |-> TRUE]

Init ==
    /\ \E v \in Values \cup {Nothing} :
          cache = [n \in Names |-> IF n = Final THEN Whole(v) ELSE NoFile]
    /\ disk = cache
    /\ pc = [w \in Writers |-> "idle"]
    /\ new = [w \in Writers |-> Nothing]
    /\ seq = [w \in Writers |-> 1]
    /\ tries = [w \in Writers |-> 0]
    /\ result = [w \in Writers |-> "none"]

-----------------------------------------------------------------------------
Goto(w, p) == pc' = [pc EXCEPT ![w] = p]

Step(w, p) == Goto(w, p) /\ UNCHANGED <<new, tries, result>>

Return(w, r) ==
    /\ Goto(w, "idle")
    /\ result' = [result EXCEPT ![w] = r]
    /\ new' = [new EXCEPT ![w] = Nothing]
    /\ tries' = [tries EXCEPT ![w] = 0]

(* goto done with the temporary file created, and before that. *)
Fail(w) == Step(w, "cleanup")
Abort(w) == IF Store.always_cleans THEN Fail(w) ELSE Return(w, "FAILED")

(* The arguments are valid and serialized. *)
Save(w, v) ==
    /\ pc[w] = "idle"
    /\ Goto(w, "inspect")
    /\ new' = [new EXCEPT ![w] = v]
    /\ UNCHANGED <<cache, disk, seq, tries, result>>

(* The directory and the final entry are looked at (settings, credentials), *)
(* memory is allocated (progress).                                          *)
Inspect(w) ==
    /\ pc[w] = "inspect"
    /\ \/ Step(w, IF Store.unlink_first THEN "unlink" ELSE "create")
       \/ Return(w, "FAILED")
    /\ UNCHANGED <<cache, disk, seq>>

(* Mutants: remove the old file first; forget about a left-over file. *)
UnlinkTemporary_unlinks_final(w) ==
    /\ pc[w] = "unlink"
    /\ cache' = [cache EXCEPT ![Final] = NoFile] /\ Step(w, "create")
    /\ UNCHANGED <<disk, seq>>

UnlinkTemporary_skipped(w) ==
    /\ pc[w] = "unlink"
    /\ Step(w, "create")
    /\ UNCHANGED <<cache, disk, seq>>

UnlinkTemporary(w) ==
    /\ pc[w] = "unlink"
    /\ \/ cache' = [cache EXCEPT ![Temp(w)] = NoFile] /\ Step(w, "create")
       \/ UNCHANGED cache /\ Abort(w)
    /\ UNCHANGED <<disk, seq>>

(* The number of the next temporary name: ++sequence, or always the same.   *)
NextSeq(w) == IF Store.unlink_first THEN seq[w] ELSE (seq[w] % MaxSeq) + 1

(* open(O_CREAT | O_EXCL) *)
CreateTemporary(w) ==
    /\ pc[w] = "create" /\ tries[w] < Tries
    /\ cache[TempOf(w, NextSeq(w))] = NoFile
    /\ seq' = [seq EXCEPT ![w] = NextSeq(w)]
    /\ cache' = [cache EXCEPT ![TempOf(w, NextSeq(w))] = Empty(new[w])]
    /\ Step(w, "write")
    /\ UNCHANGED disk

CreateExists(w) ==
    /\ pc[w] = "create" /\ tries[w] < Tries
    /\ cache[TempOf(w, NextSeq(w))] # NoFile
    /\ seq' = [seq EXCEPT ![w] = NextSeq(w)]
    /\ IF Store.unlink_first
       THEN Abort(w)
       ELSE /\ tries' = [tries EXCEPT ![w] = @ + 1]
            /\ UNCHANGED <<pc, new, result>>
    /\ UNCHANGED <<cache, disk>>

(* Another errno, or every name was taken. *)
CreateFails(w) ==
    /\ pc[w] = "create"
    /\ seq' = [seq EXCEPT ![w] = IF tries[w] < Tries THEN NextSeq(w) ELSE @]
    /\ Abort(w)
    /\ UNCHANGED <<cache, disk>>

(* Mutant: no fsync before the rename. *)
Write_no_fsync(w) ==
    /\ pc[w] = "write"
    /\ \/ cache' = [cache EXCEPT ![Temp(w)] = Written(new[w])] /\ Step(w, "close")
       \/ UNCHANGED cache /\ Fail(w)
    /\ UNCHANGED <<disk, seq>>

Write(w) ==
    /\ pc[w] = "write"
    /\ \/ cache' = [cache EXCEPT ![Temp(w)] = Written(new[w])] /\ Step(w, "fsync")
       \/ UNCHANGED cache /\ Fail(w)
    /\ UNCHANGED <<disk, seq>>

Fsync(w) ==
    /\ pc[w] = "fsync"
    /\ \/ cache' = [cache EXCEPT ![Temp(w)] = Synced(@)] /\ Step(w, "close")
       \/ UNCHANGED cache /\ Fail(w)
    /\ UNCHANGED <<disk, seq>>

Close(w) ==
    /\ pc[w] = "close"
    /\ Step(w, "rename") \/ Fail(w)
    /\ UNCHANGED <<cache, disk, seq>>

(* The credential store looks at the final entry again before the rename.   *)
Rename(w) ==
    /\ pc[w] = "rename"
    /\ \/ /\ cache' = [cache EXCEPT ![Final] = cache[Temp(w)], ![Temp(w)] = NoFile]
          /\ Step(w, "syncdir")
       \/ UNCHANGED cache /\ Fail(w)
    /\ UNCHANGED <<disk, seq>>

(* Mutants: the failure is ignored; it is reported as a failed save. *)
SyncDirectory_best_effort(w) ==
    /\ pc[w] = "syncdir"
    /\ \/ disk' = cache /\ Step(w, "closedir")
       \/ UNCHANGED disk /\ Return(w, "OK")
    /\ UNCHANGED <<cache, seq>>

SyncDirectory_fails_hard(w) ==
    /\ pc[w] = "syncdir"
    /\ \/ disk' = cache /\ Step(w, "closedir")
       \/ UNCHANGED disk /\ Return(w, "FAILED")
    /\ UNCHANGED <<cache, seq>>

(* If the directory cannot be opened or synced, the progress store says OK. *)
SyncDirectory(w) ==
    /\ pc[w] = "syncdir"
    /\ \/ disk' = cache /\ Step(w, "closedir")
       \/ UNCHANGED disk /\ Return(w, IF Store.strict THEN "UNCERTAIN" ELSE "OK")
    /\ UNCHANGED <<cache, seq>>

CloseDirectory(w) ==
    /\ pc[w] = "closedir"
    /\ \/ Return(w, "OK")
       \/ Store.strict /\ Return(w, "UNCERTAIN")
    /\ UNCHANGED <<cache, disk, seq>>

Cleanup(w) ==
    /\ pc[w] = "cleanup"
    /\ \/ cache' = [cache EXCEPT ![Temp(w)] = NoFile]
       \/ UNCHANGED cache
    /\ Return(w, "FAILED")
    /\ UNCHANGED <<disk, seq>>

SaveStep(w) ==
    \/ Inspect(w) \/ UnlinkTemporary(w)
    \/ CreateTemporary(w) \/ CreateExists(w) \/ CreateFails(w)
    \/ Write(w) \/ Fsync(w) \/ Close(w) \/ Rename(w)
    \/ SyncDirectory(w) \/ CloseDirectory(w)
    \/ Cleanup(w)

-----------------------------------------------------------------------------
(* The operating system writes one directory entry back. *)
Writeback ==
    /\ \E n \in Names : disk' = [disk EXCEPT ![n] = cache[n]]
    /\ UNCHANGED <<cache, wVars>>

(* Power loss: a file that was not synced may come back cut short; the      *)
(* processes start again, with the same process ids.                        *)
Crash ==
    /\ \E torn \in SUBSET {n \in Names : ~disk[n].synced} :
          disk' = [n \in Names |-> [val |-> disk[n].val, synced |-> TRUE,
                                    full |-> disk[n].full /\ n \notin torn]]
    /\ cache' = disk'
    /\ pc' = [w \in Writers |-> "idle"]
    /\ new' = [w \in Writers |-> Nothing]
    /\ seq' = [w \in Writers |-> 1]
    /\ tries' = [w \in Writers |-> 0]
    /\ result' = [w \in Writers |-> "none"]

Next ==
    \/ \E w \in Writers : SaveStep(w) \/ \E v \in Values : Save(w, v)
    \/ Writeback
    \/ Crash

Spec == Init /\ [][Next]_vars

-----------------------------------------------------------------------------
TypeOK ==
    /\ cache \in [Names -> Entry]
    /\ disk \in [Names -> Entry]
    /\ pc \in [Writers -> PCs]
    /\ new \in [Writers -> Values \cup {Nothing}]
    /\ seq \in [Writers -> 1 .. MaxSeq]
    /\ tries \in [Writers -> 0 .. Tries]
    /\ result \in [Writers -> {"none", "OK", "UNCERTAIN", "FAILED"}]

(* What the three load functions make of the final entry.  A load keeps the *)
(* file it opened, so a concurrent rename does not change what it reads.     *)
LoadResult(d) ==
    CASE d[Final] = NoFile -> "MISSING"
      [] d[Final] # NoFile /\ d[Final].full -> "OK"
      [] OTHER -> "CORRUPT"

(* No load ever meets a half-written file, before or after a power loss,     *)
(* whatever the saves and the operating system were doing when it happened.  *)
LoadNeverCorrupt == LoadResult(cache) # "CORRUPT"

(* OK means durable: with every save settled as OK, a power loss changes     *)
(* nothing (settings and credentials; the progress store does not promise    *)
(* it).                                                                      *)
OKIsDurable ==
    Store.strict /\ (\A w \in Writers : pc[w] = "idle" /\ result[w] = "OK")
        => disk[Final] = cache[Final]

(* A temporary file left behind by a power loss never makes a later save of  *)
(* a store that unlinks first fail at its O_EXCL.                            *)
LeftoverNeverBlocks ==
    \A w \in Writers : Store.unlink_first /\ pc[w] = "create" =>
        cache[Temp(w)] = NoFile

(* The inductive invariant behind the refinement: the final entry is whole   *)
(* and on disk; the temporary file of a save is what its step says it is.    *)
FinalWhole == cache[Final] = Whole(cache[Final].val)
              /\ disk[Final] = Whole(disk[Final].val)

TemporaryReady ==
    \A w \in Writers :
        /\ pc[w] = "fsync" => cache[Temp(w)] = Written(new[w])
        /\ pc[w] \in {"close", "rename"} => cache[Temp(w)] = Whole(new[w])
        /\ pc[w] = "idle" <=> new[w] = Nothing

ReplaceInv == TypeOK /\ FinalWhole /\ TemporaryReady

(* The stores implement the register. *)
ValueAt(d) == IF d[Final].full THEN d[Final].val ELSE Torn

CallOf(w) ==
    [state |-> CASE pc[w] = "idle" -> "idle"
                 [] pc[w] = "syncdir" -> "committed"
                 [] pc[w] = "closedir" -> "persisted"
                 [] OTHER -> "pending",
     val |-> new[w]]

Register == INSTANCE AtomicRegister
    WITH visible <- ValueAt(cache), durable <- ValueAt(disk),
         call <- [w \in Writers |-> CallOf(w)], Strict <- Store.strict

RegisterSpec == Register!Spec

(* For TLC: values are interchangeable, and so are processes. *)
Symmetry == Permutations(Values) \cup Permutations(Writers)

=============================================================================
