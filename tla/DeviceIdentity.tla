--------------------------- MODULE DeviceIdentity ---------------------------
(***************************************************************************)
(* The device identity file (identity/device_identity.c): a random id that *)
(* is created once, directly under its final name, and never replaced.     *)
(*                                                                         *)
(* Several processes load or create it at the same time; every system call *)
(* can fail and the power can go off between any two of them.              *)
(*                                                                         *)
(* What AtomicReplace has a name for too is called Id... here: the proofs  *)
(* read both modules.                                                      *)
(***************************************************************************)
CONSTANTS
    Procs,  \* processes that use the store
    Ids     \* what production_entropy() can yield

VARIABLES
    idCache,    \* the directory entry as the processes see it
    idDisk,     \* the entry that survives a power loss
    idPc, mode, \* where each process is, and in which function
    second,     \* it is in the read that follows a lost creation race
    seen,       \* the file it saw when it inspected the path
    fresh,      \* the id it generated
    returned,   \* history: the ids returned since the last power loss
    created     \* history: the ids ever returned with CREATED

procVars == <<idPc, mode, second, seen, fresh>>
idVars == <<idCache, idDisk, procVars, returned, created>>

IdPCs == {"idle", "inspect", "read", "entropy", "create", "write", "unlink",
          "fsync", "close", "syncdir", "closedir"}

Modes == {"load", "load_or_create"}

(* full: parse_identity() accepts it; synced: all of it is on the disk.     *)
IdNoFile == [id |-> "none", full |-> FALSE, synced |-> TRUE]
IdFile == [id : Ids, full : BOOLEAN, synced : BOOLEAN]
IdEntry == IdFile \cup {IdNoFile}

ASSUME IdsAssumption == "none" \notin Ids

IdWhole(i) == [id |-> i, full |-> TRUE, synced |-> TRUE]

IdInit ==
    /\ idCache \in {IdNoFile} \cup {IdWhole(i) : i \in Ids}
    /\ idDisk = idCache
    /\ idPc = [p \in Procs |-> "idle"]
    /\ mode = [p \in Procs |-> "load"]
    /\ second = [p \in Procs |-> FALSE]
    /\ seen = [p \in Procs |-> "none"]
    /\ fresh = [p \in Procs |-> "none"]
    /\ returned = {}
    /\ created = {}

-----------------------------------------------------------------------------
IdGoto(p, l) == idPc' = [idPc EXCEPT ![p] = l]

Ended(p) ==
    /\ IdGoto(p, "idle")
    /\ second' = [second EXCEPT ![p] = FALSE]
    /\ seen' = [seen EXCEPT ![p] = "none"]
    /\ fresh' = [fresh EXCEPT ![p] = "none"]
    /\ UNCHANGED mode

(* Return without an id: any of the error codes, UNCERTAIN included.        *)
IdFail(p) == Ended(p) /\ UNCHANGED <<returned, created>>

ReturnOK(p, i) ==
    /\ Ended(p)
    /\ returned' = returned \cup {i}
    /\ UNCHANGED created

Files == <<idCache, idDisk>>
History == <<returned, created>>

Call(p, m) ==
    /\ idPc[p] = "idle"
    /\ IdGoto(p, "inspect")
    /\ mode' = [mode EXCEPT ![p] = m]
    /\ UNCHANGED <<Files, second, seen, fresh, History>>

(***************************************************************************)
(* read_existing: lstat, open and compare, read all, parse.                *)
(***************************************************************************)

(* NOT_FOUND: only the first read of load_or_create goes on to create.      *)
NotFound(p) ==
    IF mode[p] = "load_or_create" /\ ~second[p]
    THEN IdGoto(p, "entropy") /\ UNCHANGED <<mode, second, seen, fresh, History>>
    ELSE IdFail(p)

(* A file that is being written may still be empty: MALFORMED. *)
IdInspect(p) ==
    /\ idPc[p] = "inspect"
    /\ \/ idCache = IdNoFile /\ NotFound(p)
       \/ /\ idCache # IdNoFile
          /\ IdGoto(p, "read")
          /\ seen' = [seen EXCEPT ![p] = idCache.id]
          /\ UNCHANGED <<mode, second, fresh, History>>
       \/ IdFail(p)
    /\ UNCHANGED Files

(* Another file under the same name is refused, a torn one is MALFORMED or  *)
(* BAD_CHECKSUM.                                                            *)
Read(p) ==
    /\ idPc[p] = "read"
    /\ \/ idCache = IdNoFile /\ NotFound(p)
       \/ idCache # IdNoFile /\ idCache.id = seen[p] /\ idCache.full /\ ReturnOK(p, idCache.id)
       \/ IdFail(p)
    /\ UNCHANGED Files

(***************************************************************************)
(* write_new: exclusive create, write, fsync, close, fsync the directory.  *)
(***************************************************************************)
Entropy(p) ==
    /\ idPc[p] = "entropy"
    /\ \/ \E i \in Ids :
             /\ fresh' = [fresh EXCEPT ![p] = i]
             /\ IdGoto(p, "create")
             /\ UNCHANGED <<mode, second, seen, History>>
       \/ IdFail(p)
    /\ UNCHANGED Files

(* Mutant: the file is opened without O_EXCL, so it is truncated. *)
Create_not_exclusive(p) ==
    /\ idPc[p] = "create"
    /\ \/ /\ idCache' = [id |-> fresh[p], full |-> FALSE, synced |-> FALSE]
          /\ IdGoto(p, "write")
          /\ UNCHANGED <<mode, second, seen, fresh, History>>
       \/ UNCHANGED idCache /\ IdFail(p)
    /\ UNCHANGED idDisk

(* Mutant: after EEXIST everything starts over. *)
Create_starts_over(p) ==
    /\ idPc[p] = "create"
    /\ \/ /\ idCache = IdNoFile
          /\ idCache' = [id |-> fresh[p], full |-> FALSE, synced |-> FALSE]
          /\ IdGoto(p, "write")
          /\ UNCHANGED <<mode, second, seen, fresh, History>>
       \/ /\ idCache # IdNoFile
          /\ IdGoto(p, "inspect")
          /\ UNCHANGED <<idCache, mode, second, seen, fresh, History>>
       \/ UNCHANGED idCache /\ IdFail(p)
    /\ UNCHANGED idDisk

(* EEXIST: another creator won, its file is read instead. *)
Create(p) ==
    /\ idPc[p] = "create"
    /\ \/ /\ idCache = IdNoFile
          /\ idCache' = [id |-> fresh[p], full |-> FALSE, synced |-> FALSE]
          /\ IdGoto(p, "write")
          /\ UNCHANGED <<mode, second, seen, fresh, History>>
       \/ /\ idCache # IdNoFile
          /\ IdGoto(p, "inspect")
          /\ second' = [second EXCEPT ![p] = TRUE]
          /\ UNCHANGED <<idCache, mode, seen, fresh, History>>
       \/ UNCHANGED idCache /\ IdFail(p)
    /\ UNCHANGED idDisk

IdWrite(p) ==
    /\ idPc[p] = "write"
    /\ \/ idCache' = [idCache EXCEPT !.full = TRUE] /\ IdGoto(p, "fsync")
       \/ UNCHANGED idCache /\ IdGoto(p, "unlink")
    /\ UNCHANGED <<idDisk, mode, second, seen, fresh, History>>

(* The partial file of a failed write is removed, where that is possible.   *)
Unlink(p) ==
    /\ idPc[p] = "unlink"
    /\ idCache' \in {IdNoFile, idCache}
    /\ IdFail(p)
    /\ UNCHANGED idDisk

(* Mutant: a failed fsync cleans up as a failed write does. *)
IdFsync_unlinks(p) ==
    /\ idPc[p] = "fsync"
    /\ \/ idCache' = [idCache EXCEPT !.synced = TRUE] /\ IdGoto(p, "close")
       \/ UNCHANGED idCache /\ IdGoto(p, "unlink")
    /\ UNCHANGED <<idDisk, mode, second, seen, fresh, History>>

IdFsync(p) ==
    /\ idPc[p] = "fsync"
    /\ \/ /\ idCache' = [idCache EXCEPT !.synced = TRUE]
          /\ IdGoto(p, "close")
          /\ UNCHANGED <<mode, second, seen, fresh, History>>
       \/ UNCHANGED idCache /\ IdFail(p)
    /\ UNCHANGED idDisk

IdClose(p) ==
    /\ idPc[p] = "close"
    /\ \/ IdGoto(p, "syncdir") /\ UNCHANGED <<mode, second, seen, fresh, History>>
       \/ IdFail(p)
    /\ UNCHANGED Files

(* Mutant: the directory is synced on a best-effort basis. *)
IdSyncDirectory_best_effort(p) ==
    /\ idPc[p] = "syncdir"
    /\ idDisk' \in {idDisk, idCache}
    /\ IdGoto(p, "closedir") /\ UNCHANGED <<mode, second, seen, fresh, History>>
    /\ UNCHANGED idCache

IdSyncDirectory(p) ==
    /\ idPc[p] = "syncdir"
    /\ \/ /\ idDisk' = idCache
          /\ IdGoto(p, "closedir")
          /\ UNCHANGED <<mode, second, seen, fresh, History>>
       \/ UNCHANGED idDisk /\ IdFail(p)
    /\ UNCHANGED idCache

IdCloseDirectory(p) ==
    /\ idPc[p] = "closedir"
    /\ \/ /\ Ended(p)
          /\ returned' = returned \cup {fresh[p]}
          /\ created' = created \cup {fresh[p]}
       \/ IdFail(p)
    /\ UNCHANGED Files

-----------------------------------------------------------------------------
(* The entry reaches the disk by itself.  A later fsync of the file alone   *)
(* leaves disk as it is: more outcomes of a power loss than a file system   *)
(* has, never fewer.                                                        *)
IdWriteback ==
    /\ idDisk' = idCache
    /\ UNCHANGED <<idCache, procVars, History>>

(* Power loss: a file that was not synced may come back torn. *)
IdCrash ==
    /\ idDisk' \in {[id |-> idDisk.id, full |-> f, synced |-> TRUE] :
                     f \in IF idDisk.synced THEN {idDisk.full} ELSE {idDisk.full, FALSE}}
    /\ idCache' = idDisk'
    /\ idPc' = [p \in Procs |-> "idle"]
    /\ mode' = [p \in Procs |-> "load"]
    /\ second' = [p \in Procs |-> FALSE]
    /\ seen' = [p \in Procs |-> "none"]
    /\ fresh' = [p \in Procs |-> "none"]
    /\ returned' = {}
    /\ UNCHANGED created

ProcStep(p) ==
    \/ IdInspect(p) \/ Read(p) \/ Entropy(p) \/ Create(p)
    \/ IdWrite(p) \/ Unlink(p) \/ IdFsync(p) \/ IdClose(p)
    \/ IdSyncDirectory(p) \/ IdCloseDirectory(p)

IdNext ==
    \/ \E p \in Procs : ProcStep(p) \/ \E m \in Modes : Call(p, m)
    \/ IdWriteback
    \/ IdCrash

IdSpec == IdInit /\ [][IdNext]_idVars

(* The calls never block: a process that is in one finishes it. *)
IdFairSpec == IdSpec /\ \A p \in Procs : WF_idVars(ProcStep(p))

-----------------------------------------------------------------------------
IdTypeOK ==
    /\ idCache \in IdEntry /\ idDisk \in IdEntry
    /\ idPc \in [Procs -> IdPCs]
    /\ mode \in [Procs -> Modes]
    /\ second \in [Procs -> BOOLEAN]
    /\ seen \in [Procs -> Ids \cup {"none"}]
    /\ fresh \in [Procs -> Ids \cup {"none"}]
    /\ returned \subseteq Ids
    /\ created \subseteq Ids

(* All callers between two power losses, in whatever process, get the same   *)
(* id (O_EXCL in write_new, and read_existing after EEXIST).                 *)
OneIdentity == \A i, j \in returned : i = j

(* An id that was returned with CREATED is the id of this device for ever:   *)
(* no failure, creator or power loss replaces or tears the file.             *)
CreatedIsForever ==
    \A i \in created : idCache = IdWhole(i) /\ idDisk = IdWhole(i)

(* "Never silently rotates": a file that a process could have loaded is not  *)
(* replaced by another one while the power is on.                            *)
NeverRotated ==
    [][idCache.full /\ idCache' # idCache => \/ idCache'.full /\ idCache'.id = idCache.id
                                       \/ IdCrash]_idVars

(* Every call returns, although each attempt to create the file can be beaten *)
(* by a creator that then fails and unlinks it.                              *)
CallReturns == \A p \in Procs : (idPc[p] # "idle") ~> (idPc[p] = "idle")

(* The inductive invariant: one process at a time is past the exclusive      *)
(* create, the file is the one it created, and what was returned is in it.   *)
Creating == {"write", "unlink", "fsync", "close", "syncdir", "closedir"}

OneCreator ==
    \A p \in Procs : idPc[p] \in Creating =>
        /\ idCache # IdNoFile /\ idCache.id = fresh[p]
        /\ idPc[p] \in {"write", "unlink"} => ~idCache.full
        /\ idPc[p] \in {"fsync", "close", "syncdir", "closedir"} => idCache.full
        /\ idPc[p] \in {"close", "syncdir", "closedir"} => idCache.synced
        /\ idPc[p] = "closedir" => idDisk = idCache
        /\ \A q \in Procs : idPc[q] \in Creating => q = p

IdChosen == \A p \in Procs : idPc[p] = "create" => fresh[p] \in Ids

ReturnedIsFile == \A i \in returned : idCache.full /\ idCache.id = i

IdentityInv ==
    IdTypeOK /\ OneCreator /\ IdChosen /\ ReturnedIsFile /\ CreatedIsForever

=============================================================================
