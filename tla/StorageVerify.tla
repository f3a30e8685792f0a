---------------------------- MODULE StorageVerify ----------------------------
(***************************************************************************)
(* cn_platform_storage_verify (platform/storage_verify.c): is the chosen    *)
(* root on the chosen device, mounted to be written, with nothing mounted   *)
(* between?  The mount table is read once; the paths are looked at after    *)
(* it, while mounts may come and go.  A path is the sequence of its         *)
(* components; a mount hides what was mounted below its point before it.    *)
(***************************************************************************)
EXTENDS Naturals, Sequences, SequencesExt, FiniteSetsExt

CONSTANTS
    Candidates,     \* [root, point]: the configured paths
    Expected,       \* the configured device
    Devices,        \* the devices there are, Expected among them
    Kind(_, _),     \* what a device's file system has at a path
    Booted,         \* the mount tables the machine may boot with
    MaxMounts, MaxChanges       \* bounds of the model

DevicesAssumption == Expected \in Devices /\ "none" \notin Devices
CandidatesAssumption == Candidates \subseteq [root : Seq(STRING), point : Seq(STRING)]
(* A machine has the root mounted first. *)
BootedAssumption ==
    /\ MaxMounts \in Nat /\ MaxChanges \in Nat
    /\ \A b \in Booted :
          /\ b \in Seq([point : Seq(STRING), dev : Devices, rw : BOOLEAN, plain : BOOLEAN])
          /\ Len(b) \in 1 .. MaxMounts /\ b[1].point = <<>>

VARIABLES
    mounts,         \* [point, dev, rw, plain], in the order of mounting
    changes,        \* number of changes of the mount table
    quiet,          \* history: no change since the call began
    candidate, pc, result,
    table,          \* the copy of the mount table
    row, chosen, duplicates,    \* of the loop over it
    looked          \* paths still to be looked at, in order

callVars == <<candidate, pc, result, table, row, chosen, duplicates, looked>>
vars == <<mounts, changes, quiet, callVars>>

None == [point |-> <<"none">>, dev |-> "none", rw |-> FALSE, plain |-> FALSE]

(* The kernel: what a path leads to. *)
Top(path) == Max({k \in DOMAIN mounts : IsPrefix(mounts[k].point, path)})
MountAt(path) == mounts[Top(path)]
Lstat(path) ==
    LET m == MountAt(path)
    IN  [kind |-> Kind(m.dev, SubSeq(path, Len(m.point) + 1, Len(path))), dev |-> m.dev]

Init ==
    /\ mounts \in Booted /\ changes = 0 /\ quiet = TRUE
    /\ candidate \in Candidates /\ pc = "begin" /\ result = "INVALID"
    /\ table = <<>> /\ row = 1 /\ chosen = None /\ duplicates = 0 /\ looked = <<>>

-----------------------------------------------------------------------------
World == UNCHANGED <<mounts, changes, quiet>>

Return(r) ==
    /\ pc' = "done" /\ result' = r
    /\ UNCHANGED <<candidate, table, row, chosen, duplicates, looked>>

Begin ==
    /\ pc = "begin" /\ World
    /\ IF ~IsPrefix(candidate.point, candidate.root) THEN Return("WRONG_MOUNT")
       ELSE \/ Return("IO_ERROR")
            \/ Return("MALFORMED_MOUNTS")
            \/ /\ pc' = "select" /\ table' = mounts
               /\ UNCHANGED <<candidate, result, row, chosen, duplicates, looked>>

(* The longest mount point above the root so far, and how many share it.    *)
Select(m) ==
    IF chosen = None \/ Len(m.point) > Len(chosen.point)
    THEN chosen' = m /\ duplicates' = 0
    ELSE IF Len(m.point) = Len(chosen.point)
    THEN duplicates' = duplicates + 1 /\ UNCHANGED chosen
    ELSE UNCHANGED <<chosen, duplicates>>

ReadRow ==
    /\ pc = "select" /\ row <= Len(table) /\ World
    /\ row' = row + 1
    /\ IF IsPrefix(table[row].point, candidate.root) THEN Select(table[row])
       ELSE UNCHANGED <<chosen, duplicates>>
    /\ UNCHANGED <<candidate, pc, result, table, looked>>

(* Every path down to the last one, from the shortest; "/" is looked at only *)
(* when it is the last one.                                                 *)
Components(path) ==
    IF path = <<>> THEN <<path>> ELSE [n \in 1 .. Len(path) |-> SubSeq(path, 1, n)]

Judge ==
    /\ pc = "select" /\ row > Len(table) /\ World
    /\ IF chosen = None THEN Return("MOUNT_MISSING")
       ELSE IF duplicates > 0 THEN Return("MALFORMED_MOUNTS")
       ELSE IF chosen.point # candidate.point
       THEN Return(IF chosen.point = <<>> THEN "MOUNT_MISSING" ELSE "WRONG_MOUNT")
       ELSE IF ~chosen.plain THEN Return("UNSUPPORTED")
       ELSE IF ~chosen.rw THEN Return("READ_ONLY")
       ELSE IF chosen.dev # Expected THEN Return("WRONG_DEVICE")
       ELSE \/ \E r \in {"IO_ERROR", "WRONG_DEVICE"} : Return(r)
                \* stat of the device's own node
            \/ /\ pc' = "look"
               /\ looked' = Components(candidate.point) \o Components(candidate.root)
               /\ UNCHANGED <<candidate, result, table, row, chosen, duplicates>>

(* Mutant: of what a path leads to only the kind is looked at. *)
OnDevice_trusted(st) == TRUE

(* Only the end of each walk must be on the device: of the walk down to the  *)
(* mount point, and of the one down to the root that follows it.            *)
OnDevice(st) ==
    Len(looked) \in {1, Len(Components(candidate.root)) + 1} => st.dev = chosen.dev

(* inspect_components: one lstat. *)
Look ==
    /\ pc = "look" /\ World
    /\ IF looked = <<>> THEN Return("OK")
       ELSE LET path == Head(looked)
                st == Lstat(path)
            IN  \/ Return("IO_ERROR")
                \/ st.kind = "absent"
                   /\ Return(IF Len(looked) > Len(Components(candidate.root)) THEN "MOUNT_MISSING"
                             ELSE "ROOT_MISSING")
                \/ st.kind = "link" /\ Return("SYMLINK")
                \/ st.kind = "file" /\ Return("NOT_DIRECTORY")
                \/ st.kind = "dir" /\ ~OnDevice(st) /\ Return("WRONG_MOUNT")
                \/ /\ st.kind = "dir" /\ OnDevice(st)
                   /\ looked' = Tail(looked)
                   /\ UNCHANGED <<candidate, pc, result, table, row, chosen, duplicates>>

(* The applications verify again before they write. *)
Again ==
    /\ pc = "done" /\ pc' = "begin" /\ quiet' = TRUE
    /\ table' = <<>> /\ row' = 1 /\ chosen' = None /\ duplicates' = 0 /\ looked' = <<>>
    /\ result' = "INVALID"
    /\ UNCHANGED <<mounts, changes, candidate>>

-----------------------------------------------------------------------------
(* The rest of the machine (external). *)
Change == changes < MaxChanges /\ changes' = changes + 1 /\ quiet' = FALSE /\ UNCHANGED callVars

Points == {c.point : c \in Candidates} \cup {c.root : c \in Candidates}

Mount ==
    /\ Len(mounts) < MaxMounts /\ Change
    /\ \E p \in Points, d \in Devices, rw, plain \in BOOLEAN :
          /\ Lstat(p).kind = "dir"
          /\ mounts' = Append(mounts, [point |-> p, dev |-> d, rw |-> rw, plain |-> plain])

(* Only what nothing hides can be unmounted. *)
Unmount ==
    /\ Change
    /\ \E k \in DOMAIN mounts :
          /\ mounts[k].point # <<>> /\ Top(mounts[k].point) = k
          /\ \A j \in DOMAIN mounts :
                j > k => ~IsPrefix(mounts[k].point, mounts[j].point)
          /\ mounts' = RemoveAt(mounts, k)

Next == Begin \/ ReadRow \/ Judge \/ Look \/ Again \/ Mount \/ Unmount

Spec == Init /\ [][Next]_vars

-----------------------------------------------------------------------------
TypeOK ==
    /\ Len(mounts) \in 1 .. MaxMounts /\ changes \in 0 .. MaxChanges /\ quiet \in BOOLEAN
    /\ candidate \in Candidates /\ pc \in {"begin", "select", "look", "done"}
    /\ row \in 1 .. Len(table) + 1 /\ duplicates \in 0 .. MaxMounts
    /\ looked # <<>> => pc \in {"look", "done"}

(* When no mount comes or goes during the call and the device is mounted     *)
(* once (a second, bound mount cannot be told from the first, which          *)
(* docs/milestone-portable-startup-storage.md leaves to deployment), OK      *)
(* means that a write below the root goes to the expected device, through a  *)
(* mount that can be written: mounts that are hidden and mounts in between   *)
(* included.                                                                *)
OkIsTheCard ==
    /\ pc = "done" /\ result = "OK" /\ quiet
    /\ \A j, k \in DOMAIN mounts : mounts[j].dev = Expected /\ mounts[k].dev = Expected => j = k
    => /\ Lstat(candidate.root) = [kind |-> "dir", dev |-> Expected]
       /\ MountAt(candidate.root).rw /\ MountAt(candidate.root).plain

(* A card that is mounted at its point, to be written, with no other mount   *)
(* below it or over it, and that has the root, is not refused for anything   *)
(* but a failing call.                                                      *)
CardIsTaken ==
    LET at == {k \in DOMAIN mounts : IsPrefix(candidate.point, mounts[k].point)}
    IN  /\ pc = "done" /\ quiet /\ table # <<>>
        /\ \E k \in at : /\ at = {k} /\ mounts[k].point = candidate.point
                         /\ Top(candidate.point) = k
                         /\ mounts[k].dev = Expected /\ mounts[k].rw /\ mounts[k].plain
        /\ \A path \in Range(Components(candidate.root)) \cup {candidate.point} :
              Lstat(path).kind = "dir"
        => result \in {"OK", "IO_ERROR", "WRONG_DEVICE"}

(* Mounts that come and go during the call: what was accepted was found on   *)
(* the device when it was looked at last, so another device below the root   *)
(* got there by a change after that.                                        *)
AcceptedWasThere ==
    pc = "look" /\ looked = <<candidate.root>> /\ looked' = <<>> =>
        Lstat(candidate.root) = [kind |-> "dir", dev |-> Expected]

=============================================================================
