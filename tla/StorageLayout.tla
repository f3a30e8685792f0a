---------------------------- MODULE StorageLayout ----------------------------
(***************************************************************************)
(* cn_storage_layout_prepare (storage/storage_layout.c): the directories    *)
(* state, state/progress and config are looked for below the root and made  *)
(* where they are missing.  Several processes prepare the same root, may    *)
(* stop anywhere and start again, and anybody may create things meanwhile.  *)
(* Nothing is removed while they do: the comment at line 163 says that this *)
(* is race handling and no sandbox.                                         *)
(***************************************************************************)
EXTENDS Naturals, Sequences

CONSTANTS Procs

VARIABLES
    fs,         \* what there is at each location
    pc,         \* of a process: "idle", "look", "make", "look again", "done"
    at,         \* the location it is busy with, as an index into Order
    result, errno,
    disturbed   \* history: a call failed, or something that is no directory
                \* lies at a location

vars == <<fs, pc, at, result, errno, disturbed>>

(* ensure_directory is called for them in this order. *)
Order == <<"state", "progress", "config">>
Locations == {Order[i] : i \in 1 .. Len(Order)}
Kinds == {"absent", "dir", "file", "link"}

InspectionErrors == {"NOT_DIRECTORY", "PERMISSION_DENIED", "PATH_TOO_LONG", "IO_ERROR"}
CreationErrors == {"NOT_DIRECTORY", "PERMISSION_DENIED", "READ_ONLY", "PATH_TOO_LONG",
                   "CREATE_FAILED"}

Init ==
    /\ fs \in {f \in [Locations -> Kinds] : f["progress"] # "absent" => f["state"] = "dir"}
    /\ pc = [p \in Procs |-> "idle"] /\ at = [p \in Procs |-> 1]
    /\ result = [p \in Procs |-> "INVALID"] /\ errno = [p \in Procs |-> FALSE]
    /\ disturbed = (\E l \in Locations : fs[l] \in {"file", "link"})

-----------------------------------------------------------------------------
Return(p, r, e) ==
    /\ pc' = [pc EXCEPT ![p] = "done"] /\ result' = [result EXCEPT ![p] = r]
    /\ errno' = [errno EXCEPT ![p] = e] /\ UNCHANGED at

Goto(p, label) == pc' = [pc EXCEPT ![p] = label] /\ UNCHANGED <<at, result, errno>>

(* A location is ready: on to the next. *)
Ready(p) ==
    IF at[p] = Len(Order) THEN Return(p, "OK", errno[p])
    ELSE /\ at' = [at EXCEPT ![p] = @ + 1] /\ pc' = [pc EXCEPT ![p] = "look"]
         /\ UNCHANGED <<result, errno>>

Call(p) ==
    /\ pc[p] \in {"idle", "done"}
    /\ pc' = [pc EXCEPT ![p] = "look"] /\ at' = [at EXCEPT ![p] = 1]
    /\ errno' = [errno EXCEPT ![p] = FALSE]
    /\ UNCHANGED <<fs, result, disturbed>>

inspect_directory(p, missing) ==
    LET k == fs[Order[at[p]]]
    IN  \/ k = "absent" /\ missing /\ Goto(p, "make")
        \/ k = "absent" /\ ~missing /\ Return(p, "NOT_FOUND", TRUE)
        \/ k = "link" /\ Return(p, "SYMLINK", errno[p])
        \/ k = "file" /\ Return(p, "NOT_DIRECTORY", errno[p])
        \/ k = "dir" /\ Ready(p)

Look(p) ==
    /\ pc[p] \in {"look", "look again"} /\ inspect_directory(p, pc[p] = "look")
    /\ UNCHANGED <<fs, disturbed>>

LookFails(p) ==
    /\ pc[p] \in {"look", "look again"}
    /\ \E r \in InspectionErrors : Return(p, r, TRUE)
    /\ disturbed' = TRUE /\ UNCHANGED fs

(* Mutant: that somebody was faster is an error. *)
Exists_is_error(p) == Return(p, "CREATE_FAILED", TRUE)

(* EEXIST: what is there now is looked at afresh. *)
Exists(p) ==
    /\ pc' = [pc EXCEPT ![p] = "look again"] /\ errno' = [errno EXCEPT ![p] = FALSE]
    /\ UNCHANGED <<at, result>>

(* mkdir *)
Make(p) ==
    LET l == Order[at[p]]
    IN  /\ pc[p] = "make"
        /\ \/ fs[l] = "absent" /\ fs' = [fs EXCEPT ![l] = "dir"] /\ Ready(p)
           \/ fs[l] # "absent" /\ UNCHANGED fs /\ Exists(p)
        /\ UNCHANGED disturbed

MakeFails(p) ==
    /\ pc[p] = "make" /\ \E r \in CreationErrors : Return(p, r, TRUE)
    /\ disturbed' = TRUE /\ UNCHANGED fs

Crash(p) ==
    /\ pc[p] # "idle" /\ pc' = [pc EXCEPT ![p] = "idle"]
    /\ result' = [result EXCEPT ![p] = "INVALID"]
    /\ UNCHANGED <<fs, at, errno, disturbed>>

(* Somebody else creates something. *)
Meddle ==
    /\ \E l \in Locations, k \in Kinds \ {"absent"} :
          /\ fs[l] = "absent" /\ (l = "progress" => fs["state"] = "dir")
          /\ fs' = [fs EXCEPT ![l] = k]
          /\ disturbed' = (disturbed \/ k # "dir")
    /\ UNCHANGED <<pc, at, result, errno>>

Next ==
    \/ \E p \in Procs :
          Call(p) \/ Look(p) \/ LookFails(p) \/ Make(p) \/ MakeFails(p) \/ Crash(p)
    \/ Meddle

Spec == Init /\ [][Next]_vars

-----------------------------------------------------------------------------
TypeOK ==
    /\ fs \in [Locations -> Kinds]
    /\ pc \in [Procs -> {"idle", "look", "make", "look again", "done"}]
    /\ at \in [Procs -> 1 .. Len(Order)]
    /\ result \in [Procs -> InspectionErrors \cup CreationErrors \cup
                            {"OK", "INVALID", "SYMLINK", "NOT_FOUND"}]
    /\ errno \in [Procs -> BOOLEAN] /\ disturbed \in BOOLEAN

(* OK is said only over three real directories, whoever made them.          *)
OkIsPrepared ==
    \A p \in Procs : pc[p] = "done" /\ result[p] = "OK" =>
        (\A l \in Locations : fs[l] = "dir") /\ ~errno[p]

(* Processes that only race with each other all succeed, wherever others of *)
(* them stopped: none takes another's directory for a failure.              *)
RaceIsNoFailure ==
    ~disturbed => \A p \in Procs : pc[p] = "done" => result[p] = "OK"

(* A location is passed only once it is a directory: what is created next   *)
(* never goes through a link, and a file is never mistaken for one.         *)
PassedAreDirectories ==
    \A p \in Procs : pc[p] \in {"look", "make", "look again"} =>
        \A i \in 1 .. at[p] - 1 : fs[Order[i]] = "dir"

=============================================================================
