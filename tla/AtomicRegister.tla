--------------------------- MODULE AtomicRegister ---------------------------
(***************************************************************************)
(* What the three stores promise of one file, whatever fails in between:   *)
(* it is a register.  A save takes effect in one instant or not at all;    *)
(* after a power loss the register holds a value that was visible at the   *)
(* last moment the directory reached the disk; and a save that returned OK *)
(* from a store that reports durability is not lost.                       *)
(***************************************************************************)
CONSTANTS
    Writers,    \* processes that save
    Values,     \* whole file contents
    Nothing,    \* no file
    Strict      \* OK is returned only for a save known to be durable

VARIABLES
    visible,    \* what a load returns
    durable,    \* what a load would return after a power loss
    call,       \* the save each writer is in
    result      \* what the last save of each writer returned

regVars == <<visible, durable, call, result>>

Quiescent == [state |-> "idle", val |-> Nothing]

Init ==
    /\ visible \in Values \cup {Nothing}
    /\ durable = visible
    /\ call = [w \in Writers |-> Quiescent]
    /\ result = [w \in Writers |-> "none"]

Start(w, v) ==
    /\ call[w].state = "idle"
    /\ call' = [call EXCEPT ![w] = [state |-> "pending", val |-> v]]
    /\ UNCHANGED <<visible, durable, result>>

Commit(w) ==
    /\ call[w].state = "pending"
    /\ visible' = call[w].val
    /\ call' = [call EXCEPT ![w] = [state |-> "committed", val |-> @.val]]
    /\ UNCHANGED <<durable, result>>

(* The directory reaches the disk, by itself or because a writer asked. *)
Persist ==
    /\ durable' = visible
    /\ \/ UNCHANGED call
       \/ \E w \in Writers :
             /\ call[w].state = "committed"
             /\ call' = [call EXCEPT ![w] = [state |-> "persisted", val |-> @.val]]
    /\ UNCHANGED <<visible, result>>

(* What a save may say when it returns. *)
Answers(state) ==
    CASE state = "pending" -> {"FAILED"}
      [] state = "committed" -> IF Strict THEN {"UNCERTAIN"} ELSE {"OK"}
      [] state = "persisted" -> IF Strict THEN {"UNCERTAIN", "OK"} ELSE {"OK"}
      [] OTHER -> {}

Return(w) ==
    /\ \E a \in Answers(call[w].state) : result' = [result EXCEPT ![w] = a]
    /\ call' = [call EXCEPT ![w] = Quiescent]
    /\ UNCHANGED <<visible, durable>>

Crash ==
    /\ visible' = durable
    /\ call' = [w \in Writers |-> Quiescent]
    /\ result' = [w \in Writers |-> "none"]
    /\ UNCHANGED durable

Next ==
    \/ \E w \in Writers : \/ \E v \in Values : Start(w, v)
                          \/ Commit(w)
                          \/ Return(w)
    \/ Persist
    \/ Crash

Spec == Init /\ [][Next]_regVars

=============================================================================
