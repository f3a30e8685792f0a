------------------------ MODULE AtomicReplaceProofs ------------------------
(***************************************************************************)
(* Proofs about AtomicReplace for any number of writers, values and        *)
(* temporary names, and for each of the three stores: ReplaceInv is an     *)
(* invariant, no load meets a half-written file, the stores implement      *)
(* AtomicRegister, OK means durable (DurableInv), and a left-over file     *)
(* blocks no store that unlinks it first.  After them, the fourth file of  *)
(* the program, which nothing replaces: DeviceIdentity.                    *)
(***************************************************************************)
EXTENDS AtomicReplace, DeviceIdentity, TLAPS

(* The names a save touches. *)
LEMMA NameFacts ==
    /\ Final \in Names
    /\ \A w \in Writers, n \in 1 .. MaxSeq :
          TempOf(w, n) \in Names /\ TempOf(w, n) # Final
    /\ \A w, u \in Writers, n, m \in 1 .. MaxSeq :
          TempOf(w, n) = TempOf(u, m) => w = u /\ n = m
BY DEF Final, Names, TempOf

LEMMA FileFacts ==
    /\ NoFile \in Entry /\ NoFile = Whole(Nothing)
    /\ \A v \in Values : /\ Empty(v) \in Entry /\ Written(v) \in Entry
                         /\ Whole(v) \in Entry
                         /\ Synced(Written(v)) = Whole(v)
    /\ \A v : Whole(v).val = v /\ Whole(v).full = TRUE /\ Whole(v).synced = TRUE
    /\ \A e \in Entry : /\ e.val \in Values \cup {Nothing}
                        /\ e.full \in BOOLEAN /\ e.synced \in BOOLEAN
<1>1. NoFile \in Entry /\ NoFile = Whole(Nothing)
  BY DEF NoFile, Entry, Whole
<1>2. ASSUME NEW v \in Values
      PROVE  /\ Empty(v) \in Entry /\ Written(v) \in Entry
             /\ Whole(v) \in Entry
  BY DEF Entry, File, Empty, Written, Whole
<1>3. ASSUME NEW v \in Values
      PROVE  Synced(Written(v)) = Whole(v)
  BY DEF Written, Whole, Synced
<1>4. ASSUME NEW v
      PROVE  Whole(v).val = v /\ Whole(v).full = TRUE /\ Whole(v).synced = TRUE
  BY DEF Whole
<1>5. ASSUME NEW e \in Entry
      PROVE  /\ e.val \in Values \cup {Nothing}
             /\ e.full \in BOOLEAN /\ e.synced \in BOOLEAN
  <2>1. CASE e \in File
    BY <2>1 DEF File
  <2>2. CASE e = NoFile
    BY <2>2 DEF NoFile
  <2> QED BY <2>1, <2>2 DEF Entry
<1> QED BY <1>1, <1>2, <1>3, <1>4, <1>5

LEMMA NextSeqType ==
    ASSUME TypeOK, NEW w \in Writers PROVE NextSeq(w) \in 1 .. MaxSeq
<1>1. seq[w] \in 1 .. MaxSeq
  BY DEF TypeOK
<1> QED BY <1>1, NamesAssumption DEF NextSeq

LEMMA InitReplace == Init => ReplaceInv
<1> SUFFICES ASSUME Init PROVE ReplaceInv
  OBVIOUS
<1>0. PICK v \in Values \cup {Nothing} :
         cache = [n \in Names |-> IF n = Final THEN Whole(v) ELSE NoFile]
  BY DEF Init
<1>1. Whole(v) \in Entry /\ NoFile \in Entry
  BY FileFacts DEF NoFile, Whole
<1>2. TypeOK
  BY <1>0, <1>1, NamesAssumption DEF Init, TypeOK, PCs
<1>3. FinalWhole
  BY <1>0, NameFacts, FileFacts DEF Init, FinalWhole
<1>4. TemporaryReady
  BY DEF Init, TemporaryReady
<1> QED BY <1>2, <1>3, <1>4 DEF ReplaceInv

(* A step of writer w that changes at most one temporary file of its own    *)
(* and leaves the final entry alone.                                        *)
LEMMA PrivateStep ==
    ASSUME ReplaceInv, NEW w \in Writers, TypeOK',
           disk'[Final] = disk[Final] \/ disk'[Final] = cache[Final],
           cache'[Final] = cache[Final],
           \A u \in Writers \ {w} :
              /\ pc'[u] = pc[u] /\ new'[u] = new[u] /\ seq'[u] = seq[u]
              /\ cache'[TempOf(u, seq[u])] = cache[TempOf(u, seq[u])],
           /\ pc'[w] = "fsync" => cache'[TempOf(w, seq'[w])] = Written(new'[w])
           /\ pc'[w] \in {"close", "rename"} =>
                 cache'[TempOf(w, seq'[w])] = Whole(new'[w])
           /\ pc'[w] = "idle" <=> new'[w] = Nothing
    PROVE  ReplaceInv'
<1>1. FinalWhole'
  BY DEF ReplaceInv, FinalWhole
<1>2. TemporaryReady'
  BY DEF ReplaceInv, TemporaryReady, Temp
<1> QED BY <1>1, <1>2 DEF ReplaceInv

(* The other writers' view of a step of w. *)
LEMMA OthersUnchanged ==
    ASSUME ReplaceInv, NEW w \in Writers, NEW n \in 1 .. MaxSeq, NEW e,
           cache' = cache \/ cache' = [cache EXCEPT ![TempOf(w, n)] = e]
    PROVE  /\ cache'[Final] = cache[Final]
           /\ \A u \in Writers \ {w} :
                 cache'[TempOf(u, seq[u])] = cache[TempOf(u, seq[u])]
<1>1. cache \in [Names -> Entry] /\ \A u \in Writers : seq[u] \in 1 .. MaxSeq
  BY DEF ReplaceInv, TypeOK
<1> QED BY <1>1, NameFacts

LEMMA SaveLemma ==
    ASSUME ReplaceInv, NEW w \in Writers, NEW v \in Values, Save(w, v)
    PROVE  ReplaceInv'
<1>1. TypeOK'
  BY DEF ReplaceInv, TypeOK, Save, Goto, PCs
<1> QED BY <1>1, ValuesAssumption, PrivateStep
        DEF ReplaceInv, TypeOK, Save, Goto

(* Steps that only move the writer on, or return. *)
LEMMA MoveLemma ==
    ASSUME ReplaceInv, NEW w \in Writers,
           UNCHANGED cache, UNCHANGED disk \/ disk' = cache,
           seq' \in [Writers -> 1 .. MaxSeq],
           \A u \in Writers \ {w} : seq'[u] = seq[u],
           \/ \E p \in PCs \ {"idle", "fsync", "close", "rename"} :
                 Step(w, p) /\ pc[w] # "idle"
           \/ pc[w] = "close" /\ UNCHANGED seq /\ Step(w, "rename")
           \/ \E r \in {"OK", "UNCERTAIN", "FAILED"} : Return(w, r)
    PROVE  ReplaceInv'
<1> USE DEF ReplaceInv, TypeOK
<1>1. /\ pc' \in [Writers -> PCs] /\ new' \in [Writers -> Values \cup {Nothing}]
      /\ tries' \in [Writers -> 0 .. Tries]
      /\ result' \in [Writers -> {"none", "OK", "UNCERTAIN", "FAILED"}]
      /\ \A u \in Writers \ {w} : pc'[u] = pc[u] /\ new'[u] = new[u]
  BY NamesAssumption DEF Step, Return, Goto, PCs
<1>2. TypeOK'
  BY <1>1
<1>3. /\ pc'[w] # "fsync"
      /\ pc'[w] \in {"close", "rename"} =>
            pc[w] = "close" /\ UNCHANGED seq /\ new'[w] = new[w]
      /\ pc'[w] = "idle" <=> new'[w] = Nothing
  BY DEF Step, Return, Goto, TemporaryReady, PCs
<1>4. pc'[w] \in {"close", "rename"} => cache'[TempOf(w, seq'[w])] = Whole(new'[w])
  BY <1>3 DEF TemporaryReady, Temp
<1> QED BY <1>1, <1>2, <1>3, <1>4, PrivateStep

(* Steps that replace the writer's own temporary file by e. *)
LEMMA TemporaryLemma ==
    ASSUME ReplaceInv, NEW w \in Writers, NEW n \in 1 .. MaxSeq, NEW e \in Entry,
           cache' = [cache EXCEPT ![TempOf(w, n)] = e], UNCHANGED disk,
           seq' = [seq EXCEPT ![w] = n],
           \/ \E p \in PCs \ {"idle", "fsync", "close", "rename"} :
                 Step(w, p) /\ pc[w] # "idle"
           \/ e = Written(new[w]) /\ pc[w] # "idle" /\ Step(w, "fsync")
           \/ e = Whole(new[w]) /\ pc[w] # "idle" /\ Step(w, "close")
           \/ Return(w, "FAILED")
    PROVE  ReplaceInv'
<1> USE DEF ReplaceInv, TypeOK
<1>1. /\ pc' \in [Writers -> PCs] /\ new' \in [Writers -> Values \cup {Nothing}]
      /\ tries' \in [Writers -> 0 .. Tries]
      /\ result' \in [Writers -> {"none", "OK", "UNCERTAIN", "FAILED"}]
      /\ \A u \in Writers \ {w} : pc'[u] = pc[u] /\ new'[u] = new[u]
  BY NamesAssumption DEF Step, Return, Goto, PCs
<1>2. cache' \in [Names -> Entry] /\ seq' \in [Writers -> 1 .. MaxSeq]
  OBVIOUS
<1>3. TypeOK'
  BY <1>1, <1>2
<1>4. /\ pc'[w] = "fsync" => e = Written(new'[w])
      /\ pc'[w] \in {"close", "rename"} => e = Whole(new'[w])
      /\ pc'[w] = "idle" <=> new'[w] = Nothing
  BY DEF Step, Return, Goto, TemporaryReady, PCs
<1>5. cache'[TempOf(w, seq'[w])] = e
  BY NameFacts
<1>6. /\ cache'[Final] = cache[Final]
      /\ \A u \in Writers \ {w} :
            /\ seq'[u] = seq[u]
            /\ cache'[TempOf(u, seq[u])] = cache[TempOf(u, seq[u])]
  BY OthersUnchanged
<1> QED BY <1>1, <1>3, <1>4, <1>5, <1>6, PrivateStep

LEMMA SaveStepLemma ==
    ASSUME ReplaceInv, NEW w \in Writers, SaveStep(w)
    PROVE  ReplaceInv'
<1>0. /\ seq \in [Writers -> 1 .. MaxSeq] /\ seq[w] \in 1 .. MaxSeq
      /\ cache \in [Names -> Entry] /\ NextSeq(w) \in 1 .. MaxSeq
      /\ [seq EXCEPT ![w] = seq[w]] = seq
      /\ pc[w] # "idle" => new[w] \in Values
  BY NextSeqType DEF ReplaceInv, TypeOK, TemporaryReady
<1>1. CASE Inspect(w)
  BY <1>0, <1>1, MoveLemma DEF Inspect, PCs
<1>2. CASE UnlinkTemporary(w)
  <2>1. CASE cache' = [cache EXCEPT ![Temp(w)] = NoFile] /\ Step(w, "create")
    BY <1>0, <1>2, <2>1, TemporaryLemma, FileFacts
    DEF UnlinkTemporary, Temp, PCs
  <2>2. CASE UNCHANGED cache /\ Abort(w)
    BY <1>0, <1>2, <2>2, MoveLemma DEF UnlinkTemporary, Abort, Fail, PCs
  <2> QED BY <1>2, <2>1, <2>2 DEF UnlinkTemporary
<1>3. CASE CreateTemporary(w)
  <2>1. Empty(new[w]) \in Entry
    BY <1>0, <1>3, FileFacts DEF CreateTemporary
  <2> QED BY <1>0, <1>3, <2>1, TemporaryLemma DEF CreateTemporary, PCs
<1>4. CASE CreateExists(w)
  <2>1. CASE Abort(w)
    BY <1>0, <1>4, <2>1, MoveLemma DEF CreateExists, Abort, Fail, PCs
  <2>2. CASE /\ tries' = [tries EXCEPT ![w] = @ + 1]
             /\ UNCHANGED <<pc, new, result>>
    <3>1. TypeOK'
      <4>1. tries[w] \in 0 .. Tries /\ tries[w] < Tries
        BY <1>4 DEF CreateExists, ReplaceInv, TypeOK
      <4>2. tries' \in [Writers -> 0 .. Tries]
        BY <2>2, <4>1, NamesAssumption DEF ReplaceInv, TypeOK
      <4> QED BY <1>0, <1>4, <2>2, <4>2 DEF CreateExists, ReplaceInv, TypeOK
    <3>2. pc[w] = "create" /\ pc'[w] = "create" /\ new'[w] = new[w]
      BY <1>4, <2>2 DEF CreateExists
    <3> QED BY <1>0, <1>4, <2>2, <3>1, <3>2, PrivateStep, ValuesAssumption
            DEF CreateExists
  <2> QED BY <1>4, <2>1, <2>2 DEF CreateExists
<1>5. CASE CreateFails(w)
  BY <1>0, <1>5, MoveLemma DEF CreateFails, Abort, Fail, PCs
<1>6. CASE Write(w)
  <2>1. CASE cache' = [cache EXCEPT ![Temp(w)] = Written(new[w])] /\ Step(w, "fsync")
    <3>1. Written(new[w]) \in Entry
      BY <1>0, <1>6, FileFacts DEF Write
    <3> QED BY <1>0, <1>6, <2>1, <3>1, TemporaryLemma DEF Write, Temp
  <2>2. CASE UNCHANGED cache /\ Fail(w)
    BY <1>0, <1>6, <2>2, MoveLemma DEF Write, Fail, PCs
  <2> QED BY <1>6, <2>1, <2>2 DEF Write
<1>7. CASE Fsync(w)
  <2>1. CASE cache' = [cache EXCEPT ![Temp(w)] = Synced(@)] /\ Step(w, "close")
    <3>1. Whole(new[w]) \in Entry /\ Synced(Written(new[w])) = Whole(new[w])
      BY <1>0, <1>7, FileFacts DEF Fsync
    <3>2. cache' = [cache EXCEPT ![Temp(w)] = Whole(new[w])]
      BY <1>7, <2>1, <3>1 DEF Fsync, ReplaceInv, TemporaryReady
    <3> QED BY <1>0, <1>7, <2>1, <3>1, <3>2, TemporaryLemma DEF Fsync, Temp
  <2>2. CASE UNCHANGED cache /\ Fail(w)
    BY <1>0, <1>7, <2>2, MoveLemma DEF Fsync, Fail, PCs
  <2> QED BY <1>7, <2>1, <2>2 DEF Fsync
<1>8. CASE Close(w)
  BY <1>0, <1>8, MoveLemma DEF Close, Fail, PCs
<1>9. CASE Rename(w)
  <2>1. CASE /\ cache' = [cache EXCEPT ![Final] = cache[Temp(w)], ![Temp(w)] = NoFile]
             /\ Step(w, "syncdir")
    <3>0. pc[w] = "rename" /\ UNCHANGED <<disk, seq>>
      BY <1>9 DEF Rename
    <3>1. cache[Temp(w)] = Whole(new[w]) /\ new[w] \in Values
      BY <1>0, <3>0 DEF ReplaceInv, TemporaryReady
    <3>2. /\ cache'[Final] = Whole(new[w]) /\ cache' \in [Names -> Entry]
          /\ \A u \in Writers \ {w} :
                cache'[TempOf(u, seq[u])] = cache[TempOf(u, seq[u])]
      BY <1>0, <2>1, <3>1, NameFacts, FileFacts DEF Temp
    <3>3. TypeOK'
      BY <2>1, <3>0, <3>2 DEF Step, Goto, ReplaceInv, TypeOK, PCs
    <3>4. FinalWhole'
      BY <3>0, <3>2, FileFacts DEF ReplaceInv, FinalWhole
    <3>5. /\ pc' = [pc EXCEPT ![w] = "syncdir"] /\ new' = new /\ seq' = seq
          /\ pc \in [Writers -> PCs]
      BY <2>1, <3>0 DEF Step, Goto, ReplaceInv, TypeOK
    <3>6. TemporaryReady'
      BY <3>1, <3>2, <3>5, ValuesAssumption DEF ReplaceInv, TemporaryReady, Temp
    <3> QED BY <3>3, <3>4, <3>6 DEF ReplaceInv
  <2>2. CASE UNCHANGED cache /\ Fail(w)
    BY <1>0, <1>9, <2>2, MoveLemma DEF Rename, Fail, PCs
  <2> QED BY <1>9, <2>1, <2>2 DEF Rename
<1>10. CASE SyncDirectory(w)
  BY <1>0, <1>10, MoveLemma DEF SyncDirectory, PCs
<1>11. CASE CloseDirectory(w)
  BY <1>0, <1>11, MoveLemma DEF CloseDirectory
<1>12. CASE Cleanup(w)
  <2>1. CASE cache' = [cache EXCEPT ![Temp(w)] = NoFile]
    BY <1>0, <1>12, <2>1, TemporaryLemma, FileFacts DEF Cleanup, Temp
  <2>2. CASE UNCHANGED cache
    BY <1>0, <1>12, <2>2, MoveLemma DEF Cleanup
  <2> QED BY <1>12, <2>1, <2>2 DEF Cleanup
<1> QED BY <1>1, <1>2, <1>3, <1>4, <1>5, <1>6, <1>7, <1>8, <1>9, <1>10, <1>11,
           <1>12 DEF SaveStep

LEMMA WritebackLemma == ReplaceInv /\ Writeback => ReplaceInv'
<1> SUFFICES ASSUME ReplaceInv, Writeback PROVE ReplaceInv'
  OBVIOUS
<1>1. TypeOK'
  BY DEF Writeback, wVars, ReplaceInv, TypeOK
<1>2. disk'[Final] \in {disk[Final], cache[Final]}
  BY NameFacts DEF Writeback, ReplaceInv, TypeOK
<1>3. FinalWhole'
  BY <1>2 DEF Writeback, ReplaceInv, FinalWhole
<1>4. TemporaryReady'
  BY DEF Writeback, wVars, ReplaceInv, TemporaryReady, Temp
<1> QED BY <1>1, <1>3, <1>4 DEF ReplaceInv

(* A power loss cannot tear the final entry: it is synced. *)
LEMMA CrashLemma ==
    ASSUME ReplaceInv, Crash
    PROVE  ReplaceInv' /\ disk'[Final] = disk[Final] /\ cache'[Final] = disk[Final]
<1>1. PICK torn \in SUBSET {n \in Names : ~disk[n].synced} :
          disk' = [n \in Names |-> [val |-> disk[n].val, synced |-> TRUE,
                                    full |-> disk[n].full /\ n \notin torn]]
  BY DEF Crash
<1>2. disk \in [Names -> Entry] /\ disk[Final] = Whole(disk[Final].val)
  BY DEF ReplaceInv, TypeOK, FinalWhole
<1>3. Final \notin torn
  BY <1>2, FileFacts
<1>4. disk'[Final] = disk[Final]
  <2>1. disk'[Final] = [val |-> disk[Final].val, synced |-> TRUE,
                        full |-> disk[Final].full /\ Final \notin torn]
    BY <1>1, NameFacts
  <2>2. (disk[Final].full /\ Final \notin torn) = TRUE
    BY <1>2, <1>3, FileFacts
  <2> QED BY <1>2, <2>1, <2>2 DEF Whole
<1>5. ASSUME NEW n \in Names PROVE disk'[n] \in Entry
  <2>1. disk'[n] = [val |-> disk[n].val, synced |-> TRUE,
                    full |-> disk[n].full /\ n \notin torn]
    BY <1>1
  <2>2. CASE disk[n] \in File
    BY <2>1, <2>2 DEF File, Entry
  <2>3. CASE disk[n] = NoFile
    <3>1. n \notin torn
      BY <2>3 DEF NoFile
    <3>2. (disk[n].full /\ n \notin torn) = TRUE
      BY <2>3, <3>1 DEF NoFile
    <3>3. disk'[n] = NoFile
      <4>1. disk[n].val = Nothing
        BY <2>3 DEF NoFile
      <4>2. disk'[n] = [val |-> Nothing, synced |-> TRUE, full |-> TRUE]
        BY <2>1, <3>2, <4>1
      <4> QED BY <4>2 DEF NoFile
    <3> QED BY <3>3 DEF Entry
  <2> QED BY <1>2, <2>2, <2>3 DEF Entry
<1>6. disk' \in [Names -> Entry] /\ cache' = disk'
  BY <1>1, <1>5 DEF Crash
<1>7. TypeOK'
  BY <1>6, NamesAssumption DEF Crash, TypeOK, PCs
<1>8. FinalWhole'
  BY <1>2, <1>4, <1>6 DEF FinalWhole
<1>9. TemporaryReady'
  BY DEF Crash, TemporaryReady
<1> QED BY <1>4, <1>6, <1>7, <1>8, <1>9 DEF ReplaceInv

LEMMA NextReplace == ReplaceInv /\ [Next]_vars => ReplaceInv'
<1> SUFFICES ASSUME ReplaceInv, [Next]_vars PROVE ReplaceInv'
  OBVIOUS
<1>1. CASE UNCHANGED vars
  BY <1>1 DEF vars, wVars, ReplaceInv, TypeOK, FinalWhole, TemporaryReady, Temp
<1> QED BY <1>1, SaveLemma, SaveStepLemma, WritebackLemma, CrashLemma DEF Next

(* ReplaceInv holds in every reachable state of every store. *)
THEOREM ReplaceInvariant == Spec => []ReplaceInv
BY InitReplace, NextReplace, PTL DEF Spec

(* What a load returns when the final entry is whole. *)
LEMMA WholeValue ==
    ASSUME NEW d, NEW v, d[Final] = Whole(v)
    PROVE  d[Final].full = TRUE /\ ValueAt(d) = v
<1>1. d[Final].full = TRUE /\ d[Final].val = v
  BY DEF Whole
<1> QED BY <1>1 DEF ValueAt

(* No load meets a half-written file (the load functions of the three       *)
(* stores), whatever failed and whenever the power was lost.                *)
THEOREM NeverCorrupt == Spec => []LoadNeverCorrupt
<1>1. ReplaceInv => LoadNeverCorrupt
  <2> SUFFICES ASSUME ReplaceInv PROVE LoadNeverCorrupt
    OBVIOUS
  <2>2. cache[Final] = Whole(cache[Final].val)
    BY DEF ReplaceInv, FinalWhole
  <2>3. cache[Final].full = TRUE
    BY <2>2, WholeValue
  <2> QED BY <2>3 DEF LoadNeverCorrupt, LoadResult
<1> QED BY <1>1, ReplaceInvariant, PTL

-----------------------------------------------------------------------------
(* The refinement: every step of a store is a step of the register.         *)

LEMMA RegisterInit == Init => Register!Init
<1> SUFFICES ASSUME Init PROVE Register!Init
  OBVIOUS
<1>1. PICK v \in Values \cup {Nothing} :
         cache = [n \in Names |-> IF n = Final THEN Whole(v) ELSE NoFile]
  BY DEF Init
<1>2. cache[Final] = Whole(v) /\ disk = cache
  BY <1>1, NameFacts DEF Init
<1>3. ValueAt(cache) = v /\ ValueAt(disk) = v
  BY <1>2, WholeValue
<1>4. [w \in Writers |-> CallOf(w)] = [w \in Writers |-> Register!Quiescent]
  BY DEF Init, CallOf, Register!Quiescent
<1> QED BY <1>3, <1>4 DEF Init, Register!Init

(* How the register sees the final entry, before and after a step. *)
LEMMA Mapped ==
    ASSUME ReplaceInv, ReplaceInv'
    PROVE  /\ ValueAt(cache) = cache[Final].val /\ ValueAt(cache)' = cache'[Final].val
           /\ ValueAt(disk) = disk[Final].val /\ ValueAt(disk)' = disk'[Final].val
<1>1. /\ cache[Final] = Whole(cache[Final].val) /\ cache'[Final] = Whole(cache'[Final].val)
      /\ disk[Final] = Whole(disk[Final].val) /\ disk'[Final] = Whole(disk'[Final].val)
  BY DEF ReplaceInv, FinalWhole, Final
<1> QED BY <1>1, WholeValue

(* The phase of a call at each step of the save. *)
Phase(p) == CASE p = "idle" -> "idle"
              [] p = "syncdir" -> "committed"
              [] p = "closedir" -> "persisted"
              [] OTHER -> "pending"

LEMMA Calls ==
    ASSUME NEW w \in Writers
    PROVE  /\ CallOf(w) = [state |-> Phase(pc[w]), val |-> new[w]]
           /\ CallOf(w)' = [state |-> Phase(pc'[w]), val |-> new'[w]]
           /\ CallOf(w).state = Phase(pc[w]) /\ CallOf(w).val = new[w]
BY DEF CallOf, Phase

(* Only the call of w changes. *)
LEMMA CallChanges ==
    ASSUME NEW w \in Writers,
           \A u \in Writers \ {w} : pc'[u] = pc[u] /\ new'[u] = new[u]
    PROVE  [u \in Writers |-> CallOf(u)]' =
           [[u \in Writers |-> CallOf(u)] EXCEPT
               ![w] = [state |-> Phase(pc'[w]), val |-> new'[w]]]
<1>1. \A u \in Writers \ {w} : CallOf(u)' = CallOf(u)
  BY Calls
<1>2. CallOf(w)' = [state |-> Phase(pc'[w]), val |-> new'[w]]
  BY Calls
<1> QED BY <1>1, <1>2

(* A step of w within a phase of its call is invisible. *)
LEMMA Invisible ==
    ASSUME ReplaceInv, ReplaceInv', NEW w \in Writers, NEW p,
           cache'[Final] = cache[Final], disk'[Final] = disk[Final],
           pc' = [pc EXCEPT ![w] = p], UNCHANGED <<new, result>>,
           Phase(pc[w]) = Phase(p)
    PROVE  UNCHANGED Register!regVars
<1>1. UNCHANGED <<ValueAt(cache), ValueAt(disk)>>
  BY Mapped
<1>2. pc \in [Writers -> PCs]
  BY DEF ReplaceInv, TypeOK
<1>3. \A u \in Writers : CallOf(u)' = CallOf(u)
  BY <1>2, Calls
<1> QED BY <1>1, <1>3 DEF Register!regVars

(* A return is a return, with an answer the phase allows. *)
LEMMA Returns ==
    ASSUME ReplaceInv, ReplaceInv', NEW w \in Writers, NEW r,
           cache'[Final] = cache[Final], disk'[Final] = disk[Final],
           Return(w, r), r \in Register!Answers(Phase(pc[w]))
    PROVE  Register!Return(w)
<1>1. UNCHANGED <<ValueAt(cache), ValueAt(disk)>>
  BY Mapped
<1>2. /\ pc \in [Writers -> PCs] /\ new \in [Writers -> Values \cup {Nothing}]
      /\ pc' = [pc EXCEPT ![w] = "idle"] /\ new' = [new EXCEPT ![w] = Nothing]
      /\ result' = [result EXCEPT ![w] = r]
  BY DEF ReplaceInv, TypeOK, Return, Goto
<1>3. pc'[w] = "idle" /\ new'[w] = Nothing /\ Phase("idle") = "idle"
  BY <1>2 DEF Phase
<1>4. [u \in Writers |-> CallOf(u)]' =
      [[u \in Writers |-> CallOf(u)] EXCEPT ![w] = Register!Quiescent]
  BY <1>2, <1>3, CallChanges DEF Register!Quiescent
<1>5. [u \in Writers |-> CallOf(u)][w].state = Phase(pc[w])
  BY Calls
<1> QED BY <1>1, <1>2, <1>4, <1>5 DEF Register!Return

LEMMA PhaseFacts ==
    /\ \A p \in PCs \ {"idle", "syncdir", "closedir"} :
          Phase(p) = "pending" /\ "FAILED" \in Register!Answers(Phase(p))
    /\ Phase("idle") = "idle" /\ Phase("syncdir") = "committed"
    /\ Phase("closedir") = "persisted"
    /\ (IF Store.strict THEN "UNCERTAIN" ELSE "OK") \in Register!Answers("committed")
    /\ "OK" \in Register!Answers("persisted")
    /\ Store.strict => "UNCERTAIN" \in Register!Answers("persisted")
<1>1. /\ \A p \in PCs \ {"idle", "syncdir", "closedir"} : Phase(p) = "pending"
      /\ Phase("idle") = "idle" /\ Phase("syncdir") = "committed"
      /\ Phase("closedir") = "persisted"
  BY DEF Phase, PCs
<1>2. "FAILED" \in Register!Answers("pending")
  BY DEF Register!Answers
<1>3. (IF Store.strict THEN "UNCERTAIN" ELSE "OK") \in Register!Answers("committed")
  BY DEF Register!Answers
<1>4. /\ "OK" \in Register!Answers("persisted")
      /\ Store.strict => "UNCERTAIN" \in Register!Answers("persisted")
  BY DEF Register!Answers
<1> QED BY <1>1, <1>2, <1>3, <1>4

(* The error exits of a save that has not renamed, and its quiet steps. *)
LEMMA PendingStep ==
    ASSUME ReplaceInv, ReplaceInv', NEW w \in Writers,
           NEW p \in PCs \ {"idle", "syncdir", "closedir"},
           pc[w] \in PCs \ {"idle", "syncdir", "closedir"},
           cache'[Final] = cache[Final], disk'[Final] = disk[Final],
           Step(w, p) \/ Return(w, "FAILED")
    PROVE  UNCHANGED Register!regVars \/ Register!Return(w)
<1>1. CASE Step(w, p)
  BY <1>1, PhaseFacts, Invisible DEF Step, Goto
<1>2. CASE Return(w, "FAILED")
  BY <1>2, PhaseFacts, Returns
<1> QED BY <1>1, <1>2

LEMMA SaveRefines ==
    ASSUME ReplaceInv, ReplaceInv', NEW w \in Writers, NEW v \in Values, Save(w, v)
    PROVE  Register!Start(w, v)
<1>1. UNCHANGED <<ValueAt(cache), ValueAt(disk)>>
  BY Mapped DEF Save
<1>2. /\ pc \in [Writers -> PCs] /\ new \in [Writers -> Values \cup {Nothing}]
      /\ pc[w] = "idle" /\ result' = result
      /\ pc' = [pc EXCEPT ![w] = "inspect"] /\ new' = [new EXCEPT ![w] = v]
  BY DEF ReplaceInv, TypeOK, Save, Goto
<1>3. pc'[w] = "inspect" /\ new'[w] = v /\ Phase("inspect") = "pending"
  BY <1>2 DEF Phase
<1>4. [u \in Writers |-> CallOf(u)]' =
      [[u \in Writers |-> CallOf(u)] EXCEPT ![w] = [state |-> "pending", val |-> v]]
  BY <1>2, <1>3, CallChanges
<1>5. [u \in Writers |-> CallOf(u)][w].state = "idle"
  BY <1>2, Calls, PhaseFacts
<1> QED BY <1>1, <1>2, <1>4, <1>5 DEF Register!Start

(* The rename is the instant at which the save takes effect. *)
LEMMA RenameRefines ==
    ASSUME ReplaceInv, ReplaceInv', NEW w \in Writers, pc[w] = "rename",
           cache' = [cache EXCEPT ![Final] = cache[Temp(w)], ![Temp(w)] = NoFile],
           Step(w, "syncdir"), UNCHANGED disk
    PROVE  Register!Commit(w)
<1>1. /\ cache[Temp(w)] = Whole(new[w]) /\ seq[w] \in 1 .. MaxSeq
      /\ cache \in [Names -> Entry] /\ pc \in [Writers -> PCs]
      /\ pc' = [pc EXCEPT ![w] = "syncdir"] /\ new' = new /\ result' = result
  BY DEF ReplaceInv, TypeOK, TemporaryReady, Step, Goto
<1>2. cache'[Final] = Whole(new[w])
  BY <1>1, NameFacts DEF Temp
<1>3. ValueAt(cache)' = new[w] /\ ValueAt(disk)' = ValueAt(disk)
  BY <1>2, WholeValue
<1>4. /\ [u \in Writers |-> CallOf(u)][w].state = "pending"
      /\ [u \in Writers |-> CallOf(u)][w].val = new[w]
  BY Calls, PhaseFacts DEF PCs
<1>5. pc'[w] = "syncdir" /\ Phase("syncdir") = "committed"
  BY <1>1 DEF Phase
<1>6. [u \in Writers |-> CallOf(u)]' =
      [[u \in Writers |-> CallOf(u)] EXCEPT ![w] = [state |-> "committed", val |-> new[w]]]
  BY <1>1, <1>5, CallChanges
<1> QED BY <1>1, <1>3, <1>4, <1>6 DEF Register!Commit

LEMMA SyncRefines ==
    ASSUME ReplaceInv, ReplaceInv', NEW w \in Writers, pc[w] = "syncdir",
           disk' = cache, Step(w, "closedir"), UNCHANGED cache
    PROVE  Register!Persist
<1>1. ValueAt(disk)' = ValueAt(cache) /\ ValueAt(cache)' = ValueAt(cache)
  BY DEF ValueAt
<1>2. /\ pc \in [Writers -> PCs] /\ new' = new /\ result' = result
      /\ pc' = [pc EXCEPT ![w] = "closedir"]
  BY DEF ReplaceInv, TypeOK, Step, Goto
<1>3. /\ [u \in Writers |-> CallOf(u)][w].state = "committed"
      /\ [u \in Writers |-> CallOf(u)][w].val = new[w]
  BY Calls, PhaseFacts
<1>4. pc'[w] = "closedir" /\ Phase("closedir") = "persisted"
  BY <1>2 DEF Phase
<1>5. [u \in Writers |-> CallOf(u)]' =
      [[u \in Writers |-> CallOf(u)] EXCEPT ![w] = [state |-> "persisted", val |-> new[w]]]
  BY <1>2, <1>4, CallChanges
<1> QED BY <1>1, <1>2, <1>3, <1>5 DEF Register!Persist

(* The file system's writeback concerns the register only at the final name. *)
LEMMA WritebackRefines ==
    ASSUME ReplaceInv, ReplaceInv', Writeback
    PROVE  UNCHANGED Register!regVars \/ Register!Persist
<1>1. UNCHANGED <<[u \in Writers |-> CallOf(u)], ValueAt(cache), result>>
  BY DEF Writeback, wVars, CallOf, ValueAt
<1>2. disk'[Final] \in {disk[Final], cache[Final]}
  BY NameFacts DEF Writeback, ReplaceInv, TypeOK
<1>3. ValueAt(disk)' \in {ValueAt(disk), ValueAt(cache)}
  BY <1>2, Mapped
<1> QED BY <1>1, <1>3 DEF Register!regVars, Register!Persist

LEMMA CrashRefines ==
    ASSUME ReplaceInv, ReplaceInv', Crash PROVE Register!Crash
<1>1. ValueAt(disk)' = ValueAt(disk) /\ ValueAt(cache)' = ValueAt(disk)
  BY CrashLemma, Mapped
<1>2. [u \in Writers |-> CallOf(u)]' = [u \in Writers |-> Register!Quiescent]
  BY DEF Crash, CallOf, Register!Quiescent
<1> QED BY <1>1, <1>2 DEF Crash, Register!Crash

LEMMA SaveStepRefines ==
    ASSUME ReplaceInv, ReplaceInv', NEW w \in Writers, SaveStep(w)
    PROVE  Register!Next \/ UNCHANGED Register!regVars
<1>0. /\ TypeOK /\ pc[w] \in PCs /\ NextSeq(w) \in 1 .. MaxSeq /\ seq[w] \in 1 .. MaxSeq
      /\ "cleanup" \in PCs \ {"idle", "syncdir", "closedir"}
  BY NextSeqType DEF ReplaceInv, TypeOK, PCs
<1>a. Register!Return(w) => Register!Next
  BY DEF Register!Next
<1>1. CASE Inspect(w)
  BY <1>1, <1>a, PendingStep DEF Inspect, PCs
<1>2. CASE UnlinkTemporary(w)
  BY <1>0, <1>2, <1>a, PendingStep, OthersUnchanged
     DEF UnlinkTemporary, Abort, Fail, Temp, PCs
<1>3. CASE CreateTemporary(w)
  BY <1>0, <1>3, <1>a, PendingStep, OthersUnchanged DEF CreateTemporary, PCs
<1>4. CASE CreateExists(w)
  <2>1. CASE Store.unlink_first
    BY <1>0, <1>4, <1>a, <2>1, PendingStep DEF CreateExists, Abort, Fail, PCs
  <2>2. CASE ~Store.unlink_first
    BY <1>4, <2>2 DEF CreateExists, Register!regVars, ValueAt, CallOf
  <2> QED BY <2>1, <2>2
<1>5. CASE CreateFails(w)
  BY <1>0, <1>5, <1>a, PendingStep DEF CreateFails, Abort, Fail, PCs
<1>6. CASE Write(w)
  BY <1>0, <1>6, <1>a, PendingStep, OthersUnchanged DEF Write, Fail, Temp, PCs
<1>7. CASE Fsync(w)
  BY <1>0, <1>7, <1>a, PendingStep, OthersUnchanged DEF Fsync, Fail, Temp, PCs
<1>8. CASE Close(w)
  BY <1>0, <1>8, <1>a, PendingStep DEF Close, Fail, PCs
<1>9. CASE Rename(w)
  <2>1. CASE UNCHANGED cache /\ Fail(w)
    BY <1>0, <1>9, <1>a, <2>1, PendingStep DEF Rename, Fail, PCs
  <2> QED BY <1>9, <2>1, RenameRefines DEF Rename, Register!Next
<1>10. CASE SyncDirectory(w)
  <2>1. CASE disk' = cache /\ Step(w, "closedir")
    BY <1>10, <2>1, SyncRefines DEF SyncDirectory, Register!Next
  <2>2. CASE UNCHANGED disk /\ Return(w, IF Store.strict THEN "UNCERTAIN" ELSE "OK")
    BY <1>10, <1>a, <2>2, Returns, PhaseFacts DEF SyncDirectory
  <2> QED BY <1>10, <2>1, <2>2 DEF SyncDirectory
<1>11. CASE CloseDirectory(w)
  BY <1>11, <1>a, Returns, PhaseFacts DEF CloseDirectory
<1>12. CASE Cleanup(w)
  BY <1>0, <1>12, <1>a, PendingStep, OthersUnchanged DEF Cleanup, Temp
<1> QED BY <1>1, <1>2, <1>3, <1>4, <1>5, <1>6, <1>7, <1>8, <1>9, <1>10, <1>11,
           <1>12 DEF SaveStep

LEMMA NextRefines ==
    ASSUME ReplaceInv, ReplaceInv', [Next]_vars
    PROVE  [Register!Next]_(Register!regVars)
<1>1. CASE UNCHANGED vars
  BY <1>1 DEF vars, wVars, Register!regVars, ValueAt, CallOf
<1>2. ASSUME NEW w \in Writers, NEW v \in Values, Save(w, v) PROVE Register!Next
  BY <1>2, SaveRefines DEF Register!Next
<1>3. Writeback => Register!Next \/ UNCHANGED Register!regVars
  BY WritebackRefines DEF Register!Next
<1>4. Crash => Register!Next
  BY CrashRefines DEF Register!Next
<1> QED BY <1>1, <1>2, <1>3, <1>4, SaveStepRefines DEF Next

(* Each store is a register: a save takes effect in one instant or not at    *)
(* all, a power loss brings back a value that was visible, and what the save *)
(* functions return is what the register would have returned.               *)
THEOREM Refinement == Spec => RegisterSpec
BY RegisterInit, NextRefines, ReplaceInvariant, PTL DEF Spec, RegisterSpec, Register!Spec

-----------------------------------------------------------------------------
(* Durability.  A save that may not have reached the disk is unsettled: it   *)
(* has not synced the directory, or it did not return OK.  DurableInv: as    *)
(* long as the disk is behind, somebody is unsettled.                        *)
Unsettled(w) == pc[w] = "syncdir" \/ (pc[w] # "closedir" /\ result[w] # "OK")

DurableInv ==
    Store.strict /\ disk[Final] # cache[Final] => \E w \in Writers : Unsettled(w)

LEMMA StepKeepsDurable ==
    ASSUME ReplaceInv, DurableInv, NEW w \in Writers,
           \/ UNCHANGED disk /\ cache'[Final] = cache[Final]
           \/ disk' = cache /\ UNCHANGED cache
           \/ Unsettled(w)',
           \A u \in Writers \ {w} : pc'[u] = pc[u] /\ result'[u] = result[u],
           Store.strict /\ Unsettled(w) =>
               Unsettled(w)' \/ disk'[Final] = cache'[Final]
    PROVE  DurableInv'
BY DEF DurableInv, Unsettled

LEMMA SaveStepDurable ==
    ASSUME ReplaceInv, DurableInv, NEW w \in Writers, SaveStep(w)
    PROVE  DurableInv'
<1>1. /\ pc \in [Writers -> PCs] /\ seq[w] \in 1 .. MaxSeq
      /\ result \in [Writers -> {"none", "OK", "UNCERTAIN", "FAILED"}]
      /\ cache \in [Names -> Entry] /\ NextSeq(w) \in 1 .. MaxSeq
  BY NextSeqType DEF ReplaceInv, TypeOK
<1>2. \A e, n \in 1 .. MaxSeq :
         [cache EXCEPT ![TempOf(w, n)] = e][Final] = cache[Final]
  BY <1>1, NameFacts
<1> USE DEF Step, Goto, Return, Abort, Fail, Unsettled
<1>3. CASE Rename(w)
  <2>1. CASE UNCHANGED cache
    BY <1>1, <1>3, <2>1, StepKeepsDurable DEF Rename
  <2>2. CASE Step(w, "syncdir")
    BY <1>1, <1>3, <2>2, StepKeepsDurable DEF Rename
  <2> QED BY <1>3, <2>1, <2>2 DEF Rename
<1>4. CASE SyncDirectory(w)
  BY <1>1, <1>4, StepKeepsDurable DEF SyncDirectory
<1>5. CASE CloseDirectory(w)
  BY <1>1, <1>5, StepKeepsDurable DEF CloseDirectory
<1>6. CASE ~(Rename(w) \/ SyncDirectory(w) \/ CloseDirectory(w))
  <2>1. UNCHANGED disk /\ cache'[Final] = cache[Final]
    <3>1. CASE \/ Inspect(w) \/ CreateExists(w) \/ CreateFails(w) \/ Close(w)
      BY <3>1 DEF Inspect, CreateExists, CreateFails, Close
    <3>2. CASE UnlinkTemporary(w) \/ Cleanup(w)
      BY <1>1, <3>2, NameFacts DEF UnlinkTemporary, Cleanup, Temp
    <3>3. CASE Write(w) \/ Fsync(w)
      BY <1>1, <3>3, NameFacts DEF Write, Fsync, Temp
    <3>4. CASE CreateTemporary(w)
      BY <1>1, <3>4, NameFacts DEF CreateTemporary
    <3> QED BY <1>6, <3>1, <3>2, <3>3, <3>4 DEF SaveStep
  <2>2. /\ \A u \in Writers \ {w} : pc'[u] = pc[u] /\ result'[u] = result[u]
        /\ pc[w] # "syncdir" /\ pc'[w] # "closedir"
        /\ result'[w] \in {result[w], "FAILED"}
    <3>1. CASE \/ Inspect(w) \/ UnlinkTemporary(w) \/ CreateFails(w) \/ Close(w)
               \/ Cleanup(w)
      BY <1>1, <3>1 DEF Inspect, UnlinkTemporary, CreateFails, Close, Cleanup
    <3>2. CASE CreateTemporary(w) \/ CreateExists(w) \/ Write(w) \/ Fsync(w)
      BY <1>1, <3>2 DEF CreateTemporary, CreateExists, Write, Fsync
    <3> QED BY <1>6, <3>1, <3>2 DEF SaveStep
  <2> QED BY <2>1, <2>2, StepKeepsDurable
<1> QED BY <1>3, <1>4, <1>5, <1>6

(* OK means durable (cn_settings_save and cn_credential_store_save): when    *)
(* every save has returned OK, a power loss changes nothing, for any number  *)
(* of saving processes.                                                      *)
THEOREM Durable == Spec => []OKIsDurable
<1>1. Init => DurableInv
  BY DEF Init, DurableInv
<1>2. ReplaceInv /\ DurableInv /\ [Next]_vars => DurableInv'
  <2> SUFFICES ASSUME ReplaceInv, DurableInv, [Next]_vars PROVE DurableInv'
    OBVIOUS
  <2>1. ASSUME NEW w \in Writers, SaveStep(w) PROVE DurableInv'
    BY <2>1, SaveStepDurable
  <2>2. ASSUME NEW w \in Writers, NEW v \in Values, Save(w, v) PROVE DurableInv'
    <3>1. /\ pc \in [Writers -> PCs] /\ pc[w] = "idle"
          /\ pc' = [pc EXCEPT ![w] = "inspect"] /\ UNCHANGED <<cache, disk, result>>
      BY <2>2 DEF Save, Goto, ReplaceInv, TypeOK
    <3> QED BY <3>1 DEF DurableInv, Unsettled
  <2>3. CASE Writeback
    <3>1. PICK n \in Names : disk' = [disk EXCEPT ![n] = cache[n]]
      BY <2>3 DEF Writeback
    <3>2. disk'[Final] \in {disk[Final], cache[Final]}
      BY <3>1, NameFacts DEF ReplaceInv, TypeOK
    <3> QED BY <2>3, <3>2 DEF Writeback, wVars, DurableInv, Unsettled
  <2>4. CASE Crash
    BY <2>4 DEF Crash, DurableInv
  <2>5. CASE UNCHANGED vars
    BY <2>5 DEF vars, wVars, DurableInv, Unsettled
  <2> QED BY <2>1, <2>2, <2>3, <2>4, <2>5 DEF Next
<1>3. DurableInv => OKIsDurable
  BY DEF DurableInv, OKIsDurable, Unsettled
<1> QED BY <1>1, <1>2, <1>3, ReplaceInvariant, PTL DEF Spec

(* A left-over temporary file never blocks a store that unlinks it first:    *)
(* nobody else touches the name between the unlink and the exclusive create. *)
THEOREM LeftoversHarmless == Spec => []LeftoverNeverBlocks
<1>1. Init => LeftoverNeverBlocks
  BY DEF Init, LeftoverNeverBlocks
<1>2. ReplaceInv /\ LeftoverNeverBlocks /\ [Next]_vars => LeftoverNeverBlocks'
  <2> SUFFICES ASSUME ReplaceInv, LeftoverNeverBlocks, [Next]_vars,
                      NEW u \in Writers, Store.unlink_first, pc'[u] = "create"
               PROVE  cache'[Temp(u)'] = NoFile
    BY DEF LeftoverNeverBlocks
  <2>0. /\ pc \in [Writers -> PCs] /\ seq \in [Writers -> 1 .. MaxSeq]
        /\ cache \in [Names -> Entry]
        /\ pc[u] = "create" => cache[Temp(u)] = NoFile
    BY DEF ReplaceInv, TypeOK, LeftoverNeverBlocks
  <2>1. ASSUME NEW w \in Writers, SaveStep(w)
        PROVE  cache'[Temp(u)'] = NoFile
    <3>0. \A x \in Writers : NextSeq(x) = seq[x]
      BY DEF NextSeq
    <3>1. seq' = seq
      BY <2>0, <2>1, <3>0 DEF SaveStep, Inspect, UnlinkTemporary, CreateTemporary,
         CreateExists, CreateFails, Write, Fsync, Close, Rename, SyncDirectory,
         CloseDirectory, Cleanup
    <3>2. CASE u = w
      <4>1. UnlinkTemporary(w) /\ cache' = [cache EXCEPT ![Temp(w)] = NoFile]
        BY <2>0, <2>1, <3>2 DEF SaveStep, Inspect, UnlinkTemporary,
           CreateTemporary, CreateExists, CreateFails, Write, Fsync, Close,
           Rename, SyncDirectory, CloseDirectory, Cleanup, Step, Goto, Return,
           Abort, Fail
      <4> QED BY <2>0, <3>1, <3>2, <4>1, NameFacts DEF Temp
    <3>3. CASE u # w
      <4>1. pc'[u] = pc[u]
        BY <2>0, <2>1, <3>3 DEF SaveStep, Inspect, UnlinkTemporary,
           CreateTemporary, CreateExists, CreateFails, Write, Fsync, Close,
           Rename, SyncDirectory, CloseDirectory, Cleanup, Step, Goto, Return,
           Abort, Fail
      <4>2. cache'[Temp(u)] = cache[Temp(u)]
        <5>1. \/ UNCHANGED cache
              \/ \E e : cache' = [cache EXCEPT ![TempOf(w, seq[w])] = e]
              \/ Rename(w) /\ cache' = [cache EXCEPT ![Final] = cache[Temp(w)],
                                                    ![Temp(w)] = NoFile]
          BY <2>1, <3>0 DEF SaveStep, Inspect, UnlinkTemporary, CreateTemporary,
             CreateExists, CreateFails, Write, Fsync, Close, Rename,
             SyncDirectory, CloseDirectory, Cleanup, Temp
        <5>2. /\ Temp(u) # Final /\ Temp(u) # TempOf(w, seq[w]) /\ Temp(u) \in Names
          BY <2>0, <3>3, NameFacts DEF Temp
        <5> QED BY <2>0, <5>1, <5>2 DEF Temp
      <4> QED BY <2>0, <3>1, <4>1, <4>2 DEF Temp
    <3> QED BY <3>2, <3>3
  <2>2. ASSUME NEW w \in Writers, NEW v \in Values, Save(w, v)
        PROVE  cache'[Temp(u)'] = NoFile
    BY <2>0, <2>2 DEF Save, Goto, Temp
  <2>3. CASE Writeback \/ UNCHANGED vars
    BY <2>0, <2>3 DEF Writeback, vars, wVars, Temp
  <2>4. CASE Crash
    BY <2>4 DEF Crash
  <2> QED BY <2>1, <2>2, <2>3, <2>4 DEF Next
<1> QED BY <1>1, <1>2, ReplaceInvariant, PTL DEF Spec

-----------------------------------------------------------------------------
(* The device identity (module DeviceIdentity), for any number of processes  *)
(* and ids: the file that is created once, and never replaced.               *)

LEMMA IdEntryFacts ==
    /\ IdNoFile \in IdEntry /\ IdNoFile.full = FALSE
    /\ \A i \in Ids : /\ IdWhole(i) \in IdFile /\ IdWhole(i) # IdNoFile
                      /\ IdWhole(i).full = TRUE /\ IdWhole(i).id = i
                      /\ IdWhole(i).synced = TRUE
    /\ \A e \in IdFile : e \in IdEntry /\ e.id \in Ids /\ e # IdNoFile
    /\ \A e \in IdEntry : /\ e.full \in BOOLEAN /\ e.synced \in BOOLEAN
                        /\ (e # IdNoFile => e \in IdFile)
                        /\ (e.full /\ e.synced => e = IdWhole(e.id) /\ e \in IdFile)
<1>1. IdNoFile \in IdEntry /\ IdNoFile.full = FALSE
  BY DEF IdNoFile, IdEntry
<1>2. ASSUME NEW i \in Ids
      PROVE  /\ IdWhole(i) \in IdFile /\ IdWhole(i).full = TRUE /\ IdWhole(i).id = i
             /\ IdWhole(i).synced = TRUE
  BY DEF IdWhole, IdFile
<1>3. ASSUME NEW e \in IdFile PROVE e \in IdEntry /\ e.id \in Ids /\ e # IdNoFile
  BY IdsAssumption DEF IdFile, IdEntry, IdNoFile
<1>4. ASSUME NEW e \in IdEntry
      PROVE  /\ e.full \in BOOLEAN /\ e.synced \in BOOLEAN
             /\ (e # IdNoFile => e \in IdFile)
             /\ (e.full /\ e.synced => e = IdWhole(e.id) /\ e \in IdFile)
  <2>1. CASE e \in IdFile
    BY <2>1 DEF IdFile, IdWhole
  <2>2. CASE e = IdNoFile
    BY <2>2 DEF IdNoFile
  <2> QED BY <2>1, <2>2 DEF IdEntry
<1> QED BY <1>1, <1>2, <1>3, <1>4

LEMMA InitIdentity == IdInit => IdentityInv
<1> SUFFICES ASSUME IdInit PROVE IdentityInv
  OBVIOUS
<1>1. IdTypeOK
  BY IdEntryFacts DEF IdInit, IdTypeOK, IdPCs, Modes
<1>2. OneCreator /\ IdChosen /\ ReturnedIsFile /\ CreatedIsForever
  BY DEF IdInit, OneCreator, Creating, IdChosen, ReturnedIsFile, CreatedIsForever
<1> QED BY <1>1, <1>2 DEF IdentityInv

(* A call that ends without an id, or moves on, and leaves the files alone. *)
LEMMA QuietStep ==
    ASSUME IdentityInv, NEW p \in Procs, UNCHANGED <<idCache, idDisk, returned, created>>,
           IdTypeOK', \A q \in Procs \ {p} : idPc'[q] = idPc[q] /\ fresh'[q] = fresh[q],
           idPc'[p] = "create" => fresh'[p] \in Ids,
           \/ idPc'[p] \notin Creating
           \/ idPc[p] \in {"write", "unlink"} /\ idPc'[p] = "unlink" /\ fresh'[p] = fresh[p]
           \/ idPc[p] = "close" /\ idPc'[p] = "syncdir" /\ fresh'[p] = fresh[p]
    PROVE  IdentityInv'
<1>1. OneCreator'
  BY DEF IdentityInv, OneCreator, Creating
<1>2. IdChosen'
  BY DEF IdentityInv, IdChosen
<1> QED BY <1>1, <1>2 DEF IdentityInv, ReturnedIsFile, CreatedIsForever

LEMMA FailStep ==
    ASSUME IdentityInv, NEW p \in Procs, UNCHANGED <<idCache, idDisk>>, IdFail(p)
    PROVE  IdentityInv'
<1>1. IdTypeOK'
  BY DEF IdentityInv, IdTypeOK, IdFail, Ended, IdGoto, IdPCs
<1>2. \A q \in Procs \ {p} : idPc'[q] = idPc[q] /\ fresh'[q] = fresh[q]
  BY DEF IdentityInv, IdTypeOK, IdFail, Ended, IdGoto
<1>3. idPc'[p] = "idle"
  BY DEF IdentityInv, IdTypeOK, IdFail, Ended, IdGoto
<1>4. idPc'[p] \notin Creating
  BY <1>3 DEF Creating
<1> QED BY <1>1, <1>2, <1>3, <1>4, QuietStep DEF IdFail

LEMMA NotFoundStep ==
    ASSUME IdentityInv, NEW p \in Procs, UNCHANGED <<idCache, idDisk>>, NotFound(p)
    PROVE  IdentityInv'
<1>1. CASE IdFail(p)
  BY <1>1, FailStep
<1>2. CASE IdGoto(p, "entropy") /\ UNCHANGED <<mode, second, seen, fresh, History>>
  <2>1. IdTypeOK'
    BY <1>2 DEF IdentityInv, IdTypeOK, IdGoto, IdPCs, History
  <2>2. /\ \A q \in Procs \ {p} : idPc'[q] = idPc[q] /\ fresh'[q] = fresh[q]
        /\ idPc'[p] = "entropy"
    BY <1>2 DEF IdentityInv, IdTypeOK, IdGoto
  <2>3. idPc'[p] \notin Creating
    BY <2>2 DEF Creating
  <2> QED BY <1>2, <2>1, <2>2, <2>3, QuietStep DEF History
<1> QED BY <1>1, <1>2 DEF NotFound

LEMMA CallStep ==
    ASSUME IdentityInv, NEW p \in Procs, NEW m \in Modes, Call(p, m)
    PROVE  IdentityInv'
<1>1. IdTypeOK'
  BY DEF IdentityInv, IdTypeOK, Call, IdGoto, IdPCs, History, Files
<1>2. /\ \A q \in Procs \ {p} : idPc'[q] = idPc[q] /\ fresh'[q] = fresh[q]
      /\ idPc'[p] = "inspect"
  BY DEF IdentityInv, IdTypeOK, Call, IdGoto
<1>3. idPc'[p] \notin Creating
  BY <1>2 DEF Creating
<1> QED BY <1>1, <1>2, <1>3, QuietStep DEF Call, Files, History

LEMMA InspectStep ==
    ASSUME IdentityInv, NEW p \in Procs, IdInspect(p) PROVE IdentityInv'
<1>1. CASE NotFound(p)
  BY <1>1, NotFoundStep DEF IdInspect, Files
<1>2. CASE IdFail(p)
  BY <1>2, FailStep DEF IdInspect, Files
<1>3. CASE /\ idCache # IdNoFile
           /\ IdGoto(p, "read")
           /\ seen' = [seen EXCEPT ![p] = idCache.id]
           /\ UNCHANGED <<mode, second, fresh, History>>
  <2>0. idCache.id \in Ids
    BY <1>3, IdEntryFacts DEF IdentityInv, IdTypeOK
  <2>1. IdTypeOK'
    BY <1>3, <2>0 DEF IdentityInv, IdTypeOK, IdGoto, IdPCs, History, IdInspect, Files
  <2>2. /\ \A q \in Procs \ {p} : idPc'[q] = idPc[q] /\ fresh'[q] = fresh[q]
        /\ idPc'[p] = "read"
    BY <1>3 DEF IdentityInv, IdTypeOK, IdGoto
  <2>3. idPc'[p] \notin Creating
    BY <2>2 DEF Creating
  <2> QED BY <1>3, <2>1, <2>2, <2>3, QuietStep DEF IdInspect, Files, History
<1> QED BY <1>1, <1>2, <1>3 DEF IdInspect

(* What a read returns is in the file, and stays there. *)
LEMMA ReadStep ==
    ASSUME IdentityInv, NEW p \in Procs, Read(p) PROVE IdentityInv'
<1>1. CASE NotFound(p)
  BY <1>1, NotFoundStep DEF Read, Files
<1>2. CASE IdFail(p)
  BY <1>2, FailStep DEF Read, Files
<1>3. CASE idCache # IdNoFile /\ idCache.full /\ ReturnOK(p, idCache.id)
  <2>0. idCache.id \in Ids
    BY <1>3, IdEntryFacts DEF IdentityInv, IdTypeOK
  <2>1. IdTypeOK'
    BY <1>3, <2>0 DEF IdentityInv, IdTypeOK, ReturnOK, Ended, IdGoto, IdPCs, Read, Files
  <2>2. /\ \A q \in Procs \ {p} : idPc'[q] = idPc[q] /\ fresh'[q] = fresh[q]
        /\ idPc'[p] = "idle" /\ UNCHANGED <<idCache, idDisk, created>>
    BY <1>3 DEF IdentityInv, IdTypeOK, ReturnOK, Ended, IdGoto, Read, Files
  <2>3. OneCreator'
    BY <2>2 DEF IdentityInv, OneCreator, Creating
  <2>4. ReturnedIsFile'
    BY <1>3, <2>2 DEF IdentityInv, ReturnedIsFile, ReturnOK
  <2>5. IdChosen'
    BY <2>2 DEF IdentityInv, IdChosen
  <2> QED BY <2>1, <2>2, <2>3, <2>4, <2>5 DEF IdentityInv, CreatedIsForever
<1> QED BY <1>1, <1>2, <1>3 DEF Read

LEMMA EntropyStep ==
    ASSUME IdentityInv, NEW p \in Procs, Entropy(p) PROVE IdentityInv'
<1>1. CASE IdFail(p)
  BY <1>1, FailStep DEF Entropy, Files
<1>2. ASSUME NEW i \in Ids, fresh' = [fresh EXCEPT ![p] = i], IdGoto(p, "create"),
             UNCHANGED <<mode, second, seen, History>>
      PROVE  IdentityInv'
  <2>1. IdTypeOK'
    BY <1>2 DEF IdentityInv, IdTypeOK, IdGoto, IdPCs, History, Entropy, Files
  <2>2. /\ \A q \in Procs \ {p} : idPc'[q] = idPc[q] /\ fresh'[q] = fresh[q]
        /\ idPc'[p] = "create" /\ fresh'[p] = i
    BY <1>2 DEF IdentityInv, IdTypeOK, IdGoto
  <2>3. idPc'[p] \notin Creating
    BY <2>2 DEF Creating
  <2> QED BY <1>2, <2>1, <2>2, <2>3, QuietStep DEF Entropy, Files, History
<1> QED BY <1>1, <1>2 DEF Entropy

(* The exclusive create succeeds only while no file exists: nobody else is   *)
(* creating and nothing was returned.                                        *)
LEMMA CreateStep ==
    ASSUME IdentityInv, NEW p \in Procs, Create(p) PROVE IdentityInv'
<1>1. CASE UNCHANGED idCache /\ IdFail(p)
  BY <1>1, FailStep DEF Create
<1>2. CASE /\ idCache # IdNoFile
           /\ IdGoto(p, "inspect")
           /\ second' = [second EXCEPT ![p] = TRUE]
           /\ UNCHANGED <<idCache, mode, seen, fresh, History>>
  <2>1. IdTypeOK'
    BY <1>2 DEF IdentityInv, IdTypeOK, IdGoto, IdPCs, History, Create
  <2>2. /\ \A q \in Procs \ {p} : idPc'[q] = idPc[q] /\ fresh'[q] = fresh[q]
        /\ idPc'[p] = "inspect"
    BY <1>2 DEF IdentityInv, IdTypeOK, IdGoto
  <2>3. idPc'[p] \notin Creating
    BY <2>2 DEF Creating
  <2> QED BY <1>2, <2>1, <2>2, <2>3, QuietStep DEF Create, History
<1>3. CASE /\ idCache = IdNoFile
           /\ idCache' = [id |-> fresh[p], full |-> FALSE, synced |-> FALSE]
           /\ IdGoto(p, "write")
           /\ UNCHANGED <<mode, second, seen, fresh, History>>
  <2>0. fresh[p] \in Ids
    BY DEF IdentityInv, IdChosen, Create
  <2>1. idCache' \in IdFile /\ idCache'.id = fresh[p] /\ idCache'.full = FALSE
    BY <1>3, <2>0 DEF IdFile
  <2>2. idCache' \in IdEntry /\ idCache' # IdNoFile
    BY <2>1, IdEntryFacts
  <2>3. IdTypeOK'
    BY <1>3, <2>2 DEF IdentityInv, IdTypeOK, IdGoto, IdPCs, History, Create
  <2>4. /\ \A q \in Procs \ {p} : idPc'[q] = idPc[q] /\ fresh'[q] = fresh[q]
        /\ idPc'[p] = "write" /\ fresh'[p] = fresh[p]
    BY <1>3 DEF IdentityInv, IdTypeOK, IdGoto
  <2>5. \A q \in Procs : idPc[q] \notin Creating
    BY <1>3 DEF IdentityInv, OneCreator
  <2>6. OneCreator'
    BY <2>1, <2>2, <2>4, <2>5 DEF OneCreator, Creating
  <2>7. IdChosen'
    BY <2>4 DEF IdentityInv, IdChosen
  <2>8. returned = {} /\ created = {}
    BY <1>3, IdEntryFacts
       DEF IdentityInv, IdTypeOK, ReturnedIsFile, CreatedIsForever
  <2>9. ReturnedIsFile' /\ CreatedIsForever'
    BY <1>3, <2>8 DEF ReturnedIsFile, CreatedIsForever, History
  <2> QED BY <2>3, <2>6, <2>7, <2>9 DEF IdentityInv
<1> QED BY <1>1, <1>2, <1>3 DEF Create

(* The creator p changes its file e to e2 and goes from one step to another. *)
LEMMA FileStep ==
    ASSUME IdentityInv, NEW p \in Procs, NEW l \in {"fsync", "close"},
           idPc[p] \in Creating, idCache' \in IdEntry, idCache' # IdNoFile,
           idCache'.id = idCache.id,
           idCache'.full = TRUE, l = "close" => idCache'.synced = TRUE,
           returned # {} \/ created # {} => idCache.full,
           created # {} => idCache' = idCache,
           idPc' = [idPc EXCEPT ![p] = l],
           UNCHANGED <<idDisk, mode, second, seen, fresh, returned, created>>
    PROVE  IdentityInv'
<1>1. IdTypeOK'
  BY DEF IdentityInv, IdTypeOK, IdPCs
<1>2. idPc'[p] = l /\ \A q \in Procs \ {p} : idPc'[q] = idPc[q] /\ idPc[q] \notin Creating
  BY DEF IdentityInv, IdTypeOK, OneCreator
<1>3. idCache.id = fresh[p]
  BY DEF IdentityInv, OneCreator
<1>4. OneCreator'
  BY <1>2, <1>3 DEF OneCreator, Creating
<1>5. IdChosen'
  BY <1>2 DEF IdentityInv, IdChosen
<1>6. ReturnedIsFile'
  BY DEF IdentityInv, ReturnedIsFile
<1>7. CreatedIsForever'
  BY DEF IdentityInv, CreatedIsForever
<1> QED BY <1>1, <1>4, <1>5, <1>6, <1>7 DEF IdentityInv

LEMMA WriteStep ==
    ASSUME IdentityInv, NEW p \in Procs, IdWrite(p) PROVE IdentityInv'
<1>0. /\ idPc[p] = "write" /\ idPc[p] \in Creating /\ idCache # IdNoFile /\ ~idCache.full
      /\ idCache \in IdFile /\ returned = {} /\ created = {}
  <2>1. idPc[p] = "write" /\ idPc[p] \in Creating
    BY DEF IdWrite, Creating
  <2>2. idCache # IdNoFile /\ ~idCache.full
    BY <2>1 DEF IdentityInv, OneCreator
  <2>3. returned = {} /\ created = {} /\ idCache \in IdFile
    BY <2>2, IdEntryFacts DEF IdentityInv, IdTypeOK, ReturnedIsFile, CreatedIsForever
  <2> QED BY <2>1, <2>2, <2>3
<1>1. CASE idCache' = [idCache EXCEPT !.full = TRUE] /\ IdGoto(p, "fsync")
  <2>1. idCache' \in IdFile /\ idCache'.id = idCache.id /\ idCache'.full = TRUE
    BY <1>0, <1>1 DEF IdFile
  <2>2. idCache' \in IdEntry /\ idCache' # IdNoFile
    BY <2>1, IdEntryFacts
  <2> QED BY <1>0, <1>1, <2>1, <2>2, FileStep DEF IdWrite, IdGoto, History
<1>2. CASE UNCHANGED idCache /\ IdGoto(p, "unlink")
  <2>1. IdTypeOK'
    BY <1>2 DEF IdentityInv, IdTypeOK, IdGoto, IdPCs, History, IdWrite
  <2>2. /\ \A q \in Procs \ {p} : idPc'[q] = idPc[q] /\ fresh'[q] = fresh[q]
        /\ idPc'[p] = "unlink" /\ fresh'[p] = fresh[p]
    BY <1>2 DEF IdentityInv, IdTypeOK, IdGoto, IdWrite
  <2> QED BY <1>0, <1>2, <2>1, <2>2, QuietStep DEF IdWrite, History
<1> QED BY <1>1, <1>2 DEF IdWrite

LEMMA UnlinkStep ==
    ASSUME IdentityInv, NEW p \in Procs, Unlink(p) PROVE IdentityInv'
<1>1. CASE idCache' = idCache
  BY <1>1, FailStep DEF Unlink
<1>2. CASE idCache' = IdNoFile
  <2>1. idPc[p] = "unlink" /\ idPc[p] \in Creating
    BY DEF Unlink, Creating
  <2>2. ~idCache.full /\ \A q \in Procs \ {p} : idPc[q] \notin Creating
    BY <2>1 DEF IdentityInv, OneCreator
  <2>3. returned = {} /\ created = {}
    BY <2>2, IdEntryFacts DEF IdentityInv, IdTypeOK, ReturnedIsFile, CreatedIsForever
  <2>4. IdTypeOK'
    BY <1>2, IdEntryFacts DEF IdentityInv, IdTypeOK, Unlink, IdFail, Ended, IdGoto, IdPCs
  <2>5. idPc'[p] = "idle" /\ \A q \in Procs \ {p} : idPc'[q] = idPc[q] /\ fresh'[q] = fresh[q]
    BY DEF IdentityInv, IdTypeOK, Unlink, IdFail, Ended, IdGoto
  <2>6. OneCreator'
    BY <2>2, <2>5 DEF OneCreator, Creating
  <2>7. IdChosen'
    BY <2>5 DEF IdentityInv, IdChosen
  <2>8. ReturnedIsFile' /\ CreatedIsForever'
    BY <2>3 DEF ReturnedIsFile, CreatedIsForever, Unlink, IdFail
  <2> QED BY <2>4, <2>6, <2>7, <2>8 DEF IdentityInv
<1> QED BY <1>1, <1>2 DEF Unlink

LEMMA FsyncStep ==
    ASSUME IdentityInv, NEW p \in Procs, IdFsync(p) PROVE IdentityInv'
<1>1. CASE UNCHANGED idCache /\ IdFail(p)
  BY <1>1, FailStep DEF IdFsync
<1>2. CASE /\ idCache' = [idCache EXCEPT !.synced = TRUE]
           /\ IdGoto(p, "close")
           /\ UNCHANGED <<mode, second, seen, fresh, History>>
  <2>1. idPc[p] = "fsync" /\ idPc[p] \in Creating
    BY DEF IdFsync, Creating
  <2>2. idCache.full /\ idCache \in IdFile
    BY <2>1, IdEntryFacts DEF IdentityInv, OneCreator, IdTypeOK
  <2>3. idCache' \in IdFile /\ idCache'.id = idCache.id /\ idCache'.full = TRUE /\ idCache'.synced = TRUE
    BY <1>2, <2>2 DEF IdFile
  <2>4. idCache' \in IdEntry /\ idCache' # IdNoFile
    BY <2>3, IdEntryFacts
  <2>5. ASSUME NEW i \in created PROVE idCache' = idCache
    <3>1. idCache = IdWhole(i)
      BY DEF IdentityInv, CreatedIsForever
    <3>2. i \in Ids /\ idCache.id = i
      BY <3>1, IdEntryFacts DEF IdentityInv, IdTypeOK
    <3>3. idCache' = IdWhole(idCache'.id)
      BY <2>3, <2>4, IdEntryFacts
    <3> QED BY <2>3, <3>1, <3>2, <3>3
  <2> QED BY <1>2, <2>1, <2>2, <2>3, <2>4, <2>5, FileStep DEF IdFsync, IdGoto, History
<1> QED BY <1>1, <1>2 DEF IdFsync

LEMMA CloseStep ==
    ASSUME IdentityInv, NEW p \in Procs, IdClose(p) PROVE IdentityInv'
<1>1. CASE IdFail(p)
  BY <1>1, FailStep DEF IdClose, Files
<1>2. CASE IdGoto(p, "syncdir") /\ UNCHANGED <<mode, second, seen, fresh, History>>
  <2>1. IdTypeOK'
    BY <1>2 DEF IdentityInv, IdTypeOK, IdGoto, IdPCs, History, IdClose, Files
  <2>2. /\ \A q \in Procs \ {p} : idPc'[q] = idPc[q] /\ fresh'[q] = fresh[q]
        /\ idPc'[p] = "syncdir" /\ fresh'[p] = fresh[p] /\ idPc[p] = "close"
    BY <1>2 DEF IdentityInv, IdTypeOK, IdGoto, IdClose
  <2> QED BY <1>2, <2>1, <2>2, QuietStep DEF IdClose, Files, History
<1> QED BY <1>1, <1>2 DEF IdClose

LEMMA SyncDirectoryStep ==
    ASSUME IdentityInv, NEW p \in Procs, IdSyncDirectory(p) PROVE IdentityInv'
<1>1. CASE UNCHANGED idDisk /\ IdFail(p)
  BY <1>1, FailStep DEF IdSyncDirectory
<1>2. CASE /\ idDisk' = idCache
           /\ IdGoto(p, "closedir")
           /\ UNCHANGED <<mode, second, seen, fresh, History>>
  <2>1. IdTypeOK'
    BY <1>2 DEF IdentityInv, IdTypeOK, IdGoto, IdPCs, History, IdSyncDirectory
  <2>2. /\ idPc'[p] = "closedir" /\ idPc[p] = "syncdir"
        /\ \A q \in Procs \ {p} : idPc'[q] = idPc[q]
        /\ UNCHANGED <<idCache, fresh, returned, created>>
    BY <1>2 DEF IdentityInv, IdTypeOK, IdGoto, History, IdSyncDirectory
  <2>3. OneCreator'
    BY <1>2, <2>2 DEF IdentityInv, OneCreator, Creating
  <2>4. IdChosen' /\ ReturnedIsFile' /\ CreatedIsForever'
    BY <1>2, <2>2 DEF IdentityInv, IdChosen, ReturnedIsFile, CreatedIsForever
  <2> QED BY <2>1, <2>3, <2>4 DEF IdentityInv
<1> QED BY <1>1, <1>2 DEF IdSyncDirectory

LEMMA CloseDirectoryStep ==
    ASSUME IdentityInv, NEW p \in Procs, IdCloseDirectory(p) PROVE IdentityInv'
<1>1. CASE IdFail(p)
  BY <1>1, FailStep DEF IdCloseDirectory, Files
<1>2. CASE /\ Ended(p)
           /\ returned' = returned \cup {fresh[p]}
           /\ created' = created \cup {fresh[p]}
  <2>1. idPc[p] = "closedir" /\ idPc[p] \in Creating /\ UNCHANGED <<idCache, idDisk>>
    BY DEF IdCloseDirectory, Creating, Files
  <2>2. idCache.full /\ idCache.synced /\ idCache.id = fresh[p] /\ idDisk = idCache
    BY <2>1 DEF IdentityInv, OneCreator
  <2>3. idCache = IdWhole(fresh[p]) /\ fresh[p] \in Ids
    BY <2>2, IdEntryFacts DEF IdentityInv, IdTypeOK
  <2>4. IdTypeOK'
    BY <1>2, <2>1, <2>3 DEF IdentityInv, IdTypeOK, Ended, IdGoto, IdPCs
  <2>5. idPc'[p] = "idle" /\ \A q \in Procs \ {p} : idPc'[q] = idPc[q] /\ fresh'[q] = fresh[q]
    BY <1>2 DEF IdentityInv, IdTypeOK, Ended, IdGoto
  <2>6. OneCreator'
    BY <2>1, <2>5 DEF IdentityInv, OneCreator, Creating
  <2>7. IdChosen'
    BY <2>5 DEF IdentityInv, IdChosen
  <2>8. ReturnedIsFile'
    BY <1>2, <2>1, <2>2 DEF IdentityInv, ReturnedIsFile
  <2>9. CreatedIsForever'
    BY <1>2, <2>1, <2>2, <2>3 DEF IdentityInv, CreatedIsForever
  <2> QED BY <2>4, <2>6, <2>7, <2>8, <2>9 DEF IdentityInv
<1> QED BY <1>1, <1>2 DEF IdCloseDirectory

LEMMA WritebackStep == IdentityInv /\ IdWriteback => IdentityInv'
BY DEF IdentityInv, IdWriteback, procVars, History, IdTypeOK, OneCreator, IdChosen,
       ReturnedIsFile, CreatedIsForever

LEMMA CrashStep ==
    ASSUME IdentityInv, IdCrash PROVE IdentityInv'
<1>1. PICK f \in BOOLEAN :
         /\ idDisk' = [id |-> idDisk.id, full |-> f, synced |-> TRUE]
         /\ f \in IF idDisk.synced THEN {idDisk.full} ELSE {idDisk.full, FALSE}
  BY IdEntryFacts DEF IdCrash, IdentityInv, IdTypeOK
<1>2. idDisk' \in IdEntry
  <2>1. CASE idDisk \in IdFile
    BY <1>1, <2>1 DEF IdFile, IdEntry
  <2>2. CASE idDisk = IdNoFile
    BY <1>1, <2>2 DEF IdNoFile, IdEntry
  <2> QED BY <2>1, <2>2 DEF IdentityInv, IdTypeOK, IdEntry
<1>3. IdTypeOK'
  BY <1>2 DEF IdCrash, IdentityInv, IdTypeOK, IdPCs, Modes
<1>4. OneCreator' /\ IdChosen' /\ ReturnedIsFile'
  BY DEF IdCrash, OneCreator, Creating, IdChosen, ReturnedIsFile
<1>5. ASSUME NEW i \in created PROVE idDisk' = IdWhole(i)
  <2>1. idDisk = IdWhole(i)
    BY DEF IdentityInv, CreatedIsForever
  <2> QED BY <1>1, <2>1 DEF IdWhole
<1>6. CreatedIsForever'
  BY <1>5 DEF IdCrash, CreatedIsForever
<1> QED BY <1>3, <1>4, <1>6 DEF IdentityInv

LEMMA NextIdentity == IdentityInv /\ [IdNext]_idVars => IdentityInv'
<1> SUFFICES ASSUME IdentityInv, [IdNext]_idVars PROVE IdentityInv'
  OBVIOUS
<1>1. CASE UNCHANGED idVars
  BY <1>1 DEF idVars, procVars, IdentityInv, IdTypeOK, OneCreator, IdChosen,
              ReturnedIsFile, CreatedIsForever
<1>2. ASSUME NEW p \in Procs, ProcStep(p) PROVE IdentityInv'
  BY <1>2, InspectStep, ReadStep, EntropyStep, CreateStep, WriteStep, UnlinkStep,
     FsyncStep, CloseStep, SyncDirectoryStep, CloseDirectoryStep DEF ProcStep
<1> QED BY <1>1, <1>2, CallStep, WritebackStep, CrashStep DEF IdNext

(* IdentityInv holds in every reachable state. *)
THEOREM IdentityInvariant == IdSpec => []IdentityInv
BY InitIdentity, NextIdentity, PTL DEF IdSpec

(* Between two power losses every caller of cn_device_identity_load and      *)
(* cn_device_identity_load_or_create gets the same id.                       *)
THEOREM SameIdentity == IdSpec => []OneIdentity
<1>1. IdentityInv => OneIdentity
  BY DEF IdentityInv, ReturnedIsFile, OneIdentity
<1> QED BY <1>1, IdentityInvariant, PTL

(* An id returned with CREATED is never lost and never replaced.             *)
THEOREM CreatedForever == IdSpec => []CreatedIsForever
<1>1. IdentityInv => CreatedIsForever
  BY DEF IdentityInv
<1> QED BY <1>1, IdentityInvariant, PTL

(* A file that could be loaded is replaced by nothing but a power loss: the  *)
(* steps that write an entry find none, or the torn one of their process.    *)
THEOREM RotatesNever == IdSpec => NeverRotated
<1> DEFINE Kept == idCache.full /\ idCache' # idCache =>
                       (idCache'.full /\ idCache'.id = idCache.id) \/ IdCrash
<1>1. ASSUME IdentityInv, [IdNext]_idVars PROVE Kept
  <2>1. CASE UNCHANGED idCache
    BY <2>1
  <2>2. CASE IdCrash
    BY <2>2
  <2>3. ASSUME NEW p \in Procs, Create(p) PROVE Kept
    BY <2>3, IdEntryFacts DEF Create
  <2>4. ASSUME NEW p \in Procs, IdWrite(p) \/ Unlink(p) PROVE Kept
    <3>1. ~idCache.full
      BY <1>1, <2>4 DEF IdentityInv, OneCreator, Creating, IdWrite, Unlink
    <3> QED BY <3>1
  <2>5. ASSUME NEW p \in Procs, IdFsync(p) PROVE Kept
    <3>1. CASE idCache' = [idCache EXCEPT !.synced = TRUE]
      <4>1. idCache \in IdFile
        BY <1>1, <2>5, IdEntryFacts DEF IdentityInv, IdTypeOK, OneCreator, Creating, IdFsync
      <4> QED BY <3>1, <4>1 DEF IdFile
    <3> QED BY <2>5, <3>1 DEF IdFsync
  <2>6. ASSUME NEW p \in Procs,
               IdInspect(p) \/ Read(p) \/ Entropy(p) \/ IdClose(p) \/ IdSyncDirectory(p)
                 \/ IdCloseDirectory(p) \/ \E m \in Modes : Call(p, m)
        PROVE  UNCHANGED idCache
    BY <2>6
       DEF IdInspect, Read, Entropy, IdClose, IdSyncDirectory, IdCloseDirectory,
           Call, Files
  <2> QED BY <1>1, <2>1, <2>2, <2>3, <2>4, <2>5, <2>6 DEF IdNext, ProcStep, IdWriteback, idVars
<1> QED BY <1>1, IdentityInvariant, PTL DEF IdSpec, NeverRotated

=============================================================================
