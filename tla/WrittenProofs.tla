---------------------------- MODULE WrittenProofs ----------------------------
(***************************************************************************)
(* That what is written is read back, proved: answers of the server, JSON    *)
(* strings and percentages, text records, progress records, book tokens.     *)
(* The invariant of each part says where its algorithm stands; what a        *)
(* recursive function computes is proved by induction over the numbers.      *)
(***************************************************************************)
EXTENDS Formats, FiniteSetTheorems, SequenceTheorems, WellFoundedInduction, TLAPS

-----------------------------------------------------------------------------
(* Induction and recursion over numbers, for sets and functions: a property  *)
(* is the set of the numbers that have it, and a recursive definition is     *)
(* given by the function of its steps.                                      *)

LEMMA Least ==
    ASSUME NEW S \in SUBSET Nat, S # {}
    PROVE  \E n \in S : \A k \in S : n <= k
<1>1. PICK n \in S : \A k \in S : ~(<<k, n>> \in OpToRel(<, Nat))
  BY NatLessThanWellFounded, WFMin, Zenon
<1>2. ASSUME NEW k \in S PROVE n <= k
  <2>1. k \in Nat /\ n \in Nat /\ ~(k < n)
    BY <1>1, Zenon DEF OpToRel
  <2> QED
    BY <2>1
<1> QED
  BY <1>2, Zenon

LEMMA StrongInduction ==
    ASSUME NEW N \in Nat, NEW P, \A n \in 0 .. N : (\A m \in 0 .. n - 1 : m \in P) => n \in P
    PROVE  \A n \in 0 .. N : n \in P
<1> DEFINE Bad == {n \in Nat : n <= N /\ n \notin P}
<1> SUFFICES ASSUME Bad # {} PROVE FALSE
  OBVIOUS
<1>1. PICK n \in Bad : \A k \in Bad : n <= k
  BY Least
<1>2. \A m \in 0 .. n - 1 : m \in P
  BY <1>1
<1> QED
  BY <1>1, <1>2

LEMMA Induction ==
    ASSUME NEW N \in Nat, NEW P, 0 \in P, \A n \in 1 .. N : n - 1 \in P => n \in P
    PROVE  \A n \in 0 .. N : n \in P
<1>1. ASSUME NEW n \in 0 .. N, \A m \in 0 .. n - 1 : m \in P PROVE n \in P
  <2>1. CASE n = 0
    BY <2>1
  <2>2. CASE n # 0
    <3>1. n \in 1 .. N /\ n - 1 \in 0 .. n - 1
      BY <2>2
    <3> QED
      BY <1>1, <3>1
  <2> QED
    BY <2>1, <2>2
<1> QED
  BY <1>1, StrongInduction

(* From the end to the beginning.                                            *)
LEMMA Downward ==
    ASSUME NEW N \in Nat, NEW P, \A n \in 1 .. N : (\A m \in n + 1 .. N : m \in P) => n \in P
    PROVE  \A n \in 1 .. N : n \in P
<1> DEFINE Bad == {k \in Nat : k < N /\ N - k \notin P}
<1> SUFFICES ASSUME NEW n \in 1 .. N, n \notin P PROVE FALSE
  OBVIOUS
<1>0. N - n \in Bad
  <2>1. N - n \in Nat /\ N - n < N /\ N - (N - n) = n
    OBVIOUS
  <2> QED
    BY <2>1
<1>1. PICK k \in Bad : \A j \in Bad : k <= j
  BY <1>0, Least
<1>2. N - k \in 1 .. N
  BY <1>1
<1>3. ASSUME NEW m \in N - k + 1 .. N PROVE m \in P
  <2>1. N - m \in Nat /\ N - m < k /\ N - m < N /\ N - (N - m) = m
    BY <1>1, <1>2
  <2>2. N - m \notin Bad
    BY <1>1, <2>1
  <2> QED
    BY <2>1, <2>2
<1> QED
  BY <1>1, <1>2, <1>3

(* What is defined by recursion to earlier places exists.                    *)
Follows(f, N, S, a, prev, step) ==
    /\ f \in [0 .. N -> S] /\ f[0] = a
    /\ \A n \in 1 .. N : f[n] = step[n][f[prev[n]]]

LEMMA Recursion ==
    ASSUME NEW N \in Nat, NEW S, NEW a \in S, NEW prev, NEW step,
           \A n \in 1 .. N : prev[n] \in 0 .. n - 1,
           \A n \in 1 .. N : \A v \in S : step[n][v] \in S
    PROVE  \E f : Follows(f, N, S, a, prev, step)
<1> DEFINE P == {n \in Nat : \E f : Follows(f, n, S, a, prev, step)}
<1>1. 0 \in P
  <2> DEFINE z == [k \in 0 .. 0 |-> a]
  <2>1. z \in [0 .. 0 -> S] /\ z[0] = a
    OBVIOUS
  <2>2. 1 .. 0 = {}
    OBVIOUS
  <2>3. Follows(z, 0, S, a, prev, step)
    BY <2>1, <2>2 DEF Follows
  <2> QED
    BY <2>3
<1>2. ASSUME NEW n \in 1 .. N, n - 1 \in P PROVE n \in P
  <2>1. PICK f : Follows(f, n - 1, S, a, prev, step)
    BY <1>2
  <2>2. n \in Nat /\ prev[n] \in 0 .. n - 1
    OBVIOUS
  <2>3. f \in [0 .. n - 1 -> S] /\ f[prev[n]] \in S /\ step[n][f[prev[n]]] \in S
    BY <2>1, <2>2 DEF Follows
  <2> DEFINE g == [k \in 0 .. n |-> IF k = n THEN step[n][f[prev[n]]] ELSE f[k]]
  <2>4. \A k \in 0 .. n : k # n => k \in 0 .. n - 1
    OBVIOUS
  <2>5. g \in [0 .. n -> S]
    BY <2>3, <2>4
  <2>6. \A k \in 0 .. n - 1 : k \in 0 .. n /\ g[k] = f[k]
    OBVIOUS
  <2>7. g[0] = a
    <3>1. 0 \in 0 .. n - 1
      OBVIOUS
    <3> QED
      BY <2>1, <2>6, <3>1 DEF Follows
  <2>8. g[n] = step[n][f[prev[n]]]
    OBVIOUS
  <2> HIDE DEF g
  <2>9. ASSUME NEW k \in 1 .. n PROVE g[k] = step[k][g[prev[k]]]
    <3>1. CASE k = n
      BY <2>2, <2>6, <2>8, <3>1
    <3>2. CASE k # n
      <4>1. k \in 1 .. n - 1 /\ k \in 0 .. n - 1 /\ k \in 1 .. N
        BY <3>2
      <4>2. prev[k] \in 0 .. n - 1
        <5>1. prev[k] \in 0 .. k - 1
          BY <4>1
        <5> QED
          BY <4>1, <5>1
      <4>3. f[k] = step[k][f[prev[k]]]
        BY <2>1, <4>1 DEF Follows
      <4> QED
        BY <2>6, <4>1, <4>2, <4>3
    <3> QED
      BY <3>1, <3>2
  <2> QED
    BY <2>2, <2>5, <2>7, <2>9 DEF Follows
<1> HIDE DEF P
<1>3. \A n \in 0 .. N : n \in P
  BY <1>1, <1>2, Induction
<1> QED
  BY <1>3 DEF P

(* A definition that refers to the place before.                             *)
Chains(f, N, S, a, step) ==
    /\ f \in [0 .. N -> S] /\ f[0] = a
    /\ \A n \in 1 .. N : f[n] = step[n][f[n - 1]]

LEMMA Chain ==
    ASSUME NEW N \in Nat, NEW S, NEW a \in S, NEW step,
           \A n \in 1 .. N : \A v \in S : step[n][v] \in S
    PROVE  \E f : Chains(f, N, S, a, step)
<1> DEFINE prev == [n \in 1 .. N |-> n - 1]
<1>1. \A n \in 1 .. N : prev[n] \in 0 .. n - 1 /\ prev[n] = n - 1
  OBVIOUS
<1> HIDE DEF prev
<1>2. \A n \in 1 .. N : prev[n] \in 0 .. n - 1
  BY <1>1
<1>3. PICK f : Follows(f, N, S, a, prev, step)
  BY <1>2, Recursion
<1>4. f \in [0 .. N -> S] /\ f[0] = a /\ \A n \in 1 .. N : f[n] = step[n][f[n - 1]]
  BY <1>1, <1>3, Zenon DEF Follows
<1> QED
  BY <1>4, Zenon DEF Chains

LEMMA FunctionIsSeq ==
    ASSUME NEW T, NEW n \in Nat, NEW f \in [1 .. n -> T]
    PROVE  f \in Seq(T) /\ Len(f) = n
OBVIOUS

LEMMA AppendIs ==
    ASSUME NEW T, NEW s \in Seq(T), NEW t \in Seq(T), NEW x \in T, Len(s) = Len(t) + 1,
           s[Len(t) + 1] = x, \A n \in 1 .. Len(t) : t[n] = s[n]
    PROVE  s = Append(t, x)
<1>1. /\ Append(t, x) \in Seq(T) /\ Len(Append(t, x)) = Len(t) + 1
      /\ \A n \in 1 .. Len(t) : Append(t, x)[n] = t[n]
      /\ Append(t, x)[Len(t) + 1] = x
  BY AppendProperties
<1>2. \A n \in 1 .. Len(s) : n \in 1 .. Len(t) \/ n = Len(t) + 1
  OBVIOUS
<1>3. \A n \in 1 .. Len(s) : s[n] = Append(t, x)[n]
  BY <1>1, <1>2
<1> QED
  BY <1>1, <1>3, SeqEqual

LEMMA Sums ==
    ASSUME NEW N \in Nat, NEW w, \A n \in 1 .. N : w[n] \in Nat
    PROVE  \E u : /\ u \in [0 .. N -> Nat]
                  /\ u = [n \in 0 .. N |-> IF n = 0 THEN 0 ELSE u[n - 1] + w[n]]
<1> DEFINE step == [n \in 1 .. N |-> [v \in Nat |-> v + w[n]]]
<1>1. \A n \in 1 .. N : \A v \in Nat : step[n][v] = v + w[n]
  OBVIOUS
<1> HIDE DEF step
<1>2. \A n \in 1 .. N : \A v \in Nat : step[n][v] \in Nat
  <2> TAKE n \in 1 .. N
  <2> TAKE v \in Nat
  <2>1. w[n] \in Nat
    OBVIOUS
  <2> QED
    BY <1>1, <2>1
<1> DEFINE S == Nat
           z == 0
<1>3. z \in S /\ \A n \in 1 .. N : \A v \in S : step[n][v] \in S
  BY <1>2
<1>4. PICK u : /\ u \in [0 .. N -> Nat] /\ u[0] = 0
               /\ \A n \in 1 .. N : u[n] = step[n][u[n - 1]]
  <2> HIDE DEF S, z
  <2>1. \E u : Chains(u, N, S, z, step)
    BY <1>3, Chain
  <2> QED
    BY <2>1, Zenon DEF S, z, Chains
<1>5. ASSUME NEW n \in 1 .. N PROVE u[n] = u[n - 1] + w[n]
  <2>1. n - 1 \in 0 .. N
    OBVIOUS
  <2>2. u[n - 1] \in Nat
    BY <1>4, <2>1
  <2> QED
    BY <1>1, <1>4, <2>2
<1>6. \A n \in 0 .. N : n # 0 => n \in 1 .. N
  OBVIOUS
<1>7. \A n \in 0 .. N : u[n] = IF n = 0 THEN 0 ELSE u[n - 1] + w[n]
  BY <1>4, <1>5, <1>6, Zenon
<1>8. [n \in 0 .. N |-> u[n]] = [n \in 0 .. N |-> IF n = 0 THEN 0 ELSE u[n - 1] + w[n]]
  BY <1>7, Zenon
<1>9. u = [n \in 0 .. N |-> u[n]]
  BY <1>4
<1>10. u = [n \in 0 .. N |-> IF n = 0 THEN 0 ELSE u[n - 1] + w[n]]
  BY <1>8, <1>9, Zenon
<1> QED
  BY <1>4, <1>10, Zenon

LEMMA FrontIs ==
    ASSUME NEW S, NEW s \in Seq(S), s # << >>
    PROVE  /\ SubSeq(s, 1, Len(s) - 1) \in Seq(S)
           /\ Len(SubSeq(s, 1, Len(s) - 1)) = Len(s) - 1
           /\ \A n \in 1 .. Len(s) - 1 : SubSeq(s, 1, Len(s) - 1)[n] = s[n]
<1>1. Len(s) \in Nat /\ Len(s) # 0 /\ \A n \in 1 .. Len(s) - 1 : s[n] \in S
  BY EmptySeq
<1>2. Len(s) - 1 \in Int /\ 1 \in Int
  BY <1>1
<1>3. /\ SubSeq(s, 1, Len(s) - 1) \in Seq(S)
      /\ Len(SubSeq(s, 1, Len(s) - 1)) = IF 1 <= Len(s) - 1 THEN Len(s) - 1 - 1 + 1 ELSE 0
      /\ \A n \in 1 .. Len(s) - 1 - 1 + 1 : SubSeq(s, 1, Len(s) - 1)[n] = s[1 + n - 1]
  BY <1>1, <1>2, SubSeqProperties
<1>4. \A n \in 1 .. Len(s) - 1 : n \in 1 .. Len(s) - 1 - 1 + 1 /\ 1 + n - 1 = n
  BY <1>1
<1>5. Len(SubSeq(s, 1, Len(s) - 1)) = Len(s) - 1
  <2> DEFINE t == SubSeq(s, 1, Len(s) - 1)
  <2>1. /\ 1 <= Len(s) - 1 => Len(t) = Len(s) - 1 - 1 + 1
        /\ ~(1 <= Len(s) - 1) => Len(t) = 0
    BY <1>3, Zenon
  <2> HIDE DEF t
  <2>2. Len(t) = Len(s) - 1
    BY <1>1, <2>1
  <2> QED
    BY <2>2 DEF t
<1> QED
  BY <1>3, <1>4, <1>5, Zenon

LEMMA SeqSpreads ==
    ASSUME NEW S, NEW T, S \subseteq T, NEW s \in Seq(S) PROVE s \in Seq(T)
BY SeqMonotonic, Zenon

(* A part of a sequence, and two put together.                               *)
LEMMA PartIs ==
    ASSUME NEW S, NEW s \in Seq(S), NEW m \in Nat \ {0}, NEW n \in 0 .. Len(s)
    PROVE  /\ SubSeq(s, m, n) \in Seq(S)
           /\ Len(SubSeq(s, m, n)) = IF m <= n THEN n - m + 1 ELSE 0
           /\ \A k \in 1 .. n - m + 1 : SubSeq(s, m, n)[k] = s[m + k - 1]
<1>1. \A k \in m .. n : s[k] \in S
  OBVIOUS
<1>2. m \in Int /\ n \in Int
  OBVIOUS
<1> QED
  BY <1>1, <1>2, SubSeqProperties

(* One sequence after another; an element after a sequence.                  *)
Joined(u, s, t, S) ==
    /\ u \in Seq(S) /\ Len(u) = Len(s) + Len(t) /\ Len(s) \in Nat /\ Len(t) \in Nat
    /\ \A n \in 1 .. Len(s) : u[n] = s[n]
    /\ \A n \in 1 .. Len(t) : u[Len(s) + n] = t[n]

Longer(u, s, x, S) ==
    /\ u \in Seq(S) /\ Len(u) = Len(s) + 1 /\ u[Len(s) + 1] = x /\ Len(s) \in Nat
    /\ \A n \in 1 .. Len(s) : u[n] = s[n]

LEMMA ConcatIs ==
    ASSUME NEW S, NEW s \in Seq(S), NEW t \in Seq(S)
    PROVE  Joined(s \o t, s, t, S)
<1> DEFINE u == s \o t
           m == Len(s)
<1> HIDE DEF u
<1>0. u = s \o t
  BY DEF u
<1>1. /\ u \in Seq(S) /\ Len(u) = Len(s) + Len(t)
      /\ \A n \in 1 .. Len(s) + Len(t) : u[n] = IF n <= Len(s) THEN s[n] ELSE t[n - Len(s)]
  BY <1>0, ConcatProperties, Zenon
<1>2. Len(s) \in Nat /\ Len(t) \in Nat
  OBVIOUS
<1>3. ASSUME NEW n \in 1 .. m PROVE u[n] = s[n]
  <2>1. n \in 1 .. Len(s) + Len(t) /\ n <= Len(s)
    BY <1>2
  <2> QED
    BY <1>1, <2>1
<1>4. ASSUME NEW n \in 1 .. Len(t) PROVE u[m + n] = t[n]
  <2>1. m + n \in 1 .. Len(s) + Len(t) /\ ~(m + n <= Len(s)) /\ (m + n) - Len(s) = n
    BY <1>2
  <2> QED
    BY <1>1, <2>1
<1> QED
  BY <1>1, <1>2, <1>3, <1>4, Zenon DEF Joined, u

LEMMA AppendHas ==
    ASSUME NEW S, NEW s \in Seq(S), NEW x \in S
    PROVE  Longer(Append(s, x), s, x, S)
BY AppendProperties, LenProperties DEF Longer

-----------------------------------------------------------------------------
(* The answers of the server.                                               *)

AnswerKeys == Answer!Known \cup {"unknown"}
AnswerDocuments == Documents \cup {Answer!Malformed, Answer!NoDocument}
AnswerPointers == Blocks \cup {Answer!Null}

(* The members that were read are well-formed and each of another kind;     *)
(* fields says which they are, and the document and the position are those  *)
(* that were named.                                                         *)
AnswerMembers ==
    /\ \A n \in DOMAIN members : members[n].good
    /\ \A n, m \in DOMAIN members :
          n # m /\ members[n].key = members[m].key => members[n].key = "unknown"
    /\ \A n \in DOMAIN members :
          /\ members[n].key \in fields \cup {"unknown"}
          /\ members[n].key = "document" => members[n].document = document
    /\ \A k \in fields : (k = "progress" /\ answerPc = "position")
                         \/ \E n \in DOMAIN members : members[n].key = k
    /\ "document" \notin fields => document = Answer!NoDocument

(* The position has a buffer when it was read, or while it is.              *)
AnswerBuffers ==
    /\ answerPc = "position" => answerPosition # Answer!Null /\ parsed = Answer!Null
                                /\ "progress" \in fields
                                /\ \A n \in DOMAIN members : members[n].key # "progress"
    /\ answerPc # "position" => answerPosition = Answer!Null
    /\ answerPc \in {"key", "after", "whole"} =>
          ("progress" \in fields <=> parsed # Answer!Null)
    /\ answerPc \in {"idle", "open"} => parsed = Answer!Null

AnswerRuns ==
    /\ op \in {"get", "put"} /\ answerResult = "none"
    /\ answerPc = "open" => members = <<>> /\ fields = {} /\ document = Answer!NoDocument
    /\ answerPc = "position" => Len(members) < MaxMembers
    /\ AnswerMembers

AnswerInv ==
    /\ Answer!TypeOK /\ Answer!OneOwner
    /\ members \in Seq([key : AnswerKeys, good : BOOLEAN, document : AnswerDocuments])
    /\ caller \in [document : Documents \cup {Answer!NoDocument}, position : AnswerPointers]
    /\ caller.document # Answer!NoDocument => caller.position # Answer!Null
    /\ AnswerBuffers
    /\ answerPc # "idle" => AnswerRuns
    /\ Answer!OkIsTheAnswer /\ Answer!NotFoundSaysNothing

LEMMA AnswerConstants ==
    /\ Asked \in Documents /\ Answer!Null \notin Blocks
    /\ Answer!Malformed \notin Documents /\ Answer!NoDocument \notin Documents
    /\ MaxMembers \in Nat /\ MaxCalls \in Nat /\ Answer!Malformed # Answer!NoDocument
BY AnswerAssumption
   DEF Answer!AskedAssumption, Answer!BoundsAssumption, Answer!NamesAssumption,
       Answer!Malformed, Answer!NoDocument

LEMMA AnswerPointersAre ==
    /\ DOMAIN Answer!Pointers = 1 .. 3
    /\ Answer!Pointers[1] = answerPosition /\ Answer!Pointers[2] = parsed
    /\ Answer!Pointers[3] = caller.position
BY DEF Answer!Pointers

(* What a buffer's owners are, without the indices.                          *)
LEMMA AnswerOwners ==
    Answer!OneOwner <=>
        /\ heap = {answerPosition, parsed, caller.position} \ {Answer!Null}
        /\ answerPosition # Answer!Null => answerPosition # parsed /\ answerPosition # caller.position
        /\ parsed # Answer!Null => parsed # caller.position
        /\ ~freed_twice
<1>1. {Answer!Pointers[n] : n \in 1 .. 3} = {answerPosition, parsed, caller.position}
  BY AnswerPointersAre
<1>2. (\A n, m \in 1 .. 3 : n # m /\ Answer!Pointers[n] = Answer!Pointers[m]
                           => Answer!Pointers[n] = Answer!Null)
      <=> /\ answerPosition # Answer!Null => answerPosition # parsed /\ answerPosition # caller.position
          /\ parsed # Answer!Null => parsed # caller.position
  BY AnswerPointersAre
<1> QED
  BY <1>1, <1>2 DEF Answer!OneOwner

LEMMA AnswerTyped ==
    Answer!TypeOK <=>
        /\ answerPc = "position" => answerPosition \in heap
        /\ op \in {"none", "get", "put"}
        /\ answerPc \in {"idle", "open", "key", "position", "after", "whole"}
        /\ fields \subseteq Answer!Known
        /\ document \in AnswerDocuments
        /\ device \in BOOLEAN
        /\ caller.document \in Documents \cup {Answer!NoDocument}
        /\ {answerPosition, parsed, caller.position} \subseteq AnswerPointers
        /\ heap \subseteq Blocks
        /\ freed_twice \in BOOLEAN
        /\ Len(members) <= MaxMembers
        /\ calls \in 0 .. MaxCalls
<1>1. (\A n \in 1 .. 3 : Answer!Pointers[n] \in Blocks \cup {Answer!Null})
      <=> {answerPosition, parsed, caller.position} \subseteq AnswerPointers
  BY AnswerPointersAre DEF AnswerPointers
<1> QED
  BY <1>1, Zenon DEF Answer!TypeOK, AnswerDocuments

LEMMA AnswerInitially == Answer!Init => AnswerInv
<1> SUFFICES ASSUME Answer!Init PROVE AnswerInv
  OBVIOUS
<1> USE DEF Answer!Init, Answer!Nobody
<1>1. Answer!TypeOK
  <2>1. /\ answerPc # "position" /\ op = "none" /\ answerPc = "idle" /\ fields = {}
        /\ document \in AnswerDocuments /\ device \in BOOLEAN
        /\ caller.document = Answer!NoDocument
        /\ {answerPosition, parsed, caller.position} \subseteq AnswerPointers
        /\ heap = {} /\ freed_twice \in BOOLEAN
    BY DEF AnswerPointers, AnswerDocuments
  <2>2. Len(members) = 0 /\ calls = 0
    OBVIOUS
  <2>3. Len(members) <= MaxMembers /\ calls \in 0 .. MaxCalls
    BY <2>2, AnswerConstants
  <2> QED
    BY <2>1, <2>3, AnswerTyped
<1>2. Answer!OneOwner
  BY AnswerOwners
<1>3. /\ members \in Seq([key : AnswerKeys, good : BOOLEAN, document : AnswerDocuments])
      /\ caller \in [document : Documents \cup {Answer!NoDocument}, position : AnswerPointers]
      /\ caller.document = Answer!NoDocument
  BY DEF AnswerPointers
<1>4. AnswerBuffers /\ answerPc = "idle"
  BY DEF AnswerBuffers
<1>5. Answer!OkIsTheAnswer /\ Answer!NotFoundSaysNothing
  BY DEF Answer!OkIsTheAnswer, Answer!NotFoundSaysNothing
<1> QED
  BY <1>1, <1>2, <1>3, <1>4, <1>5 DEF AnswerInv

LEMMA AnswerOwnersNext ==
    Answer!OneOwner' <=>
        /\ heap' = {answerPosition', parsed', caller'.position} \ {Answer!Null}
        /\ answerPosition' # Answer!Null =>
              answerPosition' # parsed' /\ answerPosition' # caller'.position
        /\ parsed' # Answer!Null => parsed' # caller'.position
        /\ ~freed_twice'
<1>1. {Answer!Pointers'[n] : n \in 1 .. 3} = {answerPosition', parsed', caller'.position}
  BY DEF Answer!Pointers
<1>2. (\A n, m \in 1 .. 3 : n # m /\ Answer!Pointers'[n] = Answer!Pointers'[m]
                           => Answer!Pointers'[n] = Answer!Null)
      <=> /\ answerPosition' # Answer!Null =>
                answerPosition' # parsed' /\ answerPosition' # caller'.position
          /\ parsed' # Answer!Null => parsed' # caller'.position
  BY DEF Answer!Pointers
<1> QED
  BY <1>1, <1>2 DEF Answer!OneOwner

LEMMA AnswerTypedNext ==
    Answer!TypeOK' <=>
        /\ answerPc' = "position" => answerPosition' \in heap'
        /\ op' \in {"none", "get", "put"}
        /\ answerPc' \in {"idle", "open", "key", "position", "after", "whole"}
        /\ fields' \subseteq Answer!Known
        /\ document' \in AnswerDocuments
        /\ device' \in BOOLEAN
        /\ caller'.document \in Documents \cup {Answer!NoDocument}
        /\ {answerPosition', parsed', caller'.position} \subseteq AnswerPointers
        /\ heap' \subseteq Blocks
        /\ freed_twice' \in BOOLEAN
        /\ Len(members') <= MaxMembers
        /\ calls' \in 0 .. MaxCalls
<1>1. (\A n \in 1 .. 3 : Answer!Pointers'[n] \in Blocks \cup {Answer!Null})
      <=> {answerPosition', parsed', caller'.position} \subseteq AnswerPointers
  BY DEF Answer!Pointers, AnswerPointers
<1> QED
  BY <1>1, Zenon DEF Answer!TypeOK, AnswerDocuments

LEMMA AnswerAppended ==
    ASSUME NEW S, NEW s \in Seq(S), NEW x \in S
    PROVE  /\ Append(s, x) \in Seq(S) /\ Len(Append(s, x)) = Len(s) + 1
           /\ \A n \in DOMAIN Append(s, x) :
                 \/ n \in DOMAIN s /\ Append(s, x)[n] = s[n]
                 \/ n = Len(s) + 1 /\ Append(s, x)[n] = x
           /\ \A n \in DOMAIN s : n \in DOMAIN Append(s, x) /\ Append(s, x)[n] = s[n]
           /\ Len(s) + 1 \in DOMAIN Append(s, x) /\ Append(s, x)[Len(s) + 1] = x
           /\ Len(s) + 1 \notin DOMAIN s
<1> DEFINE t == Append(s, x)
<1>1. t \in Seq(S) /\ Len(t) = Len(s) + 1 /\ \A n \in 1 .. Len(s) : t[n] = s[n]
  OBVIOUS
<1>2. t[Len(s) + 1] = x
  OBVIOUS
<1>3. Len(s) \in Nat /\ DOMAIN s = 1 .. Len(s) /\ DOMAIN t = 1 .. Len(s) + 1
  BY <1>1
<1> HIDE DEF t
<1>4. \A n \in DOMAIN t : n \in DOMAIN s \/ n = Len(s) + 1
  BY <1>3
<1>5. \A n \in DOMAIN s : n \in DOMAIN t
  BY <1>3
<1>6. Len(s) + 1 \in DOMAIN t /\ Len(s) + 1 \notin DOMAIN s
  BY <1>3
<1> QED
  BY <1>1, <1>2, <1>3, <1>4, <1>5, <1>6 DEF t

(* A body begins to be parsed, and its first characters are read.            *)
LEMMA AnswerBeginStep ==
    ASSUME AnswerInv, Answer!Begin("get") \/ Answer!Begin("put")
    PROVE  AnswerInv'
<1>1. PICK o \in {"get", "put"} : Answer!Begin(o)
  OBVIOUS
<1>2. answerPc = "idle" /\ answerPosition = Answer!Null /\ parsed = Answer!Null
  BY <1>1 DEF AnswerInv, AnswerBuffers, Answer!Begin
<1>3. /\ op' = o /\ answerPc' = "open" /\ fields' = {} /\ document' = Answer!NoDocument
      /\ device' = FALSE /\ parsed' = Answer!Null /\ answerPosition' = Answer!Null
      /\ members' = << >> /\ answerResult' = "none" /\ calls < MaxCalls /\ calls' = calls + 1
      /\ UNCHANGED <<caller, heap, freed_twice>>
  BY <1>1, Zenon DEF Answer!Begin, Answer!ParsedEmpty, Answer!Kept, Answer!memory
<1>4. Answer!OneOwner'
  BY <1>2, <1>3, AnswerOwners, AnswerOwnersNext, Zenon DEF AnswerInv
<1>5. Answer!TypeOK'
  <2>1. Len(members') = 0
    BY <1>3
  <2>2. Len(members') <= MaxMembers /\ calls' \in 0 .. MaxCalls
    BY <1>3, <2>1, AnswerConstants, AnswerTyped DEF AnswerInv
  <2> QED
    BY <1>3, <2>2, AnswerTyped, AnswerTypedNext
       DEF AnswerInv, AnswerPointers, AnswerDocuments
<1>6. members' \in Seq([key : AnswerKeys, good : BOOLEAN, document : AnswerDocuments])
  BY <1>3
<1>7. AnswerBuffers'
  BY <1>3, Zenon DEF AnswerBuffers
<1>8. AnswerRuns'
  <2>1. DOMAIN members' = {}
    BY <1>3
  <2> QED
    BY <1>3, <2>1 DEF AnswerRuns, AnswerMembers
<1>9. Answer!OkIsTheAnswer' /\ Answer!NotFoundSaysNothing'
  BY <1>3 DEF Answer!OkIsTheAnswer, Answer!NotFoundSaysNothing
<1> QED
  BY <1>3, <1>4, <1>5, <1>6, <1>7, <1>8, <1>9 DEF AnswerInv

(* The parser ends with a failure: bad_json and the like.  Nothing is left   *)
(* but what the caller had.                                                 *)
LEMMA AnswerFailed ==
    ASSUME AnswerInv, answerPc' = "idle", op' = op, calls' = calls, caller' = caller,
           answerPosition' = Answer!Null, parsed' = Answer!Null, freed_twice' = FALSE,
           heap' = {caller.position} \ {Answer!Null},
           fields' \subseteq Answer!Known, document' \in AnswerDocuments, device' \in BOOLEAN,
           answerResult' \in {"BAD_JSON", "NO_MEMORY", "BAD_PROTOCOL"},
           members' \in Seq([key : AnswerKeys, good : BOOLEAN, document : AnswerDocuments]),
           Len(members') <= MaxMembers
    PROVE  AnswerInv'
<1>1. Answer!OneOwner'
  BY AnswerOwnersNext
<1>2. Answer!TypeOK'
  <2>1. /\ op \in {"none", "get", "put"} /\ calls \in 0 .. MaxCalls
        /\ caller.document \in Documents \cup {Answer!NoDocument}
        /\ caller.position \in AnswerPointers
    BY AnswerTyped, Zenon DEF AnswerInv
  <2>2. heap' \subseteq Blocks /\ freed_twice' \in BOOLEAN
    BY <2>1 DEF AnswerPointers
  <2> QED
    BY <2>1, <2>2, AnswerTypedNext DEF AnswerPointers
<1>3. AnswerBuffers'
  BY DEF AnswerBuffers
<1>4. Answer!OkIsTheAnswer' /\ Answer!NotFoundSaysNothing'
  BY DEF Answer!OkIsTheAnswer, Answer!NotFoundSaysNothing
<1> QED
  BY <1>1, <1>2, <1>3, <1>4 DEF AnswerInv

(* Whatever is freed on the way out had an owner.                            *)
LEMMA AnswerFreed ==
    ASSUME AnswerInv, NEW gone \in SUBSET {answerPosition, parsed, caller.position},
           Answer!Free(gone)
    PROVE  /\ heap' = heap \ gone /\ freed_twice' = FALSE
           /\ heap = {answerPosition, parsed, caller.position} \ {Answer!Null}
           /\ answerPosition # Answer!Null =>
                 answerPosition # parsed /\ answerPosition # caller.position
           /\ parsed # Answer!Null => parsed # caller.position
<1>1. /\ heap = {answerPosition, parsed, caller.position} \ {Answer!Null} /\ ~freed_twice
      /\ answerPosition # Answer!Null =>
            answerPosition # parsed /\ answerPosition # caller.position
      /\ parsed # Answer!Null => parsed # caller.position
  BY AnswerOwners, Zenon DEF AnswerInv
<1>2. gone \ {Answer!Null} \subseteq heap /\ heap \ (gone \ {Answer!Null}) = heap \ gone
  BY <1>1
<1>3. heap' = heap \ (gone \ {Answer!Null})
      /\ freed_twice' = (freed_twice \/ ~(gone \ {Answer!Null} \subseteq heap))
  BY DEF Answer!Free
<1> QED
  BY <1>1, <1>2, <1>3, Zenon

LEMMA AnswerBadJson ==
    ASSUME AnswerInv, Answer!BadJson, calls' = calls,
           members' \in Seq([key : AnswerKeys, good : BOOLEAN, document : AnswerDocuments]),
           Len(members') <= MaxMembers
    PROVE  AnswerInv'
<1>1. /\ answerPc' = "idle" /\ op' = op /\ answerResult' = "BAD_JSON" /\ caller' = caller
      /\ Answer!Free({answerPosition, parsed}) /\ answerPosition' = Answer!Null
      /\ parsed' = Answer!Null /\ fields' = {} /\ document' = Answer!NoDocument
      /\ device' = FALSE
  BY Zenon DEF Answer!BadJson, Answer!Return, Answer!ParsedEmpty
<1>2. {answerPosition, parsed} \in SUBSET {answerPosition, parsed, caller.position}
  OBVIOUS
<1>3. heap' = {caller.position} \ {Answer!Null} /\ freed_twice' = FALSE
  BY <1>1, <1>2, AnswerFreed
<1> QED
  BY <1>1, <1>3, AnswerFailed DEF AnswerDocuments

AnswerSteady == UNCHANGED <<caller, heap, freed_twice>>

(* A step inside the object, with what it keeps.                             *)
LEMMA AnswerOnward ==
    ASSUME AnswerInv, answerPc # "idle", answerPc' \in {"key", "after", "whole"},
           op' = op, answerResult' = answerResult, calls' = calls, AnswerSteady,
           fields' \subseteq Answer!Known, document' \in AnswerDocuments, device' \in BOOLEAN,
           {answerPosition', parsed'} \subseteq AnswerPointers,
           Answer!OneOwner', AnswerBuffers', AnswerMembers',
           members' \in Seq([key : AnswerKeys, good : BOOLEAN, document : AnswerDocuments]),
           Len(members') <= MaxMembers
    PROVE  AnswerInv'
<1>1. Answer!TypeOK'
  <2>1. /\ op \in {"none", "get", "put"} /\ calls \in 0 .. MaxCalls
        /\ caller.document \in Documents \cup {Answer!NoDocument}
        /\ caller.position \in AnswerPointers /\ heap \subseteq Blocks
        /\ freed_twice \in BOOLEAN
    BY AnswerTyped, Zenon DEF AnswerInv
  <2> QED
    BY <2>1, AnswerTypedNext DEF AnswerSteady
<1>2. op \in {"get", "put"} /\ answerResult = "none"
  BY DEF AnswerInv, AnswerRuns
<1>3. AnswerRuns'
  BY <1>2, Zenon DEF AnswerRuns
<1>4. Answer!OkIsTheAnswer' /\ Answer!NotFoundSaysNothing'
  BY <1>2 DEF Answer!OkIsTheAnswer, Answer!NotFoundSaysNothing
<1> QED
  BY <1>1, <1>3, <1>4 DEF AnswerInv, AnswerSteady

LEMMA AnswerOpeningStep == ASSUME AnswerInv, Answer!Opening PROVE AnswerInv'
<1>1. /\ answerPc = "open" /\ members' = members /\ calls' = calls
      /\ UNCHANGED <<fields, document, device, parsed, answerPosition>>
      /\ UNCHANGED <<caller, heap, freed_twice>>
  BY DEF Answer!Opening, Answer!parser, Answer!Kept, Answer!memory
<1>2. /\ answerPosition = Answer!Null /\ parsed = Answer!Null /\ members = <<>> /\ fields = {}
      /\ document = Answer!NoDocument
      /\ members \in Seq([key : AnswerKeys, good : BOOLEAN, document : AnswerDocuments])
  BY <1>1 DEF AnswerInv, AnswerBuffers, AnswerRuns
<1>3. /\ heap = {caller.position} \ {Answer!Null} /\ freed_twice \in BOOLEAN /\ ~freed_twice
      /\ document \in AnswerDocuments /\ device \in BOOLEAN /\ Len(members) <= MaxMembers
  BY <1>2, AnswerOwners, AnswerTyped DEF AnswerInv
<1>4. CASE Answer!Return("BAD_JSON")
  <2>1. answerPc' = "idle" /\ op' = op /\ answerResult' = "BAD_JSON"
    BY <1>4 DEF Answer!Return
  <2> QED
    BY <1>1, <1>2, <1>3, <2>1, AnswerFailed
<1>5. CASE answerPc' \in {"key", "whole"} /\ UNCHANGED <<op, answerResult>>
  <2>1. Answer!OneOwner'
    BY <1>1, AnswerOwners, AnswerOwnersNext, Zenon DEF AnswerInv
  <2>2. AnswerBuffers'
    BY <1>1, <1>2, <1>5 DEF AnswerBuffers
  <2>3. AnswerMembers'
    BY <1>1, <1>2 DEF AnswerMembers
  <2> QED
    BY <1>1, <1>2, <1>3, <1>5, <2>1, <2>2, <2>3, AnswerOnward DEF AnswerSteady, AnswerPointers
<1> QED
  BY <1>4, <1>5 DEF Answer!Opening

(* A member is noted: it is one of those there can be, and there is room.    *)
LEMMA AnswerSaid ==
    ASSUME AnswerInv, Len(members) < MaxMembers, NEW k \in AnswerKeys, NEW good \in BOOLEAN,
           NEW d \in AnswerDocuments, Answer!Said(k, good, d)
    PROVE  /\ members' \in Seq([key : AnswerKeys, good : BOOLEAN, document : AnswerDocuments])
           /\ Len(members') <= MaxMembers
           /\ \A n \in DOMAIN members' :
                 \/ n \in DOMAIN members /\ members'[n] = members[n]
                 \/ /\ n = Len(members) + 1 /\ members'[n].key = k /\ members'[n].good = good
                    /\ members'[n].document = d
           /\ \A n \in DOMAIN members : n \in DOMAIN members' /\ members'[n] = members[n]
           /\ Len(members) + 1 \in DOMAIN members' /\ members'[Len(members) + 1].key = k
           /\ Len(members) + 1 \notin DOMAIN members
<1> DEFINE S == [key : AnswerKeys, good : BOOLEAN, document : AnswerDocuments]
           m == [key |-> k, good |-> good, document |-> d]
<1>1. m \in S /\ members \in Seq(S) /\ Len(members) \in Nat
  BY DEF AnswerInv
<1>2. members' = Append(members, m)
  BY DEF Answer!Said
<1>3. m.key = k /\ m.good = good /\ m.document = d
  OBVIOUS
<1> HIDE DEF S, m
<1>4. Len(members') = Len(members) + 1
  BY <1>1, <1>2, AnswerAppended
<1>5. Len(members') <= MaxMembers
  BY <1>1, <1>4, AnswerConstants
<1>6. /\ members' \in Seq(S)
      /\ \A n \in DOMAIN members' :
            \/ n \in DOMAIN members /\ members'[n] = members[n]
            \/ n = Len(members) + 1 /\ members'[n] = m
      /\ \A n \in DOMAIN members : n \in DOMAIN members' /\ members'[n] = members[n]
      /\ Len(members) + 1 \in DOMAIN members' /\ members'[Len(members) + 1] = m
      /\ Len(members) + 1 \notin DOMAIN members
  <2>1. /\ Append(members, m) \in Seq(S)
        /\ \A n \in DOMAIN Append(members, m) :
              \/ n \in DOMAIN members /\ Append(members, m)[n] = members[n]
              \/ n = Len(members) + 1 /\ Append(members, m)[n] = m
        /\ \A n \in DOMAIN members :
              n \in DOMAIN Append(members, m) /\ Append(members, m)[n] = members[n]
        /\ Len(members) + 1 \in DOMAIN Append(members, m)
        /\ Append(members, m)[Len(members) + 1] = m
        /\ Len(members) + 1 \notin DOMAIN members
    BY <1>1, AnswerAppended
  <2> QED
    BY <1>2, <2>1
<1> QED
  BY <1>3, <1>5, <1>6, Zenon DEF S

LEMMA AnswerRefuseStep ==
    ASSUME AnswerInv, Answer!KeyFails \/ Answer!ValueFails
    PROVE  AnswerInv'
<1>1. CASE Answer!KeyFails
  <2>1. Answer!BadJson /\ members' = members /\ calls' = calls
    BY <1>1 DEF Answer!KeyFails
  <2>2. members \in Seq([key : AnswerKeys, good : BOOLEAN, document : AnswerDocuments])
        /\ Len(members) <= MaxMembers
    BY AnswerTyped DEF AnswerInv
  <2> QED
    BY <2>1, <2>2, AnswerBadJson
<1>2. CASE Answer!ValueFails
  <2>1. /\ Answer!BadJson /\ calls' = calls /\ Len(members) < MaxMembers
        /\ \E k \in Answer!Known \cup {"unknown"} : Answer!Said(k, FALSE, Answer!NoDocument)
    BY <1>2, Zenon DEF Answer!ValueFails
  <2>2. PICK k \in AnswerKeys : Answer!Said(k, FALSE, Answer!NoDocument)
    BY <2>1 DEF AnswerKeys
  <2>3. Answer!NoDocument \in AnswerDocuments
    BY DEF AnswerDocuments
  <2>4. members' \in Seq([key : AnswerKeys, good : BOOLEAN, document : AnswerDocuments])
        /\ Len(members') <= MaxMembers
    BY <2>1, <2>2, <2>3, AnswerSaid, Zenon
  <2> QED
    BY <2>1, <2>4, AnswerBadJson
<1> QED
  BY <1>1, <1>2

LEMMA AnswerAt ==
    ASSUME AnswerInv, answerPc \in {"key", "position", "after", "whole"}
    PROVE  /\ op \in {"get", "put"} /\ answerResult = "none" /\ AnswerMembers /\ AnswerBuffers
           /\ members \in Seq([key : AnswerKeys, good : BOOLEAN, document : AnswerDocuments])
           /\ Len(members) <= MaxMembers /\ fields \subseteq Answer!Known
           /\ document \in AnswerDocuments /\ device \in BOOLEAN
           /\ {answerPosition, parsed, caller.position} \subseteq AnswerPointers
           /\ heap \subseteq Blocks /\ freed_twice = FALSE
           /\ heap = {answerPosition, parsed, caller.position} \ {Answer!Null}
           /\ answerPosition # Answer!Null =>
                 answerPosition # parsed /\ answerPosition # caller.position
           /\ parsed # Answer!Null => parsed # caller.position
           /\ \A n \in DOMAIN members : members[n].key \in AnswerKeys
<1>1. /\ op \in {"get", "put"} /\ answerResult = "none" /\ AnswerMembers /\ AnswerBuffers
      /\ members \in Seq([key : AnswerKeys, good : BOOLEAN, document : AnswerDocuments])
  BY Zenon DEF AnswerInv, AnswerRuns
<1>2. /\ Len(members) <= MaxMembers /\ fields \subseteq Answer!Known
      /\ document \in AnswerDocuments /\ device \in BOOLEAN
      /\ {answerPosition, parsed, caller.position} \subseteq AnswerPointers
      /\ heap \subseteq Blocks /\ freed_twice \in BOOLEAN
  BY AnswerTyped, Zenon DEF AnswerInv
<1>3. /\ heap = {answerPosition, parsed, caller.position} \ {Answer!Null}
      /\ answerPosition # Answer!Null =>
            answerPosition # parsed /\ answerPosition # caller.position
      /\ parsed # Answer!Null => parsed # caller.position
      /\ ~freed_twice
  BY AnswerOwners, Zenon DEF AnswerInv
<1>4. freed_twice = FALSE
  BY <1>2, <1>3
<1>5. \A n \in DOMAIN members : members[n].key \in AnswerKeys
  <2> DEFINE S == [key : AnswerKeys, good : BOOLEAN, document : AnswerDocuments]
  <2>1. \A m \in S : m.key \in AnswerKeys
    OBVIOUS
  <2>2. members \in Seq(S)
    BY <1>1
  <2> HIDE DEF S
  <2>3. \A n \in DOMAIN members : members[n] \in S
    BY <2>2
  <2> QED
    BY <2>1, <2>3
<1> QED
  BY <1>1, <1>2, <1>3, <1>4, <1>5, Zenon

LEMMA AnswerValueStep == ASSUME AnswerInv, Answer!Value PROVE AnswerInv'
<1>1. /\ answerPc = "key" /\ Len(members) < MaxMembers /\ answerPc' = "after"
      /\ UNCHANGED <<op, parsed, answerPosition, answerResult, calls>>
      /\ UNCHANGED <<caller, heap, freed_twice>>
  BY Zenon DEF Answer!Value, Answer!Kept, Answer!memory
<1>2. PICK k \in (Answer!Known \ {"progress"}) \cup {"unknown"} :
         /\ ~Answer!Duplicate(k) /\ fields' = fields \cup ({k} \cap Answer!Known)
         /\ \E d \in IF k = "document" THEN Documents \cup {Answer!Malformed}
                                       ELSE {Answer!NoDocument} :
               Answer!Said(k, TRUE, d) /\ document' = IF k = "document" THEN d ELSE document
         /\ device' \in IF k = "device" THEN BOOLEAN ELSE {device}
  BY Zenon DEF Answer!Value
<1>3. PICK d \in AnswerDocuments :
         /\ Answer!Said(k, TRUE, d) /\ document' = IF k = "document" THEN d ELSE document
  BY <1>2 DEF AnswerDocuments
<1>4. k \in AnswerKeys /\ k # "progress" /\ k \notin fields /\ (k \in Answer!Known \/ k = "unknown")
  BY <1>2 DEF AnswerKeys, Answer!Duplicate
<1> DEFINE N == Len(members) + 1
<1>5. /\ members' \in Seq([key : AnswerKeys, good : BOOLEAN, document : AnswerDocuments])
      /\ Len(members') <= MaxMembers
      /\ \A n \in DOMAIN members' :
            \/ n \in DOMAIN members /\ members'[n] = members[n]
            \/ /\ n = N /\ members'[n].key = k /\ members'[n].good = TRUE
               /\ members'[n].document = d
      /\ \A n \in DOMAIN members : n \in DOMAIN members' /\ members'[n] = members[n]
      /\ N \in DOMAIN members' /\ members'[N].key = k /\ N \notin DOMAIN members
  BY <1>1, <1>3, <1>4, AnswerSaid, Zenon
<1> HIDE DEF N
<1>6. /\ op \in {"get", "put"} /\ answerResult = "none" /\ AnswerMembers /\ AnswerBuffers
      /\ fields \subseteq Answer!Known /\ document \in AnswerDocuments /\ device \in BOOLEAN
      /\ {answerPosition, parsed, caller.position} \subseteq AnswerPointers
  BY <1>1, AnswerAt
<1>7. device' \in BOOLEAN /\ fields' \subseteq Answer!Known /\ document' \in AnswerDocuments
  BY <1>2, <1>3, <1>6
<1>8. "progress" \in fields' <=> "progress" \in fields
  BY <1>2, <1>4
<1>9. AnswerBuffers'
  BY <1>1, <1>6, <1>8 DEF AnswerBuffers
<1>10. AnswerMembers'
  <2>1. \A n \in DOMAIN members' : members'[n].good
    BY <1>5, <1>6 DEF AnswerMembers
  <2>2. \A n \in DOMAIN members : members[n].key # k \/ members[n].key = "unknown"
    BY <1>4, <1>6 DEF AnswerMembers
  <2>3. ASSUME NEW n \in DOMAIN members', NEW m \in DOMAIN members', n # m,
               members'[n].key = members'[m].key
        PROVE  members'[n].key = "unknown"
    <3>1. CASE n \in DOMAIN members /\ m \in DOMAIN members
      <4>1. members'[n] = members[n] /\ members'[m] = members[m]
        BY <1>5, <3>1
      <4> QED
        BY <1>6, <2>3, <3>1, <4>1 DEF AnswerMembers
    <3>2. CASE n \in DOMAIN members /\ m = N
      <4>1. members'[n] = members[n] /\ members'[m].key = k
        BY <1>5, <3>2
      <4> QED
        BY <2>2, <2>3, <3>2, <4>1
    <3>3. CASE n = N /\ m \in DOMAIN members
      <4>1. members'[m] = members[m] /\ members'[n].key = k
        BY <1>5, <3>3
      <4> QED
        BY <2>2, <2>3, <3>3, <4>1
    <3> QED
      BY <1>5, <2>3, <3>1, <3>2, <3>3
  <2>4. ASSUME NEW n \in DOMAIN members'
        PROVE  /\ members'[n].key \in fields' \cup {"unknown"}
               /\ members'[n].key = "document" => members'[n].document = document'
    <3>1. CASE n \in DOMAIN members /\ members'[n] = members[n]
      <4>1. /\ members[n].key \in fields \cup {"unknown"}
            /\ members[n].key = "document" => members[n].document = document
        BY <1>6, <3>1 DEF AnswerMembers
      <4>2. members[n].key = "document" => "document" \in fields
        BY <4>1
      <4>3. members[n].key = "document" => document' = document
        BY <1>3, <1>4, <4>2
      <4> QED
        BY <1>2, <3>1, <4>1, <4>3
    <3>2. CASE n = N /\ members'[n].key = k /\ members'[n].document = d
      BY <1>2, <1>3, <1>4, <3>2
    <3> QED
      BY <1>5, <3>1, <3>2
  <2>5. ASSUME NEW f \in fields' PROVE \E n \in DOMAIN members' : members'[n].key = f
    <3>1. CASE f = k
      BY <1>5, <3>1
    <3>2. CASE f \in fields
      <4>1. PICK n \in DOMAIN members : members[n].key = f
        BY <1>1, <1>6, <3>2 DEF AnswerMembers
      <4> QED
        BY <1>5, <4>1
    <3> QED
      BY <1>2, <3>1, <3>2
  <2>6. "document" \notin fields' => document' = Answer!NoDocument
    <3>1. "document" \notin fields' => "document" \notin fields /\ k # "document"
      BY <1>2 DEF Answer!Known
    <3> QED
      BY <1>3, <1>6, <3>1 DEF AnswerMembers
  <2> QED
    BY <2>1, <2>3, <2>4, <2>5, <2>6 DEF AnswerMembers
<1>11. Answer!OneOwner'
  BY <1>1, AnswerOwners, AnswerOwnersNext, Zenon DEF AnswerInv
<1> QED
  BY <1>1, <1>5, <1>6, <1>7, <1>9, <1>10, <1>11, AnswerOnward DEF AnswerSteady

LEMMA AnswerAllocateStep == ASSUME AnswerInv, Answer!Allocate PROVE AnswerInv'
<1>1. /\ answerPc = "key" /\ "progress" \notin fields /\ fields' = fields \cup {"progress"}
      /\ Len(members) < MaxMembers /\ UNCHANGED <<caller, members, calls>>
  BY DEF Answer!Allocate, Answer!Duplicate
<1>2. /\ op \in {"get", "put"} /\ answerResult = "none" /\ AnswerMembers /\ AnswerBuffers
      /\ members \in Seq([key : AnswerKeys, good : BOOLEAN, document : AnswerDocuments])
      /\ Len(members) <= MaxMembers /\ fields \subseteq Answer!Known
      /\ document \in AnswerDocuments /\ device \in BOOLEAN
      /\ {answerPosition, parsed, caller.position} \subseteq AnswerPointers
      /\ heap \subseteq Blocks /\ freed_twice = FALSE
      /\ heap = {answerPosition, parsed, caller.position} \ {Answer!Null}
  BY <1>1, AnswerAt, Zenon
<1>3. answerPosition = Answer!Null /\ parsed = Answer!Null
  BY <1>1, <1>2 DEF AnswerBuffers
<1>4. fields' \subseteq Answer!Known
  BY <1>1, <1>2 DEF Answer!Known
<1>5. ASSUME NEW b \in Blocks \ heap, answerPosition' = b, heap' = heap \cup {b},
             answerPc' = "position",
             UNCHANGED <<op, document, device, parsed, freed_twice, answerResult>>
      PROVE  AnswerInv'
  <2>0. b # Answer!Null /\ b # caller.position
    BY <1>2, <1>3, <1>5, AnswerConstants
  <2>1. Answer!OneOwner'
    <3>1. heap' = {b, caller.position} \ {Answer!Null}
      BY <1>2, <1>3, <1>5, <2>0
    <3> QED
      BY <1>1, <1>2, <1>3, <1>5, <2>0, <3>1, AnswerOwnersNext
  <2>2. Answer!TypeOK'
    <3>1. /\ caller.document \in Documents \cup {Answer!NoDocument} /\ calls \in 0 .. MaxCalls
      BY AnswerTyped, Zenon DEF AnswerInv
    <3> QED
      BY <1>1, <1>2, <1>3, <1>4, <1>5, <3>1, AnswerTypedNext DEF AnswerPointers
  <2>3. \A n \in DOMAIN members : members[n].key # "progress"
    <3>1. \A n \in DOMAIN members : members[n].key \in fields \cup {"unknown"}
      BY <1>2 DEF AnswerMembers
    <3> QED
      BY <1>1, <3>1
  <2>4. AnswerBuffers'
    BY <1>1, <1>3, <1>5, <2>0, <2>3 DEF AnswerBuffers
  <2>5. AnswerMembers'
    BY <1>1, <1>2, <1>5 DEF AnswerMembers
  <2>6. AnswerRuns'
    BY <1>1, <1>2, <1>5, <2>5 DEF AnswerRuns
  <2>7. Answer!OkIsTheAnswer' /\ Answer!NotFoundSaysNothing'
    BY <1>2, <1>5 DEF Answer!OkIsTheAnswer, Answer!NotFoundSaysNothing
  <2> QED
    BY <1>1, <1>2, <2>1, <2>2, <2>4, <2>6, <2>7 DEF AnswerInv
<1>6. ASSUME Answer!Free({parsed}), Answer!ParsedEmpty, Answer!Return("NO_MEMORY"),
             UNCHANGED answerPosition
      PROVE  AnswerInv'
  <2>1. heap' = heap \ {parsed} /\ freed_twice' = FALSE
    BY <1>6, AnswerFreed, Zenon
  <2>2. heap' = {caller.position} \ {Answer!Null}
    BY <1>2, <1>3, <2>1
  <2>3. /\ answerPc' = "idle" /\ op' = op /\ answerResult' = "NO_MEMORY"
        /\ document' = Answer!NoDocument /\ device' = FALSE /\ parsed' = Answer!Null
    BY <1>6 DEF Answer!ParsedEmpty, Answer!Return
  <2> QED
    BY <1>1, <1>2, <1>3, <1>4, <1>6, <2>1, <2>2, <2>3, AnswerFailed DEF AnswerDocuments
<1> QED
  BY <1>5, <1>6 DEF Answer!Allocate

LEMMA AnswerPositionStep == ASSUME AnswerInv, Answer!Position PROVE AnswerInv'
<1>1. answerPc = "position" /\ calls' = calls
  BY DEF Answer!Position
<1>2. /\ op \in {"get", "put"} /\ answerResult = "none" /\ AnswerMembers /\ AnswerBuffers
      /\ members \in Seq([key : AnswerKeys, good : BOOLEAN, document : AnswerDocuments])
      /\ Len(members) <= MaxMembers /\ fields \subseteq Answer!Known
      /\ document \in AnswerDocuments /\ device \in BOOLEAN
      /\ {answerPosition, parsed, caller.position} \subseteq AnswerPointers
      /\ heap \subseteq Blocks /\ freed_twice = FALSE
      /\ heap = {answerPosition, parsed, caller.position} \ {Answer!Null}
      /\ answerPosition # Answer!Null =>
            answerPosition # parsed /\ answerPosition # caller.position
  BY <1>1, AnswerAt, Zenon
<1>3. /\ answerPosition # Answer!Null /\ parsed = Answer!Null /\ "progress" \in fields
      /\ \A n \in DOMAIN members : members[n].key # "progress"
  BY <1>1, <1>2 DEF AnswerBuffers
<1>4. Len(members) < MaxMembers
  BY <1>1 DEF AnswerInv, AnswerRuns
<1>5. "progress" \in AnswerKeys /\ Answer!NoDocument \in AnswerDocuments
  BY DEF AnswerKeys, Answer!Known, AnswerDocuments
<1>6. CASE Answer!Said("progress", FALSE, Answer!NoDocument) /\ Answer!BadJson
  <2>1. members' \in Seq([key : AnswerKeys, good : BOOLEAN, document : AnswerDocuments])
        /\ Len(members') <= MaxMembers
    BY <1>4, <1>5, <1>6, AnswerSaid, Zenon
  <2> QED
    BY <1>1, <1>6, <2>1, AnswerBadJson
<1>7. ASSUME parsed' = answerPosition, answerPosition' = Answer!Null, answerPc' = "after",
             Answer!Said("progress", TRUE, Answer!NoDocument), Answer!Kept,
             UNCHANGED <<op, fields, document, device, answerResult>>
      PROVE  AnswerInv'
  <2> DEFINE N == Len(members) + 1
  <2>1. /\ members' \in Seq([key : AnswerKeys, good : BOOLEAN, document : AnswerDocuments])
        /\ Len(members') <= MaxMembers
        /\ \A n \in DOMAIN members' :
              \/ n \in DOMAIN members /\ members'[n] = members[n]
              \/ /\ n = N /\ members'[n].key = "progress" /\ members'[n].good = TRUE
                 /\ members'[n].document = Answer!NoDocument
        /\ \A n \in DOMAIN members : n \in DOMAIN members' /\ members'[n] = members[n]
        /\ N \in DOMAIN members' /\ members'[N].key = "progress" /\ N \notin DOMAIN members
    BY <1>4, <1>5, <1>7, AnswerSaid, Zenon
  <2> HIDE DEF N
  <2>2. UNCHANGED <<caller, heap, freed_twice>>
    BY <1>7 DEF Answer!Kept, Answer!memory
  <2>3. Answer!OneOwner'
    <3>1. heap' = {answerPosition', parsed', caller'.position} \ {Answer!Null}
      BY <1>2, <1>3, <1>7, <2>2
    <3> QED
      BY <1>2, <1>3, <1>7, <2>2, <3>1, AnswerOwnersNext
  <2>4. AnswerBuffers'
    BY <1>3, <1>7 DEF AnswerBuffers
  <2>5. AnswerMembers'
    <3>1. \A n \in DOMAIN members' : members'[n].good
      BY <1>2, <2>1 DEF AnswerMembers
    <3>3. ASSUME NEW n \in DOMAIN members', NEW m \in DOMAIN members', n # m,
                 members'[n].key = members'[m].key
          PROVE  members'[n].key = "unknown"
      <4>1. CASE n \in DOMAIN members /\ m \in DOMAIN members
        <5>1. members'[n] = members[n] /\ members'[m] = members[m]
          BY <2>1, <4>1
        <5> QED
          BY <1>2, <3>3, <4>1, <5>1 DEF AnswerMembers
      <4>2. CASE n \in DOMAIN members /\ m = N
        BY <1>3, <2>1, <3>3, <4>2
      <4>3. CASE n = N /\ m \in DOMAIN members
        BY <1>3, <2>1, <3>3, <4>3
      <4> QED
        BY <2>1, <3>3, <4>1, <4>2, <4>3
    <3>4. ASSUME NEW n \in DOMAIN members'
          PROVE  /\ members'[n].key \in fields' \cup {"unknown"}
                 /\ members'[n].key = "document" => members'[n].document = document'
      BY <1>2, <1>3, <1>7, <2>1 DEF AnswerMembers
    <3>5. ASSUME NEW f \in fields' PROVE \E n \in DOMAIN members' : members'[n].key = f
      <4>1. CASE f = "progress"
        BY <2>1, <4>1
      <4>2. CASE f # "progress"
        <5>1. PICK n \in DOMAIN members : members[n].key = f
          BY <1>2, <1>7, <4>2 DEF AnswerMembers
        <5> QED
          BY <2>1, <5>1
      <4> QED
        BY <4>1, <4>2
    <3>6. "document" \notin fields' => document' = Answer!NoDocument
      BY <1>2, <1>7 DEF AnswerMembers
    <3> QED
      BY <3>1, <3>3, <3>4, <3>5, <3>6 DEF AnswerMembers
  <2> QED
    BY <1>1, <1>2, <1>7, <2>1, <2>2, <2>3, <2>4, <2>5, AnswerOnward
       DEF AnswerSteady, AnswerPointers
<1> QED
  BY <1>6, <1>7 DEF Answer!Position

LEMMA AnswerAfterStep == ASSUME AnswerInv, Answer!After PROVE AnswerInv'
<1>1. answerPc = "after" /\ UNCHANGED <<members, calls>>
  BY DEF Answer!After
<1>2. /\ op \in {"get", "put"} /\ answerResult = "none" /\ AnswerMembers /\ AnswerBuffers
      /\ members \in Seq([key : AnswerKeys, good : BOOLEAN, document : AnswerDocuments])
      /\ Len(members) <= MaxMembers /\ fields \subseteq Answer!Known
      /\ document \in AnswerDocuments /\ device \in BOOLEAN
      /\ {answerPosition, parsed, caller.position} \subseteq AnswerPointers
  BY <1>1, AnswerAt, Zenon
<1>3. CASE Answer!BadJson
  BY <1>1, <1>2, <1>3, AnswerBadJson
<1>4. ASSUME answerPc' \in {"key", "whole"}, Answer!Kept,
             UNCHANGED <<op, Answer!parser, answerResult>>
      PROVE  AnswerInv'
  <2>1. UNCHANGED <<caller, heap, freed_twice, op, fields, document, device, parsed,
                    answerPosition, answerResult>>
    BY <1>4 DEF Answer!Kept, Answer!memory, Answer!parser
  <2>2. Answer!OneOwner'
    BY <2>1, AnswerOwners, AnswerOwnersNext, Zenon DEF AnswerInv
  <2>3. AnswerBuffers' /\ AnswerMembers'
    BY <1>1, <1>2, <1>4, <2>1 DEF AnswerBuffers, AnswerMembers
  <2> QED
    BY <1>1, <1>2, <1>4, <2>1, <2>2, <2>3, AnswerOnward DEF AnswerSteady
<1> QED
  BY <1>3, <1>4 DEF Answer!After

(* How often a member came.                                                  *)
LEMMA AnswerCardinality == \A S : Answer!Cardinality(S) = Cardinality(S)
BY DEF Answer!Cardinality, Cardinality

LEMMA AnswerTimes ==
    ASSUME AnswerMembers, answerPc = "whole"
    PROVE  /\ \A k \in Answer!Known : Answer!Times(k) <= 1
           /\ \A k \in fields \cap Answer!Known : Answer!Times(k) = 1
<1> DEFINE At(k) == {n \in DOMAIN members : members[n].key = k}
<1>1. ASSUME NEW k \in Answer!Known, NEW n \in At(k) PROVE Answer!Times(k) = 1
  <2>1. k # "unknown"
    BY DEF Answer!Known
  <2>2. \A m \in DOMAIN members : members[m].key = k => m = n
    BY <1>1, <2>1 DEF AnswerMembers
  <2>3. At(k) = {n}
    BY <1>1, <2>2
  <2>4. Cardinality(At(k)) = 1
    BY <2>3, FS_Singleton
  <2> QED
    BY <2>4, AnswerCardinality DEF Answer!Times
<1>2. ASSUME NEW k \in Answer!Known, At(k) = {} PROVE Answer!Times(k) = 0
  BY <1>2, FS_EmptySet, AnswerCardinality DEF Answer!Times
<1>3. \A k \in Answer!Known : Answer!Times(k) <= 1
  <2> SUFFICES ASSUME NEW k \in Answer!Known PROVE Answer!Times(k) <= 1
    OBVIOUS
  <2>1. CASE At(k) = {}
    BY <1>2, <2>1
  <2>2. CASE At(k) # {}
    BY <1>1, <2>2
  <2> QED
    BY <2>1, <2>2
<1>4. ASSUME NEW k \in fields \cap Answer!Known PROVE Answer!Times(k) = 1
  <2>1. PICK n \in DOMAIN members : members[n].key = k
    BY <1>4 DEF AnswerMembers
  <2> QED
    BY <1>1, <2>1
<1> QED
  BY <1>3, <1>4

LEMMA AnswerTimesKept ==
    ASSUME members' = members
    PROVE  \A k \in Answer!Known : Answer!Times(k)' = Answer!Times(k)
BY DEF Answer!Times

(* Everything was read: a GET is judged.                                     *)
LEMMA AnswerJudgeStep == ASSUME AnswerInv, Answer!Judge PROVE AnswerInv'
<1>1. /\ answerPc = "whole" /\ op = "get" /\ document' = Answer!NoDocument /\ device' = FALSE
      /\ parsed' = Answer!Null /\ UNCHANGED <<fields, answerPosition, members, calls>>
  BY DEF Answer!Judge, Answer!ParsedEmpty
<1>2. /\ answerResult = "none" /\ AnswerMembers /\ AnswerBuffers
      /\ members \in Seq([key : AnswerKeys, good : BOOLEAN, document : AnswerDocuments])
      /\ Len(members) <= MaxMembers /\ fields \subseteq Answer!Known
      /\ document \in AnswerDocuments /\ device \in BOOLEAN
      /\ {answerPosition, parsed, caller.position} \subseteq AnswerPointers
      /\ heap \subseteq Blocks /\ freed_twice = FALSE
      /\ heap = {answerPosition, parsed, caller.position} \ {Answer!Null}
      /\ parsed # Answer!Null => parsed # caller.position
      /\ \A n \in DOMAIN members : members[n].key \in AnswerKeys
  BY <1>1, AnswerAt, Zenon
<1>3. answerPosition = Answer!Null /\ ("progress" \in fields <=> parsed # Answer!Null)
  BY <1>1, <1>2 DEF AnswerBuffers
<1>4. Answer!NoDocument \in AnswerDocuments
  BY DEF AnswerDocuments
<1>5. ASSUME Answer!Free({parsed}), answerPc' = "idle", op' = op, UNCHANGED caller
      PROVE  heap' = {caller.position} \ {Answer!Null} /\ freed_twice' = FALSE
  <2>1. heap' = heap \ {parsed} /\ freed_twice' = FALSE
    BY <1>5, AnswerFreed, Zenon
  <2> QED
    BY <1>2, <1>3, <2>1
<1>6. ASSUME Answer!Missing, Answer!Free({parsed}), Answer!Return("NOT_FOUND"), UNCHANGED caller
      PROVE  AnswerInv'
  <2>1. answerPc' = "idle" /\ op' = op /\ answerResult' = "NOT_FOUND"
    BY <1>6 DEF Answer!Return
  <2>2. heap' = {caller.position} \ {Answer!Null} /\ freed_twice' = FALSE
    BY <1>5, <1>6, <2>1
  <2>3. Answer!OneOwner'
    BY <1>1, <1>3, <1>6, <2>2, AnswerOwnersNext
  <2>4. Answer!TypeOK'
    <3>1. /\ caller.document \in Documents \cup {Answer!NoDocument} /\ calls \in 0 .. MaxCalls
      BY AnswerTyped, Zenon DEF AnswerInv
    <3>2. heap' \subseteq Blocks
      BY <1>2, <2>2 DEF AnswerPointers
    <3> QED
      BY <1>1, <1>2, <1>3, <1>4, <1>6, <2>1, <2>2, <3>1, <3>2, AnswerTypedNext
         DEF AnswerPointers
  <2>5. AnswerBuffers'
    BY <1>1, <1>3, <2>1 DEF AnswerBuffers
  <2>6. Answer!NotFoundSaysNothing'
    <3>1. \A n \in DOMAIN members : members[n].good /\ members[n].key \in fields \cup {"unknown"}
      BY <1>2 DEF AnswerMembers
    <3>2. fields = {} /\ "unknown" \notin Answer!Known
      BY <1>6 DEF Answer!Missing, Answer!Known
    <3> QED
      BY <1>1, <3>1, <3>2 DEF Answer!NotFoundSaysNothing
  <2>7. Answer!OkIsTheAnswer'
    BY <2>1 DEF Answer!OkIsTheAnswer
  <2> QED
    BY <1>1, <1>2, <1>6, <2>1, <2>3, <2>4, <2>5, <2>6, <2>7 DEF AnswerInv
<1>7. ASSUME Answer!Free({parsed}), Answer!Return("BAD_PROTOCOL"), UNCHANGED caller
      PROVE  AnswerInv'
  <2>1. answerPc' = "idle" /\ op' = op /\ answerResult' = "BAD_PROTOCOL"
    BY <1>7 DEF Answer!Return
  <2>2. heap' = {caller.position} \ {Answer!Null} /\ freed_twice' = FALSE
    BY <1>5, <1>7, <2>1
  <2> QED
    BY <1>1, <1>2, <1>3, <1>4, <1>7, <2>1, <2>2, AnswerFailed
<1>8. ASSUME Answer!Usable, Answer!TakeRecord([document |-> document, position |-> parsed]),
             Answer!Return(IF caller'.document = Answer!NoDocument THEN "BAD_PROTOCOL" ELSE "OK")
      PROVE  AnswerInv'
  <2>1. answerPc' = "idle" /\ op' = op
    BY <1>8 DEF Answer!Return
  <2>2. Answer!Required \subseteq fields
    BY <1>8 DEF Answer!Usable
  <2>3. parsed # Answer!Null
    BY <1>3, <2>2 DEF Answer!Required
  <2>4. caller \in [document : Documents \cup {Answer!NoDocument}, position : AnswerPointers]
        /\ calls \in 0 .. MaxCalls
    BY AnswerTyped DEF AnswerInv
  <2>5. AnswerBuffers'
    BY <1>1, <1>3, <2>1 DEF AnswerBuffers
  <2>6. CASE document = Asked
    <3>1. /\ caller' = [document |-> document, position |-> parsed]
          /\ Answer!Free({caller.position})
      BY <1>8, <2>6 DEF Answer!TakeRecord
    <3>2. caller'.document = Asked /\ caller'.position = parsed
          /\ caller' \in [document : Documents \cup {Answer!NoDocument}, position : AnswerPointers]
      BY <1>2, <2>6, <3>1, AnswerConstants
    <3>3. heap' = heap \ {caller.position} /\ freed_twice' = FALSE
      BY <3>1, AnswerFreed, Zenon
    <3>4. heap' = {parsed} /\ heap' \subseteq Blocks
      BY <1>2, <1>3, <2>3, <3>3
    <3>5. answerResult' = "OK"
      BY <1>8, <3>2, AnswerConstants DEF Answer!Return
    <3>6. Answer!OneOwner'
      BY <1>1, <1>3, <2>3, <3>2, <3>3, <3>4, AnswerOwnersNext
    <3>7. Answer!TypeOK'
      BY <1>1, <1>2, <1>3, <1>4, <2>1, <2>4, <3>2, <3>3, <3>4, AnswerConstants,
         AnswerTypedNext DEF AnswerPointers
    <3>8. Answer!OkIsTheAnswer'
      <4>1. \A n \in DOMAIN members : members[n].good
        BY <1>2 DEF AnswerMembers
      <4>2. /\ \A k \in Answer!Known : Answer!Times(k)' <= 1
            /\ \A k \in Answer!Required : Answer!Times(k)' = 1
        BY <1>1, <1>2, <2>2, AnswerTimes, AnswerTimesKept
      <4>3. \A n \in DOMAIN members : members[n].key = "document" => members[n].document = Asked
        BY <1>2, <2>6 DEF AnswerMembers
      <4> QED
        BY <1>1, <2>1, <2>3, <3>2, <4>1, <4>2, <4>3 DEF Answer!OkIsTheAnswer
    <3>9. Answer!NotFoundSaysNothing'
      BY <3>5 DEF Answer!NotFoundSaysNothing
    <3> QED
      BY <1>1, <1>2, <2>1, <2>3, <2>5, <3>2, <3>6, <3>7, <3>8, <3>9 DEF AnswerInv
  <2>7. CASE document # Asked
    <3>1. caller' = Answer!Nobody /\ Answer!Free({caller.position, parsed})
      <4>1. {caller.position} \cup {parsed} = {caller.position, parsed}
        OBVIOUS
      <4> QED
        BY <1>8, <2>7, <4>1 DEF Answer!TakeRecord
    <3>2. caller'.document = Answer!NoDocument /\ caller'.position = Answer!Null
          /\ caller' \in [document : Documents \cup {Answer!NoDocument}, position : AnswerPointers]
      BY <3>1 DEF Answer!Nobody, AnswerPointers
    <3>3. heap' = heap \ {caller.position, parsed} /\ freed_twice' = FALSE
      BY <3>1, AnswerFreed, Zenon
    <3>4. heap' = {}
      BY <1>2, <1>3, <3>3
    <3>5. answerResult' = "BAD_PROTOCOL"
      BY <1>8, <3>2 DEF Answer!Return
    <3>6. Answer!OneOwner'
      BY <1>1, <1>3, <3>2, <3>3, <3>4, AnswerOwnersNext
    <3>7. Answer!TypeOK'
      BY <1>1, <1>2, <1>3, <1>4, <2>1, <2>4, <3>2, <3>3, <3>4,
         AnswerTypedNext DEF AnswerPointers
    <3>8. Answer!OkIsTheAnswer' /\ Answer!NotFoundSaysNothing'
      BY <3>5 DEF Answer!OkIsTheAnswer, Answer!NotFoundSaysNothing
    <3> QED
      BY <1>1, <1>2, <2>1, <2>5, <3>2, <3>6, <3>7, <3>8 DEF AnswerInv
  <2> QED
    BY <2>6, <2>7
<1> QED
  BY <1>6, <1>7, <1>8 DEF Answer!Judge

LEMMA AnswerAcknowledgeStep == ASSUME AnswerInv, Answer!Acknowledge PROVE AnswerInv'
<1>1. /\ answerPc = "whole" /\ op = "put" /\ document' = Answer!NoDocument /\ device' = FALSE
      /\ parsed' = Answer!Null /\ UNCHANGED <<fields, answerPosition, caller, members, calls>>
      /\ answerPc' = "idle" /\ op' = op /\ Answer!Free({parsed})
      /\ answerResult' = IF Answer!Ack \subseteq fields /\ document = Asked
                         THEN "OK" ELSE "BAD_PROTOCOL"
  BY DEF Answer!Acknowledge, Answer!ParsedEmpty, Answer!Return
<1>2. /\ answerResult = "none" /\ AnswerMembers /\ AnswerBuffers
      /\ members \in Seq([key : AnswerKeys, good : BOOLEAN, document : AnswerDocuments])
      /\ Len(members) <= MaxMembers /\ fields \subseteq Answer!Known
      /\ {answerPosition, parsed, caller.position} \subseteq AnswerPointers
      /\ heap \subseteq Blocks
      /\ heap = {answerPosition, parsed, caller.position} \ {Answer!Null}
      /\ parsed # Answer!Null => parsed # caller.position
  BY <1>1, AnswerAt, Zenon
<1>3. answerPosition = Answer!Null
  BY <1>1, <1>2 DEF AnswerBuffers
<1>4. heap' = {caller.position} \ {Answer!Null} /\ freed_twice' = FALSE
  <2>1. heap' = heap \ {parsed} /\ freed_twice' = FALSE
    BY <1>1, AnswerFreed, Zenon
  <2> QED
    BY <1>2, <1>3, <2>1
<1>5. CASE ~(Answer!Ack \subseteq fields /\ document = Asked)
  BY <1>1, <1>2, <1>3, <1>4, <1>5, AnswerFailed DEF AnswerDocuments
<1>6. CASE Answer!Ack \subseteq fields /\ document = Asked
  <2>1. answerResult' = "OK"
    BY <1>1, <1>6
  <2>2. Answer!OneOwner'
    BY <1>1, <1>3, <1>4, AnswerOwnersNext
  <2>3. Answer!TypeOK'
    <3>1. /\ caller.document \in Documents \cup {Answer!NoDocument} /\ calls \in 0 .. MaxCalls
      BY AnswerTyped, Zenon DEF AnswerInv
    <3>2. heap' \subseteq Blocks
      BY <1>2, <1>4 DEF AnswerPointers
    <3> QED
      BY <1>1, <1>2, <1>3, <1>4, <3>1, <3>2, AnswerTypedNext
         DEF AnswerPointers, AnswerDocuments
  <2>4. AnswerBuffers'
    BY <1>1, <1>3 DEF AnswerBuffers
  <2>5. Answer!OkIsTheAnswer'
    <3>1. \A n \in DOMAIN members : members[n].good
      BY <1>2 DEF AnswerMembers
    <3>2. /\ \A k \in Answer!Known : Answer!Times(k)' <= 1
          /\ \A k \in Answer!Ack : Answer!Times(k)' = 1
      BY <1>1, <1>2, <1>6, AnswerTimes, AnswerTimesKept
    <3>3. \A n \in DOMAIN members : members[n].key = "document" => members[n].document = Asked
      BY <1>2, <1>6 DEF AnswerMembers
    <3> QED
      BY <1>1, <3>1, <3>2, <3>3 DEF Answer!OkIsTheAnswer
  <2>6. Answer!NotFoundSaysNothing'
    BY <2>1 DEF Answer!NotFoundSaysNothing
  <2>7. /\ caller \in [document : Documents \cup {Answer!NoDocument}, position : AnswerPointers]
        /\ caller.document # Answer!NoDocument => caller.position # Answer!Null
    BY DEF AnswerInv
  <2> QED
    BY <1>1, <1>2, <2>2, <2>3, <2>4, <2>5, <2>6, <2>7 DEF AnswerInv
<1> QED
  BY <1>5, <1>6

LEMMA AnswerStep == ASSUME AnswerInv, Answer!Next PROVE AnswerInv'
BY AnswerBeginStep, AnswerOpeningStep, AnswerRefuseStep, AnswerValueStep, AnswerAllocateStep,
   AnswerPositionStep, AnswerAfterStep, AnswerJudgeStep, AnswerAcknowledgeStep
   DEF Answer!Next

(* The steps that end an operation otherwise than with OK leave the caller's *)
(* record, or clear it of another document's.                               *)
LEMMA AnswerKeeps == ASSUME AnswerInv, Answer!Next PROVE Answer!FailureKeepsRecord
<1> USE DEF Answer!FailureKeepsRecord
<1>1. CASE Answer!Begin("get") \/ Answer!Begin("put")
  BY <1>1 DEF Answer!Begin
<1>2. CASE Answer!Opening
  BY <1>2 DEF Answer!Opening, Answer!Kept, Answer!memory
<1>3. CASE Answer!KeyFails \/ Answer!ValueFails
  BY <1>3 DEF Answer!KeyFails, Answer!ValueFails, Answer!BadJson
<1>4. CASE Answer!Value
  BY <1>4, Zenon DEF Answer!Value, Answer!Kept, Answer!memory
<1>5. CASE Answer!Allocate
  BY <1>5 DEF Answer!Allocate
<1>6. CASE Answer!Position
  BY <1>6 DEF Answer!Position, Answer!Kept, Answer!memory, Answer!BadJson
<1>7. CASE Answer!After
  BY <1>7 DEF Answer!After, Answer!Kept, Answer!memory, Answer!BadJson
<1>8. CASE Answer!Acknowledge
  BY <1>8 DEF Answer!Acknowledge
<1>9. CASE Answer!Judge
  <2>1. CASE UNCHANGED caller
    BY <2>1
  <2>2. CASE caller' # caller
    <3>1. /\ op = "get" /\ Answer!TakeRecord([document |-> document, position |-> parsed])
          /\ answerResult' = IF caller'.document = Answer!NoDocument
                             THEN "BAD_PROTOCOL" ELSE "OK"
      BY <1>9, <2>2 DEF Answer!Judge, Answer!Return
    <3>2. \/ caller' = Answer!Nobody
          \/ caller' = [document |-> document, position |-> parsed] /\ document = Asked
      BY <3>1 DEF Answer!TakeRecord
    <3>3. CASE caller' = Answer!Nobody
      BY <3>1, <3>3 DEF Answer!Nobody
    <3>4. CASE caller' = [document |-> document, position |-> parsed] /\ document = Asked
      <4>1. caller'.document # Answer!NoDocument
        BY <3>4, AnswerConstants
      <4> QED
        BY <3>1, <4>1
    <3> QED
      BY <3>2, <3>3, <3>4
  <2> QED
    BY <2>1, <2>2
<1> QED
  BY <1>1, <1>2, <1>3, <1>4, <1>5, <1>6, <1>7, <1>8, <1>9 DEF Answer!Next

-----------------------------------------------------------------------------
(* Strings and percentages.                                                  *)

JsonInv ==
    /\ source \in Seq(Json!Units) /\ closed \in BOOLEAN /\ progress \in 0 .. 10000

(* The characters of units.                                                  *)
CharsOf(s) == [n \in DOMAIN s |-> s[n].char]

LEMMA JsonUnitsAre ==
    ASSUME NEW u \in Json!Units
    PROVE  /\ u.char \in Json!Characters
           /\ u.form = "bad bytes" => ~Json!Spells(u)
<1>1. CASE u \in {v \in [form : {"raw", "short", "u", "pair"}, char : Json!Characters] :
                    Json!Spells(v)}
  <2>1. u.char \in Json!Characters /\ u.form \in {"raw", "short", "u", "pair"}
    BY <1>1
  <2> QED
    BY <2>1
<1>2. CASE u \in {Json!Unit(form, "plain") : form \in Json!Bad}
  <2>1. PICK f \in Json!Bad : u = [form |-> f, char |-> "plain"]
    BY <1>2 DEF Json!Unit
  <2>2. u.form = f /\ u.char = "plain"
    BY <2>1
  <2>3. Json!Spellings("plain") = {"raw", "u"}
    BY DEF Json!Spellings
  <2> QED
    BY <2>2, <2>3 DEF Json!Characters, Json!Spells
<1> QED
  BY <1>1, <1>2, Zenon DEF Json!Units

LEMMA JsonBytesAre ==
    ASSUME NEW c \in Json!Characters
    PROVE  Json!BytesOf(c) \in {1, 2, 4}
BY DEF Json!BytesOf

LEMMA JsonSizeIs ==
    ASSUME NEW t \in Seq(Json!Characters)
    PROVE  \E u : /\ u \in [0 .. Len(t) -> Nat] /\ u[0] = 0
                  /\ \A n \in 1 .. Len(t) : u[n] = u[n - 1] + Json!BytesOf(t[n])
                  /\ Json!Size(t) = u[Len(t)]
<1> DEFINE N == Len(t)
           w == [n \in 1 .. N |-> Json!BytesOf(t[n])]
<1>1. N \in Nat /\ \A n \in 1 .. N : w[n] \in Nat
  <2>1. \A n \in 1 .. N : t[n] \in Json!Characters
    OBVIOUS
  <2> QED
    BY <2>1, JsonBytesAre
<1>2. \A n \in 1 .. N : w[n] = Json!BytesOf(t[n])
  OBVIOUS
<1> HIDE DEF w, N
<1>3. PICK f : /\ f \in [0 .. N -> Nat]
               /\ f = [n \in 0 .. N |-> IF n = 0 THEN 0 ELSE f[n - 1] + w[n]]
  BY <1>1, Sums
<1>4. f = [n \in 0 .. N |-> IF n = 0 THEN 0 ELSE f[n - 1] + Json!BytesOf(t[n])]
  <2>1. \A n \in 0 .. N : n # 0 => n \in 1 .. N
    BY <1>1
  <2>2. [n \in 0 .. N |-> IF n = 0 THEN 0 ELSE f[n - 1] + w[n]]
        = [n \in 0 .. N |-> IF n = 0 THEN 0 ELSE f[n - 1] + Json!BytesOf(t[n])]
    BY <1>2, <2>1, Zenon
  <2> QED
    BY <1>3, <2>2, Zenon
<1> DEFINE g == CHOOSE g : g = [n \in 0 .. N |-> IF n = 0 THEN 0 ELSE g[n - 1] + Json!BytesOf(t[n])]
<1>5. g = [n \in 0 .. N |-> IF n = 0 THEN 0 ELSE g[n - 1] + Json!BytesOf(t[n])]
  BY <1>4, Zenon
<1>6. Json!Size(t) = g[N]
  BY Zenon DEF Json!Size, N
<1> HIDE DEF g
<1>7. 0 \in 0 .. N /\ \A n \in 1 .. N : n \in 0 .. N /\ n # 0
  BY <1>1
<1>8. g[0] = 0 /\ \A n \in 1 .. N : g[n] = g[n - 1] + Json!BytesOf(t[n])
  BY <1>5, <1>7, Zenon
<1> DEFINE P == {n \in Nat : g[n] \in Nat}
<1>9. \A n \in 0 .. N : n \in P
  <2>1. 0 \in P
    BY <1>8
  <2>2. ASSUME NEW n \in 1 .. N, n - 1 \in P PROVE n \in P
    BY <1>1, <1>2, <1>8, <2>2
  <2> HIDE DEF P
  <2> QED
    BY <1>1, <2>1, <2>2, Induction
<1>10. g \in [0 .. N -> Nat]
  <2>1. \A n \in 0 .. N : g[n] \in Nat
    BY <1>9
  <2>2. g = [n \in 0 .. N |-> g[n]]
    BY <1>5, <1>7, <1>8
  <2> QED
    BY <2>1, <2>2
<1> QED
  BY <1>6, <1>8, <1>10 DEF N

LEMMA JsonNoSize == Json!Size(<< >>) = 0
<1>1. << >> \in Seq(Json!Characters) /\ Len(<< >>) = 0
  BY EmptySeq
<1> DEFINE t == << >>
<1> HIDE DEF t
<1>2. t \in Seq(Json!Characters) /\ Len(t) = 0
  BY <1>1 DEF t
<1>3. PICK u : u[0] = 0 /\ Json!Size(t) = u[Len(t)]
  BY <1>2, JsonSizeIs
<1> QED
  BY <1>2, <1>3 DEF t

LEMMA JsonLonger ==
    ASSUME NEW t \in Seq(Json!Characters), NEW c \in Json!Characters
    PROVE  Json!Size(Append(t, c)) = Json!Size(t) + Json!BytesOf(c)
           /\ Append(t, c) \in Seq(Json!Characters) /\ Json!Size(t) \in Nat
<1> DEFINE s == Append(t, c)
           N == Len(t)
<1>0. Longer(s, t, c, Json!Characters)
  BY AppendHas
<1> HIDE DEF s
<1>1. /\ s \in Seq(Json!Characters) /\ Len(s) = N + 1 /\ s[N + 1] = c /\ N \in Nat
      /\ \A n \in 1 .. N : s[n] = t[n]
  BY <1>0, Zenon DEF Longer
<1>2. PICK u : /\ u \in [0 .. N -> Nat] /\ u[0] = 0
               /\ \A n \in 1 .. N : u[n] = u[n - 1] + Json!BytesOf(t[n])
               /\ Json!Size(t) = u[N]
  BY JsonSizeIs
<1>3. PICK v : /\ v \in [0 .. Len(s) -> Nat] /\ v[0] = 0
               /\ \A n \in 1 .. Len(s) : v[n] = v[n - 1] + Json!BytesOf(s[n])
               /\ Json!Size(s) = v[Len(s)]
  BY <1>1, JsonSizeIs, Zenon
<1> HIDE DEF N
<1> DEFINE P == {n \in Nat : v[n] = u[n]}
<1>4. \A n \in 0 .. N : n \in P
  <2>1. 0 \in P
    BY <1>2, <1>3
  <2>2. ASSUME NEW n \in 1 .. N, n - 1 \in P PROVE n \in P
    <3>1. n \in 1 .. Len(s) /\ n \in Nat
      BY <1>1
    <3> QED
      BY <1>1, <1>2, <1>3, <2>2, <3>1
  <2> HIDE DEF P
  <2> QED
    BY <1>1, <2>1, <2>2, Induction
<1>5. N \in 0 .. N /\ N + 1 \in 1 .. Len(s) /\ (N + 1) - 1 = N
  BY <1>1
<1>6. v[N] = u[N]
  BY <1>4, <1>5
<1>7. v[N + 1] = v[N] + Json!BytesOf(c)
  BY <1>1, <1>3, <1>5
<1>8. Json!Size(t) \in Nat
  BY <1>2, <1>5
<1> QED
  BY <1>1, <1>2, <1>3, <1>6, <1>7, <1>8 DEF s

(* What the reader makes of units: all of them, or nothing.                  *)
LEMMA JsonReads ==
    ASSUME NEW s \in Seq(Json!Units), NEW end \in BOOLEAN
    PROVE  Json!reader_string(s, end) =
             IF end /\ (\A n \in DOMAIN s : Json!Spells(s[n])) /\ Json!Size(CharsOf(s)) < TextCap
             THEN [ok |-> TRUE, text |-> CharsOf(s)] ELSE Json!Refused
<1> DEFINE N == Len(s)
           C == Json!Characters
           T(n) == [k \in 1 .. n |-> s[k].char]
           S == [ok : BOOLEAN, text : Seq(C)]
           none == [ok |-> TRUE, text |-> << >>]
           taken(v, u) == /\ v.ok /\ Json!Accepted(u)
                          /\ Json!Room(Json!Size(v.text), u.char)
           more(v, u) == IF taken(v, u)
                         THEN [ok |-> TRUE, text |-> Append(v.text, u.char)] ELSE Json!Refused
           step == [n \in 1 .. N |-> [v \in S |-> more(v, s[n])]]
<1>1. N \in Nat /\ DOMAIN s = 1 .. N /\ \A n \in 1 .. N : s[n] \in Json!Units /\ s[n].char \in C
  <2>1. N \in Nat /\ DOMAIN s = 1 .. N /\ \A n \in 1 .. N : s[n] \in Json!Units
    OBVIOUS
  <2> QED
    BY <2>1, JsonUnitsAre
<1>2. TextCap \in Nat /\ TextCap > 0
  BY JsonAssumption DEF JsonAssumption, Json!BoundsAssumption
<1>3. Json!Refused \in S /\ none \in S /\ Json!Refused.ok = FALSE /\ none.ok = TRUE
      /\ none.text = << >>
  BY EmptySeq DEF Json!Refused
<1>4. ASSUME NEW n \in 0 .. N
      PROVE  T(n) \in Seq(C) /\ Len(T(n)) = n /\ \A k \in 1 .. n : T(n)[k] = s[k].char
  <2>1. T(n) \in [1 .. n -> C] /\ n \in Nat
    <3>1. \A k \in 1 .. n : k \in 1 .. N
      BY <1>1
    <3> QED
      BY <1>1, <3>1
  <2> QED
    BY <2>1, FunctionIsSeq
<1>5. T(0) = << >>
  <2>1. 0 \in 0 .. N
    BY <1>1
  <2>2. T(0) \in Seq(C) /\ Len(T(0)) = 0
    BY <1>4, <2>1
  <2> QED
    BY <2>2, EmptySeq
<1>6. ASSUME NEW n \in 1 .. N PROVE T(n) = Append(T(n - 1), s[n].char)
  <2>1. n \in 0 .. N /\ n - 1 \in 0 .. N /\ n \in Nat /\ n \in 1 .. n
        /\ \A k \in 1 .. n - 1 : k \in 1 .. n
    BY <1>1
  <2> DEFINE a == T(n)
             b == T(n - 1)
             x == s[n].char
  <2>2. a \in Seq(C) /\ Len(a) = n /\ \A k \in 1 .. n : a[k] = s[k].char
    BY <1>4, <2>1
  <2>3. b \in Seq(C) /\ Len(b) = n - 1 /\ \A k \in 1 .. n - 1 : b[k] = s[k].char
    BY <1>4, <2>1
  <2>4. x \in C
    BY <1>1
  <2> HIDE DEF a, b
  <2>5. Len(a) = Len(b) + 1 /\ a[Len(a)] = x
    BY <2>1, <2>2, <2>3
  <2>6. \A k \in 1 .. Len(b) : a[k] = b[k]
    BY <2>1, <2>2, <2>3, Zenon
  <2>7. a = Append(b, x)
    <3> HIDE DEF x
    <3> QED
      BY <2>2, <2>3, <2>4, <2>5, <2>6, AppendIs
  <2> QED
    BY <2>7 DEF a, b
<1>7. T(N) = CharsOf(s)
  BY <1>1, Zenon DEF CharsOf
<1> DEFINE U(n) == Json!Size(T(n))
<1>8. U(0) = 0 /\ \A n \in 1 .. N :
        /\ U(n) = U(n - 1) + Json!BytesOf(s[n].char) /\ U(n - 1) \in Nat
        /\ Json!BytesOf(s[n].char) \in {1, 2, 4}
  <2>1. U(0) = 0
    BY <1>5, JsonNoSize, Zenon
  <2>2. ASSUME NEW n \in 1 .. N
        PROVE  /\ U(n) = U(n - 1) + Json!BytesOf(s[n].char) /\ U(n - 1) \in Nat
               /\ Json!BytesOf(s[n].char) \in {1, 2, 4}
    <3>1. T(n) = Append(T(n - 1), s[n].char) /\ s[n].char \in C
      BY <1>1, <1>6
    <3>2. T(n - 1) \in Seq(C)
      <4>1. n - 1 \in 0 .. N
        BY <1>1
      <4> QED
        BY <1>4, <4>1
    <3> HIDE DEF T, C
    <3>3. Json!Size(Append(T(n - 1), s[n].char))
            = Json!Size(T(n - 1)) + Json!BytesOf(s[n].char) /\ Json!Size(T(n - 1)) \in Nat
      BY <3>1, <3>2, JsonLonger DEF C
    <3> QED
      BY <3>1, <3>3, JsonBytesAre DEF C
  <2> QED
    BY <2>1, <2>2
<1> HIDE DEF T, U, C
<1>9. ASSUME NEW n \in 1 .. N, NEW v \in S PROVE more(v, s[n]) \in S
  <2>1. v.text \in Seq(C) /\ s[n].char \in C
    BY <1>1
  <2>2. Append(v.text, s[n].char) \in Seq(C)
    BY <2>1, AppendProperties
  <2> QED
    BY <1>3, <2>2
<1>10. \A n \in 1 .. N : \A v \in S : step[n][v] = more(v, s[n])
  BY Zenon
<1> HIDE DEF step, none
<1> DEFINE body(f, n) == IF n = 0 THEN none
                         ELSE IF /\ f[n - 1].ok
                                 /\ Json!Accepted(s[n])
                                 /\ Json!Room(Json!Size(f[n - 1].text), s[n].char)
                              THEN [ok |-> TRUE, text |-> Append(f[n - 1].text, s[n].char)]
                              ELSE Json!Refused
<1>11. \E f : f = [n \in 0 .. N |-> body(f, n)]
  <2> HIDE DEF S, N, more
  <2>1. \A n \in 1 .. N : \A v \in S : step[n][v] \in S
    BY <1>9, <1>10, Zenon
  <2> USE DEF N, more
  <2>2. PICK f : Chains(f, N, S, none, step)
    BY <1>1, <1>3, <2>1, Chain
  <2>3. f \in [0 .. N -> S] /\ f[0] = none /\ \A n \in 1 .. N : f[n] = step[n][f[n - 1]]
    BY <2>2, Zenon DEF Chains
  <2>4. ASSUME NEW n \in 0 .. N PROVE f[n] = body(f, n)
    <3>1. CASE n = 0
      BY <2>3, <3>1
    <3>2. CASE n # 0
      <4>1. n \in 1 .. N /\ n - 1 \in 0 .. N
        BY <3>2
      <4>2. f[n - 1] \in S
        BY <2>3, <4>1
      <4>3. f[n] = more(f[n - 1], s[n])
        BY <1>10, <2>3, <4>1, <4>2, Zenon
      <4> QED
        BY <3>2, <4>3, Zenon
    <3> QED
      BY <3>1, <3>2
  <2>5. f = [n \in 0 .. N |-> f[n]]
    BY <2>3
  <2> HIDE DEF body
  <2>6. f = [n \in 0 .. N |-> body(f, n)]
    BY <2>4, <2>5, Zenon
  <2> QED
    BY <2>6, Zenon
<1> DEFINE g == CHOOSE g : g = [n \in 0 .. N |-> body(g, n)]
<1>12. g = [n \in 0 .. N |-> body(g, n)]
  BY <1>11, Zenon
<1>13. Json!reader_string(s, end) =
         IF end /\ g[N].ok /\ (\A n \in DOMAIN s : s[n].form # "bad bytes")
         THEN g[N] ELSE Json!Refused
  BY Zenon DEF Json!reader_string, none, N
<1> HIDE DEF g
<1>14. g[0] = none /\ \A n \in 1 .. N : g[n] = more(g[n - 1], s[n])
  <2>1. 0 \in 0 .. N /\ \A n \in 1 .. N : n \in 0 .. N /\ n # 0
    BY <1>1
  <2>2. \A n \in 0 .. N : g[n] = body(g, n)
    <3> HIDE DEF body
    <3> QED
      BY <1>12, Zenon
  <2> QED
    BY <2>1, <2>2, Zenon
<1> DEFINE good(n) == (\A k \in 1 .. n : Json!Accepted(s[k])) /\ U(n) < TextCap
           P == {n \in Nat : g[n] = IF good(n) THEN [ok |-> TRUE, text |-> T(n)]
                                    ELSE Json!Refused}
<1>15. \A n \in 0 .. N : n \in P
  <2>1. 0 \in P
    <3>1. \A k \in 1 .. 0 : Json!Accepted(s[k])
      OBVIOUS
    <3> QED
      BY <1>2, <1>5, <1>8, <1>14, <3>1 DEF none
  <2>2. ASSUME NEW n \in 1 .. N, n - 1 \in P PROVE n \in P
    <3>0. n \in Nat /\ n \in 1 .. n /\ \A k \in 1 .. n : k = n \/ k \in 1 .. n - 1
      OBVIOUS
    <3>1. g[n] = more(g[n - 1], s[n])
      BY <1>14
    <3> DEFINE x == U(n - 1)
               y == U(n)
               b == Json!BytesOf(s[n].char)
    <3>2. y = x + b /\ x \in Nat /\ b \in {1, 2, 4}
      BY <1>8
    <3> HIDE DEF x, y, b
    <3>3. CASE good(n - 1)
      <4>1. g[n - 1] = [ok |-> TRUE, text |-> T(n - 1)]
        BY <2>2, <3>3
      <4>2. g[n - 1].ok = TRUE /\ g[n - 1].text = T(n - 1)
        BY <4>1
      <4>3. taken(g[n - 1], s[n]) <=> Json!Accepted(s[n]) /\ y < TextCap
        BY <3>2, <4>2, Zenon DEF Json!Room, U, x, y, b
      <4>4. good(n) <=> Json!Accepted(s[n]) /\ y < TextCap
        <5>1. \A k \in 1 .. n - 1 : Json!Accepted(s[k])
          BY <3>3
        <5> QED
          BY <3>0, <5>1, Zenon DEF y
      <4>5. Append(g[n - 1].text, s[n].char) = T(n)
        BY <1>6, <4>2
      <4>6. g[n] = IF good(n) THEN [ok |-> TRUE, text |-> T(n)] ELSE Json!Refused
        <5> HIDE DEF good, taken
        <5> QED
          BY <3>1, <4>3, <4>4, <4>5, Zenon
      <4> QED
        BY <3>0, <4>6
    <3>4. CASE ~good(n - 1)
      <4>1. g[n - 1] = Json!Refused
        BY <2>2, <3>4
      <4>2. ~taken(g[n - 1], s[n])
        BY <1>3, <4>1
      <4>3. g[n] = Json!Refused
        BY <3>1, <4>2, Zenon
      <4>4. ~good(n)
        <5> SUFFICES ASSUME good(n) PROVE good(n - 1)
          BY <3>4
        <5>1. x < TextCap
          <6>1. y < TextCap
            BY DEF y
          <6> QED
            BY <1>2, <3>2, <6>1
        <5>2. \A k \in 1 .. n - 1 : k \in 1 .. n
          BY <3>0
        <5> QED
          BY <5>1, <5>2 DEF x
      <4>5. g[n] = IF good(n) THEN [ok |-> TRUE, text |-> T(n)] ELSE Json!Refused
        <5> HIDE DEF good
        <5> QED
          BY <4>3, <4>4, Zenon
      <4> QED
        BY <3>0, <4>5
    <3> QED
      BY <3>3, <3>4
  <2> HIDE DEF P
  <2> QED
    BY <1>1, <2>1, <2>2, Induction
<1>16. g[N] = IF good(N) THEN [ok |-> TRUE, text |-> T(N)] ELSE Json!Refused
  <2>1. N \in 0 .. N
    BY <1>1
  <2> QED
    BY <1>15, <2>1
<1>17. good(N) /\ (\A n \in DOMAIN s : s[n].form # "bad bytes")
       <=> (\A n \in DOMAIN s : Json!Spells(s[n])) /\ U(N) < TextCap
  <2>1. \A n \in 1 .. N : s[n].form = "bad bytes" => ~Json!Spells(s[n])
    BY <1>1, JsonUnitsAre
  <2> QED
    BY <1>1, <2>1, Zenon DEF Json!Accepted
<1>18. U(N) = Json!Size(CharsOf(s))
  BY <1>7 DEF U
<1>19. g[N].ok <=> good(N)
  BY <1>3, <1>16
<1> HIDE DEF good
<1> QED
  BY <1>7, <1>13, <1>16, <1>17, <1>18, <1>19, Zenon

(* What is written of a text: a spelling of each character.                  *)
LEMMA JsonSpelling ==
    ASSUME NEW c \in Json!Characters
    PROVE  LET u == Json!Unit(Json!Escape(c), c)
           IN  /\ u \in Json!Units /\ Json!Spells(u) /\ u.char = c
               /\ Json!UnitLength(u) \in Nat /\ Json!UnitLength(u) <= 6 * Json!BytesOf(c)
<1> DEFINE u == Json!Unit(Json!Escape(c), c)
<1>1. u.form = Json!Escape(c) /\ u.char = c /\ u = [form |-> Json!Escape(c), char |-> c]
  BY DEF Json!Unit
<1>2. Json!Escape(c) \in {"raw", "short", "u"} /\ Json!Escape(c) \in Json!Spellings(c)
  BY DEF Json!Escape, Json!Spellings, Json!Characters
<1>3. Json!Spells(u)
  BY <1>1, <1>2 DEF Json!Spells
<1>4. u \in Json!Units
  <2>1. u \in [form : {"raw", "short", "u", "pair"}, char : Json!Characters]
    BY <1>1, <1>2
  <2> QED
    BY <1>3, <2>1, Zenon DEF Json!Units
<1>5. Json!UnitLength(u) \in Nat /\ Json!UnitLength(u) <= 6 * Json!BytesOf(c)
  <2> DEFINE b == Json!BytesOf(c)
  <2>1. b \in {1, 2, 4}
    BY JsonBytesAre
  <2>2. Json!UnitLength(u) \in {b, 2, 6}
    BY <1>1, <1>2, Zenon DEF Json!UnitLength
  <2> HIDE DEF b, u
  <2>3. Json!UnitLength(u) \in Nat /\ Json!UnitLength(u) <= 6 * b
    BY <2>1, <2>2
  <2> QED
    BY <2>3 DEF b
<1> HIDE DEF u
<1>6. u \in Json!Units /\ Json!Spells(u) /\ u.char = c
      /\ Json!UnitLength(u) \in Nat /\ Json!UnitLength(u) <= 6 * Json!BytesOf(c)
  BY <1>1, <1>3, <1>4, <1>5
<1> QED
  BY <1>6 DEF u

LEMMA JsonSourceIs ==
    ASSUME JsonInv
    PROVE  /\ source \in Seq(Json!Units) /\ Json!Text = CharsOf(source)
           /\ Json!Text \in Seq(Json!Characters) /\ DOMAIN Json!Text = 1 .. Len(source)
           /\ Len(Json!Text) = Len(source)
<1>1. source \in Seq(Json!Units) /\ DOMAIN source = 1 .. Len(source) /\ Len(source) \in Nat
  BY DEF JsonInv
<1>2. Json!Text = CharsOf(source)
  BY DEF Json!Text, CharsOf
<1> DEFINE t == Json!Text
<1>3. t \in [1 .. Len(source) -> Json!Characters]
  <2>0. \A n \in 1 .. Len(source) : source[n] \in Json!Units
    BY <1>1
  <2>1. \A n \in 1 .. Len(source) : source[n].char \in Json!Characters
    BY <2>0, JsonUnitsAre
  <2> QED
    BY <1>1, <2>1 DEF Json!Text
<1> HIDE DEF t
<1>4. t \in Seq(Json!Characters) /\ Len(t) = Len(source) /\ DOMAIN t = 1 .. Len(source)
  BY <1>1, <1>3, FunctionIsSeq
<1> QED
  BY <1>1, <1>2, <1>4 DEF t

LEMMA JsonWriterIs ==
    ASSUME NEW t \in Seq(Json!Characters)
    PROVE  /\ Json!writer_string(t) \in Seq(Json!Units)
           /\ Len(Json!writer_string(t)) = Len(t)
           /\ \A n \in 1 .. Len(t) :
                 Json!writer_string(t)[n] = Json!Unit(Json!Escape(t[n]), t[n])
           /\ \A n \in DOMAIN Json!writer_string(t) : Json!Spells(Json!writer_string(t)[n])
           /\ CharsOf(Json!writer_string(t)) = t
<1> DEFINE w == Json!writer_string(t)
<1>1. /\ Len(t) \in Nat /\ DOMAIN t = 1 .. Len(t) /\ \A n \in 1 .. Len(t) : t[n] \in Json!Characters
      /\ t = [n \in 1 .. Len(t) |-> t[n]]
  OBVIOUS
<1>2. w = [n \in 1 .. Len(t) |-> Json!Unit(Json!Escape(t[n]), t[n])]
  BY <1>1 DEF Json!writer_string
<1>3. \A n \in 1 .. Len(t) : w[n] = Json!Unit(Json!Escape(t[n]), t[n])
  BY <1>2, Zenon
<1>4. \A n \in 1 .. Len(t) : w[n] \in Json!Units /\ Json!Spells(w[n]) /\ w[n].char = t[n]
  BY <1>1, <1>3, JsonSpelling
<1>5. w \in [1 .. Len(t) -> Json!Units]
  <2>1. w = [n \in 1 .. Len(t) |-> w[n]]
    BY <1>2, <1>3, Zenon
  <2> HIDE DEF w
  <2> QED
    BY <1>4, <2>1
<1> HIDE DEF w
<1>6. w \in Seq(Json!Units) /\ Len(w) = Len(t) /\ DOMAIN w = 1 .. Len(t)
  BY <1>1, <1>5, FunctionIsSeq
<1>7. CharsOf(w) = t
  <2>1. CharsOf(w) = [n \in 1 .. Len(t) |-> w[n].char]
    BY <1>6 DEF CharsOf
  <2>2. CharsOf(w) = [n \in 1 .. Len(t) |-> t[n]]
    BY <1>4, <2>1, Zenon
  <2> QED
    BY <1>1, <2>2, Zenon
<1> QED
  BY <1>3, <1>4, <1>6, <1>7, Zenon DEF w

LEMMA JsonStrings ==
    ASSUME JsonInv PROVE Json!StringRoundTrips /\ Json!SpellingDoesNotMatter
<1> DEFINE t == Json!Text
<1>1. source \in Seq(Json!Units) /\ t = CharsOf(source) /\ t \in Seq(Json!Characters)
      /\ closed \in BOOLEAN /\ TRUE \in BOOLEAN
  BY JsonSourceIs DEF JsonInv
<1>2. Json!AllSpell <=> \A n \in DOMAIN source : Json!Spells(source[n])
  BY DEF Json!AllSpell
<1>3. Json!SpellingDoesNotMatter
  BY <1>1, <1>2, JsonReads, Zenon DEF Json!SpellingDoesNotMatter
<1>4. Json!StringRoundTrips
  <2> HIDE DEF t
  <2> DEFINE w == Json!writer_string(t)
  <2>1. w \in Seq(Json!Units) /\ (\A n \in DOMAIN w : Json!Spells(w[n])) /\ CharsOf(w) = t
    BY <1>1, JsonWriterIs
  <2> HIDE DEF w
  <2>2. Json!reader_string(w, TRUE) =
             IF TRUE /\ (\A n \in DOMAIN w : Json!Spells(w[n])) /\ Json!Size(CharsOf(w)) < TextCap
             THEN [ok |-> TRUE, text |-> CharsOf(w)] ELSE Json!Refused
    BY <1>1, <2>1, JsonReads
  <2> QED
    BY <2>1, <2>2, Zenon DEF Json!StringRoundTrips, w, t
<1> QED
  BY <1>3, <1>4

LEMMA JsonWrittenFits == ASSUME JsonInv PROVE Json!WrittenFits
<1> DEFINE t == Json!Text
           s == Json!writer_string(t)
           N == Len(t)
           L == [n \in 1 .. N |-> Json!UnitLength(s[n])]
           step == [n \in 1 .. N |-> [v \in Nat |-> v + Json!UnitLength(s[n])]]
           two == 2
<1>1. t \in Seq(Json!Characters)
  BY JsonSourceIs
<1>2. s \in Seq(Json!Units) /\ Len(s) = N
      /\ \A n \in 1 .. N : s[n] = Json!Unit(Json!Escape(t[n]), t[n])
  BY <1>1, JsonWriterIs
<1>3. N \in Nat /\ \A n \in 1 .. N : t[n] \in Json!Characters
  BY <1>1
<1> HIDE DEF t, s, N
<1>4. \A n \in 1 .. N :
        Json!UnitLength(s[n]) \in Nat /\ Json!UnitLength(s[n]) <= 6 * Json!BytesOf(t[n])
  BY <1>2, <1>3, JsonSpelling
<1>5. \A n \in 1 .. N : \A v \in Nat : step[n][v] = v + Json!UnitLength(s[n])
  BY Zenon
<1> HIDE DEF step
<1>6. PICK f : Chains(f, N, Nat, two, step)
  <2>1. \A n \in 1 .. N : \A v \in Nat : step[n][v] \in Nat
    BY <1>4, <1>5
  <2>2. two \in Nat
    OBVIOUS
  <2> HIDE DEF two
  <2> QED
    BY <1>3, <2>1, <2>2, Chain
<1>7. f \in [0 .. N -> Nat] /\ f[0] = 2 /\ \A n \in 1 .. N : f[n] = step[n][f[n - 1]]
  BY <1>6, Zenon DEF Chains
<1>8. \A n \in 0 .. N : n # 0 => n \in 1 .. N /\ f[n - 1] \in Nat
  <2> TAKE n \in 0 .. N
  <2>1. n # 0 => n \in 1 .. N /\ n - 1 \in 0 .. N
    BY <1>3
  <2> QED
    BY <1>7, <2>1
<1>9. \A n \in 0 .. N : f[n] = IF n = 0 THEN 2 ELSE f[n - 1] + Json!UnitLength(s[n])
  BY <1>5, <1>7, <1>8, Zenon
<1>10. f = [n \in 0 .. N |-> f[n]]
  BY <1>7
<1>11. f = [n \in 0 .. N |-> IF n = 0 THEN 2 ELSE f[n - 1] + Json!UnitLength(s[n])]
  BY <1>9, <1>10, Zenon
<1>12. \E g : g = [n \in 0 .. N |-> IF n = 0 THEN 2 ELSE g[n - 1] + Json!UnitLength(s[n])]
  BY <1>11, Zenon
<1> DEFINE g == CHOOSE g : g = [n \in 0 .. N |-> IF n = 0 THEN 2 ELSE g[n - 1] + Json!UnitLength(s[n])]
<1>13. Json!Written(t) = g[N]
  BY <1>2, Zenon DEF Json!Written, s
<1>14. g = [n \in 0 .. N |-> IF n = 0 THEN 2 ELSE g[n - 1] + Json!UnitLength(s[n])]
  BY <1>12, Zenon
<1> HIDE DEF g
<1>15. g[0] = 2 /\ \A n \in 1 .. N : g[n] = g[n - 1] + Json!UnitLength(s[n])
  <2>1. 0 \in 0 .. N /\ \A n \in 1 .. N : n \in 0 .. N /\ n # 0
    BY <1>3
  <2> QED
    BY <1>14, <2>1, Zenon
<1>16. PICK u : /\ u \in [0 .. N -> Nat] /\ u[0] = 0
                /\ \A n \in 1 .. N : u[n] = u[n - 1] + Json!BytesOf(t[n])
                /\ Json!Size(t) = u[N]
  BY <1>1, JsonSizeIs DEF N
<1> DEFINE P == {n \in Nat : g[n] \in Nat /\ u[n] \in Nat /\ g[n] <= 6 * u[n] + 2}
<1>17. \A n \in 0 .. N : n \in P
  <2>1. 0 \in P
    BY <1>15, <1>16
  <2>2. ASSUME NEW n \in 1 .. N, n - 1 \in P PROVE n \in P
    <3> DEFINE a == g[n - 1]
               b == u[n - 1]
               x == Json!UnitLength(s[n])
               y == Json!BytesOf(t[n])
    <3>1. a \in Nat /\ b \in Nat /\ a <= 6 * b + 2 /\ g[n] = a + x /\ u[n] = b + y
      BY <1>15, <1>16, <2>2
    <3>2. x \in Nat /\ x <= 6 * y /\ y \in {1, 2, 4} /\ n \in Nat
      BY <1>3, <1>4, JsonBytesAre
    <3> HIDE DEF a, b, x, y
    <3>3. g[n] \in Nat /\ u[n] \in Nat /\ g[n] <= 6 * u[n] + 2
      BY <3>1, <3>2
    <3> QED
      BY <3>2, <3>3
  <2> HIDE DEF P
  <2> QED
    BY <1>3, <2>1, <2>2, Induction
<1>18. g[N] \in Nat /\ u[N] \in Nat /\ g[N] <= 6 * u[N] + 2
  <2>1. N \in 0 .. N
    BY <1>3
  <2> QED
    BY <1>17, <2>1
<1>19. Json!Written(t) <= Json!Size(t) * 6 + 2
  <2> DEFINE a == g[N]
             b == u[N]
  <2>1. Json!Written(t) = a /\ Json!Size(t) = b /\ b \in Nat /\ a <= 6 * b + 2
    BY <1>13, <1>16, <1>18
  <2> HIDE DEF a, b
  <2>2. 6 * b = b * 6
    BY <2>1
  <2> QED
    BY <2>1, <2>2
<1> QED
  BY <1>19 DEF Json!WrittenFits, Json!JSON_MAX, t

(* The digits of a percentage.                                               *)
Decimal == 0 .. 9
Fractions == 0 .. 9999
Hundredths == 0 .. 10000
Whole == 10000

FourDigits(n, p, q, r, s) ==
    /\ Json!Digits(n) = <<p, q, r, s>>
    /\ 1000 * p + 100 * q + 10 * r + s = n

LEMMA JsonDigits ==
    ASSUME NEW n \in Fractions
    PROVE  \E p, q, r, s \in Decimal : FourDigits(n, p, q, r, s)
<1> DEFINE a == n \div 10
           b == a \div 10
           c == b \div 10
<1>1. n = 10 * a + (n % 10) /\ n % 10 \in 0 .. 9 /\ a \in 0 .. 999 /\ n \in Nat
  BY SMT DEF Fractions
<1>2. n \div 100 = b /\ n \div 1000 = c
  BY SMT DEF Fractions
<1>3. (n \div 10) % 10 = a % 10 /\ (n \div 100) % 10 = b % 10
  BY <1>2
<1> HIDE DEF a
<1>4. a = 10 * b + (a % 10) /\ a % 10 \in 0 .. 9 /\ b \in 0 .. 99
  BY <1>1
<1> HIDE DEF b
<1>5. b = 10 * c + (b % 10) /\ b % 10 \in 0 .. 9 /\ c \in 0 .. 9
  BY <1>4
<1> HIDE DEF c
<1> DEFINE q == b % 10
           r == a % 10
           s == n % 10
<1>6. Json!Digits(n) = <<c, q, r, s>>
  BY <1>2, <1>3 DEF Json!Digits
<1>7. n = 10 * a + s /\ a = 10 * b + r /\ b = 10 * c + q
  BY <1>1, <1>4, <1>5
<1>8. c \in 0 .. 9 /\ q \in 0 .. 9 /\ r \in 0 .. 9 /\ s \in 0 .. 9
      /\ a \in 0 .. 999 /\ b \in 0 .. 99
  BY <1>1, <1>4, <1>5
<1> HIDE DEF q, r, s
<1>9. 1000 * c + 100 * q + 10 * r + s = n
  <2>1. a = 100 * c + 10 * q + r
    BY <1>7, <1>8
  <2> QED
    BY <1>1, <1>7, <1>8, <2>1
<1>10. FourDigits(n, c, q, r, s)
  BY <1>6, <1>9, Zenon DEF FourDigits
<1>11. c \in Decimal /\ q \in Decimal /\ r \in Decimal /\ s \in Decimal
  BY <1>8 DEF Decimal
<1> QED
  BY <1>10, <1>11, Zenon

Hundredth(n, t) ==
    \E v \in Nat : Json!ValueOf(t) = v /\ 100 * n <= v /\ v <= 100 * n + 99

LEMMA JsonScaled ==
    ASSUME NEW n \in Hundredths, NEW t, Hundredth(n, t)
    PROVE  Json!reader_percentage(t) = {n}
<1>0. PICK v \in Nat : Json!ValueOf(t) = v /\ 100 * n <= v /\ v <= 100 * n + 99
  BY Zenon DEF Hundredth
<1>1. n \in 0 .. 10000
  BY SMT DEF Hundredths
<1>2. \A e \in {-1, 0, 1} : Json!Scaled(v, e) = n
  <2> TAKE e \in {-1, 0, 1}
  <2>1. (v * 10 + 2 + e) \div 1000 = n
    BY <1>0, <1>1, SMT
  <2> QED
    BY <2>1, SMT DEF Json!Scaled
<1> DEFINE S == {Json!Scaled(Json!ValueOf(t), e) : e \in {-1, 0, 1}}
           In(m) == m \in 0 .. 10000
<1>3. Json!reader_percentage(t) = {m \in S : In(m)}
  BY SMT DEF Json!reader_percentage
<1>4. In(n)
  BY <1>1
<1> HIDE DEF In
<1>5. \A m : m \in S <=> m = n
  BY <1>0, <1>2
<1> HIDE DEF S
<1> QED
  BY <1>3, <1>4, <1>5

Place(ds, i, z) == (IF i <= Len(ds) THEN ds[i] ELSE 0) = z
Places(ds, z1, z2, z3, z4, z5, z6) ==
    /\ Place(ds, 1, z1) /\ Place(ds, 2, z2) /\ Place(ds, 3, z3)
    /\ Place(ds, 4, z4) /\ Place(ds, 5, z5) /\ Place(ds, 6, z6)

LEMMA JsonValue ==
    ASSUME NEW n \in Hundredths, NEW ds,
           NEW z1 \in Decimal, NEW z2 \in Decimal, NEW z3 \in Decimal,
           NEW z4 \in Decimal, NEW z5 \in Decimal, NEW z6 \in Decimal,
           FourDigits(n, z1, z2, z3, z4), Places(ds, z1, z2, z3, z4, z5, z6)
    PROVE  Hundredth(n, [whole |-> 0, digits |-> ds])
<1> DEFINE t == [whole |-> 0, digits |-> ds]
           a == 1000 * z1
           v == 100 * n + 10 * z5 + z6
<1>1. t.whole = 0 /\ t.digits = ds
  OBVIOUS
<1> HIDE DEF t
<1>2. /\ (IF 1 <= Len(t.digits) THEN t.digits[1] ELSE 0) = z1
      /\ (IF 2 <= Len(t.digits) THEN t.digits[2] ELSE 0) = z2
      /\ (IF 3 <= Len(t.digits) THEN t.digits[3] ELSE 0) = z3
      /\ (IF 4 <= Len(t.digits) THEN t.digits[4] ELSE 0) = z4
      /\ (IF 5 <= Len(t.digits) THEN t.digits[5] ELSE 0) = z5
      /\ (IF 6 <= Len(t.digits) THEN t.digits[6] ELSE 0) = z6
  BY <1>1, Zenon DEF Places, Place
<1>3. Json!ValueOf(t) = 1000000 * 0 + 100000 * z1 + 10000 * z2 + 1000 * z3
                         + 100 * z4 + 10 * z5 + z6
  BY <1>1, <1>2, SMT DEF Json!ValueOf
<1>4. n \in Nat /\ z1 \in 0 .. 9 /\ z2 \in 0 .. 9 /\ z3 \in 0 .. 9
      /\ z4 \in 0 .. 9 /\ z5 \in 0 .. 9 /\ z6 \in 0 .. 9
  BY SMT DEF Hundredths, Decimal
<1>5. 1000 * z1 + 100 * z2 + 10 * z3 + z4 = n
  BY Zenon DEF FourDigits
<1> DEFINE w == Json!ValueOf(t)
<1> HIDE DEF w
<1>6. w = 1000000 * 0 + 100000 * z1 + 10000 * z2 + 1000 * z3 + 100 * z4 + 10 * z5 + z6
  BY <1>3, SMT DEF w
<1>7. w = 100 * n + 10 * z5 + z6
  BY <1>4, <1>5, <1>6, SMT
<1>8. w \in Nat /\ 100 * n <= w /\ w <= 100 * n + 99
  BY <1>4, <1>7, SMT
<1>9. Json!ValueOf(t) = w
  BY DEF w
<1>10. Hundredth(n, t)
  BY <1>8, <1>9, SMT DEF Hundredth
<1> QED
  BY <1>10 DEF t

LEMMA JsonFraction == ASSUME NEW n \in Fractions PROVE n \in Hundredths /\ n # Whole
BY SMT DEF Fractions, Hundredths, Whole

LEMMA JsonLongPercentage ==
    ASSUME NEW n \in Fractions, NEW x \in Decimal, NEW y \in Decimal
    PROVE  Json!reader_percentage([whole |-> 0, digits |-> Json!Digits(n) \o <<x, y>>]) = {n}
<1>1. PICK p, q, r, s \in Decimal : FourDigits(n, p, q, r, s)
  BY JsonDigits, Zenon
<1> DEFINE d == Json!Digits(n)
           e == <<x, y>>
           ds == d \o e
<1>2. d \in Seq(Decimal) /\ Len(d) = 4 /\ d[1] = p /\ d[2] = q /\ d[3] = r /\ d[4] = s
  <2>1. d = <<p, q, r, s>>
    BY <1>1, Zenon DEF FourDigits
  <2> HIDE DEF d
  <2> QED
    BY <2>1
<1>3. e \in Seq(Decimal) /\ Len(e) = 2 /\ e[1] = x /\ e[2] = y
  OBVIOUS
<1> HIDE DEF d, e
<1>20. /\ Len(ds) = 6 /\ ds[1] = p /\ ds[2] = q /\ ds[3] = r /\ ds[4] = s
       /\ ds[5] = x /\ ds[6] = y
  <2>1. Joined(ds, d, e, Decimal)
    BY <1>2, <1>3, ConcatIs, Zenon
  <2> HIDE DEF ds
  <2>2. Len(ds) = 6 /\ \A i \in 1 .. 4 : ds[i] = d[i]
    BY <1>2, <1>3, <2>1 DEF Joined
  <2>3. \A i \in 1 .. 2 : ds[4 + i] = e[i]
    BY <1>2, <1>3, <2>1, Zenon DEF Joined
  <2>4. ds[4 + 1] = e[1] /\ ds[4 + 2] = e[2] /\ 4 + 1 = 5 /\ 4 + 2 = 6
    BY <2>3
  <2>5. ds[5] = e[1] /\ ds[6] = e[2]
    BY <2>4
  <2> QED
    BY <1>2, <1>3, <2>2, <2>5
<1> HIDE DEF ds
<1>21. Places(ds, p, q, r, s, x, y)
  BY <1>20 DEF Places, Place
<1>4. n \in Hundredths
  BY JsonFraction, Zenon
<1> DEFINE t == [whole |-> 0, digits |-> Json!Digits(n) \o <<x, y>>]
<1>5. Hundredth(n, [whole |-> 0, digits |-> ds])
  BY <1>1, <1>4, <1>21, JsonValue, Zenon
<1>6. Hundredth(n, t)
  BY <1>5, Zenon DEF ds, d, e
<1> HIDE DEF t
<1>7. Json!reader_percentage(t) = {n}
  BY <1>4, <1>6, JsonScaled, Zenon
<1> QED
  BY <1>7, Zenon DEF t

LEMMA JsonShortPercentage ==
    ASSUME NEW n \in Fractions
    PROVE  Json!reader_percentage(Json!writer_percentage(n)) = {n}
<1>1. PICK p, q, r, s \in Decimal : FourDigits(n, p, q, r, s)
  BY JsonDigits, Zenon
<1> DEFINE d == Json!Digits(n)
           Cut(k) == (k = 0 \/ d[k] # 0) /\ \A j \in k + 1 .. Len(d) : d[j] = 0
           k == CHOOSE k \in 0 .. Len(d) : Cut(k)
           ds == SubSeq(d, 1, k)
<1>2. n # Whole
  BY JsonFraction, Zenon
<1>3. Json!writer_percentage(n) = [whole |-> 0, digits |-> ds]
  BY <1>2, SMT DEF Json!writer_percentage, Whole
<1>4. d = <<p, q, r, s>>
  BY <1>1, Zenon DEF FourDigits
<1> HIDE DEF d
<1>5. d \in Seq(0 .. 9) /\ Len(d) = 4 /\ d[1] = p /\ d[2] = q /\ d[3] = r /\ d[4] = s
  BY <1>4 DEF Decimal
<1>6. \E m \in 0 .. Len(d) : Cut(m)
  <2>1. CASE s # 0
    <3>1. Cut(4)
      BY <1>5, <2>1
    <3> QED
      BY <1>5, <3>1
  <2>2. CASE s = 0 /\ r # 0
    <3>1. Cut(3)
      BY <1>5, <2>2
    <3> QED
      BY <1>5, <3>1
  <2>3. CASE s = 0 /\ r = 0 /\ q # 0
    <3>1. Cut(2)
      BY <1>5, <2>3
    <3> QED
      BY <1>5, <3>1
  <2>4. CASE s = 0 /\ r = 0 /\ q = 0 /\ p # 0
    <3>1. Cut(1)
      BY <1>5, <2>4
    <3> QED
      BY <1>5, <3>1
  <2>5. CASE s = 0 /\ r = 0 /\ q = 0 /\ p = 0
    <3>1. Cut(0)
      BY <1>5, <2>5
    <3> QED
      BY <1>5, <3>1
  <2> QED
    BY <2>1, <2>2, <2>3, <2>4, <2>5
<1>7. k \in 0 .. Len(d) /\ Cut(k)
  BY <1>6
<1> HIDE DEF k
<1>8. Len(ds) = k /\ \A j \in 1 .. k : ds[j] = d[j]
  BY <1>5, <1>7
<1> HIDE DEF ds
<1>9. \A j \in 1 .. 4 : Place(ds, j, d[j])
  <2> TAKE j \in 1 .. 4
  <2>1. CASE j <= k
    BY <1>8, <2>1 DEF Place
  <2>2. CASE ~(j <= k)
    <3>1. j \in k + 1 .. Len(d)
      BY <1>5, <1>7, <2>2
    <3> QED
      BY <1>7, <1>8, <2>2, <3>1 DEF Place
  <2> QED
    BY <2>1, <2>2
<1>10. Place(ds, 1, p) /\ Place(ds, 2, q) /\ Place(ds, 3, r) /\ Place(ds, 4, s)
  <2>1. 1 \in 1 .. 4 /\ 2 \in 1 .. 4 /\ 3 \in 1 .. 4 /\ 4 \in 1 .. 4
    OBVIOUS
  <2> QED
    BY <1>5, <1>9, <2>1
<1>11. Place(ds, 5, 0) /\ Place(ds, 6, 0) /\ 0 \in Decimal
  BY <1>5, <1>7, <1>8 DEF Place, Decimal
<1>12. Places(ds, p, q, r, s, 0, 0)
  BY <1>10, <1>11, Zenon DEF Places
<1>13. n \in Hundredths
  BY JsonFraction, Zenon
<1> DEFINE t == [whole |-> 0, digits |-> ds]
<1>14. Hundredth(n, t)
  BY <1>1, <1>11, <1>12, <1>13, JsonValue, Zenon
<1> HIDE DEF t
<1>15. Json!reader_percentage(t) = {n}
  BY <1>13, <1>14, JsonScaled, Zenon
<1> QED
  BY <1>3, <1>15, Zenon DEF t

LEMMA JsonWholeBook ==
    ASSUME NEW n, n = Whole
    PROVE  Json!reader_percentage(Json!writer_percentage(n)) = {n}
<1> DEFINE t == [whole |-> 1, digits |-> << >>]
<1>1. Json!writer_percentage(n) = t
  BY SMT DEF Json!writer_percentage, Whole
<1>2. t.whole = 1 /\ t.digits = << >> /\ Len(t.digits) = 0
  OBVIOUS
<1> HIDE DEF t
<1>3. Json!ValueOf(t) = 1000000
  BY <1>2, SMT DEF Json!ValueOf
<1>4. n \in Hundredths
  BY SMT DEF Hundredths, Whole
<1> DEFINE v == 1000000
<1>5. Json!ValueOf(t) = v /\ v \in Nat /\ 100 * n <= v /\ v <= 100 * n + 99
  BY <1>3, SMT DEF Whole
<1> HIDE DEF v
<1>6. Hundredth(n, t)
  BY <1>5, Zenon DEF Hundredth
<1>7. Json!reader_percentage(t) = {n}
  BY <1>4, <1>6, JsonScaled, Zenon
<1> QED
  BY <1>1, <1>7, Zenon

LEMMA JsonPercentages == ASSUME JsonInv PROVE Json!PercentageRoundTrips
<1>1. progress \in 0 .. 10000
  BY SMT DEF JsonInv
<1>2. progress = Whole \/ progress \in Fractions
  BY <1>1, SMT DEF Fractions, Whole
<1>3. Json!reader_percentage(Json!writer_percentage(progress)) = {progress}
  <2>1. CASE progress = Whole
    <3> DEFINE n == progress
    <3>1. n = Whole
      BY <2>1, Zenon
    <3> HIDE DEF n
    <3>2. Json!reader_percentage(Json!writer_percentage(n)) = {n}
      BY <3>1, JsonWholeBook, Zenon
    <3> QED
      BY <3>2, Zenon DEF n
  <2>2. CASE progress \in Fractions
    BY <2>2, JsonShortPercentage, Zenon
  <2> QED
    BY <1>2, <2>1, <2>2, Zenon
<1>4. ASSUME Json!Unfinished, NEW x \in 0 .. 9, NEW y \in {0, 9}
      PROVE  Json!reader_percentage([whole |-> 0, digits |-> Json!Digits(progress) \o <<x, y>>])
               = {progress}
  <2>1. progress \in Fractions
    BY <1>1, <1>4, SMT DEF Fractions, Json!Unfinished
  <2>2. x \in Decimal /\ y \in Decimal
    BY SMT DEF Decimal
  <2> QED
    BY <2>1, <2>2, JsonLongPercentage, Zenon
<1> QED
  BY <1>3, <1>4, Zenon DEF Json!PercentageRoundTrips

JsonGood ==
    /\ Json!StringRoundTrips /\ Json!WrittenFits
    /\ Json!SpellingDoesNotMatter /\ Json!PercentageRoundTrips

LEMMA JsonIsGood == ASSUME JsonInv PROVE JsonGood
BY JsonStrings, JsonWrittenFits, JsonPercentages, Zenon DEF JsonGood

LEMMA JsonInitially == ASSUME Json!Init PROVE JsonInv
<1>1. source = << >> /\ closed = FALSE /\ progress = 0
  BY SMT DEF Json!Init
<1>2. source \in Seq(Json!Units)
  BY <1>1, EmptySeq, Zenon
<1>3. closed \in BOOLEAN
  BY <1>1, Zenon
<1>4. progress \in 0 .. 10000
  BY <1>1
<1> QED
  BY <1>2, <1>3, <1>4, SMT DEF JsonInv

LEMMA JsonStep == ASSUME JsonInv, Json!Next PROVE JsonInv'
<1>1. source \in Seq(Json!Units) /\ closed \in BOOLEAN /\ progress \in 0 .. 10000
  BY SMT DEF JsonInv
<1>2. CASE Json!Spell
  <2>1. PICK u \in Json!Units : source' = Append(source, u)
    BY <1>2, SMT DEF Json!Spell
  <2>2. source' \in Seq(Json!Units)
    BY <1>1, <2>1, AppendProperties, SMT
  <2>3. closed' = closed /\ progress' = progress
    BY <1>2, SMT DEF Json!Spell
  <2> QED
    BY <1>1, <2>2, <2>3, SMT DEF JsonInv
<1>3. CASE Json!Close
  <2>1. closed' = TRUE /\ source' = source /\ progress' = progress
    BY <1>3, SMT DEF Json!Close
  <2> QED
    BY <1>1, <2>1, SMT DEF JsonInv
<1>4. CASE Json!ReadFurther
  <2>1. closed' = closed /\ source' = source /\ progress' = progress + 1 /\ progress < 10000
    BY <1>4, SMT DEF Json!ReadFurther
  <2>2. progress' \in 0 .. 10000
    BY <1>1, <2>1, SMT
  <2> QED
    BY <1>1, <2>1, <2>2, SMT DEF JsonInv
<1> QED
  BY <1>2, <1>3, <1>4, SMT DEF Json!Next

-----------------------------------------------------------------------------
(* The settings and the credentials.                                        *)

RecordKeys ==
    {"crossnook-settings", "kosync.enabled", "kosync.base_url", "kosync.device_name",
     "crossnook-credentials", "username", "userkey", "crc32"}
RecordSays ==
    {"one", "two", "padded", "letter", "true", "false", "TRUE", "good", "control", "nul",
     "hex", "upper"}
RecordValues == [says : RecordSays, n : Nat]
RecordSaid == Seq(RecordKeys \X RecordValues)
RecordLines == [key : RecordKeys, value : RecordValues, over : RecordSaid]

(* Only a checksum is over something.                                       *)
RecordPlain(l) == l.key # "crc32" => l.over = << >>

Sealed(lines) == [lines |-> Append(lines, Record!Crc(lines)), ended |-> TRUE]

(* A checksum is over the lines of a file that was written.                  *)
RecordGood ==
    {l \in RecordLines :
        /\ RecordPlain(l)
        /\ l.over # << >> =>
              \E b \in Seq(RecordLines) :
                 /\ Sealed(b) \in written /\ l.over = Record!Said(b)
                 /\ \A n \in DOMAIN b : RecordPlain(b[n])}

RecordInv ==
    /\ store \in Stores /\ recordSaved \in Record!Records(store)
    /\ recordEdits \in Nat
    /\ recordFile \in [lines : Seq(RecordGood), ended : BOOLEAN]
    /\ recordEdits = 0 =>
          recordFile = Record!serialize(store, recordSaved)

LEMMA RecordConstants ==
    /\ Stores \subseteq {"settings", "credentials"} /\ MaxEdits \in Nat
BY RecordAssumption DEF RecordAssumption, Record!StoresAssumption

(* The keys of a file: the checksum is the last one.                         *)
LEMMA RecordSchema ==
    ASSUME NEW s \in {"settings", "credentials"}
    PROVE  /\ Record!Schema(s) \in Seq(RecordKeys) /\ Len(Record!Schema(s)) \in {4, 5}
           /\ Record!Schema(s)[Len(Record!Schema(s))] = "crc32"
           /\ \A n \in 1 .. Len(Record!Schema(s)) - 1 : Record!Schema(s)[n] # "crc32"
           /\ Record!Fields(s) \in Seq(RecordKeys)
           /\ Len(Record!Fields(s)) = Len(Record!Schema(s)) - 2
           /\ DOMAIN Record!Fields(s) = 1 .. Len(Record!Schema(s)) - 2
           /\ \A n \in 1 .. Len(Record!Schema(s)) - 2 : Record!Fields(s)[n] = Record!Schema(s)[n + 1]
<1> DEFINE S == Record!Schema(s)
           F == SubSeq(S, 1, Len(S) - 1)
<1>1. /\ S \in Seq(RecordKeys) /\ Len(S) \in {4, 5} /\ S[Len(S)] = "crc32"
      /\ \A n \in 1 .. Len(S) - 1 : S[n] # "crc32"
  <2>1. CASE s = "settings"
    <3>1. S = <<"crossnook-settings", "kosync.enabled", "kosync.base_url",
                "kosync.device_name", "crc32">>
      BY <2>1 DEF Record!Schema
    <3> HIDE DEF S
    <3>2. S \in Seq(RecordKeys) /\ Len(S) = 5
      BY <3>1 DEF RecordKeys
    <3>3. \A n \in 1 .. 4 : n = 1 \/ n = 2 \/ n = 3 \/ n = 4
      OBVIOUS
    <3>4. S[5] = "crc32" /\ S[1] # "crc32" /\ S[2] # "crc32" /\ S[3] # "crc32" /\ S[4] # "crc32"
      BY <3>1
    <3> QED
      BY <3>2, <3>3, <3>4
  <2>2. CASE s = "credentials"
    <3>1. S = <<"crossnook-credentials", "username", "userkey", "crc32">>
      BY <2>2 DEF Record!Schema
    <3> HIDE DEF S
    <3>2. S \in Seq(RecordKeys) /\ Len(S) = 4
      BY <3>1 DEF RecordKeys
    <3>3. \A n \in 1 .. 3 : n = 1 \/ n = 2 \/ n = 3
      OBVIOUS
    <3>4. S[4] = "crc32" /\ S[1] # "crc32" /\ S[2] # "crc32" /\ S[3] # "crc32"
      BY <3>1
    <3> QED
      BY <3>2, <3>3, <3>4
  <2> QED
    BY <2>1, <2>2
<1>2. Record!Fields(s) = Tail(F)
  BY DEF Record!Fields, Record!Body
<1> HIDE DEF S
<1>3. S # << >>
  BY <1>1
<1>4. F \in Seq(RecordKeys) /\ Len(F) = Len(S) - 1 /\ \A n \in 1 .. Len(S) - 1 : F[n] = S[n]
  BY <1>1, <1>3, FrontIs
<1> HIDE DEF F
<1>5. F # << >>
  BY <1>1, <1>4
<1>6. /\ Tail(F) \in Seq(RecordKeys) /\ Len(Tail(F)) = Len(F) - 1
      /\ \A n \in 1 .. Len(Tail(F)) : Tail(F)[n] = F[n + 1]
  BY <1>4, <1>5, HeadTailProperties
<1>7. DOMAIN Tail(F) = 1 .. Len(S) - 2
  BY <1>1, <1>4, <1>6
<1>8. \A n \in 1 .. Len(S) - 2 : Tail(F)[n] = S[n + 1]
  BY <1>1, <1>4, <1>6
<1> QED
  BY <1>1, <1>2, <1>4, <1>6, <1>7, <1>8 DEF S

LEMMA RecordV ==
    ASSUME NEW says \in RecordSays, NEW n \in Nat
    PROVE  Record!V(says, n) \in RecordValues
BY DEF Record!V, RecordValues

LEMMA RecordTextsAre ==
    ASSUME NEW n \in Nat PROVE Record!Text(n) \subseteq RecordValues
<1>1. "good" \in RecordSays /\ "control" \in RecordSays /\ "nul" \in RecordSays
  BY DEF RecordSays
<1>2. Record!V("good", n) \in RecordValues /\ Record!V("control", n) \in RecordValues
      /\ Record!V("nul", n) \in RecordValues
  BY <1>1, RecordV
<1> QED
  BY <1>2 DEF Record!Text

LEMMA RecordValuesAre ==
    ASSUME NEW key PROVE Record!ValuesOf(key) \subseteq RecordValues
<1>1. /\ "one" \in RecordSays /\ "two" \in RecordSays /\ "padded" \in RecordSays /\ "letter" \in RecordSays
      /\ "true" \in RecordSays /\ "false" \in RecordSays /\ "TRUE" \in RecordSays /\ "good" \in RecordSays
      /\ "hex" \in RecordSays /\ "upper" \in RecordSays
  BY DEF RecordSays
<1>2. {Record!One, Record!V("two", 1), Record!V("padded", 2), Record!V("letter", 1)}
      \subseteq RecordValues
  BY <1>1, RecordV DEF Record!One
<1>3. {Record!V("true", 4), Record!V("false", 5), Record!V("TRUE", 4)} \subseteq RecordValues
  BY <1>1, RecordV
<1>4. {Record!V("good", 0), Record!V("good", 1297)} \cup Record!Text(1296) \subseteq RecordValues
  BY <1>1, RecordV, RecordTextsAre
<1>5. {Record!V("hex", 8), Record!V("upper", 8), Record!V("hex", 7)} \subseteq RecordValues
  BY <1>1, RecordV
<1>6. {Record!V("good", 0), Record!V("good", 256)} \cup Record!Text(255) \subseteq RecordValues
  BY <1>1, RecordV, RecordTextsAre
<1>7. CASE key = "crossnook-settings"
  BY <1>2, <1>7 DEF Record!ValuesOf
<1>8. CASE key = "crossnook-credentials"
  BY <1>2, <1>8 DEF Record!ValuesOf
<1>9. CASE key = "kosync.enabled"
  BY <1>3, <1>9 DEF Record!ValuesOf
<1>10. CASE key = "kosync.base_url"
  BY <1>4, <1>10 DEF Record!ValuesOf
<1>11. CASE key = "crc32"
  BY <1>5, <1>11 DEF Record!ValuesOf
<1>12. CASE key \notin {"crossnook-settings", "crossnook-credentials", "kosync.enabled",
                        "kosync.base_url", "crc32"}
  BY <1>6, <1>12 DEF Record!ValuesOf
<1> QED
  BY <1>7, <1>8, <1>9, <1>10, <1>11, <1>12

LEMMA RecordSaidIs ==
    ASSUME NEW lines \in Seq(RecordLines)
    PROVE  /\ Record!Said(lines) \in RecordSaid /\ Len(Record!Said(lines)) = Len(lines)
           /\ \A n \in 1 .. Len(lines) : Record!Said(lines)[n] = <<lines[n].key, lines[n].value>>
<1>1. DOMAIN lines = 1 .. Len(lines) /\ Len(lines) \in Nat
  OBVIOUS
<1>2. \A l \in RecordLines : <<l.key, l.value>> \in RecordKeys \X RecordValues
  BY DEF RecordLines
<1>3. \A n \in 1 .. Len(lines) : lines[n] \in RecordLines
  OBVIOUS
<1>4. Record!Said(lines) = [n \in 1 .. Len(lines) |-> <<lines[n].key, lines[n].value>>]
  BY <1>1 DEF Record!Said
<1>5. \A n \in 1 .. Len(lines) : <<lines[n].key, lines[n].value>> \in RecordKeys \X RecordValues
  BY <1>2, <1>3
<1> DEFINE P == RecordKeys \X RecordValues
           T(n) == <<lines[n].key, lines[n].value>>
<1> HIDE DEF P, T
<1>6. [n \in 1 .. Len(lines) |-> T(n)] \in Seq(P)
  BY <1>1, <1>5, IsASeq DEF P, T
<1>7. Len([n \in 1 .. Len(lines) |-> T(n)]) = Len(lines)
  BY <1>1
<1> QED
  BY <1>4, <1>6, <1>7 DEF P, T, RecordSaid

LEMMA RecordCrcIs ==
    ASSUME NEW lines \in Seq(RecordLines)
    PROVE  Record!Crc(lines) \in RecordLines
<1>0. "hex" \in RecordSays /\ 8 \in Nat
  BY DEF RecordSays
<1>1. Record!V("hex", 8) \in RecordValues
  BY <1>0, RecordV
<1>2. Record!Said(lines) \in RecordSaid
  BY RecordSaidIs
<1>3. "crc32" \in RecordKeys
  BY DEF RecordKeys
<1> QED
  BY <1>1, <1>2, <1>3 DEF Record!Crc, RecordLines

LEMMA RecordLineIs ==
    ASSUME NEW key \in RecordKeys, NEW v \in RecordValues
    PROVE  Record!Line(key, v) \in RecordLines /\ RecordPlain(Record!Line(key, v))
           /\ Record!Line(key, v).over = << >>
           /\ Record!Line(key, v).key = key /\ Record!Line(key, v).value = v
<1>1. << >> \in RecordSaid
  BY DEF RecordSaid
<1> QED
  BY <1>1 DEF Record!Line, RecordLines, RecordPlain

LEMMA RecordGoodAre == RecordGood \subseteq RecordLines /\ \A l \in RecordGood : RecordPlain(l)
BY DEF RecordGood

LEMMA RecordLinesAre ==
    \A l \in RecordLines : l.key \in RecordKeys /\ l.value \in RecordValues /\ l.over \in RecordSaid
BY DEF RecordLines

(* What was written stays written.                                           *)
LEMMA RecordGoodSpreads == ASSUME written \subseteq written' PROVE RecordGood \subseteq RecordGood'
BY DEF RecordGood

LEMMA RecordEdited ==
    ASSUME RecordInv, NEW lines \in Seq(RecordGood), NEW e \in BOOLEAN, Record!Edit(lines, e)
    PROVE  RecordInv'
<1>1. /\ recordFile' = [lines |-> lines, ended |-> e] /\ recordEdits' = recordEdits + 1
      /\ store' = store /\ recordSaved' = recordSaved /\ written' = written
  BY DEF Record!Edit
<1>2. RecordGood' = RecordGood
  BY <1>1 DEF RecordGood
<1> DEFINE G == RecordGood
<1>3. RecordGood' = G /\ lines \in Seq(G)
  BY <1>2
<1> HIDE DEF G
<1>4. recordFile' \in [lines : Seq(RecordGood'), ended : BOOLEAN]
  BY <1>1, <1>3
<1>5. recordEdits' \in Nat /\ recordEdits' # 0
  BY <1>1 DEF RecordInv
<1>6. store' \in Stores /\ recordSaved' \in Record!Records(store)'
  BY <1>1 DEF RecordInv
<1> QED
  BY <1>4, <1>5, <1>6 DEF RecordInv

LEMMA RecordFileIs ==
    ASSUME RecordInv
    PROVE  /\ recordFile.lines \in Seq(RecordGood) /\ recordFile.ended \in BOOLEAN
           /\ recordFile = [lines |-> recordFile.lines, ended |-> recordFile.ended]
           /\ Record!Places = 1 .. Len(recordFile.lines)
           /\ \A n \in 1 .. Len(recordFile.lines) : recordFile.lines[n] \in RecordGood
<1> DEFINE G == RecordGood
<1>1. recordFile \in [lines : Seq(G), ended : BOOLEAN]
  BY DEF RecordInv
<1> HIDE DEF G
<1>2. recordFile.lines \in Seq(G) /\ recordFile.ended \in BOOLEAN
      /\ recordFile = [lines |-> recordFile.lines, ended |-> recordFile.ended]
  BY <1>1
<1>3. DOMAIN recordFile.lines = 1 .. Len(recordFile.lines)
      /\ \A n \in 1 .. Len(recordFile.lines) : recordFile.lines[n] \in G
  BY <1>2
<1> QED
  BY <1>2, <1>3 DEF Record!Places, G

LEMMA RecordChangeValueStep == ASSUME RecordInv, Record!ChangeValue PROVE RecordInv'
<1> DEFINE f == recordFile.lines
           G == RecordGood
<1>1. f \in Seq(G) /\ recordFile.ended \in BOOLEAN /\ Record!Places = 1 .. Len(f)
      /\ \A n \in 1 .. Len(f) : f[n] \in G
  BY RecordFileIs
<1>2. PICK i \in 1 .. Len(f) :
         \E v \in Record!ValuesOf(f[i].key) :
            Record!Edit([f EXCEPT ![i].value = v], recordFile.ended)
  BY <1>1 DEF Record!ChangeValue
<1> PICK v \in Record!ValuesOf(f[i].key) :
         Record!Edit([f EXCEPT ![i].value = v], recordFile.ended)
  BY <1>2
<1>3. v \in RecordValues
  BY <1>2, RecordValuesAre
<1>4. [f[i] EXCEPT !.value = v] \in G
  <2> DEFINE l == f[i]
             k == [l EXCEPT !.value = v]
  <2>1. l \in RecordLines /\ RecordPlain(l)
        /\ (l.over # << >> =>
              \E b \in Seq(RecordLines) :
                 /\ Sealed(b) \in written /\ l.over = Record!Said(b)
                 /\ \A n \in DOMAIN b : RecordPlain(b[n]))
    BY <1>1 DEF RecordGood
  <2> HIDE DEF l
  <2>2. k \in RecordLines /\ k.key = l.key /\ k.over = l.over
    BY <1>3, <2>1 DEF RecordLines
  <2> HIDE DEF k
  <2>3. k \in RecordGood
    BY <2>1, <2>2 DEF RecordGood, RecordPlain
  <2> QED
    BY <2>3 DEF k, l
<1> HIDE DEF G, f
<1>5. [f EXCEPT ![i].value = v] = [f EXCEPT ![i] = [f[i] EXCEPT !.value = v]]
  BY <1>1, <1>2
<1>6. [f EXCEPT ![i].value = v] \in Seq(G)
  BY <1>1, <1>4, <1>5, ExceptSeq
<1> QED
  BY <1>1, <1>2, <1>6, RecordEdited DEF G

LEMMA RecordChangeKeyStep == ASSUME RecordInv, Record!ChangeKey PROVE RecordInv'
<1> DEFINE f == recordFile.lines
           G == RecordGood
<1>1. f \in Seq(G) /\ recordFile.ended \in BOOLEAN /\ Record!Places = 1 .. Len(f)
      /\ \A n \in 1 .. Len(f) : f[n] \in G
  BY RecordFileIs
<1> DEFINE S == Record!Schema(store)
<1>2. PICK i \in 1 .. Len(f), key \in {S[n] : n \in DOMAIN S} :
         Record!Edit([f EXCEPT ![i] = IF key = @.key THEN @ ELSE Record!Line(key, @.value)],
                     recordFile.ended)
  BY <1>1 DEF Record!ChangeKey
<1>3. key \in RecordKeys
  <2>1. store \in {"settings", "credentials"}
    BY RecordConstants DEF RecordInv
  <2>2. Record!Schema(store) \in Seq(RecordKeys)
    BY <2>1, RecordSchema
  <2>3. \A n \in DOMAIN Record!Schema(store) : Record!Schema(store)[n] \in RecordKeys
    BY <2>2
  <2> QED
    BY <1>2, <2>3
<1> DEFINE l == IF key = f[i].key THEN f[i] ELSE Record!Line(key, f[i].value)
<1>4. l \in G
  <2>1. f[i].value \in RecordValues
    BY <1>1, RecordGoodAre DEF RecordLines
  <2>2. Record!Line(key, f[i].value) \in RecordGood
    BY <1>3, <2>1, RecordLineIs DEF RecordGood
  <2> QED
    BY <1>1, <2>2
<1> HIDE DEF G
<1>5. [f EXCEPT ![i] = IF key = @.key THEN @ ELSE Record!Line(key, @.value)] = [f EXCEPT ![i] = l]
  OBVIOUS
<1> HIDE DEF f, l
<1>6. [f EXCEPT ![i] = l] \in Seq(G)
  BY <1>1, <1>4, ExceptSeq
<1> QED
  BY <1>1, <1>2, <1>5, <1>6, RecordEdited DEF G, f

LEMMA RecordRemoveStep == ASSUME RecordInv, Record!RemoveLine PROVE RecordInv'
<1> DEFINE f == recordFile.lines
           G == RecordGood
<1>1. f \in Seq(G) /\ recordFile.ended \in BOOLEAN /\ Record!Places = 1 .. Len(f)
  BY RecordFileIs
<1>2. PICK i \in 1 .. Len(f) : 
         Record!Edit(SubSeq(f, 1, i - 1) \o SubSeq(f, i + 1, Len(f)), recordFile.ended)
  BY <1>1 DEF Record!RemoveLine
<1> HIDE DEF G, f
<1>3. i - 1 \in 0 .. Len(f) /\ i + 1 \in Nat \ {0} /\ 1 \in Nat \ {0} /\ Len(f) \in 0 .. Len(f)
  BY <1>1
<1>4. SubSeq(f, 1, i - 1) \in Seq(G) /\ SubSeq(f, i + 1, Len(f)) \in Seq(G)
  BY <1>1, <1>3, PartIs
<1>5. SubSeq(f, 1, i - 1) \o SubSeq(f, i + 1, Len(f)) \in Seq(G)
  BY <1>4, ConcatProperties
<1> QED
  BY <1>1, <1>2, <1>5, RecordEdited DEF G, f

LEMMA RecordRepeatStep == ASSUME RecordInv, Record!RepeatLine PROVE RecordInv'
<1> DEFINE f == recordFile.lines
           G == RecordGood
<1>1. f \in Seq(G) /\ recordFile.ended \in BOOLEAN /\ Record!Places = 1 .. Len(f)
  BY RecordFileIs
<1>2. PICK i \in 1 .. Len(f) :
         Record!Edit(SubSeq(f, 1, i) \o SubSeq(f, i, Len(f)), recordFile.ended)
  BY <1>1 DEF Record!RepeatLine
<1> HIDE DEF G, f
<1>3. i \in 0 .. Len(f) /\ i \in Nat \ {0} /\ 1 \in Nat \ {0} /\ Len(f) \in 0 .. Len(f)
  BY <1>1
<1>4. SubSeq(f, 1, i) \in Seq(G) /\ SubSeq(f, i, Len(f)) \in Seq(G)
  BY <1>1, <1>3, PartIs
<1>6. SubSeq(f, 1, i) \o SubSeq(f, i, Len(f)) \in Seq(G)
  BY <1>4, ConcatProperties
<1> QED
  BY <1>1, <1>2, <1>6, RecordEdited DEF G, f

LEMMA RecordCutOffStep == ASSUME RecordInv, Record!CutOff PROVE RecordInv'
<1> DEFINE f == recordFile.lines
           G == RecordGood
<1>1. f \in Seq(G) /\ Record!Places = 1 .. Len(f)
  BY RecordFileIs
<1>2. PICK i \in 1 .. Len(f), e \in BOOLEAN : Record!Edit(SubSeq(f, 1, i), e)
  BY <1>1 DEF Record!CutOff
<1> HIDE DEF G, f
<1>3. i \in 0 .. Len(f) /\ 1 \in Nat \ {0}
  BY <1>1
<1>4. SubSeq(f, 1, i) \in Seq(G)
  BY <1>1, <1>3, PartIs
<1> QED
  BY <1>1, <1>2, <1>4, RecordEdited DEF G, f

LEMMA RecordResealStep == ASSUME RecordInv, Record!Reseal PROVE RecordInv'
<1> DEFINE f == recordFile.lines
           b == SubSeq(f, 1, Len(f) - 1)
<1>1. f \in Seq(RecordGood) /\ f # << >>
  BY RecordFileIs DEF Record!Reseal
<1>2. /\ recordFile' = Sealed(b) /\ recordEdits' = recordEdits + 1
      /\ written' = written \cup {recordFile'} /\ store' = store /\ recordSaved' = recordSaved
  BY DEF Record!Reseal, Sealed, Record!Body
<1> HIDE DEF f
<1>3. b \in Seq(RecordGood)
  <2> DEFINE G == RecordGood
  <2> HIDE DEF G
  <2>1. ASSUME f \in Seq(G) PROVE b \in Seq(G)
    BY <1>1, <2>1, FrontIs
  <2> QED
    BY <1>1, <2>1 DEF G
<1> HIDE DEF b
<1>4. b \in Seq(RecordLines) /\ Record!Crc(b) \in RecordLines
  BY <1>3, RecordGoodAre, SeqSpreads, RecordCrcIs
<1>5. \A n \in DOMAIN b : RecordPlain(b[n])
  <2> DEFINE G == RecordGood
  <2>1. \A l \in G : RecordPlain(l)
    BY DEF RecordGood
  <2> HIDE DEF G
  <2>2. ASSUME b \in Seq(G) PROVE \A n \in DOMAIN b : b[n] \in G
    BY <2>2
  <2> QED
    BY <1>3, <2>1, <2>2 DEF G
<1>6. Record!Crc(b) \in RecordGood'
  <2>1. Sealed(b) \in written'
    BY <1>2
  <2>2. RecordPlain(Record!Crc(b)) /\ Record!Crc(b).over = Record!Said(b)
    BY DEF RecordPlain, Record!Crc
  <2> QED
    BY <1>4, <1>5, <2>1, <2>2 DEF RecordGood
<1>7. b \in Seq(RecordGood')
  BY <1>2, <1>3, RecordGoodSpreads, SeqSpreads
<1>8. Append(b, Record!Crc(b)) \in Seq(RecordGood')
  BY <1>6, <1>7, AppendProperties
<1>9. recordFile' \in [lines : Seq(RecordGood'), ended : BOOLEAN]
  BY <1>2, <1>8 DEF Sealed
<1>10. recordEdits' \in Nat /\ recordEdits' # 0
  BY <1>2 DEF RecordInv
<1>11. store' \in Stores /\ recordSaved' \in Record!Records(store)'
  BY <1>2 DEF RecordInv
<1> QED
  BY <1>9, <1>10, <1>11 DEF RecordInv

LEMMA RecordStep == ASSUME RecordInv, Record!Next PROVE RecordInv'
BY RecordChangeValueStep, RecordChangeKeyStep, RecordRemoveStep, RecordRepeatStep,
   RecordCutOffStep, RecordResealStep, Zenon DEF Record!Next

LEMMA RecordLineHas ==
    ASSUME NEW key, NEW v
    PROVE  /\ Record!Line(key, v).key = key /\ Record!Line(key, v).value = v
           /\ Record!Line(key, v).over = << >>
BY DEF Record!Line

LEMMA RecordLimits ==
    ASSUME NEW key, NEW v, Record!Valid(key, v)
    PROVE  /\ v.says = "good"
           /\ key = "kosync.base_url" => v.n \in 0 .. 1296
           /\ key # "kosync.base_url" => v.n \in 0 .. 255
<1>1. v.says = "good" /\ v.n \in 1 .. Record!Limit(key)
  BY DEF Record!Valid
<1>2. CASE key = "kosync.base_url"
  <2>1. Record!Limit(key) = 1296
    BY <1>2 DEF Record!Limit
  <2> QED
    BY <1>1, <1>2, <2>1
<1>3. CASE key # "kosync.base_url"
  <2>1. Record!Limit(key) = 255
    BY <1>3 DEF Record!Limit
  <2> QED
    BY <1>1, <1>3, <2>1
<1> QED
  BY <1>2, <1>3

LEMMA RecordSettingsAre ==
    ASSUME NEW r, Record!ValidRecord("settings", r)
    PROVE  /\ r[1].n \in 0 .. 5 /\ r[2].n \in 0 .. 1296 /\ r[3].n \in 0 .. 255
           /\ r[1].says # "nul" /\ r[2].says # "nul" /\ r[3].says # "nul"
<1>1. /\ r[1] \in {Record!V("true", 4), Record!V("false", 5)}
      /\ Record!Valid("kosync.base_url", r[2]) \/ r[2] = Record!V("good", 0)
      /\ Record!Valid("kosync.device_name", r[3])
  BY DEF Record!ValidRecord
<1>2. r[1].n \in 0 .. 5 /\ r[1].says # "nul"
  BY <1>1 DEF Record!V
<1>3. r[3].says = "good" /\ r[3].n \in 0 .. 255
  <2>1. "kosync.device_name" # "kosync.base_url"
    OBVIOUS
  <2> QED
    BY <1>1, <2>1, RecordLimits
<1>4. CASE Record!Valid("kosync.base_url", r[2])
  <2>1. r[2].says = "good" /\ r[2].n \in 0 .. 1296
    BY <1>4, RecordLimits
  <2> QED
    BY <1>2, <1>3, <2>1
<1>5. CASE r[2] = Record!V("good", 0)
  BY <1>2, <1>3, <1>5 DEF Record!V
<1> QED
  BY <1>1, <1>4, <1>5

LEMMA RecordCredentialsAre ==
    ASSUME NEW r, Record!ValidRecord("credentials", r)
    PROVE  /\ r[1].n \in 0 .. 255 /\ r[2].n \in 0 .. 255
           /\ r[1].says # "nul" /\ r[2].says # "nul"
<1>1. Record!Valid("username", r[1]) /\ Record!Valid("userkey", r[2])
  BY DEF Record!ValidRecord
<1>2. "username" # "kosync.base_url" /\ "userkey" # "kosync.base_url"
  OBVIOUS
<1>3. /\ r[1].says = "good" /\ r[1].n \in 0 .. 255
      /\ r[2].says = "good" /\ r[2].n \in 0 .. 255
  BY <1>1, <1>2, RecordLimits
<1> QED
  BY <1>3

LEMMA RecordKeyLengths ==
    /\ Record!KeyLength("crossnook-settings") = 18
    /\ Record!KeyLength("crossnook-credentials") = 21
    /\ Record!KeyLength("kosync.enabled") = 14 /\ Record!KeyLength("kosync.base_url") = 15
    /\ Record!KeyLength("kosync.device_name") = 18 /\ Record!KeyLength("username") = 8
    /\ Record!KeyLength("userkey") = 7 /\ Record!KeyLength("crc32") = 5
BY DEF Record!KeyLength

(* What serialize writes of a record.                                        *)
LEMMA RecordsAre ==
    ASSUME NEW s \in {"settings", "credentials"}, NEW r \in Record!Records(s)
    PROVE  /\ r \in Seq(RecordValues) /\ Len(r) = Len(Record!Fields(s))
           /\ DOMAIN r = 1 .. Len(Record!Fields(s)) /\ Record!ValidRecord(s, r)
           /\ \A n \in 1 .. Len(Record!Fields(s)) : r[n] \in RecordValues
<1> DEFINE F == Record!Fields(s)
<1>1. F \in Seq(RecordKeys) /\ DOMAIN F = 1 .. Len(F) /\ Len(F) \in Nat
  <2>1. F \in Seq(RecordKeys)
    BY RecordSchema
  <2> QED
    BY <2>1, LenProperties
<1>2. UNION {Record!ValuesOf(F[n]) : n \in DOMAIN F} \subseteq RecordValues
  BY RecordValuesAre
<1>3. r \in [DOMAIN F -> UNION {Record!ValuesOf(F[n]) : n \in DOMAIN F}] /\ Record!ValidRecord(s, r)
  BY DEF Record!Records
<1> HIDE DEF F
<1>4. r \in [1 .. Len(F) -> RecordValues]
  BY <1>1, <1>2, <1>3
<1>5. r \in Seq(RecordValues) /\ Len(r) = Len(F)
  BY <1>1, <1>4
<1> QED
  BY <1>1, <1>3, <1>4, <1>5 DEF F

LEMMA RecordWritten ==
    ASSUME NEW s \in {"settings", "credentials"}, NEW r \in Seq(RecordValues),
           Len(r) = Len(Record!Fields(s)), NEW ls, ls = Record!serialize(s, r).lines
    PROVE  /\ ls \in Seq(RecordLines) /\ Len(ls) = Len(Record!Schema(s))
           /\ ls[1] = Record!Line(Record!Schema(s)[1], Record!One)
           /\ \A n \in 1 .. Len(Record!Fields(s)) :
                 ls[n + 1] = Record!Line(Record!Fields(s)[n], r[n])
           /\ SubSeq(ls, 1, Len(ls) - 1) \in Seq(RecordLines)
           /\ Len(SubSeq(ls, 1, Len(ls) - 1)) = Len(ls) - 1
           /\ \A n \in 1 .. Len(ls) - 1 : /\ SubSeq(ls, 1, Len(ls) - 1)[n] = ls[n]
                                          /\ RecordPlain(ls[n]) /\ ls[n].over = << >>
                                          /\ ls[n].key = Record!Schema(s)[n]
           /\ ls[Len(ls)] = Record!Crc(SubSeq(ls, 1, Len(ls) - 1))
           /\ Record!serialize(s, r) = Sealed(SubSeq(ls, 1, Len(ls) - 1))
<1> DEFINE S == Record!Schema(s)
           F == Record!Fields(s)
           L == Len(F)
           T == RecordLines
           head == Record!Line(S[1], Record!One)
           middle == [n \in DOMAIN r |-> Record!Line(F[n], r[n])]
           plain == <<head>> \o middle
           last == Record!Crc(plain)
<1>1. /\ S \in Seq(RecordKeys) /\ Len(S) = L + 2 /\ L \in Nat /\ F \in Seq(RecordKeys)
      /\ \A n \in 1 .. L : F[n] = S[n + 1] /\ F[n] \in RecordKeys
      /\ S[1] \in RecordKeys
  <2>1. /\ S \in Seq(RecordKeys) /\ Len(S) \in {4, 5} /\ F \in Seq(RecordKeys) /\ L = Len(S) - 2
        /\ \A n \in 1 .. Len(S) - 2 : F[n] = S[n + 1]
    BY RecordSchema
  <2> HIDE DEF S, F
  <2> QED
    BY <2>1
<1>2. Record!One \in RecordValues
  <2>1. "one" \in RecordSays /\ 1 \in Nat
    BY DEF RecordSays
  <2> QED
    BY <2>1, RecordV DEF Record!One
<1>3. head \in T /\ RecordPlain(head) /\ head.over = << >> /\ head.key = S[1]
  BY <1>1, <1>2, RecordLineIs
<1>4. DOMAIN r = 1 .. L /\ \A n \in 1 .. L : r[n] \in RecordValues
  BY <1>1
<1>5. \A n \in 1 .. L : /\ Record!Line(F[n], r[n]) \in T /\ RecordPlain(Record!Line(F[n], r[n]))
                        /\ Record!Line(F[n], r[n]).over = << >>
                        /\ Record!Line(F[n], r[n]).key = F[n]
  BY <1>1, <1>4, RecordLineIs
<1>6. /\ middle \in Seq(T) /\ Len(middle) = L
      /\ \A n \in 1 .. L : middle[n] = Record!Line(F[n], r[n])
  <2> HIDE DEF T, F
  <2>1. middle \in [1 .. L -> T] /\ \A n \in 1 .. L : middle[n] = Record!Line(F[n], r[n])
    BY <1>4, <1>5
  <2> HIDE DEF middle
  <2>2. L \in Nat
    BY <1>1
  <2> QED
    BY <2>1, <2>2, FunctionIsSeq
<1>7. Record!serialize(s, r) = [lines |-> Append(plain, last), ended |-> TRUE]
  BY DEF Record!serialize
<1> HIDE DEF S, F, T, head, middle
<1>8. <<head>> \in Seq(T) /\ Len(<<head>>) = 1 /\ <<head>>[1] = head
  BY <1>3
<1>9. /\ plain \in Seq(T) /\ Len(plain) = L + 1
      /\ \A n \in 1 .. L + 1 : plain[n] = IF n <= 1 THEN <<head>>[n] ELSE middle[n - 1]
  BY <1>6, <1>8, ConcatProperties
<1>10. plain[1] = head /\ \A n \in 1 .. L : plain[n + 1] = middle[n]
  <2>1. 1 \in 1 .. L + 1 /\ 1 <= 1
    BY <1>1
  <2>2. plain[1] = head
    BY <1>8, <1>9, <2>1
  <2>3. ASSUME NEW n \in 1 .. L PROVE plain[n + 1] = middle[n]
    <3>1. n + 1 \in 1 .. L + 1 /\ ~(n + 1 <= 1) /\ n + 1 - 1 = n
      BY <1>1
    <3> QED
      BY <1>9, <3>1
  <2> QED
    BY <2>2, <2>3
<1> HIDE DEF plain
<1>11. last \in T
  BY <1>9, RecordCrcIs DEF T
<1> HIDE DEF last
<1>12. /\ ls = Append(plain, last) /\ ls \in Seq(T) /\ Len(ls) = L + 2
       /\ \A n \in 1 .. L + 1 : ls[n] = plain[n]
       /\ ls[L + 2] = last
  <2>1. ls = Append(plain, last)
    BY <1>7
  <2>2. Append(plain, last)[Len(plain) + 1] = last
    BY <1>9, <1>11, AppendProperties
  <2>3. L + 1 + 1 = L + 2
    BY <1>1
  <2>4. /\ ls \in Seq(T) /\ Len(ls) = L + 1 + 1 /\ \A n \in 1 .. L + 1 : ls[n] = plain[n]
        /\ ls[L + 1 + 1] = last
    BY <1>9, <1>11, <2>1, <2>2, AppendProperties
  <2> QED
    BY <2>1, <2>3, <2>4
<1>13. ls # << >> /\ Len(ls) - 1 = L + 1
  BY <1>1, <1>12
<1>14. /\ SubSeq(ls, 1, Len(ls) - 1) \in Seq(T)
       /\ Len(SubSeq(ls, 1, Len(ls) - 1)) = L + 1
       /\ \A n \in 1 .. L + 1 : SubSeq(ls, 1, Len(ls) - 1)[n] = ls[n]
  BY <1>12, <1>13, FrontIs
<1> DEFINE front == SubSeq(ls, 1, Len(ls) - 1)
<1> HIDE DEF front
<1>15. front = plain
  <2>1. front \in Seq(T) /\ Len(front) = Len(plain) /\ \A n \in 1 .. Len(front) : front[n] = plain[n]
    BY <1>9, <1>12, <1>14 DEF front
  <2> QED
    BY <1>9, <2>1, SeqEqual
<1>16. ASSUME NEW n \in 1 .. L + 1
       PROVE  RecordPlain(plain[n]) /\ plain[n].over = << >> /\ plain[n].key = S[n]
  <2>1. CASE n = 1
    BY <1>3, <1>10, <2>1
  <2>2. CASE n # 1
    <3>1. n - 1 \in 1 .. L /\ (n - 1) + 1 = n
      BY <1>1, <2>2
    <3>2. plain[n] = middle[n - 1] /\ middle[n - 1] = Record!Line(F[n - 1], r[n - 1])
          /\ F[n - 1] = S[n]
      BY <1>1, <1>6, <1>10, <3>1
    <3> QED
      BY <1>5, <3>1, <3>2
  <2> QED
    BY <2>1, <2>2
<1>17. Record!serialize(s, r) = Sealed(front)
  BY <1>7, <1>15 DEF Sealed, last
<1>18. ls[1] = head /\ \A n \in 1 .. L : ls[n + 1] = Record!Line(F[n], r[n])
  <2>1. 1 \in 1 .. L + 1 /\ \A n \in 1 .. L : n + 1 \in 1 .. L + 1
    BY <1>1
  <2> QED
    BY <1>6, <1>10, <1>12, <2>1
<1>19. ls[Len(ls)] = Record!Crc(front)
  BY <1>12, <1>15 DEF last
<1>20. Len(ls) = Len(S)
  BY <1>1, <1>12
<1>21. \A n \in 1 .. Len(ls) - 1 : /\ front[n] = ls[n] /\ RecordPlain(ls[n])
                                   /\ ls[n].over = << >> /\ ls[n].key = S[n]
  BY <1>12, <1>13, <1>15, <1>16
<1>22. front \in Seq(T) /\ Len(front) = Len(ls) - 1
  BY <1>13, <1>14 DEF front
<1> QED
  BY <1>12, <1>17, <1>18, <1>19, <1>20, <1>21, <1>22 DEF front, S, F, T, head

LEMMA RecordInitially == Record!Init => RecordInv
<1> SUFFICES ASSUME Record!Init PROVE RecordInv
  OBVIOUS
<1>1. /\ store \in Stores /\ recordSaved \in Record!Records(store) /\ recordEdits = 0
      /\ recordFile = Record!serialize(store, recordSaved) /\ written = {recordFile}
  BY DEF Record!Init
<1>2. store \in {"settings", "credentials"}
  BY <1>1, RecordConstants
<1> DEFINE ls == recordFile.lines
           b == SubSeq(ls, 1, Len(ls) - 1)
<1>3. recordSaved \in Seq(RecordValues) /\ Len(recordSaved) = Len(Record!Fields(store))
  BY <1>1, <1>2, RecordsAre
<1>4. /\ ls \in Seq(RecordLines) /\ Len(ls) = Len(Record!Schema(store))
      /\ b \in Seq(RecordLines) /\ Len(b) = Len(ls) - 1
      /\ \A n \in 1 .. Len(ls) - 1 : b[n] = ls[n] /\ RecordPlain(ls[n]) /\ ls[n].over = << >>
      /\ ls[Len(ls)] = Record!Crc(b)
      /\ recordFile = Sealed(b)
  <2>1. ls = Record!serialize(store, recordSaved).lines
    BY <1>1
  <2> QED
    BY <1>1, <1>2, <1>3, <2>1, RecordWritten
<1>5. Len(ls) \in Nat /\ Len(ls) # 0
  BY <1>2, <1>4, RecordSchema
<1> HIDE DEF b
<1>6. \A n \in DOMAIN b : RecordPlain(b[n])
  BY <1>4, <1>5
<1>7. Record!Crc(b) \in RecordGood
  <2>1. Sealed(b) \in written
    BY <1>1, <1>4
  <2>2. RecordPlain(Record!Crc(b)) /\ Record!Crc(b).over = Record!Said(b)
    BY DEF RecordPlain, Record!Crc
  <2>3. Record!Crc(b) \in RecordLines
    BY <1>4, RecordCrcIs
  <2> QED
    BY <1>4, <1>6, <2>1, <2>2, <2>3 DEF RecordGood
<1>8. \A n \in 1 .. Len(ls) : ls[n] \in RecordGood
  <2> TAKE n \in 1 .. Len(ls)
  <2>1. CASE n = Len(ls)
    BY <1>4, <1>7, <2>1
  <2>2. CASE n # Len(ls)
    <3>1. n \in 1 .. Len(ls) - 1 /\ ls[n] \in RecordLines
      BY <1>4, <1>5, <2>2
    <3> QED
      BY <1>4, <3>1 DEF RecordGood
  <2> QED
    BY <2>1, <2>2
<1> DEFINE G == RecordGood
<1> HIDE DEF G, ls
<1>9. ls \in Seq(G)
  <2>1. ls \in [1 .. Len(ls) -> G]
    <3>1. ls \in [1 .. Len(ls) -> RecordLines]
      BY <1>4
    <3> QED
      BY <1>8, <3>1 DEF G
  <2> QED
    BY <1>5, <2>1
<1>10. recordFile \in [lines : Seq(G), ended : BOOLEAN]
  <2>1. recordFile = [lines |-> ls, ended |-> TRUE]
    BY <1>4 DEF Sealed, ls
  <2> QED
    BY <1>9, <2>1
<1> QED
  BY <1>1, <1>10 DEF RecordInv, G

(* A file that is loaded: its first lines are plain, and the checksum is      *)
(* over them.                                                               *)
LEMMA RecordParsed ==
    ASSUME RecordInv, Record!parse(store, recordFile) = "OK",
           NEW ls, ls = recordFile.lines, NEW b, b = SubSeq(ls, 1, Len(ls) - 1)
    PROVE  /\ ls \in Seq(RecordLines) /\ Len(ls) = Len(Record!Schema(store))
           /\ b \in Seq(RecordLines) /\ Len(b) = Len(ls) - 1
           /\ \A n \in 1 .. Len(ls) - 1 : b[n] = ls[n] /\ ls[n].over = << >>
           /\ \A n \in 1 .. Len(ls) : ls[n].key = Record!Schema(store)[n]
           /\ ls[1].value = Record!One
           /\ ls[Len(ls)] = Record!Crc(b) /\ recordFile = Sealed(b)
<1> DEFINE S == Record!Schema(store)
           L == Len(S)
<1>1. store \in {"settings", "credentials"}
  BY RecordConstants DEF RecordInv
<1>2. /\ Record!Version(store, recordFile) = "one" /\ Record!Whole(store, recordFile)
      /\ Record!FieldsFit(store, recordFile) /\ Record!SumFits(store, recordFile)
  <2>1. /\ Record!Version(store, recordFile) \in {"none", "other", "one"}
        /\ Record!Version(store, recordFile) \notin {"none", "other"}
    BY Zenon DEF Record!parse, Record!Version
  <2> QED
    BY <2>1, Zenon DEF Record!parse
<1>3. L \in {4, 5} /\ S[L] = "crc32" /\ DOMAIN S = 1 .. L /\ \A n \in 1 .. L - 1 : S[n] # "crc32"
  <2>1. S \in Seq(RecordKeys) /\ L \in {4, 5} /\ S[L] = "crc32"
        /\ \A n \in 1 .. L - 1 : S[n] # "crc32"
    BY <1>1, RecordSchema
  <2> HIDE DEF S
  <2> QED
    BY <2>1
<1>4. Len(ls) = L /\ recordFile.ended = TRUE
  BY <1>2 DEF Record!Whole, RecordInv
<1>5. \A n \in 1 .. L : ls[n].key = S[n]
  BY <1>2, <1>3 DEF Record!FieldsFit
<1>6. ls[1].value = Record!One
  BY <1>2, Zenon DEF Record!Version
<1>7. ls[L].value = Record!V("hex", 8) /\ ls[L].over = Record!Said(b)
  BY <1>2, <1>4 DEF Record!SumFits
<1>8. ls \in Seq(RecordGood) /\ \A n \in 1 .. L : ls[n] \in RecordGood
  BY <1>4, RecordFileIs
<1>9. ls \in Seq(RecordLines)
  BY <1>8, RecordGoodAre, SeqSpreads
<1>10. \A n \in 1 .. L - 1 : ls[n].over = << >>
  <2> TAKE n \in 1 .. L - 1
  <2>1. n \in 1 .. L
    BY <1>3
  <2>2. RecordPlain(ls[n])
    BY <1>8, <2>1, RecordGoodAre
  <2> QED
    BY <1>3, <1>5, <2>1, <2>2 DEF RecordPlain
<1>11. b \in Seq(RecordLines) /\ Len(b) = L - 1 /\ \A n \in 1 .. L - 1 : b[n] = ls[n]
  <2>1. ls # << >>
    BY <1>3, <1>4
  <2> QED
    BY <1>4, <1>9, <2>1, FrontIs
<1>12. L \in 1 .. L /\ ls[L] \in RecordLines
  BY <1>3, <1>4, <1>9
<1>13. ls[L] = Record!Crc(b)
  <2>1. ls[L] = [key |-> ls[L].key, value |-> ls[L].value, over |-> ls[L].over]
    BY <1>12 DEF RecordLines
  <2>2. ls[L].key = "crc32"
    BY <1>3, <1>5, <1>12
  <2> QED
    BY <1>7, <2>1, <2>2 DEF Record!Crc
<1> HIDE DEF S
<1>14. ls = Append(b, Record!Crc(b))
  <2>1. Record!Crc(b) \in RecordLines
    BY <1>11, RecordCrcIs
  <2>2. \A m, n : Len(ls) = n /\ Len(b) = m /\ m = n - 1 /\ n \in {4, 5} => Len(ls) = Len(b) + 1
    OBVIOUS
  <2>3. Len(ls) = Len(b) + 1 /\ Len(b) + 1 = L
    BY <1>3, <1>4, <1>11, <2>2
  <2>4. \A n \in 1 .. Len(b) : b[n] = ls[n]
    BY <1>11, Zenon
  <2>5. ls[Len(b) + 1] = Record!Crc(b)
    BY <1>13, <2>3, Zenon
  <2> QED
    BY <1>9, <1>11, <2>1, <2>3, <2>4, <2>5, AppendIs, Zenon
<1>15. recordFile = Sealed(b)
  BY <1>4, <1>14, RecordFileIs DEF Sealed
<1> QED
  BY <1>4, <1>5, <1>6, <1>9, <1>10, <1>11, <1>13, <1>15 DEF S

LEMMA RecordDamageIsSeen == ASSUME RecordInv PROVE Record!DamageIsSeen
<1> SUFFICES ASSUME Record!parse(store, recordFile) = "OK" PROVE recordFile \in written
  BY DEF Record!DamageIsSeen
<1> DEFINE ls == recordFile.lines
           b == SubSeq(ls, 1, Len(ls) - 1)
           L == Len(ls)
           S == Record!Schema(store)
<1>1. /\ ls \in Seq(RecordLines) /\ L = Len(S)
      /\ b \in Seq(RecordLines) /\ Len(b) = L - 1
      /\ \A n \in 1 .. L - 1 : b[n] = ls[n] /\ ls[n].over = << >>
      /\ \A n \in 1 .. L : ls[n].key = S[n]
      /\ ls[L] = Record!Crc(b) /\ recordFile = Sealed(b)
  BY RecordParsed
<1>2. L \in {4, 5} /\ \A n \in 1 .. L - 1 : S[n] # "crc32"
  <2>1. store \in {"settings", "credentials"}
    BY RecordConstants DEF RecordInv
  <2> QED
    BY <1>1, <2>1, RecordSchema
<1> HIDE DEF b, S
<1>3. L \in 1 .. L /\ ls[L] \in RecordGood
  BY <1>1, <1>2, RecordFileIs
<1>4. ls[L].over = Record!Said(b)
  BY <1>1 DEF Record!Crc
<1>5. Record!Said(b) # << >>
  BY <1>1, <1>2, RecordSaidIs
<1>6. PICK c \in Seq(RecordLines) :
         /\ Sealed(c) \in written /\ ls[L].over = Record!Said(c)
         /\ \A n \in DOMAIN c : RecordPlain(c[n])
  BY <1>3, <1>4, <1>5, Zenon DEF RecordGood
<1>7. Record!Said(c) = Record!Said(b)
  BY <1>4, <1>6
<1>8. Len(c) = Len(b)
  BY <1>1, <1>6, <1>7, RecordSaidIs
<1>9. ASSUME NEW n \in 1 .. Len(b) PROVE c[n] = b[n]
  <2>1. Record!Said(c)[n] = <<c[n].key, c[n].value>> /\ Record!Said(b)[n] = <<b[n].key, b[n].value>>
    BY <1>1, <1>6, <1>8, RecordSaidIs
  <2>2. c[n].key = b[n].key /\ c[n].value = b[n].value
    BY <1>7, <2>1
  <2>3. n \in 1 .. L - 1 /\ n \in 1 .. L /\ n \in DOMAIN c
    BY <1>1, <1>2, <1>6, <1>8
  <2>4. b[n].over = << >> /\ b[n].key = S[n] /\ S[n] # "crc32"
    BY <1>1, <1>2, <2>3
  <2>5. c[n].over = << >>
    BY <1>6, <2>2, <2>3, <2>4 DEF RecordPlain
  <2>6. c[n] \in RecordLines /\ b[n] \in RecordLines
    BY <1>1, <1>6, <1>8
  <2> QED
    BY <2>2, <2>4, <2>5, <2>6 DEF RecordLines
<1>10. c = b
  BY <1>1, <1>6, <1>8, <1>9, SeqEqual
<1> QED
  BY <1>1, <1>6, <1>10

LEMMA RecordOkIsCanonical == ASSUME RecordInv PROVE Record!OkIsCanonical
<1> SUFFICES ASSUME Record!parse(store, recordFile) = "OK"
             PROVE  recordFile = Record!serialize(store, Record!RecordOf(store, recordFile))
  BY DEF Record!OkIsCanonical
<1> DEFINE ls == recordFile.lines
           b == SubSeq(ls, 1, Len(ls) - 1)
           L == Len(ls)
           S == Record!Schema(store)
           F == Record!Fields(store)
           r == Record!RecordOf(store, recordFile)
           ks == Record!serialize(store, r).lines
           c == SubSeq(ks, 1, Len(ks) - 1)
<1>1. /\ ls \in Seq(RecordLines) /\ L = Len(S)
      /\ b \in Seq(RecordLines) /\ Len(b) = L - 1
      /\ \A n \in 1 .. L - 1 : b[n] = ls[n] /\ ls[n].over = << >>
      /\ \A n \in 1 .. L : ls[n].key = S[n]
      /\ ls[1].value = Record!One /\ recordFile = Sealed(b)
  BY RecordParsed
<1>2. store \in {"settings", "credentials"}
  BY RecordConstants DEF RecordInv
<1>3. L \in {4, 5} /\ Len(F) = L - 2 /\ DOMAIN F = 1 .. L - 2 /\ \A n \in 1 .. L - 2 : F[n] = S[n + 1]
  BY <1>1, <1>2, RecordSchema
<1>4. \A n \in 1 .. L : ls[n] \in RecordLines /\ ls[n].value \in RecordValues
  <2>1. \A n \in 1 .. L : ls[n] \in RecordLines
    BY <1>1
  <2> QED
    BY <2>1, RecordLinesAre
<1>5. r \in Seq(RecordValues) /\ Len(r) = L - 2 /\ \A n \in 1 .. L - 2 : r[n] = ls[n + 1].value
  <2>1. r = [n \in 1 .. L - 2 |-> ls[n + 1].value]
    BY <1>3 DEF Record!RecordOf
  <2>2. \A n \in 1 .. L - 2 : n + 1 \in 1 .. L
    BY <1>3
  <2> HIDE DEF r, ls
  <2>3. r \in [1 .. L - 2 -> RecordValues] /\ L - 2 \in Nat /\ \A n \in 1 .. L - 2 : r[n] = ls[n + 1].value
    BY <1>3, <1>4, <2>1, <2>2
  <2> QED
    BY <2>3, FunctionIsSeq
<1> HIDE DEF r
<1>6. /\ ks \in Seq(RecordLines) /\ Len(ks) = Len(S)
      /\ ks[1] = Record!Line(S[1], Record!One)
      /\ \A n \in 1 .. Len(F) : ks[n + 1] = Record!Line(F[n], r[n])
      /\ c \in Seq(RecordLines) /\ Len(c) = Len(ks) - 1
      /\ \A n \in 1 .. Len(ks) - 1 : c[n] = ks[n]
      /\ Record!serialize(store, r) = Sealed(c)
  <2>1. ks = Record!serialize(store, r).lines
    OBVIOUS
  <2>2. Len(r) = Len(F)
    BY <1>3, <1>5
  <2> HIDE DEF ks
  <2> QED
    BY <1>2, <1>5, <2>1, <2>2, RecordWritten DEF c
<1> HIDE DEF c, b, ls, ks, S, F
<1>7. ASSUME NEW n \in 1 .. L - 1 PROVE b[n] = c[n]
  <2>1. b[n] = ls[n] /\ ls[n] \in RecordLines /\ ls[n].over = << >> /\ ls[n].key = S[n]
    <3>1. n \in 1 .. L
      BY <1>3
    <3> QED
      BY <1>1, <1>4, <3>1
  <2>2. c[n] = ks[n]
    BY <1>1, <1>6
  <2>3. ls[n] = Record!Line(S[n], ls[n].value)
    BY <2>1 DEF Record!Line, RecordLines
  <2>4. CASE n = 1
    BY <1>1, <1>6, <2>1, <2>2, <2>3, <2>4
  <2>5. CASE n # 1
    <3>1. n - 1 \in 1 .. L - 2 /\ n - 1 \in 1 .. Len(F) /\ (n - 1) + 1 = n
      BY <1>3, <2>5
    <3>2. ks[n] = Record!Line(F[n - 1], r[n - 1]) /\ F[n - 1] = S[n] /\ r[n - 1] = ls[n].value
      BY <1>3, <1>5, <1>6, <3>1
    <3> QED
      BY <2>1, <2>2, <2>3, <3>2
  <2> QED
    BY <2>4, <2>5
<1>8. b = c
  BY <1>1, <1>6, <1>7, SeqEqual
<1> QED
  BY <1>1, <1>6, <1>8 DEF r

LEMMA RecordSettingsOfFuture == ASSUME RecordInv PROVE Record!SettingsOfFutureVersion
<1> SUFFICES ASSUME store = "settings", Record!FutureVersion("settings")
             PROVE  Record!parse(store, recordFile) = "UNSUPPORTED_VERSION"
  BY DEF Record!SettingsOfFutureVersion
<1>1. /\ ~Record!HasNul(recordFile) /\ recordFile.lines # << >> /\ Record!FirstLine(recordFile)
      /\ recordFile.lines[1].key = Record!Schema("settings")[1]
      /\ recordFile.lines[1].value = Record!V("two", 1)
  BY DEF Record!FutureVersion
<1>2. Record!V("two", 1).says = "two" /\ Record!One.says = "one"
  BY DEF Record!V, Record!One
<1>3. Record!Version(store, recordFile) = "other"
  BY <1>1, <1>2 DEF Record!Version
<1> QED
  BY <1>1, <1>3 DEF Record!parse

(* The bytes of a file, line by line.                                        *)
RecordSize(l) == Record!KeyLength(l.key) + l.value.n + 2

LEMMA RecordSizeIs == ASSUME NEW l \in RecordLines PROVE RecordSize(l) \in Nat
<1>1. l.key \in RecordKeys /\ l.value \in RecordValues
  BY RecordLinesAre
<1>2. l.value.n \in Nat
  BY <1>1 DEF RecordValues
<1>3. Record!KeyLength(l.key) \in Nat
  BY <1>1 DEF RecordKeys, Record!KeyLength
<1> QED
  BY <1>2, <1>3 DEF RecordSize

LEMMA RecordBytesAre ==
    ASSUME NEW f, NEW ls \in Seq(RecordLines), ls = f.lines
    PROVE  \E u : /\ u[0] = 0 /\ Record!Bytes(f) = u[Len(ls)]
                  /\ \A n \in 1 .. Len(ls) : u[n] = u[n - 1] + RecordSize(ls[n])
<1> DEFINE N == Len(ls)
           w == [n \in 1 .. N |-> RecordSize(ls[n])]
<1>1. N \in Nat /\ \A n \in 1 .. N : ls[n] \in RecordLines
  OBVIOUS
<1>2. \A n \in 1 .. N : w[n] = RecordSize(ls[n]) /\ w[n] \in Nat
  BY <1>1, RecordSizeIs
<1> HIDE DEF w
<1>5. PICK u : /\ u \in [0 .. N -> Nat]
               /\ u = [n \in 0 .. N |-> IF n = 0 THEN 0 ELSE u[n - 1] + w[n]]
  BY <1>1, <1>2, Sums, Zenon
<1>6. \A n \in 0 .. N : (IF n = 0 THEN 0 ELSE u[n - 1] + w[n])
                        = IF n = 0 THEN 0 ELSE u[n - 1] + RecordSize(ls[n])
  <2>1. \A n \in 0 .. N : n # 0 => n \in 1 .. N
    BY <1>1
  <2> QED
    BY <1>2, <2>1, Zenon
<1>7. u = [n \in 0 .. N |-> IF n = 0 THEN 0 ELSE u[n - 1] + RecordSize(ls[n])]
  BY <1>5, <1>6, Zenon
<1>8. \E g : g = [n \in 0 .. N |-> IF n = 0 THEN 0 ELSE g[n - 1] + RecordSize(ls[n])]
  BY <1>7, Zenon
<1> DEFINE g == CHOOSE g : g = [n \in 0 .. N |-> IF n = 0 THEN 0 ELSE g[n - 1] + RecordSize(ls[n])]
<1>9. Record!Bytes(f) = g[N]
  BY Zenon DEF Record!Bytes, RecordSize
<1>10. g = [n \in 0 .. N |-> IF n = 0 THEN 0 ELSE g[n - 1] + RecordSize(ls[n])]
  BY <1>8, Zenon
<1> HIDE DEF g
<1>11. 0 \in 0 .. N /\ \A n \in 1 .. N : n \in 0 .. N /\ n # 0
  BY <1>1
<1>12. g[0] = 0 /\ \A n \in 1 .. N : g[n] = g[n - 1] + RecordSize(ls[n])
  BY <1>10, <1>11, Zenon
<1> QED
  BY <1>9, <1>12, Zenon

LEMMA RecordSavedFits ==
    ASSUME NEW s \in {"settings", "credentials"}, NEW r \in Record!Records(s),
           NEW f, f = Record!serialize(s, r)
    PROVE  Record!Bytes(f) <= Record!FILE_MAX(s)
<1> DEFINE ls == f.lines
           F == Record!Fields(s)
           S == Record!Schema(s)
<1>1. /\ ls \in Seq(RecordLines) /\ Len(ls) = Len(S)
      /\ ls[1] = Record!Line(S[1], Record!One)
      /\ \A n \in 1 .. Len(F) : ls[n + 1] = Record!Line(F[n], r[n])
      /\ ls[Len(ls)] = Record!Crc(SubSeq(ls, 1, Len(ls) - 1))
  <2>1. ls = Record!serialize(s, r).lines
    OBVIOUS
  <2> HIDE DEF ls
  <2> QED
    BY <2>1, RecordsAre, RecordWritten
<1>2. PICK u : /\ u[0] = 0 /\ Record!Bytes(f) = u[Len(ls)]
               /\ \A n \in 1 .. Len(ls) : u[n] = u[n - 1] + RecordSize(ls[n])
  BY <1>1, RecordBytesAre
<1>3. ls[1].key = S[1] /\ ls[1].value.n = 1 /\ ls[Len(ls)].key = "crc32" /\ ls[Len(ls)].value.n = 8
  BY <1>1 DEF Record!Line, Record!One, Record!V, Record!Crc
<1>4. \A n \in 1 .. Len(F) : ls[n + 1].key = F[n] /\ ls[n + 1].value = r[n]
  BY <1>1, RecordLineHas
<1>5. Record!ValidRecord(s, r) /\ \A n \in 1 .. Len(F) : r[n] \in RecordValues
  BY RecordsAre
<1>6. RecordSize(ls[Len(ls)]) = 15
  BY <1>3, RecordKeyLengths DEF RecordSize
<1>7. CASE s = "settings"
  <2>1. S = <<"crossnook-settings", "kosync.enabled", "kosync.base_url",
              "kosync.device_name", "crc32">>
    BY <1>7 DEF Record!Schema
  <2> HIDE DEF S, F, ls
  <2>2. Len(S) = 5 /\ S[1] = "crossnook-settings" /\ S[2] = "kosync.enabled"
        /\ S[3] = "kosync.base_url" /\ S[4] = "kosync.device_name"
    BY <2>1
  <2>3. Len(F) = 3 /\ F[1] = S[2] /\ F[2] = S[3] /\ F[3] = S[4]
    <3>1. Len(F) = Len(S) - 2 /\ \A n \in 1 .. Len(S) - 2 : F[n] = S[n + 1]
      BY RecordSchema DEF S, F
    <3> QED
      BY <2>2, <3>1
  <2>4. /\ ls[2].key = "kosync.enabled" /\ ls[2].value = r[1]
        /\ ls[3].key = "kosync.base_url" /\ ls[3].value = r[2]
        /\ ls[4].key = "kosync.device_name" /\ ls[4].value = r[3]
    BY <1>4, <2>2, <2>3
  <2>5. r[1].n \in 0 .. 5 /\ r[2].n \in 0 .. 1296 /\ r[3].n \in 0 .. 255
    BY <1>5, <1>7, RecordSettingsAre
  <2>6. /\ RecordSize(ls[1]) = 18 + 1 + 2 /\ RecordSize(ls[2]) = 14 + r[1].n + 2
        /\ RecordSize(ls[3]) = 15 + r[2].n + 2 /\ RecordSize(ls[4]) = 18 + r[3].n + 2
    BY <1>3, <2>2, <2>4, RecordKeyLengths, Zenon DEF RecordSize
  <2>7. Len(ls) = 5
    BY <1>1, <2>2
  <2>8. /\ u[1] = u[0] + RecordSize(ls[1]) /\ u[2] = u[1] + RecordSize(ls[2])
        /\ u[3] = u[2] + RecordSize(ls[3]) /\ u[4] = u[3] + RecordSize(ls[4])
        /\ u[5] = u[4] + RecordSize(ls[5])
    BY <1>2, <2>7
  <2>9. u[5] <= 2048
    <3>1. u[0] = 0 /\ RecordSize(ls[5]) = 15
      BY <1>2, <1>6, <2>7
    <3>2. /\ u[1] = 0 + (18 + 1 + 2) /\ u[2] = u[1] + (14 + r[1].n + 2)
          /\ u[3] = u[2] + (15 + r[2].n + 2) /\ u[4] = u[3] + (18 + r[3].n + 2)
          /\ u[5] = u[4] + 15
      BY <2>6, <2>8, <3>1, Zenon
    <3> DEFINE a == r[1].n  b == r[2].n  c == r[3].n
               u1 == u[1]  u2 == u[2]  u3 == u[3]  u4 == u[4]  u5 == u[5]
    <3>3. /\ a \in 0 .. 5 /\ b \in 0 .. 1296 /\ c \in 0 .. 255
          /\ u1 = 0 + (18 + 1 + 2) /\ u2 = u1 + (14 + a + 2) /\ u3 = u2 + (15 + b + 2)
          /\ u4 = u3 + (18 + c + 2) /\ u5 = u4 + 15
      BY <2>5, <3>2, Zenon
    <3> HIDE DEF a, b, c, u1, u2, u3, u4, u5
    <3>4. u5 <= 2048
      BY <3>3
    <3> QED
      BY <3>4 DEF u5
  <2> QED
    BY <1>2, <1>7, <2>7, <2>9 DEF Record!FILE_MAX
<1>8. CASE s = "credentials"
  <2>1. S = <<"crossnook-credentials", "username", "userkey", "crc32">>
    BY <1>8 DEF Record!Schema
  <2> HIDE DEF S, F, ls
  <2>2. Len(S) = 4 /\ S[1] = "crossnook-credentials" /\ S[2] = "username" /\ S[3] = "userkey"
    BY <2>1
  <2>3. Len(F) = 2 /\ F[1] = S[2] /\ F[2] = S[3]
    <3>1. Len(F) = Len(S) - 2 /\ \A n \in 1 .. Len(S) - 2 : F[n] = S[n + 1]
      BY RecordSchema DEF S, F
    <3> QED
      BY <2>2, <3>1
  <2>4. /\ ls[2].key = "username" /\ ls[2].value = r[1]
        /\ ls[3].key = "userkey" /\ ls[3].value = r[2]
    BY <1>4, <2>2, <2>3
  <2>5. r[1].n \in 0 .. 255 /\ r[2].n \in 0 .. 255
    BY <1>5, <1>8, RecordCredentialsAre
  <2>6. /\ RecordSize(ls[1]) = 21 + 1 + 2 /\ RecordSize(ls[2]) = 8 + r[1].n + 2
        /\ RecordSize(ls[3]) = 7 + r[2].n + 2
    BY <1>3, <2>2, <2>4, RecordKeyLengths, Zenon DEF RecordSize
  <2>7. Len(ls) = 4
    BY <1>1, <2>2
  <2>8. /\ u[1] = u[0] + RecordSize(ls[1]) /\ u[2] = u[1] + RecordSize(ls[2])
        /\ u[3] = u[2] + RecordSize(ls[3]) /\ u[4] = u[3] + RecordSize(ls[4])
    BY <1>2, <2>7
  <2>9. u[4] <= 1024
    <3>1. u[0] = 0 /\ RecordSize(ls[4]) = 15
      BY <1>2, <1>6, <2>7
    <3>2. /\ u[1] = 0 + (21 + 1 + 2) /\ u[2] = u[1] + (8 + r[1].n + 2)
          /\ u[3] = u[2] + (7 + r[2].n + 2) /\ u[4] = u[3] + 15
      BY <2>6, <2>8, <3>1, Zenon
    <3> DEFINE a == r[1].n  b == r[2].n
               u1 == u[1]  u2 == u[2]  u3 == u[3]  u4 == u[4]
    <3>3. /\ a \in 0 .. 255 /\ b \in 0 .. 255
          /\ u1 = 0 + (21 + 1 + 2) /\ u2 = u1 + (8 + a + 2) /\ u3 = u2 + (7 + b + 2)
          /\ u4 = u3 + 15
      BY <2>5, <3>2, Zenon
    <3> HIDE DEF a, b, u1, u2, u3, u4
    <3>4. u4 <= 1024
      BY <3>3
    <3> QED
      BY <3>4 DEF u4
  <2> QED
    BY <1>2, <1>8, <2>7, <2>9 DEF Record!FILE_MAX
<1> QED
  BY <1>7, <1>8

LEMMA RecordSavedIsLoaded == ASSUME RecordInv PROVE Record!SavedIsLoaded
<1> SUFFICES ASSUME recordEdits = 0
             PROVE  /\ Record!Bytes(recordFile) <= Record!FILE_MAX(store)
                    /\ Record!parse(store, recordFile) = "OK"
                    /\ Record!RecordOf(store, recordFile) = recordSaved
  BY DEF Record!SavedIsLoaded
<1> DEFINE ls == recordFile.lines
           F == Record!Fields(store)
           S == Record!Schema(store)
           r == recordSaved
<1>1. store \in {"settings", "credentials"} /\ r \in Record!Records(store)
      /\ recordFile = Record!serialize(store, r)
  BY RecordConstants DEF RecordInv
<1>2. Record!Bytes(recordFile) <= Record!FILE_MAX(store)
  BY <1>1, RecordSavedFits
<1>3. /\ r \in Seq(RecordValues) /\ Len(r) = Len(F) /\ DOMAIN r = 1 .. Len(F)
      /\ Record!ValidRecord(store, r)
  BY <1>1, RecordsAre
<1>4. /\ ls \in Seq(RecordLines) /\ Len(ls) = Len(S)
      /\ ls[1] = Record!Line(S[1], Record!One)
      /\ \A n \in 1 .. Len(F) : ls[n + 1] = Record!Line(F[n], r[n])
      /\ \A n \in 1 .. Len(ls) - 1 : ls[n].key = S[n]
      /\ ls[Len(ls)] = Record!Crc(SubSeq(ls, 1, Len(ls) - 1))
      /\ recordFile = Sealed(SubSeq(ls, 1, Len(ls) - 1))
  <2>1. ls = Record!serialize(store, r).lines
    BY <1>1
  <2> HIDE DEF ls
  <2> QED
    BY <1>1, <1>3, <2>1, RecordWritten
<1>5. Len(S) \in {4, 5} /\ S[Len(S)] = "crc32" /\ DOMAIN S = 1 .. Len(S) /\ Len(F) = Len(S) - 2
      /\ DOMAIN F = 1 .. Len(F)
  <2>1. S \in Seq(RecordKeys) /\ Len(S) \in {4, 5} /\ S[Len(S)] = "crc32" /\ Len(F) = Len(S) - 2
        /\ F \in Seq(RecordKeys)
    BY <1>1, RecordSchema
  <2> QED
    BY <2>1, LenProperties
<1>6. \A n \in 1 .. Len(F) : r[n].says # "nul"
  <2>1. CASE store = "settings"
    <3>1. r[1].says # "nul" /\ r[2].says # "nul" /\ r[3].says # "nul"
      BY <1>3, <2>1, RecordSettingsAre
    <3>2. Len(S) = 5
      BY <2>1 DEF Record!Schema
    <3>3. \A n \in 1 .. Len(F) : n = 1 \/ n = 2 \/ n = 3
      BY <1>5, <3>2
    <3> QED
      BY <3>1, <3>3
  <2>2. CASE store = "credentials"
    <3>1. r[1].says # "nul" /\ r[2].says # "nul"
      BY <1>3, <2>2, RecordCredentialsAre
    <3>2. Len(S) = 4
      BY <2>2 DEF Record!Schema
    <3>3. \A n \in 1 .. Len(F) : n = 1 \/ n = 2
      BY <1>5, <3>2
    <3> QED
      BY <3>1, <3>3
  <2> QED
    BY <1>1, <2>1, <2>2
<1>7. /\ ls[1].key = S[1] /\ ls[1].value = Record!One /\ Record!One.says = "one"
      /\ \A n \in 1 .. Len(F) : ls[n + 1].value = r[n]
      /\ ls[Len(S)].value = Record!V("hex", 8) /\ Record!V("hex", 8).says = "hex"
      /\ ls[Len(S)].key = "crc32"
      /\ ls[Len(S)].over = Record!Said(SubSeq(ls, 1, Len(S) - 1))
  <2>1. Record!One.says = "one" /\ Record!V("hex", 8).says = "hex"
    BY DEF Record!One, Record!V
  <2> DEFINE front == SubSeq(ls, 1, Len(ls) - 1)
             c == Record!Crc(front)
  <2>2. c.key = "crc32" /\ c.value = Record!V("hex", 8) /\ c.over = Record!Said(front)
    BY DEF Record!Crc
  <2>3. ls[Len(S)] = c /\ front = SubSeq(ls, 1, Len(S) - 1)
    BY <1>4
  <2> HIDE DEF ls, S, F, r, front, c
  <2>4. \A n \in 1 .. Len(F) : ls[n + 1].value = r[n]
    BY <1>4, RecordLineHas
  <2>5. ls[1].key = S[1] /\ ls[1].value = Record!One
    BY <1>4, RecordLineHas
  <2> QED
    BY <2>1, <2>2, <2>3, <2>4, <2>5
<1> HIDE DEF S, F, ls, r
<1>8. recordFile.ended = TRUE /\ recordFile.lines = ls
  BY <1>4 DEF Sealed, ls
<1>9. DOMAIN ls = 1 .. Len(S) /\ ls # << >>
  BY <1>4, <1>5
<1>10. \A n \in 1 .. Len(S) : n = 1 \/ n = Len(S) \/ (n - 1 \in 1 .. Len(F) /\ (n - 1) + 1 = n)
  <2>1. \A L, K : L \in {4, 5} /\ K = L - 2 =>
           \A n \in 1 .. L : n = 1 \/ n = L \/ (n - 1 \in 1 .. K /\ (n - 1) + 1 = n)
    OBVIOUS
  <2> QED
    BY <1>5, <2>1
<1>11. ~Record!HasNul(recordFile)
  <2>1. ASSUME NEW n \in 1 .. Len(S) PROVE ls[n].value.says # "nul"
    <3>1. CASE n = 1
      BY <1>7, <3>1
    <3>2. CASE n = Len(S)
      BY <1>7, <3>2
    <3>3. CASE n - 1 \in 1 .. Len(F) /\ (n - 1) + 1 = n
      BY <1>6, <1>7, <3>3
    <3> QED
      BY <1>10, <3>1, <3>2, <3>3
  <2> QED
    BY <1>8, <1>9, <2>1 DEF Record!HasNul
<1>12. Record!Whole(store, recordFile) /\ Record!FirstLine(recordFile)
  BY <1>4, <1>5, <1>8 DEF Record!Whole, Record!FirstLine, S
<1>13. Record!Version(store, recordFile) = "one"
  BY <1>7, <1>8 DEF Record!Version, S
<1>14. Record!FieldsFit(store, recordFile)
  <2>1. \A n \in 1 .. Len(S) : n = Len(S) \/ n \in 1 .. Len(ls) - 1
    BY <1>4, <1>5
  <2>2. \A n \in 1 .. Len(S) : ls[n].key = S[n]
    BY <1>4, <1>5, <1>7, <2>1
  <2> QED
    BY <1>5, <1>8, <2>2 DEF Record!FieldsFit, S
<1>15. Record!RecordOf(store, recordFile) = r
  <2>1. Record!RecordOf(store, recordFile) = [n \in 1 .. Len(F) |-> ls[n + 1].value]
    BY <1>5, <1>8 DEF Record!RecordOf, F
  <2>2. r = [n \in 1 .. Len(F) |-> r[n]]
    BY <1>3
  <2> QED
    BY <1>7, <2>1, <2>2
<1>16. Record!SumFits(store, recordFile)
  BY <1>7, <1>8 DEF Record!SumFits, S
<1>17. Record!parse(store, recordFile) = "OK"
  BY <1>3, <1>8, <1>9, <1>11, <1>12, <1>13, <1>14, <1>15, <1>16 DEF Record!parse
<1> QED
  BY <1>2, <1>15, <1>17 DEF r

-----------------------------------------------------------------------------
(* The position in a book.                                                  *)

ProgressCells == 0 .. CELL - 1
ProgressRecords ==
    {r \in [identity : Seq(ProgressCells), location : Seq(ProgressCells), progress : ProgressCells] :
        Len(r.identity) \in ProgressCells /\ Len(r.location) \in ProgressCells}

(* What is on the disk consists of cells; it is there only when a valid      *)
(* record of a book was saved.                                              *)
ProgressInv ==
    /\ identity \in Progress!Tokens
    /\ progressFile \in Seq(ProgressCells)
    /\ progressFile # << >> =>
          /\ progressSaved \in ProgressRecords /\ progressSaved.identity \in Progress!Tokens
          /\ Progress!ValidLocation(progressSaved.location)
          /\ Progress!ValidProgress(progressSaved.progress)

LEMMA ProgressConstants ==
    /\ CELL \in Nat /\ TOKEN \in Nat /\ LOCATION \in Nat /\ MaxProgress \in Nat
    /\ CELL > 4 /\ CELL % 2 = 1 /\ MaxProgress < CELL - 1
    /\ TOKEN >= 2 /\ TOKEN < CELL /\ LOCATION < CELL - 1
    /\ {0, 1, 2, 3, 4} \subseteq ProgressCells /\ ProgressCells \subseteq Nat
BY ProgressAssumption DEF ProgressAssumption, Progress!CellAssumption, ProgressCells

LEMMA ProgressTokensAre ==
    ASSUME NEW t \in Progress!Tokens
    PROVE  t \in Seq(ProgressCells) /\ Len(t) = 2
<1>1. 1 \in ProgressCells /\ 2 \in ProgressCells /\ 3 \in ProgressCells
  BY ProgressConstants
<1>2. <<1, 2>> \in Seq(ProgressCells) /\ Len(<<1, 2>>) = 2
  BY <1>1
<1>3. <<1, 3>> \in Seq(ProgressCells) /\ Len(<<1, 3>>) = 2
  BY <1>1
<1> QED
  BY <1>2, <1>3 DEF Progress!Tokens

LEMMA ProgressLocationsAre ==
    ASSUME NEW l \in Progress!Locations
    PROVE  l \in Seq(ProgressCells) /\ Len(l) \in ProgressCells
<1>1. PICK n \in 0 .. LOCATION + 1 : l \in [1 .. n -> {0, 1, 2, Progress!BadByte}]
  BY DEF Progress!Locations
<1>2. n \in Nat /\ n \in ProgressCells
  BY <1>1, ProgressConstants DEF ProgressCells
<1>3. l \in [1 .. n -> ProgressCells]
  BY <1>1, ProgressConstants DEF Progress!BadByte
<1> QED
  BY <1>2, <1>3, FunctionIsSeq

(* The checksum.                                                            *)
LEMMA ProgressMixed ==
    ASSUME NEW v \in ProgressCells, NEW c \in ProgressCells
    PROVE  (v * 2 + c + 1) % CELL \in ProgressCells
BY ProgressConstants DEF ProgressCells

LEMMA ProgressCrcIs ==
    ASSUME NEW s \in Seq(ProgressCells)
    PROVE  \E u : /\ u \in [0 .. Len(s) -> ProgressCells] /\ u[0] = 0
                  /\ \A n \in 1 .. Len(s) : u[n] = (u[n - 1] * 2 + s[n] + 1) % CELL
                  /\ Progress!Crc(s) = u[Len(s)]
<1> DEFINE N == Len(s)
           step == [n \in 1 .. N |-> [v \in ProgressCells |-> (v * 2 + s[n] + 1) % CELL]]
           z == 0
           C == ProgressCells
<1>1. N \in Nat /\ \A n \in 1 .. N : s[n] \in C
  OBVIOUS
<1>2. \A n \in 1 .. N : \A v \in C : step[n][v] = (v * 2 + s[n] + 1) % CELL
  OBVIOUS
<1> HIDE DEF step
<1>3. \A n \in 1 .. N : \A v \in C : step[n][v] \in C
  <2> TAKE n \in 1 .. N
  <2> TAKE v \in C
  <2> HIDE DEF C
  <2>1. (v * 2 + s[n] + 1) % CELL \in C
    BY <1>1, ProgressMixed DEF C
  <2> QED
    BY <1>2, <2>1
<1>4. z \in C
  BY ProgressConstants
<1> HIDE DEF C, z, N
<1>5. PICK f : Chains(f, N, C, z, step)
  BY <1>1, <1>3, <1>4, Chain
<1>6. f \in [0 .. N -> C] /\ f[0] = 0 /\ \A n \in 1 .. N : f[n] = step[n][f[n - 1]]
  BY <1>5, Zenon DEF Chains, z
<1>7. \A n \in 0 .. N : n # 0 => n \in 1 .. N /\ f[n - 1] \in C
  <2> TAKE n \in 0 .. N
  <2>1. n # 0 => n \in 1 .. N /\ n - 1 \in 0 .. N
    BY <1>1
  <2> QED
    BY <1>6, <2>1
<1>8. \A n \in 0 .. N : f[n] = IF n = 0 THEN 0 ELSE (f[n - 1] * 2 + s[n] + 1) % CELL
  BY <1>2, <1>6, <1>7, Zenon
<1>9. [n \in 0 .. N |-> f[n]] = [n \in 0 .. N |-> IF n = 0 THEN 0 ELSE (f[n - 1] * 2 + s[n] + 1) % CELL]
  BY <1>8, Zenon
<1>10. f = [n \in 0 .. N |-> f[n]]
  BY <1>6
<1>11. f = [n \in 0 .. N |-> IF n = 0 THEN 0 ELSE (f[n - 1] * 2 + s[n] + 1) % CELL]
  BY <1>9, <1>10, Zenon
<1>12. \E g : g = [n \in 0 .. N |-> IF n = 0 THEN 0 ELSE (g[n - 1] * 2 + s[n] + 1) % CELL]
  BY <1>11, Zenon
<1> DEFINE g == CHOOSE g : g = [n \in 0 .. N |-> IF n = 0 THEN 0 ELSE (g[n - 1] * 2 + s[n] + 1) % CELL]
<1>13. Progress!Crc(s) = g[N]
  BY Zenon DEF Progress!Crc, N
<1>14. g = [n \in 0 .. N |-> IF n = 0 THEN 0 ELSE (g[n - 1] * 2 + s[n] + 1) % CELL]
  BY <1>12, Zenon
<1> HIDE DEF g
<1>15. 0 \in 0 .. N /\ \A n \in 1 .. N : n \in 0 .. N /\ n # 0
  BY <1>1
<1>16. g[0] = 0 /\ \A n \in 1 .. N : g[n] = (g[n - 1] * 2 + s[n] + 1) % CELL
  BY <1>14, <1>15, Zenon
<1> DEFINE P == {n \in Nat : g[n] \in C}
<1>17. \A n \in 0 .. N : n \in P
  <2>1. 0 \in P
    BY <1>4, <1>16 DEF z
  <2>2. ASSUME NEW n \in 1 .. N, n - 1 \in P PROVE n \in P
    <3>1. g[n - 1] \in ProgressCells /\ s[n] \in ProgressCells
      BY <1>1, <2>2 DEF C
    <3>2. g[n] \in C
      BY <1>16, <3>1, ProgressMixed DEF C
    <3> QED
      BY <1>1, <3>2
  <2> HIDE DEF P
  <2> QED
    BY <1>1, <2>1, <2>2, Induction
<1>18. g \in [0 .. N -> C]
  <2>1. \A n \in 0 .. N : g[n] \in C
    BY <1>17
  <2>2. g = [n \in 0 .. N |-> g[n]]
    BY <1>14, <1>16, <1>15
  <2> QED
    BY <2>1, <2>2
<1> QED
  BY <1>13, <1>16, <1>18 DEF N, C

LEMMA Remainder3 ==
    ASSUME NEW C \in Nat, C > 0, NEW x \in 0 .. 3 * C - 1
    PROVE  x % C = IF x < C THEN x ELSE IF x < 2 * C THEN x - C ELSE x - 2 * C
<1>1. x = C * (x \div C) + (x % C) /\ x % C \in 0 .. C - 1 /\ x \div C \in Nat
  OBVIOUS
<1> DEFINE q == x \div C
           y == x % C
<1> HIDE DEF q, y
<1>2. x = C * q + y /\ y \in 0 .. C - 1 /\ q \in Nat
  BY <1>1 DEF q, y
<1>3. q < 3
  <2>1. q >= 3 => C * q >= C * 3
    BY <1>2
  <2> QED
    BY <1>2, <2>1
<1>4. q = 0 \/ q = 1 \/ q = 2
  BY <1>2, <1>3
<1>5. y = IF x < C THEN x ELSE IF x < 2 * C THEN x - C ELSE x - 2 * C
  <2>1. CASE q = 0
    BY <1>2, <2>1
  <2>2. CASE q = 1
    BY <1>2, <2>2
  <2>3. CASE q = 2
    BY <1>2, <2>3
  <2> QED
    BY <1>4, <2>1, <2>2, <2>3
<1> QED
  BY <1>5 DEF y

(* A step of the checksum tells cells apart, and tells apart what the cells   *)
(* before were told apart as: CELL is odd.                                   *)
LEMMA ProgressApart ==
    ASSUME NEW v \in ProgressCells, NEW w \in ProgressCells,
           NEW c \in ProgressCells, NEW d \in ProgressCells,
           (v = w /\ c # d) \/ (v # w /\ c = d)
    PROVE  (v * 2 + c + 1) % CELL # (w * 2 + d + 1) % CELL
<1> DEFINE x == v * 2 + c + 1
           y == w * 2 + d + 1
<1>1. CELL \in Nat /\ CELL > 4 /\ CELL % 2 = 1
  BY ProgressConstants
<1>2. x \in 0 .. 3 * CELL - 1 /\ y \in 0 .. 3 * CELL - 1
  BY <1>1 DEF ProgressCells
<1>3. /\ x % CELL = IF x < CELL THEN x ELSE IF x < 2 * CELL THEN x - CELL ELSE x - 2 * CELL
      /\ y % CELL = IF y < CELL THEN y ELSE IF y < 2 * CELL THEN y - CELL ELSE y - 2 * CELL
  <2> HIDE DEF x, y
  <2> QED
    BY <1>1, <1>2, Remainder3
<1>4. CELL = 2 * (CELL \div 2) + 1 /\ CELL \div 2 \in Nat
  BY <1>1
<1> DEFINE h == CELL \div 2
<1> HIDE DEF h
<1>5. CELL = 2 * h + 1 /\ h \in Nat
  BY <1>4 DEF h
<1>6. v \in 0 .. 2 * h /\ w \in 0 .. 2 * h /\ c \in 0 .. 2 * h /\ d \in 0 .. 2 * h
  BY <1>5 DEF ProgressCells
<1>7. CASE v = w /\ c # d
  <2>1. x - y = c - d
    BY <1>6, <1>7
  <2>2. x - y # 0 /\ x - y < CELL /\ y - x < CELL
    BY <1>5, <1>6, <1>7
  <2> HIDE DEF x, y
  <2>3. x % CELL # y % CELL
    BY <1>1, <1>2, <1>3, <2>2
  <2> QED
    BY <2>3 DEF x, y
<1>8. CASE v # w /\ c = d
  <2>1. x - y = 2 * (v - w)
    BY <1>6, <1>8
  <2>2. v - w # 0 /\ v - w < CELL /\ w - v < CELL /\ v - w \in Int
    BY <1>5, <1>6, <1>8
  <2> DEFINE e == v - w
  <2> HIDE DEF x, y, e
  <2>3. x - y = 2 * e /\ e # 0 /\ e < CELL /\ -e < CELL /\ e \in Int
    BY <1>6, <2>1, <2>2 DEF e
  <2>4. x % CELL # y % CELL
    BY <1>1, <1>2, <1>3, <1>5, <2>3
  <2> QED
    BY <2>4 DEF x, y
<1> QED
  BY <1>7, <1>8

LEMMA ProgressCrcApart ==
    ASSUME NEW s \in Seq(ProgressCells), NEW t \in Seq(ProgressCells), Len(s) = Len(t),
           NEW n \in 1 .. Len(s), s[n] # t[n], \A k \in 1 .. Len(s) : k # n => s[k] = t[k]
    PROVE  Progress!Crc(s) # Progress!Crc(t)
<1> DEFINE N == Len(s)
<1>0. N \in Nat /\ \A k \in 1 .. N : s[k] \in ProgressCells /\ t[k] \in ProgressCells
  OBVIOUS
<1>1. PICK u : /\ u \in [0 .. N -> ProgressCells] /\ u[0] = 0
               /\ \A k \in 1 .. N : u[k] = (u[k - 1] * 2 + s[k] + 1) % CELL
               /\ Progress!Crc(s) = u[N]
  BY ProgressCrcIs
<1>2. PICK v : /\ v \in [0 .. N -> ProgressCells] /\ v[0] = 0
               /\ \A k \in 1 .. N : v[k] = (v[k - 1] * 2 + t[k] + 1) % CELL
               /\ Progress!Crc(t) = v[N]
  BY ProgressCrcIs, Zenon
<1> DEFINE P == {k \in Nat : IF k < n THEN u[k] = v[k] ELSE u[k] # v[k]}
<1> HIDE DEF N
<1>3. n \in 1 .. N
  BY DEF N
<1>4. 0 \in P
  BY <1>1, <1>2, <1>3
<1>5. ASSUME NEW k \in 1 .. N, k - 1 \in P PROVE k \in P
  <2>1. k - 1 \in 0 .. N /\ k \in Nat
    BY <1>0
  <2>2. u[k - 1] \in ProgressCells /\ v[k - 1] \in ProgressCells
    BY <1>1, <1>2, <2>1
  <2>3. s[k] \in ProgressCells /\ t[k] \in ProgressCells
    BY <1>0
  <2>4. CASE k < n
    <3>1. k - 1 < n /\ k # n
      BY <1>3, <2>1, <2>4
    <3>2. u[k - 1] = v[k - 1] /\ s[k] = t[k]
      BY <1>5, <3>1 DEF N
    <3>3. u[k] = v[k]
      BY <1>1, <1>2, <3>2
    <3> QED
      BY <2>1, <2>4, <3>3
  <2>5. CASE k = n
    <3>1. k - 1 < n /\ ~(k < n)
      BY <1>3, <2>1, <2>5
    <3>2. u[k - 1] = v[k - 1] /\ s[k] # t[k]
      BY <1>5, <2>5, <3>1
    <3>3. (u[k - 1] * 2 + s[k] + 1) % CELL # (v[k - 1] * 2 + t[k] + 1) % CELL
      BY <2>2, <2>3, <3>2, ProgressApart
    <3>4. u[k] # v[k]
      BY <1>1, <1>2, <3>3
    <3> QED
      BY <2>1, <3>1, <3>4
  <2>6. CASE k > n
    <3>1. ~(k - 1 < n) /\ ~(k < n) /\ k # n
      BY <1>3, <2>1, <2>6
    <3>2. u[k - 1] # v[k - 1] /\ s[k] = t[k]
      BY <1>5, <3>1 DEF N
    <3>3. (u[k - 1] * 2 + s[k] + 1) % CELL # (v[k - 1] * 2 + t[k] + 1) % CELL
      BY <2>2, <2>3, <3>2, ProgressApart
    <3>4. u[k] # v[k]
      BY <1>1, <1>2, <3>3
    <3> QED
      BY <2>1, <3>1, <3>4
  <2> QED
    BY <1>3, <2>1, <2>4, <2>5, <2>6
<1>6. \A k \in 0 .. N : k \in P
  <2> HIDE DEF P
  <2> QED
    BY <1>0, <1>4, <1>5, Induction
<1>7. N \in 0 .. N /\ ~(N < n)
  BY <1>0, <1>3
<1>8. u[N] # v[N]
  BY <1>6, <1>7
<1> QED
  BY <1>1, <1>2, <1>8

(* What the bytes of a record are.                                           *)
ProgressIs(f, i, l, p) ==
    /\ f \in Seq(ProgressCells) /\ Len(f) = 6 + Len(i) + Len(l)
    /\ f[1] = 3 /\ f[2] = 1 /\ f[3] = Len(i) /\ f[4] = Len(l) /\ f[5] = p
    /\ \A n \in 1 .. Len(i) : f[5 + n] = i[n]
    /\ \A n \in 1 .. Len(l) : f[5 + Len(i) + n] = l[n]
    /\ f[Len(f)] = Progress!Crc(SubSeq(f, 1, Len(f) - 1))

LEMMA ProgressBytes ==
    ASSUME NEW r \in ProgressRecords
    PROVE  ProgressIs(Progress!Serialize(r), r.identity, r.location, r.progress)
<1> DEFINE C == ProgressCells
           i == r.identity
           l == r.location
           head == <<3, 1, Len(i), Len(l), r.progress>>
           body == head \o i \o l
           f == Progress!Serialize(r)
           c == Progress!Crc(body)
<1>1. i \in Seq(C) /\ l \in Seq(C) /\ r.progress \in C /\ Len(i) \in C /\ Len(l) \in C
  BY DEF ProgressRecords
<1>2. f = Append(body, c)
  BY DEF Progress!Serialize, Progress!Magic, Progress!Version
<1>3. 3 \in C /\ 1 \in C /\ C \subseteq Nat
  BY ProgressConstants
<1> HIDE DEF C, f, i, l
<1>4. /\ head \in Seq(C) /\ Len(head) = 5 /\ head[1] = 3 /\ head[2] = 1 /\ head[3] = Len(i)
      /\ head[4] = Len(l) /\ head[5] = r.progress
  BY <1>1, <1>3
<1> DEFINE front == head \o i
<1> HIDE DEF head
<1>5. /\ front \in Seq(C) /\ Len(front) = 5 + Len(i)
      /\ \A n \in 1 .. 5 : front[n] = head[n]
      /\ \A n \in 1 .. Len(i) : front[5 + n] = i[n]
  <2>1. Joined(front, head, i, C)
    BY <1>1, <1>4, ConcatIs DEF front
  <2> HIDE DEF front
  <2> QED
    BY <1>4, <2>1, Zenon DEF Joined
<1> HIDE DEF front
<1>6. /\ body \in Seq(C) /\ Len(body) = 5 + Len(i) + Len(l)
      /\ \A n \in 1 .. 5 + Len(i) : body[n] = front[n]
      /\ \A n \in 1 .. Len(l) : body[5 + Len(i) + n] = l[n]
  <2>1. Joined(body, front, l, C)
    <3>1. body = front \o l
      BY DEF front
    <3> HIDE DEF body
    <3> QED
      BY <1>1, <1>5, <3>1, ConcatIs
  <2> HIDE DEF body
  <2> QED
    BY <1>5, <2>1, Zenon DEF Joined
<1> HIDE DEF body
<1>7. c \in C
  <2>1. body \in Seq(ProgressCells)
    BY <1>6 DEF C
  <2>2. PICK u : u \in [0 .. Len(body) -> ProgressCells] /\ c = u[Len(body)]
    BY <2>1, ProgressCrcIs
  <2>3. Len(body) \in 0 .. Len(body)
    BY <2>1
  <2> QED
    BY <2>2, <2>3 DEF C
<1> HIDE DEF c
<1>8. /\ f \in Seq(C) /\ Len(f) = Len(body) + 1 /\ f[Len(body) + 1] = c
      /\ \A n \in 1 .. Len(body) : f[n] = body[n]
  <2>1. Longer(f, body, c, C)
    BY <1>2, <1>6, <1>7, AppendHas
  <2> QED
    BY <2>1, Zenon DEF Longer
<1>9. Len(i) \in Nat /\ Len(l) \in Nat
  BY <1>1
<1>10. f[1] = 3 /\ f[2] = 1 /\ f[3] = Len(i) /\ f[4] = Len(l) /\ f[5] = r.progress
  <2>1. \A n \in 1 .. 5 : n \in 1 .. 5 + Len(i) /\ n \in 1 .. Len(body)
    BY <1>6, <1>9
  <2>2. \A n \in 1 .. 5 : f[n] = head[n]
    BY <1>5, <1>6, <1>8, <2>1, Zenon
  <2> QED
    BY <1>4, <2>2
<1>11. ASSUME NEW n \in 1 .. Len(i) PROVE f[5 + n] = i[n]
  <2>1. 5 + n \in 1 .. 5 + Len(i) /\ 5 + n \in 1 .. Len(body)
    BY <1>6, <1>9
  <2> QED
    BY <1>5, <1>6, <1>8, <2>1, Zenon
<1>12. ASSUME NEW n \in 1 .. Len(l) PROVE f[5 + Len(i) + n] = l[n]
  <2>1. 5 + Len(i) + n \in 1 .. Len(body)
    BY <1>6, <1>9
  <2> QED
    BY <1>6, <1>8, <2>1, Zenon
<1>13. SubSeq(f, 1, Len(f) - 1) = body
  <2>1. f # << >> /\ Len(f) - 1 = Len(body)
    BY <1>6, <1>8, <1>9
  <2>2. /\ SubSeq(f, 1, Len(f) - 1) \in Seq(C) /\ Len(SubSeq(f, 1, Len(f) - 1)) = Len(f) - 1
        /\ \A n \in 1 .. Len(f) - 1 : SubSeq(f, 1, Len(f) - 1)[n] = f[n]
    BY <1>8, <2>1, FrontIs
  <2> DEFINE g == SubSeq(f, 1, Len(f) - 1)
  <2> HIDE DEF g
  <2>3. g \in Seq(C) /\ Len(g) = Len(body) /\ \A n \in 1 .. Len(g) : g[n] = body[n]
    BY <1>8, <2>1, <2>2 DEF g
  <2>4. g = body
    BY <1>6, <2>3, SeqEqual
  <2> QED
    BY <2>4 DEF g
<1>14. Len(f) = 6 + Len(i) + Len(l) /\ f[Len(f)] = Progress!Crc(SubSeq(f, 1, Len(f) - 1))
  <2>1. f[Len(f)] = c
    BY <1>8
  <2>2. Len(f) = 6 + Len(i) + Len(l)
    BY <1>6, <1>8, <1>9
  <2> QED
    BY <1>13, <2>1, <2>2, Zenon DEF c
<1> QED
  BY <1>8, <1>10, <1>11, <1>12, <1>14 DEF ProgressIs, f, i, l, C

(* There is one spelling of a record.                                        *)
LEMMA ProgressOneSpelling ==
    ASSUME NEW f, NEW g, NEW i, NEW l, NEW p, ProgressIs(f, i, l, p), ProgressIs(g, i, l, p),
           Len(i) \in Nat, Len(l) \in Nat
    PROVE  f = g
<1> DEFINE N == 5 + Len(i) + Len(l)
<1>1. /\ f \in Seq(ProgressCells) /\ g \in Seq(ProgressCells) /\ Len(f) = N + 1 /\ Len(g) = N + 1
      /\ f # << >> /\ g # << >> /\ Len(f) - 1 = N /\ Len(g) - 1 = N
  BY DEF ProgressIs
<1>2. ASSUME NEW n \in 1 .. N PROVE f[n] = g[n]
  <2>1. n \in 1 .. 5 \/ n - 5 \in 1 .. Len(i) \/ n - 5 - Len(i) \in 1 .. Len(l)
    OBVIOUS
  <2>2. CASE n \in 1 .. 5
    <3>1. n = 1 \/ n = 2 \/ n = 3 \/ n = 4 \/ n = 5
      BY <2>2
    <3> QED
      BY <3>1, Zenon DEF ProgressIs
  <2>3. CASE n - 5 \in 1 .. Len(i)
    <3> DEFINE m == n - 5
    <3>1. n = 5 + m /\ m \in 1 .. Len(i)
      BY <2>3
    <3> HIDE DEF m
    <3>2. f[5 + m] = i[m] /\ g[5 + m] = i[m]
      BY <3>1, Zenon DEF ProgressIs
    <3> QED
      BY <3>1, <3>2
  <2>4. CASE n - 5 - Len(i) \in 1 .. Len(l)
    <3> DEFINE m == n - 5 - Len(i)
    <3>1. n = 5 + Len(i) + m /\ m \in 1 .. Len(l)
      BY <2>4
    <3> HIDE DEF m
    <3>2. f[5 + Len(i) + m] = l[m] /\ g[5 + Len(i) + m] = l[m]
      BY <3>1, Zenon DEF ProgressIs
    <3> QED
      BY <3>1, <3>2
  <2> QED
    BY <2>1, <2>2, <2>3, <2>4
<1> DEFINE a == SubSeq(f, 1, Len(f) - 1)
           b == SubSeq(g, 1, Len(g) - 1)
<1>3. /\ a \in Seq(ProgressCells) /\ Len(a) = Len(f) - 1 /\ \A n \in 1 .. Len(f) - 1 : a[n] = f[n]
      /\ b \in Seq(ProgressCells) /\ Len(b) = Len(g) - 1 /\ \A n \in 1 .. Len(g) - 1 : b[n] = g[n]
  BY <1>1, FrontIs
<1>4. f[Len(f)] = Progress!Crc(a) /\ g[Len(g)] = Progress!Crc(b)
  BY DEF ProgressIs
<1> HIDE DEF a, b, N
<1>5. a = b
  <2>1. Len(a) = Len(b) /\ \A n \in 1 .. Len(a) : a[n] = b[n]
    BY <1>1, <1>2, <1>3
  <2> QED
    BY <1>3, <2>1, SeqEqual
<1>6. N \in Nat
  BY DEF N
<1>7. ASSUME NEW n \in 1 .. Len(f) PROVE f[n] = g[n]
  <2>1. n \in 1 .. N \/ n = N + 1
    BY <1>1, <1>6
  <2> QED
    BY <1>1, <1>2, <1>4, <1>5, <2>1
<1> QED
  BY <1>1, <1>7, SeqEqual

(* When a file is taken for a record.                                        *)
ProgressTaken(f) ==
    /\ Len(f) >= 6 /\ f[1] = 3 /\ f[2] = 1 /\ f[3] \in 1 .. TOKEN /\ f[4] \in 1 .. LOCATION
    /\ Len(f) = 6 + f[3] + f[4]
    /\ f[Len(f)] = Progress!Crc(SubSeq(f, 1, Len(f) - 1))
    /\ SubSeq(f, 6, 5 + f[3]) = identity
    /\ Progress!ValidProgress(f[5]) /\ Progress!ValidLocation(SubSeq(f, 6 + f[3], Len(f) - 1))

LEMMA ProgressJudged ==
    ASSUME NEW f \in Seq(ProgressCells), Len(f) # 0
    PROVE  /\ Progress!Judge(f) = "OK" <=> ProgressTaken(f)
           /\ Progress!Judge(f) \in {"CORRUPT", "UNSUPPORTED", "OK"}
           /\ (Len(f) \in 2 .. 5 + TOKEN + 1 + LOCATION + 1
               /\ f[1] = Progress!Magic /\ f[2] # Progress!Version)
                => Progress!Judge(f) = "UNSUPPORTED"
           /\ Len(f) <= 5 + TOKEN + 1 + LOCATION + 1 /\ f[1] = 3 /\ f[2] = 1 /\ Len(f) >= 2
                => Progress!Judge(f) \in {"OK", "CORRUPT"}
<1> DEFINE size == Len(f)
           ids == f[3]
           locations == f[4]
           taken == /\ size >= 5 + 1 /\ ids \in 1 .. TOKEN /\ locations \in 1 .. LOCATION
                    /\ size = 5 + ids + locations + 1
                    /\ f[size] = Progress!Crc(SubSeq(f, 1, size - 1))
                    /\ SubSeq(f, 5 + 1, 5 + ids) = identity
                    /\ Progress!ValidProgress(f[5])
                    /\ Progress!ValidLocation(SubSeq(f, 5 + ids + 1, size - 1))
<1>1. size \in Nat /\ TOKEN \in Nat /\ LOCATION \in Nat
  BY ProgressConstants
<1>2. Progress!Judge(f) =
        IF size < 2 \/ size > 5 + TOKEN + 1 + LOCATION + 1 THEN "CORRUPT"
        ELSE IF f[1] # 3 THEN "CORRUPT"
        ELSE IF f[2] # 1 THEN "UNSUPPORTED"
        ELSE IF taken THEN "OK" ELSE "CORRUPT"
  BY Zenon DEF Progress!Judge, Progress!Sized, Progress!HEADER, Progress!MIN, Progress!Magic,
         Progress!Version
<1>3. taken /\ f[1] = 3 /\ f[2] = 1 <=> ProgressTaken(f)
  <2>1. ids \in 1 .. TOKEN /\ size \in Nat =>
           /\ 5 + ids + 1 = 6 + ids /\ 5 + 1 = 6
           /\ \A k \in Nat : (size = 5 + ids + k + 1 <=> size = 6 + ids + k)
    BY <1>1
  <2>2. \A k \in 1 .. LOCATION : k \in Nat
    OBVIOUS
  <2> QED
    BY <1>1, <2>1, <2>2, Zenon DEF ProgressTaken
<1>4. ProgressTaken(f) => size >= 2 /\ ~(size < 2) /\ ~(size > 5 + TOKEN + 1 + LOCATION + 1)
  <2>1. ProgressTaken(f) => size >= 6 /\ ids \in 1 .. TOKEN /\ locations \in 1 .. LOCATION
                            /\ size = 6 + ids + locations
    BY Zenon DEF ProgressTaken
  <2> HIDE DEF size, ids, locations
  <2> QED
    BY <1>1, <2>1
<1> HIDE DEF taken
<1>5. Progress!Judge(f) \in {"CORRUPT", "UNSUPPORTED", "OK"}
  BY <1>2
<1>6. Progress!Judge(f) = "OK" <=> ProgressTaken(f)
  BY <1>2, <1>3, <1>4
<1>7. (size \in 2 .. 5 + TOKEN + 1 + LOCATION + 1
       /\ f[1] = Progress!Magic /\ f[2] # Progress!Version)
        => Progress!Judge(f) = "UNSUPPORTED"
  <2> SUFFICES ASSUME size \in 2 .. 5 + TOKEN + 1 + LOCATION + 1, f[1] = 3, f[2] # 1
               PROVE  Progress!Judge(f) = "UNSUPPORTED"
    BY DEF Progress!Magic, Progress!Version
  <2>1. ~(size < 2) /\ ~(size > 5 + TOKEN + 1 + LOCATION + 1)
    <3> HIDE DEF size
    <3> QED
      BY <1>1
  <2> QED
    BY <1>2, <2>1, Zenon
<1>8. size <= 5 + TOKEN + 1 + LOCATION + 1 /\ f[1] = 3 /\ f[2] = 1 /\ size >= 2
        => Progress!Judge(f) \in {"OK", "CORRUPT"}
  BY <1>1, <1>2
<1> QED
  BY <1>5, <1>6, <1>7, <1>8

LEMMA ProgressParts ==
    ASSUME NEW f, NEW i \in Seq(ProgressCells), NEW l \in Seq(ProgressCells), NEW p,
           ProgressIs(f, i, l, p)
    PROVE  SubSeq(f, 6, 5 + Len(i)) = i /\ SubSeq(f, 6 + Len(i), Len(f) - 1) = l
<1> DEFINE C == ProgressCells
           a == SubSeq(f, 6, 5 + Len(i))
           b == SubSeq(f, 6 + Len(i), Len(f) - 1)
<1>1. /\ f \in Seq(C) /\ Len(f) = 6 + Len(i) + Len(l)
      /\ \A n \in 1 .. Len(i) : f[5 + n] = i[n]
      /\ \A n \in 1 .. Len(l) : f[5 + Len(i) + n] = l[n]
  BY Zenon DEF ProgressIs
<1>2. Len(i) \in Nat /\ Len(l) \in Nat /\ i \in Seq(C) /\ l \in Seq(C)
  OBVIOUS
<1> HIDE DEF C
<1>3. a = i
  <2>1. 6 \in Nat \ {0} /\ 5 + Len(i) \in 0 .. Len(f)
    BY <1>1, <1>2
  <2>2. /\ a \in Seq(C) /\ Len(a) = IF 6 <= 5 + Len(i) THEN 5 + Len(i) - 6 + 1 ELSE 0
        /\ \A k \in 1 .. 5 + Len(i) - 6 + 1 : a[k] = f[6 + k - 1]
    BY <1>1, <2>1, PartIs
  <2> HIDE DEF a
  <2>3. Len(a) = Len(i)
    BY <1>2, <2>2
  <2>4. ASSUME NEW k \in 1 .. Len(a) PROVE a[k] = i[k]
    <3>1. k \in 1 .. Len(i) /\ k \in 1 .. 5 + Len(i) - 6 + 1 /\ 6 + k - 1 = 5 + k
      BY <1>2, <2>3
    <3> QED
      BY <1>1, <2>2, <3>1
  <2> QED
    BY <1>2, <2>2, <2>3, <2>4, SeqEqual
<1>4. b = l
  <2>1. 6 + Len(i) \in Nat \ {0} /\ Len(f) - 1 \in 0 .. Len(f)
    BY <1>1, <1>2
  <2>2. /\ b \in Seq(C)
        /\ Len(b) = IF 6 + Len(i) <= Len(f) - 1 THEN Len(f) - 1 - (6 + Len(i)) + 1 ELSE 0
        /\ \A k \in 1 .. Len(f) - 1 - (6 + Len(i)) + 1 : b[k] = f[6 + Len(i) + k - 1]
    BY <1>1, <2>1, PartIs
  <2> HIDE DEF b
  <2>3. Len(b) = Len(l)
    BY <1>1, <1>2, <2>2
  <2>4. ASSUME NEW k \in 1 .. Len(b) PROVE b[k] = l[k]
    <3>1. k \in 1 .. Len(l) /\ k \in 1 .. Len(f) - 1 - (6 + Len(i)) + 1
          /\ 6 + Len(i) + k - 1 = 5 + Len(i) + k
      BY <1>1, <1>2, <2>3
    <3> QED
      BY <1>1, <2>2, <3>1
  <2> QED
    BY <1>2, <2>2, <2>3, <2>4, SeqEqual
<1> QED
  BY <1>3, <1>4

LEMMA ProgressTakenIs ==
    ASSUME NEW f \in Seq(ProgressCells), identity \in Progress!Tokens, ProgressTaken(f),
           NEW l, l = SubSeq(f, 6 + f[3], Len(f) - 1)
    PROVE  /\ l \in Seq(ProgressCells) /\ Len(l) = f[4] /\ Len(identity) = f[3]
           /\ f[5] \in ProgressCells /\ ProgressIs(f, identity, l, f[5])
<1> DEFINE C == ProgressCells
           a == f[3]
           b == f[4]
           N == Len(f)
<1>1. /\ N >= 6 /\ f[1] = 3 /\ f[2] = 1 /\ a \in 1 .. TOKEN /\ b \in 1 .. LOCATION
      /\ N = 6 + a + b /\ f[N] = Progress!Crc(SubSeq(f, 1, N - 1))
      /\ SubSeq(f, 6, 5 + a) = identity
  BY Zenon DEF ProgressTaken
<1>2. f \in Seq(C) /\ N \in Nat
  OBVIOUS
<1>3. f[5] \in C
  <2>1. 5 \in 1 .. Len(f)
    BY <1>1
  <2> QED
    BY <2>1
<1>0. l = SubSeq(f, 6 + a, N - 1)
  OBVIOUS
<1> HIDE DEF C, a, b
<1>n. a \in Nat /\ b \in Nat /\ a > 0 /\ b > 0
  BY <1>1, ProgressConstants
<1> DEFINE i == SubSeq(f, 6, 5 + a)
           j == SubSeq(f, 6 + a, N - 1)
<1>4. i \in Seq(C) /\ Len(i) = a /\ \A k \in 1 .. a : i[k] = f[5 + k]
  <2> DEFINE m == 6
             h == 5 + a
  <2>1. m \in Nat \ {0} /\ h \in 0 .. N
    BY <1>1, <1>n, <1>2
  <2> HIDE DEF m, h
  <2>a. /\ SubSeq(f, m, h) \in Seq(C) /\ Len(SubSeq(f, m, h)) = IF m <= h THEN h - m + 1 ELSE 0
        /\ \A k \in 1 .. h - m + 1 : SubSeq(f, m, h)[k] = f[m + k - 1]
    BY <1>2, <2>1, PartIs
  <2>2. /\ i \in Seq(C) /\ Len(i) = IF 6 <= 5 + a THEN (5 + a) - 6 + 1 ELSE 0
        /\ \A k \in 1 .. (5 + a) - 6 + 1 : i[k] = f[6 + k - 1]
    BY <2>a, Zenon DEF m, h
  <2> HIDE DEF i, N
  <2>3. 6 <= 5 + a /\ (5 + a) - 6 + 1 = a
    BY <1>n
  <2>4. \A k \in 1 .. a : 6 + k - 1 = 5 + k
    BY <1>n
  <2> QED
    BY <2>2, <2>3, <2>4, Zenon
<1>5. j \in Seq(C) /\ Len(j) = b /\ \A k \in 1 .. b : j[k] = f[5 + a + k]
  <2>1. 6 + a \in Nat \ {0} /\ N - 1 \in 0 .. N
    BY <1>1, <1>n, <1>2
  <2>2. /\ j \in Seq(C) /\ Len(j) = IF 6 + a <= N - 1 THEN N - 1 - (6 + a) + 1 ELSE 0
        /\ \A k \in 1 .. N - 1 - (6 + a) + 1 : j[k] = f[6 + a + k - 1]
    BY <1>2, <2>1, PartIs
  <2> HIDE DEF j, N
  <2>3. 6 + a <= N - 1 /\ N - 1 - (6 + a) + 1 = b
    BY <1>1, <1>n
  <2>4. \A k \in 1 .. b : 6 + a + k - 1 = 5 + a + k
    BY <1>n
  <2> QED
    BY <2>2, <2>3, <2>4, Zenon
<1>j. l = j
  BY <1>0
<1> HIDE DEF i, j
<1>i. i = identity
  BY <1>1 DEF i
<1>6. identity \in Seq(C) /\ Len(identity) = a /\ \A k \in 1 .. a : f[5 + k] = identity[k]
  BY <1>4, <1>i, Zenon
<1>7. ProgressIs(f, identity, l, f[5])
  <2>1. l \in Seq(C) /\ Len(l) = b /\ \A k \in 1 .. b : f[5 + a + k] = l[k]
    BY <1>5, <1>j, Zenon
  <2>2. Len(f) = 6 + Len(identity) + Len(l)
    BY <1>1, <1>6, <2>1
  <2>3. f[3] = Len(identity) /\ f[4] = Len(l)
    BY <1>6, <2>1 DEF a, b
  <2>4. /\ \A n \in 1 .. Len(identity) : f[5 + n] = identity[n]
        /\ \A n \in 1 .. Len(l) : f[5 + Len(identity) + n] = l[n]
    BY <1>6, <2>1, Zenon
  <2> QED
    BY <1>1, <1>2, <2>2, <2>3, <2>4, Zenon DEF ProgressIs, C
<1> QED
  BY <1>3, <1>5, <1>j, <1>6, <1>7, Zenon DEF C, a, b

(* What was saved is taken for a record again, of its book.                  *)
LEMMA ProgressSavedIs ==
    ASSUME ProgressInv, progressFile # << >>
    PROVE  /\ ProgressIs(Progress!Serialize(progressSaved), progressSaved.identity,
                         progressSaved.location, progressSaved.progress)
           /\ progressSaved.identity \in Seq(ProgressCells) /\ Len(progressSaved.identity) = 2
           /\ progressSaved.location \in Seq(ProgressCells)
           /\ Len(progressSaved.location) \in 1 .. LOCATION
           /\ Progress!Serialize(progressSaved) \in Seq(ProgressCells)
           /\ Len(Progress!Serialize(progressSaved)) = 8 + Len(progressSaved.location)
<1> DEFINE r == progressSaved
           i == r.identity
           l == r.location
           f == Progress!Serialize(r)
<1>1. /\ r \in ProgressRecords /\ i \in Progress!Tokens
      /\ Progress!ValidLocation(l) /\ Progress!ValidProgress(r.progress)
  BY DEF ProgressInv
<1>2. ProgressIs(f, i, l, r.progress)
  BY <1>1, ProgressBytes
<1>3. i \in Seq(ProgressCells) /\ Len(i) = 2 /\ l \in Seq(ProgressCells)
  BY <1>1, ProgressTokensAre DEF ProgressRecords
<1>4. Len(l) \in 1 .. LOCATION
  BY <1>1, Zenon DEF Progress!ValidLocation
<1>5. f \in Seq(ProgressCells) /\ Len(f) = 6 + Len(i) + Len(l)
  BY <1>2, Zenon DEF ProgressIs
<1> HIDE DEF f, i, l
<1>6. Len(f) = 8 + Len(l)
  BY <1>3, <1>4, <1>5, ProgressConstants
<1> QED
  BY <1>2, <1>3, <1>4, <1>5, <1>6, Zenon DEF f, i, l

LEMMA ProgressSavedIsLoaded == ASSUME ProgressInv PROVE Progress!SavedIsLoaded
<1> SUFFICES ASSUME progressFile # << >>, progressFile = Progress!Serialize(progressSaved)
             PROVE  IF identity # progressSaved.identity
                    THEN Progress!Judge(progressFile) = "CORRUPT"
                    ELSE /\ Progress!Judge(progressFile) = "OK"
                         /\ Progress!Loaded(progressFile)
                              = [location |-> progressSaved.location,
                                 progress |-> progressSaved.progress]
  BY DEF Progress!SavedIsLoaded
<1> DEFINE f == progressFile
           i == progressSaved.identity
           l == progressSaved.location
           p == progressSaved.progress
<1>1. /\ ProgressIs(f, i, l, p) /\ i \in Seq(ProgressCells) /\ Len(i) = 2
      /\ l \in Seq(ProgressCells) /\ Len(l) \in 1 .. LOCATION
      /\ f \in Seq(ProgressCells) /\ Len(f) = 8 + Len(l)
  BY ProgressSavedIs
<1>2. Progress!ValidLocation(l) /\ Progress!ValidProgress(p)
  BY DEF ProgressInv
<1>3. /\ f[1] = 3 /\ f[2] = 1 /\ f[3] = Len(i) /\ f[4] = Len(l) /\ f[5] = p
      /\ f[Len(f)] = Progress!Crc(SubSeq(f, 1, Len(f) - 1))
  BY <1>1, Zenon DEF ProgressIs
<1>4. SubSeq(f, 6, 5 + Len(i)) = i /\ SubSeq(f, 6 + Len(i), Len(f) - 1) = l
  BY <1>1, ProgressParts
<1> HIDE DEF f, i, l, p
<1>5. TOKEN \in Nat /\ TOKEN >= 2 /\ LOCATION \in Nat
  BY ProgressConstants
<1>6. ProgressTaken(f) <=> i = identity
  <2>1. Len(f) >= 6 /\ f[3] \in 1 .. TOKEN /\ f[4] \in 1 .. LOCATION /\ Len(f) = 6 + f[3] + f[4]
    BY <1>1, <1>3, <1>5
  <2> QED
    BY <1>2, <1>3, <1>4, <2>1, Zenon DEF ProgressTaken
<1>7. f \in Seq(ProgressCells) /\ Len(f) # 0
  BY <1>1, <1>5
<1>8. Progress!Judge(f) \in {"OK", "CORRUPT"} /\ (Progress!Judge(f) = "OK" <=> ProgressTaken(f))
  <2>1. Len(f) <= 5 + TOKEN + 1 + LOCATION + 1 /\ Len(f) >= 2
    BY <1>1, <1>5
  <2> QED
    BY <1>3, <1>7, <2>1, ProgressJudged
<1>9. Progress!Loaded(f) = [location |-> l, progress |-> p]
  <2>1. 5 + Len(i) + 1 = 6 + Len(i)
    BY <1>1
  <2>2. SubSeq(f, 5 + f[3] + 1, Len(f) - 1) = l
    BY <1>3, <1>4, <2>1
  <2> QED
    BY <1>3, <2>2, Zenon DEF Progress!Loaded, Progress!HEADER
<1> QED
  BY <1>6, <1>8, <1>9 DEF f, i, l, p

(* The lengths are at the beginning: of two files that could be taken, one    *)
(* is not the beginning of the other.                                        *)
LEMMA ProgressNoPrefix ==
    ASSUME NEW f \in Seq(ProgressCells), NEW g \in Seq(ProgressCells),
           Len(f) >= 6, Len(f) = 6 + f[3] + f[4], Len(g) = 6 + g[3] + g[4],
           Len(f) <= Len(g), f = SubSeq(g, 1, Len(f))
    PROVE  f = g
<1> DEFINE m == Len(f)
           one == 1
<1>1. m \in Nat /\ m \in 0 .. Len(f) /\ m \in 0 .. Len(g) /\ one \in Nat \ {0} /\ m >= 6
  OBVIOUS
<1> HIDE DEF m, one
<1>2. \A k \in 1 .. (m - one) + 1 : SubSeq(g, one, m)[k] = g[one + k - 1]
  BY <1>1, PartIs
<1>3. \A k \in 1 .. m : f[k] = g[k]
  <2> TAKE k \in 1 .. m
  <2>1. k \in 1 .. (m - one) + 1 /\ one + k - 1 = k
    BY <1>1 DEF one
  <2>2. f = SubSeq(g, one, m)
    BY Zenon DEF one, m
  <2> QED
    BY <1>2, <2>1, <2>2, Zenon
<1>4. f[3] = g[3] /\ f[4] = g[4]
  <2>1. 3 \in 1 .. m /\ 4 \in 1 .. m
    BY <1>1
  <2> QED
    BY <1>3, <2>1, Zenon
<1>5. Len(f) = Len(g)
  BY <1>4
<1> QED
  BY <1>3, <1>5, SeqEqual DEF m

LEMMA ProgressOneChange ==
    ASSUME NEW f \in Seq(ProgressCells), NEW g \in Seq(ProgressCells), Len(f) = Len(g),
           f[Len(f)] = Progress!Crc(SubSeq(f, 1, Len(f) - 1)),
           g[Len(g)] = Progress!Crc(SubSeq(g, 1, Len(g) - 1)),
           NEW n \in 1 .. Len(f), \A k \in 1 .. Len(f) : k # n => f[k] = g[k]
    PROVE  f[n] = g[n]
<1> SUFFICES ASSUME f[n] # g[n] PROVE FALSE
  OBVIOUS
<1> DEFINE N == Len(f)
           a == SubSeq(f, 1, N - 1)
           b == SubSeq(g, 1, N - 1)
<1>0. N \in Nat /\ f # << >> /\ g # << >> /\ N = Len(g)
  OBVIOUS
<1>1. /\ a \in Seq(ProgressCells) /\ Len(a) = N - 1 /\ \A k \in 1 .. N - 1 : a[k] = f[k]
      /\ b \in Seq(ProgressCells) /\ Len(b) = N - 1 /\ \A k \in 1 .. N - 1 : b[k] = g[k]
  BY <1>0, FrontIs
<1>2. f[N] = Progress!Crc(a) /\ g[N] = Progress!Crc(b)
  BY <1>0
<1> HIDE DEF a, b, N
<1>3. n \in 1 .. N /\ \A k \in 1 .. N : k # n => f[k] = g[k]
  BY DEF N
<1>4. CASE n = N
  <2>1. Len(a) = Len(b) /\ \A k \in 1 .. Len(a) : a[k] = b[k]
    <3>1. \A k \in 1 .. N - 1 : k \in 1 .. N /\ k # n
      BY <1>0, <1>4
    <3> QED
      BY <1>1, <1>3, <3>1, Zenon
  <2>2. a = b
    BY <1>1, <2>1, SeqEqual
  <2> QED
    BY <1>2, <1>4, <2>2
<1>5. CASE n # N
  <2>1. n \in 1 .. Len(a) /\ Len(a) = Len(b)
    BY <1>0, <1>1, <1>3, <1>5
  <2>2. a[n] # b[n]
    BY <1>1, <2>1, Zenon
  <2>3. \A k \in 1 .. Len(a) : k # n => a[k] = b[k]
    <3>1. \A k \in 1 .. N - 1 : k \in 1 .. N
      BY <1>0
    <3> QED
      BY <1>1, <1>3, <3>1, Zenon
  <2>4. Progress!Crc(a) # Progress!Crc(b)
    BY <1>1, <2>1, <2>2, <2>3, ProgressCrcApart
  <2>5. f[N] = g[N]
    <3>1. N \in 1 .. N
      BY <1>0, <1>3
    <3> QED
      BY <1>3, <1>5, <3>1, Zenon
  <2> QED
    BY <1>2, <2>4, <2>5
<1> QED
  BY <1>4, <1>5

LEMMA ProgressDamageIsSeen == ASSUME ProgressInv PROVE Progress!DamageIsSeen
<1> DEFINE f == progressFile
           g == Progress!Serialize(progressSaved)
<1> SUFFICES ASSUME f # << >>, Progress!Judge(f) = "OK",
                    \/ Progress!Begins(f, g) \/ Progress!Begins(g, f)
                    \/ /\ Len(f) = Len(g)
                       /\ \E n \in DOMAIN f : f[n] # g[n] /\ [f EXCEPT ![n] = g[n]] = g
             PROVE  FALSE
  BY Zenon DEF Progress!DamageIsSeen
<1>1. /\ g \in Seq(ProgressCells) /\ g[3] = 2 /\ g[4] = Len(progressSaved.location)
      /\ g[Len(g)] = Progress!Crc(SubSeq(g, 1, Len(g) - 1))
      /\ Len(g) = 8 + Len(progressSaved.location) /\ Len(progressSaved.location) \in 1 .. LOCATION
  <2>1. /\ ProgressIs(g, progressSaved.identity, progressSaved.location, progressSaved.progress)
        /\ g \in Seq(ProgressCells) /\ Len(progressSaved.identity) = 2
        /\ Len(progressSaved.location) \in 1 .. LOCATION
        /\ Len(g) = 8 + Len(progressSaved.location)
    BY ProgressSavedIs
  <2> QED
    BY <2>1, Zenon DEF ProgressIs
<1>2. f \in Seq(ProgressCells) /\ Len(f) # 0
  BY EmptySeq DEF ProgressInv
<1>3. ProgressTaken(f)
  BY <1>2, ProgressJudged
<1>4. /\ Len(f) >= 6 /\ Len(f) = 6 + f[3] + f[4]
      /\ f[Len(f)] = Progress!Crc(SubSeq(f, 1, Len(f) - 1))
  BY <1>3, Zenon DEF ProgressTaken
<1> HIDE DEF f, g
<1>5. Len(g) >= 6 /\ Len(g) = 6 + g[3] + g[4]
  BY <1>1, ProgressConstants
<1>6. ASSUME NEW s \in Seq(ProgressCells), NEW w \in Seq(ProgressCells),
             Len(s) >= 6, Len(s) = 6 + s[3] + s[4], Len(w) = 6 + w[3] + w[4]
      PROVE  ~Progress!Begins(s, w)
  <2> SUFFICES ASSUME Len(s) < Len(w), s = SubSeq(w, 1, Len(s)) PROVE FALSE
    BY Zenon DEF Progress!Begins
  <2>1. Len(s) \in Nat /\ Len(w) \in Nat /\ Len(s) <= Len(w) /\ Len(s) # Len(w)
    OBVIOUS
  <2>2. s = w
    BY <1>6, <2>1, ProgressNoPrefix
  <2> QED
    BY <2>1, <2>2, Zenon
<1>7. ~Progress!Begins(f, g) /\ ~Progress!Begins(g, f)
  BY <1>1, <1>2, <1>4, <1>5, <1>6, Zenon
<1>8. PICK n \in DOMAIN f : Len(f) = Len(g) /\ f[n] # g[n] /\ [f EXCEPT ![n] = g[n]] = g
  BY <1>7, Zenon
<1>9. n \in 1 .. Len(f) /\ \A k \in 1 .. Len(f) : k # n => f[k] = g[k]
  <2>1. DOMAIN f = 1 .. Len(f)
    BY <1>2
  <2>2. \A k \in DOMAIN f : k # n => [f EXCEPT ![n] = g[n]][k] = f[k]
    BY <1>2
  <2> QED
    BY <1>8, <2>1, <2>2, Zenon
<1> QED
  BY <1>1, <1>2, <1>4, <1>8, <1>9, ProgressOneChange, Zenon

LEMMA ProgressOtherVersionIsSaid == ASSUME ProgressInv PROVE Progress!OtherVersionIsSaid
<1> SUFFICES ASSUME Len(progressFile) \in 2 .. 5 + TOKEN + 1 + LOCATION + 1,
                    progressFile[1] = Progress!Magic, progressFile[2] # Progress!Version
             PROVE  Progress!Judge(progressFile) = "UNSUPPORTED"
  BY Zenon DEF Progress!OtherVersionIsSaid, Progress!MIN, Progress!HEADER
<1>1. progressFile \in Seq(ProgressCells) /\ Len(progressFile) # 0
  BY DEF ProgressInv
<1> QED
  BY <1>1, ProgressJudged

LEMMA ProgressChangedIs ==
    ASSUME NEW f \in Seq(ProgressCells), NEW n, NEW c \in ProgressCells
    PROVE  [f EXCEPT ![n] = c] \in Seq(ProgressCells)
<1>1. f \in [1 .. Len(f) -> ProgressCells] /\ Len(f) \in Nat
  OBVIOUS
<1>2. [f EXCEPT ![n] = c] \in [1 .. Len(f) -> ProgressCells]
  BY <1>1
<1> QED
  BY <1>1, <1>2, FunctionIsSeq

LEMMA ProgressCutIs ==
    ASSUME NEW f \in Seq(ProgressCells), NEW n \in 1 .. Len(f)
    PROVE  SubSeq(f, 1, n) \in Seq(ProgressCells)
<1>1. 1 \in Nat \ {0} /\ n \in 0 .. Len(f)
  OBVIOUS
<1> QED
  BY <1>1, PartIs

LEMMA ProgressRecordIs ==
    ASSUME NEW i \in Progress!Tokens, NEW l \in Progress!Locations, NEW p \in 0 .. CELL - 1
    PROVE  [identity |-> i, location |-> l, progress |-> p] \in ProgressRecords
<1>1. i \in Seq(ProgressCells) /\ Len(i) = 2 /\ l \in Seq(ProgressCells) /\ Len(l) \in ProgressCells
  BY ProgressTokensAre, ProgressLocationsAre
<1>2. 2 \in ProgressCells
  BY ProgressConstants
<1> QED
  BY <1>1, <1>2 DEF ProgressRecords, ProgressCells

LEMMA ProgressSerialized ==
    ASSUME NEW r \in ProgressRecords PROVE Progress!Serialize(r) \in Seq(ProgressCells)
<1>1. ProgressIs(Progress!Serialize(r), r.identity, r.location, r.progress)
  BY ProgressBytes
<1> QED
  BY <1>1, Zenon DEF ProgressIs

LEMMA ProgressSave == ASSUME ProgressInv, Progress!Save PROVE ProgressInv'
<1>1. PICK i \in Progress!Tokens, l \in Progress!Locations, p \in 0 .. CELL - 1 :
        /\ Progress!ValidLocation(l) /\ Progress!ValidProgress(p)
        /\ progressSaved' = [identity |-> i, location |-> l, progress |-> p]
        /\ progressFile' = Progress!Serialize(progressSaved')
  BY Zenon DEF Progress!Save
<1>2. progressSaved' \in ProgressRecords
  BY <1>1, ProgressRecordIs
<1>3. progressFile' \in Seq(ProgressCells)
  BY <1>1, <1>2, ProgressSerialized
<1>4. /\ progressSaved'.identity = i /\ progressSaved'.location = l
      /\ progressSaved'.progress = p
  BY <1>1
<1>5. identity' = identity /\ identity \in Progress!Tokens
  BY DEF Progress!Save, ProgressInv
<1> QED
  BY <1>1, <1>2, <1>3, <1>4, <1>5, Zenon
    DEF ProgressInv, Progress!ValidLocation, Progress!ValidProgress, Progress!Tokens,
        ProgressRecords, ProgressCells, Progress!Unknown, Progress!BadByte

LEMMA ProgressEdit ==
    ASSUME ProgressInv, NEW f \in Seq(ProgressCells), Progress!Edit(f)
    PROVE  ProgressInv'
<1>1. /\ progressFile # << >> /\ progressFile' = f /\ identity' = identity
      /\ progressSaved' = progressSaved
  BY DEF Progress!Edit
<1> QED
  BY <1>1, Zenon
    DEF ProgressInv, Progress!ValidLocation, Progress!ValidProgress, Progress!Tokens,
        ProgressRecords, ProgressCells, Progress!Unknown, Progress!BadByte

LEMMA ProgressLoad ==
    ASSUME ProgressInv, Progress!Load
    PROVE  ProgressInv' /\ Progress!FailureKeepsRecord /\ Progress!OkCanBeSaved
<1>1. /\ progressFile # << >> /\ identity' = identity /\ progressSaved' = progressSaved
      /\ progressFile' = progressFile
      /\ \/ progressResult' = "NO_MEMORY" /\ record' = record
         \/ /\ progressResult' = Progress!Judge(progressFile)
            /\ record' = IF progressResult' = "OK" THEN Progress!Loaded(progressFile) ELSE record
  BY DEF Progress!Load
<1>2. ProgressInv'
  BY <1>1, Zenon
    DEF ProgressInv, Progress!ValidLocation, Progress!ValidProgress, Progress!Tokens,
        ProgressRecords, ProgressCells, Progress!Unknown, Progress!BadByte
<1>3. Progress!FailureKeepsRecord
  BY <1>1, Zenon DEF Progress!FailureKeepsRecord
<1>4. Progress!OkCanBeSaved
  <2> SUFFICES ASSUME progressResult' = "OK", record' # record
               PROVE  /\ Progress!ValidLocation(record'.location)
                      /\ Progress!ValidProgress(record'.progress)
                      /\ progressFile = Progress!Serialize(
                           [identity |-> identity, location |-> record'.location,
                            progress |-> record'.progress])
    BY Zenon DEF Progress!OkCanBeSaved
  <2>1. Progress!Judge(progressFile) = "OK" /\ record' = Progress!Loaded(progressFile)
    BY <1>1
  <2> DEFINE f == progressFile
             l == SubSeq(f, 6 + f[3], Len(f) - 1)
  <2>2. f \in Seq(ProgressCells) /\ Len(f) # 0 /\ identity \in Progress!Tokens
    BY <1>1, EmptySeq DEF ProgressInv
  <2>3. ProgressTaken(f)
    BY <2>1, <2>2, ProgressJudged
  <2> HIDE DEF f
  <2>4. /\ l \in Seq(ProgressCells) /\ Len(l) = f[4] /\ Len(identity) = f[3]
        /\ f[5] \in ProgressCells /\ ProgressIs(f, identity, l, f[5])
    BY <2>2, <2>3, ProgressTakenIs
  <2>5. /\ f[3] \in Nat /\ f[4] \in ProgressCells /\ f[4] \in Nat
        /\ Progress!ValidProgress(f[5]) /\ Progress!ValidLocation(l)
    <3>1. /\ f[3] \in 1 .. TOKEN /\ f[4] \in 1 .. LOCATION /\ Progress!ValidProgress(f[5])
          /\ Progress!ValidLocation(l)
      BY <2>3, Zenon DEF ProgressTaken
    <3> QED
      BY <3>1, ProgressConstants DEF ProgressCells
  <2>6. Progress!Loaded(f) = [location |-> l, progress |-> f[5]]
    <3>1. 5 + f[3] + 1 = 6 + f[3]
      BY <2>5
    <3> QED
      BY <3>1, Zenon DEF Progress!Loaded, Progress!HEADER
  <2> HIDE DEF l
  <2>7. record'.location = l /\ record'.progress = f[5]
    BY <2>1, <2>6 DEF f
  <2> DEFINE r == [identity |-> identity, location |-> l, progress |-> f[5]]
  <2>8. r \in ProgressRecords
    <3>1. identity \in Seq(ProgressCells) /\ Len(identity) = 2 /\ 2 \in ProgressCells
      BY <2>2, ProgressTokensAre, ProgressConstants
    <3> QED
      BY <2>4, <2>5, <3>1 DEF ProgressRecords
  <2>9. ProgressIs(Progress!Serialize(r), identity, l, f[5])
    <3>1. r.identity = identity /\ r.location = l /\ r.progress = f[5]
      OBVIOUS
    <3> HIDE DEF r
    <3> QED
      BY <2>8, <3>1, ProgressBytes
  <2>10. Progress!Serialize(r) = f
    <3> HIDE DEF r
    <3> QED
      BY <2>4, <2>5, <2>9, ProgressOneSpelling
  <2> QED
    BY <2>5, <2>7, <2>10, Zenon DEF f
<1> QED
  BY <1>2, <1>3, <1>4

LEMMA ProgressInitially == ASSUME Progress!Init PROVE ProgressInv
<1>1. identity \in Progress!Tokens /\ progressFile = << >>
  BY DEF Progress!Init
<1> QED
  BY <1>1, EmptySeq DEF ProgressInv

LEMMA ProgressQuiet ==
    ASSUME UNCHANGED <<record, progressResult>>
    PROVE  Progress!FailureKeepsRecord /\ Progress!OkCanBeSaved
<1>1. record' = record
  OBVIOUS
<1> QED
  BY <1>1, Zenon DEF Progress!FailureKeepsRecord, Progress!OkCanBeSaved

LEMMA ProgressStep ==
    ASSUME ProgressInv, Progress!Next
    PROVE  ProgressInv' /\ Progress!FailureKeepsRecord /\ Progress!OkCanBeSaved
<1>0. progressFile \in Seq(ProgressCells) /\ 0 \in ProgressCells /\ 2 \in ProgressCells
      /\ 0 .. CELL - 1 = ProgressCells
  BY ProgressConstants DEF ProgressInv, ProgressCells
<1>1. CASE Progress!Save
  <2>1. UNCHANGED <<record, progressResult>>
    BY <1>1 DEF Progress!Save
  <2> QED
    BY <1>1, <2>1, ProgressSave, ProgressQuiet
<1>2. ASSUME NEW f \in Seq(ProgressCells), Progress!Edit(f)
      PROVE  ProgressInv' /\ Progress!FailureKeepsRecord /\ Progress!OkCanBeSaved
  <2>1. UNCHANGED <<record, progressResult>>
    BY <1>2 DEF Progress!Edit
  <2> QED
    BY <1>2, <2>1, ProgressEdit, ProgressQuiet
<1>3. CASE Progress!CutOff
  <2>1. PICK n \in 1 .. Len(progressFile) - 1 : Progress!Edit(SubSeq(progressFile, 1, n))
    BY <1>3, Zenon DEF Progress!CutOff
  <2>2. n \in 1 .. Len(progressFile)
    BY <1>0
  <2>3. SubSeq(progressFile, 1, n) \in Seq(ProgressCells)
    BY <1>0, <2>2, ProgressCutIs
  <2> QED
    BY <1>2, <2>1, <2>3
<1>4. CASE Progress!Extended
  <2>1. Progress!Edit(Append(progressFile, 0))
    BY <1>4 DEF Progress!Extended
  <2>2. Append(progressFile, 0) \in Seq(ProgressCells)
    BY <1>0, AppendProperties
  <2> QED
    BY <1>2, <2>1, <2>2
<1>5. CASE Progress!Changed
  <2>1. PICK n \in DOMAIN progressFile, c \in 0 .. CELL - 1 :
          Progress!Edit([progressFile EXCEPT ![n] = c])
    BY <1>5, Zenon DEF Progress!Changed
  <2>2. [progressFile EXCEPT ![n] = c] \in Seq(ProgressCells)
    BY <1>0, ProgressChangedIs
  <2> QED
    BY <1>2, <2>1, <2>2
<1>6. CASE Progress!OtherVersion
  <2>1. PICK n \in 2 .. Len(progressFile) :
          Progress!Edit([SubSeq(progressFile, 1, n) EXCEPT ![2] = 1 + 1])
    BY <1>6, Zenon DEF Progress!OtherVersion, Progress!MIN, Progress!Version
  <2>2. n \in 1 .. Len(progressFile) /\ 1 + 1 \in ProgressCells
    BY <1>0
  <2>3. SubSeq(progressFile, 1, n) \in Seq(ProgressCells)
    BY <1>0, <2>2, ProgressCutIs
  <2>4. [SubSeq(progressFile, 1, n) EXCEPT ![2] = 1 + 1] \in Seq(ProgressCells)
    BY <2>2, <2>3, ProgressChangedIs
  <2> QED
    BY <1>2, <2>1, <2>4
<1>7. CASE Progress!Foreign
  <2>1. PICK l \in Progress!Locations, p \in 0 .. CELL - 1 :
          Progress!Edit(Progress!Serialize([progressSaved EXCEPT !.location = l, !.progress = p]))
    BY <1>7, Zenon DEF Progress!Foreign
  <2>2. progressSaved \in ProgressRecords
    BY <2>1 DEF Progress!Edit, ProgressInv
  <2>3. l \in Seq(ProgressCells) /\ Len(l) \in ProgressCells
    BY ProgressLocationsAre
  <2>4. [progressSaved EXCEPT !.location = l, !.progress = p] \in ProgressRecords
    BY <1>0, <2>2, <2>3 DEF ProgressRecords
  <2>5. Progress!Serialize([progressSaved EXCEPT !.location = l, !.progress = p])
          \in Seq(ProgressCells)
    BY <2>4, ProgressSerialized
  <2> QED
    BY <1>2, <2>1, <2>5
<1>8. CASE Progress!Load
  BY <1>8, ProgressLoad
<1> QED
  BY <1>1, <1>3, <1>4, <1>5, <1>6, <1>7, <1>8 DEF Progress!Next

ProgressGood ==
    Progress!SavedIsLoaded /\ Progress!DamageIsSeen /\ Progress!OtherVersionIsSaid

LEMMA ProgressIsGood == ASSUME ProgressInv PROVE ProgressGood
BY ProgressSavedIsLoaded, ProgressDamageIsSeen, ProgressOtherVersionIsSaid DEF ProgressGood

-----------------------------------------------------------------------------
(* A definition that refers to the number before exists.                     *)
Endless(f, S, a, step) ==
    /\ f \in [Nat -> S] /\ f[0] = a
    /\ \A n \in Nat \ {0} : f[n] = step[n][f[n - 1]]

LEMMA ChainsAgree ==
    ASSUME NEW m \in Nat, NEW n \in Nat, NEW S, NEW a, NEW step, NEW f, NEW g,
           Chains(f, m, S, a, step), Chains(g, n, S, a, step), m <= n
    PROVE  f[m] = g[m]
<1> DEFINE P == {k \in Nat : f[k] = g[k]}
<1>1. 0 \in P
  BY DEF Chains
<1>2. ASSUME NEW k \in 1 .. m, k - 1 \in P PROVE k \in P
  <2>1. k \in 1 .. n /\ k \in Nat
    OBVIOUS
  <2>2. f[k] = step[k][f[k - 1]] /\ g[k] = step[k][g[k - 1]]
    BY <2>1, Zenon DEF Chains
  <2> QED
    BY <1>2, <2>1, <2>2
<1> HIDE DEF P
<1>3. \A k \in 0 .. m : k \in P
  BY <1>1, <1>2, Induction
<1>4. m \in 0 .. m
  OBVIOUS
<1> QED
  BY <1>3, <1>4 DEF P

LEMMA EndlessExists ==
    ASSUME NEW S, NEW a \in S, NEW step, \A n \in Nat \ {0} : \A v \in S : step[n][v] \in S
    PROVE  \E f : Endless(f, S, a, step)
<1> DEFINE F(n) == CHOOSE f : Chains(f, n, S, a, step)
           G == [n \in Nat |-> F(n)[n]]
<1>1. ASSUME NEW n \in Nat PROVE \E f : Chains(f, n, S, a, step)
  <2>1. \A k \in 1 .. n : k \in Nat \ {0}
    OBVIOUS
  <2>2. \A k \in 1 .. n : \A v \in S : step[k][v] \in S
    BY <2>1
  <2> QED
    BY <2>2, Chain
<1>2. \A n \in Nat : Chains(F(n), n, S, a, step)
  BY <1>1, Zenon
<1> HIDE DEF F
<1>3. \A n \in Nat : F(n)[n] \in S /\ F(n)[0] = a
  <2> TAKE n \in Nat
  <2>1. n \in 0 .. n /\ Chains(F(n), n, S, a, step)
    BY <1>2
  <2> QED
    BY <2>1 DEF Chains
<1>4. G \in [Nat -> S] /\ G[0] = a
  BY <1>3
<1>5. ASSUME NEW n \in Nat \ {0} PROVE G[n] = step[n][G[n - 1]]
  <2>1. n \in Nat /\ n - 1 \in Nat /\ n - 1 <= n /\ n - 1 \in 0 .. n - 1 /\ n \in 1 .. n
    OBVIOUS
  <2>2. F(n)[n] = step[n][F(n)[n - 1]]
    BY <1>2, <2>1 DEF Chains
  <2>3. F(n - 1)[n - 1] = F(n)[n - 1]
    BY <1>2, <2>1, ChainsAgree
  <2> QED
    BY <2>1, <2>2, <2>3
<1> HIDE DEF G
<1> QED
  BY <1>4, <1>5 DEF Endless

-----------------------------------------------------------------------------
(* The powers of sixteen.                                                    *)
LEMMA SixteenTo ==
    /\ Token!SixteenTo[0] = 1
    /\ \A n \in Nat : Token!SixteenTo[n] \in Nat \ {0}
    /\ \A n \in Nat \ {0} : Token!SixteenTo[n] = 16 * Token!SixteenTo[n - 1]
<1> DEFINE step == [n \in Nat |-> [v \in Nat |-> 16 * v]]
           a == 1
<1>1. a \in Nat /\ \A n \in Nat \ {0} : \A v \in Nat : step[n][v] \in Nat
  OBVIOUS
<1>2. \A n \in Nat \ {0} : \A v \in Nat : step[n][v] = 16 * v
  OBVIOUS
<1> HIDE DEF step, a
<1>3. PICK f : Endless(f, Nat, a, step)
  BY <1>1, EndlessExists
<1>4. f \in [Nat -> Nat] /\ f[0] = 1 /\ \A n \in Nat \ {0} : f[n] = step[n][f[n - 1]]
  BY <1>3 DEF Endless, a
<1>5. \A n \in Nat : f[n] = IF n = 0 THEN 1 ELSE 16 * f[n - 1]
  <2> TAKE n \in Nat
  <2>1. n # 0 => n \in Nat \ {0} /\ n - 1 \in Nat
    OBVIOUS
  <2>2. n # 0 => f[n - 1] \in Nat
    BY <1>4, <2>1
  <2> QED
    BY <1>2, <1>4, <2>1, <2>2
<1>6. f = [n \in Nat |-> IF n = 0 THEN 1 ELSE 16 * f[n - 1]]
  <2>1. f = [n \in Nat |-> f[n]]
    BY <1>4
  <2>2. [n \in Nat |-> f[n]] = [n \in Nat |-> IF n = 0 THEN 1 ELSE 16 * f[n - 1]]
    BY <1>5, Zenon
  <2> QED
    BY <2>1, <2>2, Zenon
<1> DEFINE g == Token!SixteenTo
<1>7. g = [n \in Nat |-> IF n = 0 THEN 1 ELSE 16 * g[n - 1]]
  <2>1. \E h : h = [n \in Nat |-> IF n = 0 THEN 1 ELSE 16 * h[n - 1]]
    BY <1>6, Zenon
  <2> QED
    BY <2>1, Zenon DEF Token!SixteenTo
<1> HIDE DEF g
<1>8. g[0] = 1 /\ \A n \in Nat \ {0} : g[n] = 16 * g[n - 1]
  BY <1>7
<1>9. ASSUME NEW n \in Nat PROVE g[n] \in Nat \ {0}
  <2> DEFINE P == {k \in Nat : g[k] \in Nat \ {0}}
  <2>1. 0 \in P
    BY <1>8
  <2>2. ASSUME NEW k \in 1 .. n, k - 1 \in P PROVE k \in P
    <3>1. k \in Nat \ {0}
      OBVIOUS
    <3> QED
      BY <1>8, <2>2, <3>1
  <2> HIDE DEF P
  <2>3. \A k \in 0 .. n : k \in P
    BY <2>1, <2>2, Induction
  <2>4. n \in 0 .. n
    OBVIOUS
  <2> QED
    BY <2>3, <2>4 DEF P
<1> QED
  BY <1>8, <1>9 DEF g

-----------------------------------------------------------------------------
(* Exclusive or.                                                             *)
Pairs == [Nat -> [Nat -> Nat]]

LEMMA XorIs ==
    /\ \A a \in Nat : \A b \in Nat : Token!Xor[0][a][b] = a
    /\ \A n \in Nat \ {0} : \A a \in Nat : \A b \in Nat :
          Token!Xor[n][a][b] = ((a + b) % 2) + 2 * Token!Xor[n - 1][a \div 2][b \div 2]
    /\ \A n \in Nat : \A a \in Nat : \A b \in Nat : Token!Xor[n][a][b] \in Nat
<1> DEFINE more(v) == [a \in Nat |-> [b \in Nat |-> ((a + b) % 2) + 2 * v[a \div 2][b \div 2]]]
           step == [n \in Nat |-> [v \in Pairs |-> more(v)]]
           first == [a \in Nat |-> [b \in Nat |-> a]]
<1>1. first \in Pairs
  BY DEF Pairs
<1>2. \A v \in Pairs : more(v) \in Pairs
  <2> TAKE v \in Pairs
  <2>1. \A a \in Nat : \A b \in Nat : ((a + b) % 2) + 2 * v[a \div 2][b \div 2] \in Nat
    <3> TAKE a \in Nat
    <3> TAKE b \in Nat
    <3>1. a \div 2 \in Nat /\ b \div 2 \in Nat /\ (a + b) % 2 \in Nat
      OBVIOUS
    <3>2. v[a \div 2][b \div 2] \in Nat
      BY <3>1 DEF Pairs
    <3> QED
      BY <3>1, <3>2
  <2> QED
    BY <2>1 DEF Pairs
<1>3. \A n \in Nat \ {0} : \A v \in Pairs : step[n][v] = more(v)
  BY Zenon
<1>4. /\ \A v \in Pairs : \A a \in Nat : \A b \in Nat :
            more(v)[a][b] = ((a + b) % 2) + 2 * v[a \div 2][b \div 2]
      /\ \A a \in Nat : \A b \in Nat : first[a][b] = a
  BY Zenon
<1> DEFINE body(v, n) ==
        [a \in Nat |-> [b \in Nat |->
            IF n = 0 THEN a ELSE ((a + b) % 2) + 2 * v[n - 1][a \div 2][b \div 2]]]
<1>5. \A v : body(v, 0) = first
  <2> TAKE v
  <2>1. \A a : [b \in Nat |-> IF 0 = 0 THEN a ELSE ((a + b) % 2) + 2 * v[0 - 1][a \div 2][b \div 2]]
               = [b \in Nat |-> a]
    BY Zenon
  <2> QED
    BY <2>1, Zenon
<1>6. \A v : \A n \in Nat \ {0} : body(v, n) = more(v[n - 1])
  <2> TAKE v
  <2> TAKE n \in Nat \ {0}
  <2>0. n # 0
    OBVIOUS
  <2>1. \A a : [b \in Nat |-> IF n = 0 THEN a ELSE ((a + b) % 2) + 2 * v[n - 1][a \div 2][b \div 2]]
               = [b \in Nat |-> ((a + b) % 2) + 2 * v[n - 1][a \div 2][b \div 2]]
    BY <2>0, Zenon
  <2> QED
    BY <2>1, Zenon
<1>7. \E f : f = [n \in Nat |-> body(f, n)]
  <2> HIDE DEF step, more, first, body
  <2>1. PICK f : Endless(f, Pairs, first, step)
    <3>1. \A n \in Nat \ {0} : \A v \in Pairs : step[n][v] \in Pairs
      BY <1>2, <1>3
    <3> QED
      BY <1>1, <3>1, EndlessExists
  <2>2. f \in [Nat -> Pairs] /\ f[0] = first /\ \A n \in Nat \ {0} : f[n] = step[n][f[n - 1]]
    BY <2>1, Zenon DEF Endless
  <2>3. \A n \in Nat : f[n] = body(f, n)
    <3> TAKE n \in Nat
    <3>1. CASE n = 0
      BY <1>5, <2>2, <3>1, Zenon
    <3>2. CASE n # 0
      <4>1. n \in Nat \ {0} /\ n - 1 \in Nat
        BY <3>2
      <4>2. f[n - 1] \in Pairs
        BY <2>2, <4>1
      <4>3. f[n] = more(f[n - 1])
        BY <1>3, <2>2, <4>1, <4>2, Zenon
      <4> QED
        BY <1>6, <4>1, <4>3, Zenon
    <3> QED
      BY <3>1, <3>2
  <2>4. f = [n \in Nat |-> f[n]]
    BY <2>2
  <2>5. f = [n \in Nat |-> body(f, n)]
    BY <2>3, <2>4, Zenon
  <2> QED
    BY <2>5, Zenon
<1> DEFINE g == Token!Xor
<1>8. g = [n \in Nat |-> body(g, n)]
  BY <1>7, Zenon DEF Token!Xor
<1> HIDE DEF g, step, more, first, body
<1>9. g[0] = first /\ \A n \in Nat \ {0} : g[n] = more(g[n - 1])
  <2>1. \A n \in Nat : g[n] = body(g, n)
    BY <1>8, Zenon
  <2>2. 0 \in Nat /\ \A n \in Nat \ {0} : n \in Nat
    OBVIOUS
  <2> QED
    BY <1>5, <1>6, <2>1, <2>2, Zenon
<1>10. ASSUME NEW n \in Nat PROVE g[n] \in Pairs
  <2> DEFINE P == {k \in Nat : g[k] \in Pairs}
  <2>1. 0 \in P
    BY <1>1, <1>9
  <2>2. ASSUME NEW k \in 1 .. n, k - 1 \in P PROVE k \in P
    <3>1. k \in Nat \ {0}
      OBVIOUS
    <3> QED
      BY <1>2, <1>9, <2>2, <3>1
  <2> HIDE DEF P
  <2>3. \A k \in 0 .. n : k \in P
    BY <2>1, <2>2, Induction
  <2>4. n \in 0 .. n
    OBVIOUS
  <2> QED
    BY <2>3, <2>4 DEF P
<1>11. ASSUME NEW n \in Nat \ {0}, NEW a \in Nat, NEW b \in Nat
       PROVE  g[n][a][b] = ((a + b) % 2) + 2 * g[n - 1][a \div 2][b \div 2]
  <2>1. n - 1 \in Nat
    OBVIOUS
  <2>2. g[n - 1] \in Pairs
    BY <1>10, <2>1
  <2>3. g[n] = more(g[n - 1])
    BY <1>9
  <2> DEFINE h == g[n - 1]
  <2> HIDE DEF h
  <2>4. h \in Pairs /\ g[n] = more(h)
    BY <2>2, <2>3, Zenon DEF h
  <2>5. g[n][a][b] = ((a + b) % 2) + 2 * h[a \div 2][b \div 2]
    BY <1>4, <2>4
  <2> QED
    BY <2>5 DEF h
<1>12. ASSUME NEW n \in Nat, NEW a \in Nat, NEW b \in Nat PROVE g[n][a][b] \in Nat
  BY <1>10 DEF Pairs
<1>13. \A a \in Nat : \A b \in Nat : g[0][a][b] = a
  BY <1>4, <1>9, Zenon
<1> QED
  BY <1>11, <1>12, <1>13, Zenon DEF g

(* Different bytes are combined into different numbers, and different numbers *)
(* into different ones with the same byte, of no more binary digits.         *)
Combines(n, K, m) ==
    /\ \A a \in Nat : \A b \in 0 .. K - 1 : \A c \in 0 .. K - 1 :
          Token!Xor[n][a][b] = Token!Xor[n][a][c] => b = c
    /\ \A a \in Nat : \A c \in Nat : \A b \in 0 .. K - 1 :
          Token!Xor[n][a][b] = Token!Xor[n][c][b] => a = c
    /\ \A a \in 0 .. K * m - 1 : \A b \in 0 .. K - 1 : Token!Xor[n][a][b] < K * m

LEMMA HalfOf ==
    ASSUME NEW a \in Nat, NEW k \in Nat, a < 2 * k PROVE a \div 2 \in Nat /\ a \div 2 < k
OBVIOUS

LEMMA LowDigit ==
    ASSUME NEW a \in Nat, NEW b \in Nat, NEW c \in Nat, NEW x \in Nat, NEW y \in Nat,
           ((a + c) % 2) + 2 * x = ((b + c) % 2) + 2 * y
    PROVE  x = y /\ (a \div 2 = b \div 2 => a = b)
OBVIOUS

LEMMA XorCombines ==
    ASSUME NEW n \in Nat, NEW K \in Nat, NEW m \in Nat, Combines(n, K, m)
    PROVE  Combines(n + 1, 2 * K, m)
<1> DEFINE X == Token!Xor[n + 1]
           Y == Token!Xor[n]
<1>1. \A a \in Nat : \A b \in Nat :
        X[a][b] = ((a + b) % 2) + 2 * Y[a \div 2][b \div 2] /\ Y[a][b] \in Nat
  <2> DEFINE k == n + 1
  <2>1. k \in Nat \ {0} /\ k - 1 = n
    OBVIOUS
  <2> HIDE DEF k
  <2>2. \A a \in Nat : \A b \in Nat :
          Token!Xor[k][a][b] = ((a + b) % 2) + 2 * Token!Xor[k - 1][a \div 2][b \div 2]
    BY <2>1, XorIs, Zenon
  <2>3. \A a \in Nat : \A b \in Nat : Token!Xor[n][a][b] \in Nat
    BY XorIs
  <2>4. \A a \in Nat : \A b \in Nat :
          Token!Xor[k][a][b] = ((a + b) % 2) + 2 * Token!Xor[n][a \div 2][b \div 2]
    BY <2>1, <2>2
  <2> QED
    BY <2>3, <2>4, Zenon DEF k
<1>2. /\ \A a \in Nat : \A b \in 0 .. K - 1 : \A c \in 0 .. K - 1 : Y[a][b] = Y[a][c] => b = c
      /\ \A a \in Nat : \A c \in Nat : \A b \in 0 .. K - 1 : Y[a][b] = Y[c][b] => a = c
      /\ \A a \in 0 .. K * m - 1 : \A b \in 0 .. K - 1 : Y[a][b] < K * m
  BY Zenon DEF Combines
<1> HIDE DEF X, Y
<1>3. ASSUME NEW a \in Nat, NEW b \in 0 .. 2 * K - 1, NEW c \in 0 .. 2 * K - 1, X[a][b] = X[a][c]
      PROVE  b = c
  <2>1. a \div 2 \in Nat /\ b \div 2 \in 0 .. K - 1 /\ c \div 2 \in 0 .. K - 1
        /\ b \in Nat /\ c \in Nat /\ b \div 2 \in Nat /\ c \div 2 \in Nat
    BY HalfOf
  <2> DEFINE x == Y[a \div 2][b \div 2]
             y == Y[a \div 2][c \div 2]
  <2>2. x \in Nat /\ y \in Nat
    BY <1>1, <2>1
  <2>3. X[a][b] = ((a + b) % 2) + 2 * x /\ X[a][c] = ((a + c) % 2) + 2 * y
    BY <1>1, <2>1
  <2>4. x = y => b \div 2 = c \div 2
    BY <1>2, <2>1
  <2> HIDE DEF x, y
  <2>5. ((b + a) % 2) + 2 * x = ((c + a) % 2) + 2 * y
    <3>1. a + b = b + a /\ a + c = c + a
      BY <2>1
    <3> QED
      BY <1>3, <2>3, <3>1
  <2>6. x = y /\ (b \div 2 = c \div 2 => b = c)
    BY <2>1, <2>2, <2>5, LowDigit
  <2> QED
    BY <2>4, <2>6
<1>4. ASSUME NEW a \in Nat, NEW c \in Nat, NEW b \in 0 .. 2 * K - 1, X[a][b] = X[c][b]
      PROVE  a = c
  <2>1. a \div 2 \in Nat /\ b \div 2 \in 0 .. K - 1 /\ c \div 2 \in Nat
        /\ b \in Nat /\ b \div 2 \in Nat
    BY HalfOf
  <2> DEFINE x == Y[a \div 2][b \div 2]
             y == Y[c \div 2][b \div 2]
  <2>2. x \in Nat /\ y \in Nat
    BY <1>1, <2>1
  <2>3. X[a][b] = ((a + b) % 2) + 2 * x /\ X[c][b] = ((c + b) % 2) + 2 * y
    BY <1>1, <2>1
  <2>4. x = y => a \div 2 = c \div 2
    BY <1>2, <2>1
  <2> HIDE DEF x, y
  <2>5. ((a + b) % 2) + 2 * x = ((c + b) % 2) + 2 * y
    BY <1>4, <2>3
  <2>6. x = y /\ (a \div 2 = c \div 2 => a = c)
    BY <2>1, <2>2, <2>5, LowDigit
  <2> QED
    BY <2>4, <2>6
<1>5. ASSUME NEW a \in 0 .. (2 * K) * m - 1, NEW b \in 0 .. 2 * K - 1
      PROVE  X[a][b] < (2 * K) * m
  <2> DEFINE k == K * m
  <2>1. k \in Nat /\ (2 * K) * m = 2 * k
    OBVIOUS
  <2>2. a \in Nat /\ a < (2 * K) * m
    BY <2>1
  <2> HIDE DEF k
  <2>3. a \div 2 \in Nat /\ a \div 2 < k /\ a \div 2 \in 0 .. k - 1
    <3>1. a < 2 * k
      BY <2>1, <2>2
    <3>2. a \div 2 \in Nat /\ a \div 2 < k
      BY <2>1, <2>2, <3>1, HalfOf
    <3> DEFINE h == a \div 2
    <3> HIDE DEF h
    <3>3. h \in Nat /\ h < k
      BY <3>2 DEF h
    <3>4. h \in 0 .. k - 1
      BY <2>1, <3>3
    <3> QED
      BY <3>2, <3>4 DEF h
  <2>4. b \in Nat /\ b \div 2 \in Nat /\ b \div 2 \in 0 .. K - 1
    BY HalfOf
  <2> DEFINE x == Y[a \div 2][b \div 2]
  <2>5. x \in Nat /\ x < k /\ X[a][b] = ((a + b) % 2) + 2 * x
    BY <1>1, <1>2, <2>2, <2>3, <2>4 DEF k
  <2> HIDE DEF x
  <2>6. (a + b) % 2 \in 0 .. 1
    BY <2>2, <2>4
  <2> DEFINE z == (a + b) % 2
  <2> HIDE DEF z
  <2>7. z + 2 * x < 2 * k
    BY <2>1, <2>5, <2>6 DEF z
  <2> QED
    BY <2>1, <2>5, <2>7 DEF z
<1> QED
  BY <1>3, <1>4, <1>5 DEF Combines, X

LEMMA XorCombinesBytes == ASSUME NEW m \in Nat PROVE Combines(8, 256, m)
<1>0. Combines(0, 1, m)
  <2>1. \A a \in Nat : \A b \in 0 .. 1 - 1 : Token!Xor[0][a][b] = a
    BY XorIs
  <2> QED
    BY <2>1 DEF Combines
<1>1. Combines(1, 2, m)
  BY <1>0, XorCombines
<1>2. Combines(2, 4, m)
  BY <1>1, XorCombines
<1>3. Combines(3, 8, m)
  BY <1>2, XorCombines
<1>4. Combines(4, 16, m)
  BY <1>3, XorCombines
<1>5. Combines(5, 32, m)
  BY <1>4, XorCombines
<1>6. Combines(6, 64, m)
  BY <1>5, XorCombines
<1>7. Combines(7, 128, m)
  BY <1>6, XorCombines
<1> QED
  BY <1>7, XorCombines

-----------------------------------------------------------------------------
(* Multiplication by an odd number, modulo a power of two.                   *)
Cancels(p, m) ==
    \A z \in Int : (\E q \in Int : z * p = m * q) => \E r \in Int : z = m * r

LEMMA CancelsTwice ==
    ASSUME NEW p \in Nat, p % 2 = 1, NEW m \in Nat, Cancels(p, m)
    PROVE  Cancels(p, 2 * m)
<1> SUFFICES ASSUME NEW z \in Int, NEW q \in Int, z * p = (2 * m) * q
             PROVE  \E r \in Int : z = (2 * m) * r
  BY DEF Cancels
<1> DEFINE h == p \div 2
           w == z \div 2
           e == z % 2
<1>1. p = 2 * h + 1 /\ h \in Nat
  OBVIOUS
<1>2. z = 2 * w + e /\ w \in Int /\ e \in 0 .. 1
  OBVIOUS
<1> HIDE DEF h, w, e
<1> DEFINE u == w * p
           v == m * q
<1>3. u \in Int /\ v \in Int
  BY <1>1, <1>2
<1>4. (2 * w + e) * p = 2 * u + e * p
  BY <1>1, <1>2
<1>5. (2 * m) * q = 2 * v
  BY <1>1
<1>6. 2 * u + e * p = 2 * v
  BY <1>2, <1>4, <1>5
<1> HIDE DEF u, v
<1>7. e = 0
  <2> SUFFICES ASSUME e = 1 PROVE FALSE
    BY <1>2
  <2>1. e * p = p
    BY <1>1
  <2>2. 2 * u + (2 * h + 1) = 2 * v
    BY <1>1, <1>6, <2>1
  <2> QED
    BY <1>1, <1>3, <2>2
<1>8. u = v
  <2>1. e * p = 0
    BY <1>1, <1>7
  <2> QED
    BY <1>3, <1>6, <2>1
<1>9. PICK r \in Int : w = m * r
  BY <1>2, <1>8 DEF Cancels, u, v
<1>10. z = (2 * m) * r
  <2>1. 2 * (m * r) = (2 * m) * r
    OBVIOUS
  <2> QED
    BY <1>2, <1>7, <1>9, <2>1
<1> QED
  BY <1>10

LEMMA CancelsSixteenTo ==
    ASSUME NEW p \in Nat, p % 2 = 1, NEW n \in Nat
    PROVE  Cancels(p, Token!SixteenTo[n])
<1> DEFINE P == {k \in Nat : Cancels(p, Token!SixteenTo[k])}
<1>1. 0 \in P
  <2>1. Cancels(p, 1)
    <3> SUFFICES ASSUME NEW z \in Int PROVE \E r \in Int : z = 1 * r
      BY DEF Cancels
    <3>1. z = 1 * z
      OBVIOUS
    <3> QED
      BY <3>1
  <2> QED
    BY <2>1, SixteenTo
<1>2. ASSUME NEW k \in 1 .. n, k - 1 \in P PROVE k \in P
  <2> DEFINE m == Token!SixteenTo[k - 1]
  <2>1. k \in Nat \ {0} /\ k - 1 \in Nat
    OBVIOUS
  <2>2. m \in Nat /\ Token!SixteenTo[k] = 16 * m /\ Cancels(p, m)
    BY <1>2, <2>1, SixteenTo
  <2> HIDE DEF m
  <2>3. Cancels(p, 2 * m)
    BY <2>2, CancelsTwice
  <2>4. Cancels(p, 4 * m)
    <3>1. 4 * m = 2 * (2 * m) /\ 2 * m \in Nat
      BY <2>2
    <3> QED
      BY <2>3, <3>1, CancelsTwice
  <2>5. Cancels(p, 8 * m)
    <3>1. 8 * m = 2 * (4 * m) /\ 4 * m \in Nat
      BY <2>2
    <3> QED
      BY <2>4, <3>1, CancelsTwice
  <2>6. Cancels(p, 16 * m)
    <3>1. 16 * m = 2 * (8 * m) /\ 8 * m \in Nat
      BY <2>2
    <3> QED
      BY <2>5, <3>1, CancelsTwice
  <2> QED
    BY <2>1, <2>2, <2>6
<1> HIDE DEF P
<1>3. \A k \in 0 .. n : k \in P
  BY <1>1, <1>2, Induction
<1>4. n \in 0 .. n
  OBVIOUS
<1> QED
  BY <1>3, <1>4 DEF P

LEMMA TimesApart ==
    ASSUME NEW p \in Nat, NEW m \in Nat \ {0}, Cancels(p, m),
           NEW x \in 0 .. m - 1, NEW y \in 0 .. m - 1, (x * p) % m = (y * p) % m
    PROVE  x = y
<1> DEFINE a == x * p
           b == y * p
<1>0. a \in Nat /\ b \in Nat
  OBVIOUS
<1> HIDE DEF a, b
<1>1. a = m * (a \div m) + (a % m) /\ b = m * (b \div m) + (b % m)
      /\ a \div m \in Int /\ b \div m \in Int /\ a % m \in Int /\ b % m \in Int
  BY <1>0
<1> DEFINE c == a \div m
           d == b \div m
           r == a % m
           s == b % m
<1> HIDE DEF c, d, r, s
<1>2. a = m * c + r /\ b = m * d + s /\ c \in Int /\ d \in Int /\ r \in Int
  BY <1>1 DEF c, d, r, s
<1>2a. r = s
  BY DEF r, s, a, b
<1>3. a - b = m * (c - d) /\ c - d \in Int
  <2>1. m * (c - d) = m * c - m * d /\ m * c \in Int /\ m * d \in Int
    BY <1>2
  <2> QED
    BY <1>2, <1>2a, <2>1
<1>4. (x - y) * p = a - b
  BY DEF a, b
<1>5. PICK q \in Int : x - y = m * q
  <2>1. x - y \in Int /\ (x - y) * p = m * (c - d)
    BY <1>3, <1>4
  <2> QED
    BY <1>3, <2>1 DEF Cancels
<1>6. x - y < m /\ -m < x - y
  OBVIOUS
<1>7. q = 0
  <2>1. q >= 1 => m * q >= m
    OBVIOUS
  <2>2. q <= -1 => m * q <= -m
    OBVIOUS
  <2> QED
    BY <1>5, <1>6, <2>1, <2>2
<1> QED
  BY <1>5, <1>7

-----------------------------------------------------------------------------
(* The hash.                                                                 *)
TokenHashes == 0 .. Token!SixteenTo[DIGITS] - 1

LEMMA TokenConstants ==
    /\ DIGITS \in Nat /\ DIGITS >= 2 /\ PathBytes \subseteq 0 .. 255 /\ PATH_MAX \in Nat
    /\ BASIS \in TokenHashes /\ PRIME \in Nat /\ PRIME % 2 = 1
    /\ Token!SixteenTo[DIGITS] \in Nat \ {0}
    /\ \E m \in Nat : Token!SixteenTo[DIGITS] = 256 * m
<1>1. /\ DIGITS \in Nat /\ DIGITS >= 2 /\ PathBytes \subseteq 0 .. 255 /\ PATH_MAX \in Nat
      /\ BASIS \in TokenHashes /\ PRIME \in Nat /\ PRIME % 2 = 1
  BY TokenAssumption DEF TokenAssumption, Token!HashAssumption, Token!FnvAssumption, TokenHashes
<1>2. DIGITS \in Nat \ {0} /\ DIGITS - 1 \in Nat \ {0} /\ (DIGITS - 1) - 1 \in Nat
  BY <1>1
<1>3. Token!SixteenTo[DIGITS] = 16 * (16 * Token!SixteenTo[(DIGITS - 1) - 1])
  BY <1>2, SixteenTo
<1> DEFINE m == Token!SixteenTo[(DIGITS - 1) - 1]
<1>4. m \in Nat
  BY <1>2, SixteenTo
<1> HIDE DEF m
<1>5. Token!SixteenTo[DIGITS] = 256 * m
  BY <1>3, <1>4 DEF m
<1> QED
  BY <1>1, <1>4, <1>5, SixteenTo

LEMMA TokenStepIs ==
    ASSUME NEW v \in Nat, NEW c \in Nat PROVE Token!Step(v, c) \in TokenHashes
<1> DEFINE M == Token!SixteenTo[DIGITS]
           x == Token!Xor[8][v][c]
           y == x * PRIME
<1>1. x \in Nat
  BY XorIs
<1>2. M \in Nat \ {0} /\ PRIME \in Nat
  BY TokenConstants
<1> HIDE DEF M, x
<1>3. y \in Nat
  BY <1>1, <1>2
<1> HIDE DEF y
<1>4. y % M \in 0 .. M - 1
  BY <1>2, <1>3
<1> QED
  BY <1>4 DEF Token!Step, TokenHashes, M, x, y

LEMMA TokenApart ==
    ASSUME NEW v \in TokenHashes, NEW w \in TokenHashes, NEW c \in PathBytes, NEW d \in PathBytes,
           (v = w /\ c # d) \/ (v # w /\ c = d)
    PROVE  Token!Step(v, c) # Token!Step(w, d)
<1> SUFFICES ASSUME Token!Step(v, c) = Token!Step(w, d) PROVE FALSE
  OBVIOUS
<1> DEFINE M == Token!SixteenTo[DIGITS]
           x == Token!Xor[8][v][c]
           y == Token!Xor[8][w][d]
<1>1. PICK m \in Nat : M = 256 * m
  BY TokenConstants
<1>2. Combines(8, 256, m)
  BY XorCombinesBytes
<1>3. /\ v \in 0 .. 256 * m - 1 /\ w \in 0 .. 256 * m - 1 /\ v \in Nat /\ w \in Nat
      /\ c \in 0 .. 256 - 1 /\ d \in 0 .. 256 - 1 /\ c \in Nat /\ d \in Nat
  BY <1>1, TokenConstants DEF TokenHashes
<1>4. x \in 0 .. M - 1 /\ y \in 0 .. M - 1
  <2>1. x < 256 * m /\ y < 256 * m
    BY <1>2, <1>3 DEF Combines
  <2>2. x \in Nat /\ y \in Nat
    BY <1>3, XorIs
  <2> QED
    BY <1>1, <2>1, <2>2
<1>5. M \in Nat \ {0} /\ PRIME \in Nat /\ Cancels(PRIME, M) /\ (x * PRIME) % M = (y * PRIME) % M
  BY CancelsSixteenTo, TokenConstants DEF Token!Step
<1>6. x = y
  <2> HIDE DEF x, y, M
  <2> QED
    BY <1>4, <1>5, TimesApart
<1> DEFINE X == Token!Xor[8]
<1>7. /\ \A a \in Nat : \A b \in 0 .. 256 - 1 : \A e \in 0 .. 256 - 1 : X[a][b] = X[a][e] => b = e
      /\ \A a \in Nat : \A e \in Nat : \A b \in 0 .. 256 - 1 : X[a][b] = X[e][b] => a = e
  BY <1>2, Zenon DEF Combines
<1> HIDE DEF X
<1>8. X[v][c] = X[w][d]
  BY <1>6 DEF X
<1> QED
  BY <1>3, <1>7, <1>8

LEMMA TokenHashIs ==
    ASSUME NEW s \in Seq(PathBytes)
    PROVE  \E u : /\ u \in [0 .. Len(s) -> TokenHashes] /\ u[0] = BASIS
                  /\ \A n \in 1 .. Len(s) : u[n] = Token!Step(u[n - 1], s[n])
                  /\ Token!Hash(s) = u[Len(s)]
<1> DEFINE N == Len(s)
           C == TokenHashes
           step == [n \in 1 .. N |-> [v \in C |-> Token!Step(v, s[n])]]
<1>1. N \in Nat /\ \A n \in 1 .. N : s[n] \in PathBytes
  OBVIOUS
<1>2. \A n \in 1 .. N : \A v \in C : step[n][v] = Token!Step(v, s[n])
  BY Zenon
<1> HIDE DEF step
<1>3. ASSUME NEW n \in 1 .. N, NEW v \in C PROVE Token!Step(v, s[n]) \in C
  <2>0. v \in Nat
    BY TokenConstants DEF TokenHashes
  <2>1. v \in Nat /\ s[n] \in Nat
    <3>1. s[n] \in PathBytes /\ PathBytes \subseteq 0 .. 255
      BY <1>1, TokenConstants
    <3>2. \A x \in 0 .. 255 : x \in Nat
      OBVIOUS
    <3> QED
      BY <2>0, <3>1, <3>2, Zenon
  <2> HIDE DEF C
  <2> QED
    BY <2>1, TokenStepIs DEF C
<1>4. BASIS \in C
  BY TokenConstants
<1> HIDE DEF C, N
<1>5. PICK f : Chains(f, N, C, BASIS, step)
  <2>1. \A n \in 1 .. N : \A v \in C : step[n][v] \in C
    BY <1>2, <1>3
  <2> QED
    BY <1>1, <1>4, <2>1, Chain
<1>6. f \in [0 .. N -> C] /\ f[0] = BASIS /\ \A n \in 1 .. N : f[n] = step[n][f[n - 1]]
  BY <1>5, Zenon DEF Chains
<1>7. \A n \in 0 .. N : n # 0 => n \in 1 .. N /\ f[n - 1] \in C
  <2> TAKE n \in 0 .. N
  <2>1. n # 0 => n \in 1 .. N /\ n - 1 \in 0 .. N
    BY <1>1
  <2> QED
    BY <1>6, <2>1
<1>8. \A n \in 0 .. N : f[n] = IF n = 0 THEN BASIS ELSE Token!Step(f[n - 1], s[n])
  BY <1>2, <1>6, <1>7, Zenon
<1>10. f = [n \in 0 .. N |-> f[n]]
  BY <1>6
<1>11. f = [n \in 0 .. N |-> IF n = 0 THEN BASIS ELSE Token!Step(f[n - 1], s[n])]
  BY <1>8, <1>10, Zenon
<1>12. \E g : g = [n \in 0 .. N |-> IF n = 0 THEN BASIS ELSE Token!Step(g[n - 1], s[n])]
  BY <1>11, Zenon
<1> DEFINE g == CHOOSE g : g = [n \in 0 .. N |-> IF n = 0 THEN BASIS ELSE Token!Step(g[n - 1], s[n])]
<1>13. Token!Hash(s) = g[N]
  BY Zenon DEF Token!Hash, N
<1>14. g = [n \in 0 .. N |-> IF n = 0 THEN BASIS ELSE Token!Step(g[n - 1], s[n])]
  BY <1>12, Zenon
<1> HIDE DEF g
<1>15. 0 \in 0 .. N /\ \A n \in 1 .. N : n \in 0 .. N /\ n # 0
  BY <1>1
<1>16. g[0] = BASIS /\ \A n \in 1 .. N : g[n] = Token!Step(g[n - 1], s[n])
  BY <1>14, <1>15, Zenon
<1> DEFINE P == {n \in Nat : g[n] \in C}
<1>17. \A n \in 0 .. N : n \in P
  <2>1. 0 \in P
    BY <1>4, <1>16
  <2>2. ASSUME NEW n \in 1 .. N, n - 1 \in P PROVE n \in P
    <3>1. g[n - 1] \in C /\ n \in Nat
      BY <2>2
    <3>2. g[n] \in C
      BY <1>3, <1>16, <3>1
    <3> QED
      BY <3>1, <3>2
  <2> HIDE DEF P
  <2> QED
    BY <1>1, <2>1, <2>2, Induction
<1>18. g \in [0 .. N -> C]
  <2>1. \A n \in 0 .. N : g[n] \in C
    BY <1>17
  <2>2. g = [n \in 0 .. N |-> g[n]]
    BY <1>14, <1>16, <1>15
  <2> QED
    BY <2>1, <2>2
<1> QED
  BY <1>13, <1>16, <1>18 DEF N, C

(* Texts of one length that differ in one byte do not collide.               *)
LEMMA TokenHashApart ==
    ASSUME NEW s \in Seq(PathBytes), NEW t \in Seq(PathBytes), Len(s) = Len(t),
           NEW n \in 1 .. Len(s), s[n] # t[n], \A k \in 1 .. Len(s) : k # n => s[k] = t[k]
    PROVE  Token!Hash(s) # Token!Hash(t)
<1> DEFINE N == Len(s)
<1>0. N \in Nat /\ \A k \in 1 .. N : s[k] \in PathBytes /\ t[k] \in PathBytes
  OBVIOUS
<1>1. PICK u : /\ u \in [0 .. N -> TokenHashes] /\ u[0] = BASIS
               /\ \A k \in 1 .. N : u[k] = Token!Step(u[k - 1], s[k])
               /\ Token!Hash(s) = u[N]
  BY TokenHashIs
<1>2. PICK v : /\ v \in [0 .. N -> TokenHashes] /\ v[0] = BASIS
               /\ \A k \in 1 .. N : v[k] = Token!Step(v[k - 1], t[k])
               /\ Token!Hash(t) = v[N]
  BY TokenHashIs, Zenon
<1> DEFINE P == {k \in Nat : IF k < n THEN u[k] = v[k] ELSE u[k] # v[k]}
<1> HIDE DEF N
<1>3. n \in 1 .. N
  BY DEF N
<1>4. 0 \in P
  BY <1>1, <1>2, <1>3
<1>5. ASSUME NEW k \in 1 .. N, k - 1 \in P PROVE k \in P
  <2>1. k - 1 \in 0 .. N /\ k \in Nat
    BY <1>0
  <2>2. u[k - 1] \in TokenHashes /\ v[k - 1] \in TokenHashes
    BY <1>1, <1>2, <2>1
  <2>3. s[k] \in PathBytes /\ t[k] \in PathBytes
    BY <1>0
  <2>4. CASE k < n
    <3>1. k - 1 < n /\ k # n
      BY <1>3, <2>1, <2>4
    <3>2. u[k - 1] = v[k - 1] /\ s[k] = t[k]
      BY <1>5, <3>1 DEF N
    <3>3. u[k] = v[k]
      BY <1>1, <1>2, <3>2
    <3> QED
      BY <2>1, <2>4, <3>3
  <2>5. CASE k = n
    <3>1. k - 1 < n /\ ~(k < n)
      BY <1>3, <2>1, <2>5
    <3>2. u[k - 1] = v[k - 1] /\ s[k] # t[k]
      BY <1>5, <2>5, <3>1
    <3>3. Token!Step(u[k - 1], s[k]) # Token!Step(v[k - 1], t[k])
      BY <2>2, <2>3, <3>2, TokenApart
    <3>4. u[k] # v[k]
      BY <1>1, <1>2, <3>3
    <3> QED
      BY <2>1, <3>1, <3>4
  <2>6. CASE k > n
    <3>1. ~(k - 1 < n) /\ ~(k < n) /\ k # n
      BY <1>3, <2>1, <2>6
    <3>2. u[k - 1] # v[k - 1] /\ s[k] = t[k]
      BY <1>5, <3>1 DEF N
    <3>3. Token!Step(u[k - 1], s[k]) # Token!Step(v[k - 1], t[k])
      BY <2>2, <2>3, <3>2, TokenApart
    <3>4. u[k] # v[k]
      BY <1>1, <1>2, <3>3
    <3> QED
      BY <2>1, <3>1, <3>4
  <2> QED
    BY <1>3, <2>1, <2>4, <2>5, <2>6
<1>6. \A k \in 0 .. N : k \in P
  <2> HIDE DEF P
  <2> QED
    BY <1>0, <1>4, <1>5, Induction
<1>7. N \in 0 .. N /\ ~(N < n)
  BY <1>0, <1>3
<1>8. u[N] # v[N]
  BY <1>6, <1>7
<1> QED
  BY <1>1, <1>2, <1>8

-----------------------------------------------------------------------------
(* The digits.                                                               *)
LEMMA HexQuotient ==
    ASSUME NEW x \in Nat, NEW m \in Nat \ {0}
    PROVE  x \div (16 * m) = (x \div m) \div 16
<1> DEFINE q == x \div m
           r == x % m
           s == q \div 16
           t == q % 16
           b == m * s
<1>1. x = m * q + r /\ r \in 0 .. m - 1 /\ q \in Nat
  OBVIOUS
<1> HIDE DEF q, r
<1>2. q = 16 * s + t /\ t \in 0 .. 15 /\ s \in Nat
  BY <1>1
<1> HIDE DEF s, t
<1>3. m * q = 16 * (m * s) + m * t
  BY <1>1, <1>2
<1>4. m * t <= 15 * m /\ m * t \in Nat
  <2>1. t = 0 \/ t = 1 \/ t = 2 \/ t = 3 \/ t = 4 \/ t = 5 \/ t = 6 \/ t = 7 \/ t = 8
        \/ t = 9 \/ t = 10 \/ t = 11 \/ t = 12 \/ t = 13 \/ t = 14 \/ t = 15
    BY <1>2
  <2> QED
    BY <2>1
<1> DEFINE w == m * t
           f == 16 * m
<1> HIDE DEF w
<1>5. w <= 15 * m /\ w \in Nat /\ 16 * (m * s) = s * (16 * m)
  BY <1>2, <1>4 DEF w
<1>6. x = s * (16 * m) + (w + r) /\ w + r \in Nat /\ w + r < 16 * m
  BY <1>1, <1>2, <1>3, <1>5 DEF w
<1>7. f \in Nat \ {0} /\ x = s * f + (w + r) /\ w + r < f
  BY <1>6
<1> HIDE DEF f
<1>8. x \div f = s
  BY <1>1, <1>2, <1>5, <1>7
<1> QED
  BY <1>8 DEF f, s, q

LEMMA TokenDigitsApart ==
    ASSUME NEW x \in TokenHashes, NEW y \in TokenHashes, Token!Digits(x) = Token!Digits(y)
    PROVE  x = y
<1> DEFINE T == Token!SixteenTo
           P == {k \in Nat : x \div T[DIGITS - k] = y \div T[DIGITS - k]}
<1>1. DIGITS \in Nat /\ T[DIGITS] \in Nat \ {0} /\ x \in Nat /\ y \in Nat
      /\ x < T[DIGITS] /\ y < T[DIGITS]
  BY TokenConstants DEF TokenHashes
<1>2. \A n \in 1 .. DIGITS : (x \div T[DIGITS - n]) % 16 = (y \div T[DIGITS - n]) % 16
  <2> TAKE n \in 1 .. DIGITS
  <2>1. Token!Digits(x)[n] = (x \div T[DIGITS - n]) % 16
    BY Zenon DEF Token!Digits
  <2>2. Token!Digits(y)[n] = (y \div T[DIGITS - n]) % 16
    BY Zenon DEF Token!Digits
  <2> QED
    BY <2>1, <2>2
<1> HIDE DEF T
<1>3. 0 \in P
  <2>1. DIGITS - 0 = DIGITS
    BY <1>1
  <2> DEFINE m == T[DIGITS]
  <2> HIDE DEF m
  <2>2. x \div m = 0 /\ y \div m = 0
    BY <1>1 DEF m
  <2> QED
    BY <2>1, <2>2 DEF m
<1>4. ASSUME NEW k \in 1 .. DIGITS, k - 1 \in P PROVE k \in P
  <2> DEFINE m == T[DIGITS - k]
  <2>1. DIGITS - k \in Nat /\ DIGITS - (k - 1) \in Nat \ {0} /\ (DIGITS - (k - 1)) - 1 = DIGITS - k
        /\ k \in Nat
    BY <1>1
  <2>2. m \in Nat \ {0} /\ T[DIGITS - (k - 1)] = 16 * m
    BY <2>1, SixteenTo DEF T
  <2>3. x \div (16 * m) = y \div (16 * m)
    BY <1>4, <2>2
  <2>4. (x \div m) % 16 = (y \div m) % 16
    BY <1>2
  <2> HIDE DEF m
  <2>5. (x \div m) \div 16 = (y \div m) \div 16
    BY <1>1, <2>2, <2>3, HexQuotient
  <2> DEFINE a == x \div m
             b == y \div m
  <2>6. a \in Nat /\ b \in Nat
    BY <1>1, <2>2
  <2>7. a \div 16 = b \div 16 /\ a % 16 = b % 16
    BY <2>4, <2>5
  <2> HIDE DEF a, b
  <2>8. a = b
    BY <2>6, <2>7
  <2> QED
    BY <2>1, <2>8 DEF a, b, m
<1> HIDE DEF P
<1>5. \A k \in 0 .. DIGITS : k \in P
  BY <1>1, <1>3, <1>4, Induction
<1>6. DIGITS \in 0 .. DIGITS /\ DIGITS - DIGITS = 0
  BY <1>1
<1>7. x \div 1 = y \div 1
  <2>1. T[DIGITS - DIGITS] = 1
    BY <1>6, SixteenTo DEF T
  <2>2. x \div T[DIGITS - DIGITS] = y \div T[DIGITS - DIGITS]
    BY <1>5, <1>6 DEF P
  <2> QED
    BY <2>1, <2>2
<1> QED
  BY <1>1, <1>7

TokenInv == path \in Seq(PathBytes)

LEMMA TokenPaths == ASSUME NEW p \in Token!Paths PROVE p \in Seq(PathBytes)
<1>1. PICK n \in 0 .. PATH_MAX + 1 : p \in [1 .. n -> PathBytes]
  BY DEF Token!Paths
<1>2. n \in Nat
  BY <1>1, TokenConstants
<1> QED
  BY <1>1, <1>2, FunctionIsSeq

LEMMA TokenInitially == ASSUME Token!Init PROVE TokenInv
BY TokenPaths DEF Token!Init, TokenInv

LEMMA TokenHashesAre == ASSUME NEW s \in Seq(PathBytes) PROVE Token!Hash(s) \in TokenHashes
<1>1. PICK u : u \in [0 .. Len(s) -> TokenHashes] /\ Token!Hash(s) = u[Len(s)]
  BY TokenHashIs
<1>2. Len(s) \in 0 .. Len(s)
  OBVIOUS
<1> QED
  BY <1>1, <1>2

LEMMA TokenOneByteApart == ASSUME TokenInv PROVE Token!OneByteApart
<1> SUFFICES ASSUME NEW n \in DOMAIN path, NEW byte \in PathBytes \ {path[n]}
             PROVE  Token!Digits(Token!Hash(path))
                      # Token!Digits(Token!Hash([path EXCEPT ![n] = byte]))
  BY Zenon DEF Token!OneByteApart
<1> DEFINE t == [path EXCEPT ![n] = byte]
<1>1. path \in Seq(PathBytes) /\ path \in [1 .. Len(path) -> PathBytes] /\ Len(path) \in Nat
      /\ n \in 1 .. Len(path)
  BY DEF TokenInv
<1>2. t \in [1 .. Len(path) -> PathBytes] /\ t[n] = byte
      /\ \A k \in 1 .. Len(path) : k # n => path[k] = t[k]
  BY <1>1
<1> HIDE DEF t
<1>3. t \in Seq(PathBytes) /\ Len(t) = Len(path)
  BY <1>1, <1>2, FunctionIsSeq
<1>4. Token!Hash(path) # Token!Hash(t)
  BY <1>1, <1>2, <1>3, TokenHashApart
<1> QED
  BY <1>1, <1>3, <1>4, TokenHashesAre, TokenDigitsApart DEF t

LEMMA TokenDigitsAre ==
    ASSUME NEW x \in TokenHashes
    PROVE  /\ Len(Token!Digits(x)) = DIGITS
           /\ \A n \in 1 .. DIGITS : Token!Digits(x)[n] \in 0 .. 15
<1> DEFINE d == Token!Digits(x)
<1>1. DIGITS \in Nat /\ x \in Nat
  BY TokenConstants DEF TokenHashes
<1>2. d = [n \in 1 .. DIGITS |-> (x \div Token!SixteenTo[DIGITS - n]) % 16]
  BY DEF Token!Digits
<1>3. ASSUME NEW n \in 1 .. DIGITS PROVE d[n] \in 0 .. 15
  <2> DEFINE m == Token!SixteenTo[DIGITS - n]
  <2>1. DIGITS - n \in Nat
    BY <1>1
  <2>2. m \in Nat \ {0}
    BY <2>1, SixteenTo
  <2>3. d[n] = (x \div m) % 16
    BY <1>2
  <2> HIDE DEF m, d
  <2>4. x \div m \in Nat
    BY <1>1, <2>2
  <2> DEFINE a == x \div m
  <2> HIDE DEF a
  <2>5. a % 16 \in 0 .. 15
    BY <2>4 DEF a
  <2> QED
    BY <2>3, <2>5 DEF a
<1> HIDE DEF d
<1>4. d = [n \in 1 .. DIGITS |-> d[n]]
  BY <1>2
<1>5. d \in [1 .. DIGITS -> 0 .. 15]
  BY <1>3, <1>4
<1>6. Len(d) = DIGITS
  BY <1>1, <1>5, FunctionIsSeq
<1> QED
  BY <1>3, <1>6 DEF d

LEMMA TokenStep == ASSUME TokenInv, Token!Next PROVE TokenInv' /\ Token!TokenIsThePaths
<1>1. /\ token' = IF Token!Accepted(path) THEN Token!Digits(Token!Hash(path)) ELSE Token!Zeros
      /\ path' \in Token!Paths
  BY DEF Token!Next, Token!Open, Token!FromPath
<1>2. TokenInv'
  BY <1>1, TokenPaths DEF TokenInv
<1>3. path \in Seq(PathBytes)
  BY DEF TokenInv
<1>4. Token!Accepted(path) <=> Len(path) \in 1 .. PATH_MAX
  <2>1. Len(path) \in Nat /\ (path # << >> <=> Len(path) # 0) /\ PATH_MAX \in Nat
    BY <1>3, EmptySeq, TokenConstants
  <2> QED
    BY <2>1 DEF Token!Accepted
<1>5. CASE Len(path) \in 1 .. PATH_MAX
  <2>1. token' = Token!Digits(Token!Hash(path))
    BY <1>1, <1>4, <1>5
  <2>2. Token!Hash(path) \in TokenHashes
    BY <1>3, TokenHashesAre
  <2>3. Len(token') = DIGITS /\ \A n \in 1 .. DIGITS : token'[n] \in 0 .. 15
    BY <2>1, <2>2, TokenDigitsAre
  <2>4. Token!Valid'
    BY <2>3, Zenon DEF Token!Valid
  <2> QED
    BY <1>2, <1>5, <2>1, <2>4, Zenon DEF Token!TokenIsThePaths
<1>6. CASE Len(path) \notin 1 .. PATH_MAX
  <2>1. token' = << >>
    BY <1>1, <1>4, <1>6 DEF Token!Zeros
  <2>2. Len(token') # DIGITS
    BY <2>1, TokenConstants
  <2>3. ~Token!Valid'
    BY <2>2, Zenon DEF Token!Valid
  <2> QED
    BY <1>2, <1>6, <2>3, Zenon DEF Token!TokenIsThePaths
<1> QED
  BY <1>2, <1>5, <1>6

-----------------------------------------------------------------------------
(* When nothing changes, what holds goes on to hold.                         *)

LEMMA AnswerStutters == ASSUME AnswerInv, UNCHANGED answerVars PROVE AnswerInv'
<1>1. /\ op' = op /\ answerPc' = answerPc /\ fields' = fields /\ document' = document
      /\ device' = device /\ parsed' = parsed /\ answerPosition' = answerPosition
      /\ caller' = caller /\ heap' = heap /\ freed_twice' = freed_twice
      /\ members' = members /\ answerResult' = answerResult /\ calls' = calls
  BY Zenon DEF answerVars
<1>0. Answer!Pointers' = Answer!Pointers
  BY <1>1, Zenon DEF Answer!Pointers
<1>2. Answer!TypeOK'
  BY <1>0, <1>1, Zenon DEF AnswerInv, Answer!TypeOK
<1>3. Answer!OneOwner'
  BY <1>0, <1>1, Zenon DEF AnswerInv, Answer!OneOwner
<1>4. AnswerBuffers'
  BY <1>1, Zenon DEF AnswerInv, AnswerBuffers
<1>5. (answerPc # "idle" => AnswerRuns)'
  BY <1>1, Zenon DEF AnswerInv, AnswerRuns, AnswerMembers
<1>6. Answer!OkIsTheAnswer'
  BY <1>1, Zenon DEF AnswerInv, Answer!OkIsTheAnswer, Answer!Times
<1>7. Answer!NotFoundSaysNothing'
  BY <1>1, Zenon DEF AnswerInv, Answer!NotFoundSaysNothing
<1> QED
  BY <1>1, <1>2, <1>3, <1>4, <1>5, <1>6, <1>7, Zenon DEF AnswerInv

LEMMA JsonStutters == ASSUME JsonInv, UNCHANGED jsonVars PROVE JsonInv'
BY SMT DEF JsonInv, jsonVars

LEMMA RecordStutters == ASSUME RecordInv, UNCHANGED recordVars PROVE RecordInv'
<1>1. /\ store' = store /\ recordSaved' = recordSaved /\ recordFile' = recordFile
      /\ recordEdits' = recordEdits /\ written' = written
  BY Zenon DEF recordVars
<1>2. RecordGood \subseteq RecordGood'
  BY <1>1, RecordGoodSpreads, Zenon
<1>3. RecordGood' \subseteq RecordGood
  BY <1>1, Zenon DEF RecordGood
<1>4. RecordGood' = RecordGood
  BY <1>2, <1>3, Zenon
<1> QED
  BY <1>1, <1>4, Zenon DEF RecordInv

LEMMA ProgressStutters == ASSUME ProgressInv, UNCHANGED progressVars PROVE ProgressInv'
BY Zenon
   DEF ProgressInv, progressVars, Progress!ValidLocation, Progress!ValidProgress,
       Progress!Tokens, ProgressRecords, ProgressCells, Progress!Unknown, Progress!BadByte

LEMMA TokenStutters == ASSUME TokenInv, UNCHANGED tokenVars PROVE TokenInv'
BY Zenon DEF TokenInv, tokenVars

-----------------------------------------------------------------------------
(* One part at a time.                                                       *)

WrittenInv ==
    /\ part \in Parts
    /\ part = "answer" => AnswerInv
    /\ part = "json" => JsonInv
    /\ part = "record" => RecordInv
    /\ part = "progress" => ProgressInv
    /\ part = "token" => TokenInv

LEMMA WrittenInitially == ASSUME Init PROVE WrittenInv
<1>1. /\ part \in Parts
      /\ part = "answer" => Answer!Init
      /\ part = "json" => Json!Init
      /\ part = "record" => Record!Init
      /\ part = "progress" => Progress!Init
      /\ part = "token" => Token!Init
  BY Zenon DEF Init
<1> QED
  BY <1>1, AnswerInitially, JsonInitially, RecordInitially, ProgressInitially, TokenInitially,
     Zenon DEF WrittenInv

LEMMA WrittenStep ==
    ASSUME WrittenInv, [Next]_vars
    PROVE  WrittenInv'
<1>1. CASE Next
  <2>1. part' = part
    BY <1>1, Zenon DEF Next, Only
  <2>2. /\ part = "answer" => Answer!Next
        /\ part = "json" => Json!Next
        /\ part = "record" => Record!Next
        /\ part = "progress" => Progress!Next
        /\ part = "token" => Token!Next
    BY <1>1, Zenon DEF Next
  <2>3. part = "answer" => AnswerInv'
    BY <2>2, AnswerStep, Zenon DEF WrittenInv
  <2>4. part = "json" => JsonInv'
    BY <2>2, JsonStep, Zenon DEF WrittenInv
  <2>5. part = "record" => RecordInv'
    BY <2>2, RecordStep, Zenon DEF WrittenInv
  <2>6. part = "progress" => ProgressInv'
    BY <2>2, ProgressStep, Zenon DEF WrittenInv
  <2>7. part = "token" => TokenInv'
    BY <2>2, TokenStep, Zenon DEF WrittenInv
  <2> QED
    BY <2>1, <2>3, <2>4, <2>5, <2>6, <2>7, Zenon DEF WrittenInv, Parts
<1>2. CASE UNCHANGED vars
  <2>1. part' = part /\ UNCHANGED answerVars /\ UNCHANGED jsonVars /\ UNCHANGED recordVars
        /\ UNCHANGED progressVars /\ UNCHANGED tokenVars
    BY <1>2, Zenon DEF vars
  <2> QED
    BY <2>1, AnswerStutters, JsonStutters, RecordStutters, ProgressStutters, TokenStutters,
       Zenon DEF WrittenInv, Parts
<1> QED
  BY <1>1, <1>2, Zenon

LEMMA WrittenInvariant == Spec => []WrittenInv
<1>1. Init => WrittenInv
  BY WrittenInitially, Zenon
<1>2. WrittenInv /\ [Next]_vars => WrittenInv'
  BY WrittenStep, Zenon
<1> QED
  BY <1>1, <1>2, PTL DEF Spec

(* What is written is read back as it was, in whatever spelling, and what   *)
(* was damaged or is about something else is told from it.                  *)
THEOREM WrittenIsAlwaysReadBack == Spec => []WrittenIsReadBack
<1>1. ASSUME WrittenInv PROVE WrittenIsReadBack
  <2>1. part = "answer" =>
            Answer!TypeOK /\ Answer!OneOwner /\ Answer!OkIsTheAnswer /\ Answer!NotFoundSaysNothing
    BY <1>1, Zenon DEF WrittenInv, AnswerInv
  <2>2. part = "json" => JsonGood
    BY <1>1, JsonIsGood, Zenon DEF WrittenInv
  <2>3. part = "record" =>
            /\ Record!SavedIsLoaded /\ Record!OkIsCanonical
            /\ Record!DamageIsSeen /\ Record!SettingsOfFutureVersion
    BY <1>1, RecordSavedIsLoaded, RecordOkIsCanonical, RecordDamageIsSeen,
       RecordSettingsOfFuture, Zenon DEF WrittenInv
  <2>4. part = "progress" => ProgressGood
    BY <1>1, ProgressIsGood, Zenon DEF WrittenInv
  <2>5. part = "token" => Token!OneByteApart
    BY <1>1, TokenOneByteApart, Zenon DEF WrittenInv
  <2> QED
    BY <2>1, <2>2, <2>3, <2>4, <2>5, Zenon DEF WrittenIsReadBack, JsonGood, ProgressGood
<1> QED
  BY <1>1, WrittenInvariant, PTL

(* A call that fails leaves the caller what it had, and one that succeeds   *)
(* gives out only what could be saved or synced again.                      *)
THEOREM CallersRecordIsKept == Spec => CallersRecordKept
<1>1. ASSUME WrittenInv, [Next]_vars
      PROVE  [/\ part = "answer" => Answer!FailureKeepsRecord
              /\ part = "progress" => Progress!FailureKeepsRecord /\ Progress!OkCanBeSaved
              /\ part = "token" => Token!TokenIsThePaths]_vars
  <2>1. CASE Next
    <3>1. /\ part = "answer" => Answer!Next
          /\ part = "progress" => Progress!Next
          /\ part = "token" => Token!Next
      BY <2>1, Zenon DEF Next
    <3>2. part = "answer" => Answer!FailureKeepsRecord
      BY <1>1, <3>1, AnswerKeeps, Zenon DEF WrittenInv
    <3>3. part = "progress" => Progress!FailureKeepsRecord /\ Progress!OkCanBeSaved
      BY <1>1, <3>1, ProgressStep, Zenon DEF WrittenInv
    <3>4. part = "token" => Token!TokenIsThePaths
      BY <1>1, <3>1, TokenStep, Zenon DEF WrittenInv
    <3> QED
      BY <3>2, <3>3, <3>4, Zenon
  <2> QED
    BY <1>1, <2>1, Zenon
<1> QED
  BY <1>1, WrittenInvariant, PTL DEF Spec, CallersRecordKept
=============================================================================
