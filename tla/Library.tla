------------------------------- MODULE Library -------------------------------
(***************************************************************************)
(* cn_library_scan (library/library.c): the books of a directory, in the    *)
(* order of their titles.  readdir gives the entries in any order, with or  *)
(* without their types, while files may vanish; any allocation may fail.    *)
(***************************************************************************)
EXTENDS Integers, Sequences, FiniteSets

CONSTANTS
    Entries,        \* what may be in the directory: [title (bytes), ext, kind, skip]
    MaxEntries,     \* bound of the model
    CapInit         \* CAP_INIT

CapAssumption == CapInit \in Nat \ {0} /\ MaxEntries \in Nat
EntriesAssumption ==
    Entries \subseteq [title : Seq(1 .. 255), ext : Seq(1 .. 255),
                      kind : {"file", "dir", "link"}, skip : BOOLEAN]

VARIABLES
    dir,            \* the entries that are there
    typed,          \* does the file system report types?
    unread,         \* what readdir will still give
    pc,             \* "closed", "scan", "add", "done", "failed"
    entry,          \* the one at hand
    books, cap,     \* the list and its capacity
    live,           \* allocations that are in use
    met             \* history: the entries that were there when looked at

scanVars == <<unread, pc, entry, books, cap, live, met>>
vars == <<dir, typed, scanVars>>

(* No two entries of a directory share a name. *)
Name(e) == e.title \o <<46>> \o e.ext
Distinct(d) == \A e, f \in d : Name(e) = Name(f) => e = f

Init ==
    /\ dir \in {d \in SUBSET Entries : Cardinality(d) <= MaxEntries /\ Distinct(d)}
    /\ typed \in BOOLEAN /\ unread = {} /\ pc = "closed" /\ entry \in {CHOOSE e \in Entries : TRUE}
    /\ books = <<>> /\ cap = 0 /\ live = 0 /\ met = {}

-----------------------------------------------------------------------------
(* fold_next: ASCII capitals and Cyrillic capitals become small letters.    *)
ascii_lower(c) == IF c \in 65 .. 90 THEN c + 32 ELSE c

FoldPair(c, b) ==
    CASE c = 208 /\ b = 129 -> 1105
      [] c = 208 /\ b \in 144 .. 175 -> 1072 + (b - 144)
      [] c = 208 /\ b \in 176 .. 191 -> 1072 + (b - 176)
      [] c = 208 -> 53248 + b
      [] c = 209 /\ b \in 128 .. 143 -> 1088 + (b - 128)
      [] c = 209 /\ b = 145 -> 1105
      [] c = 209 -> 53504 + b

Folded(s) ==
    LET f[i \in 1 .. Len(s) + 1] ==
            IF i > Len(s) THEN <<>>
            ELSE IF s[i] \in {208, 209} /\ i < Len(s)
            THEN <<FoldPair(s[i], s[i + 1])>> \o f[i + 2]
            ELSE <<ascii_lower(s[i])>> \o f[i + 1]
    IN  f[1]

(* The order of two sequences of numbers, -1, 0 or 1.                        *)
Compare(a, b) ==
    LET differ == {i \in 1 .. Len(a) : i <= Len(b) /\ a[i] # b[i]}
        first == CHOOSE i \in differ : \A j \in differ : i <= j
    IN  IF differ # {} THEN IF a[first] < b[first] THEN -1 ELSE 1
        ELSE IF Len(a) = Len(b) THEN 0 ELSE IF Len(a) < Len(b) THEN -1 ELSE 1

fold_cmp(a, b) == Compare(Folded(a), Folded(b))

(* File names are title and extension: "." and the extension follow.        *)
book_cmp(a, b) ==
    LET byFold == fold_cmp(a.title, b.title)
        byTitle == Compare(a.title, b.title)
    IN  IF byFold # 0 THEN byFold
        ELSE IF byTitle # 0 THEN byTitle
        ELSE Compare(a.title \o a.ext, b.title \o b.ext)

-----------------------------------------------------------------------------
Open ==
    /\ pc \in {"closed", "done", "failed"} /\ UNCHANGED <<dir, typed, entry>>
    /\ unread' = dir /\ books' = <<>> /\ cap' = 0 /\ met' = {}
    /\ \/ pc' = "failed" /\ live' = 0       \* opendir, or no library
       \/ pc' = "scan" /\ live' = 1         \* an earlier one was freed

(* format_of and the names that are passed over. *)
Supported(e) == ~e.skip /\ e.ext # <<>>

(* The type from readdir, or from stat where there is none. *)
IsFile(e) ==
    IF typed THEN e.kind = "file"
    ELSE e \in dir /\ e.kind # "dir"

Read ==
    /\ pc = "scan" /\ UNCHANGED <<dir, typed, books, cap>>
    /\ \E e \in unread :
          /\ unread' = unread \ {e} /\ entry' = e
          /\ met' = IF e \in dir \/ typed THEN met \cup {e} ELSE met
          /\ IF ~Supported(e) THEN UNCHANGED <<pc, live>>
             ELSE IF IsFile(e) THEN pc' = "add" /\ live' = live + 1    \* the path
             ELSE UNCHANGED <<pc, live>>

(* oom: the library and all it holds is freed. *)
Fail == pc' = "failed" /\ live' = 0 /\ books' = <<>> /\ cap' = 0

NoPath == pc = "scan" /\ unread # {} /\ Fail /\ UNCHANGED <<dir, typed, unread, entry, met>>

Owned == 1 + (IF cap > 0 THEN 1 ELSE 0) + 3 * Len(books)

(* Mutant: after a failure the path that was put together is left. *)
FailedAdd_leaves_path ==
    live' = live - Owned /\ pc' = "failed" /\ books' = <<>> /\ cap' = 0

(* Some of the three copies failed: the others are freed, then the path, and *)
(* the library with what it owns.                                           *)
FailedAdd == live' = live - 1 - Owned /\ pc' = "failed" /\ books' = <<>> /\ cap' = 0

Grown == IF Len(books) < cap THEN cap ELSE IF cap = 0 THEN CapInit ELSE 2 * cap

(* cn_library_add *)
Add ==
    /\ pc = "add" /\ UNCHANGED <<dir, typed, unread, entry, met>>
    /\ \/ FailedAdd
       \/ /\ cap' = Grown /\ books' = Append(books, entry) /\ pc' = "scan"
          /\ live' = live + 3 + (IF cap = 0 THEN 1 ELSE 0) - 1

(* qsort may leave books that compare equal in any order. *)
cn_library_resort ==
    \E p \in [1 .. Len(books) -> 1 .. Len(books)] :
        /\ \A i, j \in 1 .. Len(books) : i # j => p[i] # p[j]
        /\ \A i \in 1 .. Len(books) - 1 : book_cmp(books[p[i]], books[p[i + 1]]) <= 0
        /\ books' = [i \in 1 .. Len(books) |-> books[p[i]]]

Finish ==
    /\ pc = "scan" /\ unread = {} /\ pc' = "done" /\ cn_library_resort
    /\ UNCHANGED <<dir, typed, unread, entry, cap, live, met>>

(* Somebody removes a file. *)
Remove ==
    /\ pc \in {"scan", "add"} /\ \E e \in dir : dir' = dir \ {e}
    /\ UNCHANGED <<typed, scanVars>>

Next == Open \/ Read \/ NoPath \/ Add \/ Finish \/ Remove

Spec == Init /\ [][Next]_vars

-----------------------------------------------------------------------------
TypeOK ==
    /\ dir \subseteq Entries /\ unread \subseteq Entries
    /\ pc \in {"closed", "scan", "add", "done", "failed"}
    /\ Len(books) <= cap /\ live \in Nat

(* The list holds each book once, and its order is that of the titles        *)
(* whatever order readdir had, whatever is equal but for case, and with      *)
(* broken letters: two scans that meet the same files give the same list.   *)
ListIsDetermined ==
    pc = "done" =>
        /\ {books[i] : i \in DOMAIN books} =
               {e \in met : Supported(e) /\ (e.kind = "file" \/ (~typed /\ e.kind # "dir"))}
        /\ \A i, j \in DOMAIN books : i < j =>
               /\ Name(books[i]) # Name(books[j])
               /\ book_cmp(books[i], books[j]) = -1 /\ book_cmp(books[j], books[i]) = 1
               /\ Compare(Folded(books[i].title), Folded(books[j].title)) <= 0
               /\ Folded(books[i].title) = Folded(books[j].title) =>
                      Compare(books[i].title, books[j].title) \in {-1, 0}

(* What is allocated is what the list owns: nothing is left behind by a      *)
(* failure halfway, and nothing freed twice.                                *)
NothingLeaks ==
    live = CASE pc \in {"closed", "failed"} -> 0
             [] pc \in {"scan", "done"} -> Owned
             [] pc = "add" -> Owned + 1

=============================================================================
