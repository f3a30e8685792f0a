----------------------------- MODULE BookToken -----------------------------
(***************************************************************************)
(* cn_book_identity_from_path (progress/book_identity.c): the name of the   *)
(* progress file of a book, the 64-bit FNV-1a hash of its path in            *)
(* hexadecimal digits.  The arithmetic is the code's at a smaller width; a   *)
(* byte is an integer, a path a sequence of bytes.                           *)
(***************************************************************************)
EXTENDS Naturals, Sequences

CONSTANTS
    DIGITS,         \* hexadecimal digits of the hash: 16 in the code
    BASIS, PRIME,   \* of FNV-1a, at that width
    PATH_MAX,       \* CN_BOOK_IDENTITY_PATH_MAX_BYTES
    Bytes           \* bytes that occur in paths

HashAssumption == DIGITS \in Nat \ {0, 1} /\ Bytes \subseteq 0 .. 255 /\ PATH_MAX \in Nat

VARIABLES
    path,       \* what the caller passes
    token       \* the identity: its digits, or the zeros of _init

vars == <<path, token>>

Zeros == <<>>

SixteenTo[n \in Nat] == IF n = 0 THEN 1 ELSE 16 * SixteenTo[n - 1]
FnvAssumption ==
    BASIS \in 0 .. SixteenTo[DIGITS] - 1 /\ PRIME \in Nat /\ PRIME % 2 = 1

(* a with its lowest n bits combined with those of b. *)
Xor[n \in Nat] ==
    [a \in Nat |-> [b \in Nat |->
        IF n = 0 THEN a ELSE ((a + b) % 2) + 2 * Xor[n - 1][a \div 2][b \div 2]]]

Step(hash, byte) == (Xor[8][hash][byte] * PRIME) % SixteenTo[DIGITS]

Hash(text) ==
    LET upto[n \in 0 .. Len(text)] ==
            IF n = 0 THEN BASIS ELSE Step(upto[n - 1], text[n])
    IN  upto[Len(text)]

(* The digits, the highest first. *)
Digits(hash) == [n \in 1 .. DIGITS |-> (hash \div SixteenTo[DIGITS - n]) % 16]

Accepted(text) == text # <<>> /\ Len(text) <= PATH_MAX

(* Mutant: a refused path leaves the identity of the book before. *)
FromPath_uncleared == token' = IF Accepted(path) THEN Digits(Hash(path)) ELSE token

FromPath == token' = IF Accepted(path) THEN Digits(Hash(path)) ELSE Zeros

(* identity_valid: what cn_book_identity_token gives out. *)
Valid == Len(token) = DIGITS /\ \A n \in 1 .. DIGITS : token[n] \in 0 .. 15

Paths == UNION {[1 .. n -> Bytes] : n \in 0 .. PATH_MAX + 1}

Init == path \in Paths /\ token = Zeros

(* The reader opens a book, then another. *)
Open == FromPath /\ path' \in Paths

Next == Open

Spec == Init /\ [][Next]_vars

-----------------------------------------------------------------------------
(* Of two paths of one length that differ in one byte, as the books of a     *)
(* numbered series do, each has its own progress file: the hash itself does  *)
(* not collide there, and its digits lose none of it.                        *)
OneByteApart ==
    \A n \in DOMAIN path : \A byte \in Bytes \ {path[n]} :
        Accepted(path) =>
           Digits(Hash(path)) # Digits(Hash([path EXCEPT ![n] = byte]))

(* After a call the identity is that of the path just passed, or no          *)
(* identity: never the one of the book before, under which the progress of   *)
(* another book would be loaded and overwritten.                             *)
TokenIsThePaths ==
    IF Len(path) \in 1 .. PATH_MAX
    THEN Valid' /\ token' = Digits(Hash(path))
    ELSE ~Valid'

=============================================================================
