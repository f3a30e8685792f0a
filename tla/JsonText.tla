------------------------------- MODULE JsonText -------------------------------
(***************************************************************************)
(* JSON strings and percentages of kosync.c: writer_string and             *)
(* writer_percentage, reader_string and reader_percentage.  A position     *)
(* that was uploaded comes back in whatever spelling the server's JSON     *)
(* library prefers, and is then compared with the one on disk.             *)
(*                                                                         *)
(* A string is a sequence of characters, each of its kind; its source is a *)
(* sequence of units, each a spelling of a character or a thing that spells*)
(* none.  (Utf8 has the bytes.)                                            *)
(***************************************************************************)
EXTENDS Integers, Sequences

CONSTANTS
    MaxText,    \* units of a string
    Cap         \* bytes of the array that it is read into

BoundsAssumption == {MaxText, Cap} \subseteq Nat /\ Cap > 0

Characters == {"plain", "slash", "quote", "backslash", "newline", "control",
               "two", "four"}

BytesOf(c) == CASE c = "two" -> 2 [] c = "four" -> 4 [] OTHER -> 1

Size(text) ==
    LET upto[i \in 0 .. Len(text)] ==
            IF i = 0 THEN 0 ELSE upto[i - 1] + BytesOf(text[i])
    IN upto[Len(text)]

(* How a character can be spelled: as itself, by a letter after a           *)
(* backslash, by one \u escape, or by two of them.                          *)
Spellings(c) ==
    CASE c \in {"quote", "backslash", "newline"} -> {"short", "u"}
      [] c = "slash" -> {"raw", "short", "u"}
      [] c = "control" -> {"u"}
      [] c = "four" -> {"raw", "pair"}
      [] OTHER -> {"raw", "u"}

(* What spells none: a raw control character, a backslash and a letter that *)
(* is no escape, \u0000, \u without four digits, one half of a pair, bytes  *)
(* that are no UTF-8.                                                       *)
Bad == {"raw control", "no escape", "u0000", "no digits", "high half", "low half",
        "bad bytes"}

Unit(form, c) == [form |-> form, char |-> c]

Spells(u) == u.form \in Spellings(u.char)

Units ==
    {u \in [form : {"raw", "short", "u", "pair"}, char : Characters] : Spells(u)}
    \cup {Unit(form, "plain") : form \in Bad}

VARIABLES
    source,     \* the units between the quotes
    closed,     \* the closing quote is there
    progress    \* hundredths of a per cent, 10000 for a whole book
vars == <<source, closed, progress>>

-----------------------------------------------------------------------------
Escape(c) ==
    CASE c \in {"quote", "backslash", "newline"} -> "short"
      [] c = "control" -> "u"
      [] OTHER -> "raw"

writer_string(text) == [i \in DOMAIN text |-> Unit(Escape(text[i]), text[i])]

UnitLength(u) ==
    CASE u.form = "raw" -> BytesOf(u.char)
      [] u.form = "short" -> 2
      [] u.form = "pair" -> 12
      [] OTHER -> 6

(* CN_KOSYNC_JSON_MAX, as far as a position has a share in it. *)
JSON_MAX(size) == size * 6 + 2

Written(text) ==
    LET s == writer_string(text)
        upto[i \in 0 .. Len(s)] == IF i = 0 THEN 2 ELSE upto[i - 1] + UnitLength(s[i])
    IN upto[Len(s)]

(* reader_string, unit by unit: a unit is refused when it spells nothing or *)
(* leaves no room for the terminator; bad UTF-8 is found at the end.        *)
Refused == [ok |-> FALSE, text |-> << >>]

(* Mutant: only one byte is asked for. *)
Room_one_byte(used, c) == used + 1 < Cap

Room(used, c) == used + BytesOf(c) < Cap

Accepted(u) == Spells(u) \/ u.form = "bad bytes"

reader_string(units, end) ==
    LET read[i \in 0 .. Len(units)] ==
            IF i = 0 THEN [ok |-> TRUE, text |-> << >>]
            ELSE IF /\ read[i - 1].ok
                    /\ Accepted(units[i])
                    /\ Room(Size(read[i - 1].text), units[i].char)
                 THEN [ok |-> TRUE, text |-> Append(read[i - 1].text, units[i].char)]
                 ELSE Refused
        all == read[Len(units)]
    IN IF end /\ all.ok /\ \A i \in DOMAIN units : units[i].form # "bad bytes"
       THEN all ELSE Refused

-----------------------------------------------------------------------------
(* Percentages: "0.%04d" without the zeros at its end.  *)

Digits(n) == <<n \div 1000, (n \div 100) % 10, (n \div 10) % 10, n % 10>>

writer_percentage(n) ==
    IF n = 10000 THEN [whole |-> 1, digits |-> << >>]
    ELSE [whole |-> 0,
          digits |-> SubSeq(Digits(n), 1,
                            CHOOSE k \in 0 .. Len(Digits(n)) :
                                /\ k = 0 \/ Digits(n)[k] # 0
                                /\ \A j \in k + 1 .. Len(Digits(n)) :
                                      Digits(n)[j] = 0)]

(* The value of a token of up to six digits, in millionths. *)
ValueOf(token) ==
    LET digit(i) == IF i <= Len(token.digits) THEN token.digits[i] ELSE 0
    IN 1000000 * token.whole + 100000 * digit(1) + 10000 * digit(2)
       + 1000 * digit(3) + 100 * digit(4) + 10 * digit(5) + digit(6)

(* strtod and the multiplication by 10000.0 may each be off by a little,    *)
(* which is less than what is added before the fraction is cut off.  Here   *)
(* the product is in tenths of a millionth, the error one of them at most   *)
(* and what is added two.                                                   *)

Scaled(millionths, error) == (millionths * 10 + 2 + error) \div 1000

reader_percentage(token) ==
    {n \in {Scaled(ValueOf(token), e) : e \in {-1, 0, 1}} : n \in 0 .. 10000}

-----------------------------------------------------------------------------
Init == source = << >> /\ closed = FALSE /\ progress = 0

Spell ==
    /\ Len(source) < MaxText
    /\ ~ closed
    /\ progress = 0
    /\ \E u \in Units : source' = Append(source, u)
    /\ UNCHANGED <<closed, progress>>

Close == ~ closed /\ progress = 0 /\ closed' = TRUE /\ UNCHANGED <<source, progress>>

ReadFurther ==
    /\ source = << >>
    /\ ~ closed
    /\ progress < 10000
    /\ progress' = progress + 1
    /\ UNCHANGED <<source, closed>>

Next == Spell \/ Close \/ ReadFurther

Spec == Init /\ [][Next]_vars
-----------------------------------------------------------------------------
Text == [i \in DOMAIN source |-> source[i].char]
AllSpell == \A i \in DOMAIN source : Spells(source[i])
Unfinished == progress < 10000

(* What is uploaded is what is read back, control characters and all, and   *)
(* the body that is built has room for it.                                  *)
StringRoundTrips ==
    AllSpell /\ Size(Text) < Cap =>
        reader_string(writer_string(Text), TRUE) = [ok |-> TRUE, text |-> Text]

WrittenFits == AllSpell => Written(Text) <= JSON_MAX(Size(Text))

(* A string is read exactly when it is well-formed, closed and fits with    *)
(* its terminator, and then it is the text that was meant, whatever         *)
(* spelling the server chose for each character.                            *)
SpellingDoesNotMatter ==
    reader_string(source, closed) =
        IF closed /\ AllSpell /\ Size(Text) < Cap
        THEN [ok |-> TRUE, text |-> Text] ELSE Refused

(* A percentage comes back as it was uploaded, whatever way the floating    *)
(* point errors fall, also when the server adds zeros or further digits: a  *)
(* record of this device is never taken for a different one, and a book     *)
(* that is not finished is never taken for a finished one.                  *)
PercentageRoundTrips ==
    source = << >> =>
    /\ reader_percentage(writer_percentage(progress)) = {progress}
    /\ Unfinished =>
          \A d \in 0 .. 9, e \in {0, 9} :
              reader_percentage([whole |-> 0, digits |-> Digits(progress) \o <<d, e>>])
                  = {progress}
=============================================================================
