------------------------------ MODULE MountLine ------------------------------
(***************************************************************************)
(* parse_mount (platform/storage_verify.c) of a line of                     *)
(* /proc/self/mountinfo, as the kernel writes it from a mount.  A text is a  *)
(* sequence of characters: what is escaped, and where a field ends, is what  *)
(* the module is about.                                                      *)
(***************************************************************************)
EXTENDS Integers, Sequences

CONSTANTS
    UINT_MAX,           \* greatest unsigned
    MaxNumber,          \* greatest device number the line may name
    Names,              \* texts of roots, mount points and devices
    OptionLists,        \* sequences of options
    OptionalLists       \* sequences of optional fields ("shared:2")

NumberAssumption == UINT_MAX \in Nat /\ UINT_MAX >= 9 /\ MaxNumber \in Nat \ {0}

(* A path begins with a slash; an option has no comma and no space, nothing   *)
(* is empty, and no optional field looks like the end of them.               *)
TextsAssumption ==
    /\ \A t \in Names : t \in Seq(STRING) /\ t # <<>> /\ t[1] = "/"
    /\ \A list \in OptionLists :
          /\ list \in Seq(Seq(STRING)) /\ list # <<>>
          /\ \A n \in DOMAIN list :
                list[n] # <<>> /\ \A k \in DOMAIN list[n] : list[n][k] \notin {",", " "}
    /\ \A list \in OptionalLists :
          /\ list \in Seq(Seq(STRING))
          /\ \A n \in DOMAIN list :
                list[n] \notin {<<>>, <<"-">>} /\ \A k \in DOMAIN list[n] : list[n][k] # " "

VARIABLES mount, line

vars == <<mount, line>>

Digit == <<"0", "1", "2", "3", "4", "5", "6", "7", "8", "9">>
IsDigit(c) == \E n \in 1 .. 10 : Digit[n] = c
ValueOf(c) == (CHOOSE n \in 1 .. 10 : Digit[n] = c) - 1

Has(list, x) == \E n \in DOMAIN list : list[n] = x
Least(set) == CHOOSE n \in set : \A k \in set : n <= k

(* The fields of a text between the characters c. *)
Split(text, c) ==
    LET upto[n \in 0 .. Len(text)] ==
            LET fields == upto[n - 1]
            IN  IF n = 0 THEN << <<>> >>
                ELSE IF text[n] = c THEN Append(fields, <<>>)
                ELSE [fields EXCEPT ![Len(fields)] = Append(@, text[n])]
    IN  upto[Len(text)]

-----------------------------------------------------------------------------
(* The kernel (external). *)
Escaped(c) ==
    CASE c = " "  -> <<"\\", "0", "4", "0">>
      [] c = "\t" -> <<"\\", "0", "1", "1">>
      [] c = "\n" -> <<"\\", "0", "1", "2">>
      [] c = "\\" -> <<"\\", "1", "3", "4">>
      [] OTHER    -> <<c>>

(* One text after another. *)
Flat(texts) ==
    LET upto[n \in 0 .. Len(texts)] == IF n = 0 THEN <<>> ELSE upto[n - 1] \o texts[n]
    IN  upto[Len(texts)]

Mangle(text) == Flat([n \in DOMAIN text |-> Escaped(text[n])])

Joined(fields, c) ==
    Flat([n \in DOMAIN fields |-> IF n = 1 THEN fields[n] ELSE <<c>> \o fields[n]])

Decimal[n \in 0 .. MaxNumber] ==
    IF n < 10 THEN <<Digit[n + 1]>> ELSE Append(Decimal[n \div 10], Digit[(n % 10) + 1])

Fields(m) ==
    << <<"7">>, <<"1">>, Decimal[m.maj] \o <<":">> \o Decimal[m.min],
       Mangle(m.root), Mangle(m.point), Joined(m.options, ",")>>
    \o m.optional
    \o << <<"-">>, m.type, Mangle(m.device), Joined(m.super, ",")>>

Line(m) == Joined(Fields(m), " ")

(* The mounts that lines are written of: one like any other but for the       *)
(* device number, the texts, or the lists.                                   *)
Plain == [maj |-> 0, min |-> 1, root |-> <<"/">>, point |-> <<"/", "a">>,
          options |-> << <<"r", "w">> >>, optional |-> <<>>, type |-> <<"v">>,
          device |-> <<"/", "d">>, super |-> << <<"r", "w">> >>]
Numbered(n, k) == [Plain EXCEPT !.maj = n, !.min = k]
Named(r, p, d) == [Plain EXCEPT !.root = r, !.point = p, !.device = d]
Listed(o, s, f) == [Plain EXCEPT !.options = o, !.super = s, !.optional = f]
Mounts ==
    {Numbered(n, k) : n \in {0, MaxNumber}, k \in 0 .. MaxNumber}
    \cup {Named(r, p, d) : r, p, d \in Names}
    \cup {Listed(o, s, f) : o, s \in OptionLists, f \in OptionalLists}

Init == mount \in Mounts /\ line = Line(mount)

(* A line that was cut off, or a character of it that is another one. *)
Damage ==
    /\ line = Line(mount)
    /\ \/ \E n \in 0 .. Len(line) - 1 : line' = SubSeq(line, 1, n)
       \/ \E n \in DOMAIN line, c \in {" ", "-", "9"} : line' = [line EXCEPT ![n] = c]
    /\ UNCHANGED mount

Next == Damage

Spec == Init /\ [][Next]_vars

-----------------------------------------------------------------------------
(* Results: what failed is None. *)
Fails == [ok |-> FALSE]
Is(value) == [ok |-> TRUE, value |-> value]

(* number: digits only, as long as the value fits. *)
Shifted(result, c) ==
    IF ~result.ok \/ ~IsDigit(c) THEN Fails
    ELSE IF result.value > (UINT_MAX - ValueOf(c)) \div 10 THEN Fails
    ELSE Is(result.value * 10 + ValueOf(c))

number(text) ==
    LET upto[n \in 0 .. Len(text)] ==
            IF n = 0 THEN Is(0) ELSE Shifted(upto[n - 1], text[n])
    IN  IF text = <<>> THEN Fails ELSE upto[Len(text)]

(* "major:minor", at the first colon. *)
device_number(text) ==
    LET colons == {n \in DOMAIN text : text[n] = ":"}
        maj == number(SubSeq(text, 1, Least(colons) - 1))
        min == number(SubSeq(text, Least(colons) + 1, Len(text)))
    IN  IF colons # {} /\ maj.ok /\ min.ok THEN Is(<<maj.value, min.value>>) ELSE Fails

Octal(digits) == ValueOf(digits[1]) * 64 + ValueOf(digits[2]) * 8 + ValueOf(digits[3])
OfCode(code) ==
    CASE code = 32 -> " " [] code = 9 -> "\t" [] code = 10 -> "\n" [] code = 92 -> "\\"
      [] OTHER -> "other"
IsOctal(digits) ==
    /\ Len(digits) = 3 /\ \A n \in 1 .. 3 : IsDigit(digits[n]) /\ ValueOf(digits[n]) <= 7
    /\ Octal(digits) # 0

(* Mutant: after a backslash the three digits are decoded and read again. *)
unescape_rereads(text) ==
    LET rest[n \in 1 .. Len(text) + 1] ==
            LET digits == SubSeq(text, n + 1, IF n + 3 <= Len(text) THEN n + 3 ELSE n)
                decoded(c, from) ==
                    IF rest[from].ok THEN Is(<<c>> \o rest[from].value) ELSE Fails
            IN  IF n > Len(text) THEN Is(<<>>)
                ELSE IF text[n] # "\\" THEN decoded(text[n], n + 1)
                ELSE IF IsOctal(digits) THEN decoded(OfCode(Octal(digits)), n + 1)
                ELSE Fails
    IN  rest[1]

(* unescape, in place: rest[n] is what the characters from n on become. *)
unescape(text) ==
    LET rest[n \in 1 .. Len(text) + 1] ==
            LET digits == SubSeq(text, n + 1, IF n + 3 <= Len(text) THEN n + 3 ELSE n)
                decoded(c, from) ==
                    IF rest[from].ok THEN Is(<<c>> \o rest[from].value) ELSE Fails
            IN  IF n > Len(text) THEN Is(<<>>)
                ELSE IF text[n] # "\\" THEN decoded(text[n], n + 1)
                ELSE IF IsOctal(digits) THEN decoded(OfCode(Octal(digits)), n + 4)
                ELSE Fails
    IN  rest[1]

option_present(options, name) == Has(Split(options, ","), name)

(* Six fields, any number of optional ones up to "-", and three. *)
Taken(fields) ==
    LET dashes == {n \in DOMAIN fields : n > 6 /\ fields[n] = <<"-">>}
        dash == Least(dashes)
        device == device_number(fields[3])
        root == unescape(fields[4])
        point == unescape(fields[5])
        source == unescape(fields[dash + 2])
    IN  IF /\ \A n \in DOMAIN fields : fields[n] # <<>>
           /\ dashes # {} /\ Len(fields) = dash + 3
           /\ number(fields[1]).ok /\ number(fields[2]).ok /\ device.ok
           /\ root.ok /\ root.value[1] = "/" /\ point.ok /\ point.value[1] = "/"
           /\ source.ok
        THEN Is([numbers |-> device.value, root |-> root.value, point |-> point.value,
                 options |-> fields[6], type |-> fields[dash + 1], device |-> source.value,
                 super |-> fields[dash + 3]])
        ELSE Fails

parse_mount(text) == Taken(Split(text, " "))

(* The caller: may the mount be written? *)
Writable(entry) ==
    /\ option_present(entry.options, <<"r", "w">>) /\ option_present(entry.super, <<"r", "w">>)
    /\ ~option_present(entry.options, <<"r", "o">>) /\ ~option_present(entry.super, <<"r", "o">>)

-----------------------------------------------------------------------------
(* What the kernel says of a mount is what the program takes it to say:       *)
(* mount points with spaces, backslashes and line ends included, with any     *)
(* number of optional fields.  Only a device number that no unsigned holds    *)
(* makes the line malformed; it is never taken for another device.           *)
LineIsTheMount ==
    line = Line(mount) =>
        parse_mount(line) =
            IF mount.maj > UINT_MAX \/ mount.min > UINT_MAX THEN Fails
            ELSE Is([numbers |-> <<mount.maj, mount.min>>, root |-> mount.root,
                     point |-> mount.point, options |-> Joined(mount.options, ","),
                     type |-> mount.type, device |-> mount.device,
                     super |-> Joined(mount.super, ",")])

(* A mount that became read-only after an error has "ro" among its options,  *)
(* one that would has "errors=remount-ro": only whole options count.         *)
WritableIsRw ==
    line = Line(mount) /\ parse_mount(line).ok =>
        Writable(parse_mount(line).value) =
            \A list \in {mount.options, mount.super} :
               Has(list, <<"r", "w">>) /\ ~Has(list, <<"r", "o">>)

(* A line that was cut off is refused unless only its last field is short,   *)
(* which the caller sees by the missing line end: it never names another     *)
(* mount point or another device.                                            *)
Begins(part, text) == Len(part) <= Len(text) /\ \A n \in DOMAIN part : part[n] = text[n]

CutOffIsSeen ==
    Begins(line, Line(mount)) /\ parse_mount(line).ok =>
        /\ parse_mount(Line(mount)).ok
        /\ LET cut == parse_mount(line).value
               whole == parse_mount(Line(mount)).value
           IN  /\ cut.super # <<>> /\ Begins(cut.super, whole.super)
               /\ [cut EXCEPT !.super = whole.super] = whole

=============================================================================
