------------------------------ MODULE TextLayout ------------------------------
(***************************************************************************)
(* How a text becomes lines: cn_text_render of graphics/text.c, which wraps*)
(* it, and render_fit of ui/ui.c, which shortens a title to one line.      *)
(*                                                                         *)
(* A glyph is its kind, and a kind has a width.  The text is decoded into  *)
(* an array of code points first.                                          *)
(***************************************************************************)
EXTENDS Integers, Sequences, FiniteSetsExt

CONSTANTS
    MAX_CP,     \* code points that the array of text.c holds (512)
    MAX_LIB_CP, \* and that of ui.c (160)
    MaxText,    \* glyphs of the longest text
    Widths      \* widths of a line, right margin minus left

(* A title that is cut to its array still has room for the ellipsis in the   *)
(* other one.                                                               *)
SizesAssumption ==
    {MAX_CP, MAX_LIB_CP, MaxText} \subseteq Nat /\ MAX_LIB_CP + 3 <= MAX_CP
WidthsAssumption == Widths \subseteq Int

Glyphs == {"space", "narrow", "wide", "mark"}

VARIABLES
    text,       \* the text to show
    avail,      \* the width of a line
    has_ellipsis, \* the font has U+2026
    mode,       \* "wrap" (cn_text_render) or "fit" (render_fit)
    pc,         \* "text", "shown", "lines" or "done"
    shown,      \* the glyphs that cn_text_render was given
    p,          \* how many of them are in a line
    lines       \* the positions of the last glyphs of the lines so far

vars == <<text, avail, has_ellipsis, mode, pc, shown, p, lines>>

(* Hinted advances; a combining mark has none, and neither has an ellipsis  *)
(* that cannot be loaded.                                                   *)
cn_text_measure(g) ==
    CASE g = "wide" -> 3
      [] g = "ellipsis" -> IF has_ellipsis THEN 2 ELSE 0
      [] g = "mark" -> 0
      [] OTHER -> 1

WidthOf(s) ==
    LET upto[i \in 0 .. Len(s)] ==
            IF i = 0 THEN 0 ELSE upto[i - 1] + cn_text_measure(s[i])
    IN upto[Len(s)]

Init ==
    /\ text = << >>
    /\ avail \in Widths
    /\ has_ellipsis \in BOOLEAN
    /\ mode \in {"wrap", "fit"}
    /\ pc = "text"
    /\ shown = << >>
    /\ p = 0
    /\ lines = {}

(* The caller's text. *)
Type ==
    /\ pc = "text"
    /\ Len(text) < MaxText
    /\ \E g \in Glyphs : text' = Append(text, g)
    /\ UNCHANGED <<avail, has_ellipsis, mode, pc, shown, p, lines>>

(* cn_utf8_decode fills the array and returns the number of all code points.*)
cn_utf8_decode(s, max) ==
    [cps |-> SubSeq(s, 1, IF Len(s) < max THEN Len(s) ELSE max),
     count |-> Len(s)]

(* What is read at the indices 1 .. count: past the array, anything. *)
ReadBack(s, max) ==
    LET d == cn_utf8_decode(s, max) IN
    {d.cps \o rest : rest \in [1 .. (d.count - Len(d.cps)) -> Glyphs]}

Ellipsis == IF has_ellipsis THEN <<"ellipsis">> ELSE <<"dot", "dot", "dot">>

(* Mutant: the ellipsis is put behind all that fits without it. *)
Prefix_full(s) ==
    CHOOSE k \in 0 .. Len(s) :
        /\ k = Len(s) \/ WidthOf(SubSeq(s, 1, k + 1)) > avail
        /\ \A j \in 0 .. k : WidthOf(SubSeq(s, 1, j)) <= avail

(* render_fit: the longest beginning that leaves room for the ellipsis. *)
Prefix(s) ==
    CHOOSE k \in 0 .. Len(s) :
        /\ \/ k = Len(s)
           \/ WidthOf(SubSeq(s, 1, k + 1)) + WidthOf(Ellipsis) > avail
        /\ \A j \in 0 .. k :
              WidthOf(SubSeq(s, 1, j)) + WidthOf(Ellipsis) <= avail

Fit ==
    /\ pc = "text"
    /\ mode = "fit"
    /\ \E s \in ReadBack(text, MAX_LIB_CP) :
          \/ /\ avail <= 0 \/ (WidthOf(s) > avail /\ WidthOf(Ellipsis) > avail)
             /\ pc' = "done"
             /\ UNCHANGED shown
          \/ /\ avail > 0
             /\ WidthOf(s) <= avail
             /\ pc' = "shown"
             /\ shown' = text
          \/ /\ avail > 0
             /\ WidthOf(s) > avail
             /\ WidthOf(Ellipsis) <= avail
             /\ pc' = "shown"
             /\ shown' = SubSeq(s, 1, Prefix(s)) \o Ellipsis
    /\ UNCHANGED <<text, avail, has_ellipsis, mode, p, lines>>

Wrap ==
    /\ pc = "text"
    /\ mode = "wrap"
    /\ pc' = "shown"
    /\ shown' = text
    /\ UNCHANGED <<text, avail, has_ellipsis, mode, p, lines>>

Decode ==
    /\ pc = "shown"
    /\ pc' = "lines"
    /\ shown' \in ReadBack(shown, MAX_CP)
    /\ UNCHANGED <<text, avail, has_ellipsis, mode, p, lines>>

-----------------------------------------------------------------------------
(* One line of cn_text_render, from p on. *)

Between(i, j) == WidthOf(SubSeq(shown, i + 1, j))

(* The last glyph that fits: one that meets an empty line always does. *)
LastFitting ==
    LET after[i \in p .. Len(shown)] ==
            IF i = Len(shown) THEN i
            ELSE IF Between(p, i) > 0 /\ Between(p, i + 1) > avail THEN i
            ELSE after[i + 1]
    IN after[p]

(* Mutant: the line is broken at the first space. *)
LineEnd_first_space ==
    LET spaces == {k \in p + 2 .. LastFitting : shown[k] = "space"}
    IN IF LastFitting < Len(shown) /\ spaces # {} THEN Min(spaces)
       ELSE LastFitting

(* Mutant: the line is broken before the last space, wherever that is. *)
LineEnd_before_space ==
    LET spaces == {k \in p + 1 .. LastFitting : shown[k] = "space"}
    IN IF LastFitting < Len(shown) /\ spaces # {} THEN Max(spaces) - 1
       ELSE LastFitting

(* After the last space that fits, unless the line begins with it; at least *)
(* one glyph is taken.                                                      *)
LineEnd ==
    LET spaces == {k \in p + 1 .. LastFitting : shown[k] = "space"}
        last == IF spaces = {} THEN 0 ELSE Max(spaces)
        broken == IF LastFitting < Len(shown) /\ last > p + 1
                  THEN last ELSE LastFitting
    IN IF broken = p THEN p + 1 ELSE broken

Line ==
    /\ pc = "lines"
    /\ p < Len(shown)
    /\ p' = LineEnd
    /\ lines' = lines \union {LineEnd}
    /\ UNCHANGED <<text, avail, has_ellipsis, mode, pc, shown>>

Finish ==
    /\ pc = "lines"
    /\ p = Len(shown)
    /\ pc' = "done"
    /\ UNCHANGED <<text, avail, has_ellipsis, mode, shown, p, lines>>

Next == Type \/ Fit \/ Wrap \/ Decode \/ Line \/ Finish

Spec == Init /\ [][Next]_vars

-----------------------------------------------------------------------------
TypeOK ==
    /\ text \in Seq(Glyphs) /\ Len(text) <= MaxText
    /\ avail \in Widths
    /\ pc \in {"text", "shown", "lines", "done"}
    /\ p \in 0 .. Len(shown)
    /\ lines \subseteq 1 .. Len(shown)

(* The line that ends at e, as glyphs. *)
First(e) == Max({0} \union {k \in lines : k < e}) + 1
GlyphsOf(e) == SubSeq(shown, First(e), e)

(* render_cps: spaces at the start of a line are not drawn. *)
render_cps(e) ==
    LET ink == {k \in First(e) .. e :
                   shown[k] # "space" /\ cn_text_measure(shown[k]) > 0}
    IN IF ink = {} THEN << >> ELSE SubSeq(shown, Min(ink), e)

(* What a line draws stays between the margins, unless the line is a single *)
(* glyph that is too wide for any line, with the marks that belong to it.   *)
LinesFit ==
    \A e \in lines :
        \/ render_cps(e) = << >> \/ WidthOf(render_cps(e)) <= avail
        \/ Cardinality({k \in DOMAIN GlyphsOf(e) :
                           cn_text_measure(GlyphsOf(e)[k]) > 0}) = 1

(* A word is cut only when it begins its line: a line that ends inside a    *)
(* word has no space behind its first glyph ("wrap breaks after the last    *)
(* space that fits").                                                       *)
WordsAreWhole ==
    \A e \in lines :
        e < Len(shown) /\ shown[e] # "space" =>
            \A k \in First(e) + 1 .. e : shown[k] # "space"

(* A line ends only where the next glyph, or the rest of the next word,     *)
(* would not have fitted ("wrap only on real width overflow").              *)
WrapsOnlyOnOverflow ==
    \A e \in lines :
        e < Len(shown) =>
            \E k \in e + 1 .. Len(shown) :
                /\ WidthOf(SubSeq(shown, First(e), k)) > avail
                /\ \A j \in e + 1 .. k - 1 : shown[j] # "space"

(* A title is drawn on one baseline, inside its band. *)
OneLineInBand ==
    Cardinality(lines) <= 1 /\ (lines # {} => WidthOf(shown) <= avail)

(* What is stored of a title decides about it: it is stored as a whole, or   *)
(* what is stored is too wide already.                                      *)
Decided ==
    \/ Len(text) <= MAX_LIB_CP
    \/ WidthOf(SubSeq(text, 1, MAX_LIB_CP)) > avail

(* A title is shortened to what is drawn on one line inside its band         *)
(* (render_fit), when the code points the array holds decide about it.      *)
TitleIsOneLine == mode = "fit" /\ Decided => OneLineInBand

(* The comment of render_fit says so of every title: "Render text on one     *)
(* baseline clipped [...] Never draws outside the band".  Of a longer title *)
(* the code adds up widths that it has not stored, and may take it for one  *)
(* that fits (run long_titles).                                             *)
TitleInBand == mode = "fit" => OneLineInBand

=============================================================================
