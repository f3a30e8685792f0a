----------------------------- MODULE ReaderEngine -----------------------------
(***************************************************************************)
(* reader/reader.cpp: a cn_reader over CREngine.  A book is a number of     *)
(* points (places a position can name) in document order; a font size puts  *)
(* so many points on a page.  The engine is modelled from its calls: it     *)
(* keeps a size until it is given another, and it registers a font file     *)
(* once per process.                                                        *)
(***************************************************************************)
EXTENDS Integers, FiniteSetsExt

CONSTANTS
    Books, Points,  \* the books, and how many points each has
    PerPage,        \* points on a page by font size; size 0 is the default
    Default,        \* the size 0 stands for
    Fonts, Broken,  \* font files, and those the engine cannot load
    NoBook, NoFont

BooksAssumption == NoBook \notin Books /\ Points \in [Books -> Nat \ {0}]
PerPageAssumption ==
    /\ \A s \in DOMAIN PerPage : s \in Nat /\ PerPage[s] \in Nat \ {0}
    /\ 0 \in DOMAIN PerPage /\ Default \in DOMAIN PerPage \ {0}
    /\ PerPage[0] = PerPage[Default]
FontsAssumption == NoFont \notin Fonts /\ Broken \subseteq Fonts

VARIABLES
    doc,            \* r->doc: the open book
    cfg,            \* r->cfg: [font, size]
    pages, page,
    size,           \* engine: the size the document is laid out with
    shown,          \* engine: the page it is on
    registered,     \* engine: font files registered by this process
    last,           \* g_font_path
    reported,       \* last_diag_page, -1 for none
    position,       \* a cn_reader_position the caller keeps: [book, point]
    result,         \* of the last call
    wanted          \* history: point the last successful goto named, -1

docVars == <<doc, pages, page, size, shown, reported>>
fontVars == <<registered, last>>
vars == <<docVars, cfg, fontVars, position, result, wanted>>

Sizes == DOMAIN PerPage
PageCount(b, s) == (Points[b] + PerPage[s] - 1) \div PerPage[s]
PageAt(p, s) == p \div PerPage[s]
NoPosition == [book |-> NoBook, point |-> 0]

Init ==
    /\ doc = NoBook /\ pages = 0 /\ page = 0 /\ size = Default /\ shown = 0
    /\ reported = -1
    /\ cfg \in [font : {NoFont}, size : {0}]
    /\ registered = {} /\ last = NoFont
    /\ position = NoPosition /\ result = 0 /\ wanted = -1

Open == doc # NoBook
Returns(n) == result' = n

-----------------------------------------------------------------------------
(* ensure_font: the file registered last is remembered; the engine refuses  *)
(* one that it has already.                                                 *)
FontReady(f) == f = NoFont \/ f = last
CanRegister(f) == f \notin registered \cup Broken

ensure_font(f) ==
    /\ FontReady(f) \/ CanRegister(f)
    /\ IF FontReady(f) THEN UNCHANGED fontVars
       ELSE registered' = registered \cup {f} /\ last' = f

(* apply_layout: a size of 0 is not handed to the engine. *)
SizeAfter(s, before) == IF s > 0 THEN s ELSE before

(* Mutant: the page count of the old layout is kept. *)
relayout_keeps_count(b, s) ==
    /\ size' = s /\ shown' = 0 /\ page' = 0 /\ reported' = 0
    /\ pages' = IF pages > 0 THEN pages ELSE PageCount(b, s)

relayout(b, s) ==
    /\ size' = s /\ shown' = 0 /\ page' = 0 /\ reported' = 0
    /\ pages' = Max({1, PageCount(b, s)})

(* cn_reader_new; the caller starts over with another reader. *)
cn_reader_new ==
    /\ ~Open
    /\ \E c \in [font : Fonts \cup {NoFont}, size : Sizes] :
          \/ ensure_font(c.font) /\ cfg' = c /\ Returns(0)
          \/ ~(FontReady(c.font) \/ CanRegister(c.font)) /\ Returns(-1)
             /\ UNCHANGED <<cfg, fontVars>>
    /\ UNCHANGED <<docVars, position, wanted>>

(* cn_reader_open closes what is open; the file may not be a book. *)
cn_reader_open ==
    /\ wanted' = -1
    /\ \E b \in Books :
          \/ doc' = b /\ relayout(b, SizeAfter(cfg.size, Default)) /\ Returns(0)
          \/ /\ doc' = NoBook /\ pages' = 0 /\ page' = 0 /\ size' = Default
             /\ shown' = 0 /\ reported' = -1 /\ Returns(-1)
    /\ UNCHANGED <<cfg, fontVars, position>>

cn_reader_close ==
    /\ Open
    /\ doc' = NoBook /\ pages' = 0 /\ page' = 0 /\ size' = Default /\ shown' = 0
    /\ reported' = -1 /\ wanted' = -1
    /\ UNCHANGED <<cfg, fontVars, position, result>>

(* The configuration is replaced before the font is known to be good. *)
cn_reader_apply_config ==
    /\ \E c \in [font : Fonts \cup {NoFont}, size : Sizes] :
          /\ cfg' = c
          /\ \/ /\ \/ c.font = cfg.font /\ UNCHANGED fontVars
                   \/ c.font # cfg.font /\ ensure_font(c.font)
                /\ Returns(0) /\ wanted' = -1
                /\ IF Open THEN relayout(doc, SizeAfter(c.size, size))
                   ELSE UNCHANGED <<pages, page, size, shown, reported>>
             \/ /\ c.font # cfg.font /\ ~(FontReady(c.font) \/ CanRegister(c.font))
                /\ Returns(-1)
                /\ UNCHANGED <<pages, page, size, shown, reported, fontVars, wanted>>
    /\ UNCHANGED <<doc, position>>

(* emit_page *)
MovedTo(n) == page' = n /\ shown' = n /\ reported' = n

Clamped(n) == Max({0, Min({n, pages - 1})})

(* cn_reader_go, and with it next and prev, which only add a step. *)
cn_reader_go(n) ==
    /\ Open
    /\ IF Clamped(n) # page THEN MovedTo(Clamped(n)) /\ wanted' = -1
       ELSE UNCHANGED <<page, shown, reported, wanted>>
    /\ Returns(0)
    /\ UNCHANGED <<doc, pages, size, cfg, fontVars, position>>

(* The bookmark is the first point of the page; the caller's position is     *)
(* replaced only by a complete one. *)
cn_reader_get_position ==
    /\ Open
    /\ \/ position' = [book |-> doc, point |-> shown * PerPage[size]] /\ Returns(0)
       \/ UNCHANGED position /\ Returns(-1)
    /\ UNCHANGED <<docVars, cfg, fontVars, wanted>>

(* resolve_position: a canonical token of this document.  A token of another *)
(* document may resolve where the structure is the same. *)
Resolves(p) == p.book # NoBook /\ p.point < Points[doc]

cn_reader_goto_position_moves_first ==
    /\ Open /\ Returns(IF Resolves(position) THEN 0 ELSE -1)
    /\ MovedTo(Clamped(PageAt(position.point, size)))
    /\ wanted' = IF Resolves(position) THEN position.point ELSE -1
    /\ UNCHANGED <<doc, pages, size, cfg, fontVars, position>>

cn_reader_goto_position ==
    \/ /\ Open /\ Resolves(position)
       /\ MovedTo(PageAt(position.point, size))
       /\ wanted' = position.point /\ Returns(0)
       /\ UNCHANGED <<doc, pages, size, cfg, fontVars, position>>
    \/ /\ ~(Open /\ Resolves(position)) /\ Returns(-1)
       /\ UNCHANGED <<docVars, cfg, fontVars, position, wanted>>

(* cn_reader_position_clear *)
ForgetPosition ==
    position' = NoPosition /\ UNCHANGED <<docVars, cfg, fontVars, result, wanted>>

MaxPages == Max({PageCount(b, s) : b \in Books, s \in Sizes})

Next ==
    \/ cn_reader_new \/ cn_reader_open \/ cn_reader_close \/ cn_reader_apply_config
    \/ \E n \in -1 .. MaxPages : cn_reader_go(n)
    \/ cn_reader_get_position \/ cn_reader_goto_position \/ ForgetPosition

Spec == Init /\ [][Next]_vars

-----------------------------------------------------------------------------
TypeOK ==
    /\ doc \in Books \cup {NoBook}
    /\ cfg \in [font : Fonts \cup {NoFont}, size : Sizes]
    /\ size \in Sizes \ {0}
    /\ registered \subseteq Fonts \ Broken /\ last \in registered \cup {NoFont}
    /\ position \in [book : Books \cup {NoBook}, point : Nat]
    /\ result \in {-1, 0} /\ wanted \in Nat \cup {-1}
    /\ IF Open THEN page \in 0 .. pages - 1 ELSE pages = 0 /\ page = 0 /\ reported = -1

(* pages, against which turns and restored positions are checked, is the     *)
(* count of the layout the engine has now.                                  *)
CountIsCurrent == Open => pages = PageCount(doc, size)

(* What is shown, what the API answers and what the diagnostics said last    *)
(* are the same page.                                                       *)
OnePage == Open => shown = page /\ reported = page

(* A position that was restored is on the page shown, whatever the layout it *)
(* was captured in.                                                         *)
RestoredIsVisible == wanted # -1 => page = PageAt(wanted, size)

(* "goto returns -1 without moving the reader" (reader.h:107): a call that    *)
(* fails leaves the page of an open document alone.                          *)
RefusalDoesNotMove ==
    result' = -1 /\ doc' = doc /\ doc # NoBook /\ result = 0
        => page' = page /\ shown' = shown

=============================================================================
