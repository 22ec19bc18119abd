----------------------------- MODULE Terminal ------------------------------
(***************************************************************************)
(* The terminal emulator of modules/terminal.c and modules/framebuffer.c,  *)
(* as the kernel uses it: kprintf of kernel/arch/kterminal.c on several    *)
(* cores, under kprint_lock.  The buffer is modelled by character cells,   *)
(* the input by tokens: a glyph, a control character, or inside an escape  *)
(* sequence "[" or a number, each with its separator, and a final letter.  *)
(***************************************************************************)
EXTENDS Integers, Sequences, FiniteSets

CONSTANTS
    Cores, None,
    Glyphs,         \* what is drawn as it stands
    Numbers,        \* parameters of escape sequences
    HMax, VMax,     \* cursor_h_max and cursor_v_max
    SeqMax,         \* bound: tokens of a sequence, below the 64 of ANSI_SEQ_LEN
    MaxRows         \* bound: rows printed in all

ASSUME TerminalAssumption ==
    /\ None \notin Cores
    /\ HMax \in Nat \ {0} /\ VMax \in Nat \ {0} /\ MaxRows \in Nat
    /\ Numbers \subseteq 0 .. 999 /\ \A g \in Glyphs : g > 1002

VARIABLES
    term,       \* terminal_t, with buf1 as rows of cells
    owner,      \* the core that holds kprint_lock
    paper       \* history: every row printed, the last VMax being on the screen

vars == <<term, owner, paper>>

Rows == 0 .. VMax - 1
Columns == 0 .. HMax - 1

\* Tokens and glyphs are numbers: the parameters stand for themselves.
Bracket == 1000
FinalM == 1001
Space == 1002

\* A colour is an index into rgb256 or one of these; a cell has a glyph in two
\* colours.
Default == -1
Direct == -2        \* a 24-bit colour
CursorColor == -3
Colours == -3 .. 255

Clear == [glyph |-> Space, fg |-> Default, bg |-> Default]
Filled(color) == [glyph |-> Space, fg |-> Default, bg |-> color]

Glyph(t, c) == [glyph |-> c, fg |-> t.fg_color, bg |-> t.bg_color]

---------------------------------------------------------------------------
(* framebuffer.c *)

is_scroll_needed(t) == t.cursor_v + 1 >= VMax

ScrollKeepLast(t) ==
    [t EXCEPT !.buf1 = [v \in Rows |-> IF v + 1 \in Rows THEN t.buf1[v + 1] ELSE t.buf1[v]]]

scroll_screen(t) ==
    [t EXCEPT !.buf1 = [v \in Rows |-> IF v + 1 \in Rows THEN t.buf1[v + 1]
                                       ELSE [h \in Columns |-> Clear]]]

newline(t) ==
    IF is_scroll_needed(t)
    THEN IF t.scroll_enabled THEN [scroll_screen(t) EXCEPT !.cursor_h = 0] ELSE t
    ELSE [t EXCEPT !.cursor_v = @ + 1, !.cursor_h = 0]

Paint(t, cell) == [t EXCEPT !.buf1[t.cursor_v][t.cursor_h] = cell]

WrapLate(t) == t.cursor_h >= HMax

Wraps(t) == t.cursor_h + 1 >= HMax

drawchar(t, c) ==
    LET drawn == Paint(t, Glyph(t, c))
    IN  IF Wraps(t) THEN newline(drawn) ELSE [drawn EXCEPT !.cursor_h = @ + 1]

draw_cursor(t, color) == IF t.cursor_enabled THEN Paint(t, Filled(color)) ELSE t

---------------------------------------------------------------------------
(* terminal.c *)

ResetColours(t) == [t EXCEPT !.fg_color = Default, !.bg_color = Default]

reset_text_attribute(t) ==
    [t EXCEPT !.ansi_state = "normal", !.fg_color = Default, !.bg_color = Default]

num_in_byte_bounds(n) == n >= 0 /\ n <= 255

apply_color(t, color) ==
    IF t.apply_to_fg THEN [t EXCEPT !.fg_color = color] ELSE [t EXCEPT !.bg_color = color]

\* A code in PROCESS_NORMAL; the other attributes are no_change_text_attribute.
SgrNormal(t, n) ==
    CASE n = 0 -> reset_text_attribute(t)
      [] n \in {38, 48} -> [t EXCEPT !.ansi_state = "fg_bg", !.apply_to_fg = (n = 38)]
      [] n \in 30 .. 37 -> [t EXCEPT !.fg_color = n - 30]
      [] n \in 90 .. 97 -> [t EXCEPT !.fg_color = n - 90 + 8]
      [] n \in 40 .. 47 -> [t EXCEPT !.bg_color = n - 40]
      [] n \in 100 .. 107 -> [t EXCEPT !.bg_color = n - 100 + 8]
      [] OTHER -> t

SgrFgBg(t, n) ==
    [t EXCEPT !.ansi_state = CASE n = 5 -> "ansi8" [] n = 2 -> "ansi24" [] OTHER -> "normal"]

SgrAnsi8(t, n) ==
    [IF num_in_byte_bounds(n) THEN apply_color(t, n) ELSE t EXCEPT !.ansi_state = "normal"]

From(s, k) == SubSeq(s, k, Len(s))

\* PROCESS_ANSI24 takes three numbers and, as the loop and parse_sgr both fetch
\* the next one, skips a fourth; the state stays.
RECURSIVE ParseCodes(_, _)
ParseCodes(t, codes) ==
    IF codes = <<>> THEN t
    ELSE CASE t.ansi_state = "normal" -> ParseCodes(SgrNormal(t, codes[1]), Tail(codes))
           [] t.ansi_state = "fg_bg" -> ParseCodes(SgrFgBg(t, codes[1]), Tail(codes))
           [] t.ansi_state = "ansi8" -> ParseCodes(SgrAnsi8(t, codes[1]), Tail(codes))
           [] t.ansi_state = "ansi24" ->
                LET bad == {k \in DOMAIN codes : k <= 3 /\ ~num_in_byte_bounds(codes[k])}
                    first == CHOOSE k \in bad : \A m \in bad : k <= m
                IN  IF bad # {}
                    THEN ParseCodes([t EXCEPT !.ansi_state = "normal"], From(codes, first + 1))
                    ELSE IF Len(codes) < 3 THEN [t EXCEPT !.ansi_state = "normal"]
                    ELSE ParseCodes(apply_color(t, Direct), From(codes, 5))

\* atoi of a token that is no number is 0.
parse_sgr(t, tokens) ==
    IF tokens = <<>> THEN reset_text_attribute(t)
    ELSE ParseCodes(t, [k \in DOMAIN tokens |-> IF tokens[k] \in Numbers THEN tokens[k] ELSE 0])

\* The sequence ends with its final letter; only "[" ... "m" does anything.
terminal_parse_ansi(t) ==
    LET s == t.ansi_sequence
    IN  IF s[1] # Bracket \/ s[Len(s)] # FinalM THEN t
        ELSE parse_sgr(t, SubSeq(s, 2, Len(s) - 1))

InSequence(c) == c = Bracket \/ c \in Numbers

EscToken(t, c) ==
    LET more == [t EXCEPT !.ansi_sequence = Append(@, c)]
    IN  IF InSequence(c) THEN more
        ELSE [terminal_parse_ansi(more) EXCEPT !.is_ansi_state = FALSE, !.ansi_sequence = <<>>]

\* terminal_print has the body of framebuffer.c's backspace in its own case.
backspace(t) ==
    IF t.cursor_h = 0 /\ t.cursor_v # 0 THEN [t EXCEPT !.cursor_v = @ - 1]
    ELSE IF t.cursor_h # 0 THEN [t EXCEPT !.cursor_h = @ - 1]
    ELSE t

---------------------------------------------------------------------------
(* The same on unbounded paper: a line feed on the last row adds a row *)

Top(p) == Len(p) - VMax

Fed(p, t) == IF is_scroll_needed(t) /\ t.scroll_enabled
             THEN Append(p, [h \in Columns |-> Clear]) ELSE p

Written(p, t, cell) == [p EXCEPT ![Top(p) + t.cursor_v + 1][t.cursor_h] = cell]

Typed(p, t, c) ==
    LET written == Written(p, t, Glyph(t, c))
    IN  IF t.cursor_h + 1 >= HMax THEN Fed(written, t) ELSE written

---------------------------------------------------------------------------
terminal_alloc(scroll) ==
    [buf1 |-> [v \in Rows |-> [h \in Columns |-> Clear]],
     cursor_h |-> 0, cursor_v |-> 0, cursor_enabled |-> TRUE, scroll_enabled |-> scroll,
     fg_color |-> Default, bg_color |-> Default, apply_to_fg |-> FALSE,
     is_ansi_state |-> FALSE, ansi_state |-> "normal", ansi_sequence |-> <<>>]

\* terminal_alloc does not set scroll_enabled.
Init ==
    /\ \E scroll \in BOOLEAN : term = terminal_alloc(scroll)
    /\ owner = None
    /\ paper = [v \in 1 .. VMax |-> [h \in Columns |-> Clear]]

PrintOverCursor(core) ==
    /\ owner = None /\ owner' = core
    /\ term' = reset_text_attribute(term)
    /\ UNCHANGED paper

\* kprintf takes the lock, resets the attributes and enters terminal_print,
\* which wipes the cursor.
kprintf(core) ==
    LET t == reset_text_attribute(term)
    IN  /\ owner = None
        /\ owner' = core
        /\ term' = draw_cursor(t, t.bg_color)
        /\ paper' = IF t.cursor_enabled THEN Written(paper, t, Filled(t.bg_color)) ELSE paper

Printing(core) == owner = core /\ ~term.is_ansi_state /\ UNCHANGED owner

put_char(core, c) ==
    /\ Printing(core)
    /\ c \in Glyphs
    /\ term' = drawchar(term, c)
    /\ paper' = Typed(paper, term, c)
    /\ Len(paper') <= MaxRows

\* A tab is four spaces.
put_tab(core) ==
    /\ Printing(core)
    /\ LET t2 == drawchar(term, Space)   t3 == drawchar(t2, Space)   t4 == drawchar(t3, Space)
       IN  /\ term' = drawchar(t4, Space)
           /\ paper' = Typed(Typed(Typed(Typed(paper, term, Space), t2, Space), t3, Space), t4, Space)
    /\ Len(paper') <= MaxRows

put_newline(core) ==
    /\ Printing(core)
    /\ term' = newline(term)
    /\ paper' = Fed(paper, term)
    /\ Len(paper') <= MaxRows

put_backspace(core) ==
    /\ Printing(core)
    /\ term' = backspace(term)
    /\ UNCHANGED paper

put_escape(core) ==
    /\ Printing(core)
    /\ term' = [term EXCEPT !.is_ansi_state = TRUE]
    /\ UNCHANGED paper

put_ansi(core, c) ==
    /\ owner = core /\ term.is_ansi_state
    /\ Len(term.ansi_sequence) < SeqMax
    /\ term' = EscToken(term, c)
    /\ UNCHANGED <<owner, paper>>

\* The end of terminal_print and of kprintf: the cursor is drawn, the lock released
\* (the copy to the framebuffer between them is left out).
print_end(core) ==
    /\ owner = core
    /\ owner' = None
    /\ term' = draw_cursor(term, CursorColor)
    /\ paper' = IF term.cursor_enabled THEN Written(paper, term, Filled(CursorColor)) ELSE paper

Next ==
    \/ \E core \in Cores : kprintf(core)
    \/ \E core \in Cores, c \in Glyphs : put_char(core, c)
    \/ \E core \in Cores : put_tab(core)
    \/ \E core \in Cores : put_newline(core)
    \/ \E core \in Cores : put_backspace(core)
    \/ \E core \in Cores : put_escape(core)
    \/ \E core \in Cores, c \in Glyphs \cup Numbers \cup {Bracket, FinalM} : put_ansi(core, c)
    \/ \E core \in Cores : print_end(core)

Spec == Init /\ [][Next]_vars

---------------------------------------------------------------------------
\* The cursor is always on a cell, so that no pixel is drawn outside the buffer.
TypeOK ==
    /\ term.cursor_h \in Columns /\ term.cursor_v \in Rows
    /\ term.buf1 \in [Rows -> [Columns -> [glyph : Glyphs \cup {Space},
                                              fg : Colours, bg : Colours]]]
    /\ term.ansi_state \in {"normal", "fg_bg", "ansi8", "ansi24"}
    /\ owner \in Cores \cup {None}

\* Scrolling, wrapping, tabs and backspaces at any edge: with what the cursor
\* overwrites, the buffer is the last rows of the same text on endless paper.
ScreenIsTail ==
    \A v \in Rows : term.buf1[v] = paper[Top(paper) + v + 1]

CursorCells == {<<v, h>> \in Rows \X Columns : term.buf1[v][h].bg = CursorColor}

\* terminal_print wipes the cursor before it moves and draws it at the end: it
\* is never left behind in the text or scrolled away with it.
CursorDrawnOnce ==
    CursorCells \subseteq IF owner = None THEN {<<term.cursor_v, term.cursor_h>>} ELSE {}

\* A message starts in the default colours whatever the one before it left, on
\* whichever core.  (is_ansi_state is not reset: after a message that ended
\* inside an escape sequence the next one goes on with that sequence.)
MessageStartsDefault ==
    [][\A core \in Cores : kprintf(core) =>
          /\ term'.fg_color = Default /\ term'.bg_color = Default
          /\ term'.ansi_state = "normal"]_vars

\* What the comment at the 16 colour codes says of a sequence with one of them:
\* it applies that foreground colour, here after a complete 24-bit foreground.
ForegroundApplies ==
    [][\A core \in Cores, n \in Numbers \cap 30 .. 37 :
          /\ put_ansi(core, FinalM)
          /\ term.ansi_sequence = <<Bracket, n>>
          /\ term.fg_color = Direct
          => term'.fg_color = n - 30]_vars
=============================================================================
