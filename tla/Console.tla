------------------------------ MODULE Console ------------------------------
(***************************************************************************)
(* The text console of framebuffer.rs, drawn in the content area of a      *)
(* window.                                                                 *)
(*                                                                         *)
(* The pixels of a character cell are abstracted to the set of glyphs      *)
(* drawn there since it was last blacked out, because draw_char sets the   *)
(* pixels of a glyph and clears none.  The bar of the text cursor is one   *)
(* pixel column at the left edge of a cell, or just right of the last one: *)
(* the content is not a whole number of cells wide (508 pixels, 63 cells   *)
(* of 8, for the shell), so that column is inside it and scrolls with it.  *)
(* write_char returns at once if there is no cell, which cols and rows     *)
(* exclude.                                                                *)
(***************************************************************************)
EXTENDS Integers, Sequences, SequencesExt

CONSTANTS
  cols, rows,      \* Console::cols and Console::rows
  Glyph            \* characters with a visible glyph

Space == "SP"
Newline == "NL"
Return == "CR"
Backspace == "BS"

ASSUME ConsoleAssumption ==
  /\ cols \in Nat \ {0}
  /\ rows \in Nat \ {0}
  /\ Glyph \cap {Space, Newline, Return, Backspace} = {}

Cell == (0 .. cols - 1) \X (0 .. rows - 1)

\* Console::new blacks out the content area.
NewConsole ==
  [cells |-> [p \in Cell |-> {}], bars |-> {}, col |-> 0, row |-> 0, cursor_visible |-> FALSE]

clear(con) == [con EXCEPT !.cells = [p \in Cell |-> {}], !.bars = {}, !.col = 0, !.row = 0]

\* Mutant: the last row is not blacked out.
LastRowKept(con, p) == con.cells[<<p[1], IF p[2] = rows - 1 THEN p[2] ELSE p[2] + 1>>]
CellBelow(con, p) == IF p[2] = rows - 1 THEN {} ELSE con.cells[<<p[1], p[2] + 1>>]

\* Everything in the content area moves up by one row of text, bars included.
scroll_up(con) ==
  [con EXCEPT
     !.cells = [p \in Cell |-> CellBelow(con, p)],
     !.bars = {<<b[1], b[2] - 1>> : b \in {b \in con.bars : b[2] > 0}},
     !.row = rows - 1]

NextRow(con) ==
  LET down == [con EXCEPT !.col = 0, !.row = con.row + 1]
  IN IF down.row >= rows THEN scroll_up(down) ELSE down

draw_char(con, c) ==
  LET p == <<con.col, con.row>>
      drawn == IF c = Space THEN {} ELSE {c}
  IN  [con EXCEPT !.cells = [con.cells EXCEPT ![p] = con.cells[p] \cup drawn]]

clear_char(con) ==
  LET p == <<con.col, con.row>>
  IN  [con EXCEPT !.cells = [con.cells EXCEPT ![p] = {}], !.bars = con.bars \ {p}]

write_char(con, c) ==
  CASE c = Newline -> NextRow(con)
    [] c = Return -> [con EXCEPT !.col = 0]
    [] c = Backspace -> IF con.col > 0 THEN clear_char([con EXCEPT !.col = con.col - 1]) ELSE con
    [] OTHER -> LET at == IF con.col >= cols THEN NextRow(con) ELSE con
                IN [draw_char(at, c) EXCEPT !.col = at.col + 1]

write_str(con, s) ==
  LET after[n \in 0 .. Len(s)] == IF n = 0 THEN con ELSE write_char(after[n - 1], s[n])
  IN  after[Len(s)]

draw_cursor(con) ==
  IF con.cursor_visible THEN con
  ELSE [con EXCEPT !.bars = @ \cup {<<con.col, con.row>>}, !.cursor_visible = TRUE]

\* Mutant: the flag is cleared and the bar is left.
erase_cursorFlagOnly(con) == [con EXCEPT !.cursor_visible = FALSE]

\* The bar is blacked out where the cursor is now.
erase_cursor(con) ==
  IF con.cursor_visible
  THEN [con EXCEPT !.bars = @ \ {<<con.col, con.row>>}, !.cursor_visible = FALSE]
  ELSE con
-----------------------------------------------------------------------------
Console ==
  [cells : [Cell -> SUBSET Glyph], bars : SUBSET ((0 .. cols) \X (0 .. rows - 1)),
   col : 0 .. cols, row : 0 .. rows - 1, cursor_visible : BOOLEAN]

\* Nothing is drawn twice, and nothing where text has yet to go.
ConsoleOK(con) ==
  /\ con \in Console
  /\ \A p \in Cell : con.cells[p] = {} \/ \E g \in Glyph : con.cells[p] = {g}
  /\ \A p \in Cell : p[2] > con.row \/ (p[2] = con.row /\ p[1] >= con.col) => con.cells[p] = {}

\* Before the cursor, row above row as far as they have not scrolled away, are the last
\* k of the first n characters of text.
TextShows(con, text, n, k) ==
  \A p \in Cell :
    LET back == (con.row - p[2]) * cols + (con.col - p[1])
        c == text[n + 1 - back]
    IN  back \in 1 .. k => con.cells[p] = IF c = Space THEN {} ELSE {c}
=============================================================================
