------------------------------- MODULE Shell -------------------------------
(***************************************************************************)
(* The shell task of shell.rs: line editing, commands and what its console *)
(* shows.                                                                  *)
(*                                                                         *)
(* One step is one key taken from the keyboard queue while the shell's     *)
(* window has the focus, with everything task_main does for it.  No other  *)
(* task writes to this console, and the shell is not preempted.  What a    *)
(* command prints is a choice from a small set of texts; which command a   *)
(* line names is a choice too.                                             *)
(***************************************************************************)
EXTENDS Console, FiniteSets

CONSTANTS
  PROMPT,        \* "r-os> "
  MAX_LINE,      \* 256
  Banner,        \* the welcome text
  Outputs        \* what help, echo, meminfo and unknown commands may print

Char == Glyph \cup {Space}

\* Texts that end their last line.
Lines == {s \in Seq(Char \cup {Newline}) : s # <<>> /\ Last(s) = Newline}

ASSUME TextAssumption ==
  /\ MAX_LINE \in Nat
  /\ PROMPT \in Seq(Char)
  /\ Banner \in Lines
  /\ \A s \in Outputs : s \in Lines

VARIABLES
  con,        \* the console of the shell's window
  line_buf,   \* the first line_len bytes of line_buf
  strayed,    \* history: has a character been erased while the cursor was at the left edge
              \* since the prompt
  status      \* "start", "running" or "halted"

shellVars == <<con, line_buf, strayed, status>>

line_len == Len(line_buf)

ShellInit ==
  /\ con = NewConsole
  /\ line_buf = <<>>
  /\ strayed = FALSE
  /\ status = "start"

\* task_main up to its loop.
Start ==
  /\ status = "start"
  /\ con' = draw_cursor(write_str(write_str(con, Banner), PROMPT))
  /\ status' = "running"
  /\ UNCHANGED <<line_buf, strayed>>

\* What task_main does before and after handle_char for every key.
Hidden == erase_cursor(con)
Show(c) == con' = draw_cursor(c)

Editing == status = "running"
-----------------------------------------------------------------------------
(***************************************************************************)
(* handle_char, an action per arm and condition.                           *)
(***************************************************************************)
NewLine == write_char(Hidden, Newline)

\* The end of the arm, with the console as the command leaves it.
Prompt(c) ==
  /\ Show(write_str(c, PROMPT))
  /\ line_buf' = <<>>
  /\ strayed' = FALSE
  /\ UNCHANGED status

EnterEmpty ==
  /\ Editing
  /\ line_len = 0
  /\ Prompt(NewLine)

\* help, echo, meminfo, and any command that does not exist.
EnterPrinting ==
  /\ Editing
  /\ line_len > 0
  /\ \E out \in Outputs : Prompt(write_str(NewLine, out))

cmd_clear ==
  /\ Editing
  /\ line_len > 0
  /\ Prompt(clear(NewLine))

\* cmd_halt never returns: the cursor stays hidden and nothing follows.
cmd_halt ==
  /\ Editing
  /\ line_len > 0
  /\ con' = NewLine
  /\ status' = "halted"
  /\ UNCHANGED <<line_buf, strayed>>

\* Mutant: the cursor is not moved back over the space.
NoStepBack == <<Backspace, Space>>
Erasing == <<Backspace, Space, Backspace>>

EraseChar ==
  /\ Editing
  /\ line_len > 0
  /\ Show(write_str(Hidden, Erasing))
  /\ line_buf' = SubSeq(line_buf, 1, line_len - 1)
  /\ strayed' = (strayed \/ con.col = 0)
  /\ UNCHANGED status

\* Mutant: one character too many.
HasRoomForOneMore == line_len <= MAX_LINE
HasRoom == line_len < MAX_LINE

TypeChar(c) ==
  /\ Editing
  /\ HasRoom
  /\ Show(write_str(Hidden, <<c>>))
  /\ line_buf' = Append(line_buf, c)
  /\ UNCHANGED <<strayed, status>>

\* Backspace on an empty line, a character on a full one, any other key.
IgnoredKey ==
  /\ Editing
  /\ Show(Hidden)
  /\ UNCHANGED <<line_buf, strayed, status>>

ShellNext ==
  \/ Start
  \/ EnterEmpty \/ EnterPrinting \/ cmd_clear \/ cmd_halt
  \/ EraseChar \/ IgnoredKey
  \/ \E c \in Char : TypeChar(c)

ShellSpec == ShellInit /\ [][ShellNext]_shellVars
-----------------------------------------------------------------------------
(***************************************************************************)
(* Text is always legible: no two glyphs are ever drawn over each other,   *)
(* although draw_char clears nothing, whatever is typed, erased, printed,  *)
(* wrapped or scrolled.                                                    *)
(***************************************************************************)
NoOverstrike == \A p \in Cell : Cardinality(con.cells[p]) <= 1

(***************************************************************************)
(* The text cursor is drawn once, where the next character will go, and    *)
(* no bar is left behind when the text moves under it (draw_cursor and     *)
(* erase_cursor around every change in task_main).                         *)
(***************************************************************************)
OneCursorBar == con.bars = IF status = "running" THEN {<<con.col, con.row>>} ELSE {}

(***************************************************************************)
(* What you see is what Enter will execute: on the row of the cursor are   *)
(* the last characters of the prompt and line_buf and nothing more, up to  *)
(* the longest line there can be, whose buffer is never written beyond its *)
(* end; and so are the rows above that the line has wrapped from, until a  *)
(* character is erased with the cursor at the left edge.  That one leaves  *)
(* line_buf and stays on the screen (handle_char and write_char).          *)
(***************************************************************************)
LineShown ==
  status = "running" =>
    LET text == PROMPT \o line_buf
    IN  /\ line_len <= MAX_LINE
        /\ con.col <= Len(text)
        /\ TextShows(con, text, Len(text), IF strayed THEN con.col ELSE Len(text))
        /\ \A i \in con.col .. cols - 1 : con.cells[<<i, con.row>>] = {}

\* Inductive: in addition, no cell at or after the cursor has been drawn in.
ShellInv ==
  /\ ConsoleOK(con)
  /\ con.cursor_visible <=> status = "running"
  /\ line_buf \in Seq(Char)
  /\ line_len <= MAX_LINE
  /\ strayed \in BOOLEAN
  /\ status \in {"start", "running", "halted"}
  /\ status = "start" => line_buf = <<>> /\ ~strayed
  /\ OneCursorBar
  /\ LineShown
=============================================================================
