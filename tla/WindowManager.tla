--------------------------- MODULE WindowManager ---------------------------
(***************************************************************************)
(* The window manager of wm.rs: stacking order, focus, the taskbar, the    *)
(* mouse cursor with the background saved under it, and what the           *)
(* framebuffer shows.                                                      *)
(*                                                                         *)
(* A pixel is a description of what was drawn there, not a colour.  A      *)
(* window's buffer is its title bar, drawn focused or not, above the       *)
(* version of its content last drawn by its task.  Every function of wm.rs *)
(* runs under the WM mutex with interrupts off, so each is one step.       *)
(* WmWindow::dirty is written and never read, and is left out; so are      *)
(* back_buf and bg_cache, which composite fills before it reads them.      *)
(***************************************************************************)
EXTENDS Integers, Sequences, SequencesExt

CONSTANTS
  ScreenWidth, ScreenHeight,   \* 1024 x 768
  TASKBAR_HEIGHT,              \* 28
  FirstLabel,                  \* x of the first label of the taskbar: 54
  FONT_WIDTH,                  \* 8
  LabelPad,                    \* added to the text for the label: 16
  LabelLead,                   \* clickable and highlighted left of the text: 4
  HighlightPad,                \* added to the text for the highlight: 12
  Layout,                      \* the windows kernel_main creates, in order
  CURSOR_SPRITE,               \* offsets <<x, y>> of the cursor's solid pixels
  Content,                     \* versions of a window's content
  NoContent,                   \* the black a new buffer is filled with
  MouseEvents                  \* [dx, dy, left]

Window == 0 .. Len(Layout) - 1
NoWindow == -1
Pixel == (0 .. ScreenWidth - 1) \X (0 .. ScreenHeight - 1)
Geometry == [x : Nat, y : Nat, width : Nat, height : Nat, title_len : Nat]

ASSUME ScreenAssumption ==
  /\ ScreenWidth \in Nat \ {0} /\ ScreenHeight \in Nat \ {0} /\ TASKBAR_HEIGHT \in Nat
  /\ FirstLabel \in Nat /\ FONT_WIDTH \in Nat /\ LabelPad \in Nat
  /\ LabelLead \in 0 .. FirstLabel /\ HighlightPad \in Nat
ASSUME LayoutAssumption == Layout \in Seq(Geometry) /\ Layout # <<>>
ASSUME SpriteAssumption == CURSOR_SPRITE \subseteq Nat \X Nat
ASSUME EventAssumption ==
  \A e \in MouseEvents : e \in [dx : Int, dy : Int, left : BOOLEAN]

VARIABLES
  windows,          \* the ids, bottom to top
  focused,
  needs_composite,
  title,            \* per window: is its title bar drawn "focused" or "plain"
  content,          \* per window: what its task last drew
  cursor,           \* CursorState: x and y
  saved_bg,         \* CursorState::saved_bg, one entry per solid pixel
  visible,          \* CursorState::visible
  fb,               \* the framebuffer
  phase,            \* "boot" until kernel_main has composited once
  clicked           \* history: was the last step a left click

vars == <<windows, focused, needs_composite, title, content, cursor, saved_bg, visible, fb,
          phase, clicked>>
stack == <<windows, focused, title>>
display == <<cursor, saved_bg, visible, fb>>

taskbarY == IF ScreenHeight >= TASKBAR_HEIGHT THEN ScreenHeight - TASKBAR_HEIGHT ELSE 0

\* kernel_main places its windows above the taskbar.
ASSUME PlacementAssumption == \A k \in DOMAIN Layout : Layout[k].y + Layout[k].height <= taskbarY

\* The part of the screen a window covers.
Area ==
  [w \in Window |->
     LET g == Layout[w + 1] IN
       {p \in Pixel : p[1] >= g.x /\ p[1] < g.x + g.width /\ p[2] >= g.y /\ p[2] < g.y + g.height}]
-----------------------------------------------------------------------------
(***************************************************************************)
(* The taskbar: draw_taskbar and handle_taskbar_click walk the windows in  *)
(* stacking order with the same running lx.                                *)
(***************************************************************************)
TextWidth(w) == Layout[w + 1].title_len * FONT_WIDTH

Indices == 1 .. Len(windows)

LabelX[k \in Indices] ==
  IF k = 1 THEN FirstLabel ELSE LabelX[k - 1] + TextWidth(windows[k - 1]) + LabelPad

OnText(i, x) == x >= LabelX[i] /\ x < LabelX[i] + TextWidth(windows[i])

OnHighlight(i, x) ==
  /\ windows[i] = focused
  /\ x >= LabelX[i] - LabelLead
  /\ x < LabelX[i] - LabelLead + TextWidth(windows[i]) + HighlightPad

OnLabel(i, x) ==
  /\ x >= LabelX[i] - LabelLead
  /\ x < LabelX[i] + TextWidth(windows[i]) + LabelPad

Px(kind, w, look) == [kind |-> kind, id |-> w, look |-> look]
Black == Px("black", NoWindow, "plain")

TaskbarPixel(x) ==
  IF \E i \in Indices : OnText(i, x)
  THEN LET i == CHOOSE i \in Indices : OnText(i, x)
       IN Px("label", windows[i], IF windows[i] = focused THEN "focused" ELSE "plain")
  ELSE IF \E i \in Indices : OnHighlight(i, x) THEN Px("highlight", focused, "focused")
  ELSE Px("taskbar", NoWindow, "plain")

(***************************************************************************)
(* What composite draws on the back buffer: background, taskbar, then the  *)
(* windows from bottom to top, clipped to the screen.                      *)
(***************************************************************************)
TopAt(p) ==
  {windows[i] : i \in {k \in Indices :
                         /\ p \in Area[windows[k]]
                         /\ \A j \in k + 1 .. Len(windows) : p \notin Area[windows[j]]}}

WindowPixel(w, p) == Px("window", w, IF p[2] = Layout[w + 1].y THEN title[w] ELSE content[w])

Scene ==
  [p \in Pixel |->
     LET top == TopAt(p) IN
     IF top # {} THEN WindowPixel(CHOOSE w \in top : TRUE, p)
     ELSE IF p[2] >= taskbarY THEN TaskbarPixel(p[1])
     ELSE Px("desktop", NoWindow, "plain")]

(***************************************************************************)
(* The cursor: draw, save_background and restore_background on a buffer.   *)
(* Pixels outside the screen read as black and are not written.            *)
(***************************************************************************)
CursorPixel == Px("cursor", NoWindow, "plain")

Covers(c, p) == <<p[1] - c[1], p[2] - c[2]>> \in CURSOR_SPRITE

draw(buf, c) == [p \in Pixel |-> IF Covers(c, p) THEN CursorPixel ELSE buf[p]]

save_background(buf, c) ==
  [o \in CURSOR_SPRITE |-> LET p == <<c[1] + o[1], c[2] + o[2]>> IN
                             IF p \in Pixel THEN buf[p] ELSE Black]

\* Mutant: the old background is not put back.
restore_backgroundMissing(buf, c, saved) == buf

restore_background(buf, c, saved) ==
  [p \in Pixel |-> IF Covers(c, p) THEN saved[<<p[1] - c[1], p[2] - c[2]>>] ELSE buf[p]]

clamp(v, hi) == IF v < 0 THEN 0 ELSE IF v > hi THEN hi ELSE v

apply_delta(c, e) ==
  <<clamp(c[1] + e.dx, ScreenWidth - 1), clamp(c[2] - e.dy, ScreenHeight - 1)>>
-----------------------------------------------------------------------------
Init ==
  /\ windows = <<>>
  /\ focused = NoWindow
  /\ needs_composite = TRUE
  /\ title = [w \in Window |-> "plain"]
  /\ content = [w \in Window |-> NoContent]
  /\ cursor = <<ScreenWidth \div 2, ScreenHeight \div 2>>
  /\ saved_bg = [o \in CURSOR_SPRITE |-> Black]
  /\ visible = FALSE
  /\ fb = [p \in Pixel |-> Px("desktop", NoWindow, "plain")]
  /\ phase = "boot"
  /\ clicked = FALSE

NoClick == clicked' = FALSE

\* Steps 1 to 5 of composite, with the state the windows have by then.
CompositeStep ==
  /\ fb' = draw(Scene', cursor')
  /\ saved_bg' = save_background(Scene', cursor')
  /\ visible' = TRUE
  /\ needs_composite' = FALSE

\* The first window takes the focus that nobody has.
create_window ==
  /\ phase = "boot"
  /\ Len(windows) < Len(Layout)
  /\ LET id == Len(windows) IN
       /\ windows' = Append(windows, id)
       /\ title' = [title EXCEPT ![id] = IF focused = NoWindow THEN "focused" ELSE "plain"]
       /\ focused' = IF focused = NoWindow THEN id ELSE focused
  /\ needs_composite' = TRUE
  /\ NoClick
  /\ UNCHANGED <<content, display, phase>>

FirstComposite ==
  /\ phase = "boot"
  /\ Len(windows) = Len(Layout)
  /\ phase' = "run"
  /\ NoClick
  /\ UNCHANGED <<stack, content, cursor>>
  /\ CompositeStep

(***************************************************************************)
(* A task draws into its window: console_write, console_clear,             *)
(* console_show_cursor, console_hide_cursor, or draw_memmap followed by    *)
(* mark_dirty.  init_console blacks out content that is still black and    *)
(* asks for nothing, so it changes no state of this model.                 *)
(***************************************************************************)
Draw(w) ==
  /\ phase = "run"
  /\ \E v \in Content : content' = [content EXCEPT ![w] = v]
  /\ needs_composite' = TRUE
  /\ NoClick
  /\ UNCHANGED <<stack, display, phase>>

\* The idle loop composites when asked to.
composite ==
  /\ phase = "run"
  /\ needs_composite
  /\ NoClick
  /\ UNCHANGED <<stack, content, cursor, phase>>
  /\ CompositeStep

(***************************************************************************)
(* handle_mouse.  The window clicked on is the topmost one at the new      *)
(* position of the cursor or, in the taskbar, the first whose label        *)
(* contains it.                                                            *)
(***************************************************************************)
handle_taskbar_click(x) ==
  {windows[i] : i \in {k \in Indices : OnLabel(k, x) /\ \A j \in 1 .. k - 1 : ~OnLabel(j, x)}}

\* Mutant: the windows are searched from the bottom.
ClickTargetBottom(p) ==
  IF p[2] >= taskbarY THEN handle_taskbar_click(p[1])
  ELSE {windows[i] : i \in {k \in Indices :
                              /\ p \in Area[windows[k]]
                              /\ \A j \in 1 .. k - 1 : p \notin Area[windows[j]]}}

ClickTarget(p) == IF p[2] >= taskbarY THEN handle_taskbar_click(p[1]) ELSE TopAt(p)

\* Mutant: the window is not raised.
NotRaised(w) == windows
Position(w) == CHOOSE i \in Indices : windows[i] = w /\ \A j \in 1 .. i - 1 : windows[j] # w
Raised(w) == Append(RemoveAt(windows, Position(w)), w)

\* Mutant: the old title bar is not redrawn.
OldTitleKept(w) == [title EXCEPT ![w] = "focused"]
Retitled(w) == [title EXCEPT ![focused] = "plain", ![w] = "focused"]

focus_window(w) ==
  /\ w # focused
  /\ windows' = Raised(w)
  /\ title' = Retitled(w)
  /\ focused' = w

\* A click that changes the focus, or one in the taskbar that changes nothing.
MouseClick(e) ==
  /\ e.left
  /\ cursor' = apply_delta(cursor, e)
  /\ \/ \E w \in ClickTarget(cursor') : focus_window(w)
     \/ /\ ClickTarget(cursor') \subseteq {focused}
        /\ cursor'[2] >= taskbarY
        /\ UNCHANGED stack
  /\ UNCHANGED <<content, phase>>
  /\ clicked' = TRUE
  /\ CompositeStep

\* Anything else only moves the cursor: it is redrawn in place, unless a task
\* has asked for a composite in the meantime.
OnlyMoves(e) == ~e.left \/ (cursor'[2] < taskbarY /\ ClickTarget(cursor') \subseteq {focused})

MouseMove(e) ==
  /\ cursor' = apply_delta(cursor, e)
  /\ OnlyMoves(e)
  /\ clicked' = e.left
  /\ UNCHANGED <<stack, content, phase>>
  /\ \/ /\ ~needs_composite
        /\ LET clean == IF visible THEN restore_background(fb, cursor, saved_bg) ELSE fb IN
             /\ saved_bg' = save_background(clean, cursor')
             /\ fb' = draw(clean, cursor')
        /\ visible' = TRUE
        /\ UNCHANGED needs_composite
     \/ /\ needs_composite
        /\ CompositeStep

handle_mouse(e) == phase = "run" /\ (MouseClick(e) \/ MouseMove(e))

Next ==
  \/ create_window \/ FirstComposite \/ composite
  \/ \E w \in Window : Draw(w)
  \/ \E e \in MouseEvents : handle_mouse(e)

Spec == Init /\ [][Next]_vars
-----------------------------------------------------------------------------
Looks == {"plain", "focused"} \cup Content \cup {NoContent}

PixelValue ==
  [kind : {"black", "desktop", "taskbar", "label", "highlight", "window", "cursor"},
   id : Window \cup {NoWindow}, look : Looks]

TypeOK ==
  /\ windows \in Seq(Window)
  /\ focused \in Window \cup {NoWindow}
  /\ needs_composite \in BOOLEAN
  /\ title \in [Window -> {"plain", "focused"}]
  /\ content \in [Window -> Content \cup {NoContent}]
  /\ cursor \in Pixel
  /\ saved_bg \in [CURSOR_SPRITE -> PixelValue]
  /\ visible \in BOOLEAN
  /\ fb \in [Pixel -> PixelValue]
  /\ phase \in {"boot", "run"}
  /\ clicked \in BOOLEAN

(***************************************************************************)
(* The screen is never stale: unless a composite is due, the framebuffer   *)
(* shows the windows as they are with the cursor once on top, and nothing  *)
(* is left of where the cursor was (handle_mouse redraws only the cursor). *)
(***************************************************************************)
ScreenCurrent == ~needs_composite => fb = draw(Scene, cursor)

(***************************************************************************)
(* The title bars tell the truth: exactly the focused window's is drawn as *)
(* focused (draw_chrome in create_window and focus_window).                *)
(***************************************************************************)
TitlesMatchFocus ==
  \A w \in Window : title[w] = "focused" <=> (w = focused /\ focused # NoWindow)

\* The screen at p without the cursor.
Seen(p) == IF visible /\ Covers(cursor, p)
           THEN saved_bg[<<p[1] - cursor[1], p[2] - cursor[2]>>] ELSE fb[p]

(***************************************************************************)
(* A click focuses what the user sees under the cursor: the window drawn   *)
(* there or the window whose title the taskbar shows there, and nothing on *)
(* the bare desktop (handle_mouse, handle_taskbar_click, draw_taskbar).    *)
(***************************************************************************)
ClickFocusesWhatIsSeen ==
  [][clicked' =>
       LET seen == Seen(cursor') IN
         /\ seen.kind \in {"window", "label"} => focused' = seen.id
         /\ seen.kind = "desktop" => focused' = focused]_vars

(***************************************************************************)
(* A window that gets the focus is on top, and stays there until another   *)
(* gets it (the first window has the focus from the start without being on *)
(* top); no window is lost or doubled when one is raised (focus_window).   *)
(***************************************************************************)
FocusedOnTop ==
  /\ \A w \in Window : phase = "run" => \E i \in Indices : windows[i] = w
  /\ Len(windows) <= Len(Layout)
  /\ phase = "run" => \/ windows[Len(windows)] = focused
                      \/ focused = 0 /\ \A i \in Indices : windows[i] = i - 1
=============================================================================
