------------------------ MODULE WindowManagerProofs ------------------------
(***************************************************************************)
(* The window manager for every layout, cursor sprite, screen size and     *)
(* sequence of mouse events: titles, stacking order, the screen, clicks.   *)
(* Then the console in a window of it, the shell's, for every size of the  *)
(* console and every text: glyphs, the text cursor, the line shown.        *)
(***************************************************************************)
EXTENDS WindowManager, Shell, SequenceTheorems, FiniteSetTheorems,
        WellFoundedInduction, TLAPS

WmType ==
  /\ windows \in Seq(Window)
  /\ Len(windows) <= Len(Layout)
  /\ focused \in Window \cup {NoWindow}
  /\ title \in [Window -> {"plain", "focused"}]
  /\ cursor \in Pixel
  /\ phase \in {"boot", "run"}

\* While it boots, the windows are in the order in which they were created.
BootOrder ==
  phase = "boot" =>
    /\ \A i \in Indices : windows[i] = i - 1
    /\ windows = <<>> => focused = NoWindow
    /\ windows # <<>> => focused = 0

StackedInv == WmType /\ BootOrder /\ FocusedOnTop /\ TitlesMatchFocus
-----------------------------------------------------------------------------
\* A set of numbers has a least one.
LEMMA LeastNumber ==
  ASSUME NEW T \in SUBSET Nat, T # {}
  PROVE  \E k \in T : \A j \in T : k <= j
  <1>1. PICK k \in T : \A j \in T : ~(<<j, k>> \in OpToRel(<, Nat))
    BY NatLessThanWellFounded, WFMin
  <1>2. ASSUME NEW j \in T PROVE k <= j
    <2>1. ~(j < k)
      BY <1>1 DEF OpToRel
    <2> QED
      BY <2>1
  <1> QED
    BY <1>2

\* There is a window.
LEMMA LayoutLength == Len(Layout) \in Nat /\ Len(Layout) > 0
  BY LayoutAssumption

\* Windows are numbers, and NoWindow is none of them.
LEMMA WindowType == Window \subseteq Nat /\ 0 \in Window /\ NoWindow \notin Window /\ NoWindow \in Int
  BY LayoutLength DEF Window, NoWindow

\* The cursor stays on the screen.
LEMMA CursorOnScreen ==
  ASSUME cursor \in Pixel, NEW e \in MouseEvents
  PROVE  apply_delta(cursor, e) \in Pixel
  <1>1. e.dx \in Int /\ e.dy \in Int /\ cursor[1] \in Int /\ cursor[2] \in Int
    BY EventAssumption, ScreenAssumption DEF Pixel
  <1>2. ScreenWidth - 1 \in Nat /\ ScreenHeight - 1 \in Nat
    BY ScreenAssumption
  <1>3. ASSUME NEW v \in Int, NEW hi \in Nat PROVE clamp(v, hi) \in 0 .. hi
    BY DEF clamp
  <1>4. cursor[1] + e.dx \in Int /\ cursor[2] - e.dy \in Int
    BY <1>1
  <1>5. /\ clamp(cursor[1] + e.dx, ScreenWidth - 1) \in 0 .. ScreenWidth - 1
        /\ clamp(cursor[2] - e.dy, ScreenHeight - 1) \in 0 .. ScreenHeight - 1
    BY <1>2, <1>3, <1>4
  <1> QED
    BY <1>5 DEF apply_delta, Pixel

\* What a click can hit is one of the windows.
LEMMA TargetIsWindow ==
  ASSUME NEW p, NEW w \in ClickTarget(p)
  PROVE  \E i \in Indices : windows[i] = w
  BY DEF ClickTarget, TopAt, handle_taskbar_click

\* position finds the first place of a window.
LEMMA PositionFound ==
  ASSUME windows \in Seq(Window), NEW w, \E i \in Indices : windows[i] = w
  PROVE  Position(w) \in Indices /\ windows[Position(w)] = w
  <1> DEFINE I == {i \in Indices : windows[i] = w}
  <1>1. I \in SUBSET Nat /\ I # {}
    BY DEF Indices
  <1>2. PICK k \in I : \A j \in I : k <= j
    BY <1>1, LeastNumber
  <1>3. \A j \in 1 .. k - 1 : windows[j] # w
    BY <1>2 DEF Indices
  <1>4. \E i \in Indices : windows[i] = w /\ \A j \in 1 .. i - 1 : windows[j] # w
    BY <1>2, <1>3
  <1> QED
    BY <1>4 DEF Position

\* position, remove and push: every window keeps a place when one is raised.
LEMMA RaisedKeepsAll ==
  ASSUME windows \in Seq(Window), NEW w \in Window, \E i \in Indices : windows[i] = w
  PROVE  /\ Raised(w) \in Seq(Window) /\ Len(Raised(w)) = Len(windows)
         /\ Raised(w)[Len(windows)] = w
         /\ \A v : (\E i \in Indices : windows[i] = v) => \E i \in Indices : Raised(w)[i] = v
  <1>1. PICK n \in Nat : n = Len(windows)
    OBVIOUS
  <1>2. PICK k \in 1 .. n : k = Position(w) /\ windows[k] = w
    BY <1>1, PositionFound DEF Indices
  <1>3. PICK a \in Seq(Window) :
          a = SubSeq(windows, 1, k - 1) /\ Len(a) = k - 1 /\ \A i \in 1 .. k - 1 : a[i] = windows[i]
    <2>1. /\ SubSeq(windows, 1, k - 1) \in Seq(Window) /\ Len(SubSeq(windows, 1, k - 1)) = k - 1
          /\ \A i \in 1 .. k - 1 : SubSeq(windows, 1, k - 1)[i] = windows[i]
      BY <1>1, <1>2
    <2> QED
      BY <2>1
  <1>4. PICK b \in Seq(Window) :
          b = SubSeq(windows, k + 1, n) /\ Len(b) = n - k /\ \A i \in 1 .. n - k : b[i] = windows[k + i]
    <2>1. /\ SubSeq(windows, k + 1, n) \in Seq(Window) /\ Len(SubSeq(windows, k + 1, n)) = n - k
          /\ \A i \in 1 .. n - k : SubSeq(windows, k + 1, n)[i] = windows[k + i]
      BY <1>1, <1>2
    <2> QED
      BY <2>1
  <1>5. PICK c \in Seq(Window) :
          /\ c = a \o b /\ Len(c) = Len(a) + Len(b)
          /\ \A i \in 1 .. Len(a) + Len(b) : c[i] = IF i <= Len(a) THEN a[i] ELSE b[i - Len(a)]
    <2>1. /\ a \o b \in Seq(Window) /\ Len(a \o b) = Len(a) + Len(b)
          /\ \A i \in 1 .. Len(a) + Len(b) : (a \o b)[i] = IF i <= Len(a) THEN a[i] ELSE b[i - Len(a)]
      <3>1. a \in Seq(Window) /\ b \in Seq(Window)
        OBVIOUS
      <3> QED
        BY <3>1, ConcatProperties, Zenon
    <2> QED
      BY <2>1, Zenon
  <1>6. Len(a) = k - 1 /\ Len(b) = n - k /\ Len(a) + Len(b) = n - 1
    <2>1. Len(a) = k - 1 /\ Len(b) = n - k
      BY <1>3, <1>4
    <2> QED
      BY <1>1, <1>2, <2>1
  <1>7. PICK r \in Seq(Window) :
          r = Append(c, w) /\ Len(r) = n /\ r[n] = w /\ \A i \in 1 .. n - 1 : r[i] = c[i]
    <2>1. Len(c) = n - 1
      BY <1>5, <1>6
    <2>2. /\ Append(c, w) \in Seq(Window) /\ Len(Append(c, w)) = Len(c) + 1
          /\ \A i \in 1 .. Len(c) : Append(c, w)[i] = c[i]
          /\ Append(c, w)[Len(c) + 1] = w
      BY AppendProperties
    <2>3. (n - 1) + 1 = n
      BY <1>1
    <2> QED
      BY <1>1, <2>1, <2>2, <2>3
  <1>8. r = Raised(w)
    BY <1>1, <1>2, <1>3, <1>4, <1>5, <1>7 DEF Raised, RemoveAt
  <1>9. ASSUME NEW i \in 1 .. n PROVE \E j \in 1 .. n : r[j] = windows[i]
    <2>1. CASE i = k
      BY <1>1, <1>2, <1>7, <2>1
    <2>2. CASE i < k
      <3>1. i \in 1 .. n - 1 /\ i \in 1 .. k - 1 /\ i <= k - 1 /\ i \in 1 .. n
        BY <1>1, <1>2, <2>2
      <3>2. c[i] = a[i]
        BY <1>5, <1>6, <3>1
      <3> QED
        BY <1>3, <1>7, <3>1, <3>2
    <2>3. CASE i > k
      <3>1. /\ i - 1 \in 1 .. n - 1 /\ ~(i - 1 <= k - 1) /\ (i - 1) - (k - 1) = i - k
            /\ i - k \in 1 .. n - k /\ k + (i - k) = i /\ i - 1 \in 1 .. n
        BY <1>1, <1>2, <2>3
      <3>2. c[i - 1] = b[i - k]
        BY <1>5, <1>6, <3>1
      <3>3. b[i - k] = windows[i]
        BY <1>4, <3>1
      <3>4. r[i - 1] = windows[i]
        BY <1>7, <3>1, <3>2, <3>3
      <3> QED
        BY <3>1, <3>4
    <2> QED
      BY <1>1, <1>2, <2>1, <2>2, <2>3
  <1> QED
    BY <1>1, <1>7, <1>8, <1>9 DEF Indices

-----------------------------------------------------------------------------
(***************************************************************************)
(* Stacking order and titles.                                              *)
(***************************************************************************)
LEMMA FocusStep ==
  ASSUME StackedInv, phase = "run", phase' = phase, cursor' \in Pixel,
         NEW p, NEW w \in ClickTarget(p), focus_window(w)
  PROVE  StackedInv'
  <1>1. /\ windows \in Seq(Window) /\ focused \in Window \cup {NoWindow} /\ Len(windows) <= Len(Layout)
        /\ title \in [Window -> {"plain", "focused"}] /\ windows' = Raised(w) /\ title' = Retitled(w)
        /\ focused' = w /\ w # focused
    BY DEF StackedInv, WmType, focus_window
  <1>2. w \in Window /\ \E i \in Indices : windows[i] = w
    BY <1>1, TargetIsWindow DEF Indices
  <1>3. /\ windows' \in Seq(Window) /\ Len(windows') = Len(windows) /\ windows'[Len(windows)] = w
        /\ \A v : (\E i \in Indices : windows[i] = v) => \E i \in Indices : windows'[i] = v
    BY <1>1, <1>2, RaisedKeepsAll
  <1>4. title' \in [Window -> {"plain", "focused"}] /\ title'[w] = "focused"
        /\ \A v \in Window : v # w => title'[v] = IF v = focused THEN "plain" ELSE title[v]
    BY <1>1, <1>2 DEF Retitled
  <1>5. WmType'
    BY <1>1, <1>2, <1>3, <1>4 DEF WmType
  <1>6. TitlesMatchFocus'
    BY <1>1, <1>2, <1>4, WindowType DEF StackedInv, TitlesMatchFocus
  <1>7. FocusedOnTop'
    <2>1. Indices' = Indices
      BY <1>3 DEF Indices
    <2> QED
      BY <1>1, <1>3, <2>1 DEF StackedInv, FocusedOnTop
  <1>8. BootOrder'
    BY DEF BootOrder
  <1> QED
    BY <1>5, <1>6, <1>7, <1>8 DEF StackedInv

\* create_window puts the new window on top and focuses the first one only.
LEMMA CreateStep == StackedInv /\ create_window => StackedInv'
  <1> SUFFICES ASSUME StackedInv, create_window PROVE StackedInv'
    OBVIOUS
  <1>1. PICK n \in Nat : n = Len(windows)
    BY DEF StackedInv, WmType
  <1>2. /\ phase = "boot" /\ phase' = "boot" /\ n < Len(Layout) /\ windows' = Append(windows, n)
        /\ title' = [title EXCEPT ![n] = IF focused = NoWindow THEN "focused" ELSE "plain"]
        /\ focused' = (IF focused = NoWindow THEN n ELSE focused) /\ cursor' = cursor
    BY <1>1 DEF create_window, display
  <1>3. n \in Window /\ windows \in Seq(Window) /\ title \in [Window -> {"plain", "focused"}]
    BY <1>1, <1>2, LayoutLength DEF StackedInv, WmType, Window
  <1>4. /\ windows' \in Seq(Window) /\ Len(windows') = n + 1 /\ windows'[n + 1] = n
        /\ \A i \in 1 .. n : windows'[i] = windows[i]
    BY <1>1, <1>2, <1>3
  <1>5. n > 0 => focused = 0
    BY <1>1, <1>2, <1>3 DEF StackedInv, BootOrder
  <1>6. n = 0 => focused = NoWindow
    <2>1. n = 0 => windows = <<>>
      BY <1>1, <1>3, EmptySeq
    <2> QED
      BY <1>2, <2>1 DEF StackedInv, BootOrder
  <1>7. focused' = 0
    BY <1>1, <1>2, <1>5, <1>6 DEF NoWindow
  <1>8. WmType'
    BY <1>1, <1>2, <1>3, <1>4, <1>7, LayoutLength, WindowType DEF StackedInv, WmType
  <1>9. BootOrder'
    <2>1. ASSUME NEW i \in 1 .. n + 1 PROVE windows'[i] = i - 1
      <3>1. CASE i = n + 1
        BY <1>1, <1>4, <3>1
      <3>2. CASE i \in 1 .. n
        BY <1>1, <1>2, <1>4, <3>2 DEF StackedInv, BootOrder, Indices
      <3> QED
        BY <1>1, <3>1, <3>2
    <2>2. windows' # <<>>
      BY <1>1, <1>4
    <2> QED
      BY <1>4, <1>7, <2>1, <2>2 DEF BootOrder, Indices
  <1>10. FocusedOnTop'
    BY <1>1, <1>2, <1>4, LayoutLength DEF FocusedOnTop
  <1>11. TitlesMatchFocus'
    <2>1. \A v \in Window : v # n => title'[v] = title[v]
      BY <1>2, <1>3
    <2>2. title'[n] = IF n = 0 THEN "focused" ELSE "plain"
      BY <1>1, <1>2, <1>3, <1>5, <1>6 DEF NoWindow
    <2>3. \A v \in Window : v # n => (title[v] = "focused" <=> (v = 0 /\ n > 0))
      BY <1>1, <1>5, <1>6, WindowType DEF StackedInv, TitlesMatchFocus, NoWindow
    <2> QED
      BY <1>1, <1>3, <1>7, <2>1, <2>2, <2>3, WindowType DEF TitlesMatchFocus, NoWindow
  <1> QED
    BY <1>8, <1>9, <1>10, <1>11 DEF StackedInv

\* No operation disturbs the order of the windows, their titles and the focus.
LEMMA StackedStep == StackedInv /\ [Next]_vars => StackedInv'
  <1> SUFFICES ASSUME StackedInv, [Next]_vars PROVE StackedInv'
    OBVIOUS
  <1>a. ASSUME UNCHANGED stack, phase' = phase, cursor' \in Pixel PROVE StackedInv'
    BY <1>a DEF StackedInv, WmType, BootOrder, FocusedOnTop, TitlesMatchFocus, Indices, stack
  <1>b. cursor \in Pixel
    BY DEF StackedInv, WmType
  <1>1. CASE create_window
    BY <1>1, CreateStep
  <1>2. CASE FirstComposite
    <2>1. /\ windows' = windows /\ focused' = focused /\ title' = title /\ cursor' = cursor
          /\ phase = "boot" /\ phase' = "run" /\ Len(windows) = Len(Layout)
      BY <1>2 DEF FirstComposite, stack
    <2>2. windows \in Seq(Window) /\ Len(windows) > 0 /\ \A i \in Indices : windows[i] = i - 1
      BY <2>1, LayoutLength DEF StackedInv, WmType, BootOrder
    <2>3. windows # <<>>
      BY <2>2
    <2>4. focused = 0
      BY <2>1, <2>3 DEF StackedInv, BootOrder
    <2>5. \A w \in Window : w + 1 \in Indices /\ windows[w + 1] = w
      BY <2>1, <2>2, LayoutLength DEF Window, Indices
    <2>6. FocusedOnTop'
      BY <2>1, <2>2, <2>4, <2>5 DEF StackedInv, FocusedOnTop, Indices
    <2> QED
      BY <1>b, <2>1, <2>6 DEF StackedInv, WmType, BootOrder, TitlesMatchFocus
  <1>3. CASE composite
    BY <1>3, <1>a, <1>b DEF composite
  <1>4. CASE \E w \in Window : Draw(w)
    BY <1>4, <1>a, <1>b DEF Draw, display
  <1>5. CASE \E e \in MouseEvents : handle_mouse(e)
    <2>1. PICK e \in MouseEvents : handle_mouse(e)
      BY <1>5
    <2>2. cursor' \in Pixel /\ phase = "run" /\ phase' = phase
      <3>1. cursor' = apply_delta(cursor, e) /\ phase = "run" /\ phase' = phase
        BY <2>1 DEF handle_mouse, MouseClick, MouseMove
      <3> QED
        BY <1>b, <3>1, CursorOnScreen
    <2>3. CASE UNCHANGED stack
      BY <1>a, <2>2, <2>3
    <2>4. CASE \E w \in ClickTarget(cursor') : focus_window(w)
      BY <2>2, <2>4, FocusStep
    <2> QED
      BY <2>1, <2>3, <2>4 DEF handle_mouse, MouseClick, MouseMove
  <1>6. CASE UNCHANGED vars
    BY <1>6, <1>a, <1>b DEF vars, stack
  <1> QED
    BY <1>1, <1>2, <1>3, <1>4, <1>5, <1>6 DEF Next

\* There are no windows at first.
LEMMA StackedInit == Init => StackedInv
  <1> SUFFICES ASSUME Init PROVE StackedInv
    OBVIOUS
  <1>1. /\ windows = <<>> /\ focused = NoWindow /\ title = [w \in Window |-> "plain"] /\ phase = "boot"
        /\ cursor = <<ScreenWidth \div 2, ScreenHeight \div 2>>
    BY DEF Init
  <1>2. ScreenWidth \div 2 \in 0 .. ScreenWidth - 1 /\ ScreenHeight \div 2 \in 0 .. ScreenHeight - 1
    BY ScreenAssumption
  <1>3. windows \in Seq(Window) /\ Len(windows) = 0 /\ Indices = {}
    BY <1>1 DEF Indices
  <1>4. WmType
    BY <1>1, <1>2, <1>3, LayoutLength DEF WmType, Pixel
  <1> QED
    BY <1>1, <1>3, <1>4, LayoutLength DEF StackedInv, BootOrder, FocusedOnTop, TitlesMatchFocus

(***************************************************************************)
(* Whatever is created, drawn and clicked on, exactly one title bar is     *)
(* drawn as focused, that of the focused window (focus_window).            *)
(***************************************************************************)
THEOREM TitlesTellFocus == Spec => []TitlesMatchFocus
  <1>1. StackedInv => TitlesMatchFocus
    BY DEF StackedInv
  <1> QED
    BY <1>1, StackedInit, StackedStep, PTL DEF Spec

(***************************************************************************)
(* For every layout: raising a window loses none and doubles none, and the *)
(* focused one is on top, save before the first change (focus_window).     *)
(***************************************************************************)
THEOREM FocusStaysOnTop == Spec => []FocusedOnTop
  <1>1. StackedInv => FocusedOnTop
    BY DEF StackedInv
  <1> QED
    BY <1>1, StackedInit, StackedStep, PTL DEF Spec
-----------------------------------------------------------------------------
(***************************************************************************)
(* The screen.                                                             *)
(***************************************************************************)
LEMMA SceneSame ==
  ASSUME UNCHANGED stack, content' = content
  PROVE  Scene' = Scene
  BY DEF stack, Scene, TopAt, WindowPixel, TaskbarPixel, Indices, OnText, OnHighlight, LabelX

\* What a pixel shows, its look apart: the desktop, the taskbar, a label, or which window.
SameWindow(a, b) == a.kind = b.kind /\ a.id = b.id

(***************************************************************************)
(* Inductive: under the cursor and around it the screen shows the windows  *)
(* where they are, and with the content they have unless a composite is    *)
(* due.                                                                    *)
(***************************************************************************)
Shown ==
  /\ phase = "boot" => needs_composite
  /\ phase = "run" =>
       /\ visible
       /\ fb = draw(fb, cursor)
       /\ \A p \in Pixel : SameWindow(Seen(p), Scene[p])
  /\ ~needs_composite => \A p \in Pixel : Seen(p) = Scene[p]

\* Drawing the cursor hides nothing that was not saved.
LEMMA NothingHidden ==
  ASSUME NEW buf, NEW c \in Pixel, NEW p \in Pixel
  PROVE  (IF Covers(c, p) THEN save_background(buf, c)[<<p[1] - c[1], p[2] - c[2]>>] ELSE draw(buf, c)[p])
           = buf[p]
  <1>1. /\ c[1] \in Int /\ c[2] \in Int /\ p[1] \in Int /\ p[2] \in Int /\ p = <<p[1], p[2]>>
    BY ScreenAssumption DEF Pixel
  <1>2. c[1] + (p[1] - c[1]) = p[1] /\ c[2] + (p[2] - c[2]) = p[2]
    BY <1>1
  <1>3. CASE Covers(c, p)
    <2>1. PICK o \in CURSOR_SPRITE : o = <<p[1] - c[1], p[2] - c[2]>>
      BY <1>3 DEF Covers
    <2>2. <<c[1] + o[1], c[2] + o[2]>> = p
      BY <1>1, <1>2, <2>1
    <2>3. save_background(buf, c)[o] = buf[p]
      BY <2>2 DEF save_background
    <2> QED
      BY <1>3, <2>1, <2>3
  <1>4. CASE ~Covers(c, p)
    BY <1>4 DEF draw
  <1> QED
    BY <1>3, <1>4

\* Drawing the cursor twice is drawing it once.
LEMMA DrawnOnce ==
  ASSUME NEW buf, NEW c
  PROVE  draw(draw(buf, c), c) = draw(buf, c)
  BY DEF draw

\* So a buffer drawn with its cursor is seen as it was.
LEMMA SeenAsDrawn ==
  ASSUME NEW buf, cursor' \in Pixel, fb' = draw(buf, cursor'), saved_bg' = save_background(buf, cursor'),
         visible' = TRUE
  PROVE  /\ (fb = draw(fb, cursor))'
         /\ \A p \in Pixel : Seen(p)' = buf[p]
  <1>1. fb' = draw(fb', cursor')
    BY DrawnOnce
  <1>2. ASSUME NEW p \in Pixel PROVE Seen(p)' = buf[p]
    <2>1. CASE Covers(cursor', p)
      BY <2>1, NothingHidden DEF Seen, Covers
    <2>2. CASE ~Covers(cursor', p)
      BY <2>2, NothingHidden DEF Seen, Covers
    <2> QED
      BY <2>1, <2>2
  <1>3. (fb = draw(fb, cursor))'
    BY <1>1 DEF draw, Covers
  <1> QED
    BY <1>2, <1>3

\* After a composite the screen shows the windows as they are.
LEMMA CompositeShows ==
  ASSUME StackedInv', CompositeStep, phase' = "run"
  PROVE  Shown'
  <1>1. cursor' \in Pixel /\ visible' = TRUE /\ needs_composite' = FALSE
    BY DEF CompositeStep, StackedInv, WmType
  <1>2. fb' = draw(Scene', cursor') /\ saved_bg' = save_background(Scene', cursor')
    BY DEF CompositeStep
  <1>3. (fb = draw(fb, cursor))' /\ \A p \in Pixel : Seen(p)' = Scene'[p]
    BY <1>1, <1>2, SeenAsDrawn
  <1> QED
    BY <1>1, <1>3 DEF Shown, SameWindow

\* What is on the screen at a pixel does not depend on the content of the windows.
LEMMA SceneSameWindows ==
  ASSUME UNCHANGED stack, NEW p \in Pixel
  PROVE  SameWindow(Scene'[p], Scene[p])
  <1>1. TopAt(p)' = TopAt(p) /\ TaskbarPixel(p[1])' = TaskbarPixel(p[1])
    BY DEF stack, TopAt, TaskbarPixel, Indices, OnText, OnHighlight, LabelX
  <1>2. CASE TopAt(p) # {}
    <2>1. /\ Scene[p] = WindowPixel(CHOOSE w \in TopAt(p) : TRUE, p)
          /\ Scene'[p] = WindowPixel(CHOOSE w \in TopAt(p) : TRUE, p)'
      BY <1>1, <1>2 DEF Scene
    <2> QED
      BY <2>1, <1>1 DEF WindowPixel, Px, SameWindow
  <1>3. CASE TopAt(p) = {}
    <2>1. Scene'[p] = Scene[p]
      BY <1>1, <1>3 DEF Scene
    <2> QED
      BY <2>1 DEF SameWindow
  <1> QED
    BY <1>2, <1>3

\* Moving the cursor alone changes nothing else that is seen.
LEMMA MoveShows ==
  ASSUME StackedInv', Shown, phase = "run", phase' = phase, UNCHANGED <<stack, content>>, ~needs_composite,
         UNCHANGED needs_composite, visible' = TRUE,
         NEW clean, clean = (IF visible THEN restore_background(fb, cursor, saved_bg) ELSE fb),
         saved_bg' = save_background(clean, cursor'), fb' = draw(clean, cursor')
  PROVE  Shown'
  <1>1. cursor' \in Pixel
    BY DEF StackedInv, WmType
  <1>2. \A p \in Pixel : clean[p] = Seen(p)
    BY DEF restore_background, Seen
  <1>3. (fb = draw(fb, cursor))' /\ \A p \in Pixel : Seen(p)' = clean[p]
    BY <1>1, SeenAsDrawn
  <1>4. Scene' = Scene
    BY SceneSame
  <1>5. \A p \in Pixel : Seen(p)' = Scene'[p]
    BY <1>2, <1>3, <1>4 DEF Shown
  <1> QED
    BY <1>3, <1>5 DEF Shown, SameWindow

\* Every operation leaves the screen as the scene, or asks for a composite.
LEMMA ShownStep == StackedInv /\ StackedInv' /\ Shown /\ [Next]_vars => Shown'
  <1> SUFFICES ASSUME StackedInv, StackedInv', Shown, [Next]_vars PROVE Shown'
    OBVIOUS
  <1>1. CASE create_window
    BY <1>1 DEF create_window, Shown
  <1>2. CASE FirstComposite
    BY <1>2, CompositeShows DEF FirstComposite
  <1>3. CASE composite
    BY <1>3, CompositeShows DEF composite
  <1>4. CASE \E w \in Window : Draw(w)
    <2>1. /\ phase = "run" /\ phase' = "run" /\ needs_composite' = TRUE
          /\ cursor' = cursor /\ saved_bg' = saved_bg /\ visible' = visible /\ fb' = fb /\ UNCHANGED stack
      BY <1>4 DEF Draw, display
    <2>2. (fb = draw(fb, cursor))'
      BY <2>1 DEF Shown, draw, Covers
    <2>3. ASSUME NEW p \in Pixel PROVE SameWindow(Seen(p), Scene[p])'
      <3>1. Seen(p)' = Seen(p)
        BY <2>1 DEF Seen, Covers
      <3>2. SameWindow(Scene'[p], Scene[p]) /\ SameWindow(Seen(p), Scene[p])
        BY <2>1, SceneSameWindows DEF Shown
      <3> QED
        BY <3>1, <3>2 DEF SameWindow
    <2> QED
      BY <2>1, <2>2, <2>3 DEF Shown
  <1>5. CASE \E e \in MouseEvents : handle_mouse(e)
    <2>1. PICK e \in MouseEvents : handle_mouse(e)
      BY <1>5
    <2>2. phase = "run" /\ phase' = phase
      BY <2>1 DEF handle_mouse, MouseClick, MouseMove
    <2>3. CASE CompositeStep
      BY <2>2, <2>3, CompositeShows
    <2>4. CASE MouseMove(e) /\ ~CompositeStep
      <3>1. PICK clean : clean = (IF visible THEN restore_background(fb, cursor, saved_bg) ELSE fb)
        OBVIOUS
      <3>2. /\ UNCHANGED <<stack, content>> /\ ~needs_composite /\ UNCHANGED needs_composite /\ visible' = TRUE
            /\ saved_bg' = save_background(clean, cursor') /\ fb' = draw(clean, cursor')
        BY <2>4, <3>1 DEF MouseMove
      <3> QED
        BY <2>2, <3>1, <3>2, MoveShows
    <2> QED
      BY <2>1, <2>3, <2>4 DEF handle_mouse, MouseClick
  <1>6. CASE UNCHANGED vars
    <2>1. Scene' = Scene /\ \A p \in Pixel : Seen(p)' = Seen(p)
      <3>1. Scene' = Scene
        BY <1>6, SceneSame DEF vars, stack
      <3> QED
        BY <1>6, <3>1 DEF vars, Seen, Covers
    <2>2. phase' = phase /\ needs_composite' = needs_composite /\ visible' = visible
      BY <1>6 DEF vars
    <2>3. phase = "run" => (fb = draw(fb, cursor))'
      BY <1>6 DEF vars, Shown, draw, Covers
    <2> QED
      BY <2>1, <2>2, <2>3 DEF Shown
  <1> QED
    BY <1>1, <1>2, <1>3, <1>4, <1>5, <1>6 DEF Next

(***************************************************************************)
(* For every sprite, layout and sequence of mouse events: unless a         *)
(* composite is due the framebuffer shows the windows as they are with one *)
(* cursor on top, so redrawing the cursor alone leaves nothing behind      *)
(* (save_background, restore_background).                                  *)
(***************************************************************************)
THEOREM ScreenNeverStale == Spec => []ScreenCurrent
  <1>1. Init => Shown
    BY DEF Init, Shown
  <1>2. StackedInv /\ Shown => ScreenCurrent
    <2> SUFFICES ASSUME StackedInv, Shown, ~needs_composite PROVE fb = draw(Scene, cursor)
      BY DEF ScreenCurrent
    <2>1. phase = "run"
      BY DEF Shown, StackedInv, WmType
    <2>2. visible /\ fb = draw(fb, cursor) /\ \A p \in Pixel : Seen(p) = Scene[p]
      BY <2>1 DEF Shown
    <2>3. \A p \in Pixel : ~Covers(cursor, p) => fb[p] = Scene[p]
      BY <2>2 DEF Seen
    <2>4. draw(fb, cursor) = draw(Scene, cursor)
      BY <2>3 DEF draw
    <2> QED
      BY <2>2, <2>4
  <1> QED
    BY <1>1, <1>2, StackedInit, StackedStep, ShownStep, PTL DEF Spec
-----------------------------------------------------------------------------
(***************************************************************************)
(* Clicks.                                                                 *)
(***************************************************************************)
LEMMA TextWidthType ==
  ASSUME NEW w \in Window
  PROVE  TextWidth(w) \in Nat
  <1>1. w + 1 \in 1 .. Len(Layout) /\ Layout \in Seq(Geometry)
    BY LayoutAssumption, LayoutLength DEF Window
  <1>0. Layout[w + 1] \in Geometry
    BY <1>1
  <1>2. PICK a \in Nat : a = Layout[w + 1].title_len
    BY <1>0 DEF Geometry
  <1>3. a * FONT_WIDTH \in Nat
    BY ScreenAssumption
  <1> QED
    BY <1>2, <1>3 DEF TextWidth

\* lx after k - 1 labels is well defined: the loop that adds them up ends.
LEMMA LabelXDef ==
  ASSUME windows \in Seq(Window)
  PROVE  LabelX = [k \in Indices |-> IF k = 1 THEN FirstLabel
                                     ELSE LabelX[k - 1] + TextWidth(windows[k - 1]) + LabelPad]
  <1> DEFINE Step(f, k) == IF k = 1 THEN FirstLabel ELSE f[k - 1] + TextWidth(windows[k - 1]) + LabelPad
             Sums(f, n) == f = [k \in 1 .. n |-> Step(f, k)]
             Bad == {n \in Nat : ~\E f : Sums(f, n)}
  <1>1. Bad = {}
    <2>1. SUFFICES ASSUME Bad # {} PROVE FALSE
      OBVIOUS
    <2>2. PICK n \in Bad : \A m \in Bad : n <= m
      <3>1. Bad \in SUBSET Nat
        OBVIOUS
      <3> HIDE DEF Bad
      <3> QED
        BY <2>1, <3>1, LeastNumber
    <2>3. n # 0
      <3>1. Sums([k \in 1 .. 0 |-> 0], 0)
        OBVIOUS
      <3> QED
        BY <3>1
    <2>4. n \in Nat /\ n - 1 \in Nat /\ n - 1 \notin Bad
      <3>1. n \in Nat
        OBVIOUS
      <3>2. n - 1 \in Nat /\ ~(n <= n - 1)
        BY <2>3, <3>1
      <3> HIDE DEF Bad
      <3> QED
        BY <2>2, <3>1, <3>2
    <2>5. PICK g : Sums(g, n - 1)
      BY <2>4
    <2>6. PICK f : f = [k \in 1 .. n |-> Step(g, k)]
      OBVIOUS
    <2>7. ASSUME NEW k \in 1 .. n PROVE Step(g, k) = Step(f, k)
      <3>1. CASE k = 1
        BY <3>1
      <3>2. CASE k # 1
        <4>1. k - 1 \in 1 .. n - 1 /\ k - 1 \in 1 .. n
          BY <2>4, <3>2
        <4>2. g[k - 1] = Step(g, k - 1)
          BY <2>5, <4>1
        <4>3. f[k - 1] = Step(g, k - 1)
          BY <2>6, <4>1
        <4> QED
          BY <4>2, <4>3
      <3> QED
        BY <3>1, <3>2
    <2>8. Sums(f, n)
      <3> HIDE DEF Step
      <3> QED
        BY <2>6, <2>7
    <2> QED
      BY <2>2, <2>8
  <1>2. Len(windows) \in Nat
    OBVIOUS
  <1>3. \E f : Sums(f, Len(windows))
    BY <1>1, <1>2
  <1>4. LabelX = CHOOSE f : f = [k \in Indices |-> IF k = 1 THEN FirstLabel
                                          ELSE f[k - 1] + TextWidth(windows[k - 1]) + LabelPad]
    BY DEF LabelX
  <1> QED
    BY <1>3, <1>4 DEF Indices

\* Labels have places, each behind the one before.
LEMMA LabelsNext ==
  ASSUME windows \in Seq(Window), NEW k \in Indices, k + 1 \in Indices
  PROVE  LabelX[k + 1] = LabelX[k] + TextWidth(windows[k]) + LabelPad
  <1>1. k + 1 # 1 /\ (k + 1) - 1 = k
    BY DEF Indices
  <1> QED
    BY <1>1, LabelXDef

\* By induction on the position in the taskbar: labels start at natural numbers.
LEMMA LabelsNumbers ==
  ASSUME windows \in Seq(Window)
  PROVE  \A k \in Indices : LabelX[k] \in Nat
  <1> DEFINE Bad == {k \in Indices : LabelX[k] \notin Nat}
  <1>1. Bad = {}
    <2>1. SUFFICES ASSUME Bad # {} PROVE FALSE
      OBVIOUS
    <2>2. PICK n \in Bad : \A m \in Bad : n <= m
      <3>1. Bad \in SUBSET Nat
        BY DEF Indices
      <3> HIDE DEF Bad
      <3> QED
        BY <2>1, <3>1, LeastNumber
    <2>3. n \in Indices /\ n \in Nat /\ LabelX[n] \notin Nat
      BY DEF Indices
    <2>4. n # 1
      BY <2>3, LabelXDef, ScreenAssumption
    <2>5. n - 1 \in Indices /\ n - 1 \in Nat /\ ~(n <= n - 1) /\ (n - 1) + 1 = n
      BY <2>3, <2>4 DEF Indices
    <2>6. LabelX[n - 1] \in Nat
      BY <2>2, <2>5
    <2>7. windows[n - 1] \in Window
      BY <2>5 DEF Indices
    <2>8. LabelX[n] = LabelX[n - 1] + TextWidth(windows[n - 1]) + LabelPad
      BY <2>3, <2>5, LabelsNext
    <2> QED
      BY <2>3, <2>6, <2>7, <2>8, TextWidthType, ScreenAssumption
  <1> QED
    BY <1>1

\* By induction again: each label starts after every earlier one has ended.
LEMMA LabelsApart ==
  ASSUME windows \in Seq(Window), NEW i \in Indices
  PROVE  \A j \in Indices : i < j => LabelX[i] + TextWidth(windows[i]) + LabelPad <= LabelX[j]
  <1> DEFINE Bad == {j \in Indices : i < j /\ ~(LabelX[i] + TextWidth(windows[i]) + LabelPad <= LabelX[j])}
  <1>1. Bad = {}
    <2>1. SUFFICES ASSUME Bad # {} PROVE FALSE
      OBVIOUS
    <2>2. PICK n \in Bad : \A m \in Bad : n <= m
      <3>1. Bad \in SUBSET Nat
        BY DEF Indices
      <3> HIDE DEF Bad
      <3> QED
        BY <2>1, <3>1, LeastNumber
    <2>3. /\ n \in Indices /\ n \in Nat /\ i \in Nat /\ i < n
          /\ ~(LabelX[i] + TextWidth(windows[i]) + LabelPad <= LabelX[n])
      BY DEF Indices
    <2>4. n - 1 \in Indices /\ n - 1 \in Nat /\ ~(n <= n - 1) /\ (n - 1) + 1 = n
      BY <2>3 DEF Indices
    <2>5. LabelX[n] = LabelX[n - 1] + TextWidth(windows[n - 1]) + LabelPad
      BY <2>3, <2>4, LabelsNext
    <2>6. /\ LabelX[n - 1] \in Nat /\ TextWidth(windows[n - 1]) \in Nat /\ LabelX[n] \in Nat
          /\ LabelX[i] \in Nat /\ TextWidth(windows[i]) \in Nat /\ LabelPad \in Nat
      <3>1. windows[n - 1] \in Window /\ windows[i] \in Window
        BY <2>4 DEF Indices
      <3> QED
        BY <2>3, <2>4, <3>1, LabelsNumbers, TextWidthType, ScreenAssumption
    <2>7. CASE i = n - 1
      BY <2>3, <2>5, <2>6, <2>7
    <2>8. CASE i < n - 1
      <3>1. n - 1 \notin Bad
        <4> HIDE DEF Bad
        <4> QED
          BY <2>2, <2>4
      <3>2. LabelX[i] + TextWidth(windows[i]) + LabelPad <= LabelX[n - 1]
        BY <2>4, <2>8, <3>1
      <3> QED
        BY <2>3, <2>5, <2>6, <3>2
    <2> QED
      BY <2>3, <2>7, <2>8
  <1> QED
    BY <1>1

\* The label drawn at x is the first one that a click at x finds.
LEMMA ClickFindsText ==
  ASSUME windows \in Seq(Window), NEW x \in Nat, NEW i \in Indices, OnText(i, x)
  PROVE  handle_taskbar_click(x) = {windows[i]}
  <1>1. \A k \in Indices : LabelX[k] \in Nat /\ TextWidth(windows[k]) \in Nat
    BY LabelsNumbers, TextWidthType DEF Indices
  <1>2. LabelPad \in Nat /\ LabelLead \in Nat
    BY ScreenAssumption
  <1>3. OnLabel(i, x)
    BY <1>1, <1>2 DEF OnText, OnLabel
  <1>4. ASSUME NEW j \in Indices, j < i PROVE ~OnLabel(j, x)
    BY <1>1, <1>2, <1>4, LabelsApart DEF OnText, OnLabel
  <1>5. \A j \in 1 .. i - 1 : j \in Indices /\ j < i
    BY DEF Indices
  <1>6. ASSUME NEW k \in Indices, OnLabel(k, x), \A j \in 1 .. k - 1 : ~OnLabel(j, x)
        PROVE  k = i
    <2>1. ~(k < i)
      BY <1>4, <1>6
    <2>2. ~(i < k)
      BY <1>3, <1>6 DEF Indices
    <2> QED
      BY <2>1, <2>2 DEF Indices
  <1> QED
    BY <1>3, <1>4, <1>5, <1>6 DEF handle_taskbar_click

\* At most one window is on top at a pixel, and none in the taskbar.
LEMMA OneOnTop ==
  ASSUME windows \in Seq(Window), NEW p \in Pixel, NEW v \in TopAt(p), NEW w \in TopAt(p)
  PROVE  v = w /\ p[2] < taskbarY
  <1>1. PICK i \in Indices : v = windows[i] /\ p \in Area[windows[i]]
          /\ \A j \in i + 1 .. Len(windows) : p \notin Area[windows[j]]
    BY DEF TopAt
  <1>2. PICK k \in Indices : w = windows[k] /\ p \in Area[windows[k]]
          /\ \A j \in k + 1 .. Len(windows) : p \notin Area[windows[j]]
    BY DEF TopAt
  <1>3. i = k
    BY <1>1, <1>2 DEF Indices
  <1>4. p[2] < taskbarY
    <2>1. v \in Window /\ p \in Area[v]
      BY <1>1 DEF Indices
    <2>2. v + 1 \in DOMAIN Layout /\ v + 1 \in 1 .. Len(Layout)
      BY <2>1, LayoutAssumption, LayoutLength DEF Window
    <2>3. Layout[v + 1] \in Geometry
      BY <2>2, LayoutAssumption
    <2>4. p[2] < Layout[v + 1].y + Layout[v + 1].height
      BY <2>1 DEF Area
    <2>5. Layout[v + 1].y + Layout[v + 1].height <= taskbarY
      BY <2>2, PlacementAssumption
    <2>6. PICK e \in Nat : e = Layout[v + 1].y + Layout[v + 1].height
      BY <2>3 DEF Geometry
    <2>7. p[2] \in Int /\ taskbarY \in Int
      BY ScreenAssumption DEF Pixel, taskbarY
    <2> QED
      BY <2>4, <2>5, <2>6, <2>7
  <1> QED
    BY <1>1, <1>2, <1>3, <1>4

\* What a click can reach, from what is seen there.
LEMMA TargetIsSeen ==
  ASSUME windows \in Seq(Window), NEW p \in Pixel
  PROVE  /\ Scene[p].kind \in {"window", "label"} => ClickTarget(p) = {Scene[p].id}
         /\ Scene[p].kind = "desktop" => ClickTarget(p) = {}
  <1>1. p[1] \in Nat /\ p[2] \in Nat /\ taskbarY \in Nat
    BY ScreenAssumption DEF Pixel, taskbarY
  <1>2. CASE TopAt(p) # {}
    <2>1. PICK w : w = CHOOSE v \in TopAt(p) : TRUE
      OBVIOUS
    <2>2. w \in TopAt(p)
      BY <1>2, <2>1
    <2>3. Scene[p] = WindowPixel(w, p)
      BY <1>2, <2>1 DEF Scene
    <2>4. Scene[p].kind = "window" /\ Scene[p].id = w
      BY <2>3 DEF WindowPixel, Px
    <2>5. TopAt(p) = {w} /\ p[2] < taskbarY
      BY <2>2, OneOnTop
    <2>6. ClickTarget(p) = {w}
      BY <1>1, <2>5 DEF ClickTarget
    <2> QED
      BY <2>4, <2>6
  <1>3. CASE TopAt(p) = {} /\ p[2] < taskbarY
    <2>1. Scene[p] = Px("desktop", NoWindow, "plain")
      BY <1>1, <1>3 DEF Scene
    <2>2. ClickTarget(p) = {}
      BY <1>1, <1>3 DEF ClickTarget
    <2> QED
      BY <2>1, <2>2 DEF Px
  <1>4. CASE TopAt(p) = {} /\ p[2] >= taskbarY
    <2>1. Scene[p] = TaskbarPixel(p[1])
      BY <1>1, <1>4 DEF Scene
    <2>2. CASE \E i \in Indices : OnText(i, p[1])
      <3>1. PICK i : i = CHOOSE j \in Indices : OnText(j, p[1])
        OBVIOUS
      <3>2. i \in Indices /\ OnText(i, p[1])
        BY <2>2, <3>1
      <3>3. Scene[p] = Px("label", windows[i], IF windows[i] = focused THEN "focused" ELSE "plain")
        BY <2>1, <2>2, <3>1 DEF TaskbarPixel
      <3>4. handle_taskbar_click(p[1]) = {windows[i]}
        BY <1>1, <3>2, ClickFindsText
      <3> QED
        BY <1>4, <3>3, <3>4 DEF Px, ClickTarget
    <2>3. CASE ~\E i \in Indices : OnText(i, p[1])
      <3>1. Scene[p].kind \in {"highlight", "taskbar"}
        BY <2>1, <2>3 DEF TaskbarPixel, Px
      <3> QED
        BY <3>1
    <2> QED
      BY <2>2, <2>3
  <1> QED
    BY <1>1, <1>2, <1>3, <1>4

\* Where a click goes.
LEMMA ClickStep ==
  ASSUME StackedInv, Shown, Next, clicked'
  PROVE  LET seen == Seen(cursor') IN
           /\ seen.kind \in {"window", "label"} => focused' = seen.id
           /\ seen.kind = "desktop" => focused' = focused
  <1>1. PICK e \in MouseEvents : handle_mouse(e)
    BY DEF Next, create_window, FirstComposite, composite, Draw, NoClick
  <1>2. cursor' = apply_delta(cursor, e) /\ phase = "run" /\ cursor \in Pixel /\ windows \in Seq(Window)
    BY <1>1 DEF handle_mouse, MouseClick, MouseMove, StackedInv, WmType
  <1>3. PICK p \in Pixel : p = cursor'
    BY <1>2, CursorOnScreen
  <1>4. \/ focused' \in ClickTarget(p)
        \/ ClickTarget(p) \subseteq {focused} /\ focused' = focused
    BY <1>1, <1>3 DEF handle_mouse, MouseClick, MouseMove, OnlyMoves, focus_window, stack
  <1>5. SameWindow(Seen(p), Scene[p])
    BY <1>2 DEF Shown
  <1>6. /\ Seen(p).kind \in {"window", "label"} => focused' = Seen(p).id
        /\ Seen(p).kind = "desktop" => focused' = focused
    BY <1>2, <1>4, <1>5, TargetIsSeen DEF SameWindow
  <1> QED
    BY <1>3, <1>6

(***************************************************************************)
(* For every layout whose windows lie above the taskbar, and whatever the  *)
(* tasks have drawn since the last composite: a click focuses the window,  *)
(* or the window of the label, that the screen shows under the cursor, and *)
(* nothing on the bare desktop (handle_mouse, handle_taskbar_click).       *)
(***************************************************************************)
THEOREM ClicksGoWhereSeen == Spec => ClickFocusesWhatIsSeen
  <1>1. Init => Shown
    BY DEF Init, Shown
  <1>2. StackedInv /\ Shown /\ [Next]_vars =>
          [clicked' =>
             LET seen == Seen(cursor') IN
               /\ seen.kind \in {"window", "label"} => focused' = seen.id
               /\ seen.kind = "desktop" => focused' = focused]_vars
    BY ClickStep
  <1> QED
    BY <1>1, <1>2, StackedInit, StackedStep, ShownStep, PTL DEF Spec, ClickFocusesWhatIsSeen
-----------------------------------------------------------------------------
(***************************************************************************)
(* The shell and its console.                                              *)
(***************************************************************************)
\* A console without a bar: what write_char is always given.
Bare(c) == ConsoleOK(c) /\ c.bars = {} /\ c.cursor_visible = FALSE

\* What the shell gives to write_char.
Printed == Char \cup {Newline, Backspace}

\* The fields of a console.
LEMMA ConsoleFields ==
  ASSUME NEW c \in Console
  PROVE  /\ c.cells \in [Cell -> SUBSET Glyph]
         /\ c.bars \in SUBSET ((0 .. cols) \X (0 .. rows - 1))
         /\ c.col \in 0 .. cols /\ c.col \in Int
         /\ c.row \in 0 .. rows - 1 /\ c.row \in Int
         /\ c.cursor_visible \in BOOLEAN
  BY ConsoleAssumption DEF Console

\* The cells by column and row.
LEMMA CellPairs ==
  /\ \A p \in Cell : /\ p = <<p[1], p[2]>> /\ p[1] \in 0 .. cols - 1 /\ p[2] \in 0 .. rows - 1
                     /\ p[1] \in Int /\ p[2] \in Int
  /\ \A x \in 0 .. cols - 1, y \in 0 .. rows - 1 : <<x, y>> \in Cell
  BY ConsoleAssumption DEF Cell

\* How many characters before the cursor a cell is, in the order in which text is written.
Back(col, row, p) == (row - p[2]) * cols + (col - p[1])

\* What is drawn in a cell for a character.
Ink(c) == IF c = Space THEN {} ELSE {c}

\* TextShows, on the parts of a console it reads.
TextIn(cells, col, row, text, n, k) ==
  \A p \in Cell : Back(col, row, p) \in 1 .. k => cells[p] = Ink(text[n + 1 - Back(col, row, p)])

\* They say the same.
LEMMA TextShowsIn ==
  ASSUME NEW c, NEW text, NEW n, NEW k
  PROVE  TextShows(c, text, n, k) <=> TextIn(c.cells, c.col, c.row, text, n, k)
  BY DEF TextShows, TextIn, Back, Ink

\* Rows are at least a row of cells apart.
LEMMA RowsApart ==
  ASSUME NEW a \in Int
  PROVE  /\ a * cols \in Int /\ (a + 1) * cols = a * cols + cols /\ cols \in Int /\ cols > 0
         /\ a >= 1 => a * cols >= cols
         /\ a <= -1 => a * cols <= -cols
  <1>0. cols \in Nat /\ cols > 0
    BY ConsoleAssumption
  <1>1. PICK N \in Nat : N = cols /\ N > 0
    BY <1>0
  <1>2. a * N \in Int /\ (a + 1) * N = a * N + N
    BY <1>1
  <1>3. ASSUME a >= 1 PROVE a * N >= N
    <2>1. PICK d \in Nat : a = 1 + d
      BY <1>3
    <2>2. a * N = N + d * N /\ d * N \in Nat
      BY <2>1
    <2> QED
      BY <2>2
  <1>4. ASSUME a <= -1 PROVE a * N <= -N
    <2>1. PICK d \in Nat : a = -1 - d
      BY <1>4
    <2>2. a * N = -N - d * N /\ d * N \in Nat
      BY <2>1
    <2> QED
      BY <2>2
  <1> QED
    BY <1>1, <1>2, <1>3, <1>4

\* How far a row is from that of a cell: a rows, which are A cells.
IsAway(row, p, x, y, a, A, C) ==
  /\ p = <<x, y>> /\ x = p[1] /\ y = p[2] /\ x \in 0 .. C - 1
  /\ a = row - y /\ A = a * cols /\ C = cols /\ C > 0
  /\ (a + 1) * cols = A + C /\ (a - 1) * cols = A - C
  /\ a >= 1 => A >= C
  /\ a <= -1 => A <= -C
  /\ a = 0 => A = 0

\* The distance between a row and a cell.
LEMMA RowsBetween ==
  ASSUME NEW row \in Int, NEW p \in Cell
  PROVE  \E x, y, a, A, C \in Int : IsAway(row, p, x, y, a, A, C)
  <1>1. PICK x \in Int, y \in Int : x = p[1] /\ y = p[2] /\ x \in 0 .. cols - 1 /\ p = <<x, y>>
    BY CellPairs
  <1>2. PICK a \in Int : a = row - y
    OBVIOUS
  <1>3. PICK A \in Int, C \in Int :
          /\ A = a * cols /\ C = cols /\ C > 0 /\ (a + 1) * cols = A + C
          /\ a >= 1 => A >= C
          /\ a <= -1 => A <= -C
    BY RowsApart
  <1>4. (a - 1) * cols = A - C
    <2>1. PICK b \in Int : b = a - 1 /\ b + 1 = a
      OBVIOUS
    <2>2. b * cols \in Int /\ (b + 1) * cols = b * cols + cols
      BY RowsApart
    <2> QED
      BY <1>3, <2>1, <2>2
  <1>5. a = 0 => A = 0
    <2>1. 0 * cols = 0
      BY <1>3
    <2> QED
      BY <1>3, <2>1
  <1>6. x \in 0 .. C - 1
    BY <1>1, <1>3
  <1>7. IsAway(row, p, x, y, a, A, C)
    BY <1>1, <1>2, <1>3, <1>4, <1>5, <1>6, Zenon DEF IsAway
  <1> QED
    BY <1>1, <1>2, <1>3, <1>7, Zenon

\* Distances as the cursor goes to the next row, and as the text moves up.
LEMMA BetweenRows ==
  ASSUME NEW row \in Int, NEW p \in Cell
  PROVE  /\ Back(0, row, p) \in Int
         /\ Back(0, row + 1, p) = Back(cols, row, p)
         /\ Back(0, row, p) = Back(cols, row, <<p[1], p[2] + 1>>)
         /\ row = p[2] => Back(0, row, p) <= 0
  <1>0. PICK x, y, a, A, C \in Int : IsAway(row, p, x, y, a, A, C)
    BY RowsBetween
  <1>1. /\ x \in Int /\ y \in Int /\ a \in Int /\ A \in Int /\ C \in Int
        /\ p = <<x, y>> /\ x = p[1] /\ y = p[2] /\ x \in 0 .. C - 1
        /\ a = row - y /\ A = a * cols /\ C = cols /\ C > 0
        /\ (a + 1) * cols = A + C /\ (a - 1) * cols = A - C
        /\ a >= 1 => A >= C
        /\ a <= -1 => A <= -C
        /\ a = 0 => A = 0
    BY <1>0 DEF IsAway
  <1>2. /\ (row + 1) - p[2] = a + 1
        /\ row - p[2] = a
        /\ row - (p[2] + 1) = a - 1
    BY <1>1
  <1>3. /\ ((row + 1) - p[2]) * cols = A + C
        /\ (row - p[2]) * cols = A
        /\ (row - (p[2] + 1)) * cols = A - C
    BY <1>1, <1>2
  <1>4. /\ Back(0, row + 1, p) = (A + C) + (0 - x)
        /\ Back(cols, row, p) = A + (C - x)
        /\ Back(0, row, p) = A + (0 - x)
        /\ Back(cols, row, <<p[1], p[2] + 1>>) = (A - C) + (C - x)
    <2>1. Back(0, row + 1, p) = (A + C) + (0 - x)
      BY <1>1, <1>3 DEF Back
    <2>2. Back(cols, row, p) = A + (C - x) /\ Back(0, row, p) = A + (0 - x)
      BY <1>1, <1>3 DEF Back
    <2>3. Back(cols, row, <<p[1], p[2] + 1>>) = (A - C) + (C - x)
      BY <1>1, <1>3 DEF Back
    <2> QED
      BY <2>1, <2>2, <2>3
  <1>5. row = p[2] => A = 0
    BY <1>1
  <1> QED
    BY <1>1, <1>4, <1>5

\* Distances as the cursor moves on.
LEMMA Distances ==
  ASSUME NEW col \in Int, NEW row \in Int, NEW p \in Cell, col \in 0 .. cols - 1
  PROVE  /\ Back(col, row, p) \in Int
         /\ Back(col + 1, row, p) = Back(col, row, p) + 1
         /\ Back(col, row, p) = 0 <=> p = <<col, row>>
  <1>0. PICK x, y, a, A, C \in Int : IsAway(row, p, x, y, a, A, C)
    BY RowsBetween
  <1>1. /\ x \in Int /\ y \in Int /\ a \in Int /\ A \in Int /\ C \in Int
        /\ p = <<x, y>> /\ x = p[1] /\ y = p[2] /\ x \in 0 .. C - 1
        /\ a = row - y /\ A = a * cols /\ C = cols /\ C > 0
        /\ (a + 1) * cols = A + C /\ (a - 1) * cols = A - C
        /\ a >= 1 => A >= C
        /\ a <= -1 => A <= -C
        /\ a = 0 => A = 0
    BY <1>0 DEF IsAway
  <1>2. (row - p[2]) * cols = A
    BY <1>1
  <1>3. /\ Back(col, row, p) = A + (col - x)
        /\ Back(col + 1, row, p) = A + ((col + 1) - x)
    BY <1>1, <1>2 DEF Back
  <1>4. ASSUME A + (col - x) = 0 PROVE p = <<col, row>>
    <2>1. x \in 0 .. C - 1 /\ col \in 0 .. C - 1
      BY <1>1
    <2>2. a = 0
      BY <1>1, <1>4, <2>1
    <2>3. x = col /\ y = row
      BY <1>1, <1>4, <2>2
    <2> QED
      BY <1>1, <2>3
  <1>5. ASSUME p = <<col, row>> PROVE A + (col - x) = 0
    <2>1. row = p[2] /\ x = col
      BY <1>1, <1>5
    <2> QED
      BY <1>1, <2>1
  <1>6. /\ Back(col, row, p) \in Int
        /\ Back(col + 1, row, p) = Back(col, row, p) + 1
    BY <1>1, <1>3
  <1> QED
    BY <1>3, <1>4, <1>5, <1>6

\* A new line: the cursor is at the start of an empty row, and a text that has filled its
\* row is where it was before the cursor.
LEMMA NextRowBare ==
  ASSUME NEW c, Bare(c)
  PROVE  /\ Bare(NextRow(c)) /\ NextRow(c).col = 0
         /\ c.col = cols => \A text : \A n \in Int, k \in Int :
                             TextShows(c, text, n, k) => TextShows(NextRow(c), text, n, k)
  <1>0. c \in Console /\ c.bars = {} /\ c.cursor_visible = FALSE
    BY DEF Bare, ConsoleOK
  <1>1. PICK cells, row : /\ cells = c.cells /\ row = c.row
                          /\ cells \in [Cell -> SUBSET Glyph]
                          /\ row \in 0 .. rows - 1 /\ row \in Int
    BY <1>0, ConsoleFields
  <1>2. 0 \in 0 .. cols
    BY ConsoleAssumption
  <1>3. CASE row + 1 >= rows
    <2>1. row = rows - 1
      BY <1>1, <1>3, ConsoleAssumption
    <2> DEFINE up == [p \in Cell |-> IF p[2] = rows - 1 THEN {} ELSE cells[<<p[1], p[2] + 1>>]]
    <2>2. NextRow(c) = [c EXCEPT !.cells = up, !.bars = {}, !.col = 0, !.row = row]
      <3> DEFINE down == [c EXCEPT !.col = 0, !.row = c.row + 1]
      <3>1. /\ down.row = row + 1 /\ down.cells = cells /\ down.bars = {}
        BY <1>0, <1>1 DEF Console
      <3>2. NextRow(c) = scroll_up(down)
        BY <1>3, <3>1 DEF NextRow
      <3>3. scroll_up(down) = [down EXCEPT !.cells = up, !.bars = {}, !.row = row]
        BY <2>1, <3>1 DEF scroll_up, CellBelow
      <3> HIDE DEF up
      <3>4. [down EXCEPT !.cells = up, !.bars = {}, !.row = row]
            = [c EXCEPT !.cells = up, !.bars = {}, !.col = 0, !.row = row]
        BY <1>0 DEF Console
      <3> QED
        BY <3>2, <3>3, <3>4
    <2>3. \A p \in Cell : p[2] # rows - 1 => <<p[1], p[2] + 1>> \in Cell
      BY CellPairs, ConsoleAssumption
    <2>4. up \in [Cell -> SUBSET Glyph]
      BY <1>1, <2>3
    <2>5. \A p \in Cell : up[p] = {} \/ \E g \in Glyph : up[p] = {g}
      <3>1. \A q \in Cell : cells[q] = {} \/ \E g \in Glyph : cells[q] = {g}
        BY <1>1 DEF Bare, ConsoleOK
      <3>2. ASSUME NEW p \in Cell, p[2] # rows - 1
            PROVE  up[p] = {} \/ \E g \in Glyph : up[p] = {g}
        <4>1. PICK q \in Cell : up[p] = cells[q]
          BY <2>3, <3>2
        <4> QED
          BY <3>1, <4>1
      <3>3. ASSUME NEW p \in Cell, p[2] = rows - 1 PROVE up[p] = {}
        BY <3>3
      <3> HIDE DEF up
      <3> QED
        BY <3>2, <3>3
    <2>6. \A p \in Cell : p[2] > row \/ (p[2] = row /\ p[1] >= 0) => up[p] = {}
      BY <2>1, CellPairs, ConsoleAssumption
    <2> HIDE DEF up
    <2>7. LET d == NextRow(c)
          IN  /\ d \in Console /\ d.cells = up /\ d.bars = {} /\ d.col = 0 /\ d.row = row
              /\ d.cursor_visible = FALSE
      BY <1>1, <1>2, <2>2, <2>4, <1>0 DEF Console
    <2>8. ASSUME c.col = cols, NEW text, NEW n \in Int, NEW k \in Int, TextShows(c, text, n, k)
          PROVE  TextShows(NextRow(c), text, n, k)
      <3>1. TextIn(cells, cols, row, text, n, k)
        BY <1>1, <2>8, TextShowsIn
      <3>2. ASSUME NEW p \in Cell, Back(0, row, p) \in 1 .. k
            PROVE  up[p] = Ink(text[n + 1 - Back(0, row, p)])
        <4>1. PICK q : q = <<p[1], p[2] + 1>>
          OBVIOUS
        <4>2. PICK b \in Int : b = Back(0, row, p) /\ b = Back(cols, row, q) /\ b \in 1 .. k
          <5>1. row \in Int /\ 0 \in Int
            BY <1>1
          <5>2. Back(0, row, p) \in Int /\ Back(0, row, p) = Back(cols, row, <<p[1], p[2] + 1>>)
            BY <5>1, BetweenRows, Zenon
          <5> QED
            BY <3>2, <4>1, <5>2
        <4>3. p[2] # rows - 1
          <5>1. ASSUME p[2] = rows - 1 PROVE FALSE
            <6>1. row = p[2] /\ row \in Int /\ 0 \in Int
              BY <1>1, <2>1, <5>1
            <6>2. Back(0, row, p) <= 0
              BY <6>1, BetweenRows, Zenon
            <6> QED
              BY <4>2, <6>2
          <5> QED
            BY <5>1
        <4>4. q \in Cell /\ up[p] = cells[q]
          BY <2>3, <4>1, <4>3 DEF up
        <4>5. cells[q] = Ink(text[n + 1 - b])
          BY <3>1, <4>2, <4>4 DEF TextIn
        <4> QED
          BY <4>2, <4>4, <4>5
      <3>3. TextIn(up, 0, row, text, n, k)
        BY <3>2 DEF TextIn
      <3>4. TextIn(NextRow(c).cells, NextRow(c).col, NextRow(c).row, text, n, k)
        BY <2>7, <3>3
      <3> QED
        BY <3>4, TextShowsIn
    <2> QED
      BY <2>5, <2>6, <2>7, <2>8 DEF Bare, ConsoleOK
  <1>4. CASE ~(row + 1 >= rows)
    <2>1. NextRow(c) = [c EXCEPT !.cells = cells, !.bars = {}, !.col = 0, !.row = row + 1]
      BY <1>0, <1>1, <1>4 DEF NextRow, Console
    <2>2. \A p \in Cell : p[2] > row + 1 \/ (p[2] = row + 1 /\ p[1] >= 0) => cells[p] = {}
      BY <1>1, CellPairs DEF Bare, ConsoleOK
    <2>3. row + 1 \in 0 .. rows - 1
      BY <1>1, <1>4, ConsoleAssumption
    <2>4. \A p \in Cell : cells[p] = {} \/ \E g \in Glyph : cells[p] = {g}
      BY <1>1 DEF Bare, ConsoleOK
    <2>5. LET d == NextRow(c)
          IN  /\ d \in Console /\ d.cells = cells /\ d.bars = {} /\ d.col = 0 /\ d.row = row + 1
              /\ d.cursor_visible = FALSE
      BY <1>1, <1>2, <2>1, <2>3, <1>0 DEF Console
    <2>6. ASSUME c.col = cols, NEW text, NEW n \in Int, NEW k \in Int, TextShows(c, text, n, k)
          PROVE  TextShows(NextRow(c), text, n, k)
      <3>1. TextIn(cells, cols, row, text, n, k)
        BY <1>1, <2>6, TextShowsIn
      <3>2. \A p \in Cell : Back(0, row + 1, p) = Back(cols, row, p)
        <4>1. row \in Int /\ 0 \in Int
          BY <1>1
        <4> QED
          BY <4>1, BetweenRows, Zenon
      <3>3. TextIn(cells, 0, row + 1, text, n, k)
        BY <3>1, <3>2 DEF TextIn
      <3>4. TextIn(NextRow(c).cells, NextRow(c).col, NextRow(c).row, text, n, k)
        BY <2>5, <3>3
      <3> QED
        BY <3>4, TextShowsIn
    <2> QED
      BY <2>2, <2>4, <2>5, <2>6 DEF Bare, ConsoleOK
  <1> QED
    BY <1>3, <1>4

\* A character: drawn where nothing was.
LEMMA DrawBare ==
  ASSUME NEW c, Bare(c), NEW ch \in Char, c.col < cols
  PROVE  /\ Bare([draw_char(c, ch) EXCEPT !.col = c.col + 1])
         /\ [draw_char(c, ch) EXCEPT !.col = c.col + 1].col = c.col + 1
         /\ \A text : \A n \in Int, k \in Int : TextShows(c, text, n, k) /\ text[n + 1] = ch
              => TextShows([draw_char(c, ch) EXCEPT !.col = c.col + 1], text, n + 1, k + 1)
  <1>0. c \in Console /\ c.bars = {} /\ c.cursor_visible = FALSE
    BY DEF Bare, ConsoleOK
  <1>1. PICK cells, col, row :
          /\ cells = c.cells /\ row = c.row /\ col = c.col
          /\ cells \in [Cell -> SUBSET Glyph]
          /\ col \in 0 .. cols /\ row \in 0 .. rows - 1 /\ row \in Int /\ col \in Int
    BY <1>0, ConsoleFields
  <1>2. <<col, row>> \in Cell /\ col < cols
    BY <1>1, CellPairs, ConsoleAssumption
  <1>3. cells[<<col, row>>] = {}
    BY <1>1, <1>2 DEF Bare, ConsoleOK
  <1> DEFINE here == IF ch = Space THEN {} ELSE {ch}
             new == [cells EXCEPT ![<<col, row>>] = here]
             d == [draw_char(c, ch) EXCEPT !.col = c.col + 1]
  <1>4. d = [c EXCEPT !.cells = new, !.bars = {}, !.col = col + 1, !.row = row]
    <2>1. [cells EXCEPT ![<<col, row>>] = cells[<<col, row>>] \cup here] = new
      BY <1>3
    <2>2. draw_char(c, ch) = [c EXCEPT !.cells = new]
      BY <1>1, <2>1 DEF draw_char
    <2> HIDE DEF new
    <2> QED
      BY <1>0, <1>1, <2>2 DEF Console
  <1>5. here \in SUBSET Glyph /\ (here = {} \/ \E g \in Glyph : here = {g})
    BY DEF Char
  <1>6. /\ new \in [Cell -> SUBSET Glyph]
        /\ \A p \in Cell : p # <<col, row>> => new[p] = cells[p]
        /\ new[<<col, row>>] = here
    <2> HIDE DEF here
    <2> QED
      BY <1>1, <1>2, <1>5
  <1> HIDE DEF here, new
  <1>7. \A p \in Cell : new[p] = {} \/ \E g \in Glyph : new[p] = {g}
    BY <1>1, <1>5, <1>6 DEF Bare, ConsoleOK
  <1>8. \A p \in Cell : p[2] > row \/ (p[2] = row /\ p[1] >= col + 1) => new[p] = {}
    <2> TAKE p \in Cell
    <2> HAVE p[2] > row \/ (p[2] = row /\ p[1] >= col + 1)
    <2>1. p # <<col, row>> /\ (p[2] > row \/ (p[2] = row /\ p[1] >= col))
      BY <1>1, CellPairs
    <2>2. cells[p] = {}
      BY <1>1, <2>1 DEF Bare, ConsoleOK
    <2> QED
      BY <1>6, <2>1, <2>2
  <1>9. col + 1 \in 0 .. cols
    BY <1>1, <1>2, ConsoleAssumption
  <1>10. Bare(d) /\ d.cells = new /\ d.col = col + 1 /\ d.row = row
    <2> HIDE DEF d
    <2>1. /\ d \in Console /\ d.cells = new /\ d.bars = {} /\ d.col = col + 1 /\ d.row = row
          /\ d.cursor_visible = FALSE
      BY <1>1, <1>4, <1>6, <1>9, <1>0 DEF Console
    <2> QED
      BY <1>7, <1>8, <2>1 DEF Bare, ConsoleOK
  <1>11. ASSUME NEW text, NEW n \in Int, NEW k \in Int, TextShows(c, text, n, k), text[n + 1] = ch
         PROVE  TextShows(d, text, n + 1, k + 1)
    <2>1. TextIn(cells, col, row, text, n, k)
      BY <1>1, <1>11, TextShowsIn
    <2>2. ASSUME NEW p \in Cell, Back(col + 1, row, p) \in 1 .. k + 1
          PROVE  new[p] = Ink(text[n + 1 + 1 - Back(col + 1, row, p)])
      <3>1. PICK b \in Int : /\ b = Back(col, row, p) /\ Back(col + 1, row, p) = b + 1
                             /\ b = 0 <=> p = <<col, row>>
        <4>1. col \in Int /\ row \in Int /\ col \in 0 .. cols - 1
          BY <1>1, <1>2, ConsoleAssumption
        <4>2. /\ Back(col, row, p) \in Int /\ Back(col + 1, row, p) = Back(col, row, p) + 1
              /\ Back(col, row, p) = 0 <=> p = <<col, row>>
          BY <4>1, Distances, Zenon
        <4> QED
          BY <4>2, Zenon
      <3>2. b \in 0 .. k /\ n + 1 + 1 - (b + 1) = n + 1 - b
        BY <2>2, <3>1
      <3>3. CASE b = 0
        <4>1. n + 1 - b = n + 1
          BY <3>3
        <4>2. new[p] = Ink(ch)
          BY <1>6, <3>1, <3>3 DEF here, Ink
        <4> QED
          BY <1>11, <3>1, <3>2, <4>1, <4>2
      <3>4. CASE b # 0
        <4>1. b \in 1 .. k /\ new[p] = cells[p]
          BY <1>6, <3>1, <3>2, <3>4
        <4>2. cells[p] = Ink(text[n + 1 - b])
          BY <2>1, <3>1, <4>1 DEF TextIn
        <4> QED
          BY <3>1, <3>2, <4>1, <4>2
      <3> QED
        BY <3>3, <3>4
    <2>3. TextIn(new, col + 1, row, text, n + 1, k + 1)
      BY <2>2 DEF TextIn
    <2> HIDE DEF d
    <2>4. TextIn(d.cells, d.col, d.row, text, n + 1, k + 1)
      BY <1>10, <2>3
    <2> QED
      BY <2>4, TextShowsIn
  <1> QED
    BY <1>1, <1>10, <1>11

\* Backspace: the cell before the cursor is black again, and free.
LEMMA BackBare ==
  ASSUME NEW c, Bare(c), c.col > 0
  PROVE  /\ Bare(clear_char([c EXCEPT !.col = c.col - 1]))
         /\ clear_char([c EXCEPT !.col = c.col - 1]).col = c.col - 1
         /\ \A text : \A n \in Int, k \in Int : TextShows(c, text, n, k)
              => TextShows(clear_char([c EXCEPT !.col = c.col - 1]), text, n - 1, k - 1)
  <1>0. c \in Console /\ c.bars = {} /\ c.cursor_visible = FALSE
    BY DEF Bare, ConsoleOK
  <1>1. PICK cells, col, row :
          /\ cells = c.cells /\ row = c.row /\ col = c.col - 1
          /\ cells \in [Cell -> SUBSET Glyph]
          /\ col \in 0 .. cols - 1 /\ row \in 0 .. rows - 1 /\ row \in Int /\ col \in Int
    BY <1>0, ConsoleFields, ConsoleAssumption
  <1>2. <<col, row>> \in Cell /\ col \in 0 .. cols /\ c.col = col + 1
    BY <1>0, <1>1, CellPairs, ConsoleAssumption, ConsoleFields
  <1> DEFINE new == [cells EXCEPT ![<<col, row>>] = {}]
             d == clear_char([c EXCEPT !.col = c.col - 1])
  <1>3. d = [c EXCEPT !.cells = new, !.bars = {}, !.col = col, !.row = row]
    <2> DEFINE back == [c EXCEPT !.col = c.col - 1]
    <2>1. back.col = col /\ back.row = row /\ back.cells = cells /\ back.bars = {}
      BY <1>0, <1>1 DEF Console
    <2>2. d = [back EXCEPT !.cells = new, !.bars = {}]
      <3> HIDE DEF back
      <3>1. clear_char(back) = [back EXCEPT !.cells = new, !.bars = {} \ {<<col, row>>}]
        BY <2>1 DEF clear_char
      <3>2. {} \ {<<col, row>>} = {}
        OBVIOUS
      <3>3. d = clear_char(back)
        BY DEF back
      <3> QED
        BY <3>1, <3>2, <3>3
    <2> HIDE DEF new, d
    <2> QED
      BY <1>0, <1>1, <2>2 DEF Console
  <1>4. /\ new \in [Cell -> SUBSET Glyph]
        /\ \A p \in Cell : p # <<col, row>> => new[p] = cells[p]
        /\ new[<<col, row>>] = {}
    BY <1>1, <1>2
  <1> HIDE DEF new
  <1>5. \A p \in Cell : new[p] = {} \/ \E g \in Glyph : new[p] = {g}
    BY <1>1, <1>4 DEF Bare, ConsoleOK
  <1>6. \A p \in Cell : p[2] > row \/ (p[2] = row /\ p[1] >= col) => new[p] = {}
    <2> TAKE p \in Cell
    <2> HAVE p[2] > row \/ (p[2] = row /\ p[1] >= col)
    <2>1. p = <<col, row>> \/ (p[2] > row \/ (p[2] = row /\ p[1] >= c.col))
      BY <1>1, <1>2, CellPairs
    <2> QED
      BY <1>1, <1>4, <2>1 DEF Bare, ConsoleOK
  <1>7. /\ d \in Console /\ d.cells = new /\ d.bars = {} /\ d.col = col /\ d.row = row
        /\ d.cursor_visible = FALSE
    <2> HIDE DEF d
    <2> QED
      BY <1>0, <1>1, <1>2, <1>3, <1>4 DEF Console
  <1>8. Bare(d)
    <2> HIDE DEF d
    <2> QED
      BY <1>5, <1>6, <1>7 DEF Bare, ConsoleOK
  <1>9. ASSUME NEW text, NEW n \in Int, NEW k \in Int, TextShows(c, text, n, k)
        PROVE  TextShows(d, text, n - 1, k - 1)
    <2>1. TextIn(cells, col + 1, row, text, n, k)
      BY <1>1, <1>2, <1>9, TextShowsIn
    <2>2. ASSUME NEW p \in Cell, Back(col, row, p) \in 1 .. k - 1
          PROVE  new[p] = Ink(text[n - 1 + 1 - Back(col, row, p)])
      <3>1. PICK b \in Int : /\ b = Back(col, row, p) /\ Back(col + 1, row, p) = b + 1
                             /\ b = 0 <=> p = <<col, row>>
        <4>1. col \in Int /\ row \in Int /\ col \in 0 .. cols - 1
          BY <1>1
        <4>2. /\ Back(col, row, p) \in Int /\ Back(col + 1, row, p) = Back(col, row, p) + 1
              /\ Back(col, row, p) = 0 <=> p = <<col, row>>
          BY <4>1, Distances, Zenon
        <4> QED
          BY <4>2, Zenon
      <3>2. /\ b # 0 /\ b + 1 \in 1 .. k
            /\ n - 1 + 1 - b = n + 1 - (b + 1)
        BY <2>2, <3>1
      <3>3. new[p] = cells[p]
        BY <1>4, <3>1, <3>2
      <3>4. cells[p] = Ink(text[n + 1 - (b + 1)])
        BY <2>1, <3>1, <3>2 DEF TextIn
      <3> QED
        BY <3>1, <3>2, <3>3, <3>4
    <2>3. TextIn(new, col, row, text, n - 1, k - 1)
      BY <2>2 DEF TextIn
    <2> HIDE DEF d
    <2>4. TextIn(d.cells, d.col, d.row, text, n - 1, k - 1)
      BY <1>7, <2>3
    <2> QED
      BY <2>4, TextShowsIn
  <1> QED
    BY <1>1, <1>7, <1>8, <1>9

\* The arms of write_char.
LEMMA WriteCharArms ==
  ASSUME NEW c
  PROVE  /\ write_char(c, Newline) = NextRow(c)
         /\ write_char(c, Backspace) = IF c.col > 0 THEN clear_char([c EXCEPT !.col = c.col - 1]) ELSE c
         /\ \A ch \in Char : write_char(c, ch) =
              LET at == IF c.col >= cols THEN NextRow(c) ELSE c
              IN  [draw_char(at, ch) EXCEPT !.col = at.col + 1]
  <1>1. Newline # Backspace /\ Return # Backspace /\ Newline # Return
    BY DEF Newline, Backspace, Return
  <1>2. \A ch \in Char : ch \notin {Newline, Return, Backspace}
    BY ConsoleAssumption DEF Char, Space, Newline, Return, Backspace
  <1> QED
    BY <1>1, <1>2 DEF write_char

\* Every character the shell prints leaves a bare console bare.
LEMMA WriteCharBare ==
  ASSUME NEW c, Bare(c), NEW ch \in Printed
  PROVE  Bare(write_char(c, ch))
  <1>0. c \in Console /\ c.col \in Int /\ cols \in Int /\ cols > 0
    BY ConsoleFields, ConsoleAssumption DEF Bare, ConsoleOK
  <1>1. CASE ch = Newline
    BY <1>1, WriteCharArms, NextRowBare
  <1>2. CASE ch = Backspace
    BY <1>2, WriteCharArms, BackBare
  <1>3. CASE ch \in Char
    <2>1. PICK at : at = IF c.col >= cols THEN NextRow(c) ELSE c
      OBVIOUS
    <2>2. Bare(at) /\ at.col < cols
      BY <1>0, <2>1, NextRowBare
    <2>3. write_char(c, ch) = [draw_char(at, ch) EXCEPT !.col = at.col + 1]
      BY <1>3, <2>1, WriteCharArms
    <2> QED
      BY <1>3, <2>2, <2>3, DrawBare
  <1> QED
    BY <1>1, <1>2, <1>3 DEF Printed

\* Where a character leaves the cursor.
LEMMA WriteCharCol ==
  ASSUME NEW c, Bare(c), NEW ch \in Char
  PROVE  /\ write_char(c, ch).col \in Int /\ write_char(c, ch).col <= c.col + 1
         /\ c.col < cols => write_char(c, ch).col = c.col + 1
  <1>0. c.col \in Int /\ c.col >= 0 /\ cols \in Int /\ cols > 0
    BY ConsoleFields, ConsoleAssumption DEF Bare, ConsoleOK
  <1>1. PICK at : at = IF c.col >= cols THEN NextRow(c) ELSE c
    OBVIOUS
  <1>2. Bare(at) /\ at.col \in Int /\ at.col < cols /\ at.col <= c.col /\ (c.col < cols => at.col = c.col)
    BY <1>0, <1>1, NextRowBare
  <1>3. write_char(c, ch).col = at.col + 1
    <2>1. write_char(c, ch) = [draw_char(at, ch) EXCEPT !.col = at.col + 1]
      BY <1>1, WriteCharArms
    <2> QED
      BY <1>2, <2>1, DrawBare
  <1> QED
    BY <1>0, <1>2, <1>3

\* A character is added to the text before the cursor, in its row or in the next.
LEMMA WriteCharShows ==
  ASSUME NEW c, Bare(c), NEW text, NEW n \in Int, NEW k \in Int,
         TextShows(c, text, n, k), text[n + 1] \in Char
  PROVE  TextShows(write_char(c, text[n + 1]), text, n + 1, k + 1)
  <1>0. c.col \in 0 .. cols /\ cols \in Int /\ c.col \in Int /\ cols > 0
    BY ConsoleFields, ConsoleAssumption DEF Bare, ConsoleOK
  <1>1. PICK at : at = IF c.col >= cols THEN NextRow(c) ELSE c
    OBVIOUS
  <1>2. CASE c.col >= cols
    <2>1. c.col = cols /\ at = NextRow(c)
      BY <1>0, <1>1, <1>2
    <2>2. Bare(at) /\ at.col = 0 /\ TextShows(at, text, n, k)
      BY <2>1, NextRowBare
    <2>3. at.col < cols
      BY <1>0, <2>2
    <2>4. write_char(c, text[n + 1]) = [draw_char(at, text[n + 1]) EXCEPT !.col = at.col + 1]
      BY <1>1, WriteCharArms
    <2> QED
      BY <2>2, <2>3, <2>4, DrawBare
  <1>3. CASE ~(c.col >= cols)
    <2>1. at = c /\ c.col < cols
      BY <1>0, <1>1, <1>3
    <2>2. write_char(c, text[n + 1]) = [draw_char(at, text[n + 1]) EXCEPT !.col = at.col + 1]
      BY <1>1, WriteCharArms
    <2> QED
      BY <2>1, <2>2, DrawBare
  <1> QED
    BY <1>2, <1>3

\* The consoles after each round of the loop of write_str.
Rounds(after, c, s) ==
  /\ after[0] = c
  /\ \A n \in 1 .. Len(s) : after[n] = write_char(after[n - 1], s[n])
  /\ write_str(c, s) = after[Len(s)]

\* The loop ends: there is a console after each of its rounds.
LEMMA WriteStrRounds ==
  ASSUME NEW c, NEW T, NEW s \in Seq(T)
  PROVE  \E after : Rounds(after, c, s)
  <1>0. PICK N \in Nat : N = Len(s)
    OBVIOUS
  <1> DEFINE Round(f, n) == IF n = 0 THEN c ELSE write_char(f[n - 1], s[n])
             IsLoop(f, m) == f = [n \in 0 .. m |-> Round(f, n)]
             Bad == {m \in Nat : ~\E f : IsLoop(f, m)}
  <1>1. Bad = {}
    <2>1. SUFFICES ASSUME Bad # {} PROVE FALSE
      OBVIOUS
    <2>2. PICK m \in Bad : \A k \in Bad : m <= k
      <3>1. Bad \in SUBSET Nat
        OBVIOUS
      <3> HIDE DEF Bad
      <3> QED
        BY <2>1, <3>1, LeastNumber
    <2>3. m # 0
      <3>1. IsLoop([n \in 0 .. 0 |-> c], 0)
        OBVIOUS
      <3> QED
        BY <3>1
    <2>4. m \in Nat /\ m - 1 \in Nat /\ m - 1 \notin Bad
      <3>1. m \in Nat
        OBVIOUS
      <3>2. m - 1 \in Nat /\ ~(m <= m - 1)
        BY <2>3, <3>1
      <3> HIDE DEF Bad
      <3> QED
        BY <2>2, <3>1, <3>2
    <2>5. PICK g : IsLoop(g, m - 1)
      BY <2>4
    <2>6. PICK f : f = [n \in 0 .. m |-> Round(g, n)]
      OBVIOUS
    <2>7. ASSUME NEW n \in 0 .. m PROVE Round(g, n) = Round(f, n)
      <3>1. CASE n = 0
        BY <3>1
      <3>2. CASE n # 0
        <4>1. n - 1 \in 0 .. m - 1 /\ n - 1 \in 0 .. m
          BY <2>4, <3>2
        <4>2. g[n - 1] = Round(g, n - 1)
          BY <2>5, <4>1
        <4>3. f[n - 1] = Round(g, n - 1)
          BY <2>6, <4>1
        <4> QED
          BY <4>2, <4>3
      <3> QED
        BY <3>1, <3>2
    <2>8. IsLoop(f, m)
      <3> HIDE DEF Round
      <3> QED
        BY <2>6, <2>7
    <2> QED
      BY <2>2, <2>8
  <1>2. \E f : IsLoop(f, N)
    BY <1>1
  <1>3. PICK f : f = CHOOSE g : g = [n \in 0 .. N |-> IF n = 0 THEN c ELSE write_char(g[n - 1], s[n])]
    OBVIOUS
  <1>4. IsLoop(f, N)
    BY <1>2, <1>3
  <1>5. write_str(c, s) = f[N]
    BY <1>0, <1>3 DEF write_str
  <1>6. \A n \in 0 .. N : f[n] = Round(f, n)
    <2> HIDE DEF Round
    <2> QED
      BY <1>4
  <1>7. f[0] = c /\ \A n \in 1 .. N : f[n] = write_char(f[n - 1], s[n])
    BY <1>6
  <1> QED
    BY <1>0, <1>5, <1>7 DEF Rounds

\* A text leaves a bare console bare, and at the start of a row if its last line ends.
LEMMA WriteStrBare ==
  ASSUME NEW c, Bare(c), NEW s \in Seq(Printed)
  PROVE  /\ Bare(write_str(c, s))
         /\ s # <<>> /\ Last(s) = Newline => write_str(c, s).col = 0
  <1>1. PICK N \in Nat : N = Len(s)
    OBVIOUS
  <1>a. PICK after : Rounds(after, c, s)
    BY WriteStrRounds
  <1>2. /\ after[0] = c
        /\ \A n \in 1 .. N : after[n] = write_char(after[n - 1], s[n])
        /\ write_str(c, s) = after[N]
    BY <1>1, <1>a DEF Rounds
  <1>3. \A n \in 1 .. N : s[n] \in Printed
    BY <1>1
  <1> DEFINE Bad == {n \in 0 .. N : ~Bare(after[n])}
  <1>4. Bad = {}
    <2>1. SUFFICES ASSUME Bad # {} PROVE FALSE
      OBVIOUS
    <2>2. PICK n \in Bad : \A m \in Bad : n <= m
      <3>1. Bad \in SUBSET Nat
        OBVIOUS
      <3> HIDE DEF Bad
      <3> QED
        BY <2>1, <3>1, LeastNumber
    <2>3. n \in 0 .. N /\ ~Bare(after[n])
      OBVIOUS
    <2>4. n # 0
      BY <1>2, <2>3
    <2>5. n \in 1 .. N /\ n - 1 \in 0 .. N /\ ~(n <= n - 1)
      BY <2>3, <2>4
    <2>6. Bare(after[n - 1])
      BY <2>2, <2>5
    <2> QED
      BY <1>2, <1>3, <2>3, <2>5, <2>6, WriteCharBare
  <1>5. \A n \in 0 .. N : Bare(after[n])
    BY <1>4
  <1>6. Bare(write_str(c, s))
    BY <1>2, <1>5
  <1>7. ASSUME s # <<>>, Last(s) = Newline PROVE write_str(c, s).col = 0
    <2>1. N \in 1 .. N /\ N - 1 \in 0 .. N /\ s[N] = Newline
      BY <1>1, <1>7 DEF Last
    <2>2. write_str(c, s) = write_char(after[N - 1], Newline) /\ Bare(after[N - 1])
      BY <1>2, <1>5, <2>1
    <2>3. write_str(c, s) = NextRow(after[N - 1]) /\ NextRow(after[N - 1]).col = 0
      BY <2>2, WriteCharArms, NextRowBare, Zenon
    <2> QED
      BY <2>3, Zenon
  <1> QED
    BY <1>6, <1>7

\* A text written from the start of a row is what is before the cursor.
LEMMA PromptShows ==
  ASSUME NEW c, Bare(c), c.col = 0, NEW s \in Seq(Char)
  PROVE  TextShows(write_str(c, s), s, Len(s), Len(s)) /\ write_str(c, s).col <= Len(s)
  <1>1. PICK N \in Nat : N = Len(s)
    OBVIOUS
  <1>a. PICK after : Rounds(after, c, s)
    BY WriteStrRounds
  <1>2. /\ after[0] = c
        /\ \A n \in 1 .. N : after[n] = write_char(after[n - 1], s[n])
        /\ write_str(c, s) = after[N]
    BY <1>1, <1>a DEF Rounds
  <1>3. \A n \in 1 .. N : s[n] \in Char
    BY <1>1
  <1> DEFINE Good(n) == Bare(after[n]) /\ TextShows(after[n], s, n, n) /\ after[n].col <= n
             Bad == {n \in 0 .. N : ~Good(n)}
  <1>4. Bad = {}
    <2>1. SUFFICES ASSUME Bad # {} PROVE FALSE
      OBVIOUS
    <2>2. PICK n \in Bad : \A m \in Bad : n <= m
      <3>1. Bad \in SUBSET Nat
        OBVIOUS
      <3> HIDE DEF Bad
      <3> QED
        BY <2>1, <3>1, LeastNumber
    <2>3. n \in 0 .. N /\ ~Good(n)
      OBVIOUS
    <2>4. n # 0
      <3>1. TextShows(c, s, 0, 0)
        BY DEF TextShows
      <3>2. Good(0)
        BY <1>2, <3>1
      <3> HIDE DEF Good
      <3> QED
        BY <2>3, <3>2
    <2>5. PICK m \in Nat : m = n - 1
      BY <2>3, <2>4
    <2>6. n \in 1 .. N /\ m \in 0 .. N /\ ~(n <= m) /\ m + 1 = n /\ m \in Int
      BY <1>1, <2>3, <2>4, <2>5
    <2>7. Good(m)
      <3> HIDE DEF Good
      <3> QED
        BY <2>2, <2>6
    <2>8. after[n] = write_char(after[m], s[m + 1]) /\ s[m + 1] \in Char
      BY <1>2, <1>3, <2>5, <2>6
    <2>9. TextShows(after[n], s, n, n)
      BY <2>6, <2>7, <2>8, WriteCharShows
    <2>10. Bare(after[n])
      BY <2>7, <2>8, WriteCharBare DEF Printed
    <2>11. after[n].col <= n
      <3>1. PICK x \in Int : x = after[m].col
        BY <2>7, ConsoleFields DEF Bare, ConsoleOK
      <3>2. PICK y \in Int : y = after[n].col
        BY <2>10, ConsoleFields DEF Bare, ConsoleOK
      <3>3. y <= x + 1 /\ x <= m
        BY <2>7, <2>8, <3>1, <3>2, WriteCharCol
      <3> QED
        BY <2>6, <3>2, <3>3
    <2> QED
      BY <2>3, <2>9, <2>10, <2>11
  <1>5. Good(N)
    BY <1>4
  <1> QED
    BY <1>1, <1>2, <1>5

\* The cursor's bar is drawn over a bare console, and nothing else.
LEMMA DrawCursor ==
  ASSUME NEW c, Bare(c)
  PROVE  /\ ConsoleOK(draw_cursor(c))
         /\ draw_cursor(c).cursor_visible = TRUE
         /\ draw_cursor(c).bars = {<<draw_cursor(c).col, draw_cursor(c).row>>}
         /\ draw_cursor(c).col = c.col
         /\ \A text, n, k : TextShows(c, text, n, k) => TextShows(draw_cursor(c), text, n, k)
  <1>0. c \in Console /\ c.bars = {} /\ c.cursor_visible = FALSE
    BY DEF Bare, ConsoleOK
  <1> DEFINE bar == {<<c.col, c.row>>}
             d == draw_cursor(c)
  <1>1. d = [c EXCEPT !.bars = bar, !.cursor_visible = TRUE]
    <2>1. {} \cup bar = bar
      OBVIOUS
    <2> HIDE DEF bar
    <2> QED
      BY <1>0, <2>1 DEF draw_cursor, bar
  <1>2. bar \in SUBSET ((0 .. cols) \X (0 .. rows - 1))
    BY <1>0, ConsoleFields
  <1> HIDE DEF bar, d
  <1>3. /\ d \in Console /\ d.cells = c.cells /\ d.bars = bar /\ d.col = c.col /\ d.row = c.row
        /\ d.cursor_visible = TRUE
    BY <1>0, <1>1, <1>2 DEF Console
  <1>4. ConsoleOK(d)
    BY <1>3 DEF Bare, ConsoleOK
  <1>5. ASSUME NEW text, NEW n, NEW k, TextShows(c, text, n, k) PROVE TextShows(d, text, n, k)
    BY <1>3, <1>5, TextShowsIn, Zenon
  <1> QED
    BY <1>3, <1>4, <1>5 DEF bar, d

\* Erasing it where it was drawn leaves the console bare.
LEMMA EraseCursor ==
  ASSUME NEW c, ConsoleOK(c), c.cursor_visible = TRUE, c.bars = {<<c.col, c.row>>}
  PROVE  /\ Bare(erase_cursor(c))
         /\ erase_cursor(c).col = c.col
         /\ \A text, n, k : TextShows(c, text, n, k) => TextShows(erase_cursor(c), text, n, k)
  <1>0. c \in Console
    BY DEF ConsoleOK
  <1> DEFINE d == erase_cursor(c)
  <1>1. d = [c EXCEPT !.bars = {}, !.cursor_visible = FALSE]
    <2>1. c.bars \ {<<c.col, c.row>>} = {}
      OBVIOUS
    <2> QED
      BY <2>1 DEF erase_cursor
  <1> HIDE DEF d
  <1>2. /\ d \in Console /\ d.cells = c.cells /\ d.bars = {} /\ d.col = c.col /\ d.row = c.row
        /\ d.cursor_visible = FALSE
    BY <1>0, <1>1 DEF Console
  <1>3. Bare(d)
    BY <1>2 DEF Bare, ConsoleOK
  <1>4. ASSUME NEW text, NEW n, NEW k, TextShows(c, text, n, k) PROVE TextShows(d, text, n, k)
    BY <1>2, <1>4, TextShowsIn, Zenon
  <1> QED
    BY <1>2, <1>3, <1>4 DEF d

\* A new console is bare, and a cleared one.
LEMMA BlackBare ==
  /\ Bare(NewConsole)
  /\ \A c : Bare(c) => Bare(clear(c)) /\ clear(c).col = 0
  <1> DEFINE black == [p \in Cell |-> {}]
  <1>0. 0 \in 0 .. cols /\ 0 \in 0 .. rows - 1
    BY ConsoleAssumption
  <1>1. black \in [Cell -> SUBSET Glyph] /\ \A p \in Cell : black[p] = {}
    OBVIOUS
  <1> HIDE DEF black
  <1>2. Bare(NewConsole)
    <2>1. NewConsole = [cells |-> black, bars |-> {}, col |-> 0, row |-> 0, cursor_visible |-> FALSE]
      BY DEF NewConsole, black
    <2>2. /\ NewConsole \in Console /\ NewConsole.cells = black /\ NewConsole.bars = {}
          /\ NewConsole.cursor_visible = FALSE
      BY <1>0, <1>1, <2>1 DEF Console
    <2> QED
      BY <1>1, <2>2 DEF Bare, ConsoleOK
  <1>3. ASSUME NEW c, Bare(c) PROVE Bare(clear(c)) /\ clear(c).col = 0
    <2>0. c \in Console /\ c.cursor_visible = FALSE
      BY <1>3 DEF Bare, ConsoleOK
    <2>1. clear(c) = [c EXCEPT !.cells = black, !.bars = {}, !.col = 0, !.row = 0]
      BY DEF clear, black
    <2>2. /\ clear(c) \in Console /\ clear(c).cells = black /\ clear(c).bars = {} /\ clear(c).col = 0
          /\ clear(c).cursor_visible = FALSE
      BY <1>0, <1>1, <2>0, <2>1 DEF Console
    <2> QED
      BY <1>1, <2>2 DEF Bare, ConsoleOK
  <1> QED
    BY <1>2, <1>3

\* What is shown depends on the first n characters of the text alone.
LEMMA SameText ==
  ASSUME NEW c, NEW s, NEW t, NEW n \in Int, NEW k \in Int, k <= n,
         TextShows(c, s, n, k), \A i \in 1 .. n : t[i] = s[i]
  PROVE  TextShows(c, t, n, k)
  <1>1. TextIn(c.cells, c.col, c.row, s, n, k)
    BY TextShowsIn
  <1>2. ASSUME NEW b \in 1 .. k PROVE t[n + 1 - b] = s[n + 1 - b]
    <2>1. n + 1 - b \in 1 .. n
      OBVIOUS
    <2> QED
      BY <2>1
  <1>3. TextIn(c.cells, c.col, c.row, t, n, k)
    BY <1>1, <1>2 DEF TextIn
  <1> QED
    BY <1>3, TextShowsIn

\* If more is shown, so is less.
LEMMA LessText ==
  ASSUME NEW c, NEW s, NEW n, NEW k \in Int, NEW j \in Int, j <= k, TextShows(c, s, n, k)
  PROVE  TextShows(c, s, n, j)
  <1>1. TextIn(c.cells, c.col, c.row, s, n, k)
    BY TextShowsIn
  <1>2. \A b \in 1 .. j : b \in 1 .. k
    OBVIOUS
  <1>3. TextIn(c.cells, c.col, c.row, s, n, j)
    BY <1>1, <1>2 DEF TextIn
  <1> QED
    BY <1>3, TextShowsIn

\* Backspace takes the last character out of the row.
LEMMA BackShows ==
  ASSUME NEW c, Bare(c), NEW text, NEW n \in Int, NEW k \in Int, c.col > 0, TextShows(c, text, n, k)
  PROVE  TextShows(write_char(c, Backspace), text, n - 1, k - 1)
  <1>1. write_char(c, Backspace) = clear_char([c EXCEPT !.col = c.col - 1])
    BY WriteCharArms
  <1> QED
    BY <1>1, BackBare

\* The three rounds of erasing a character.
LEMMA ErasingRounds ==
  ASSUME NEW c, Bare(c)
  PROVE  \E a, b : /\ Bare(a) /\ a = write_char(c, Backspace)
                   /\ Bare(b) /\ b = write_char(a, Space)
                   /\ write_str(c, Erasing) = write_char(b, Backspace)
  <1>0. Erasing \in Seq(Printed) /\ Len(Erasing) = 3
    BY DEF Erasing, Printed, Char
  <1>1. PICK after : Rounds(after, c, Erasing)
    BY <1>0, WriteStrRounds
  <1>2. /\ after[0] = c
        /\ after[1] = write_char(after[0], Backspace)
        /\ after[2] = write_char(after[1], Space)
        /\ after[3] = write_char(after[2], Backspace)
        /\ write_str(c, Erasing) = after[3]
    <2>1. 1 \in 1 .. 3 /\ 2 \in 1 .. 3 /\ 3 \in 1 .. 3
      OBVIOUS
    <2> QED
      BY <1>0, <1>1, <2>1 DEF Rounds, Erasing
  <1>3. Backspace \in Printed /\ Space \in Printed
    BY DEF Printed, Char
  <1>4. Bare(after[1])
    BY <1>2, <1>3, WriteCharBare
  <1>5. Bare(after[2])
    BY <1>2, <1>3, <1>4, WriteCharBare
  <1> QED
    BY <1>2, <1>4, <1>5

\* Where a character is erased: away from the left edge, and at it.
LEMMA ErasingCol ==
  ASSUME NEW c, Bare(c)
  PROVE  write_str(c, Erasing).col = IF c.col > 0 THEN c.col - 1 ELSE 0
  <1>1. PICK a, b : /\ Bare(a) /\ a = write_char(c, Backspace)
                    /\ Bare(b) /\ b = write_char(a, Space)
                    /\ write_str(c, Erasing) = write_char(b, Backspace)
    BY ErasingRounds
  <1>2. PICK x \in Int, N \in Int : x = c.col /\ N = cols /\ x \in 0 .. N /\ N > 0
    BY ConsoleFields, ConsoleAssumption DEF Bare, ConsoleOK
  <1>3. PICK y \in Int : y = a.col /\ y = (IF x > 0 THEN x - 1 ELSE 0)
    <2>1. CASE x > 0
      <3>1. a.col = c.col - 1
        BY <1>1, <1>2, <2>1, WriteCharArms, BackBare
      <3> QED
        BY <1>2, <2>1, <3>1
    <2>2. CASE ~(x > 0)
      <3>1. a = c
        BY <1>1, <1>2, <2>2, WriteCharArms
      <3> QED
        BY <1>2, <2>2, <3>1
    <2> QED
      BY <2>1, <2>2
  <1>4. Space \in Char /\ y < N
    BY <1>2, <1>3 DEF Char
  <1>5. b.col = y + 1
    BY <1>1, <1>2, <1>3, <1>4, WriteCharCol
  <1>6. write_char(b, Backspace).col = b.col - 1
    <2>1. b.col > 0
      BY <1>2, <1>3, <1>5
    <2> QED
      BY <1>1, <2>1, WriteCharArms, BackBare
  <1> QED
    BY <1>1, <1>2, <1>3, <1>5, <1>6

\* Away from the left edge what is before the cursor is as before the character was typed.
LEMMA ErasingShows ==
  ASSUME NEW c, Bare(c), NEW text, NEW n \in Int, NEW k \in Int,
         c.col > 0, k <= n, TextShows(c, text, n, k)
  PROVE  TextShows(write_str(c, Erasing), text, n - 1, k - 1)
  <1>1. PICK a, b : /\ Bare(a) /\ a = write_char(c, Backspace)
                    /\ Bare(b) /\ b = write_char(a, Space)
                    /\ write_str(c, Erasing) = write_char(b, Backspace)
    BY ErasingRounds
  <1>2. PICK m \in Int, j \in Int : m = n - 1 /\ m + 1 = n /\ j = k - 1 /\ j + 1 = k /\ j <= m
    OBVIOUS
  <1> DEFINE gap == [i \in 1 .. n |-> IF i = n THEN Space ELSE text[i]]
  <1>3. \A i \in 1 .. m : gap[i] = text[i]
    BY <1>2
  <1>4. TextShows(a, text, m, j)
    BY <1>1, <1>2, BackShows
  <1>5. CASE k <= 0
    <2>1. j <= 0
      BY <1>2, <1>5
    <2> QED
      BY <1>2, <2>1 DEF TextShows
  <1>6. CASE k > 0
    <2>1. gap[n] = Space /\ Space \in Char
      BY <1>6 DEF Char
    <2> HIDE DEF gap
    <2>2. TextShows(a, gap, m, j)
      BY <1>2, <1>3, <1>4, SameText
    <2>3. TextShows(write_char(a, gap[m + 1]), gap, m + 1, j + 1)
      BY <1>1, <1>2, <2>1, <2>2, WriteCharShows
    <2>4. TextShows(b, gap, n, k)
      BY <1>1, <1>2, <2>1, <2>3
    <2>5. b.col > 0
      <3>1. PICK x \in Int, N \in Int : x = c.col /\ N = cols /\ x \in 0 .. N /\ x > 0
        BY ConsoleFields, ConsoleAssumption DEF Bare, ConsoleOK
      <3>2. a.col = x - 1
        BY <1>1, <3>1, WriteCharArms, BackBare
      <3>3. b.col = a.col + 1
        BY <1>1, <2>1, <3>1, <3>2, WriteCharCol
      <3> QED
        BY <3>1, <3>2, <3>3
    <2>6. TextShows(write_char(b, Backspace), gap, m, j)
      BY <1>1, <1>2, <2>4, <2>5, BackShows
    <2> QED
      BY <1>1, <1>2, <1>3, <2>6, SameText
  <1> QED
    BY <1>5, <1>6

\* The n characters of a line: P of the prompt s, then those of t.
LineOf(s, t, P, n) ==
  /\ Len(s \o t) = n
  /\ \A i \in 1 .. n : (s \o t)[i] = IF i <= P THEN s[i] ELSE t[i - P]

\* What a line and its prompt amount to.
LEMMA LineText ==
  ASSUME NEW s \in Seq(Char), NEW t \in Seq(Char), NEW P \in Nat, NEW L \in Nat,
         P = Len(s), L = Len(t)
  PROVE  LineOf(s, t, P, P + L)
  BY ConcatProperties, Zenon DEF LineOf

\* While the shell edits a line, what it draws on is bare once the cursor is erased.
LEMMA HiddenBare ==
  ASSUME ShellInv, status = "running"
  PROVE  /\ Bare(Hidden) /\ Hidden.col = con.col
         /\ \A text, n, k : TextShows(con, text, n, k) => TextShows(Hidden, text, n, k)
  <1>1. ConsoleOK(con) /\ con.cursor_visible \in BOOLEAN /\ con.bars = {<<con.col, con.row>>}
    BY ConsoleFields DEF ShellInv, OneCursorBar, ConsoleOK
  <1>2. con.cursor_visible = TRUE
    BY <1>1, Zenon DEF ShellInv
  <1> QED
    BY <1>1, <1>2, EraseCursor DEF Hidden

\* The invariant but for the text of the line, after a key.
LEMMA ShownInv ==
  ASSUME NEW c, Bare(c), Show(c), status' = "running"
  PROVE  /\ ConsoleOK(con)' /\ OneCursorBar' /\ (con.cursor_visible <=> status = "running")'
         /\ ConsoleOK(con') /\ con'.col = c.col
         /\ \A text, n, k : TextShows(c, text, n, k) => TextShows(con', text, n, k)
  <1>1. con' = draw_cursor(c)
    BY DEF Show
  <1>2. /\ ConsoleOK(con') /\ con'.cursor_visible = TRUE /\ con'.bars = {<<con'.col, con'.row>>}
        /\ con'.col = c.col
        /\ \A text, n, k : TextShows(c, text, n, k) => TextShows(con', text, n, k)
    BY <1>1, DrawCursor
  <1>3. con'.cursor_visible <=> status' = "running"
    BY <1>2, Zenon
  <1>4. ConsoleOK(con)'
    BY <1>2 DEF ConsoleOK, Console, Cell
  <1> QED
    BY <1>2, <1>3, <1>4 DEF OneCursorBar

\* What LineShown says of the next state.
LEMMA LineShownNext ==
  ASSUME NEW text, NEW k, text = PROMPT \o line_buf', Len(line_buf') <= MAX_LINE,
         ConsoleOK(con'), con'.col <= Len(text),
         k = (IF strayed' THEN con'.col ELSE Len(text)), TextShows(con', text, Len(text), k)
  PROVE  LineShown'
  <1>1. PICK x \in Int, y \in 0 .. rows - 1 : x = con'.col /\ x \in 0 .. cols /\ y = con'.row
    BY ConsoleFields DEF ConsoleOK
  <1>2. ASSUME NEW i \in x .. cols - 1 PROVE con'.cells[<<i, y>>] = {}
    <2>1. i \in 0 .. cols - 1 /\ i >= x
      BY <1>1, ConsoleAssumption
    <2>2. <<i, y>> \in Cell
      BY <2>1, CellPairs
    <2> QED
      BY <1>1, <2>1, <2>2 DEF ConsoleOK
  <1>3. \A i \in con'.col .. cols - 1 : con'.cells[<<i, con'.row>>] = {}
    BY <1>1, <1>2
  <1> QED
    BY <1>3 DEF LineShown, line_len, TextShows, Cell

\* The prompt on a row of its own begins an empty line.
LEMMA PromptInv ==
  ASSUME NEW c, Bare(c), c.col = 0, Show(write_str(c, PROMPT)),
         line_buf' = <<>>, strayed' = FALSE, status' = "running"
  PROVE  ShellInv'
  <1>0. PROMPT \in Seq(Char) /\ PROMPT \in Seq(Printed)
    BY TextAssumption DEF Printed
  <1>1. Bare(write_str(c, PROMPT))
    BY <1>0, WriteStrBare
  <1>2. /\ ConsoleOK(con)' /\ OneCursorBar' /\ (con.cursor_visible <=> status = "running")'
        /\ ConsoleOK(con') /\ con'.col = write_str(c, PROMPT).col
        /\ \A text, n, k : TextShows(write_str(c, PROMPT), text, n, k) => TextShows(con', text, n, k)
    BY <1>1, ShownInv
  <1>3. /\ line_buf' \in Seq(Char) /\ Len(line_buf') = 0 /\ Len(line_buf') <= MAX_LINE
        /\ PROMPT = PROMPT \o line_buf'
    BY <1>0, TextAssumption
  <1>4. TextShows(con', PROMPT, Len(PROMPT), Len(PROMPT)) /\ con'.col <= Len(PROMPT)
    BY <1>0, <1>2, PromptShows
  <1>5. LineShown'
    BY <1>2, <1>3, <1>4, LineShownNext
  <1>6. line_len' <= MAX_LINE /\ strayed' \in BOOLEAN
    BY <1>3 DEF line_len
  <1> QED
    BY <1>2, <1>3, <1>5, <1>6 DEF ShellInv

\* After Enter the cursor is at the start of an empty row.
LEMMA NewLineBare ==
  ASSUME ShellInv, status = "running"
  PROVE  Bare(NewLine) /\ NewLine.col = 0
  BY HiddenBare, WriteCharArms, NextRowBare DEF NewLine

\* What LineShown says while the shell edits a line.
LEMMA LineNow ==
  ASSUME ShellInv, status = "running", NEW n \in Nat, n = Len(PROMPT \o line_buf)
  PROVE  \E x \in 0 .. cols, k \in Int :
           /\ x = con.col /\ x \in Int /\ x <= n
           /\ k = (IF strayed THEN x ELSE n) /\ k <= n
           /\ TextShows(con, PROMPT \o line_buf, n, k)
  <1>1. PICK x \in 0 .. cols : x = con.col /\ x \in Int
    BY ConsoleFields DEF ShellInv, ConsoleOK
  <1>2. PICK k \in Int : k = (IF strayed THEN x ELSE n)
    BY <1>1
  <1>3. x <= n /\ TextShows(con, PROMPT \o line_buf, n, k)
    BY <1>1, <1>2 DEF ShellInv, LineShown
  <1>4. k <= n
    BY <1>1, <1>2, <1>3
  <1> QED
    BY <1>1, <1>2, <1>3, <1>4

\* A character is added at the end of the line and of what is shown of it.
LEMMA TypeCharInv ==
  ASSUME ShellInv, NEW c \in Char, TypeChar(c)
  PROVE  ShellInv'
  <1>0. /\ status = "running" /\ status' = "running" /\ line_buf' = Append(line_buf, c)
        /\ Show(write_str(Hidden, <<c>>)) /\ line_len < MAX_LINE /\ strayed' = strayed
    BY DEF TypeChar, Editing, HasRoom
  <1>1. /\ Bare(Hidden) /\ Hidden.col = con.col
        /\ \A text, n, k : TextShows(con, text, n, k) => TextShows(Hidden, text, n, k)
    BY <1>0, HiddenBare
  <1>2. PROMPT \in Seq(Char) /\ line_buf \in Seq(Char) /\ MAX_LINE \in Nat
    BY TextAssumption DEF ShellInv
  <1>3. PICK P \in Nat, L \in Nat : P = Len(PROMPT) /\ L = Len(line_buf)
    BY <1>2
  <1>4. line_buf' \in Seq(Char) /\ Len(line_buf') = L + 1 /\ L + 1 <= MAX_LINE
    BY <1>0, <1>2, <1>3 DEF line_len
  <1>5. write_str(Hidden, <<c>>) = write_char(Hidden, c)
    <2>1. <<c>> \in Seq(Char) /\ Len(<<c>>) = 1 /\ <<c>>[1] = c
      OBVIOUS
    <2>2. PICK after : Rounds(after, Hidden, <<c>>)
      BY <2>1, WriteStrRounds
    <2> QED
      BY <2>1, <2>2 DEF Rounds
  <1>6. Bare(write_str(Hidden, <<c>>))
    BY <1>1, <1>5, WriteCharBare DEF Printed
  <1>7. /\ ConsoleOK(con)' /\ OneCursorBar' /\ (con.cursor_visible <=> status = "running")'
        /\ ConsoleOK(con') /\ con'.col = write_str(Hidden, <<c>>).col
        /\ \A text, n, k : TextShows(write_str(Hidden, <<c>>), text, n, k) => TextShows(con', text, n, k)
    BY <1>0, <1>6, ShownInv
  <1>8. PICK n \in Nat : n = P + L /\ P + (L + 1) = n + 1
    OBVIOUS
  <1>9. /\ Len(PROMPT \o line_buf) = n /\ Len(PROMPT \o line_buf') = n + 1
        /\ \A i \in 1 .. n : (PROMPT \o line_buf)[i] = IF i <= P THEN PROMPT[i] ELSE line_buf[i - P]
        /\ \A i \in 1 .. n + 1 : (PROMPT \o line_buf')[i] = IF i <= P THEN PROMPT[i] ELSE line_buf'[i - P]
    <2>1. LineOf(PROMPT, line_buf, P, P + L)
      BY <1>2, <1>3, LineText, Zenon
    <2>2. L + 1 \in Nat
      BY <1>3
    <2>3. LineOf(PROMPT, line_buf', P, P + (L + 1))
      BY <1>2, <1>3, <1>4, <2>2, LineText, Zenon
    <2>4. LineOf(PROMPT, line_buf, P, n) /\ LineOf(PROMPT, line_buf', P, n + 1)
      BY <1>8, <2>1, <2>3, Zenon
    <2> QED
      BY <2>4, Zenon DEF LineOf
  <1>10. PICK x \in 0 .. cols, k \in Int :
           /\ x = con.col /\ x \in Int /\ x <= n
           /\ k = (IF strayed THEN x ELSE n) /\ k <= n
           /\ TextShows(con, PROMPT \o line_buf, n, k)
    BY <1>0, <1>9, LineNow
  <1>11. PICK old, new : old = PROMPT \o line_buf /\ new = PROMPT \o line_buf'
    OBVIOUS
  <1>12. \A i \in 1 .. n : new[i] = old[i]
    <2> TAKE i \in 1 .. n
    <2>1. \A j \in 1 .. L : line_buf'[j] = line_buf[j]
      BY <1>0, <1>2, <1>3
    <2>2. i \in 1 .. n + 1 /\ (i <= P \/ i - P \in 1 .. L)
      BY <1>3, <1>8
    <2> QED
      BY <1>9, <1>11, <2>1, <2>2
  <1>13. new[n + 1] = c
    <2>1. line_buf'[L + 1] = c
      BY <1>0, <1>2, <1>3
    <2>2. n + 1 \in 1 .. n + 1 /\ ~(n + 1 <= P) /\ (n + 1) - P = L + 1
      BY <1>8
    <2> QED
      BY <1>9, <1>11, <2>1, <2>2
  <1>14. TextShows(Hidden, new, n, k)
    <2>1. TextShows(Hidden, old, n, k) /\ n \in Int /\ k \in Int /\ k <= n
      BY <1>1, <1>8, <1>10, <1>11
    <2> QED
      BY <1>12, <2>1, SameText
  <1>15. TextShows(write_char(Hidden, new[n + 1]), new, n + 1, k + 1)
    BY <1>1, <1>10, <1>13, <1>14, WriteCharShows
  <1>16. TextShows(con', new, n + 1, k + 1)
    BY <1>5, <1>7, <1>13, <1>15
  <1>17. PICK y \in Int : y = con'.col /\ y <= x + 1
    BY <1>1, <1>5, <1>7, <1>10, WriteCharCol
  <1>18. PICK j \in Int : j = (IF strayed' THEN con'.col ELSE n + 1)
    BY <1>17
  <1>19. y <= n + 1 /\ j <= k + 1
    <2>1. CASE strayed
      <3>1. strayed'
        BY <1>0, <2>1
      <3>2. j = y /\ k = x
        BY <1>10, <1>17, <1>18, <2>1, <3>1
      <3> QED
        BY <1>8, <1>10, <1>17, <3>2
    <2>2. CASE ~strayed
      BY <1>0, <1>8, <1>10, <1>17, <1>18, <2>2
    <2> QED
      BY <2>1, <2>2
  <1>20. TextShows(con', new, n + 1, j)
    BY <1>16, <1>19, LessText
  <1>21. /\ new = PROMPT \o line_buf' /\ Len(new) = n + 1 /\ con'.col <= Len(new)
         /\ Len(line_buf') <= MAX_LINE
    BY <1>4, <1>9, <1>11, <1>17, <1>19
  <1>22. LineShown'
    BY <1>7, <1>18, <1>20, <1>21, LineShownNext
  <1>23. line_len' <= MAX_LINE /\ strayed' \in BOOLEAN
    BY <1>0, <1>4 DEF line_len, ShellInv
  <1> QED
    BY <1>0, <1>4, <1>7, <1>22, <1>23 DEF ShellInv

\* A character is taken from the end of the line and, except at the left edge, of what is
\* shown of it.
LEMMA EraseCharInv ==
  ASSUME ShellInv, EraseChar
  PROVE  ShellInv'
  <1>0. /\ status = "running" /\ status' = "running"
        /\ line_buf' = SubSeq(line_buf, 1, line_len - 1)
        /\ Show(write_str(Hidden, Erasing)) /\ line_len > 0
    BY DEF EraseChar, Editing
  <1>a. strayed' = (strayed \/ con.col = 0)
    BY DEF EraseChar
  <1>1. /\ Bare(Hidden) /\ Hidden.col = con.col
        /\ \A text, n, k : TextShows(con, text, n, k) => TextShows(Hidden, text, n, k)
    BY <1>0, HiddenBare
  <1>2. PROMPT \in Seq(Char) /\ line_buf \in Seq(Char) /\ MAX_LINE \in Nat
    BY TextAssumption DEF ShellInv
  <1>3. PICK P \in Nat, L \in Nat : P = Len(PROMPT) /\ L = Len(line_buf) /\ L > 0
    BY <1>0, <1>2 DEF line_len
  <1>4. /\ line_buf' \in Seq(Char) /\ Len(line_buf') = L - 1
        /\ \A j \in 1 .. L - 1 : line_buf'[j] = line_buf[j]
    BY <1>0, <1>2, <1>3 DEF line_len
  <1>5. L - 1 <= MAX_LINE
    BY <1>2, <1>3 DEF ShellInv, line_len
  <1>6. Bare(write_str(Hidden, Erasing))
    <2>1. Erasing \in Seq(Printed)
      BY DEF Erasing, Printed, Char
    <2> QED
      BY <1>1, <2>1, WriteStrBare
  <1>7. /\ ConsoleOK(con)' /\ OneCursorBar' /\ (con.cursor_visible <=> status = "running")'
        /\ ConsoleOK(con') /\ con'.col = write_str(Hidden, Erasing).col
        /\ \A text, n, k : TextShows(write_str(Hidden, Erasing), text, n, k) => TextShows(con', text, n, k)
    BY <1>0, <1>6, ShownInv
  <1>8. PICK n \in Nat : n = P + L /\ n - 1 = P + (L - 1) /\ n - 1 \in Nat
    BY <1>3
  <1>9. /\ Len(PROMPT \o line_buf) = n /\ Len(PROMPT \o line_buf') = n - 1
        /\ \A i \in 1 .. n : (PROMPT \o line_buf)[i] = IF i <= P THEN PROMPT[i] ELSE line_buf[i - P]
        /\ \A i \in 1 .. n - 1 : (PROMPT \o line_buf')[i] = IF i <= P THEN PROMPT[i] ELSE line_buf'[i - P]
    <2>1. LineOf(PROMPT, line_buf, P, P + L)
      BY <1>2, <1>3, LineText, Zenon
    <2>2. L - 1 \in Nat
      BY <1>3
    <2>3. LineOf(PROMPT, line_buf', P, P + (L - 1))
      BY <1>2, <1>3, <1>4, <2>2, LineText, Zenon
    <2>4. LineOf(PROMPT, line_buf, P, n) /\ LineOf(PROMPT, line_buf', P, n - 1)
      BY <1>8, <2>1, <2>3, Zenon
    <2> QED
      BY <2>4, Zenon DEF LineOf
  <1>10. PICK x \in 0 .. cols, k \in Int :
           /\ x = con.col /\ x \in Int /\ x <= n
           /\ k = (IF strayed THEN x ELSE n) /\ k <= n
           /\ TextShows(con, PROMPT \o line_buf, n, k)
    BY <1>0, <1>9, LineNow
  <1>11. PICK old, new : old = PROMPT \o line_buf /\ new = PROMPT \o line_buf'
    OBVIOUS
  <1>12. \A i \in 1 .. n - 1 : new[i] = old[i]
    <2> TAKE i \in 1 .. n - 1
    <2>1. i \in 1 .. n /\ (i <= P \/ i - P \in 1 .. L - 1)
      BY <1>3, <1>8
    <2> QED
      BY <1>4, <1>9, <1>11, <2>1
  <1>13. con'.col = IF x > 0 THEN x - 1 ELSE 0
    BY <1>1, <1>7, <1>10, ErasingCol
  <1>14. PICK j \in Int : j = (IF strayed' THEN con'.col ELSE n - 1)
    BY <1>10, <1>13
  <1>15. con'.col <= n - 1
    BY <1>8, <1>10, <1>13
  <1>16. TextShows(con', new, n - 1, j)
    <2>1. CASE x = 0
      <3>1. strayed'
        BY <1>a, <1>10, <2>1
      <3>2. j = 0
        BY <1>13, <1>14, <2>1, <3>1
      <3> QED
        BY <3>2 DEF TextShows
    <2>2. CASE x > 0
      <3>1. TextShows(Hidden, old, n, k) /\ Hidden.col > 0
        BY <1>1, <1>10, <1>11, <2>2
      <3>2. TextShows(write_str(Hidden, Erasing), old, n - 1, k - 1)
        BY <1>1, <1>10, <3>1, ErasingShows
      <3>3. TextShows(con', old, n - 1, k - 1)
        BY <1>7, <3>2
      <3>4. TextShows(con', new, n - 1, k - 1)
        BY <1>10, <1>12, <3>3, SameText
      <3>5. strayed' = strayed
        <4>1. ~(con.col = 0) /\ strayed \in BOOLEAN
          BY <1>10, <2>2 DEF ShellInv
        <4> QED
          BY <1>a, <4>1, Zenon
      <3>6. j <= k - 1
        BY <1>10, <1>13, <1>14, <2>2, <3>5
      <3> QED
        BY <3>4, <3>6, LessText
    <2> QED
      BY <1>10, <2>1, <2>2
  <1>17. /\ new = PROMPT \o line_buf' /\ Len(new) = n - 1 /\ con'.col <= Len(new)
         /\ Len(line_buf') <= MAX_LINE
    BY <1>4, <1>5, <1>9, <1>11, <1>15
  <1>18. LineShown'
    BY <1>7, <1>14, <1>16, <1>17, LineShownNext
  <1>19. line_len' <= MAX_LINE
    BY <1>4, <1>5 DEF line_len
  <1>20. strayed' \in BOOLEAN
    BY <1>a, Zenon
  <1> QED
    BY <1>0, <1>4, <1>7, <1>18, <1>19, <1>20 DEF ShellInv

\* After cmd_halt there is no cursor and no bar.
LEMMA BareInv ==
  ASSUME Bare(con)', status' = "halted",
         line_buf' \in Seq(Char), line_len' <= MAX_LINE, strayed' \in BOOLEAN
  PROVE  ShellInv'
  <1>1. ConsoleOK(con)' /\ con'.bars = {} /\ con'.cursor_visible = FALSE /\ status' # "running"
    BY DEF Bare, ConsoleOK, Console, Cell
  <1>2. (con.cursor_visible <=> status = "running")'
    BY <1>1, Zenon
  <1>3. OneCursorBar' /\ LineShown'
    BY <1>1 DEF OneCursorBar, LineShown
  <1> QED
    BY <1>1, <1>2, <1>3 DEF ShellInv

\* A text that ends its last line.
LEMMA LinesPrinted == \A s \in Lines : s \in Seq(Printed) /\ s # <<>> /\ Last(s) = Newline
  BY DEF Lines, Printed

\* The shell's window opens with a black console.
LEMMA ShellInitInv == ShellInit => ShellInv
  <1> SUFFICES ASSUME ShellInit PROVE ShellInv
    OBVIOUS
  <1>1. con = NewConsole /\ line_buf = <<>> /\ strayed = FALSE /\ status = "start"
    BY DEF ShellInit
  <1>2. ConsoleOK(con) /\ con.bars = {} /\ con.cursor_visible = FALSE
    BY <1>1, BlackBare DEF Bare
  <1>3. con.cursor_visible <=> status = "running"
    <2>1. status # "running"
      BY <1>1
    <2> QED
      BY <1>2, <2>1, Zenon
  <1>4. line_buf \in Seq(Char) /\ line_len <= MAX_LINE /\ strayed \in BOOLEAN /\ ~strayed
    <2>1. Len(line_buf) = 0 /\ line_buf \in Seq(Char)
      BY <1>1
    <2>2. line_len <= MAX_LINE
      BY <2>1, TextAssumption DEF line_len
    <2> QED
      BY <1>1, <2>1, <2>2, Zenon
  <1> QED
    BY <1>1, <1>2, <1>3, <1>4 DEF ShellInv, OneCursorBar, LineShown

\* Every key preserves the invariant.
LEMMA ShellStep == ShellInv /\ [ShellNext]_shellVars => ShellInv'
  <1> SUFFICES ASSUME ShellInv, [ShellNext]_shellVars PROVE ShellInv'
    OBVIOUS
  <1>1. CASE Start
    <2>1. /\ status = "start" /\ status' = "running" /\ line_buf' = line_buf /\ strayed' = strayed
          /\ Show(write_str(write_str(con, Banner), PROMPT))
      BY <1>1 DEF Start, Show
    <2>2. Bare(con)
      <3>1. ConsoleOK(con) /\ con.bars = {} /\ con.cursor_visible \in BOOLEAN
        BY <2>1, ConsoleFields DEF ShellInv, OneCursorBar, ConsoleOK
      <3>2. con.cursor_visible = FALSE
        <4>1. status # "running"
          BY <2>1
        <4> QED
          BY <3>1, <4>1, Zenon DEF ShellInv
      <3> QED
        BY <3>1, <3>2 DEF Bare
    <2>3. Bare(write_str(con, Banner)) /\ write_str(con, Banner).col = 0
      BY <2>2, LinesPrinted, TextAssumption, WriteStrBare
    <2>4. line_buf' = <<>> /\ strayed' = FALSE
      <3>1. line_buf = <<>> /\ ~strayed /\ strayed \in BOOLEAN
        BY <2>1 DEF ShellInv
      <3>2. strayed = FALSE
        BY <3>1
      <3> QED
        BY <2>1, <3>1, <3>2
    <2> QED
      BY <2>1, <2>3, <2>4, PromptInv
  <1>2. ASSUME NEW c, Bare(c), c.col = 0, Prompt(c), status = "running" PROVE ShellInv'
    BY <1>2, PromptInv DEF Prompt
  <1>3. CASE EnterEmpty
    BY <1>2, <1>3, NewLineBare DEF EnterEmpty, Editing
  <1>4. CASE EnterPrinting
    <2>1. PICK out \in Outputs : status = "running" /\ Prompt(write_str(NewLine, out))
      BY <1>4 DEF EnterPrinting, Editing
    <2>2. Bare(write_str(NewLine, out)) /\ write_str(NewLine, out).col = 0
      BY <2>1, NewLineBare, LinesPrinted, TextAssumption, WriteStrBare
    <2> QED
      BY <1>2, <2>1, <2>2
  <1>5. CASE cmd_clear
    BY <1>2, <1>5, NewLineBare, BlackBare DEF cmd_clear, Editing
  <1>6. CASE cmd_halt
    <2>1. /\ status = "running" /\ status' = "halted" /\ line_buf' = line_buf /\ strayed' = strayed
          /\ con' = NewLine
      BY <1>6 DEF cmd_halt, Editing
    <2>2. Bare(con') /\ line_len' = line_len
      BY <2>1, NewLineBare DEF line_len
    <2>3. Bare(con)'
      BY <2>2 DEF Bare, ConsoleOK, Console, Cell
    <2> QED
      BY <2>1, <2>2, <2>3, BareInv DEF ShellInv
  <1>7. CASE EraseChar
    BY <1>7, EraseCharInv
  <1>8. CASE IgnoredKey
    <2>1. /\ status = "running" /\ status' = "running" /\ line_buf' = line_buf /\ strayed' = strayed
          /\ Show(Hidden)
      BY <1>8 DEF IgnoredKey, Editing
    <2>2. /\ ConsoleOK(con)' /\ OneCursorBar' /\ (con.cursor_visible <=> status = "running")'
          /\ ConsoleOK(con') /\ con'.col = con.col
          /\ \A text, n, k : TextShows(con, text, n, k) => TextShows(con', text, n, k)
      BY <2>1, HiddenBare, ShownInv
    <2>3. PICK text : text = PROMPT \o line_buf'
      OBVIOUS
    <2>4. /\ Len(line_buf') <= MAX_LINE /\ con.col <= Len(text)
          /\ TextShows(con, text, Len(text), IF strayed THEN con.col ELSE Len(text))
      BY <2>1, <2>3 DEF ShellInv, LineShown, line_len
    <2>5. PICK k : k = (IF strayed' THEN con'.col ELSE Len(text))
      OBVIOUS
    <2>6. TextShows(con', text, Len(text), k) /\ con'.col <= Len(text)
      BY <2>1, <2>2, <2>4, <2>5
    <2>7. LineShown'
      BY <2>2, <2>3, <2>4, <2>5, <2>6, LineShownNext
    <2> QED
      BY <2>1, <2>2, <2>7 DEF ShellInv, line_len
  <1>9. ASSUME NEW c \in Char, TypeChar(c) PROVE ShellInv'
    BY <1>9, TypeCharInv
  <1>10. CASE UNCHANGED shellVars
    <2>1. con' = con /\ line_buf' = line_buf /\ strayed' = strayed /\ status' = status
      BY <1>10 DEF shellVars
    <2>2. ConsoleOK(con)' /\ (con.cursor_visible <=> status = "running")'
      BY <2>1 DEF ShellInv, ConsoleOK, Console, Cell
    <2> QED
      BY <2>1, <2>2 DEF ShellInv, OneCursorBar, LineShown, TextShows, Cell, line_len
  <1> QED
    BY <1>1, <1>3, <1>4, <1>5, <1>6, <1>7, <1>8, <1>9, <1>10 DEF ShellNext

\* The shell's invariant.
LEMMA ShellInvariant == ShellSpec => []ShellInv
  BY ShellInitInv, ShellStep, PTL DEF ShellSpec

(***************************************************************************)
(* For every size of the console, every prompt, every text a command       *)
(* prints and every key: no glyph is drawn over another.                   *)
(***************************************************************************)
THEOREM TextAlwaysLegible == ShellSpec => []NoOverstrike
  <1>1. ShellInv => NoOverstrike
    <2> SUFFICES ASSUME ShellInv, NEW p \in Cell PROVE Cardinality(con.cells[p]) <= 1
      BY DEF NoOverstrike
    <2>1. con.cells[p] = {} \/ \E g \in Glyph : con.cells[p] = {g}
      BY DEF ShellInv, ConsoleOK
    <2>2. CASE con.cells[p] = {}
      <3>1. Cardinality(con.cells[p]) = 0
        BY <2>2, FS_EmptySet
      <3> QED
        BY <3>1
    <2>3. ASSUME NEW g \in Glyph, con.cells[p] = {g} PROVE Cardinality(con.cells[p]) <= 1
      <3>1. Cardinality(con.cells[p]) = 1
        BY <2>3, FS_Singleton
      <3> QED
        BY <3>1
    <2> QED
      BY <2>1, <2>2, <2>3
  <1> QED
    BY <1>1, ShellInvariant, PTL

(***************************************************************************)
(* The text cursor is drawn once, at the place of the next character, and  *)
(* no bar of it is left behind by scrolling, clearing or wrapping.         *)
(***************************************************************************)
THEOREM CursorDrawnOnce == ShellSpec => []OneCursorBar
  <1>1. ShellInv => OneCursorBar
    BY DEF ShellInv
  <1> QED
    BY <1>1, ShellInvariant, PTL

(***************************************************************************)
(* For every size of the console, every prompt and every line up to the    *)
(* longest, however often it wraps and scrolls: what is before the cursor  *)
(* is the prompt and the line Enter will execute, and its row shows        *)
(* nothing else; on the row of the cursor alone, once a character has been *)
(* erased at the left edge.                                                *)
(***************************************************************************)
THEOREM LineAlwaysShown == ShellSpec => []LineShown
  <1>1. ShellInv => LineShown
    BY DEF ShellInv
  <1> QED
    BY <1>1, ShellInvariant, PTL
=============================================================================
