# A TLA+ verification of r-os

r-os is a small x86-64 kernel in Rust: it boots, maps a heap, takes keyboard
and mouse interrupts, draws overlapping windows, and runs three cooperative
tasks. This directory models the parts of it that carry state and control,
checks them with TLC on small instances, and proves the central invariants
with TLAPS for every value of the constants. Paths below are relative to
`kernel/src/`. `PROJECT.json` lists runs, mutants, hazards, theorems, and the
source lines behind every definition.

## 1. Inventory

| Component | State | Operations | Correct if |
|---|---|---|---|
| Input queues (`keyboard.rs`, `mouse.rs`) | `data`, `head`, `tail` | `push` (interrupt handler), `pop` (task or idle loop) | no data race on a slot; FIFO; values lost only when full |
| Keyboard decoding (`keyboard.rs`) | modifiers inside `pc_keyboard` | `try_read_key` | every character typed arrives once and in order; a modifier that is wrong after a loss heals |
| Mouse decoder (`mouse.rs`) | `PACKET_STATE`, `PACKET_BYTES` | `add_byte` | whole packets decoded exactly; recovers from bytes lost and bytes too many |
| PS/2 initialisation (`mouse.rs`) | the controller | `init` | ends with the keyboard port enabled, whatever the timing; keeps the configuration if nothing is late |
| Frame allocator (`memory.rs`) | `region_idx`, `next_addr` | `allocate_frame` | each usable frame at most once |
| Heap initialisation (`allocator.rs`) | page tables | `init` | every page mapped, to frames of its own |
| Scheduler (`task.rs`) | `tasks`, `current`, stacks, interrupt flag | `spawn`, `run`, `yield_now`, `switch_context` | context kept; no starvation; never asleep with interrupts off |
| Interrupts (`interrupts.rs`) | `TICK_COUNT`, the PIC | timer, keyboard, mouse, exceptions | every interrupt acknowledged while the machine runs; no handler spins on a lock of the code it interrupted |
| Window manager (`wm.rs`) | `windows`, `focused`, `needs_composite`, cursor with `saved_bg`, framebuffer | `create_window`, `focus_window`, `handle_mouse`, `composite`, console calls | screen shows the state; a click hits what is seen |
| Drawing primitives (`framebuffer.rs`) | the bytes of a buffer with padded rows | `put_pixel`, `read_pixel`, `fill_rect`, `draw_text`, `blit_window`, ... | the picture asked for, clipped, in every pixel format |
| Console (`framebuffer.rs`) | cells, `col`, `row`, `cursor_visible` | `write_char`, `scroll_up`, `clear`, `draw_cursor`, `erase_cursor` | legible text; one cursor |
| Shell (`shell.rs`) | `line_buf`, `line_len` | `handle_char`, commands | what is shown before the cursor is what Enter executes |
| Counter, memory map (`counter.rs`, `memmap.rs`) | `last_displayed`; `MEM_REGIONS` | draw and yield | never behind; rows legible and clear of the legend |
| Boot (`main.rs`), serial and panic (`serial.rs`), descriptor tables (`gdt.rs`) | initialisation order, heap use, `SERIAL` | `kernel_main`, `_print`, `panic` | boots on the screen it is written for; a panic stops the machine |

**How they interact.** Interrupt handlers only append to the two rings. The idle task takes
mouse events and gives them to the window manager; the shell takes scancodes
when its window has the focus. Tasks draw into window buffers under the `WM`
mutex with interrupts off and set `needs_composite`; the idle loop (or
`handle_mouse`) composites. Tasks run one at a time and switch only inside
`yield_now`.

**What is hard here.** Lock-free access from an interrupt handler; an interrupt flag that is
saved on one stack and restored from another; an idle loop that sleeps; a
serial protocol without framing; a controller that may answer after the timeout;
exceptions on top of handlers on top of code that holds a lock; a screen that is patched in place between
composites; text drawn without clearing. The list, line by line, is
`hazards` in `PROJECT.json`.

## 2. Modules

| Module | Models | Run | Proofs |
|---|---|---|---|
| `LossyFifo` | what the input queues promise (abstract) | | |
| `RingBuffer` | `push` and `pop`, access by access | `ring` | `InputProofs` |
| `HeapMapping` | frame allocator and `allocator::init` | `heap` | `HeapMappingProofs` |
| `Scheduler` | task table, `yield_now`, `switch_context`, idle loop, interrupt flag | `sched`, `sched_hlt` | `SchedulerProofs` |
| `MousePackets` | `add_byte`, the mouse and its line | `mouse` | `InputProofs` |
| `Ps2Init` | `mouse::init` against controller, keyboard and mouse | `ps2` | `Ps2InitProofs` |
| `Interrupts` | handlers, exceptions, panic, the PIC, all spin locks | `irq` | `InterruptsProofs` |
| `KeyInput` | the way of a key from the keyboard to `handle_char`; uses `LossyFifo` | `keys` | `InterruptsProofs` |
| `WindowManager` | windows, focus, taskbar, cursor, framebuffer | `wm` | `WindowManagerProofs` |
| `Framebuffer` | drawing primitives and `blit_window`, byte by byte | `framebuffer` | `FramebufferProofs` |
| `Console` | the text console, as operators on a record | | `WindowManagerProofs` |
| `Shell` | line editing and commands over `Console` | `shell` | `WindowManagerProofs` |
| `Boot` | `kernel_main` from `wm::init` on: heap use, list of regions | | `DesktopProofs` |
| `RegionText` | formatting of sizes and addresses, as operators | | `DesktopProofs` |
| `MemoryMap` | the memory map task, over `Boot` and `RegionText` | | `DesktopProofs` |
| `Counter` | the counter task and the timer interrupt | | `DesktopProofs` |
| `Desktop` | `Boot`, then `MemoryMap` and `Counter` | `desktop` | `DesktopProofs` |

`MC*` modules only give values to constants. Operators whose comment starts
with "Mutant" are deliberately wrong variants; nothing uses them, and each
property is shown to fail when one replaces the definition after it. Three proof
modules serve two components each: what the keyboard's handler does stands after the
locks of the handlers, the shell's console after the windows, and the mouse's decoder after
the ring buffer its events go into; such components give `Init`, `Next` and `Spec` names of their own.

**RingBuffer.** Every atomic load and store and both accesses to the
`UnsafeCell` are separate steps; `pushPc` and `popPc` say where each side is.
Loads of the index a side owns are folded into the next step, since nobody else
writes it. On one CPU a handler is not interrupted by its consumer; the model
allows it anyway, which is what `unsafe impl Sync` claims. Memory is
sequentially consistent: an x86 single core sees its own accesses in order.

**HeapMapping.** One step per loop iteration of `advance_to_usable`, `next` and
`init`. `backing` maps each heap page and page table to its frame. `map_to`
(crate `x86_64`) is external: it creates missing tables top down, each from
the same allocator. Addresses are unbounded; the bootloader's lie far below
2^64. The heap lies in a part of the address space that has no tables before,
the worst case for the number of frames.

**Scheduler.** The stack of a switched-out task is a record: registers, where
it resumes, where `yield_now` returns to, and the interrupt flag its
`without_interrupts` saved. A fresh stack resumes at the entry point with zeroed
registers, so its task starts inside somebody else's `without_interrupts`.
Interrupts are separate actions enabled by the flag. A keyboard interrupt, and
a mouse interrupt that does not complete a packet, do to this state what a
timer interrupt does. `ran` and `called` are history
variables. `TaskState::Sleeping` never occurs: nothing in the code sets it.

**MousePackets.** The mouse encodes a movement in three bytes; each is
delivered or lost. `mouse_handler` reads whatever the port holds, so at any moment a byte
may arrive that no movement sent (`StrayByte`). Which and how many is shown by `StrayBytesBounded`
of `Ps2Init`: one, an acknowledgement or a scancode read again, or two if a wait
gave up. Here it may be any byte; the run takes one of each kind the decoder can
tell apart. `costly` counts the stray bytes that get into a packet without overflow
bits. The last arm of `add_byte` (a state other
than 0, 1, 2) cannot be reached and is left out.

**Ps2Init.** The program is the sequence of port accesses `init` makes. A wait
may give up whenever it finds the controller not ready, which stands for TIMEOUT
polls against a controller of any speed. Controller and devices are external: an
input buffer that a new write overwrites, an output buffer, a queue of replies
per device, and the configuration byte as a set of bits; `Data` is what it becomes if
a data byte of `init` reaches it. `late` is the first wait that gave up. After `init` the latched
interrupts are taken, and the handlers read whatever the port holds: when it is empty,
the byte read last. `strays` is what `mouse_handler` gets that way.

**Interrupts.** A routine is the locks it takes, in order, and whether it wraps
them in `without_interrupts`; a stack of contexts says who interrupted whom.
Any instruction may fault except the polling of a lock, at most `MaxFaults`
times. The PIC holds back lines of the same or a lower priority until the
end-of-interrupt. Boot order is `kernel_main`'s; afterwards the routines of the
tasks come in any order, until the shell executes `cmd_halt`, which waits for
interrupts with interrupts off.

**KeyInput.** Three keys tell apart what `pc_keyboard` (external) does here: a
modifier, a character, and a key with a two-byte scancode. The queue is the
abstract `LossyFifo`, so that the composition rests on what `RingImplementsFifo` proves.
The focus moves freely, one click at a time. `unsure` says that a scancode has been
discarded and the modifier's has not got through since, other than right behind a first
byte E0 (`cut`), the second byte of which may be what was discarded.

**Framebuffer.** Beside the bytes the model keeps the picture that was asked for, an
array of colours. Bytes have two bits; rows are longer than the screen is wide;
the formats are Rgb, Bgr, grey and Unknown with its channel positions. The loop over the
pixels of a shape is one step, `Write`, which sets the bytes of all of them at once: no two pixels share
a byte (proved, section 4), so their order does not matter; `draw_background`, which draws its
dots over its gradient, writes twice. `blit_window` copies byte by byte, row by row, from a window's buffer
with rows of its own length (`SourceOffset`) and behind the code's two bounds checks; a window shows
any of `Pictures`, between them different at every two pixels. The references are not made
from the code's own arithmetic: `Shown` says which colour a display can show for
a colour (the same one wherever each channel has bits of its own, read and write
undo each other), and `Border` is the rim of a shape, its pixels with a neighbour outside. `draw_rect_outline`
starting off the screen would draw on its last column or row; no caller does
that, and the model starts on the screen.

**Boot, MemoryMap, Counter, Desktop.** `Boot` counts the bytes each step of
`kernel_main` allocates, with a bound for the small vectors, and makes the list of regions.
Addresses are tuples of 16 digits, since TLC's integers have 32 bits; sizes stay
below 2 GiB for the same reason. `Counter` keeps, next to the count and its copy, two history variables:
ticks since the last turn and since the count shown. `Desktop` runs the two
tasks in the order they are spawned in.

**WindowManager.** A pixel records what was drawn, not its colour, so two
things that look alike are still told apart. Each public function is one step
because it holds `WM` with interrupts off. A window's buffer is a title row
and a content version; drawing replaces the version. `back_buf` is rewritten
by every composite before use and left out. Windows lie above the taskbar
(`PlacementAssumption`), as `kernel_main` places them on a screen of 768 rows.

**Console, Shell.** A cell is the set of glyphs drawn since it was last black,
so overstriking is visible. A step is one key with everything `task_main` does
for it. Which command a line names and what it prints are choices. `TextShows` says that
the characters of a text stand in the cells before the cursor, row above row as far as they have not
scrolled away; `strayed` records that one was erased at the left edge.

## 3. Runs

| Run | Question | Bounds | Result |
|---|---|---|---|
| `ring` | Is the ring race-free and a FIFO? | 4 slots, 3 values: full, empty and both wraps occur | 44,064 states |
| `heap` | Is memory handed out once, wholly, and to the end? | all lists of up to 3 regions over 6 bounds, aligned or not; 2 pages, 3 tables | 379,136 states |
| `sched` | Do tasks keep context, window and turn? | 0, 1 and 3 tasks (as in `kernel_main`), 2 register values, 2 mouse events | 3,816 states |
| `mouse` | Does the decoder decode and recover? | movements with extreme, noisy and quiet bytes, 2 bytes lost and 2 stray ones: an acknowledgement and two scancodes that differ in bit 3 | 657,926 states |
| `ps2` | Does `init` end well against any timing? | 3 configurations, one without the keyboard interrupt, 1 key, 2 movement bytes, every wait may give up | 936,052 states |
| `irq` | Can a handler spin, or an interrupt be lost? | all routines, 3 lines, 2 faults: a fault in a handler and in the report of it; `halt` at any time | 96,384 states |
| `keys` | Does what is typed reach the shell? | 3 keys, 6 presses and releases, a queue of 3 | 260,268 states |
| `wm` | Is the screen current and the click true? | 6 x 4 screen, 3 windows laid out as in `kernel_main` (one over another, one over the edge), 2 contents | 12,876 states |
| `framebuffer` | Do the primitives draw what they are asked to? | 2 x 3 pixels, rows of 3, 5 pixel layouts, windows of every size and place, any 2 operations | 2,410 states |
| `shell` | Is the text legible and the line honest? | 3 x 3 cells, lines up to 5: two wraps, scrolling | 282,115 states |
| `desktop` | Does it boot, and do the display windows tell the truth? | 21 screens, maps of 0 to 35 regions with sizes at every change of unit, a count that wraps at 32 with up to 16 ticks between turns | 157,418 states |
| `sched_hlt` | Does `run` halt only if no task ran? | as `sched` | violated |

The bounds are small because the arguments do not depend on size: a ring needs
a wrap on both sides, an allocator a region before, at and after the current
one, a scheduler a task that is neither idle nor next, a window rows that are shorter
than those of the screen, and a line more than one row.

The violated run checks a comment of the code. `task.rs:253` says "If no
tasks ran, halt until next interrupt", and the `hlt` below it is unconditional. The
effect is that each round over the tasks ends in a sleep.

**Deadlock.** The check is off where the program may really stop: boot ends in
`done` or `panic` (`heap`, `desktop`), `halt` stops the shell, `mouse::init` ends
and its devices fall silent (`ps2`), a panic or double fault stops the machine
(`irq`), and the number of drawing operations is bounded (`framebuffer`). All
other runs check it.

**Fairness.** `HeapMapping`: weak fairness of `Next`, since boot code is the
only thing running. `Scheduler`: weak fairness of the CPU's steps, which it executes
whenever it can, and of the timer interrupt, which the PIT raises periodically
and which the CPU takes once interrupts are on. Nothing is assumed of the mouse;
`NoStarvation` therefore names the case in which its events come faster than the
loop of `run` consumes them. `Ps2Init`: weak fairness of the processor and of the
controller taking what was written to it; nothing is assumed of its answers.
`Interrupts`: weak fairness of the CPU, strong fairness of the task switch and of each
interrupt line, which stays requested until it is taken. Fairness of the task switch is an assumption there:
that the idle task comes back, and interrupts with it, is what `NoStarvation` of `Scheduler` shows,
with its exceptions. The `halt` command is modelled here too (`cmd_halt`) and `EveryInterruptServed` excepts it;
a flood of mouse events keeps the idle task itself running. `KeyInput`: weak fairness of the keyboard and of the
shell's reading, strong fairness of the handler and of the shell's turns, which
come again and again but not at every moment; `TypingIsHandled` assumes
that the shell gets the focus again and again. Neither exception of `NoStarvation` arises
there: the three keys spell no command, and there is no mouse. `Desktop`: weak fairness of boot code and of the
memory map task until it has drawn; none of ticks and of the counter's turns, since after
`halt` neither comes again.

## 4. Proofs

All theorems hold for every value of the constants that satisfies the assumptions
named in the module that declares them: any ring size above one, any memory map
and heap size, any number of tasks, windows, faults, losses, keys and movements, any screen
and layout, any machine. Each invariant is proved inductive, one step per action;
TLC checked the same formula on the run's instance first.

* **Input queues.** `RingInvariant`, `SlotRaceFreedom`. `NoSlotRace` alone is not inductive: one
  has to know that the check made at the start of `push` or `pop` still holds
  when its effect happens (`PushStillHasRoom`, `PopStillHasValue`). It does,
  because the other side can only move in the direction that helps.
  `RingImplementsFifo`: the refinement maps `queue` to the values from `tail`
  to `head`. `PushPublish` is `Accept`, `PushCheckFull` is `Discard`,
  `PopAdvance` is `Take`; a write to the slot at `head` changes nothing that is visible.
* **Memory.** `HeapInvariant`, `FramesNeverShared`, `FramesAlwaysUsable`,
  `FramesAlwaysAligned`, `HeapMappedWhenReady`. The key is `FramesBelowCursor`: all frames in use lie
  below `next_addr`, which never decreases, so sortedness of the memory map is
  not needed. `CursorInRegion` says that outside the search the cursor is past
  the aligned start of an eligible region. `NoFrameWasted` proves
  `PanicOnlyWhenExhausted` and does need the map to be sorted; its invariant `TakenInv` adds
  that the cursor is not past the end of its region (`CursorNotPast`), that no whole frame below it is free
  (`NoneLeftBehind`), and that the loop drops none it was given (`NoneDropped`).
* **Scheduler.** `SchedulerInvariant`, `InterruptsOnlyInIdle`, `IdleWakes`,
  `RegistersPreserved`, `TasksKeepTheirWindow`. The strengthening says what the
  stacks of switched-out tasks hold (`SavedFrames`), where each kind of task can
  be and with which flag (`Placement`), and how the table is laid out
  (`TableLayout`). In particular only the idle task's stack holds a flag that is set.
* **Interrupts.** `SpinsOnlyInPrint`, for any number of faults on top of each
  other. `StackInv` says that the context at the bottom has at most two nested locks, and
  neither `SERIAL` nor `PICS` once interrupts have been enabled (`BaseShape`); that above it
  there is at most one handler, with `PICS` only, and then exceptions, with `SERIAL` only (`AboveShape`); that
  interrupts are on in the bottom context at most (`FlagKnown`); and that code which
  holds `SERIAL` is on top or right below the exception it raised (`PrintOnTop`).
* **Keys.** `TypingArrives`, `ModifierAlwaysHeals`. `Pending` is every scancode on its way,
  in the queue, the port or the keyboard; `Decode` is a recursive function, and `DecodeConcat`
  says that the bytes of a concatenation decode one part after the other, so that moving a byte
  along changes nothing. Neither property is inductive: `KeyInv` adds that a decoder which
  is sure of the modifier will also be between two keys once `Pending` is read (a lost
  byte in the middle of a two-byte code makes it unsure), that a modifier's scancode at
  the port brings any decoder between two keys in step again (`OfferedHeals`, `LastSaysHeld`), and that the
  queue leaves the decoder between two keys unless its last byte is an E0 (`CutInv`).
* **Window manager.** `TitlesTellFocus`, `FocusStaysOnTop`: `StackedInv` adds that
  during boot the order is the order of creation and the first window has the focus. `ScreenNeverStale`: `ScreenCurrent` is
  not inductive, since the operations that only move the cursor patch the framebuffer
  from `saved_bg`; `Shown` says that the screen *without the cursor* is the scene.
  `ClicksGoWhereSeen` is an action property: the pixel under the pointer
  comes from the window or label that `handle_mouse` finds there. It needs that
  labels do not overlap, an induction over the taskbar (below), and
  `PlacementAssumption`: a window over the taskbar would be drawn there and not clicked.
* **Console and shell.** `TextAlwaysLegible`, `CursorDrawnOnce`, `LineAlwaysShown`, for every size of
  the console, prompt, length of line and output. `ShellInv` adds that nothing is drawn at or after the cursor
  (`ConsoleOK`), which every character preserves because wrapping goes to a row that is empty
  or has just been scrolled in, and that the bar is shown exactly while the shell waits.
  `write_str` is a recursive function, taken one character at a time by the induction below.
  That the line is shown needs a distance: a cell before the cursor is identified by how many
  cells it is behind it, reading backwards over the rows; writing moves the cursor and all
  distances on by one, scrolling moves the cells and changes none, and a backspace within the row takes one off. At
  the left edge it does not, which is where `strayed` begins.
  Two assumptions are needed: glyphs are not control characters, and every text a command
  prints ends its line, as all of them do; otherwise the prompt would not start at column 0 and
  the characters before the cursor would include what was printed.
* **Drawing.** `PictureAlwaysShown`, `PixelsComeBack`, for every size of screen and byte, stride, font,
  set of colours and pixel format. The argument has three parts. *Bytes apart:* no two
  pixels share a byte, none reaches into the padding and all are in the buffer (`PixelsApart`,
  `PaddingApart`, `PixelInBuffer`), so that what a loop of `put_pixel` leaves is what `Write`
  says, and a pixel drawn reads as `Shown` of its colour (`WriteDraws`); `blit_window` copies whole rows, whose
  bytes fall to the same pixels in both buffers, though the rows are of different lengths. *Colours:* what
  `read_pixel` returned is a colour the format shows as it is (`ShownAgain`), also when the
  channels of an unknown format overlap or are cut off, because a bit that is seen through one channel is
  written back through all that see it (`UnknownAgain`); this is why the cursor can be put away. *Gradient:* `lerp_u8` starts at one
  end, finishes at the other, is monotonic in between and stays a byte, so the clamp the code
  applies to it never acts (`Lerp`, `DownRuns`). The invariant `FbInv` adds to the property that bytes are bytes
  and that after a gradient the picture is that gradient. Two assumptions: colours are
  bytes, and a format has 3 or 4 bytes for colour or one for grey and shifts within four
  (`ColourAssumption`, `FormatAssumption`).
* **Mouse decoder.** `PacketsDecodeFaithfully`, `QuietPacketsResync`,
  `LossesCostOneEvent`. `DecoderInv` relates the decoder's state to the packet on the
  line: what is stored is what was sent (`StoredInv`), how far a decoder out of
  step can be after each quiet byte (`ResyncInv`), and that wrong events made and
  those still `Owed` are at most the losses and the `costly` stray bytes (`DebtInv`): a packet is wrong
  only if it is `mixed`, and each cause mixes one. Signs and
  overflow are proved for all nine-bit movements from the bits of byte 0.
* **PS/2 initialisation.** `ConfigurationKept`: as long as no wait gives up,
  `DialogueInv` says for each position in `init` which write the controller
  may still have before it, what the configuration byte is, and that the answer awaited is on
  its way or in the output buffer and nothing else is. `FewStrayBytes` makes no assumption on
  timing: `StrayInv` counts the acknowledgements due, queued and in the buffer, and shows
  that after the first mouse interrupt every pending interrupt has its own byte in the buffer, so
  that only the first stray byte can be one read again, and a second is an acknowledgement that came late.
* **Display tasks and boot.** `CounterStaysFresh`, `DesktopStaysFresh`: `CounterInv` says that count and copy
  are apart by the age of the display, or by that less one modulus; `GapAssumption` is
  needed: if a whole turn of the count, less 16, passed between two turns of the task, the
  difference would lie. At 18 ticks a second 2^64 is out of reach. `HeapListedOnEveryMachine`: `ListInv` follows the list through `kernel_main`.
  `BootPanicsExplained` is the safety half of `BootsAsDesigned`: `HeapSpent` says what is left of the
  heap at each position. `RowsAlwaysFit` is the layout half of `RowsShowRegions`,
  `RowsAlwaysLegible` all of it: `HexText` and `SizeText` show that an address and a size of
  64 bits are written in full and fit arrays of 40 and 24 bytes. The size argument
  is that the quotients of `write_u64_decimal` are what is left of the number, so that they are
  also what its digits amount to, read from the left; fewer than 2^34 GiB have at most eleven
  digits and no other unit is counted beyond 1023. `RegionsAssumption` is needed: a region
  that ended before it started would have no size, and `end - start` would overflow.

**Induction.** The library's induction theorems take an operator, which the
provers cannot instantiate. Where one is needed (`LabelsNumbers`, `LabelsApart`, and
wherever `write_str` or `Decode` goes through a sequence) the proof takes the least counterexample, which `WFMin` provides, and refutes it.
The loops of `RegionText` take at most 20 rounds: `LoopExists` says that they have values, `UpTo` is induction over a bounded set.

**Only model-checked.** Liveness (`BootEnds`,
`NoStarvation`, `DrawnIsShown`, `KeyboardComesBack`, `EveryInterruptServed`,
`PanicEndsMachine`, `TypingIsHandled`, `BootsAsDesigned`), since
fairness is out of the prover's reach. `MouseTypeOK` of `MousePackets` and `TypeOK` of
`WindowManager` state the types and are not part of a run.

## 5. What the work showed about the code

* Tasks run with interrupts disabled throughout; only the idle loop takes
  interrupts. This follows from where tasks are first switched to and is not
  stated anywhere. The `halt` command therefore stops the machine for good.
* The handlers do take a lock, `PICS`, although `README.md:24` of the repository
  says that they use atomic operations only. It is safe: it is only ever taken
  with interrupts off, and no handler enables them (`SpinsOnlyOnOwnPrint`).
* Code that faults while it holds `SERIAL` cannot report the fault: the panic
  handler spins on the lock, and the machine hangs instead of exiting. It is the only
  such case.
* `mouse::init` reads a byte that comes after its timeout as the answer to the
  next question. With a slow controller the configuration byte written back may
  be an acknowledgement; `ConfigPreserved` holds only if no wait gave up and the
  mouse was silent at power-on. The keyboard's port is enabled at the end in any case. Its interrupt
  is not: if `read_config` gives up or reads something else, the byte written back may lack bit 0, the command
  0xAE does not set it, and the kernel never sets it itself, so that no key arrives any more.
  `KeyboardComesBack` says when keys do arrive.
* A scancode dropped by the full queue can leave Shift pressed in the decoder until
  Shift is next pressed or released. Even that press or release is swallowed if it follows
  directly on a first byte E0 whose second byte was dropped; then the next one heals it (`StuckModifierHeals`). Keys typed while
  another window has the focus are not lost: they reach the shell later.
* The heap holds the two screen buffers up to about 1024 x 768 at 4 bytes per
  pixel. `CONFIG` asks the bootloader for at least that and bounds nothing from
  above; a larger screen, or one with padding between its rows
  (`copy_from_slice` in `composite`), panics at boot.
* The memory map window has room for nine regions. The heap is the last in the list,
  so on most machines its row is not visible.
* The mouse interrupt that `init` leaves latched makes `mouse_handler` read the port once more than
  the mouse has sent. If it finds the acknowledgement (0xFA) again, that has bit 3 set and enters the decoder as
  a byte 0, but its overflow bits discard the packet, by chance. If a key was pressed
  first, it finds the scancode `keyboard_handler` has just read, and for A (0x1E, bit 3 and no overflow bits) a
  wrong mouse event follows although nothing was lost (`StrayBytesBounded`, `BogusEventsBounded`).
* A decoder out of step stays so while movement bytes have bit 3 set.
* The window that has the focus at boot (Shell) is not on top, and clicking it
  does not raise it, since `focus_window` returns early. The comment at `wm.rs:403`,
  "needs_composite already set by focus_window", is wrong in that case; the cursor
  is redrawn in place, which is right as well (`ScreenCurrent`).
* The last 4 pixels before a taskbar label belong to the label before it, although the highlight covers them.
* Backspace stops at column 0: erasing across a wrap shortens the line and not
  the row above, so that a character stays on the screen that Enter will not execute. `LineShown` says what stays
  true then: the cursor's row holds the last characters of the line and nothing after them.
* `WmWindow::dirty` and `owner_task` are never read; task ids and table indices
  differ by the shift in `run`.
* `allocator.rs:10` says 100 KiB, the heap is 8 MiB; `counter.rs:16` says ~55 Hz
  and `counter.rs:33` ~18.2 Hz, which is the PIT's default.

## 6. Not modelled

`gdt.rs` (constant tables), `init_page_table` (wraps the active table), the
characters sent to the serial port, the texts the shell and the counter print, colours and
the shapes of glyphs (one arbitrary glyph stands for all), `build.rs` and the
QEMU runner have no behaviour of their own to check. Libraries (`pc_keyboard`,
`linked_list_allocator`, `pic8259`, `x86_64`) appear only as their callers use
them; of the heap only the sum is modelled, not its fragmentation.

## 7. Plan

Done, in this order: input queues, memory, scheduler, mouse decoder, window
manager, console and shell; then controller initialisation, interrupts and locks,
the way of a key, drawing primitives, boot and the display tasks; then the proofs
of every safety property, the drawing primitives and the texts of the memory map last. Left to TLC alone is
what is live.
