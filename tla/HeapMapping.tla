----------------------------- MODULE HeapMapping -----------------------------
(***************************************************************************)
(* Boot-time memory: the frame allocator of memory.rs, which walks the     *)
(* bootloader's memory map and never takes a frame back, and               *)
(* allocator::init, which maps every page of the kernel heap to a frame    *)
(* while map_to draws the page tables it lacks from the same allocator.    *)
(*                                                                         *)
(* One step is one iteration of a loop of the code.  Nothing else in the   *)
(* kernel touches this state, so no step is interleaved with another       *)
(* component's.                                                            *)
(***************************************************************************)
EXTENDS Integers, Sequences

CONSTANTS
  FrameSize,   \* 4096
  HeapPages,   \* HEAP_SIZE / 4096 = 2048
  BasePage,    \* page number of HEAP_START
  Levels,      \* page-table levels below the root that map_to creates: 3
  Fanout,      \* entries per table: 512
  RegionLists  \* the memory maps considered

ASSUME SizeAssumption ==
  /\ FrameSize \in Nat \ {0}
  /\ HeapPages \in Nat
  /\ BasePage \in Nat
  /\ Levels \in Nat
  /\ Fanout \in Nat \ {0, 1}

Region == [start : Nat, end : Nat, usable : BOOLEAN]

ASSUME RegionAssumption == \A list \in RegionLists : list \in Seq(Region)

VARIABLES
  regions,     \* the memory map, in the bootloader's order
  region_idx,  \* UsableFrameIter::region_idx (from 1)
  next_addr,   \* UsableFrameIter::next_addr
  iter,        \* which loop of the iterator runs: "idle", "advance" or "next"
  caller,      \* who called it: "new", "page" or "table"
  page,        \* the heap page the loop of allocator::init is at
  frame,       \* the frame taken for that page, or -1
  backing,     \* frame behind each mapped page <<0, n>> and each table <<level, n>>
  phase        \* "map", then "done" or "panic"

vars == <<regions, region_idx, next_addr, iter, caller, page, frame, backing, phase>>
iterVars == <<region_idx, next_addr>>
heapVars == <<page, frame, backing>>

NoFrame == -1

align_up(addr) == ((addr + FrameSize - 1) \div FrameSize) * FrameSize

Put(m, o, f) == [x \in DOMAIN m \cup {o} |-> IF x = o THEN f ELSE m[x]]

\* Mutant: the iterator jumps to the region's start, even backwards.
Second(a, b) == b
Max2(a, b) == IF a >= b THEN a ELSE b

\* UsableFrameIter::new starts by advancing to the first usable region.
Init ==
  /\ regions \in RegionLists
  /\ region_idx = 1
  /\ next_addr = 0
  /\ iter = "advance"
  /\ caller = "new"
  /\ page = 0
  /\ frame = NoFrame
  /\ backing = <<>>
  /\ phase = "map"
-----------------------------------------------------------------------------
(***************************************************************************)
(* advance_to_usable: skip regions that are not usable or hold no aligned  *)
(* address, then raise next_addr to the region's first aligned address.    *)
(***************************************************************************)
Eligible(r) == r.usable /\ align_up(r.start) < r.end

AfterAdvance == IF caller = "new" THEN "idle" ELSE "next"

AdvanceSkip ==
  /\ iter = "advance"
  /\ region_idx <= Len(regions)
  /\ ~Eligible(regions[region_idx])
  /\ region_idx' = region_idx + 1
  /\ UNCHANGED <<regions, next_addr, iter, caller, heapVars, phase>>

AdvanceStop ==
  /\ iter = "advance"
  /\ region_idx <= Len(regions)
  /\ Eligible(regions[region_idx])
  /\ next_addr' = Max2(next_addr, align_up(regions[region_idx].start))
  /\ iter' = AfterAdvance
  /\ UNCHANGED <<regions, region_idx, caller, heapVars, phase>>

AdvanceEnd ==
  /\ iter = "advance"
  /\ region_idx > Len(regions)
  /\ iter' = AfterAdvance
  /\ UNCHANGED <<regions, iterVars, caller, heapVars, phase>>

(***************************************************************************)
(* Iterator::next.  The frame goes to whoever called allocate_frame: the   *)
(* loop of allocator::init keeps it in a local, map_to links it as a table.*)
(* A None is an expect() failure in both, which panics.                    *)
(***************************************************************************)
TableOf(level, p) == <<level, (BasePage + p) \div Fanout ^ level>>

PathTables(p) == {TableOf(level, p) : level \in 1 .. Levels}

\* map_to descends from the highest level, so it creates the highest first.
FirstMissing(t, p) ==
  /\ t \in PathTables(p) \ DOMAIN backing
  /\ \A u \in PathTables(p) \ DOMAIN backing : u[1] <= t[1]

\* Mutant: only the first byte of the frame has to be inside the region.
StartFits == next_addr < regions[region_idx].end
FrameFits == next_addr + FrameSize <= regions[region_idx].end

NextFrame ==
  /\ iter = "next"
  /\ region_idx <= Len(regions)
  /\ FrameFits
  /\ next_addr' = next_addr + FrameSize
  /\ iter' = "idle"
  /\ \/ /\ caller = "page"
        /\ frame' = next_addr
        /\ UNCHANGED backing
     \/ /\ caller = "table"
        /\ \E t \in PathTables(page) : /\ FirstMissing(t, page)
                                       /\ backing' = Put(backing, t, next_addr)
        /\ UNCHANGED frame
  /\ UNCHANGED <<regions, region_idx, caller, page, phase>>

\* Mutants: the region after an exhausted one is skipped, or that one is not left.
SkipsOne == region_idx + 2
Stays == region_idx
Following == region_idx + 1

NextRegion ==
  /\ iter = "next"
  /\ region_idx <= Len(regions)
  /\ ~FrameFits
  /\ region_idx' = Following
  /\ iter' = "advance"
  /\ UNCHANGED <<regions, next_addr, caller, heapVars, phase>>

NextNone ==
  /\ iter = "next"
  /\ region_idx > Len(regions)
  /\ iter' = "idle"
  /\ phase' = "panic"
  /\ UNCHANGED <<regions, iterVars, caller, heapVars>>

(***************************************************************************)
(* The loop of allocator::init: a frame for the page, the tables on its    *)
(* path, the mapping itself; then the heap is handed to the global         *)
(* allocator.                                                              *)
(***************************************************************************)
RequestFrame ==
  /\ phase = "map" /\ iter = "idle"
  /\ page < HeapPages
  /\ frame = NoFrame
  /\ iter' = "next"
  /\ caller' = "page"
  /\ UNCHANGED <<regions, iterVars, heapVars, phase>>

RequestTable ==
  /\ phase = "map" /\ iter = "idle"
  /\ frame # NoFrame
  /\ \E t \in PathTables(page) : FirstMissing(t, page)
  /\ iter' = "next"
  /\ caller' = "table"
  /\ UNCHANGED <<regions, iterVars, heapVars, phase>>

MapPage ==
  /\ phase = "map" /\ iter = "idle"
  /\ frame # NoFrame
  /\ PathTables(page) \subseteq DOMAIN backing
  /\ backing' = Put(backing, <<0, page>>, frame)
  /\ frame' = NoFrame
  /\ page' = page + 1
  /\ UNCHANGED <<regions, iterVars, iter, caller, phase>>

AllPages == page = HeapPages

InitHeap ==
  /\ phase = "map" /\ iter = "idle"
  /\ AllPages
  /\ phase' = "done"
  /\ UNCHANGED <<regions, iterVars, iter, caller, heapVars>>

Next ==
  \/ AdvanceSkip \/ AdvanceStop \/ AdvanceEnd
  \/ NextFrame \/ NextRegion \/ NextNone
  \/ RequestFrame \/ RequestTable \/ MapPage \/ InitHeap

Spec == Init /\ [][Next]_vars

\* Boot code runs on the only CPU until it is finished.
FairSpec == Spec /\ WF_vars(Next)
-----------------------------------------------------------------------------
Pages == 0 .. HeapPages - 1

\* What frames are needed for: the pages of the heap and the tables above them.
Object == {<<0, p>> : p \in Pages} \cup UNION {PathTables(p) : p \in Pages}

TypeOK ==
  /\ regions \in Seq(Region)
  /\ region_idx \in Nat \ {0}
  /\ next_addr \in Nat
  /\ iter \in {"idle", "advance", "next"}
  /\ caller \in {"new", "page", "table"}
  /\ page \in 0 .. HeapPages
  /\ frame \in Nat \cup {NoFrame}
  /\ DOMAIN backing \subseteq Object
  /\ \A o \in DOMAIN backing : backing[o] \in Nat
  /\ phase \in {"map", "done", "panic"}

Frames == {backing[o] : o \in DOMAIN backing} \cup ({frame} \ {NoFrame})

(***************************************************************************)
(* No physical frame backs two things: no two heap pages share a frame and *)
(* none of them is also a page table (allocate_frame hands out each frame  *)
(* at most once, also for overlapping or unsorted memory maps).            *)
(***************************************************************************)
NoAliasing ==
  /\ \A o1, o2 \in DOMAIN backing : backing[o1] = backing[o2] => o1 = o2
  /\ \A o \in DOMAIN backing : backing[o] # frame

InUsable(f) ==
  \E i \in 1 .. Len(regions) : /\ regions[i].usable
                               /\ regions[i].start <= f
                               /\ f + FrameSize <= regions[i].end

(***************************************************************************)
(* Every frame in use lies wholly inside a region the memory map calls     *)
(* usable: never in a reserved one, never across the end of a region.      *)
(***************************************************************************)
FramesUsable == \A f \in Frames : InUsable(f)

(***************************************************************************)
(* Every frame in use starts on a frame boundary, as                       *)
(* PhysFrame::containing_address silently requires.                        *)
(***************************************************************************)
FramesAligned == \A f \in Frames : f % FrameSize = 0

(***************************************************************************)
(* When the heap is handed to the global allocator every page of it is     *)
(* mapped and so is every table on the way to it.                          *)
(***************************************************************************)
HeapReady ==
  phase = "done" =>
    \A p \in Pages : <<0, p>> \in DOMAIN backing /\ PathTables(p) \subseteq DOMAIN backing

(***************************************************************************)
(* What makes the four above inductive: the iterator's address is aligned, *)
(* inside an eligible region unless a region is being looked for, and      *)
(* above every frame handed out; the loop of allocator::init has mapped    *)
(* every page it has passed and has a page to map whenever it has a frame. *)
(***************************************************************************)
CursorAligned == next_addr % FrameSize = 0

CursorInRegion ==
  iter # "advance" /\ region_idx <= Len(regions) =>
    /\ Eligible(regions[region_idx])
    /\ align_up(regions[region_idx].start) <= next_addr

FramesBelowCursor == \A f \in Frames : f + FrameSize <= next_addr

LoopProgress ==
  /\ \A p \in 0 .. page - 1 : <<0, p>> \in DOMAIN backing /\ PathTables(p) \subseteq DOMAIN backing
  /\ frame # NoFrame => page < HeapPages
  /\ iter # "idle" /\ caller = "page" => page < HeapPages
  /\ iter # "idle" /\ caller = "table" => frame # NoFrame
  /\ phase = "done" => page = HeapPages

HeapInv ==
  /\ TypeOK
  /\ NoAliasing
  /\ FramesUsable
  /\ FramesAligned
  /\ CursorAligned
  /\ CursorInRegion
  /\ FramesBelowCursor
  /\ LoopProgress

Sorted ==
  \A i, j \in 1 .. Len(regions) : i < j => regions[i].end <= regions[j].start

WholeFrames ==
  UNION {{f \in regions[i].start .. regions[i].end - FrameSize :
            regions[i].usable /\ f % FrameSize = 0} : i \in 1 .. Len(regions)}

(***************************************************************************)
(* Boot panics for want of memory only when every whole usable frame has   *)
(* been handed out, provided the memory map is sorted and not overlapping. *)
(***************************************************************************)
PanicOnlyWhenExhausted == phase = "panic" /\ Sorted => WholeFrames \subseteq Frames

(***************************************************************************)
(* What makes it inductive, besides HeapInv: the iterator has not passed   *)
(* the end of the region it is at, or of an earlier one while it looks for *)
(* the next; it has left no whole frame behind; and the loop never drops a *)
(* frame it has been given.                                                *)
(***************************************************************************)
CursorNotPast ==
  \/ next_addr = 0
  \/ \E k \in 1 .. Len(regions) : /\ next_addr <= regions[k].end
                                  /\ k < region_idx \/ (k = region_idx /\ iter # "advance")

WholeFrame(i, f) ==
  /\ regions[i].usable
  /\ f % FrameSize = 0
  /\ regions[i].start <= f
  /\ f + FrameSize <= regions[i].end

NoneLeftBehind ==
  \A i \in 1 .. Len(regions), f \in Nat :
    /\ WholeFrame(i, f)
    /\ i < region_idx \/ (i = region_idx /\ iter # "advance" /\ f < next_addr)
    => f \in Frames

NoneDropped ==
  /\ \A p \in Nat : <<0, p>> \in DOMAIN backing => p < page
  /\ iter # "idle" /\ caller = "page" => frame = NoFrame
  /\ phase = "panic" => iter = "idle" /\ region_idx > Len(regions)

TakenInv == NoneDropped /\ (Sorted => CursorNotPast /\ NoneLeftBehind)

(***************************************************************************)
(* The loops of the iterator and of allocator::init come to an end.        *)
(***************************************************************************)
BootEnds == <>(phase \in {"done", "panic"})
=============================================================================
