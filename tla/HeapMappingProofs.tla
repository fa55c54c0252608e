------------------------- MODULE HeapMappingProofs -------------------------
(***************************************************************************)
(* Proofs about the frame allocator and the mapping of the heap, for every *)
(* memory map (sorted or not, overlapping or not), frame size, heap size   *)
(* and shape of the page tables.                                           *)
(***************************************************************************)
EXTENDS HeapMapping, SequenceTheorems, TLAPS

(***************************************************************************)
(* What align_up of memory.rs returns: the argument rounded up.            *)
(***************************************************************************)
LEMMA AlignUp ==
  ASSUME NEW a \in Nat
  PROVE  /\ align_up(a) \in Nat
         /\ a <= align_up(a)
         /\ align_up(a) % FrameSize = 0
  BY SizeAssumption DEF align_up

\* The address after an aligned frame is aligned (next_addr += 4096).
LEMMA AlignNext ==
  ASSUME NEW a \in Nat, a % FrameSize = 0
  PROVE  (a + FrameSize) % FrameSize = 0
  BY SizeAssumption

\* UsableFrameIter::new and the start of allocator::init establish the invariant.
LEMMA HeapInit == Init => HeapInv
  <1> SUFFICES ASSUME Init PROVE HeapInv
    OBVIOUS
  <1> USE SizeAssumption, RegionAssumption DEF Init
  <1>1. DOMAIN backing = {} /\ Frames = {}
    BY DEF Frames
  <1>2. TypeOK
    BY <1>1 DEF TypeOK, NoFrame
  <1>3. NoAliasing /\ FramesUsable /\ FramesAligned /\ FramesBelowCursor
    BY <1>1 DEF NoAliasing, FramesUsable, FramesAligned, FramesBelowCursor
  <1>4. CursorAligned /\ CursorInRegion /\ LoopProgress
    BY <1>1 DEF CursorAligned, CursorInRegion, LoopProgress
  <1> QED
    BY <1>2, <1>3, <1>4 DEF HeapInv

\* The entry of the memory map the iterator looks at is a region.
LEMMA RegionType ==
  ASSUME TypeOK, region_idx <= Len(regions)
  PROVE  /\ regions[region_idx].start \in Nat
         /\ regions[region_idx].end \in Nat
         /\ regions[region_idx].usable \in BOOLEAN
  <1>1. regions[region_idx] \in Region
    BY ElementOfSeq DEF TypeOK
  <1> QED
    BY <1>1 DEF Region

\* The steps of the iterator that hand out no frame.
LEMMA FramesKept ==
  ASSUME HeapInv, UNCHANGED <<regions, frame, backing, page>>, next_addr' \in Nat, next_addr <= next_addr'
  PROVE  NoAliasing' /\ FramesUsable' /\ FramesAligned' /\ FramesBelowCursor'
  <1>1. \A f \in Frames : f \in Nat
    BY DEF HeapInv, TypeOK, Frames
  <1> QED
    BY <1>1, SizeAssumption DEF HeapInv, TypeOK, NoAliasing, FramesUsable, InUsable, FramesAligned, FramesBelowCursor, Frames

\* Every loop iteration of the iterator and of allocator::init preserves the
\* invariant.
LEMMA HeapStep == HeapInv /\ [Next]_vars => HeapInv'
  <1> SUFFICES ASSUME HeapInv, [Next]_vars PROVE HeapInv'
    OBVIOUS
  <1> USE SizeAssumption
  <1>1. CASE AdvanceSkip
    <2> USE <1>1 DEF AdvanceSkip, heapVars, HeapInv
    <2>1. TypeOK' /\ CursorAligned' /\ CursorInRegion' /\ LoopProgress'
      BY DEF TypeOK, CursorAligned, CursorInRegion, LoopProgress
    <2> QED
      BY <2>1, FramesKept DEF TypeOK
  <1>2. CASE AdvanceStop
    <2> USE <1>2 DEF AdvanceStop, heapVars, HeapInv
    <2> DEFINE first == align_up(regions[region_idx].start)
    <2>1. first \in Nat /\ first % FrameSize = 0
      BY RegionType, AlignUp
    <2>2. /\ next_addr' \in Nat /\ next_addr <= next_addr' /\ first <= next_addr'
          /\ next_addr' % FrameSize = 0
      BY <2>1 DEF TypeOK, CursorAligned, Max2
    <2>3. TypeOK'
      BY <2>2 DEF TypeOK, AfterAdvance
    <2>4. CursorAligned' /\ CursorInRegion'
      BY <2>2 DEF CursorAligned, CursorInRegion, Eligible, align_up
    <2>5. LoopProgress'
      BY DEF LoopProgress, AfterAdvance, TypeOK
    <2> QED
      BY <2>2, <2>3, <2>4, <2>5, FramesKept
  <1>3. CASE AdvanceEnd
    <2> USE <1>3 DEF AdvanceEnd, heapVars, iterVars, HeapInv
    <2>1. TypeOK' /\ CursorAligned' /\ LoopProgress'
      BY DEF TypeOK, CursorAligned, LoopProgress, AfterAdvance
    <2>2. CursorInRegion'
      BY DEF TypeOK, CursorInRegion
    <2> QED
      BY <2>1, <2>2, FramesKept DEF TypeOK
  <1>4. CASE NextFrame
    <2> USE <1>4 DEF NextFrame, FrameFits, HeapInv
    <2>1. /\ regions[region_idx].start \in Nat /\ regions[region_idx].end \in Nat
          /\ regions[region_idx].usable
          /\ regions[region_idx].start <= next_addr
          /\ next_addr + FrameSize <= regions[region_idx].end
      <3>1. regions[region_idx].start \in Nat /\ regions[region_idx].end \in Nat
        BY RegionType
      <3>2. /\ align_up(regions[region_idx].start) \in Nat
            /\ regions[region_idx].start <= align_up(regions[region_idx].start)
        BY <3>1, AlignUp
      <3>3. /\ regions[region_idx].usable
            /\ align_up(regions[region_idx].start) <= next_addr
        BY DEF CursorInRegion, Eligible
      <3> QED
        BY <3>1, <3>2, <3>3 DEF TypeOK
    <2>2. InUsable(next_addr) /\ next_addr \in Nat
      BY <2>1 DEF InUsable, TypeOK
    <2>3. /\ next_addr' = next_addr + FrameSize /\ next_addr' \in Nat
          /\ (next_addr + FrameSize) % FrameSize = 0
      BY AlignNext DEF TypeOK, CursorAligned
    <2>4. CursorInRegion' /\ CursorAligned'
      <3>1. align_up(regions[region_idx].start) \in Nat
        BY <2>1, AlignUp
      <3> QED
        BY <2>3, <3>1 DEF CursorInRegion, CursorAligned, TypeOK, Eligible, align_up
    <2>5. \A f \in Frames : f \in Nat /\ f + FrameSize <= next_addr /\ f # next_addr
      <3>1. \A f \in Frames : f \in Nat
        BY DEF Frames, TypeOK
      <3> QED
        BY <3>1 DEF FramesBelowCursor, TypeOK
    <2>a. ASSUME Frames' \subseteq Frames \cup {next_addr}
          PROVE  FramesUsable' /\ FramesAligned' /\ FramesBelowCursor'
      <3>1. FramesUsable'
        BY <2>2, <2>a DEF FramesUsable, InUsable
      <3>2. FramesAligned'
        BY <2>a DEF FramesAligned, CursorAligned
      <3>3. FramesBelowCursor'
        BY <2>2, <2>3, <2>5, <2>a DEF FramesBelowCursor
      <3> QED
        BY <3>1, <3>2, <3>3
    <2>6. CASE caller = "page"
      <3> USE <2>6
      <3>1. frame' = next_addr /\ backing' = backing
        OBVIOUS
      <3>2. Frames' \subseteq Frames \cup {next_addr}
        BY <3>1 DEF Frames
      <3>3. TypeOK'
        BY <2>3, <3>1 DEF TypeOK
      <3>4. NoAliasing'
        BY <2>5, <3>1 DEF NoAliasing, Frames
      <3>5. LoopProgress'
        BY <3>1 DEF LoopProgress
      <3> QED
        BY <2>4, <2>a, <3>2, <3>3, <3>4, <3>5
    <2>7. CASE caller = "table"
      <3> USE <2>7
      <3>1. PICK t \in PathTables(page) : backing' = Put(backing, t, next_addr)
        OBVIOUS
      <3>2. frame' = frame /\ frame # NoFrame /\ page \in Pages
        BY DEF LoopProgress, TypeOK, Pages
      <3>3. /\ DOMAIN backing' = DOMAIN backing \cup {t}
            /\ backing'[t] = next_addr
            /\ \A x \in DOMAIN backing : x # t => backing'[x] = backing[x]
        BY <3>1 DEF Put
      <3>4. Frames' \subseteq Frames \cup {next_addr}
        BY <3>2, <3>3 DEF Frames
      <3>5. TypeOK'
        BY <2>3, <3>2, <3>3 DEF TypeOK, Object
      <3>6. NoAliasing'
        BY <2>5, <3>2, <3>3 DEF NoAliasing, Frames
      <3>7. LoopProgress'
        BY <3>2, <3>3 DEF LoopProgress, PathTables, TableOf
      <3> QED
        BY <2>4, <2>a, <3>4, <3>5, <3>6, <3>7
    <2> QED
      BY <2>6, <2>7
  <1>5. CASE NextRegion
    <2> USE <1>5 DEF NextRegion, FrameFits, Following, heapVars, HeapInv
    <2>1. TypeOK' /\ CursorAligned' /\ CursorInRegion' /\ LoopProgress'
      BY DEF TypeOK, CursorAligned, CursorInRegion, LoopProgress
    <2> QED
      BY <2>1, FramesKept DEF TypeOK
  <1>6. CASE NextNone
    <2> USE <1>6 DEF NextNone, heapVars, iterVars, HeapInv
    <2>1. TypeOK' /\ CursorAligned' /\ CursorInRegion' /\ LoopProgress'
      BY DEF TypeOK, CursorAligned, CursorInRegion, LoopProgress
    <2> QED
      BY <2>1, FramesKept DEF TypeOK
  <1>7. CASE RequestFrame \/ RequestTable
    <2> USE <1>7 DEF RequestFrame, RequestTable, heapVars, iterVars, HeapInv
    <2>1. TypeOK' /\ CursorAligned' /\ LoopProgress'
      BY DEF TypeOK, CursorAligned, LoopProgress
    <2>2. CursorInRegion'
      BY DEF CursorInRegion, Eligible
    <2> QED
      BY <2>1, <2>2, FramesKept DEF TypeOK
  <1>8. CASE MapPage
    <2> USE <1>8 DEF MapPage, iterVars, HeapInv
    <2> DEFINE o == <<0, page>>
    <2>0. backing' = Put(backing, o, frame)
      OBVIOUS
    <2> HIDE DEF o
    <2>1. /\ DOMAIN backing' = DOMAIN backing \cup {o}
          /\ backing'[o] = frame
          /\ \A x \in DOMAIN backing : x # o => backing'[x] = backing[x]
      BY <2>0 DEF Put
    <2>2. page \in Pages /\ frame \in Nat /\ frame' = NoFrame /\ page' = page + 1 /\ page \in Nat
      BY DEF LoopProgress, TypeOK, Pages
    <2>3. Frames' \subseteq Frames
      BY <2>1, <2>2 DEF Frames
    <2>4. TypeOK'
      <3>1. o \in Object
        BY <2>2 DEF Object, o
      <3>2. page' \in 0 .. HeapPages
        BY <2>2 DEF Pages
      <3> QED
        BY <2>1, <2>2, <3>1, <3>2 DEF TypeOK
    <2>5. NoAliasing'
      BY <2>1, <2>2 DEF NoAliasing, NoFrame, TypeOK
    <2>6. LoopProgress'
      <3>1. \A p \in 0 .. page' - 1 : p = page \/ p \in 0 .. page - 1
        BY <2>2
      <3> QED
        BY <2>1, <2>2, <3>1 DEF LoopProgress, PathTables, TableOf, o
    <2>7. FramesUsable' /\ FramesAligned' /\ FramesBelowCursor' /\ CursorAligned' /\ CursorInRegion'
      BY <2>3 DEF FramesUsable, InUsable, FramesAligned, FramesBelowCursor, CursorAligned, CursorInRegion, Eligible
    <2> QED
      BY <2>4, <2>5, <2>6, <2>7
  <1>9. CASE InitHeap
    <2> USE <1>9 DEF InitHeap, AllPages, heapVars, iterVars, HeapInv
    <2>1. TypeOK' /\ CursorAligned' /\ LoopProgress'
      BY DEF TypeOK, CursorAligned, LoopProgress
    <2>2. CursorInRegion'
      BY DEF CursorInRegion, Eligible
    <2> QED
      BY <2>1, <2>2, FramesKept DEF TypeOK
  <1>10. CASE UNCHANGED vars
    <2> USE <1>10 DEF vars, HeapInv
    <2>1. TypeOK' /\ CursorAligned' /\ LoopProgress'
      BY DEF TypeOK, CursorAligned, LoopProgress
    <2>2. CursorInRegion'
      BY DEF CursorInRegion, Eligible
    <2> QED
      BY <2>1, <2>2, FramesKept DEF TypeOK
  <1> QED
    BY <1>1, <1>2, <1>3, <1>4, <1>5, <1>6, <1>7, <1>8, <1>9, <1>10 DEF Next

(***************************************************************************)
(* The frame allocator and the loop of allocator::init keep their          *)
(* invariant.  What is added to the properties to make them inductive is   *)
(* that the iterator's address is aligned, lies in an eligible region and  *)
(* is above every frame handed out.                                        *)
(***************************************************************************)
THEOREM HeapInvariant == Spec => []HeapInv
  BY HeapInit, HeapStep, PTL DEF Spec

(***************************************************************************)
(* No physical frame ever backs two heap pages, two page tables or one of  *)
(* each, whatever the memory map looks like.                               *)
(***************************************************************************)
THEOREM FramesNeverShared == Spec => []NoAliasing
  <1>1. HeapInv => NoAliasing
    BY DEF HeapInv
  <1> QED
    BY <1>1, HeapInvariant, PTL

(***************************************************************************)
(* Only whole frames of usable regions are ever used.                      *)
(***************************************************************************)
THEOREM FramesAlwaysUsable == Spec => []FramesUsable
  <1>1. HeapInv => FramesUsable
    BY DEF HeapInv
  <1> QED
    BY <1>1, HeapInvariant, PTL

(***************************************************************************)
(* Every frame in use starts on a frame boundary, also in regions whose    *)
(* bounds do not (align_up in UsableFrameIter).                            *)
(***************************************************************************)
THEOREM FramesAlwaysAligned == Spec => []FramesAligned
  <1>1. HeapInv => FramesAligned
    BY DEF HeapInv
  <1> QED
    BY <1>1, HeapInvariant, PTL

(***************************************************************************)
(* The heap is handed to the global allocator only when every page of it   *)
(* and every table above it is backed by a frame.                          *)
(***************************************************************************)
THEOREM HeapMappedWhenReady == Spec => []HeapReady
  <1>1. HeapInv => HeapReady
    BY SizeAssumption DEF HeapInv, HeapReady, LoopProgress, TypeOK, Pages
  <1> QED
    BY <1>1, HeapInvariant, PTL

\* No aligned address lies between an address and what align_up makes of it.
LEMMA AlignUpLeast ==
  ASSUME NEW a \in Nat, NEW f \in Nat, f % FrameSize = 0, a <= f
  PROVE  align_up(a) <= f
  <1> DEFINE q == (a + FrameSize - 1) \div FrameSize
             k == f \div FrameSize
  <1> USE SizeAssumption
  <1>1. q \in Nat /\ k \in Nat /\ f = k * FrameSize
    OBVIOUS
  <1>2. q * FrameSize <= a + FrameSize - 1
    OBVIOUS
  <1>3. q * FrameSize < (k + 1) * FrameSize
    BY <1>1, <1>2
  <1>4. q <= k
    <2> HIDE DEF q, k
    <2> QED
      BY <1>1, <1>3
  <1>5. q * FrameSize <= k * FrameSize
    <2> HIDE DEF q, k
    <2> QED
      BY <1>1, <1>4
  <1> QED
    BY <1>1, <1>5 DEF align_up

\* Two frame boundaries less than a frame apart are the same.
LEMMA SameBoundary ==
  ASSUME NEW a \in Nat, NEW b \in Nat, a % FrameSize = 0, b % FrameSize = 0,
         a <= b, b < a + FrameSize
  PROVE  a = b
  <1> DEFINE i == a \div FrameSize
             j == b \div FrameSize
  <1> USE SizeAssumption
  <1>1. i \in Nat /\ j \in Nat /\ a = i * FrameSize /\ b = j * FrameSize
    OBVIOUS
  <1> HIDE DEF i, j
  <1>2. j * FrameSize < (i + 1) * FrameSize
    BY <1>1
  <1>3. j <= i
    BY <1>1, <1>2
  <1>4. j * FrameSize <= i * FrameSize
    BY <1>1, <1>3
  <1> QED
    BY <1>1, <1>4


\* A whole frame is not below the first aligned address of its region.
LEMMA WholeFrameStart ==
  ASSUME TypeOK, NEW i \in 1 .. Len(regions), NEW f \in Nat, WholeFrame(i, f)
  PROVE  /\ regions[i].start \in Nat /\ regions[i].end \in Nat
         /\ align_up(regions[i].start) <= f
         /\ Eligible(regions[i])
  <1>1. regions[i] \in Region
    BY ElementOfSeq DEF TypeOK
  <1>2. regions[i].start \in Nat /\ regions[i].end \in Nat
    BY <1>1 DEF Region
  <1>3. align_up(regions[i].start) \in Nat /\ align_up(regions[i].start) <= f
    BY <1>2, AlignUp, AlignUpLeast DEF WholeFrame
  <1> QED
    BY <1>2, <1>3, SizeAssumption DEF WholeFrame, Eligible

\* While the iterator looks for a region, or when it has just found one, it is
\* below every whole frame of it: regions are sorted.
LEMMA CursorBelowNew ==
  ASSUME TypeOK, Sorted, CursorNotPast, iter = "advance", region_idx <= Len(regions),
         NEW f \in Nat, WholeFrame(region_idx, f)
  PROVE  next_addr <= f
  <1>0. region_idx \in 1 .. Len(regions)
    BY DEF TypeOK
  <1>1. regions[region_idx].start \in Nat /\ regions[region_idx].start <= f
    BY <1>0, WholeFrameStart DEF WholeFrame
  <1>2. CASE next_addr = 0
    BY <1>2
  <1>3. CASE next_addr # 0
    <2>1. PICK k \in 1 .. Len(regions) : next_addr <= regions[k].end /\ k < region_idx
      BY <1>3 DEF CursorNotPast
    <2>2. regions[k].end <= regions[region_idx].start
      BY <1>0, <2>1 DEF Sorted
    <2>3. regions[k] \in Region
      BY ElementOfSeq DEF TypeOK
    <2> QED
      BY <1>1, <2>1, <2>2, <2>3 DEF TypeOK, Region
  <1> QED
    BY <1>2, <1>3

\* Neither loop forgets a frame: each one is kept in the local or linked.
LEMMA FramesGrow ==
  ASSUME HeapInv, NoneDropped, [Next]_vars
  PROVE  Frames \subseteq Frames'
  <1> USE DEF Frames
  <1>1. CASE NextFrame /\ caller = "page"
    <2>1. frame = NoFrame /\ backing' = backing
      BY <1>1 DEF NextFrame, NoneDropped
    <2> QED
      BY <2>1
  <1>2. CASE NextFrame /\ caller = "table"
    <2>1. PICK t \in PathTables(page) : t \notin DOMAIN backing /\ backing' = Put(backing, t, next_addr)
      BY <1>2 DEF NextFrame, FirstMissing
    <2>2. frame' = frame
      BY <1>2 DEF NextFrame
    <2>3. /\ DOMAIN backing' = DOMAIN backing \cup {t}
          /\ \A x \in DOMAIN backing : backing'[x] = backing[x]
      BY <2>1 DEF Put
    <2> QED
      BY <2>2, <2>3
  <1>3. CASE MapPage
    <2> DEFINE o == <<0, page>>
    <2>1. o \notin DOMAIN backing
      BY DEF NoneDropped, HeapInv, TypeOK
    <2>2. backing' = Put(backing, o, frame)
      BY <1>3 DEF MapPage
    <2> HIDE DEF o
    <2>3. /\ DOMAIN backing' = DOMAIN backing \cup {o}
          /\ backing'[o] = frame
          /\ \A x \in DOMAIN backing : backing'[x] = backing[x]
      BY <2>1, <2>2 DEF Put
    <2> QED
      BY <2>3
  <1>4. ASSUME UNCHANGED <<frame, backing>> PROVE Frames' = Frames
    BY <1>4
  <1>5. CASE AdvanceSkip \/ AdvanceStop \/ AdvanceEnd \/ NextRegion \/ NextNone \/ RequestFrame
             \/ RequestTable \/ InitHeap \/ UNCHANGED vars
    <2>1. UNCHANGED <<frame, backing>>
      BY <1>5 DEF AdvanceSkip, AdvanceStop, AdvanceEnd, NextRegion, NextNone, RequestFrame,
                  RequestTable, InitHeap, vars, heapVars
    <2> QED
      BY <2>1, <1>4
  <1> QED
    BY <1>1, <1>2, <1>3, <1>5 DEF Next, NextFrame

\* Every step keeps the loop from dropping a frame, whatever the memory map.
LEMMA DropStep ==
  ASSUME HeapInv, NoneDropped, [Next]_vars
  PROVE  NoneDropped'
  <1> USE DEF NoneDropped
  <1>1. CASE NextFrame
    <2>1. CASE caller = "page"
      BY <1>1, <2>1 DEF NextFrame, HeapInv, TypeOK
    <2>2. CASE caller = "table"
      <3>1. PICK t \in PathTables(page) : backing' = Put(backing, t, next_addr)
        BY <1>1, <2>2 DEF NextFrame
      <3>2. DOMAIN backing' = DOMAIN backing \cup {t} /\ \A p \in Nat : t # <<0, p>>
        BY <3>1 DEF Put, PathTables, TableOf
      <3> QED
        BY <1>1, <2>2, <3>2 DEF NextFrame, HeapInv, TypeOK
    <2> QED
      BY <1>1, <2>1, <2>2 DEF NextFrame
  <1>2. CASE MapPage
    <2>1. DOMAIN backing' = DOMAIN backing \cup {<<0, page>>}
      BY <1>2 DEF MapPage, Put
    <2>2. \A p \in Nat : <<0, p>> = <<0, page>> => p = page
      OBVIOUS
    <2>3. page \in Nat /\ page' = page + 1
      BY <1>2, SizeAssumption DEF MapPage, HeapInv, TypeOK
    <2>4. \A p \in Nat : <<0, p>> \in DOMAIN backing' => p < page'
      BY <2>1, <2>2, <2>3
    <2> QED
      BY <1>2, <2>4 DEF MapPage, iterVars
  <1>3. CASE AdvanceSkip \/ AdvanceStop \/ AdvanceEnd
    BY <1>3 DEF AdvanceSkip, AdvanceStop, AdvanceEnd, AfterAdvance, heapVars, iterVars, HeapInv, TypeOK
  <1>4. CASE NextRegion \/ NextNone
    BY <1>4 DEF NextRegion, NextNone, Following, heapVars, iterVars, HeapInv, TypeOK
  <1>5. CASE RequestFrame \/ RequestTable \/ InitHeap \/ UNCHANGED vars
    BY <1>5 DEF RequestFrame, RequestTable, InitHeap, vars, heapVars, iterVars
  <1> QED
    BY <1>1, <1>2, <1>3, <1>4, <1>5 DEF Next

\* The iterator never gets past the region it is at.
LEMMA NotPastStep ==
  ASSUME HeapInv, CursorNotPast, [Next]_vars
  PROVE  CursorNotPast'
  <1> USE SizeAssumption DEF HeapInv, TypeOK
  <1>1. CASE AdvanceStop
    <2> DEFINE first == align_up(regions[region_idx].start)
    <2>1. region_idx \in 1 .. Len(regions) /\ regions[region_idx].end \in Nat
      BY <1>1, RegionType DEF AdvanceStop
    <2>2. first \in Nat /\ first < regions[region_idx].end
      BY <1>1, RegionType, AlignUp DEF AdvanceStop, Eligible
    <2>3. next_addr' = next_addr \/ next_addr' = first
      BY <1>1 DEF AdvanceStop, Max2
    <2>4. regions' = regions /\ region_idx' = region_idx /\ iter' # "advance"
      BY <1>1 DEF AdvanceStop, AfterAdvance
    <2> HIDE DEF first
    <2> QED
      BY <2>1, <2>2, <2>3, <2>4 DEF CursorNotPast
  <1>2. CASE NextFrame
    BY <1>2 DEF NextFrame, FrameFits, CursorNotPast
  <1>3. CASE AdvanceSkip \/ AdvanceEnd \/ NextRegion
    BY <1>3 DEF AdvanceSkip, AdvanceEnd, NextRegion, Following, AfterAdvance, iterVars, CursorNotPast
  <1>4. CASE NextNone \/ RequestFrame \/ RequestTable \/ MapPage \/ InitHeap \/ UNCHANGED vars
    BY <1>4 DEF NextNone, RequestFrame, RequestTable, MapPage, InitHeap, vars, iterVars, CursorNotPast
  <1> QED
    BY <1>1, <1>2, <1>3, <1>4 DEF Next

\* In a sorted memory map every step leaves no whole frame behind.
LEMMA BehindStep ==
  ASSUME HeapInv, HeapInv', NoneDropped, Sorted, CursorNotPast, NoneLeftBehind, [Next]_vars
  PROVE  NoneLeftBehind'
  <1>0. regions' = regions /\ TypeOK
    BY DEF HeapInv, Next, vars, AdvanceSkip, AdvanceStop, AdvanceEnd, NextFrame, NextRegion, NextNone,
           RequestFrame, RequestTable, MapPage, InitHeap
  <1> SUFFICES ASSUME NEW i \in 1 .. Len(regions), NEW f \in Nat, WholeFrame(i, f),
                      i < region_idx' \/ (i = region_idx' /\ iter' # "advance" /\ f < next_addr')
               PROVE  f \in Frames'
    BY <1>0 DEF NoneLeftBehind, WholeFrame
  <1>1. Frames \subseteq Frames'
    BY FramesGrow
  <1>2. /\ regions[i].start \in Nat /\ regions[i].end \in Nat
        /\ align_up(regions[i].start) <= f /\ Eligible(regions[i])
    BY <1>0, WholeFrameStart
  <1>3. CASE i < region_idx \/ (i = region_idx /\ iter # "advance" /\ f < next_addr)
    BY <1>1, <1>3 DEF NoneLeftBehind
  <1>4. CASE AdvanceSkip
    BY <1>0, <1>2, <1>3, <1>4 DEF AdvanceSkip, TypeOK
  <1>5. CASE AdvanceStop
    <2>1. next_addr <= f \/ i # region_idx
      BY <1>0, <1>5, CursorBelowNew DEF AdvanceStop
    <2>2. next_addr' <= f \/ i # region_idx
      BY <1>2, <1>5, <2>1 DEF AdvanceStop, Max2
    <2>3. next_addr' \in Nat
      BY DEF HeapInv, TypeOK
    <2> QED
      BY <1>0, <1>3, <1>5, <2>2, <2>3 DEF AdvanceStop, TypeOK
  <1>6. CASE NextFrame
    <2>1. next_addr \in Frames'
      <3>1. CASE caller = "page"
        <4>1. frame' = next_addr /\ frame' # NoFrame
          BY <1>0, <1>6, <3>1 DEF NextFrame, TypeOK, NoFrame
        <4> QED
          BY <4>1 DEF Frames
      <3>2. CASE caller = "table"
        <4>1. PICK t \in PathTables(page) : backing' = Put(backing, t, next_addr)
          BY <1>6, <3>2 DEF NextFrame
        <4>2. t \in DOMAIN backing' /\ backing'[t] = next_addr
          BY <4>1 DEF Put
        <4> QED
          BY <4>2 DEF Frames
      <3> QED
        BY <1>6, <3>1, <3>2 DEF NextFrame
    <2>2. CASE i = region_idx /\ next_addr <= f /\ f < next_addr + FrameSize
      <3>1. f = next_addr
        BY <1>0, <2>2, SameBoundary DEF HeapInv, TypeOK, CursorAligned, WholeFrame
      <3> QED
        BY <2>1, <3>1
    <2> QED
      BY <1>0, <1>3, <1>6, <2>2, SizeAssumption DEF NextFrame, TypeOK
  <1>7. CASE NextRegion
    BY <1>0, <1>2, <1>3, <1>7, SizeAssumption DEF NextRegion, Following, FrameFits, WholeFrame, TypeOK
  <1>8. CASE AdvanceEnd
    BY <1>0, <1>3, <1>8 DEF AdvanceEnd, iterVars, TypeOK
  <1>9. CASE NextNone \/ RequestFrame \/ RequestTable \/ MapPage \/ InitHeap \/ UNCHANGED vars
    BY <1>3, <1>9 DEF NextNone, RequestFrame, RequestTable, MapPage, InitHeap, vars, iterVars
  <1> QED
    BY <1>4, <1>5, <1>6, <1>7, <1>8, <1>9 DEF Next

(***************************************************************************)
(* With a sorted memory map boot panics for want of memory only when every *)
(* whole frame of every usable region is in use: the iterator overlooks    *)
(* none, at the ends of regions and in regions with unaligned bounds too,  *)
(* and neither loop drops one it was given.                                *)
(***************************************************************************)
THEOREM NoFrameWasted == Spec => []PanicOnlyWhenExhausted
  <1>1. Init => TakenInv
    <2>1. Init => TypeOK
      BY HeapInit DEF HeapInv
    <2> QED
      BY <2>1 DEF Init, TakenInv, NoneDropped, CursorNotPast, NoneLeftBehind, TypeOK
  <1>2. HeapInv /\ HeapInv' /\ TakenInv /\ [Next]_vars => TakenInv'
    <2> SUFFICES ASSUME HeapInv, HeapInv', TakenInv, [Next]_vars PROVE TakenInv'
      OBVIOUS
    <2>1. NoneDropped'
      BY DropStep DEF TakenInv
    <2>2. Sorted' => Sorted
      BY DEF Sorted, Next, vars, AdvanceSkip, AdvanceStop, AdvanceEnd, NextFrame, NextRegion, NextNone,
             RequestFrame, RequestTable, MapPage, InitHeap
    <2>3. Sorted => CursorNotPast' /\ NoneLeftBehind'
      BY NotPastStep, BehindStep DEF TakenInv
    <2> QED
      BY <2>1, <2>2, <2>3 DEF TakenInv
  <1>3. HeapInv /\ TakenInv => PanicOnlyWhenExhausted
    <2> SUFFICES ASSUME HeapInv, TakenInv, phase = "panic", Sorted, NEW f \in WholeFrames
                 PROVE  f \in Frames
      BY DEF PanicOnlyWhenExhausted
    <2>1. PICK i \in 1 .. Len(regions) :
                 /\ f \in regions[i].start .. regions[i].end - FrameSize
                 /\ regions[i].usable /\ f % FrameSize = 0
      BY DEF WholeFrames
    <2>2. regions[i] \in Region
      BY ElementOfSeq DEF HeapInv, TypeOK
    <2>3. f \in Nat /\ WholeFrame(i, f)
      BY <2>1, <2>2, SizeAssumption DEF WholeFrame, Region
    <2>4. i < region_idx
      BY DEF TakenInv, NoneDropped, HeapInv, TypeOK
    <2> QED
      BY <2>3, <2>4 DEF TakenInv, NoneLeftBehind
  <1> QED
    BY <1>1, <1>2, <1>3, HeapInvariant, PTL DEF Spec
=============================================================================
