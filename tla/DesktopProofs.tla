--------------------------- MODULE DesktopProofs ---------------------------
(***************************************************************************)
(* The boot sequence and the two display tasks: what the memory map task   *)
(* is given and why boot may panic, for every machine; the freshness of    *)
(* the counter's display, for every width of the count and every bound on  *)
(* the ticks between two turns below it; and the rows of the memory map,   *)
(* for every region of 64-bit bounds.                                      *)
(***************************************************************************)
EXTENDS Desktop, SequenceTheorems, WellFoundedInduction, TLAPS

\* A number below the modulus is its own remainder, and so is one modulus less.
LEMMA Remainder ==
  ASSUME NEW a \in 0 .. (Modulus - 1), NEW n \in Int, n = a \/ n = a - Modulus \/ n = a + Modulus, Modulus \in Nat
  PROVE  n % Modulus = a
  BY SMT

\* What the wrapping subtraction computes is the age of the display.
LEMMA AgeIsDifference ==
  ASSUME CounterInv
  PROVE  wrapping_sub(TICK_COUNT, last_displayed) = age
  <1>1. age \in 0 .. (Modulus - 1)
    BY GapAssumption DEF CounterInv
  <1>2. /\ TICK_COUNT - last_displayed \in Int
        /\ \/ TICK_COUNT - last_displayed = age
           \/ TICK_COUNT - last_displayed = age - Modulus
    BY GapAssumption DEF CounterInv
  <1> QED
    BY <1>1, <1>2, Remainder, GapAssumption DEF wrapping_sub

\* The invariant holds when the task starts, at tick 0.
LEMMA CounterInit == Init => CounterInv
  BY GapAssumption DEF Init, CounterInv

\* A tick and a turn of the task preserve it, across the wrap.
LEMMA CounterStep == CounterInv /\ [Next]_vars => CounterInv'
  <1> SUFFICES ASSUME CounterInv, [Next]_vars PROVE CounterInv'
    OBVIOUS
  <1> USE GapAssumption
  <1>1. CASE timer_handler
    <2>1. (TICK_COUNT + 1) % Modulus = IF TICK_COUNT = Modulus - 1 THEN 0 ELSE TICK_COUNT + 1
      <3>1. CASE TICK_COUNT = Modulus - 1
        BY <3>1, Remainder DEF CounterInv
      <3>2. CASE TICK_COUNT # Modulus - 1
        BY <3>2, Remainder DEF CounterInv
      <3> QED
        BY <3>1, <3>2
    <2>2. age' = age + 1
      BY <1>1 DEF timer_handler, MaxAge, CounterInv
    <2> QED
      BY <1>1, <2>1, <2>2 DEF timer_handler, CounterInv
  <1>2. CASE Turn
    <2>1. wrapping_sub(TICK_COUNT, last_displayed) = age
      BY AgeIsDifference
    <2> QED
      BY <1>2, <2>1 DEF Turn, CounterInv
  <1>3. CASE UNCHANGED vars
    BY <1>3 DEF vars, CounterInv
  <1> QED
    BY <1>1, <1>2, <1>3 DEF Next

(***************************************************************************)
(* However long the other tasks keep the CPU, as long as the count does    *)
(* not run past itself, and however often it wraps, the window is at most  *)
(* 15 ticks behind the last turn of the counter task.                      *)
(***************************************************************************)
THEOREM CounterStaysFresh == Spec => []DisplayFresh
  <1>1. CounterInv => DisplayFresh
    BY AgeIsDifference DEF DisplayFresh, CounterInv
  <1> QED
    BY <1>1, CounterInit, CounterStep, PTL DEF Spec

\* A step of the composition is a step of the counter or does not concern it.
LEMMA CounterInDesktop == [DesktopNext]_allVars => [Next]_vars
  BY DEF DesktopNext, BootStep, MemmapStep, Tick, CounterTurn, Next, allVars

(***************************************************************************)
(* Booting and drawing the memory map first leave the counter's display as *)
(* fresh as it is alone, for every machine and every width of the count.   *)
(***************************************************************************)
THEOREM DesktopStaysFresh == DesktopSpec => []DisplayFresh
  <1>1. DesktopInit => CounterInv
    BY CounterInit DEF DesktopInit
  <1>2. CounterInv /\ [DesktopNext]_allVars => CounterInv'
    BY CounterInDesktop, CounterStep
  <1>3. CounterInv => DisplayFresh
    BY AgeIsDifference DEF DisplayFresh, CounterInv
  <1> QED
    BY <1>1, <1>2, <1>3, PTL DEF DesktopSpec
-----------------------------------------------------------------------------
\* Min of two numbers, as kernel_main and set_memory_regions use it.
LEMMA MinOfTwo ==
  ASSUME NEW a \in Int, NEW b \in Int
  PROVE  Min({a, b}) = IF a <= b THEN a ELSE b
  BY DEF Min

\* The number of regions that are taken from the bootloader's map.
Taken == Min({Len(machine.map), 30})

\* Inductive: how far the list of regions is, at every position in kernel_main.
ListInv ==
  /\ machine \in Machines
  /\ step \in 1 .. 14
  /\ status = "booting" => step \in 1 .. 13
  /\ step < 4 => regions = <<>>
  /\ step = 4 => \E n \in 0 .. Taken : regions = Listed(n)
  /\ step = 5 => regions = Listed(Taken)
  /\ step = 6 => regions = Append(Listed(Taken), HeapInfo)
  /\ step > 6 => MEM_REGIONS = Append(Listed(Taken), HeapInfo)

\* What kernel_main is at, by its position.
LEMMA Positions ==
  ASSUME ListInv
  PROVE  /\ At("regions") => step = 4
         /\ At("heap_region") => step = 5
         /\ At("set_regions") => step = 6
         /\ At("Shell") => step = 7
         /\ step \in 4 .. 6 => \A s \in {"bg_cache", "back_buf", "vectors", "Shell", "MemoryMap",
                                         "Counter", "composite", "stack"} : ~At(s)
  <1>1. status = "booting" =>
          step \in {1, 2, 3, 4, 5, 6, 7, 8, 9, 10, 11, 12, 13}
    BY DEF ListInv
  <1>2. /\ kernel_main[1] = "bg_cache" /\ kernel_main[2] = "back_buf" /\ kernel_main[3] = "vectors"
        /\ kernel_main[4] = "regions" /\ kernel_main[5] = "heap_region"
        /\ kernel_main[6] = "set_regions" /\ kernel_main[7] = "Shell"
        /\ kernel_main[8] = "MemoryMap" /\ kernel_main[9] = "Counter"
        /\ kernel_main[10] = "composite" /\ kernel_main[11] = "stack"
        /\ kernel_main[12] = "stack" /\ kernel_main[13] = "stack"
    BY DEF kernel_main
  <1>3. /\ At("regions") => step = 4
        /\ At("heap_region") => step = 5
        /\ At("set_regions") => step = 6
        /\ At("Shell") => step = 7
    BY <1>1, <1>2 DEF At
  <1>4. step \in {4, 5, 6} => \A s \in {"bg_cache", "back_buf", "vectors", "Shell", "MemoryMap",
                                         "Counter", "composite", "stack"} : ~At(s)
    BY <1>1, <1>2 DEF At
  <1>5. step \in 4 .. 6 => step \in {4, 5, 6}
    OBVIOUS
  <1> QED
    BY <1>3, <1>4, <1>5

\* The map is a sequence, and at most 30 of its regions are taken.
LEMMA TakenType ==
  ASSUME machine \in Machines
  PROVE  Taken \in 0 .. 30
  <1>1. machine.map \in Seq(BootRegion)
    BY MachinesAssumption
  <1>2. PICK n \in Nat : n = Len(machine.map)
    BY <1>1
  <1>3. Min({n, 30}) = IF n <= 30 THEN n ELSE 30
    BY MinOfTwo
  <1>4. Taken = IF n <= 30 THEN n ELSE 30
    BY <1>2, <1>3 DEF Taken
  <1>5. Taken \in 0 .. 30
    BY <1>4
  <1> QED
    BY <1>5

\* The list of n regions is a sequence of length n, and one longer with one more.
LEMMA ListedLen ==
  ASSUME NEW n \in Nat
  PROVE  Len(Listed(n)) = n /\ Append(Listed(n), Info(machine.map[n + 1])) = Listed(n + 1)
  <1> DEFINE E == {Info(machine.map[k]) : k \in 1 .. n}
  <1>1. Listed(n) \in Seq(E) /\ Len(Listed(n)) = n
    BY DEF Listed
  <1>2. /\ DOMAIN Append(Listed(n), Info(machine.map[n + 1])) = 1 .. n + 1
        /\ \A k \in 1 .. n + 1 : Append(Listed(n), Info(machine.map[n + 1]))[k] = Info(machine.map[k])
    BY <1>1 DEF Listed
  <1> QED
    BY <1>1, <1>2 DEF Listed

\* Every step of kernel_main keeps the list as far as it should be.
LEMMA ListStep == ListInv /\ [BootNext]_bootVars => ListInv'
  <1> SUFFICES ASSUME ListInv, [BootNext]_bootVars PROVE ListInv'
    OBVIOUS
  <1>0. machine \in Machines /\ step \in 1 .. 14 /\ (status = "booting" => step \in 1 .. 13)
    BY DEF ListInv
  <1>a. ASSUME machine' = machine PROVE Taken' = Taken /\ \A n : Listed(n)' = Listed(n)
    BY <1>a DEF Taken, Listed
  <1>b. ASSUME Advance, status = "booting"
        PROVE  step' = step + 1 /\ step' \in 1 .. 14 /\ (status' = "booting" => step' \in 1 .. 13)
    BY <1>0, <1>b DEF Advance, kernel_main
  <1>1. CASE Allocate
    <2>1. PICK s \in {"bg_cache", "back_buf", "vectors", "Shell", "MemoryMap", "Counter",
                      "composite", "stack"} :
            /\ At(s)
            /\ IF Panics(s)
                 THEN status' = "panic" /\ UNCHANGED <<step, free>>
                 ELSE free' = free - Needs(s) /\ Advance
      BY <1>1 DEF Allocate
    <2>2. machine' = machine /\ regions' = regions /\ MEM_REGIONS' = MEM_REGIONS
      BY <1>1 DEF Allocate
    <2>3. status = "booting" /\ step \notin 4 .. 6
      BY <2>1, Positions DEF At
    <2>4. CASE status' = "panic" /\ step' = step
      BY <1>a, <2>2, <2>4 DEF ListInv
    <2>5. CASE Advance
      <3>1. step' = 4 => \E n \in 0 .. Taken : regions = Listed(n)
        <4> SUFFICES ASSUME step = 3 PROVE regions = Listed(0) /\ 0 \in 0 .. Taken
          BY <1>0, <1>b, <2>3, <2>5
        <4>1. regions = <<>>
          BY DEF ListInv
        <4>2. Listed(0) = <<>>
          BY DEF Listed
        <4>3. 0 \in 0 .. Taken
          BY <1>0, TakenType
        <4> QED
          BY <4>1, <4>2, <4>3
      <3>2. step' # 5 /\ step' # 6 /\ (step' > 6 => step > 6) /\ (step' < 4 => step < 4)
        BY <1>0, <1>b, <2>3, <2>5
      <3> QED
        BY <1>0, <1>a, <1>b, <2>2, <2>3, <2>5, <3>1, <3>2 DEF ListInv
    <2> QED
      BY <2>1, <2>4, <2>5
  <1>2. CASE Collect
    <2>1. step = 4 /\ status = "booting" /\ machine' = machine /\ MEM_REGIONS' = MEM_REGIONS
      BY <1>2, Positions DEF Collect, At
    <2>2. PICK n \in 0 .. Taken : regions = Listed(n)
      BY <2>1 DEF ListInv
    <2>3. Taken \in 0 .. 30 /\ n \in Nat /\ Len(regions) = n
      BY <1>0, <2>2, TakenType, ListedLen
    <2>4. CASE n < Taken
      <3>1. /\ regions' = Append(regions, Info(machine.map[n + 1]))
            /\ UNCHANGED <<step, status>>
        BY <1>2, <2>3, <2>4 DEF Collect, Taken, CollectLimit
      <3>a. Append(Listed(n), Info(machine.map[n + 1])) = Listed(n + 1)
        BY <2>3, ListedLen
      <3>b. n + 1 \in 0 .. Taken
        BY <2>3, <2>4
      <3>2. regions' = Listed(n + 1) /\ n + 1 \in 0 .. Taken
        BY <2>2, <3>1, <3>a, <3>b
      <3> QED
        BY <1>0, <1>a, <2>1, <3>1, <3>2 DEF ListInv
    <2>5. CASE ~(n < Taken)
      <3>1. Advance /\ regions' = regions
        BY <1>2, <2>3, <2>5 DEF Collect, Taken, CollectLimit
      <3>2. regions = Listed(Taken)
        BY <2>2, <2>3, <2>5
      <3> QED
        BY <1>0, <1>a, <1>b, <2>1, <3>1, <3>2 DEF ListInv
    <2> QED
      BY <2>4, <2>5
  <1>3. CASE AddHeap
    <2>1. step = 5 /\ status = "booting" /\ machine' = machine /\ MEM_REGIONS' = MEM_REGIONS /\ Advance
      BY <1>3, Positions DEF AddHeap, At
    <2>2. regions = Listed(Taken) /\ Taken \in 0 .. 30
      BY <1>0, <2>1, TakenType DEF ListInv
    <2>3. Len(regions) = Taken /\ Taken < 32
      BY <2>2, ListedLen
    <2>4. regions' = Append(Listed(Taken), HeapInfo)
      BY <1>3, <2>2, <2>3 DEF AddHeap
    <2> QED
      BY <1>a, <1>b, <2>1, <2>4 DEF ListInv, HeapInfo
  <1>4. CASE set_memory_regions
    <2>1. step = 6 /\ status = "booting" /\ machine' = machine /\ regions' = regions /\ Advance
      BY <1>4, Positions DEF set_memory_regions, At
    <2>2. regions = Append(Listed(Taken), HeapInfo) /\ Taken \in 0 .. 30
      BY <1>0, <2>1, TakenType DEF ListInv
    <2> DEFINE E == {Info(machine.map[k]) : k \in 1 .. Taken} \cup {HeapInfo}
    <2>c. Taken \in Nat
      BY <2>2
    <2>a. Len(Listed(Taken)) = Taken
      BY <2>c, ListedLen
    <2>b. \A k \in 1 .. Taken : Info(machine.map[k]) \in E
      OBVIOUS
    <2>3. Listed(Taken) \in Seq(E) /\ Len(Listed(Taken)) = Taken
      <3> HIDE DEF E
      <3> QED
        BY <2>2, <2>a, <2>b DEF Listed
    <2>4. HeapInfo \in E
      OBVIOUS
    <2> HIDE DEF E
    <2>5. regions \in Seq(E) /\ Len(regions) = Taken + 1
      BY <2>2, <2>3, <2>4
    <2>6. Min({Taken + 1, MAX_REGIONS}) = Taken + 1
      BY <2>2, MinOfTwo DEF MAX_REGIONS
    <2>7. MEM_REGIONS' = SubSeq(regions, 1, Len(regions))
      BY <1>4, <2>5, <2>6 DEF set_memory_regions
    <2>8. MEM_REGIONS' = regions
      BY <2>5, <2>7
    <2> QED
      BY <1>0, <1>a, <1>b, <2>1, <2>2, <2>8 DEF ListInv, HeapInfo
  <1>5. CASE UNCHANGED bootVars
    BY <1>5, <1>a DEF bootVars, ListInv
  <1> QED
    BY <1>1, <1>2, <1>3, <1>4, <1>5 DEF BootNext

\* A step of the composition is a step of kernel_main or does not concern it.
LEMMA BootInDesktop == [DesktopNext]_allVars => [BootNext]_bootVars
  BY DEF DesktopNext, BootStep, MemmapStep, Tick, CounterTurn, allVars

(***************************************************************************)
(* Whatever memory map the bootloader reports, and however long it is, the *)
(* memory map task is given its first regions in order, translated, and    *)
(* the heap after them: the list has room for it on every machine.         *)
(***************************************************************************)
THEOREM HeapListedOnEveryMachine == DesktopSpec => []HeapAlwaysListed
  <1>1. DesktopInit => ListInv
    BY DEF DesktopInit, BootInit, ListInv
  <1>2. ListInv /\ [DesktopNext]_allVars => ListInv'
    BY BootInDesktop, ListStep
  <1>3. ListInv => HeapAlwaysListed
    <2> SUFFICES ASSUME ListInv, At("Shell") PROVE MEM_REGIONS = Listed(Taken) \o <<HeapInfo>>
      BY DEF HeapAlwaysListed, Taken
    <2>1. MEM_REGIONS = Append(Listed(Taken), HeapInfo)
      BY Positions DEF ListInv
    <2>2. Taken \in Nat
      <3>1. machine \in Machines
        BY DEF ListInv
      <3> QED
        BY <3>1, TakenType
    <2> DEFINE E == {Info(machine.map[k]) : k \in 1 .. Taken} \cup {HeapInfo}
    <2>3. HeapInfo \in E /\ \A k \in 1 .. Taken : Info(machine.map[k]) \in E
      OBVIOUS
    <2> HIDE DEF E
    <2>4. Listed(Taken) \in Seq(E)
      BY <2>2, <2>3 DEF Listed
    <2> QED
      BY <2>1, <2>3, <2>4, AppendIsConcat
  <1> QED
    BY <1>1, <1>2, <1>3, PTL DEF DesktopSpec
-----------------------------------------------------------------------------
\* What kernel_main has allocated before position k.
Spent(k) ==
  (IF k > 1 THEN Needs("bg_cache") ELSE 0) + (IF k > 2 THEN Needs("back_buf") ELSE 0)
  + (IF k > 3 THEN Needs("vectors") ELSE 0) + (IF k > 7 THEN Needs("Shell") ELSE 0)
  + (IF k > 8 THEN Needs("MemoryMap") ELSE 0) + (IF k > 9 THEN Needs("Counter") ELSE 0)
  + (IF k > 11 THEN Needs("stack") ELSE 0) + (IF k > 12 THEN Needs("stack") ELSE 0)
  + (IF k > 13 THEN Needs("stack") ELSE 0)

\* Inductive: the heap holds what is left of it, and a panic has its reason.
HeapSpent ==
  /\ machine \in Machines
  /\ step \in 1 .. 14
  /\ status = "booting" => step \in 1 .. 13 /\ free = HEAP_SIZE - Spent(step)
  /\ status = "panic" => PanicExplained

\* The sizes are positive numbers.
LEMMA ScreenType ==
  ASSUME machine \in Machines, screen # NoScreen
  PROVE  /\ screen.width \in Nat \ {0} /\ screen.height \in Nat \ {0} /\ screen.bpp \in Nat \ {0}
         /\ ScreenBytes \in Nat
  <1>1. screen.width \in Nat \ {0} /\ screen.height \in Nat \ {0} /\ screen.bpp \in Nat \ {0}
    BY MachinesAssumption DEF screen
  <1> DEFINE w == screen.width
             h == screen.height
             b == screen.bpp
  <1>2. w \in Nat /\ h \in Nat /\ b \in Nat
    BY <1>1
  <1>3. w * h * b \in Nat
    <2> HIDE DEF w, h, b
    <2> QED
      BY <1>2
  <1> QED
    BY <1>1, <1>3 DEF ScreenBytes

\* What each step allocates, on a machine with a screen.
LEMMA NeedsWithScreen ==
  ASSUME machine \in Machines, screen # NoScreen
  PROVE  /\ Needs("bg_cache") = ScreenBytes /\ Needs("back_buf") = ScreenBytes
         /\ Needs("Shell") = 218400 * screen.bpp
         /\ Needs("MemoryMap") = 176800 * screen.bpp
         /\ Needs("Counter") = 48000 * screen.bpp
         /\ Needs("composite") = 0 /\ Needs("vectors") = 8192 /\ Needs("stack") = 65536
  <1>1. screen.bpp \in Nat
    BY ScreenType
  <1>2. /\ Size("Shell")[1] = 520 /\ Size("Shell")[2] = 420
        /\ Size("MemoryMap")[1] = 340 /\ Size("MemoryMap")[2] = 520
        /\ Size("Counter")[1] = 240 /\ Size("Counter")[2] = 200
    BY DEF Size
  <1>3. /\ Needs("bg_cache") = ScreenBytes /\ Needs("back_buf") = ScreenBytes
        /\ Needs("Shell") = Size("Shell")[1] * Size("Shell")[2] * screen.bpp
        /\ Needs("MemoryMap") = Size("MemoryMap")[1] * Size("MemoryMap")[2] * screen.bpp
        /\ Needs("Counter") = Size("Counter")[1] * Size("Counter")[2] * screen.bpp
        /\ Needs("composite") = 0 /\ Needs("vectors") = Vectors /\ Needs("stack") = TASK_STACK_SIZE
    BY DEF Needs
  <1> QED
    BY <1>1, <1>2, <1>3, SMT DEF Vectors, TASK_STACK_SIZE

\* And on one without.
LEMMA NeedsWithout ==
  ASSUME screen = NoScreen
  PROVE  /\ Needs("bg_cache") = 0 /\ Needs("back_buf") = 0 /\ Needs("Shell") = 0
         /\ Needs("MemoryMap") = 0 /\ Needs("Counter") = 0 /\ Needs("composite") = 0
         /\ Needs("vectors") = 8192 /\ Needs("stack") = 65536
  <1>1. /\ Needs("bg_cache") = 0 /\ Needs("back_buf") = 0 /\ Needs("Shell") = 0
        /\ Needs("MemoryMap") = 0 /\ Needs("Counter") = 0 /\ Needs("composite") = 0
        /\ Needs("vectors") = Vectors /\ Needs("stack") = TASK_STACK_SIZE
    BY DEF Needs
  <1> QED
    BY <1>1, SMT DEF Vectors, TASK_STACK_SIZE

\* Each step needs some number of bytes.
LEMMA NeedsType ==
  ASSUME machine \in Machines,
         NEW s \in {"bg_cache", "back_buf", "vectors", "Shell", "MemoryMap", "Counter", "composite", "stack"}
  PROVE  Needs(s) \in Nat
  <1>1. CASE screen = NoScreen
    BY <1>1, NeedsWithout, SMT
  <1>2. CASE screen # NoScreen
    BY <1>2, NeedsWithScreen, ScreenType, SMT
  <1> QED
    BY <1>1, <1>2

\* All a machine with the designed screen asks for fits in the heap.
LEMMA DesignedFits ==
  ASSUME machine \in Machines, screen # NoScreen, Designed
  PROVE  AllNeeds <= 8388608
  <1> DEFINE w == screen.width
             h == screen.height
             b == screen.bpp
  <1>1. w \in Nat /\ h \in Nat /\ b \in Nat /\ w <= 1024 /\ h <= 768 /\ b <= 4
    BY ScreenType DEF Designed
  <1>2. w * h * b <= 3145728 /\ w * h * b \in Nat
    <2> HIDE DEF w, h, b
    <2>1. w * h <= 1024 * h /\ w * h \in Nat
      BY <1>1
    <2>2. w * h <= 786432
      BY <1>1, <2>1
    <2>3. PICK a \in Nat : a = w * h
      BY <2>1
    <2>4. a * b <= a * 4 /\ a * b \in Nat
      BY <1>1
    <2>5. a * b <= 3145728
      BY <2>2, <2>3, <2>4
    <2> QED
      BY <2>3, <2>4, <2>5
  <1>3. ScreenBytes <= 3145728 /\ ScreenBytes \in Nat
    BY <1>2, SMT DEF ScreenBytes
  <1> QED
    BY <1>1, <1>3, SMT DEF AllNeeds, Vectors

\* Each position adds what its step needs; the steps about the list need nothing.
LEMMA SpentNext ==
  ASSUME machine \in Machines, NEW k \in 1 .. 13
  PROVE  /\ Spent(k) \in Nat /\ Spent(k + 1) \in Nat /\ Spent(k + 1) <= Spent(14) /\ Spent(1) = 0
         /\ k \in 4 .. 6 => Spent(k + 1) = Spent(k)
         /\ k \notin 4 .. 6 => Spent(k + 1) = Spent(k) + Needs(kernel_main[k])
  <1>1. /\ Needs("bg_cache") \in Nat /\ Needs("back_buf") \in Nat /\ Needs("vectors") \in Nat
        /\ Needs("Shell") \in Nat /\ Needs("MemoryMap") \in Nat /\ Needs("Counter") \in Nat
        /\ Needs("stack") \in Nat
    BY NeedsType
  <1>2. Needs("composite") = 0
    BY NeedsWithout, NeedsWithScreen, SMT
  <1>3. k \in {1, 2, 3, 4, 5, 6, 7, 8, 9, 10, 11, 12, 13}
    OBVIOUS
  <1>4. /\ kernel_main[1] = "bg_cache" /\ kernel_main[2] = "back_buf" /\ kernel_main[3] = "vectors"
        /\ kernel_main[7] = "Shell" /\ kernel_main[8] = "MemoryMap" /\ kernel_main[9] = "Counter"
        /\ kernel_main[10] = "composite" /\ kernel_main[11] = "stack"
        /\ kernel_main[12] = "stack" /\ kernel_main[13] = "stack"
    BY DEF kernel_main
  <1>5. /\ Spent(k) \in Nat /\ Spent(k + 1) \in Nat /\ Spent(k + 1) <= Spent(14) /\ Spent(1) = 0
        /\ k \in 4 .. 6 => Spent(k + 1) = Spent(k)
    BY <1>1 DEF Spent
  <1>6. k \notin 4 .. 6 => Spent(k + 1) = Spent(k) + Needs(kernel_main[k])
    BY <1>1, <1>2, <1>3, <1>4 DEF Spent
  <1> QED
    BY <1>5, <1>6

\* If a step finds too little left, all of them together ask for too much.
LEMMA TooMuch ==
  ASSUME machine \in Machines, Spent(14) > 8388608
  PROVE  PanicExplained
  <1>1. screen # NoScreen
    BY NeedsWithout, SMT DEF Spent
  <1>2. AllNeeds = Spent(14)
    <2>1. screen.bpp \in Nat /\ ScreenBytes \in Nat
      BY <1>1, ScreenType
    <2> QED
      BY <1>1, <2>1, NeedsWithScreen, SMT DEF Spent, AllNeeds, Vectors
  <1> QED
    <2>1. PICK n \in Nat : n = AllNeeds
      BY <1>1, <1>2, SpentNext
    <2>2. n > 8388608
      BY <1>2, <2>1, SMT
    <2>3. ~Designed
      BY <1>1, <2>1, <2>2, DesignedFits, SMT
    <2> QED
      BY <2>1, <2>2, <2>3, SMT DEF PanicExplained

\* The composite panics only if there is padding between the rows.
LEMMA Padding ==
  ASSUME machine \in Machines, ~SizesAgree
  PROVE  PanicExplained
  <1>1. screen # NoScreen /\ screen.stride # screen.width
    BY DEF SizesAgree, ScreenBytes
  <1> QED
    BY <1>1 DEF PanicExplained, Designed

\* Every step of kernel_main accounts for what it takes.
LEMMA SpentStep == HeapSpent /\ [BootNext]_bootVars => HeapSpent'
  <1> SUFFICES ASSUME HeapSpent, [BootNext]_bootVars PROVE HeapSpent'
    OBVIOUS
  <1>0. /\ machine \in Machines /\ step \in 1 .. 14
        /\ status = "booting" => step \in 1 .. 13 /\ free = HEAP_SIZE - Spent(step)
    BY DEF HeapSpent
  <1>a. ASSUME machine' = machine
        PROVE  PanicExplained' = PanicExplained /\ Spent(step)' = Spent(step')
    BY <1>a DEF PanicExplained, Designed, AllNeeds, ScreenBytes, screen, Spent, Needs
  <1>b. ASSUME Advance, status = "booting"
        PROVE  step' = step + 1 /\ step' \in 1 .. 14 /\ (status' = "booting" => step' \in 1 .. 13)
               /\ status' # "panic"
    BY <1>0, <1>b DEF Advance, kernel_main
  <1>1. CASE Allocate
    <2>1. PICK s \in {"bg_cache", "back_buf", "vectors", "Shell", "MemoryMap", "Counter",
                      "composite", "stack"} :
            /\ At(s)
            /\ IF Panics(s)
                 THEN status' = "panic" /\ UNCHANGED <<step, free>>
                 ELSE free' = free - Needs(s) /\ Advance
      BY <1>1 DEF Allocate
    <2>2. machine' = machine /\ status = "booting" /\ kernel_main[step] = s
      BY <1>1, <2>1 DEF Allocate, At
    <2>3. step \in 1 .. 13 /\ free = HEAP_SIZE - Spent(step)
      BY <1>0, <2>2
    <2>4. step \notin 4 .. 6
      <3>1. kernel_main[4] = "regions" /\ kernel_main[5] = "heap_region" /\ kernel_main[6] = "set_regions"
        BY DEF kernel_main
      <3>2. step \in 4 .. 6 => step = 4 \/ step = 5 \/ step = 6
        BY <2>3
      <3> QED
        BY <2>2, <3>1, <3>2
    <2>5. /\ Spent(step) \in Nat /\ Spent(step + 1) \in Nat /\ Spent(step + 1) <= Spent(14)
          /\ Spent(step + 1) = Spent(step) + Needs(s) /\ Needs(s) \in Nat
      BY <1>0, <2>2, <2>3, <2>4, SpentNext, NeedsType
    <2>6. CASE Panics(s)
      <3>1. CASE free < Needs(s)
        <4>1. Spent(14) > 8388608
          <5>1. Spent(14) \in Nat
            BY <1>0, SpentNext
          <5> QED
            BY <2>3, <2>5, <3>1, <5>1, SMT DEF HEAP_SIZE
        <4> QED
          BY <1>0, <1>a, <2>1, <2>2, <2>6, <4>1, TooMuch, SMT DEF HeapSpent
      <3>2. CASE ~SizesAgree
        BY <1>0, <1>a, <2>1, <2>2, <2>6, <3>2, Padding DEF HeapSpent
      <3> QED
        BY <2>6, <3>1, <3>2 DEF Panics
    <2>7. CASE ~Panics(s)
      <3>1. free' = free - Needs(s) /\ Advance
        BY <2>1, <2>7
      <3>2. free' = HEAP_SIZE - Spent(step + 1)
        BY <2>3, <2>5, <3>1 DEF HEAP_SIZE
      <3>3. Spent(step)' = Spent(step + 1)
        BY <1>a, <1>b, <2>2, <3>1
      <3> QED
        BY <1>0, <1>b, <2>2, <3>1, <3>2, <3>3 DEF HeapSpent
    <2> QED
      BY <2>6, <2>7
  <1>2. CASE Collect \/ AddHeap \/ set_memory_regions
    <2>1. machine' = machine /\ free' = free /\ status = "booting"
      BY <1>2 DEF Collect, AddHeap, set_memory_regions, At
    <2>2. step \in 4 .. 6
      <3>1. kernel_main[step] \in {"regions", "heap_region", "set_regions"} /\ step \in 1 .. 13
        BY <1>0, <1>2, <2>1 DEF Collect, AddHeap, set_memory_regions, At
      <3> QED
        BY <3>1 DEF kernel_main
    <2>3. CASE Advance
      <3>1. Spent(step + 1) = Spent(step)
        BY <1>0, <2>2, SpentNext
      <3>2. Spent(step)' = Spent(step)
        BY <1>a, <1>b, <2>1, <2>3, <3>1
      <3> QED
        BY <1>0, <1>b, <2>1, <2>3, <3>2 DEF HeapSpent
    <2>4. CASE UNCHANGED <<step, status>>
      <3>1. Spent(step)' = Spent(step)
        BY <1>a, <2>1, <2>4
      <3> QED
        BY <1>0, <2>1, <2>4, <3>1 DEF HeapSpent
    <2> QED
      BY <1>2, <2>3, <2>4 DEF Collect, AddHeap, set_memory_regions
  <1>3. CASE UNCHANGED bootVars
    <2>1. Spent(step)' = Spent(step) /\ PanicExplained' = PanicExplained
      BY <1>3, <1>a DEF bootVars
    <2> QED
      BY <1>3, <2>1 DEF bootVars, HeapSpent
  <1> QED
    BY <1>1, <1>2, <1>3 DEF BootNext

(***************************************************************************)
(* Boot panics only on a screen other than the ones it is written for, and *)
(* for one of two reasons: padding between the rows, or buffers, windows   *)
(* and stacks that ask for more than 8 MiB.  No order of the allocations   *)
(* and no screen has another (WindowManager::new, create_window, spawn).   *)
(***************************************************************************)
THEOREM BootPanicsExplained == DesktopSpec => [](status = "panic" => PanicExplained)
  <1>1. DesktopInit => HeapSpent
    <2> SUFFICES ASSUME DesktopInit PROVE HeapSpent
      OBVIOUS
    <2>1. machine \in Machines /\ step = 1 /\ free = HEAP_SIZE /\ status = "booting"
      BY DEF DesktopInit, BootInit
    <2>2. Spent(1) = 0
      BY <2>1, SpentNext
    <2> QED
      BY <2>1, <2>2, SMT DEF HeapSpent, HEAP_SIZE
  <1>2. HeapSpent /\ [DesktopNext]_allVars => HeapSpent'
    BY BootInDesktop, SpentStep
  <1>3. HeapSpent => (status = "panic" => PanicExplained)
    BY DEF HeapSpent
  <1> QED
    BY <1>1, <1>2, <1>3, PTL DEF DesktopSpec
-----------------------------------------------------------------------------
(***************************************************************************)
(* The texts of RegionText.                                                *)
(***************************************************************************)

\* A set of numbers has a least one.
LEMMA LeastOfNumbers ==
  ASSUME NEW T \in SUBSET Nat, T # {}
  PROVE  \E k \in T : \A j \in T : k <= j
  <1>1. PICK k \in T : \A j \in T : ~(<<j, k>> \in OpToRel(<, Nat))
    BY NatLessThanWellFounded, WFMin
  <1>2. ASSUME NEW j \in T PROVE k <= j
    <2>1. ~(j < k)
      BY <1>1 DEF OpToRel
    <2> QED
      BY <2>1
  <1> QED
    BY <1>2

\* Induction up to N, over a set.
LEMMA UpTo ==
  ASSUME NEW N \in Nat, NEW T, 0 \in T, \A i \in 1 .. N : i - 1 \in T => i \in T
  PROVE  \A i \in 0 .. N : i \in T
  <1> DEFINE Bad == {i \in 0 .. N : i \notin T}
  <1>1. SUFFICES ASSUME Bad # {} PROVE FALSE
    OBVIOUS
  <1>2. PICK k \in Bad : \A j \in Bad : k <= j
    <2>1. Bad \in SUBSET Nat
      OBVIOUS
    <2> HIDE DEF Bad
    <2> QED
      BY <1>1, <2>1, LeastOfNumbers
  <1>3. k \in 1 .. N /\ k - 1 \in 0 .. N /\ ~(k <= k - 1)
    OBVIOUS
  <1>4. k - 1 \in T
    BY <1>2, <1>3
  <1> QED
    BY <1>3, <1>4

\* A loop that changes a value in each of N rounds.
Loop(f, N, D, v, round) ==
  /\ f \in [0 .. N -> D]
  /\ f[0] = v
  /\ \A i \in 1 .. N : f[i] = round[i][f[i - 1]]

\* It has a value after each of them.
LEMMA LoopExists ==
  ASSUME NEW N \in Nat, NEW D, NEW v \in D, NEW round \in [1 .. N -> [D -> D]]
  PROVE  \E f : Loop(f, N, D, v, round)
  <1> DEFINE T == {m \in 0 .. N : \E f : Loop(f, m, D, v, round)}
  <1>1. 0 \in T
    <2>1. PICK f : f = [i \in 0 .. 0 |-> v]
      OBVIOUS
    <2>2. Loop(f, 0, D, v, round)
      BY <2>1 DEF Loop
    <2> QED
      BY <2>2
  <1>2. ASSUME NEW m \in 1 .. N, m - 1 \in T PROVE m \in T
    <2>1. PICK g : Loop(g, m - 1, D, v, round)
      BY <1>2
    <2>2. g[m - 1] \in D /\ round[m] \in [D -> D]
      BY <2>1 DEF Loop
    <2>3. PICK w : w = round[m][g[m - 1]] /\ w \in D
      BY <2>2
    <2>4. PICK f : f = [i \in 0 .. m |-> IF i = m THEN w ELSE g[i]]
      OBVIOUS
    <2>5. f \in [0 .. m -> D]
      BY <2>1, <2>3, <2>4 DEF Loop
    <2>6. f[0] = v
      BY <2>1, <2>4 DEF Loop
    <2>7. ASSUME NEW i \in 1 .. m PROVE f[i] = round[i][f[i - 1]]
      <3>1. f[i - 1] = g[i - 1]
        BY <2>4
      <3>2. CASE i = m
        BY <2>3, <2>4, <3>1, <3>2
      <3>3. CASE i # m
        BY <2>1, <2>4, <3>1, <3>3 DEF Loop
      <3> QED
        BY <3>2, <3>3
    <2>8. Loop(f, m, D, v, round)
      BY <2>5, <2>6, <2>7 DEF Loop
    <2> QED
      BY <2>8
  <1> HIDE DEF T
  <1>3. N \in T
    <2>1. \A i \in 0 .. N : i \in T
      BY <1>1, <1>2, UpTo
    <2> QED
      BY <2>1
  <1> QED
    BY <1>3 DEF T


-----------------------------------------------------------------------------
\* An address, and the bounds of a region.
Address == [1 .. 16 -> 0 .. 15]

\* The difference of the bounds, digit by digit.
Differences(v, r) ==
  /\ v \in [0 .. 16 -> Int]
  /\ v[0] = 0
  /\ \A k \in 1 .. 16 : v[k] = 16 * v[k - 1] + (r.end[k] - r.start[k])
Subtracted(v, r) == Differences(v, r) /\ Bytes(r) = v[16]
\* The loop over the digits has values, the last of which is Bytes.
LEMMA BytesLoop ==
  ASSUME NEW r, r.start \in Address, r.end \in Address
  PROVE  \E v : Subtracted(v, r)
  <1> DEFINE digit(k) == r.end[k] - r.start[k]
  <1>0. ASSUME NEW k \in 1 .. 16 PROVE digit(k) \in Int
    <2>1. PICK e \in 0 .. 15, s \in 0 .. 15 : e = r.end[k] /\ s = r.start[k]
      BY DEF Address
    <2>2. e - s \in Int
      OBVIOUS
    <2>3. digit(k) = e - s
      BY <2>1
    <2> QED
      BY <2>2, <2>3
  <1>1. PICK round : round = [k \in 1 .. 16 |-> [x \in Int |-> 16 * x + digit(k)]]
    OBVIOUS
  <1>2. round \in [1 .. 16 -> [Int -> Int]]
    <2>1. ASSUME NEW k \in 1 .. 16 PROVE [x \in Int |-> 16 * x + digit(k)] \in [Int -> Int]
      <3>1. PICK d \in Int : d = digit(k)
        BY <1>0
      <3>2. [x \in Int |-> 16 * x + d] \in [Int -> Int]
        OBVIOUS
      <3> HIDE DEF digit
      <3> QED
        BY <3>1, <3>2
    <2> HIDE DEF digit
    <2> QED
      BY <1>1, <2>1
  <1>3. PICK g : Loop(g, 16, Int, 0, round)
    <2>1. 16 \in Nat /\ 0 \in Int
      OBVIOUS
    <2> QED
      BY <1>2, <2>1, LoopExists, Zenon
  <1>4. ASSUME NEW k \in 1 .. 16 PROVE g[k] = 16 * g[k - 1] + digit(k)
    <2>1. g[k] = round[k][g[k - 1]] /\ g[k - 1] \in Int
      BY <1>3 DEF Loop
    <2>2. round[k] = [x \in Int |-> 16 * x + digit(k)]
      BY <1>1
    <2> QED
      BY <2>1, <2>2
  <1>5. g = [k \in 0 .. 16 |-> IF k = 0 THEN 0 ELSE 16 * g[k - 1] + digit(k)]
    <2> HIDE DEF digit
    <2> QED
      BY <1>3, <1>4 DEF Loop
  <1>6. PICK v : v = CHOOSE f : f = [k \in 0 .. 16 |-> IF k = 0 THEN 0 ELSE 16 * f[k - 1] + digit(k)]
    OBVIOUS
  <1>7. v = [k \in 0 .. 16 |-> IF k = 0 THEN 0 ELSE 16 * v[k - 1] + digit(k)]
    BY <1>5, <1>6
  <1>8. Bytes(r) = v[16]
    BY <1>6 DEF Bytes
  <1> HIDE DEF digit
  <1>9. v[0] = 0 /\ \A k \in 1 .. 16 : v[k] = 16 * v[k - 1] + digit(k)
    BY <1>7
  <1>10. \A k \in 0 .. 16 : v[k] \in Int
    <2> DEFINE T == {k \in 0 .. 16 : v[k] \in Int}
    <2>1. 0 \in T
      BY <1>9
    <2>2. ASSUME NEW k \in 1 .. 16, k - 1 \in T PROVE k \in T
      BY <1>0, <1>9, <2>2
    <2> HIDE DEF T
    <2>3. \A k \in 0 .. 16 : k \in T
      BY <2>1, <2>2, UpTo
    <2> QED
      BY <2>3 DEF T
  <1>11. Differences(v, r)
    BY <1>7, <1>9, <1>10 DEF Differences, digit
  <1> QED
    BY <1>8, <1>11 DEF Subtracted

SizeLimit == 18446744073709551616

\* The size is below 2^64.
LEMMA BytesFit ==
  ASSUME NEW r, r.start \in Address, r.end \in Address
  PROVE  Bytes(r) \in Int /\ Bytes(r) < SizeLimit
  <1>1. PICK v : Subtracted(v, r)
    BY BytesLoop
  <1>2. ASSUME NEW k \in 1 .. 16 PROVE v[k] \in Int /\ v[k - 1] \in Int /\ v[k] <= 16 * v[k - 1] + 15
    <2>1. PICK e \in 0 .. 15, s \in 0 .. 15 : e = r.end[k] /\ s = r.start[k]
      BY DEF Address
    <2>2. v[k] \in Int /\ v[k - 1] \in Int /\ v[k] = 16 * v[k - 1] + (r.end[k] - r.start[k])
      BY <1>1 DEF Subtracted, Differences
    <2>3. v[k] = 16 * v[k - 1] + (e - s)
      BY <2>1, <2>2
    <2> QED
      BY <2>2, <2>3
  <1>3. v[0] = 0 /\ Bytes(r) = v[16]
    BY <1>1 DEF Subtracted, Differences
  <1>4. v[4] < 65536 /\ v[4] \in Int
    <2>1. v[1] \in Int /\ v[1] <= 16 * v[0] + 15
      BY <1>2
    <2>2. v[2] \in Int /\ v[2] <= 16 * v[1] + 15
      BY <1>2
    <2>3. v[3] \in Int /\ v[3] <= 16 * v[2] + 15
      BY <1>2
    <2>4. v[4] \in Int /\ v[4] <= 16 * v[3] + 15
      BY <1>2
    <2> QED
      BY <1>3, <2>1, <2>2, <2>3, <2>4
  <1>5. v[8] < 4294967296 /\ v[8] \in Int
    <2>1. v[5] \in Int /\ v[5] <= 16 * v[4] + 15
      BY <1>2
    <2>2. v[6] \in Int /\ v[6] <= 16 * v[5] + 15
      BY <1>2
    <2>3. v[7] \in Int /\ v[7] <= 16 * v[6] + 15
      BY <1>2
    <2>4. v[8] \in Int /\ v[8] <= 16 * v[7] + 15
      BY <1>2
    <2> QED
      BY <1>4, <2>1, <2>2, <2>3, <2>4
  <1>6. v[12] < 281474976710656 /\ v[12] \in Int
    <2>1. v[9] \in Int /\ v[9] <= 16 * v[8] + 15
      BY <1>2
    <2>2. v[10] \in Int /\ v[10] <= 16 * v[9] + 15
      BY <1>2
    <2>3. v[11] \in Int /\ v[11] <= 16 * v[10] + 15
      BY <1>2
    <2>4. v[12] \in Int /\ v[12] <= 16 * v[11] + 15
      BY <1>2
    <2> QED
      BY <1>5, <2>1, <2>2, <2>3, <2>4
  <1>7. v[16] < 18446744073709551616 /\ v[16] \in Int
    <2>1. v[13] \in Int /\ v[13] <= 16 * v[12] + 15
      BY <1>2
    <2>2. v[14] \in Int /\ v[14] <= 16 * v[13] + 15
      BY <1>2
    <2>3. v[15] \in Int /\ v[15] <= 16 * v[14] + 15
      BY <1>2
    <2>4. v[16] \in Int /\ v[16] <= 16 * v[15] + 15
      BY <1>2
    <2> QED
      BY <1>6, <2>1, <2>2, <2>3, <2>4
  <1> QED
    BY <1>3, <1>7 DEF SizeLimit

\* A tuple like the bounds of the heap's region.
LEMMA Tuple16 ==
  ASSUME NEW T, NEW x \in T, NEW y \in T
  PROVE  /\ <<x, x, x, x, y, y, y, y, y, y, y, y, x, x, x, x>> \in [1 .. 16 -> T]
         /\ <<x, x, x, x, y, y, y, y, y, y, y, y, x, x, x, x>>[11] = y
  OBVIOUS

\* The heap's region has the heap's size.
LEMMA HeapRegion ==
  HeapInfo.start \in Address /\ HeapInfo.end \in Address /\ Bytes(HeapInfo) = HEAP_SIZE /\ Bytes(HeapInfo) \in Nat
  <1>1. PICK s \in Address : s = HEAP_START /\ s[11] = 4
    <2>1. 0 \in 0 .. 15 /\ 4 \in 0 .. 15
      OBVIOUS
    <2>2. HEAP_START \in [1 .. 16 -> 0 .. 15] /\ HEAP_START[11] = 4
      BY <2>1, Tuple16, Zenon DEF HEAP_START
    <2> QED
      BY <2>2 DEF Address
  <1>2. PICK e \in Address : e = HeapEnd /\ \A k \in 1 .. 16 : e[k] = IF k = 11 THEN 12 ELSE s[k]
    <2>1. HeapEnd = [s EXCEPT ![11] = 12]
      BY <1>1 DEF HeapEnd
    <2> QED
      BY <2>1 DEF Address
  <1>a. HeapInfo.start = s /\ HeapInfo.end = e
    BY <1>1, <1>2 DEF HeapInfo
  <1>3. \A k \in 1 .. 16 : HeapInfo.end[k] - HeapInfo.start[k] = IF k = 11 THEN 8 ELSE 0
    BY <1>1, <1>2, <1>a DEF Address
  <1>4. PICK v : Subtracted(v, HeapInfo)
    BY <1>1, <1>2, <1>a, BytesLoop
  <1>5. ASSUME NEW k \in 1 .. 16
        PROVE  v[k - 1] \in Int /\ v[k] = IF k = 11 THEN 16 * v[k - 1] + 8 ELSE 16 * v[k - 1]
    <2>1. v[k - 1] \in Int /\ v[k] = 16 * v[k - 1] + (HeapInfo.end[k] - HeapInfo.start[k])
      BY <1>4 DEF Subtracted, Differences
    <2>2. HeapInfo.end[k] - HeapInfo.start[k] = IF k = 11 THEN 8 ELSE 0
      BY <1>3
    <2> QED
      BY <2>1, <2>2
  <1>6. v[0] = 0 /\ Bytes(HeapInfo) = v[16]
    BY <1>4 DEF Subtracted, Differences
  <1>7. v[10] = 0
    <2>1. \A k \in 1 .. 10 : v[k - 1] \in Int /\ v[k] = 16 * v[k - 1]
      BY <1>5
    <2>2. v[1] = 0 /\ v[2] = 0 /\ v[3] = 0
      BY <1>6, <2>1
    <2>3. v[4] = 0 /\ v[5] = 0 /\ v[6] = 0
      BY <2>1, <2>2
    <2>4. v[7] = 0 /\ v[8] = 0 /\ v[9] = 0
      BY <2>1, <2>3
    <2> QED
      BY <2>1, <2>4
  <1>8. v[11] = 8
    BY <1>5, <1>7
  <1>9. v[12] = 128 /\ v[13] = 2048 /\ v[14] = 32768
    BY <1>5, <1>8
  <1>10. v[15] = 524288 /\ v[16] = 8388608
    BY <1>5, <1>9
  <1> QED
    BY SMT, <1>a, <1>1, <1>2, <1>6, <1>10 DEF HEAP_SIZE

-----------------------------------------------------------------------------
\* The first digit of an address that is shown.
FirstShown(val, first) ==
  /\ first \in 1 .. 13
  /\ val[first] # 0 \/ first = 13
  /\ \A j \in 1 .. first - 1 : val[j] = 0

\* There is one, and the address is shown from there.
LEMMA ShortenedText ==
  ASSUME NEW val \in Address
  PROVE  \E first : FirstShown(val, first) /\ Shortened(val) = <<0, Char.x>> \o SubSeq(val, first, 16)
  <1> DEFINE Stop == {k \in 1 .. 13 : val[k] # 0 \/ k = 13}
  <1>1. PICK k \in Stop : \A j \in Stop : k <= j
    <2>1. Stop \in SUBSET Nat /\ 13 \in Stop
      OBVIOUS
    <2> HIDE DEF Stop
    <2> QED
      BY <2>1, LeastOfNumbers
  <1>2. k \in 1 .. 13 /\ (val[k] # 0 \/ k = 13) /\ \A j \in 1 .. k - 1 : val[j] = 0
    BY <1>1
  <1>3. PICK first : first = CHOOSE i \in 1 .. 13 : (val[i] # 0 \/ i = 13) /\ \A j \in 1 .. i - 1 : val[j] = 0
    OBVIOUS
  <1>4. FirstShown(val, first)
    BY <1>2, <1>3, Zenon DEF FirstShown
  <1>5. Shortened(val) = <<0, Char.x>> \o SubSeq(val, first, 16)
    BY <1>3 DEF Shortened
  <1> QED
    BY <1>4, <1>5

\* The digits that are written once digit k has been looked at.
Written(val, first, k) == [i \in 1 .. k + 1 - first |-> val[i + first - 1]]

\* They are none before the first one shown, and one more with each after.
LEMMA WrittenDigits ==
  ASSUME NEW val \in Address, NEW first \in 1 .. 13, NEW k \in 0 .. 16
  PROVE  /\ Written(val, first, k) \in Seq(0 .. 15)
         /\ Len(Written(val, first, k)) = IF k < first THEN 0 ELSE k + 1 - first
         /\ k < first => Written(val, first, k) = <<>>
         /\ k >= first => Written(val, first, k) # <<>>
         /\ k >= first => Written(val, first, k) = Append(Written(val, first, k - 1), val[k])
  <1>1. \A i \in 1 .. k + 1 - first : val[i + first - 1] \in 0 .. 15
    BY DEF Address
  <1>2. CASE k < first
    <2>1. Written(val, first, k) = <<>>
      BY <1>2 DEF Written
    <2> QED
      BY <1>2, <2>1
  <1>3. CASE k >= first
    <2>1. PICK n \in Nat : n = k + 1 - first /\ n > 0
      BY <1>3
    <2>2. Written(val, first, k) = [i \in 1 .. n |-> val[i + first - 1]]
      BY <2>1 DEF Written
    <2>3. Written(val, first, k) \in Seq(0 .. 15) /\ Len(Written(val, first, k)) = n
      BY <1>1, <2>1, <2>2
    <2>4. Written(val, first, k) # <<>>
      BY <2>1, <2>3
    <2>5. PICK m \in Nat : m = n - 1
      BY <2>1
    <2>6. Written(val, first, k - 1) = [i \in 1 .. m |-> val[i + first - 1]]
      BY <2>1, <2>5 DEF Written
    <2>a. ASSUME NEW i \in 1 .. m PROVE val[i + first - 1] \in 0 .. 15
      <3>1. PICK j \in 1 .. 16 : j = i + first - 1
        BY <2>1, <2>5
      <3> QED
        BY <3>1 DEF Address
    <2>7. PICK before \in Seq(0 .. 15) : before = Written(val, first, k - 1) /\ Len(before) = m
      <3>1. [i \in 1 .. m |-> val[i + first - 1]] \in Seq(0 .. 15) /\ Len([i \in 1 .. m |-> val[i + first - 1]]) = m
        BY <2>5, <2>a
      <3> QED
        BY <2>6, <3>1
    <2>8. \A i \in 1 .. m : before[i] = val[i + first - 1]
      BY <2>6, <2>7
    <2>b. k \in 1 .. 16
      BY <1>3
    <2>9. val[k] \in 0 .. 15 /\ k = n + first - 1
      BY <2>1, <2>b DEF Address
    <2>10. /\ Append(before, val[k]) \in Seq(0 .. 15) /\ Len(Append(before, val[k])) = n
           /\ \A i \in 1 .. n : Append(before, val[k])[i] = val[i + first - 1]
      BY <2>5, <2>7, <2>8, <2>9
    <2>11. Append(before, val[k]) = Written(val, first, k)
      BY <2>2, <2>3, <2>10, SeqEqual
    <2> QED
      BY <1>3, <2>1, <2>3, <2>4, <2>7, <2>11
  <1> QED
    BY <1>2, <1>3

\* The digits from the first one shown.
LEMMA LastDigits ==
  ASSUME NEW val \in Address, NEW first \in 1 .. 13
  PROVE  /\ SubSeq(val, first, 16) \in Seq(0 .. 15) /\ SubSeq(val, first, 16) \in Seq(Nat)
         /\ Len(SubSeq(val, first, 16)) = 17 - first
         /\ \A i \in 1 .. 17 - first : SubSeq(val, first, 16)[i] = val[i + first - 1]
  <1>1. \A i \in first .. 16 : val[i] \in 0 .. 15 /\ val[i] \in Nat
    <2>1. \A i \in 1 .. 16 : val[i] \in 0 .. 15
      BY DEF Address
    <2> QED
      BY <2>1
  <1>2. /\ SubSeq(val, first, 16) \in Seq(0 .. 15)
        /\ Len(SubSeq(val, first, 16)) = IF first <= 16 THEN 16 - first + 1 ELSE 0
        /\ \A i \in 1 .. 16 - first + 1 : SubSeq(val, first, 16)[i] = val[first + i - 1]
    BY <1>1, SubSeqProperties
  <1>3. SubSeq(val, first, 16) \in Seq(Nat)
    BY <1>1, SubSeqProperties
  <1> QED
    BY <1>2, <1>3

\* Is digit k of val written after digits, which begin at from?
Shows(val, k, digits, from, limit) ==
  Visible(val[k], digits # <<>>, 16 - k) /\ from + Len(digits) < limit

\* The loop of write_hex.
HexLoop(after, val, from, limit) ==
  after = [k \in 0 .. 16 |->
             IF k = 0 THEN <<>>
             ELSE IF Shows(val, k, after[k - 1], from, limit) THEN Append(after[k - 1], val[k]) ELSE after[k - 1]]

\* The loop ends with the address from the first digit shown.
LEMMA HexDigits ==
  ASSUME NEW val \in Address, NEW first, FirstShown(val, first), NEW from \in Nat, NEW limit \in Nat, from + 16 <= limit
  PROVE  /\ \E after : HexLoop(after, val, from, limit)
         /\ \A after : HexLoop(after, val, from, limit) => after[16] = SubSeq(val, first, 16)
  <1>0. first \in 1 .. 13
    BY DEF FirstShown
  <1>a. \A k \in 0 .. 16 :
         /\ Written(val, first, k) \in Seq(0 .. 15)
         /\ Len(Written(val, first, k)) = IF k < first THEN 0 ELSE k + 1 - first
         /\ k < first => Written(val, first, k) = <<>>
         /\ k >= first => Written(val, first, k) # <<>>
         /\ k >= first => Written(val, first, k) = Append(Written(val, first, k - 1), val[k])
    BY <1>0, WrittenDigits
  <1>1. ASSUME NEW k \in 1 .. 16
        PROVE  Written(val, first, k) =
                 IF Shows(val, k, Written(val, first, k - 1), from, limit)
                   THEN Append(Written(val, first, k - 1), val[k]) ELSE Written(val, first, k - 1)
    <2>0. k - 1 \in 0 .. 16 /\ k \in 0 .. 16
      OBVIOUS
    <2>1. /\ from + Len(Written(val, first, k - 1)) < limit
          /\ Written(val, first, k - 1) # <<>> <=> k - 1 >= first
      <3>1. PICK j \in 0 .. 16 : j = k - 1
        OBVIOUS
      <3>2. /\ Len(Written(val, first, j)) = IF j < first THEN 0 ELSE j + 1 - first
            /\ j < first => Written(val, first, j) = <<>>
            /\ j >= first => Written(val, first, j) # <<>>
        BY <1>a, Zenon
      <3>3. from + Len(Written(val, first, j)) < limit
        BY <1>0, <3>1, <3>2
      <3>4. Written(val, first, j) # <<>> <=> j >= first
        BY <1>0, <3>2
      <3> QED
        BY <3>1, <3>3, <3>4
    <2>2. CASE k < first
      <3>1. val[k] = 0 /\ ~(16 - k < 4)
        BY <1>0, <2>2 DEF FirstShown
      <3>2. ~Shows(val, k, Written(val, first, k - 1), from, limit)
        BY <1>0, <2>1, <2>2, <3>1 DEF Shows, Visible
      <3>3. Written(val, first, k) = <<>> /\ Written(val, first, k - 1) = <<>>
        <4>1. PICK j \in 0 .. 16 : j = k - 1
          OBVIOUS
        <4>2. k < first /\ j < first /\ k \in 0 .. 16
          BY <1>0, <2>2, <4>1
        <4>3. Written(val, first, k) = <<>> /\ Written(val, first, j) = <<>>
          BY <1>a, <4>2, Zenon
        <4> QED
          BY <4>1, <4>3
      <3> QED
        BY <3>2, <3>3
    <2>3. CASE k >= first
      <3>1. Shows(val, k, Written(val, first, k - 1), from, limit)
        BY <1>0, <2>1, <2>3 DEF Shows, Visible, FirstShown
      <3>2. Written(val, first, k) = Append(Written(val, first, k - 1), val[k])
        BY <1>0, <1>a, <2>0, <2>3
      <3> QED
        BY <3>1, <3>2
    <2> QED
      BY <1>0, <2>2, <2>3
  <1>2. Written(val, first, 0) = <<>>
    <2>1. 0 \in 0 .. 16 /\ 0 < first
      BY <1>0
    <2> QED
      BY <1>a, <2>1, Zenon
  <1>3. PICK g : g = [k \in 0 .. 16 |-> Written(val, first, k)]
    OBVIOUS
  <1>4. HexLoop(g, val, from, limit)
    <2>1. ASSUME NEW k \in 0 .. 16
          PROVE  g[k] = IF k = 0 THEN <<>>
                        ELSE IF Shows(val, k, g[k - 1], from, limit) THEN Append(g[k - 1], val[k]) ELSE g[k - 1]
      <3>1. CASE k = 0
        BY <1>2, <1>3, <3>1
      <3>2. CASE k # 0
        <4>1. k \in 1 .. 16 /\ k - 1 \in 0 .. 16
          BY <3>2
        <4>2. g[k] = Written(val, first, k) /\ g[k - 1] = Written(val, first, k - 1)
          BY <1>3, <4>1
        <4> QED
          BY <1>1, <3>2, <4>1, <4>2
      <3> QED
        BY <3>1, <3>2
    <2> QED
      BY <1>3, <2>1 DEF HexLoop
  <1>5. ASSUME NEW after, HexLoop(after, val, from, limit) PROVE after[16] = SubSeq(val, first, 16)
    <2>1. after[0] = <<>>
      BY <1>5 DEF HexLoop
    <2>2. ASSUME NEW k \in 1 .. 16
          PROVE after[k] = IF Shows(val, k, after[k - 1], from, limit) THEN Append(after[k - 1], val[k]) ELSE after[k - 1]
      <3>1. \A i \in 0 .. 16 :
              after[i] = IF i = 0 THEN <<>>
                         ELSE IF Shows(val, i, after[i - 1], from, limit) THEN Append(after[i - 1], val[i]) ELSE after[i - 1]
        BY <1>5, Zenon DEF HexLoop
      <3>2. k \in 0 .. 16 /\ k # 0
        OBVIOUS
      <3> QED
        BY <3>1, <3>2, Zenon
    <2> DEFINE T == {k \in 0 .. 16 : after[k] = Written(val, first, k)}
    <2>3. 0 \in T
      BY <1>2, <2>1
    <2>4. ASSUME NEW k \in 1 .. 16, k - 1 \in T PROVE k \in T
      <3>1. after[k - 1] = Written(val, first, k - 1) /\ k \in 0 .. 16
        BY <2>4
      <3>2. after[k] = Written(val, first, k)
        BY <1>1, <2>2, <3>1, Zenon
      <3> QED
        BY <3>1, <3>2
    <2> HIDE DEF T
    <2>5. \A k \in 0 .. 16 : k \in T
      BY <2>3, <2>4, UpTo
    <2>6. after[16] = Written(val, first, 16)
      BY <2>5 DEF T
    <2>8. /\ SubSeq(val, first, 16) \in Seq(0 .. 15) /\ Len(SubSeq(val, first, 16)) = 17 - first
          /\ \A i \in 1 .. 17 - first : SubSeq(val, first, 16)[i] = val[i + first - 1]
      BY <1>0, LastDigits, Zenon
    <2>9. /\ Written(val, first, 16) \in Seq(0 .. 15) /\ Len(Written(val, first, 16)) = 17 - first
          /\ \A i \in 1 .. 17 - first : Written(val, first, 16)[i] = val[i + first - 1]
      <3>1. Written(val, first, 16) \in Seq(0 .. 15) /\ Len(Written(val, first, 16)) = 17 - first
        <4>1. PICK k \in 0 .. 16 : k = 16
          OBVIOUS
        <4>2. Written(val, first, k) \in Seq(0 .. 15) /\ Len(Written(val, first, k)) = IF k < first THEN 0 ELSE k + 1 - first
          BY <1>a, Zenon
        <4>3. k + 1 - first = 17 - first /\ ~(k < first)
          BY <1>0, <4>1
        <4> QED
          BY <4>1, <4>2, <4>3, Zenon
      <3>2. Written(val, first, 16) = [i \in 1 .. 17 - first |-> val[i + first - 1]]
        BY <1>0 DEF Written
      <3> QED
        BY <3>1, <3>2
    <2>10. Written(val, first, 16) = SubSeq(val, first, 16)
      BY <2>8, <2>9, SeqEqual
    <2> QED
      BY <2>6, <2>10
  <1> QED
    BY <1>4, <1>5

\* The characters are numbers.
LEMMA Characters ==
  /\ Char.x = 16 /\ Char.dash = 17 /\ Char.space = 18 /\ Char.B = 19
  /\ Char.i = 20 /\ Char.K = 21 /\ Char.M = 22 /\ Char.G = 23
  BY DEF Char

\* Texts of one or two of them.
LEMMA ShortTexts ==
  ASSUME NEW a \in Nat, NEW b \in Nat
  PROVE  /\ <<a>> \in Seq(Nat) /\ Len(<<a>>) = 1
         /\ <<a, b>> \in Seq(Nat) /\ Len(<<a, b>>) = 2
  OBVIOUS

\* write_hex writes an address as it should, if there is room for all its digits.
LEMMA HexText ==
  ASSUME NEW buf \in Seq(Nat), Len(buf) <= 22, NEW val \in Address
  PROVE  /\ write_hex(buf, val, RANGE_LEN) = buf \o Shortened(val)
         /\ Shortened(val) \in Seq(Nat) /\ Len(Shortened(val)) <= 18
  <1>1. PICK first : FirstShown(val, first) /\ Shortened(val) = <<0, Char.x>> \o SubSeq(val, first, 16)
    BY ShortenedText, Zenon
  <1>0. first \in 1 .. 13
    BY <1>1, Zenon DEF FirstShown
  <1>2. PICK digits \in Seq(Nat) : digits = SubSeq(val, first, 16) /\ Len(digits) <= 16
    <2>1. SubSeq(val, first, 16) \in Seq(Nat) /\ Len(SubSeq(val, first, 16)) = 17 - first
      BY <1>0, LastDigits, Zenon
    <2>2. Len(SubSeq(val, first, 16)) <= 16
      BY <1>0, <2>1
    <2> QED
      BY <2>1, <2>2, Zenon
  <1>3. PICK zerox \in Seq(Nat) : zerox = <<0, Char.x>> /\ Len(zerox) = 2
    <2>1. 0 \in Nat /\ Char.x \in Nat
      BY Characters
    <2> QED
      BY <2>1, ShortTexts, Zenon
  <1>4. PICK limit \in Nat : limit = 40
    OBVIOUS
  <1>a. Len(buf) + 2 \in Nat /\ Len(buf) + 2 + 16 <= limit /\ ~(Len(buf) + 2 > limit)
    BY <1>4
  <1>5. /\ \E f : HexLoop(f, val, Len(buf) + 2, limit)
        /\ \A f : HexLoop(f, val, Len(buf) + 2, limit) => f[16] = SubSeq(val, first, 16)
    BY <1>1, <1>a, HexDigits, Zenon
  <1>6. PICK after :
          after = CHOOSE f : f = [k \in 0 .. 16 |->
            IF k = 0 THEN <<>>
            ELSE IF Visible(val[k], f[k - 1] # <<>>, 16 - k) /\ Len(buf) + 2 + Len(f[k - 1]) < limit
                   THEN Append(f[k - 1], val[k]) ELSE f[k - 1]]
    OBVIOUS
  <1>7. HexLoop(after, val, Len(buf) + 2, limit)
    BY <1>5, <1>6, Zenon DEF HexLoop, Shows
  <1>8. after[16] = digits
    BY <1>2, <1>5, <1>7, Zenon
  <1>9. write_hex(buf, val, RANGE_LEN) = (buf \o zerox) \o digits
    <2>1. write_hex(buf, val, limit) = IF Len(buf) + 2 > limit THEN buf ELSE (buf \o <<0, Char.x>>) \o after[16]
      BY <1>6 DEF write_hex
    <2>2. limit = RANGE_LEN
      BY <1>4 DEF RANGE_LEN
    <2> QED
      BY <1>3, <1>8, <1>a, <2>1, <2>2, Zenon
  <1>10. (buf \o zerox) \o digits = buf \o (zerox \o digits)
    BY SMTT(30)
  <1>11. Shortened(val) = zerox \o digits
    BY <1>1, <1>2, <1>3, Zenon
  <1>12. zerox \o digits \in Seq(Nat) /\ Len(zerox \o digits) <= 18
    <2>1. zerox \o digits \in Seq(Nat) /\ Len(zerox \o digits) = Len(zerox) + Len(digits)
      BY <1>2, <1>3, ConcatProperties, Zenon
    <2> QED
      BY <1>2, <1>3, <2>1
  <1> QED
    BY <1>9, <1>10, <1>11, <1>12, Zenon

\* A text is written in full where it fits.
LEMMA PutFits ==
  ASSUME NEW buf \in Seq(Nat), NEW text \in Seq(Nat), NEW limit \in Nat, Len(buf) + Len(text) <= limit
  PROVE  /\ Put(buf, text, limit) = buf \o text
         /\ buf \o text \in Seq(Nat) /\ Len(buf \o text) = Len(buf) + Len(text)
  <1>1. Min({Len(text), limit - Len(buf)}) = Len(text)
    <2>1. PICK a \in Nat, b \in Int : a = Len(text) /\ b = limit - Len(buf) /\ a <= b
      <3>1. Len(text) \in Nat /\ Len(buf) \in Nat
        OBVIOUS
      <3>2. PICK m \in Nat, n \in Nat : m = Len(text) /\ n = Len(buf) /\ n + m <= limit
        BY <3>1
      <3>3. limit - n \in Int /\ m <= limit - n
        BY <3>2
      <3> QED
        BY <3>2, <3>3
    <2>2. Min({a, b}) = a
      <3>1. a \in Int /\ a <= b
        BY <2>1
      <3>2. Min({a, b}) = IF a <= b THEN a ELSE b
        BY <3>1, MinOfTwo, Zenon
      <3> QED
        BY <3>1, <3>2, Zenon
    <2> QED
      BY <2>1, <2>2, Zenon
  <1>2. SubSeq(text, 1, Len(text)) = text
    BY SubSeqFull, Zenon
  <1>3. buf \o text \in Seq(Nat) /\ Len(buf \o text) = Len(buf) + Len(text)
    BY ConcatProperties, Zenon
  <1> QED
    BY <1>1, <1>2, <1>3, Zenon DEF Put

\* The line of the bounds.
LEMMA RangeText ==
  ASSUME NEW s \in Address, NEW e \in Address
  PROVE  /\ format_addr_range(s, e) = Shortened(s) \o <<Char.dash>> \o Shortened(e)
         /\ Len(format_addr_range(s, e)) \in Nat /\ Len(format_addr_range(s, e)) <= 37
  <1>1. PICK left \in Seq(Nat) : left = Shortened(s) /\ Len(left) <= 18 /\ write_hex(<<>>, s, RANGE_LEN) = left
    <2>1. <<>> \in Seq(Nat) /\ Len(<<>>) <= 22
      OBVIOUS
    <2>2. /\ write_hex(<<>>, s, RANGE_LEN) = <<>> \o Shortened(s)
          /\ Shortened(s) \in Seq(Nat) /\ Len(Shortened(s)) <= 18
      BY <2>1, HexText, Zenon
    <2>3. <<>> \o Shortened(s) = Shortened(s)
      BY <2>2, ConcatEmptySeq, Zenon
    <2> QED
      BY <2>2, <2>3, Zenon
  <1>2. PICK dash \in Seq(Nat) : dash = <<Char.dash>> /\ Len(dash) = 1
    <2>1. Char.dash \in Nat
      BY Characters
    <2> QED
      BY <2>1, ShortTexts, Zenon
  <1>3. PICK middle \in Seq(Nat) : middle = left \o dash /\ Len(middle) <= 19 /\ Put(left, dash, RANGE_LEN) = middle
    <2>1. 40 \in Nat /\ Len(left) + Len(dash) <= 40
      BY <1>1, <1>2
    <2>2. /\ Put(left, dash, 40) = left \o dash
          /\ left \o dash \in Seq(Nat) /\ Len(left \o dash) = Len(left) + Len(dash)
      BY <1>1, <1>2, <2>1, PutFits, Zenon
    <2>3. Len(left \o dash) <= 19
      BY <1>1, <1>2, <2>2
    <2> QED
      BY <2>2, <2>3, Zenon DEF RANGE_LEN
  <1>4. /\ write_hex(middle, e, RANGE_LEN) = middle \o Shortened(e)
        /\ Shortened(e) \in Seq(Nat) /\ Len(Shortened(e)) <= 18
    <2>1. Len(middle) <= 22
      BY <1>3
    <2> QED
      BY <1>3, <2>1, HexText, Zenon
  <1>5. Len(middle \o Shortened(e)) \in Nat /\ Len(middle \o Shortened(e)) <= 37
    <2>1. /\ middle \o Shortened(e) \in Seq(Nat)
          /\ Len(middle \o Shortened(e)) = Len(middle) + Len(Shortened(e))
      BY <1>3, <1>4, ConcatProperties, Zenon
    <2> QED
      BY <1>3, <1>4, <2>1
  <1>6. format_addr_range(s, e) = middle \o Shortened(e)
    BY <1>1, <1>2, <1>3, <1>4, Zenon DEF format_addr_range
  <1>7. middle \o Shortened(e) = Shortened(s) \o <<Char.dash>> \o Shortened(e)
    BY <1>1, <1>2, <1>3, Zenon
  <1> QED
    BY <1>5, <1>6, <1>7, Zenon
\* What is left of a number when i digits have come off.
Quotients(n, val) ==
  /\ n = [i \in 0 .. 20 |-> IF i = 0 THEN val ELSE n[i - 1] \div 10]
  /\ n[0] = val
  /\ \A i \in 0 .. 20 : n[i] \in Nat
  /\ \A i \in 1 .. 20 : n[i] = n[i - 1] \div 10

\* The loop of write_u64_decimal has them.
LEMMA QuotientsExist ==
  ASSUME NEW val \in Nat
  PROVE  \E n : Quotients(n, val)
  <1>1. PICK round : round = [i \in 1 .. 20 |-> [x \in Nat |-> x \div 10]]
    OBVIOUS
  <1>2. round \in [1 .. 20 -> [Nat -> Nat]]
    <2>1. [x \in Nat |-> x \div 10] \in [Nat -> Nat]
      <3>1. \A x \in Nat : x \div 10 \in Nat
        OBVIOUS
      <3> QED
        BY <3>1
    <2> QED
      BY <1>1, <2>1
  <1>3. PICK g : Loop(g, 20, Nat, val, round)
    <2>1. 20 \in Nat
      OBVIOUS
    <2> QED
      BY <1>2, <2>1, LoopExists, Zenon
  <1>4. g \in [0 .. 20 -> Nat] /\ g[0] = val
    BY <1>3 DEF Loop
  <1>5. ASSUME NEW i \in 1 .. 20 PROVE g[i] = g[i - 1] \div 10
    <2>1. g[i] = round[i][g[i - 1]] /\ g[i - 1] \in Nat
      BY <1>3, <1>4 DEF Loop
    <2>2. round[i] = [x \in Nat |-> x \div 10]
      BY <1>1
    <2> QED
      BY <2>1, <2>2
  <1>6. g = [i \in 0 .. 20 |-> IF i = 0 THEN val ELSE g[i - 1] \div 10]
    BY <1>4, <1>5
  <1>7. Quotients(g, val)
    BY <1>4, <1>5, <1>6 DEF Quotients
  <1> QED
    BY <1>7

ElevenDigitLimit == 100000000000

\* A number below 10^11 has at most eleven digits.
LEMMA ElevenDigits ==
  ASSUME NEW val \in Nat, val < ElevenDigitLimit, NEW n, Quotients(n, val)
  PROVE  n[11] = 0
  <1>1. \A i \in 1 .. 20 : n[i - 1] \in Nat /\ n[i] \in Nat /\ 10 * n[i] <= n[i - 1]
    <2>1. ASSUME NEW i \in 1 .. 20 PROVE n[i - 1] \in Nat /\ n[i] \in Nat /\ 10 * n[i] <= n[i - 1]
      <3>1. PICK j \in 0 .. 20 : j = i - 1
        OBVIOUS
      <3>2. n[j] \in Nat /\ n[i] = n[j] \div 10
        BY <3>1 DEF Quotients
      <3> QED
        BY <3>1, <3>2
    <2> QED
      BY <2>1
  <1>2. n[0] = val
    BY DEF Quotients
  <1>3. n[1] < 10000000000 /\ n[2] < 1000000000 /\ n[3] < 100000000
    BY <1>1, <1>2 DEF ElevenDigitLimit
  <1>4. n[4] < 10000000 /\ n[5] < 1000000 /\ n[6] < 100000
    BY <1>1, <1>3
  <1>5. n[7] < 10000 /\ n[8] < 1000 /\ n[9] < 100
    BY <1>1, <1>4
  <1>6. n[10] < 10 /\ n[11] < 1
    BY <1>1, <1>5
  <1> QED
    BY <1>1, <1>6

\* The digits of a number are read off from the left.
LEMMA ValueRead ==
  ASSUME NEW s \in Seq(Nat), NEW g, g = [k \in 0 .. Len(s) |-> IF k = 0 THEN 0 ELSE 10 * g[k - 1] + s[k]]
  PROVE  Value(s) = g[Len(s)]
  <1>0. PICK N \in Nat : N = Len(s)
    OBVIOUS
  <1>1. PICK v : v = CHOOSE f : f = [k \in 0 .. Len(s) |-> IF k = 0 THEN 0 ELSE 10 * f[k - 1] + s[k]]
    OBVIOUS
  <1>2. v = [k \in 0 .. Len(s) |-> IF k = 0 THEN 0 ELSE 10 * v[k - 1] + s[k]]
    BY <1>1, Zenon
  <1>3. Value(s) = v[Len(s)]
    BY <1>1 DEF Value
  <1>4. v[0] = 0 /\ g[0] = 0
    BY <1>0, <1>2
  <1>5. ASSUME NEW k \in 1 .. N PROVE v[k] = 10 * v[k - 1] + s[k] /\ g[k] = 10 * g[k - 1] + s[k]
    <2>1. k \in 0 .. Len(s) /\ k # 0
      BY <1>0
    <2>2. /\ \A j \in 0 .. Len(s) : v[j] = IF j = 0 THEN 0 ELSE 10 * v[j - 1] + s[j]
          /\ \A j \in 0 .. Len(s) : g[j] = IF j = 0 THEN 0 ELSE 10 * g[j - 1] + s[j]
      BY <1>2, Zenon
    <2> QED
      BY <2>1, <2>2, Zenon
  <1> DEFINE T == {k \in 0 .. N : v[k] = g[k]}
  <1>6. 0 \in T
    BY <1>4
  <1>7. ASSUME NEW k \in 1 .. N, k - 1 \in T PROVE k \in T
    <2>1. v[k - 1] = g[k - 1] /\ k \in 0 .. N
      BY <1>7
    <2>2. v[k] = g[k]
      BY <1>5, <2>1, Zenon
    <2> QED
      BY <2>1, <2>2
  <1> HIDE DEF T
  <1>8. \A k \in 0 .. N : k \in T
    BY <1>6, <1>7, UpTo
  <1>9. N \in T
    BY <1>8
  <1> QED
    BY <1>0, <1>3, <1>9 DEF T
\* The decimal digits of a number.
DigitsOf(digits, val) ==
  /\ digits \in Seq(Nat)
  /\ Len(digits) \in 1 .. 11
  /\ Value(digits) = val
  /\ Len(digits) > 1 => digits[1] # 0

\* They come off from the right, so that they are its digits from the left.
LEMMA DigitsTaken ==
  ASSUME NEW val \in Nat, NEW n, Quotients(n, val), NEW dlen \in 1 .. 11, n[dlen] = 0, n[dlen - 1] # 0
  PROVE  DigitsOf([d \in 1 .. dlen |-> n[dlen - d] % 10], val)
  <1>1. PICK digits : digits = [d \in 1 .. dlen |-> n[dlen - d] % 10]
    OBVIOUS
  <1>2. ASSUME NEW d \in 1 .. dlen
        PROVE  /\ digits[d] \in Nat /\ n[dlen - d] \in Nat
               /\ n[dlen - d] = 10 * n[dlen - (d - 1)] + digits[d]
    <2>1. PICK i \in 1 .. 20 : i = dlen - (d - 1) /\ i - 1 = dlen - d
      OBVIOUS
    <2>2. PICK j \in 0 .. 20 : j = i - 1 /\ j = dlen - d
      BY <2>1
    <2>3. PICK x \in Nat : x = n[j]
      BY DEF Quotients
    <2>4. n[i] = x \div 10
      <3>1. n[i] = n[i - 1] \div 10
        BY Zenon DEF Quotients
      <3> QED
        BY <2>2, <2>3, <3>1
    <2>5. digits[d] = x % 10
      BY <1>1, <2>2, <2>3
    <2>6. (x % 10) \in Nat /\ x = 10 * (x \div 10) + (x % 10)
      OBVIOUS
    <2> QED
      BY <2>1, <2>2, <2>3, <2>4, <2>5, <2>6
  <1>3. digits \in Seq(Nat) /\ Len(digits) = dlen
    <2>1. \A d \in 1 .. dlen : n[dlen - d] % 10 \in Nat
      BY <1>1, <1>2
    <2>2. dlen \in Nat
      OBVIOUS
    <2> QED
      BY <1>1, <2>1, <2>2
  <1>4. PICK g : g = [k \in 0 .. dlen |-> n[dlen - k]]
    OBVIOUS
  <1>5. g = [k \in 0 .. dlen |-> IF k = 0 THEN 0 ELSE 10 * g[k - 1] + digits[k]]
    <2>1. g[0] = 0
      BY <1>4
    <2>2. ASSUME NEW k \in 1 .. dlen PROVE g[k] = 10 * g[k - 1] + digits[k]
      <3>1. k \in 0 .. dlen /\ k - 1 \in 0 .. dlen
        OBVIOUS
      <3>2. g[k] = n[dlen - k] /\ g[k - 1] = n[dlen - (k - 1)]
        BY <1>4, <3>1
      <3> QED
        BY <1>2, <3>2
    <2>3. ASSUME NEW k \in 0 .. dlen PROVE g[k] = IF k = 0 THEN 0 ELSE 10 * g[k - 1] + digits[k]
      <3>1. CASE k = 0
        BY <2>1, <3>1
      <3>2. CASE k # 0
        <4>1. k \in 1 .. dlen
          BY <3>2
        <4> QED
          BY <2>2, <3>2, <4>1
      <3> QED
        BY <3>1, <3>2
    <2> QED
      BY <1>4, <2>3
  <1>6. Value(digits) = g[dlen]
    BY <1>3, <1>5, ValueRead, Zenon
  <1>7. g[dlen] = val
    <2>1. g[dlen] = n[0]
      BY <1>4
    <2> QED
      BY <2>1 DEF Quotients
  <1>8. digits[1] # 0
    <2>1. 1 \in 1 .. dlen
      OBVIOUS
    <2>2. digits[1] \in Nat /\ n[dlen - 1] = 10 * n[dlen - (1 - 1)] + digits[1]
      BY <1>2, <2>1, Zenon
    <2>3. n[dlen - (1 - 1)] = 0
      OBVIOUS
    <2> QED
      BY <2>2, <2>3
  <1>9. Len(digits) \in 1 .. 11
    BY <1>3
  <1> QED
    BY <1>1, <1>3, <1>6, <1>7, <1>8, <1>9, Zenon DEF DigitsOf
\* The array write_u64_decimal collects them in, from the left.
Collected(n, val) ==
  LET dlen == Min({i \in 0 .. 20 : n[i] = 0})
  IN  IF val = 0 THEN <<0>> ELSE [d \in 1 .. dlen |-> n[dlen - d] % 10]

\* write_u64_decimal writes a number's digits.
LEMMA DecimalText ==
  ASSUME NEW val \in Nat, val < ElevenDigitLimit
  PROVE  DigitsOf(write_u64_decimal(<<>>, val, 24), val)
  <1>1. PICK n : n = CHOOSE f : f = [i \in 0 .. 20 |-> IF i = 0 THEN val ELSE f[i - 1] \div 10]
    OBVIOUS
  <1>2. n = [i \in 0 .. 20 |-> IF i = 0 THEN val ELSE n[i - 1] \div 10]
    <2>1. \E f : f = [i \in 0 .. 20 |-> IF i = 0 THEN val ELSE f[i - 1] \div 10]
      BY QuotientsExist, Zenon DEF Quotients
    <2> QED
      BY <1>1, <2>1, Zenon
  <1>3. Quotients(n, val)
    <2>1. PICK g : Quotients(g, val)
      BY QuotientsExist, Zenon
    <2>2. n[0] = val /\ g[0] = val
      <3>1. 0 \in 0 .. 20
        OBVIOUS
      <3> QED
        BY <1>2, <2>1, <3>1, Zenon DEF Quotients
    <2>3. ASSUME NEW i \in 1 .. 20 PROVE n[i] = n[i - 1] \div 10 /\ g[i] = g[i - 1] \div 10
      <3>1. i \in 0 .. 20 /\ i # 0
        OBVIOUS
      <3>2. \A j \in 0 .. 20 : n[j] = IF j = 0 THEN val ELSE n[j - 1] \div 10
        BY <1>2, Zenon
      <3>3. g[i] = g[i - 1] \div 10
        BY <2>1, Zenon DEF Quotients
      <3> QED
        BY <3>1, <3>2, <3>3, Zenon
    <2> DEFINE T == {i \in 0 .. 20 : n[i] = g[i]}
    <2>4. 0 \in T
      BY <2>2
    <2>5. ASSUME NEW i \in 1 .. 20, i - 1 \in T PROVE i \in T
      <3>1. n[i - 1] = g[i - 1] /\ i \in 0 .. 20
        BY <2>5
      <3>2. n[i] = g[i]
        BY <2>3, <3>1, Zenon
      <3> QED
        BY <3>1, <3>2
    <2> HIDE DEF T
    <2>6. \A i \in 0 .. 20 : i \in T
      <3>1. 20 \in Nat
        OBVIOUS
      <3> QED
        BY <2>4, <2>5, <3>1, UpTo
    <2>7. \A i \in 0 .. 20 : n[i] \in Nat
      BY <2>1, <2>6, Zenon DEF T, Quotients
    <2> QED
      BY <1>2, <2>2, <2>3, <2>7, Zenon DEF Quotients
  <1> DEFINE Zeros == {i \in 0 .. 20 : n[i] = 0}
  <1>4. PICK dlen \in Nat : dlen = Min(Zeros) /\ dlen \in 0 .. 11 /\ n[dlen] = 0 /\ \A j \in 0 .. dlen - 1 : n[j] # 0
    <2>1. n[11] = 0
      BY <1>3, ElevenDigits, Zenon
    <2>2. Zeros \in SUBSET Nat /\ 11 \in Zeros
      BY <2>1
    <2>3. PICK m \in Zeros : \A j \in Zeros : m <= j
      <3> HIDE DEF Zeros
      <3> QED
        BY <2>2, LeastOfNumbers
    <2>4. Min(Zeros) = m
      <3>1. \A y \in Zeros : m <= y
        BY <2>3
      <3>2. ASSUME NEW z \in Zeros, \A y \in Zeros : z <= y PROVE z = m
        <4>1. m <= z /\ z <= m /\ m \in Nat /\ z \in Nat
          BY <2>3, <3>2
        <4> QED
          BY <4>1
      <3> HIDE DEF Zeros
      <3>3. Min(Zeros) = CHOOSE x \in Zeros : \A y \in Zeros : x <= y
        BY Zenon DEF Min
      <3> QED
        BY <3>1, <3>2, <3>3, Zenon
    <2>5. m \in 0 .. 20 /\ m <= 11 /\ n[m] = 0
      BY <2>2, <2>3
    <2>6. \A j \in 0 .. m - 1 : n[j] # 0
      BY <2>3, <2>5
    <2> QED
      BY <2>4, <2>5, <2>6
  <1> HIDE DEF Zeros
  <1>5. PICK digits : digits = IF val = 0 THEN <<0>> ELSE [d \in 1 .. dlen |-> n[dlen - d] % 10]
    OBVIOUS
  <1>6. DigitsOf(digits, val)
    <2>1. CASE val = 0
      <3>1. PICK z \in Seq(Nat) : z = <<0>> /\ Len(z) = 1 /\ z[1] = 0
        <4>1. <<0>> \in Seq(Nat) /\ Len(<<0>>) = 1
          <5>1. 0 \in Nat
            OBVIOUS
          <5> QED
            BY <5>1, ShortTexts, Zenon
        <4>2. <<0>>[1] = 0
          OBVIOUS
        <4> QED
          BY <4>1, <4>2, Zenon
      <3>2. PICK g : g = [k \in 0 .. 1 |-> 0]
        OBVIOUS
      <3>3. g = [k \in 0 .. Len(z) |-> IF k = 0 THEN 0 ELSE 10 * g[k - 1] + z[k]]
        BY <3>1, <3>2
      <3>4. Value(z) = g[Len(z)]
        BY <3>3, ValueRead, Zenon
      <3>5. g[Len(z)] = 0
        BY <3>1, <3>2
      <3> QED
        BY <1>5, <2>1, <3>1, <3>4, <3>5 DEF DigitsOf
    <2>2. CASE val # 0
      <3>1. n[0] = val
        BY <1>3, Zenon DEF Quotients
      <3>2. dlen # 0
        BY <1>4, <2>2, <3>1
      <3>3. dlen \in 1 .. 11 /\ dlen - 1 \in 0 .. dlen - 1
        BY <1>4, <3>2
      <3>4. n[dlen] = 0 /\ n[dlen - 1] # 0
        BY <1>4, <3>3, Zenon
      <3>5. DigitsOf([d \in 1 .. dlen |-> n[dlen - d] % 10], val)
        BY <1>3, <3>3, <3>4, DigitsTaken, Zenon
      <3> QED
        BY <1>5, <2>2, <3>5, Zenon
    <2> QED
      BY <2>1, <2>2
  <1>7. write_u64_decimal(<<>>, val, 24) = Put(<<>>, digits, 24)
    <2>1. write_u64_decimal(<<>>, val, 24) =
            Put(<<>>, Collected(CHOOSE f : f = [i \in 0 .. 20 |-> IF i = 0 THEN val ELSE f[i - 1] \div 10], val), 24)
      BY Zenon DEF write_u64_decimal, Collected
    <2>2. Collected(n, val) = digits
      BY <1>4, <1>5 DEF Collected, Zeros
    <2> QED
      BY <1>1, <2>1, <2>2, Zenon
  <1>8. Put(<<>>, digits, 24) = digits
    <2>0. digits \in Seq(Nat) /\ Len(digits) \in 1 .. 11
      BY <1>6, Zenon DEF DigitsOf
    <2>1. <<>> \in Seq(Nat) /\ 24 \in Nat /\ Len(<<>>) + Len(digits) <= 24
      <3>1. <<>> \in Seq(Nat) /\ Len(<<>>) = 0
        OBVIOUS
      <3>2. PICK m \in 1 .. 11 : m = Len(digits)
        BY <2>0
      <3>3. 0 + m <= 24
        OBVIOUS
      <3> QED
        BY <3>1, <3>2, <3>3
    <2>2. Put(<<>>, digits, 24) = <<>> \o digits
      BY <2>0, <2>1, PutFits, Zenon
    <2>3. <<>> \o digits = digits
      BY <2>0, ConcatEmptySeq, Zenon
    <2> QED
      BY <2>2, <2>3, Zenon
  <1> QED
    BY <1>6, <1>7, <1>8, Zenon

\* x in whole units of c, and what is left.
Divides(x, c) == x \div c \in Nat /\ x - (x \div c) * c \in 0 .. c - 1
GiB == 1024 * 1024 * 1024
MiB == 1024 * 1024
KiB == 1024

\* What is not negative and less than c is one of the first c numbers.
LEMMA Below ==
  ASSUME NEW r \in Int, NEW c \in Int, r >= 0, r < c
  PROVE  r \in 0 .. c - 1
  OBVIOUS

\* A number in GiB leaves less than one.
LEMMA DividesGiB ==
  ASSUME NEW x \in Nat
  PROVE  Divides(x, GiB)
  <1>1. GiB = 1073741824 /\ GiB \in Int
    BY SMT DEF GiB
  <1>2. x \div 1073741824 \in Nat
    BY SMT
  <1>3. x - (x \div 1073741824) * 1073741824 >= 0
    BY SMT
  <1>4. x - (x \div 1073741824) * 1073741824 < 1073741824
    BY SMT
  <1>5. PICK q \in Nat : q = x \div GiB
    BY SMT, <1>1, <1>2
  <1>6. PICK r \in Int : r = x - q * GiB
    BY SMT, <1>1, <1>5
  <1>7. r >= 0 /\ r < GiB /\ GiB \in Int
    BY SMT, <1>1, <1>3, <1>4, <1>5, <1>6
  <1>8. r \in 0 .. GiB - 1
    BY <1>6, <1>7, Below, Zenon
  <1>9. x - (x \div GiB) * GiB = r
    BY <1>5, <1>6, Zenon
  <1> QED
    BY <1>5, <1>8, <1>9, Zenon DEF Divides

\* The same in MiB,
LEMMA DividesMiB ==
  ASSUME NEW x \in Nat
  PROVE  Divides(x, MiB)
  <1>1. MiB = 1048576 /\ MiB \in Int
    BY SMT DEF MiB
  <1>2. x \div 1048576 \in Nat
    BY SMT
  <1>3. x - (x \div 1048576) * 1048576 >= 0
    BY SMT
  <1>4. x - (x \div 1048576) * 1048576 < 1048576
    BY SMT
  <1>5. PICK q \in Nat : q = x \div MiB
    BY SMT, <1>1, <1>2
  <1>6. PICK r \in Int : r = x - q * MiB
    BY SMT, <1>1, <1>5
  <1>7. r >= 0 /\ r < MiB /\ MiB \in Int
    BY SMT, <1>1, <1>3, <1>4, <1>5, <1>6
  <1>8. r \in 0 .. MiB - 1
    BY <1>6, <1>7, Below, Zenon
  <1>9. x - (x \div MiB) * MiB = r
    BY <1>5, <1>6, Zenon
  <1> QED
    BY <1>5, <1>8, <1>9, Zenon DEF Divides

\* and in KiB or bytes.
LEMMA DividesKiB ==
  ASSUME NEW x \in Nat
  PROVE  Divides(x, KiB) /\ Divides(x, 1)
  BY DEF Divides, KiB

\* The units.
IsUnit(u, of) == Units[u].of = of /\ Units[u].suffix \in Seq(Nat) /\ Len(Units[u].suffix) \in 0 .. 4

\* The four of them.
LEMMA UnitTexts ==
  IsUnit(1, GiB) /\ IsUnit(2, MiB) /\ IsUnit(3, KiB) /\ IsUnit(4, 1)
  <1>1. /\ Units[1].of = GiB /\ Units[2].of = MiB /\ Units[3].of = KiB /\ Units[4].of = 1
    BY SMT DEF Units, GiB, MiB, KiB
  <1>2. /\ Units[1].suffix = <<Char.space, Char.G, Char.i, Char.B>>
        /\ Units[2].suffix = <<Char.space, Char.M, Char.i, Char.B>>
        /\ Units[3].suffix = <<Char.space, Char.K, Char.i, Char.B>>
        /\ Units[4].suffix = <<Char.space, Char.B>>
    BY DEF Units, iB
  <1>3. \A a, b, c, d \in Nat : <<a, b, c, d>> \in Seq(Nat) /\ Len(<<a, b, c, d>>) \in 0 .. 4
    OBVIOUS
  <1>4. Char.space \in Nat /\ Char.G \in Nat /\ Char.i \in Nat /\ Char.B \in Nat /\ Char.M \in Nat /\ Char.K \in Nat
    BY Characters
  <1>5. Units[1].suffix \in Seq(Nat) /\ Len(Units[1].suffix) \in 0 .. 4
    BY <1>2, <1>3, <1>4, Zenon
  <1>6. Units[2].suffix \in Seq(Nat) /\ Len(Units[2].suffix) \in 0 .. 4
    BY <1>2, <1>3, <1>4, Zenon
  <1>7. Units[3].suffix \in Seq(Nat) /\ Len(Units[3].suffix) \in 0 .. 4
    BY <1>2, <1>3, <1>4, Zenon
  <1>8. Units[4].suffix \in Seq(Nat) /\ Len(Units[4].suffix) \in 0 .. 4
    <2>1. <<Char.space, Char.B>> \in Seq(Nat) /\ Len(<<Char.space, Char.B>>) = 2
      BY <1>4, ShortTexts, Zenon
    <2> QED
      BY <1>2, <2>1
  <1> QED
    BY <1>1, <1>5, <1>6, <1>7, <1>8, Zenon DEF IsUnit

\* A size in whole units of the u-th kind: no number of GiB is too long for
\* write_u64_decimal, and no other unit is counted up to the next one.
Measured(u, size) ==
  /\ u \in 1 .. 4 /\ IsUnit(u, Units[u].of)
  /\ Divides(size, Units[u].of)
  /\ size \div Units[u].of < ElevenDigitLimit
  /\ u > 1 => size \div Units[u].of < KiB

\* The facts it follows from.
LEMMA MeasuredBy ==
  ASSUME NEW u \in 1 .. 4, NEW c, IsUnit(u, c), NEW size, Divides(size, c),
         size \div c < ElevenDigitLimit, u > 1 => size \div c < KiB
  PROVE  Measured(u, size)
  <1>1. Units[u].of = c
    BY Zenon DEF IsUnit
  <1> QED
    BY <1>1, Zenon DEF Measured

\* format_size takes a unit of that kind for every size of 64 bits.
LEMMA UnitChosen ==
  ASSUME NEW size \in Nat, size < SizeLimit
  PROVE  Measured(Unit(size), size)
  <1> DEFINE Fits(k) == (size >= Units[k].of \/ k = 4) /\ \A j \in 1 .. k - 1 : size < Units[j].of
  <1>0. /\ Units[1].of = GiB /\ Units[2].of = MiB /\ Units[3].of = KiB /\ Units[4].of = 1
        /\ GiB \in Int /\ MiB \in Int /\ KiB \in Int /\ MiB < GiB /\ KiB < MiB
    <2>1. GiB \in Int /\ MiB \in Int /\ KiB \in Int /\ MiB < GiB /\ KiB < MiB
      BY SMT DEF GiB, MiB, KiB
    <2> QED
      BY <2>1, UnitTexts, Zenon DEF IsUnit
  <1>1. PICK u : u = CHOOSE k \in 1 .. 4 : Fits(k)
    OBVIOUS
  <1>2. \E k \in 1 .. 4 : Fits(k)
    <2>a. 1 \in 1 .. 4 /\ 2 \in 1 .. 4 /\ 3 \in 1 .. 4 /\ 4 \in 1 .. 4
      OBVIOUS
    <2>1. CASE size >= GiB
      <3>1. Fits(1)
        BY <1>0, <2>1
      <3> QED
        BY <2>a, <3>1, Zenon
    <2>2. CASE size < GiB /\ size >= MiB
      <3>1. Fits(2)
        BY <1>0, <2>2
      <3> QED
        BY <2>a, <3>1, Zenon
    <2>3. CASE size < MiB /\ size >= KiB
      <3>1. Fits(3)
        BY <1>0, <2>3
      <3> QED
        BY <2>a, <3>1, Zenon
    <2>4. CASE size < KiB
      <3>1. \A j \in 1 .. 4 - 1 : j = 1 \/ j = 2 \/ j = 3
        OBVIOUS
      <3>2. size < GiB /\ size < MiB
        BY <1>0, <2>4
      <3>3. Fits(4)
        BY <1>0, <2>4, <3>1, <3>2, Zenon
      <3> QED
        BY <2>a, <3>3, Zenon
    <2> QED
      BY <1>0, <2>1, <2>2, <2>3, <2>4
  <1>3. u \in 1 .. 4 /\ Fits(u)
    <2> HIDE DEF Fits
    <2> QED
      BY <1>1, <1>2, Zenon
  <1>a. \A j \in 1 .. u - 1 : size < Units[j].of
    BY <1>3, Zenon
  <1> HIDE DEF Fits
  <1>4. ASSUME u = 1 PROVE Measured(1, size)
    <2>1. GiB = 1073741824
      BY SMT DEF GiB
    <2>2. size \div 1073741824 < ElevenDigitLimit
      BY SMT DEF SizeLimit, ElevenDigitLimit
    <2>3. size \div GiB < ElevenDigitLimit
      BY SMT, <2>1, <2>2
    <2>a. 1 \in 1 .. 4 /\ ~(1 > 1)
      OBVIOUS
    <2> QED
      BY <2>a, <2>3, UnitTexts, DividesGiB, MeasuredBy, Zenon
  <1>5. ASSUME u = 2 PROVE Measured(2, size)
    <2>1. 1 \in 1 .. u - 1 /\ u \in 1 .. 4
      BY <1>5
    <2>2. size < GiB
      BY <1>0, <1>a, <2>1, Zenon
    <2>3. GiB = 1073741824 /\ MiB = 1048576 /\ KiB = 1024
      BY SMT DEF GiB, MiB, KiB
    <2>4. size \div 1048576 < 1024
      BY SMT, <2>2, <2>3
    <2>5. size \div MiB < KiB /\ size \div MiB < ElevenDigitLimit
      <3>1. PICK q \in Int : q = size \div 1048576 /\ q < 1024
        BY SMT, <2>4
      <3>2. q < ElevenDigitLimit
        BY SMT, <3>1 DEF ElevenDigitLimit
      <3> QED
        BY SMT, <2>3, <3>1, <3>2
    <2>a. 2 \in 1 .. 4
      OBVIOUS
    <2> QED
      BY <2>a, <2>5, UnitTexts, DividesMiB, MeasuredBy, Zenon
  <1>6. ASSUME u = 3 PROVE Measured(3, size)
    <2>1. 2 \in 1 .. u - 1 /\ u \in 1 .. 4
      BY <1>6
    <2>2. size < MiB
      BY <1>0, <1>a, <2>1, Zenon
    <2>3. MiB = 1048576 /\ KiB = 1024
      BY SMT DEF MiB, KiB
    <2>4. size \div 1024 < 1024
      BY SMT, <2>2, <2>3
    <2>5. size \div KiB < KiB /\ size \div KiB < ElevenDigitLimit
      <3>1. PICK q \in Int : q = size \div 1024 /\ q < 1024
        BY SMT, <2>4
      <3>2. q < ElevenDigitLimit
        BY SMT, <3>1 DEF ElevenDigitLimit
      <3> QED
        BY SMT, <2>3, <3>1, <3>2
    <2>a. 3 \in 1 .. 4
      OBVIOUS
    <2> QED
      BY <2>a, <2>5, UnitTexts, DividesKiB, MeasuredBy, Zenon
  <1>7. ASSUME u = 4 PROVE Measured(4, size)
    <2>1. 3 \in 1 .. u - 1 /\ u \in 1 .. 4
      BY <1>7
    <2>2. size < KiB
      BY <1>0, <1>a, <2>1, Zenon
    <2>3. size \div 1 < KiB /\ size \div 1 < ElevenDigitLimit
      BY SMT, <2>2 DEF KiB, ElevenDigitLimit
    <2>a. 4 \in 1 .. 4
      OBVIOUS
    <2> QED
      BY <2>a, <2>3, UnitTexts, DividesKiB, MeasuredBy, Zenon
  <1>8. Measured(u, size)
    <2>1. u = 1 \/ u = 2 \/ u = 3 \/ u = 4
      BY <1>3
    <2> QED
      BY <1>4, <1>5, <1>6, <1>7, <2>1, Zenon
  <1>9. Unit(size) = u
    BY <1>1, Zenon DEF Unit, Fits
  <1> QED
    BY <1>8, <1>9, Zenon

\* A part of a text.
PartOf(s, text, lo, hi) ==
  /\ s \in Seq(Nat) /\ s = SubSeq(text, lo, hi)
  /\ Len(s) = (IF lo <= hi THEN hi - lo + 1 ELSE 0)
  /\ \A i \in 1 .. hi - lo + 1 : s[i] = text[lo + i - 1]

\* It is a text.
LEMMA PartExists ==
  ASSUME NEW text, NEW lo \in Int, NEW hi \in Int, \A i \in lo .. hi : text[i] \in Nat
  PROVE  \E s : PartOf(s, text, lo, hi)
  <1>1. PICK s : s = SubSeq(text, lo, hi)
    OBVIOUS
  <1>2. /\ SubSeq(text, lo, hi) \in Seq(Nat)
        /\ Len(SubSeq(text, lo, hi)) = IF lo <= hi THEN hi - lo + 1 ELSE 0
        /\ \A i \in 1 .. hi - lo + 1 : SubSeq(text, lo, hi)[i] = text[lo + i - 1]
    BY SubSeqProperties
  <1>3. PartOf(s, text, lo, hi)
    BY <1>1, <1>2, Zenon DEF PartOf
  <1> QED
    BY <1>3

\* The parts of a text made of two.
LEMMA TwoTexts ==
  ASSUME NEW a \in Seq(Nat), NEW b \in Seq(Nat), Len(a) # 0
  PROVE  /\ SubSeq(a \o b, 1, Len(a)) = a /\ (a \o b)[1] = a[1]
         /\ SubSeq(a \o b, Len(a) + 1, Len(a) + Len(b)) = b
  <1>0. PICK n \in Nat, m \in Nat : n = Len(a) /\ m = Len(b) /\ n # 0
    OBVIOUS
  <1>1. PICK text \in Seq(Nat) : text = a \o b /\ Len(text) = n + m
    BY <1>0, ConcatProperties
  <1>2. \A i \in 1 .. n : text[i] = a[i]
    BY <1>0, <1>1, ConcatProperties
  <1>3. \A i \in 1 .. m : text[n + i] = b[i]
    BY <1>0, <1>1, ConcatProperties
  <1>4. \A i \in 1 .. n + m : text[i] \in Nat
    <2>1. \A i \in 1 .. Len(text) : text[i] \in Nat
      BY <1>1, ElementOfSeq, Zenon
    <2> QED
      BY <1>1, <2>1, Zenon
  <1>5. SubSeq(text, 1, n) = a
    <2>1. \A i \in 1 .. n : text[i] \in Nat
      BY <1>4
    <2>2. PICK s : PartOf(s, text, 1, n)
      <3>1. 1 \in Int /\ n \in Int
        OBVIOUS
      <3> QED
        BY <2>1, <3>1, PartExists, Zenon
    <2>3. s \in Seq(Nat) /\ Len(s) = n /\ \A i \in 1 .. n : s[i] = text[i]
      BY <2>2 DEF PartOf
    <2>4. s = a
      BY <1>0, <1>2, <2>3, SeqEqual
    <2> QED
      BY <2>2, <2>4, Zenon DEF PartOf
  <1>6. SubSeq(text, n + 1, n + m) = b
    <2>1. PICK lo \in Int, hi \in Int : lo = n + 1 /\ hi = n + m
      OBVIOUS
    <2>2. \A i \in lo .. hi : text[i] \in Nat
      BY <1>4, <2>1
    <2>3. PICK s : PartOf(s, text, lo, hi)
      BY <2>2, PartExists, Zenon
    <2>4. s \in Seq(Nat) /\ Len(s) = m
      BY <2>1, <2>3 DEF PartOf
    <2>5. ASSUME NEW i \in 1 .. m PROVE s[i] = b[i]
      <3>1. i \in 1 .. hi - lo + 1 /\ lo + i - 1 = n + i
        BY <2>1
      <3>2. s[i] = text[n + i]
        BY <2>3, <3>1, Zenon DEF PartOf
      <3> QED
        BY <1>3, <3>2
    <2>6. s = b
      BY <1>0, <2>4, <2>5, SeqEqual
    <2> QED
      BY <2>1, <2>3, <2>6, Zenon DEF PartOf
  <1>7. text[1] = a[1]
    <2>1. 1 \in 1 .. n
      BY <1>0
    <2> QED
      BY <1>2, <2>1, Zenon
  <1> QED
    BY <1>0, <1>1, <1>5, <1>6, <1>7, Zenon

\* The line of the size.
LEMMA SizeText ==
  ASSUME NEW size \in Nat, size < SizeLimit
  PROVE  ReadsAs(format_size(size), size) /\ Len(format_size(size)) \in 0 .. 15
  <1>1. PICK u : u = Unit(size) /\ Measured(u, size)
    BY UnitChosen, Zenon
  <1>2. PICK q \in Nat : q = size \div Units[u].of /\ q < ElevenDigitLimit
    BY <1>1, Zenon DEF Measured, Divides
  <1>3. PICK suffix \in Seq(Nat) : suffix = Units[u].suffix /\ Len(suffix) \in 0 .. 4
    BY <1>1, Zenon DEF Measured, IsUnit
  <1>4. PICK digits : digits = write_u64_decimal(<<>>, q, 24) /\ DigitsOf(digits, q)
    BY <1>2, DecimalText, Zenon
  <1>5. digits \in Seq(Nat) /\ Len(digits) \in 1 .. 11
    BY <1>4, Zenon DEF DigitsOf
  <1>6. PICK n \in 1 .. 11, m \in 0 .. 4 : n = Len(digits) /\ m = Len(suffix)
    BY <1>3, <1>5, Zenon
  <1>7. PICK text \in Seq(Nat) : text = digits \o suffix /\ Len(text) = n + m /\ Put(digits, suffix, 24) = text
    <2>1. n + m <= 24 /\ 24 \in Nat
      OBVIOUS
    <2>2. Len(digits) + Len(suffix) <= 24
      BY <1>6, <2>1, Zenon
    <2> QED
      BY <1>3, <1>5, <1>6, <2>1, <2>2, PutFits, Zenon
  <1>8. format_size(size) = text
    BY <1>1, <1>2, <1>3, <1>4, <1>7, Zenon DEF format_size
  <1>9. SubSeq(text, 1, n) = digits /\ SubSeq(text, n + 1, Len(text)) = suffix /\ text[1] = digits[1]
    <2>0. Len(digits) # 0
      <3>1. \A i \in 1 .. 11 : i # 0
        OBVIOUS
      <3> QED
        BY <1>5, <3>1, Zenon
    <2>1. /\ SubSeq(digits \o suffix, 1, Len(digits)) = digits /\ (digits \o suffix)[1] = digits[1]
          /\ SubSeq(digits \o suffix, Len(digits) + 1, Len(digits) + Len(suffix)) = suffix
      BY <1>3, <1>5, <2>0, TwoTexts, Zenon
    <2>2. SubSeq(text, 1, n) = digits /\ SubSeq(text, n + 1, n + m) = suffix /\ text[1] = digits[1]
      BY <1>6, <1>7, <2>1, Zenon
    <2> QED
      BY <1>7, <2>2, Zenon
  <1>10. n \in 1 .. Len(text) /\ Len(text) \in 0 .. 15
    <2>1. n \in 1 .. n + m /\ n + m \in 0 .. 15
      OBVIOUS
    <2> QED
      BY <1>7, <2>1, Zenon
  <1>11. Value(SubSeq(text, 1, n)) = q /\ (n > 1 => text[1] # 0)
    BY <1>4, <1>6, <1>9, Zenon DEF DigitsOf
  <1>12. u \in 1 .. 4 /\ (size - q * Units[u].of \in 0 .. Units[u].of - 1) /\ (u > 1 => q < 1024)
    <2>1. u \in 1 .. 4 /\ (size - q * Units[u].of \in 0 .. Units[u].of - 1) /\ (u > 1 => q < KiB)
      BY <1>1, <1>2, Zenon DEF Measured, Divides
    <2>2. KiB = 1024
      BY DEF KiB
    <2> QED
      BY <2>1, <2>2
  <1>13. ReadsAs(text, size)
    BY <1>3, <1>9, <1>10, <1>11, <1>12, Zenon DEF ReadsAs
  <1> QED
    BY <1>8, <1>10, <1>13, Zenon
-----------------------------------------------------------------------------
\* The pixel rows of the memory map window: content, legend, room for nine regions.
LEMMA WindowRows ==
  content.y = 30 /\ legend_y = 426 /\ max_visible = 9 /\ FONT_HEIGHT = 16
  <1>1. content.y = 30 /\ content.height = 484
    BY DEF content, Size, DEFAULT_TITLE_BAR_HEIGHT, WINDOW_PADDING
  <1>2. legend_height = 88
    BY DEF legend_height, FONT_HEIGHT
  <1> QED
    BY <1>1, <1>2 DEF legend_y, max_visible, row_height, FONT_HEIGHT

ListedRow == [top : Int, region : {MEM_REGIONS[k] : k \in 1 .. Len(MEM_REGIONS)}]

(***************************************************************************)
(* Inductive: the task draws only once kernel_main is through, so the list *)
(* does not change under it; and where it draws depends only on how many   *)
(* rows it has drawn.                                                      *)
(***************************************************************************)
RowsInv ==
  /\ status = "running" => step = 14
  /\ drawing # "start" => status = "running"
  /\ drawing = "start" => rows = <<>>
  /\ rows \in Seq(ListedRow)
  /\ drawing = "rows" =>
       /\ cy = 54 + 40 * Len(rows)
       /\ Len(rows) <= visible
       /\ rows # <<>> => /\ rows[Len(rows)].region = MEM_REGIONS[Len(rows)]
                         /\ rows[Len(rows)].top = cy - 40

\* When the system runs, the list has at least the heap in it.
LEMMA ListWhenRunning ==
  ASSUME ListInv, RowsInv, status = "running"
  PROVE  Len(MEM_REGIONS) \in Nat \ {0}
  <1>1. step = 14 /\ machine \in Machines /\ (step > 6 => MEM_REGIONS = Append(Listed(Taken), HeapInfo))
    BY DEF RowsInv, ListInv
  <1>2. MEM_REGIONS = Append(Listed(Taken), HeapInfo)
    BY <1>1
  <1>3. PICK n \in Nat : n = Taken
    BY <1>1, TakenType
  <1> DEFINE E == {Info(machine.map[k]) : k \in 1 .. n} \cup {HeapInfo}
  <1>4. Listed(n) \in Seq(E) /\ HeapInfo \in E
    BY DEF Listed
  <1> HIDE DEF E
  <1>5. Len(Append(Listed(n), HeapInfo)) = n + 1
    <2>1. Len(Append(Listed(n), HeapInfo)) = Len(Listed(n)) + 1
      BY <1>4, AppendProperties
    <2>2. Len(Listed(n)) = n
      BY ListedLen
    <2> QED
      BY <2>1, <2>2
  <1> QED
    BY <1>2, <1>3, <1>5

\* As many rows are drawn as there are regions, nine at most.
LEMMA VisibleRows ==
  ASSUME NEW n \in Nat, Len(MEM_REGIONS) = n
  PROVE  visible = IF n <= 9 THEN n ELSE 9
  BY MinOfTwo, WindowRows DEF visible

\* kernel_main runs before the task does.
LEMMA RowsBoot ==
  ASSUME ListInv, RowsInv, BootStep
  PROVE  RowsInv'
  <1>1. status = "booting" /\ UNCHANGED <<drawing, cy, rows>>
    BY DEF BootStep, BootNext, Allocate, Collect, AddHeap, set_memory_regions, At, memmapVars
  <1>2. drawing = "start" /\ rows = <<>>
    BY <1>1 DEF RowsInv
  <1>3. status' = "running" => step' = 14
    <2>1. \/ UNCHANGED status
          \/ status' = "panic"
          \/ Advance
      BY DEF BootStep, BootNext, Allocate, Collect, AddHeap, set_memory_regions
    <2>2. Len(kernel_main) = 13
      BY DEF kernel_main
    <2> QED
      BY <1>1, <2>1, <2>2 DEF Advance
  <1> QED
    BY <1>1, <1>2, <1>3 DEF RowsInv

\* The task draws its header, a row or its legend.
LEMMA RowsDrawn ==
  ASSUME ListInv, RowsInv, MemmapStep
  PROVE  RowsInv'
  <1>1. UNCHANGED <<machine, step, status, MEM_REGIONS>>
    BY DEF MemmapStep, bootVars
  <1>2. ListedRow' = ListedRow
    BY <1>1 DEF ListedRow
  <1>3. CASE Header
    <2>1. status = "running" /\ drawing = "start" /\ rows = <<>> /\ rows' = rows
      BY <1>3 DEF Header, RowsInv
    <2>2. PICK n \in Nat \ {0} : n = Len(MEM_REGIONS)
      BY <2>1, ListWhenRunning
    <2>3. visible' = visible /\ visible \in Nat
      BY <1>1, <2>2, VisibleRows DEF visible
    <2>4. drawing' = "rows" => cy' = 54
      BY <1>3, WindowRows DEF Header
    <2>5. drawing' \in {"rows", "drawn"}
      BY <1>3 DEF Header
    <2> QED
      BY <1>1, <1>2, <2>1, <2>3, <2>4, <2>5 DEF RowsInv
  <1>4. CASE Row
    <2>1. /\ status = "running" /\ drawing = "rows" /\ drawing' = drawing
          /\ rows \in Seq(ListedRow) /\ cy = 54 + 40 * Len(rows) /\ Len(rows) < visible
      BY <1>4 DEF Row, RowsInv
    <2>2. PICK n \in Nat \ {0} : n = Len(MEM_REGIONS)
      BY <2>1, ListWhenRunning
    <2>3. visible' = visible /\ visible = IF n <= 9 THEN n ELSE 9
      BY <1>1, <2>2, VisibleRows DEF visible
    <2>4. PICK k \in Nat : k = Len(rows)
      BY <2>1
    <2> DEFINE r == [top |-> cy, region |-> MEM_REGIONS[k + 1]]
    <2>5. r \in ListedRow /\ r.top = cy /\ r.region = MEM_REGIONS[k + 1]
      BY <2>1, <2>2, <2>3, <2>4 DEF ListedRow
    <2>6. rows' = Append(rows, r) /\ cy' = cy + 40
      BY <1>4, <2>1, <2>4, WindowRows DEF Row
    <2> HIDE DEF r
    <2>7. rows' \in Seq(ListedRow) /\ Len(rows') = k + 1 /\ rows'[k + 1] = r /\ rows' # <<>>
      BY <2>1, <2>4, <2>5, <2>6, AppendProperties
    <2> QED
      BY <1>1, <1>2, <2>1, <2>3, <2>4, <2>5, <2>6, <2>7 DEF RowsInv
  <1>5. CASE Legend
    BY <1>1, <1>2, <1>5 DEF Legend, RowsInv
  <1> QED
    BY <1>3, <1>4, <1>5 DEF MemmapStep, MemmapNext

\* It holds in every state.
LEMMA RowsReachable == DesktopSpec => [](ListInv /\ RowsInv)
  <1>1. DesktopInit => ListInv /\ RowsInv
    BY DEF DesktopInit, BootInit, MemmapInit, ListInv, RowsInv
  <1>2. ListInv /\ RowsInv /\ [DesktopNext]_allVars => ListInv' /\ RowsInv'
    <2> SUFFICES ASSUME ListInv, RowsInv, [DesktopNext]_allVars PROVE ListInv' /\ RowsInv'
      OBVIOUS
    <2>1. ListInv'
      BY BootInDesktop, ListStep
    <2>2. CASE UNCHANGED <<bootVars, memmapVars>>
      <3>1. UNCHANGED <<step, status, MEM_REGIONS, drawing, cy, rows>>
        BY <2>2 DEF bootVars, memmapVars
      <3>2. ListedRow' = ListedRow /\ visible' = visible
        BY <3>1 DEF ListedRow, visible
      <3> QED
        BY <2>1, <3>1, <3>2 DEF RowsInv
    <2> QED
      BY <2>1, <2>2, RowsBoot, RowsDrawn DEF DesktopNext, Tick, CounterTurn, allVars
  <1> QED
    BY <1>1, <1>2, PTL DEF DesktopSpec

\* Where the rows are drawn.
LEMMA RowsPlaced ==
  ASSUME ListInv, RowsInv
  PROVE  RowsFit
  <1> SUFFICES ASSUME drawing = "rows" PROVE RowsFit
    BY DEF RowsFit
  <1>1. status = "running" /\ rows \in Seq(ListedRow)
    BY DEF RowsInv
  <1>2. PICK n \in Nat \ {0} : n = Len(MEM_REGIONS)
    BY <1>1, ListWhenRunning
  <1>3. visible = IF n <= 9 THEN n ELSE 9
    BY <1>2, VisibleRows
  <1>4. PICK k \in Nat : k = Len(rows)
    BY <1>1
  <1>5. /\ cy = 54 + 40 * k /\ k <= visible
        /\ rows # <<>> => /\ rows[k].region = MEM_REGIONS[k]
                          /\ rows[k].top = cy - 40
    BY <1>4 DEF RowsInv
  <1>6. cy <= 414 /\ (rows # <<>> => rows[k].top + 4 + 2 * 16 <= cy)
    BY <1>2, <1>3, <1>5
  <1>7. k = visible => k = n \/ cy = 414
    BY <1>2, <1>3, <1>5
  <1> QED
    BY <1>2, <1>4, <1>5, <1>6, <1>7, WindowRows DEF RowsFit

(***************************************************************************)
(* For every memory map the task is given, each row is of the region whose *)
(* turn it is, rows run neither into one another nor into the legend, and  *)
(* none is left out that would fit: the room max_visible reserves per row  *)
(* is the room the drawing takes (draw_memmap).                            *)
(***************************************************************************)
THEOREM RowsAlwaysFit == DesktopSpec => []RowsFit
  <1>1. ListInv /\ RowsInv => RowsFit
    BY RowsPlaced
  <1> QED
    BY <1>1, RowsReachable, PTL

\* A region as the task is given it: no bound is missing a digit and it does not
\* end before it starts.
Regular(r) == r.start \in Address /\ r.end \in Address /\ Bytes(r) \in Nat

\* Its two lines are complete and inside the window.
LEMMA LegibleRegion ==
  ASSUME NEW r, Regular(r)
  PROVE  Legible(r)
  <1>1. r.start \in Address /\ r.end \in Address /\ Bytes(r) \in Nat
    BY Zenon DEF Regular
  <1>2. Bytes(r) < SizeLimit
    BY <1>1, BytesFit, Zenon
  <1>3. ReadsAs(size_str(r), Bytes(r)) /\ Len(size_str(r)) \in 0 .. 15
    BY <1>1, <1>2, SizeText, Zenon DEF size_str
  <1>4. /\ addr_str(r) = Shortened(r.start) \o <<Char.dash>> \o Shortened(r.end)
        /\ Len(addr_str(r)) \in Nat /\ Len(addr_str(r)) <= 37
    BY <1>1, RangeText, Zenon DEF addr_str
  <1>5. content.x = 6 /\ right = 334 /\ FONT_WIDTH = 8
    <2>1. content.x = 6 /\ content.width = 328
      BY DEF content, Size, WINDOW_PADDING
    <2> QED
      BY <2>1 DEF right, FONT_WIDTH
  <1>6. PICK n \in 0 .. 15 : n = Len(size_str(r)) /\ size_x(r) = 334 - (n * 8 + 2)
    BY <1>3, <1>5 DEF size_x
  <1>7. size_x(r) >= 6 + 2 + 12 * 8 /\ size_x(r) + n * 8 <= 334
    <2>1. 334 - (n * 8 + 2) >= 6 + 2 + 12 * 8 /\ 334 - (n * 8 + 2) + n * 8 <= 334
      OBVIOUS
    <2> QED
      BY <1>6, <2>1, Zenon
  <1>8. PICK m \in Nat : m = Len(addr_str(r)) /\ m <= 37
    BY <1>4, Zenon
  <1>9. 6 + 2 + m * 8 <= 334
    BY <1>8
  <1> QED
    BY <1>3, <1>4, <1>5, <1>6, <1>7, <1>8, <1>9, Zenon DEF Legible

\* The size of a region depends on its bounds only.
LEMMA BytesOfInfo ==
  ASSUME NEW r \in BootRegion
  PROVE  /\ r.start \in Address /\ r.end \in Address
         /\ Info(r).start = r.start /\ Info(r).end = r.end
         /\ Bytes(Info(r)) = Bytes(r)
  <1>1. r.start \in Address /\ r.end \in Address
    BY DEF BootRegion, Address
  <1>2. Info(r).start = r.start /\ Info(r).end = r.end
    BY DEF Info
  <1>3. PICK v : Subtracted(v, r)
    BY <1>1, BytesLoop, Zenon
  <1>4. PICK w : Subtracted(w, Info(r))
    <2>1. Info(r).start \in Address /\ Info(r).end \in Address
      BY <1>1, <1>2, Zenon
    <2> QED
      BY <2>1, BytesLoop, Zenon
  <1> DEFINE T == {k \in 0 .. 16 : w[k] = v[k]}
  <1>5. 0 \in T
    <2>1. w[0] = v[0] /\ 0 \in 0 .. 16
      BY <1>3, <1>4 DEF Subtracted, Differences
    <2> QED
      BY <2>1
  <1>6. ASSUME NEW k \in 1 .. 16, k - 1 \in T PROVE k \in T
    <2>1. w[k - 1] = v[k - 1] /\ k \in 0 .. 16
      BY <1>6
    <2>2. /\ w[k] = 16 * w[k - 1] + (Info(r).end[k] - Info(r).start[k])
          /\ v[k] = 16 * v[k - 1] + (r.end[k] - r.start[k])
      BY <1>3, <1>4, Zenon DEF Subtracted, Differences
    <2>3. w[k] = v[k]
      BY <1>2, <2>1, <2>2, Zenon
    <2> QED
      BY <2>1, <2>3
  <1> HIDE DEF T
  <1>7. \A k \in 0 .. 16 : k \in T
    <2>1. 16 \in Nat
      OBVIOUS
    <2> QED
      BY <1>5, <1>6, <2>1, UpTo
  <1>8. w[16] = v[16]
    BY <1>7 DEF T
  <1>9. Bytes(r) = v[16] /\ Bytes(Info(r)) = w[16]
    BY <1>3, <1>4, Zenon DEF Subtracted
  <1> QED
    BY <1>1, <1>2, <1>8, <1>9, Zenon

\* Every region in the list is one of the bootloader's or the heap's.
LEMMA ListedRegular ==
  ASSUME ListInv, RowsInv, status = "running", NEW k \in 1 .. Len(MEM_REGIONS)
  PROVE  Regular(MEM_REGIONS[k])
  <1>1. machine \in Machines /\ MEM_REGIONS = Append(Listed(Taken), HeapInfo)
    BY DEF RowsInv, ListInv
  <1>2. machine.map \in Seq(BootRegion) /\ \A i \in DOMAIN machine.map : Bytes(machine.map[i]) \in Nat
    BY <1>1, MachinesAssumption, RegionsAssumption
  <1>3. PICK n \in Nat : n = Taken /\ n <= Len(machine.map)
    <2>1. PICK m \in Nat : m = Len(machine.map)
      BY <1>2
    <2>2. Min({m, 30}) = IF m <= 30 THEN m ELSE 30
      BY MinOfTwo
    <2>3. Taken = IF m <= 30 THEN m ELSE 30
      BY <2>1, <2>2 DEF Taken
    <2> QED
      BY <2>1, <2>3
  <1>4. Len(Listed(n)) = n /\ \A i \in 1 .. n : Listed(n)[i] = Info(machine.map[i])
    BY ListedLen DEF Listed
  <1> DEFINE E == {Info(machine.map[i]) : i \in 1 .. n} \cup {HeapInfo}
  <1>5. Listed(n) \in Seq(E) /\ HeapInfo \in E
    BY DEF Listed
  <1> HIDE DEF E
  <1>6. /\ Len(MEM_REGIONS) = n + 1 /\ MEM_REGIONS[n + 1] = HeapInfo
        /\ \A i \in 1 .. n : MEM_REGIONS[i] = Info(machine.map[i])
    BY <1>1, <1>3, <1>4, <1>5, AppendProperties
  <1>7. CASE k = n + 1
    <2>1. Bytes(HeapInfo) \in Nat
      BY HeapRegion
    <2> QED
      BY <1>6, <1>7, <2>1, HeapRegion, Zenon DEF Regular
  <1>8. CASE k \in 1 .. n
    <2>1. PICK r \in BootRegion : r = machine.map[k] /\ Bytes(r) \in Nat
      <3>1. k \in DOMAIN machine.map
        BY <1>2, <1>3, <1>8
      <3>2. machine.map[k] \in BootRegion
        BY <1>2, <3>1
      <3> QED
        BY <1>2, <3>1, <3>2, Zenon
    <2>2. MEM_REGIONS[k] = Info(r)
      BY <1>6, <1>8, <2>1, Zenon
    <2> QED
      BY <2>1, <2>2, BytesOfInfo, Zenon DEF Regular
  <1>9. k = n + 1 \/ k \in 1 .. n
    BY <1>3, <1>6
  <1> QED
    BY <1>7, <1>8, <1>9

(***************************************************************************)
(* For every screen and every memory map with whole regions, the size of a *)
(* row reads as a whole number of the largest fitting unit, rounded down,  *)
(* both bounds are written in full, whatever their length, and neither     *)
(* line leaves the window (draw_memmap, format_size, write_hex).           *)
(***************************************************************************)
THEOREM RowsAlwaysLegible == DesktopSpec => []RowsShowRegions
  <1>1. ListInv /\ RowsInv => RowsShowRegions
    <2> SUFFICES ASSUME ListInv, RowsInv PROVE RowsShowRegions
      OBVIOUS
    <2>1. RowsFit
      BY RowsPlaced
    <2>2. ASSUME drawing = "rows", rows # <<>> PROVE Legible(rows[Len(rows)].region)
      <3>1. /\ status = "running" /\ rows \in Seq(ListedRow)
            /\ rows[Len(rows)].region = MEM_REGIONS[Len(rows)] /\ Len(rows) <= visible
        BY <2>2 DEF RowsInv
      <3>2. PICK n \in Nat \ {0} : n = Len(MEM_REGIONS)
        BY <3>1, ListWhenRunning
      <3>3. visible = IF n <= 9 THEN n ELSE 9
        BY <3>2, VisibleRows
      <3>4. PICK k \in Nat : k = Len(rows) /\ k # 0
        BY <2>2, <3>1
      <3>5. k \in 1 .. Len(MEM_REGIONS)
        BY <3>1, <3>2, <3>3, <3>4
      <3>6. Regular(MEM_REGIONS[k])
        BY <3>1, <3>5, ListedRegular
      <3> QED
        BY <3>1, <3>4, <3>6, LegibleRegion, Zenon
    <2> QED
      BY <2>1, <2>2, Zenon DEF RowsShowRegions
  <1> QED
    BY <1>1, RowsReachable, PTL
=============================================================================
