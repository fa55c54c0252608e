-------------------------- MODULE InterruptsProofs --------------------------
(***************************************************************************)
(* No handler spins on a lock of the code below it, save an exception      *)
(* raised by printing: for every number of faults and every nesting.       *)
(* Then what the keyboard's handler puts into its queue: that it decodes   *)
(* to what was typed, for every size of the queue and however much is      *)
(* typed, and what a byte dropped by a full queue does to the modifier.    *)
(***************************************************************************)
EXTENDS Interrupts, KeyInput, SequenceTheorems, WellFoundedInduction, TLAPS

AllLocks == {"SERIAL", "FB_STATE", "PICS", "ALLOCATOR", "WM", "MEM_REGIONS", "SCHEDULER", "KEYBOARD"}

\* What code outside handlers may lock once interrupts have been enabled.
AfterEnable == AllLocks \ {"SERIAL", "PICS"}

\* At most two locks, nested, the first of them taken first.
Nested(c, locks) ==
  \E a, b \in locks :
    a # b /\ <<c.held, c.locks>> \in
      {<<<<>>, <<>>>>, <<<<>>, <<a>>>>, <<<<a>>, <<>>>>,
       <<<<>>, <<a, b>>>>, <<<<a>>, <<b>>>>, <<<<a, b>>, <<>>>>}

\* One lock, wanted or taken.
Single(c, a) == <<c.held, c.locks>> \in {<<<<>>, <<a>>>>, <<<<a>>, <<>>>>}

Contexts ==
  [code : {"base"} \cup Range(Lines) \cup Exceptions, masked : BOOLEAN,
   locks : Seq(AllLocks), held : Seq(AllLocks), was : BOOLEAN, back : BOOLEAN]

StackType ==
  /\ stack \in Seq(Contexts)
  /\ Len(stack) > 0
  /\ at \in Nat \ {0}
  /\ intr \in BOOLEAN

\* Who may be where on the stack, and with which locks.
BaseShape ==
  /\ stack[1].code = "base"
  /\ Nested(stack[1], AllLocks)
  /\ at > 4 => Nested(stack[1], AfterEnable)

AboveShape ==
  \A i \in 2 .. Len(stack) :
    \/ stack[i].code \in Range(Lines) /\ i = 2 /\ at > 4 /\ Single(stack[i], "PICS")
    \/ stack[i].code \in Exceptions /\ Single(stack[i], "SERIAL")

\* The flag is set in the lowest context only, and only after it was enabled.
FlagKnown ==
  /\ intr => Len(stack) = 1 /\ at > 4
  /\ stack[1].was => at > 4
  /\ ~stack[1].back
  /\ \A i \in 2 .. Len(stack) : stack[i].back => i = 2 /\ at > 4

Prints(i) == "SERIAL" \in Range(stack[i].held)

\* Code that prints is on top, or right below the exception it raised.
PrintOnTop ==
  /\ \A i \in 1 .. Len(stack) - 2 : ~Prints(i)
  /\ Len(stack) > 1 => ~(Prints(Len(stack)) /\ Prints(Len(stack) - 1))

StackInv == StackType /\ BaseShape /\ AboveShape /\ FlagKnown /\ PrintOnTop
-----------------------------------------------------------------------------
\* What the lists of at most two locks contain.
LEMMA RangeOfLocks ==
  ASSUME NEW a, NEW b
  PROVE  /\ Range(<<>>) = {} /\ Range(<<a>>) = {a} /\ Range(<<a, b>>) = {a, b}
  BY DEF Range

\* Single and Nested, spelled out.
LEMMA SingleCases ==
  ASSUME NEW c, NEW a, Single(c, a)
  PROVE  (c.held = <<>> /\ c.locks = <<a>>) \/ (c.held = <<a>> /\ c.locks = <<>>)
  BY DEF Single

\* Of at most two nested locks it holds none, one or both, and wants the rest.
LEMMA NestedCases ==
  ASSUME NEW c, NEW locks, Nested(c, locks)
  PROVE  \E a, b \in locks : a # b /\
           \/ c.held = <<>> /\ c.locks = <<>>
           \/ c.held = <<>> /\ c.locks = <<a>>
           \/ c.held = <<a>> /\ c.locks = <<>>
           \/ c.held = <<>> /\ c.locks = <<a, b>>
           \/ c.held = <<a>> /\ c.locks = <<b>>
           \/ c.held = <<a, b>> /\ c.locks = <<>>
  BY DEF Nested

\* Nested locks are all of the given ones, and no lock is wanted twice.
LEMMA NestedLocks ==
  ASSUME NEW c, NEW locks, Nested(c, locks)
  PROVE  /\ Range(c.held) \subseteq locks
         /\ c.locks # <<>> => Head(c.locks) \in locks \ Range(c.held)
  <1>1. PICK a \in locks, b \in locks : a # b /\
           \/ c.held = <<>> /\ c.locks = <<>>
           \/ c.held = <<>> /\ c.locks = <<a>>
           \/ c.held = <<a>> /\ c.locks = <<>>
           \/ c.held = <<>> /\ c.locks = <<a, b>>
           \/ c.held = <<a>> /\ c.locks = <<b>>
           \/ c.held = <<a, b>> /\ c.locks = <<>>
    BY NestedCases
  <1>2. Range(<<>>) = {} /\ Range(<<a>>) = {a} /\ Range(<<a, b>>) = {a, b}
    BY RangeOfLocks
  <1>3. Head(<<a>>) = a /\ Head(<<b>>) = b /\ Head(<<a, b>>) = a
    OBVIOUS
  <1> QED
    BY <1>1, <1>2, <1>3

\* Taking the next lock leaves them nested.
LEMMA NestedTake ==
  ASSUME NEW c, NEW d, NEW locks, Nested(c, locks), c.locks # <<>>,
         d.held = Append(c.held, Head(c.locks)), d.locks = Tail(c.locks)
  PROVE  Nested(d, locks)
  <1>1. PICK a \in locks, b \in locks : a # b /\
           \/ c.held = <<>> /\ c.locks = <<a>>
           \/ c.held = <<>> /\ c.locks = <<a, b>>
           \/ c.held = <<a>> /\ c.locks = <<b>>
    BY NestedCases
  <1>2. /\ Head(<<a>>) = a /\ Head(<<b>>) = b /\ Head(<<a, b>>) = a
        /\ Tail(<<a>>) = <<>> /\ Tail(<<b>>) = <<>> /\ Tail(<<a, b>>) = <<b>>
    OBVIOUS
  <1>4. Append(<<>>, a) = <<a>>
    OBVIOUS
  <1>5. Append(<<a>>, b) = <<a, b>>
    <2>1. <<a>> \in Seq({a, b}) /\ <<a, b>> \in Seq({a, b}) /\ Len(<<a>>) = 1 /\ Len(<<a, b>>) = 2
      OBVIOUS
    <2>2. /\ Append(<<a>>, b) \in Seq({a, b}) /\ Len(Append(<<a>>, b)) = 2
          /\ Append(<<a>>, b)[1] = a /\ Append(<<a>>, b)[2] = b
      BY <2>1, AppendProperties
    <2>3. \A i \in 1 .. 2 : Append(<<a>>, b)[i] = <<a, b>>[i]
      BY <2>2
    <2> QED
      BY <2>1, <2>2, <2>3, SeqEqual
  <1>3. <<d.held, d.locks>> \in {<<<<a>>, <<>>>>, <<<<a>>, <<b>>>>, <<<<a, b>>, <<>>>>}
    BY <1>1, <1>2, <1>4, <1>5
  <1> QED
    BY <1>1, <1>3 DEF Nested

\* A context with a single lock that takes it is still one, and holds it.
LEMMA SingleTake ==
  ASSUME NEW c, NEW d, NEW a, Single(c, a), c.locks # <<>>,
         d.held = Append(c.held, Head(c.locks)), d.locks = Tail(c.locks)
  PROVE  Single(d, a) /\ Range(d.held) = {a}
  <1>1. c.held = <<>> /\ c.locks = <<a>>
    BY SingleCases
  <1>2. d.held = <<a>> /\ d.locks = <<>>
    BY <1>1
  <1> QED
    BY <1>2, RangeOfLocks DEF Single

\* The routines nest their locks; those used once interrupts have been enabled
\* lock neither what the handlers nor what the exceptions lock.
LEMMA RoutinesNest ==
  ASSUME NEW r \in DOMAIN Routines
  PROVE  /\ Routines[r].masked \in BOOLEAN /\ Routines[r].locks \in Seq(AllLocks)
         /\ \E a, b \in AllLocks : a # b /\ Routines[r].locks \in {<<a>>, <<a, b>>}
         /\ r \notin {"serial_init", "init_pics"} =>
              \E a, b \in AfterEnable : a # b /\ Routines[r].locks \in {<<a>>, <<a, b>>}
  <1>1. Routines[r].masked \in BOOLEAN
    <2>1. r \in {"serial_init", "framebuffer_init", "init_pics", "allocator_init", "alloc", 
           "wm_init", "set_memory_regions", "task_init", "spawn", "try_read_key"} =>
            Routines[r].masked = FALSE
      BY DEF Routines, Routine
    <2>2. r \in {"info", "create_window", "with_wm", "composite", "draw_memmap", "yield_now"} =>
            Routines[r].masked = TRUE
      BY DEF Routines, Routine
    <2>3. Routines[r].masked = FALSE \/ Routines[r].masked = TRUE
      BY <2>1, <2>2 DEF Routines
    <2> QED
      BY <2>3
  <1>2. Routines[r].locks \in
          {<<"SERIAL">>, <<"PICS">>, <<"FB_STATE">>, <<"ALLOCATOR">>, <<"WM">>, <<"MEM_REGIONS">>,
           <<"SCHEDULER">>, <<"KEYBOARD">>, <<"WM", "ALLOCATOR">>, <<"WM", "FB_STATE">>,
           <<"WM", "MEM_REGIONS">>, <<"SCHEDULER", "ALLOCATOR">>}
    BY DEF Routines, Routine
  <1>3. r \notin {"serial_init", "init_pics"} =>
          Routines[r].locks # <<"SERIAL">> /\ Routines[r].locks # <<"PICS">>
    BY DEF Routines, Routine
  <1>4. \E a, b \in AllLocks : a # b /\ Routines[r].locks \in {<<a>>, <<a, b>>}
    BY <1>2 DEF AllLocks
  <1>5. r \notin {"serial_init", "init_pics"} =>
          \E a, b \in AfterEnable : a # b /\ Routines[r].locks \in {<<a>>, <<a, b>>}
    BY <1>2, <1>3 DEF AllLocks, AfterEnable
  <1>6. Routines[r].locks \in Seq(AllLocks)
    <2>1. PICK a \in AllLocks, b \in AllLocks : Routines[r].locks \in {<<a>>, <<a, b>>}
      BY <1>4
    <2>2. <<a>> \in Seq(AllLocks) /\ <<a, b>> \in Seq(AllLocks)
      OBVIOUS
    <2> QED
      BY <2>1, <2>2
  <1> QED
    BY <1>1, <1>4, <1>5, <1>6

\* kernel_main enables interrupts once, after both initialisations; all else is a routine.
LEMMA KernelMainCalls ==
  ASSUME NEW k \in 1 .. Len(kernel_main)
  PROVE  /\ kernel_main[k] = "enable" <=> k = 4
         /\ k # 4 => kernel_main[k] \in DOMAIN Routines
         /\ k > 3 => kernel_main[k] \notin {"serial_init", "init_pics"}
  BY DEF kernel_main, Routines

\* The tasks call routines, and none of the two initialisations.
LEMMA TasksCall ==
  ASSUME NEW r \in InTasks
  PROVE  r \in DOMAIN Routines /\ r \notin {"serial_init", "init_pics"}
  BY DEF InTasks, Routines

\* The context of an exception wants to print.
LEMMA PrintContext ==
  ASSUME NEW e \in Exceptions, NEW entry \in BOOLEAN, NEW back \in BOOLEAN
  PROVE  /\ Context(e, _print, entry, back) \in Contexts
         /\ Context(e, _print, entry, back).code = e
         /\ Context(e, _print, entry, back).held = <<>>
         /\ Context(e, _print, entry, back).locks = <<"SERIAL">>
         /\ Context(e, _print, entry, back).back = back
  <1>1. <<"SERIAL">> \in Seq(AllLocks)
    BY DEF AllLocks
  <1> QED
    BY <1>1 DEF Context, _print, Routine, Contexts

\* A routine that starts: the stack is its context alone.
LEMMA CallStep ==
  ASSUME StackInv, stack = <<Base>>, NEW r \in DOMAIN Routines, Calls(r), at' \in Nat, at' >= at,
         at' > 4 => r \notin {"serial_init", "init_pics"}
  PROVE  StackInv'
  <1> DEFINE c == Context("base", Routines[r], intr, FALSE)
  <1>1. /\ stack' = <<c>> /\ intr' = (intr /\ ~Routines[r].masked) /\ at \in Nat \ {0} /\ intr \in BOOLEAN
        /\ intr => at > 4
    BY DEF Calls, StackInv, StackType, FlagKnown
  <1>2. /\ c \in Contexts /\ c.code = "base" /\ c.held = <<>> /\ c.locks = Routines[r].locks
        /\ c.was = intr /\ c.back = FALSE
    BY <1>1, RoutinesNest DEF Context, Contexts
  <1>3. Nested(c, AllLocks) /\ (at' > 4 => Nested(c, AfterEnable))
    <2>1. \E a, b \in AllLocks : a # b /\ c.locks \in {<<a>>, <<a, b>>}
      BY <1>2, RoutinesNest
    <2>2. at' > 4 => \E a, b \in AfterEnable : a # b /\ c.locks \in {<<a>>, <<a, b>>}
      BY <1>2, RoutinesNest
    <2> HIDE DEF c
    <2> QED
      BY <1>2, <2>1, <2>2 DEF Nested
  <1> HIDE DEF c
  <1>4. stack' \in Seq(Contexts) /\ Len(stack') = 1 /\ stack'[1] = c
    BY <1>1, <1>2
  <1>5. StackType'
    BY <1>1, <1>4 DEF StackType
  <1>6. BaseShape' /\ AboveShape'
    BY <1>2, <1>3, <1>4 DEF BaseShape, AboveShape
  <1>7. FlagKnown'
    BY <1>1, <1>2, <1>4 DEF FlagKnown
  <1>8. PrintOnTop'
    BY <1>4 DEF PrintOnTop
  <1> QED
    BY <1>5, <1>6, <1>7, <1>8 DEF StackInv

\* The idle base holds nothing.
LEMMA BaseFits ==
  /\ Base \in Contexts /\ Base.code = "base" /\ Base.held = <<>> /\ Base.locks = <<>>
  /\ Base.was = FALSE /\ Base.back = FALSE
  /\ Nested(Base, AllLocks) /\ Nested(Base, AfterEnable)
  <1>1. /\ Base \in Contexts /\ Base.code = "base" /\ Base.held = <<>> /\ Base.locks = <<>>
        /\ Base.was = FALSE /\ Base.back = FALSE
    BY DEF Base, Context, Routine, Contexts
  <1>2. "WM" \in AllLocks /\ "FB_STATE" \in AllLocks /\ "WM" \in AfterEnable /\ "FB_STATE" \in AfterEnable
    BY DEF AllLocks, AfterEnable
  <1> QED
    BY <1>1, <1>2 DEF Nested

\* Entering a handler: the contexts below stay as they are.
LEMMA PushStep ==
  ASSUME StackInv, NEW c \in Contexts, stack' = Append(stack, c), at' = at, intr' = FALSE, ~Spinning, Running,
         \/ c.code \in Range(Lines) /\ Len(stack) = 1 /\ at > 4 /\ c.held = <<>> /\ c.locks = <<"PICS">>
         \/ c.code \in Exceptions /\ c.held = <<>> /\ c.locks = <<"SERIAL">>,
         c.back => Len(stack) = 1 /\ at > 4
  PROVE  StackInv'
  <1>1. PICK n \in Nat \ {0} : n = Len(stack)
    BY DEF StackInv, StackType
  <1>2. /\ stack \in Seq(Contexts) /\ stack' \in Seq(Contexts) /\ Len(stack') = n + 1 /\ stack'[n + 1] = c
        /\ \A i \in 1 .. n : stack'[i] = stack[i]
    BY <1>1, AppendProperties DEF StackInv, StackType
  <1>3. StackType'
    <2>1. intr' \in BOOLEAN
      OBVIOUS
    <2> QED
      BY <1>1, <1>2, <2>1 DEF StackInv, StackType
  <1>4. BaseShape'
    BY <1>1, <1>2 DEF StackInv, BaseShape
  <1>5. AboveShape'
    <2>1. Single(c, "PICS") \/ Single(c, "SERIAL")
      BY DEF Single
    <2>2. ASSUME NEW i \in 2 .. n + 1
          PROVE  \/ stack'[i].code \in Range(Lines) /\ i = 2 /\ at > 4 /\ Single(stack'[i], "PICS")
                 \/ stack'[i].code \in Exceptions /\ Single(stack'[i], "SERIAL")
      <3>1. CASE i = n + 1
        BY <1>1, <1>2, <3>1 DEF Single
      <3>2. CASE i \in 2 .. n
        BY <1>1, <1>2, <3>2 DEF StackInv, AboveShape
      <3> QED
        BY <1>1, <3>1, <3>2
    <2> QED
      BY <1>2, <2>2 DEF AboveShape
  <1>6. FlagKnown'
    <2>1. ASSUME NEW i \in 2 .. n + 1, stack'[i].back PROVE i = 2 /\ at > 4
      <3>1. CASE i = n + 1
        BY <1>1, <1>2, <2>1, <3>1
      <3>2. CASE i \in 2 .. n
        BY <1>1, <1>2, <2>1, <3>2 DEF StackInv, FlagKnown
      <3> QED
        BY <1>1, <3>1, <3>2
    <2> QED
      BY <1>1, <1>2, <2>1 DEF StackInv, FlagKnown
  <1>7. PrintOnTop'
    <2>1. Range(c.held) = {}
      BY RangeOfLocks
    <2>2. ASSUME n > 1 PROVE "SERIAL" \notin Range(stack[n - 1].held)
      <3>1. CASE stack[n].code \in Range(Lines) /\ n = 2 /\ at > 4
        <4>1. Range(stack[1].held) \subseteq AfterEnable
          BY <3>1, NestedLocks DEF StackInv, BaseShape
        <4> QED
          BY <3>1, <4>1 DEF AfterEnable
      <3>2. CASE Single(stack[n], "SERIAL")
        <4>1. CASE stack[n].held = <<"SERIAL">>
          <5>1. Prints(n)
            BY <4>1, RangeOfLocks DEF Prints
          <5> QED
            BY <1>1, <2>2, <5>1 DEF StackInv, PrintOnTop, Prints
        <4>2. CASE stack[n].locks = <<"SERIAL">>
          <5>1. Top = stack[n]
            BY <1>1 DEF Top, Last
          <5>2. "SERIAL" \notin Locked
            BY <4>2, <5>1 DEF Spinning
          <5> QED
            BY <1>1, <2>2, <5>2 DEF Locked, HeldBelow
        <4> QED
          BY <3>2, <4>1, <4>2, SingleCases
      <3> QED
        BY <1>1, <2>2, <3>1, <3>2 DEF StackInv, AboveShape
    <2>3. ASSUME NEW i \in 1 .. n - 1 PROVE "SERIAL" \notin Range(stack'[i].held)
      <3>1. CASE i = n - 1
        BY <1>2, <2>2, <3>1
      <3>2. CASE i \in 1 .. n - 2
        BY <1>1, <1>2, <3>2 DEF StackInv, PrintOnTop, Prints
      <3> QED
        BY <1>1, <3>1, <3>2
    <2> QED
      BY <1>2, <2>1, <2>3 DEF PrintOnTop, Prints
  <1> QED
    BY <1>3, <1>4, <1>5, <1>6, <1>7 DEF StackInv

\* Returning from a handler: the same contexts, one fewer.
LEMMA PopStep ==
  ASSUME StackInv, stack' = Front(stack), Len(stack) > 1, at' = at, intr' = Top.back
  PROVE  StackInv'
  <1>1. PICK n \in Nat : n = Len(stack) - 1
    BY DEF StackInv, StackType
  <1>2. /\ stack \in Seq(Contexts) /\ stack' \in Seq(Contexts) /\ Len(stack') = n /\ Len(stack) = n + 1
        /\ n > 0 /\ \A i \in 1 .. n : stack'[i] = stack[i]
    BY <1>1 DEF StackInv, StackType, Front
  <1>3. Top = stack[n + 1] /\ stack[n + 1] \in Contexts
    BY <1>2 DEF Top, Last
  <1>4. StackType'
    BY <1>2, <1>3 DEF StackInv, StackType, Contexts
  <1>5. BaseShape' /\ AboveShape'
    BY <1>2 DEF StackInv, BaseShape, AboveShape
  <1>6. FlagKnown'
    BY <1>2, <1>3 DEF StackInv, FlagKnown
  <1>7. PrintOnTop'
    BY <1>2 DEF StackInv, PrintOnTop, Prints
  <1> QED
    BY <1>4, <1>5, <1>6, <1>7 DEF StackInv

\* The context on top takes its next lock.
LEMMA LockStep == StackInv /\ Lock => StackInv'
  <1> SUFFICES ASSUME StackInv, Lock PROVE StackInv'
    OBVIOUS
  <1> DEFINE d == [Top EXCEPT !.held = Append(@, Head(Top.locks)), !.locks = Tail(@)]
  <1>1. PICK n \in Nat \ {0} : n = Len(stack)
    BY DEF StackInv, StackType
  <1>2. Top = stack[n] /\ stack[n] \in Contexts /\ stack \in Seq(Contexts)
    BY <1>1 DEF Top, Last, StackInv, StackType
  <1>3. /\ Top.locks # <<>> /\ Head(Top.locks) \notin Locked /\ stack' = [stack EXCEPT ![n] = d]
        /\ at' = at /\ intr' = intr
    BY <1>1 DEF Lock, SetTop
  <1>4. /\ d \in Contexts /\ d.code = Top.code /\ d.was = Top.was /\ d.back = Top.back
        /\ d.held = Append(Top.held, Head(Top.locks)) /\ d.locks = Tail(Top.locks)
    <2>1. Head(Top.locks) \in AllLocks /\ Tail(Top.locks) \in Seq(AllLocks)
      BY <1>2, <1>3 DEF Contexts
    <2>2. Append(Top.held, Head(Top.locks)) \in Seq(AllLocks)
      BY <1>2, <2>1 DEF Contexts
    <2> QED
      BY <1>2, <2>1, <2>2 DEF Contexts
  <1> HIDE DEF d
  <1>5. /\ stack' \in Seq(Contexts) /\ Len(stack') = n /\ stack'[n] = d
        /\ \A i \in 1 .. n : i # n => stack'[i] = stack[i]
    BY <1>1, <1>2, <1>3, <1>4
  <1>6. StackType'
    BY <1>1, <1>3, <1>5 DEF StackInv, StackType
  <1>7. BaseShape'
    <2>1. CASE n = 1
      <3>1. Top.code = "base" /\ Nested(Top, AllLocks) /\ (at > 4 => Nested(Top, AfterEnable))
        BY <1>2, <2>1 DEF StackInv, BaseShape
      <3>2. Nested(d, AllLocks) /\ (at > 4 => Nested(d, AfterEnable))
        BY <1>3, <1>4, <3>1, NestedTake
      <3> QED
        BY <1>3, <1>4, <1>5, <2>1, <3>1, <3>2 DEF BaseShape
    <2>2. CASE n # 1
      BY <1>1, <1>3, <1>5, <2>2 DEF StackInv, BaseShape
    <2> QED
      BY <2>1, <2>2
  <1>8. /\ Single(Top, "PICS") => Single(d, "PICS")
        /\ Single(Top, "SERIAL") => Single(d, "SERIAL")
    BY <1>3, <1>4, SingleTake
  <1>9. AboveShape'
    <2>1. ASSUME NEW i \in 2 .. n
          PROVE  \/ stack'[i].code \in Range(Lines) /\ i = 2 /\ at > 4 /\ Single(stack'[i], "PICS")
                 \/ stack'[i].code \in Exceptions /\ Single(stack'[i], "SERIAL")
      <3>1. \/ stack[i].code \in Range(Lines) /\ i = 2 /\ at > 4 /\ Single(stack[i], "PICS")
            \/ stack[i].code \in Exceptions /\ Single(stack[i], "SERIAL")
        BY <1>1 DEF StackInv, AboveShape
      <3> QED
        BY <1>1, <1>2, <1>4, <1>5, <1>8, <3>1
    <2> QED
      BY <1>3, <1>5, <2>1 DEF AboveShape
  <1>10. FlagKnown'
    <2>1. \A i \in 1 .. n : stack'[i].was = stack[i].was /\ stack'[i].back = stack[i].back
      BY <1>1, <1>2, <1>4, <1>5
    <2> QED
      BY <1>1, <1>3, <1>5, <2>1 DEF StackInv, FlagKnown
  <1>11. PrintOnTop'
    <2>1. ASSUME NEW i \in 1 .. n - 2 PROVE ~Prints(i)'
      BY <1>1, <1>5 DEF StackInv, PrintOnTop, Prints
    <2>2. ASSUME n > 1, "SERIAL" \in Range(d.held) PROVE "SERIAL" \notin Range(stack[n - 1].held)
      <3>1. CASE Single(Top, "PICS")
        <4>1. Range(d.held) = {"PICS"}
          BY <1>3, <1>4, <3>1, SingleTake
        <4> QED
          BY <2>2, <4>1
      <3>2. CASE Single(Top, "SERIAL")
        <4>1. Head(Top.locks) = "SERIAL"
          BY <1>3, <3>2, SingleCases
        <4> QED
          BY <1>1, <1>3, <2>2, <4>1 DEF Locked, HeldBelow
      <3> QED
        BY <1>1, <1>2, <2>2, <3>1, <3>2 DEF StackInv, AboveShape
    <2> QED
      BY <1>1, <1>5, <2>1, <2>2 DEF PrintOnTop, Prints
  <1> QED
    BY <1>6, <1>7, <1>9, <1>10, <1>11 DEF StackInv

\* Where a context above the lowest one returns to.
LEMMA AboveBase ==
  ASSUME StackInv, Top.code # "base"
  PROVE  Len(stack) > 1
  BY DEF StackInv, StackType, BaseShape, Top, Last

\* StackInv is inductive.
LEMMA StackStep == StackInv /\ [Next]_vars => StackInv'
  <1> SUFFICES ASSUME StackInv, [Next]_vars PROVE StackInv'
    OBVIOUS
  <1>0. stack \in Seq(Contexts) /\ Len(stack) > 0 /\ at \in Nat \ {0} /\ intr \in BOOLEAN
    BY DEF StackInv, StackType
  <1>1. CASE Boot
    <2>1. CASE at = 4
      <3>1. stack' = stack /\ stack = <<Base>> /\ at' = 5 /\ intr' = TRUE
        BY <1>1, <2>1, KernelMainCalls DEF Boot, AtBase, kernel_main
      <3>2. stack' = <<Base>> /\ Len(stack') = 1 /\ stack'[1] = Base /\ stack' \in Seq(Contexts)
        BY <3>1, BaseFits
      <3> QED
        BY <3>1, <3>2, BaseFits DEF StackInv, StackType, BaseShape, AboveShape, FlagKnown, PrintOnTop
    <2>2. CASE at # 4
      <3>1. at \in 1 .. Len(kernel_main) /\ Len(kernel_main) \in Nat
        BY <1>0, <1>1 DEF Boot, kernel_main
      <3>2. /\ kernel_main[at] # "enable" /\ kernel_main[at] \in DOMAIN Routines
            /\ at > 3 => kernel_main[at] \notin {"serial_init", "init_pics"}
        BY <2>2, <3>1, KernelMainCalls
      <3>3. Calls(kernel_main[at]) /\ at' = at + 1 /\ stack = <<Base>>
        BY <1>1, <3>2 DEF Boot, AtBase
      <3> QED
        BY <1>0, <3>2, <3>3, CallStep
    <2> QED
      BY <2>1, <2>2
  <1>2. CASE Call
    <2>1. PICK r \in InTasks : Calls(r)
      BY <1>2 DEF Call
    <2> QED
      BY <1>0, <1>2, <2>1, TasksCall, CallStep DEF Call, AtBase
  <1>3. CASE SwitchTask
    <2>1. stack' = stack /\ stack = <<Base>> /\ at' = at /\ intr' \in BOOLEAN /\ at > 4
      BY <1>0, <1>3 DEF SwitchTask, AtBase, kernel_main
    <2>2. stack' = <<Base>> /\ Len(stack') = 1 /\ stack'[1] = Base /\ stack' \in Seq(Contexts)
      BY <2>1, BaseFits
    <2> QED
      BY <1>0, <2>1, <2>2, BaseFits DEF StackInv, StackType, BaseShape, AboveShape, FlagKnown, PrintOnTop
  <1>4. CASE Lock
    BY <1>4, LockStep
  <1>5. CASE Return
    <2>1. stack' = <<Base>> /\ at' = at /\ intr' = (IF Top.masked THEN Top.was ELSE intr) /\ Top.code = "base"
      BY <1>5 DEF Return
    <2>2. Len(stack) = 1 /\ Top = stack[1] /\ stack[1] \in Contexts
      <3>1. \A i \in 2 .. Len(stack) : stack[i].code # "base"
        BY DEF StackInv, AboveShape, Lines, Range, Exceptions
      <3> QED
        BY <1>0, <2>1, <3>1 DEF Top, Last
    <2>3. intr' \in BOOLEAN /\ (intr' => at > 4)
      BY <1>0, <2>1, <2>2 DEF StackInv, FlagKnown, Contexts
    <2>4. stack' = <<Base>> /\ Len(stack') = 1 /\ stack'[1] = Base /\ stack' \in Seq(Contexts)
      BY <2>1, BaseFits
    <2> QED
      BY <1>0, <2>1, <2>3, <2>4, BaseFits
      DEF StackInv, StackType, BaseShape, AboveShape, FlagKnown, PrintOnTop
  <1>6. CASE HandlerReturn
    <2>1. Top.code # "base"
      BY <1>6 DEF HandlerReturn, Range, Lines
    <2> QED
      BY <1>6, <2>1, AboveBase, PopStep DEF HandlerReturn
  <1>7. CASE ExceptionReturn
    <2>1. Top.code # "base"
      BY <1>7 DEF ExceptionReturn, Exceptions
    <2> QED
      BY <1>7, <2>1, AboveBase, PopStep DEF ExceptionReturn
  <1>8. CASE \E line \in Range(Lines) : Request(line)
    <2>1. stack' = stack /\ at' = at /\ intr' = intr
      BY <1>8 DEF Request
    <2> QED
      BY <2>1 DEF StackInv, StackType, BaseShape, AboveShape, FlagKnown, PrintOnTop, Prints
  <1>9. CASE \E i \in DOMAIN Lines : Interrupt(i)
    <2>1. PICK i \in DOMAIN Lines : Interrupt(i)
      BY <1>9
    <2> DEFINE c == Context(Lines[i], Handler, FALSE, TRUE)
    <2>2. stack' = Append(stack, c) /\ intr' = FALSE /\ at' = at /\ intr /\ Running
      BY <2>1 DEF Interrupt
    <2>3. Len(stack) = 1 /\ at > 4
      BY <2>2 DEF StackInv, FlagKnown
    <2>4. c \in Contexts /\ c.code \in Range(Lines) /\ c.held = <<>> /\ c.locks = <<"PICS">>
      <3>1. Lines[i] \in Range(Lines)
        BY DEF Range
      <3>2. <<"PICS">> \in Seq(AllLocks)
        BY DEF AllLocks
      <3> QED
        BY <3>1, <3>2 DEF Context, Handler, Routine, Contexts
    <2>5. ~Spinning
      <3>1. Top = stack[1]
        BY <2>3 DEF Top, Last
      <3>2. Locked = Range(stack[1].held)
        BY <2>3 DEF Locked, HeldBelow
      <3>3. Nested(stack[1], AllLocks)
        BY DEF StackInv, BaseShape
      <3> QED
        BY <3>1, <3>2, <3>3, NestedLocks DEF Spinning
    <2> HIDE DEF c
    <2> QED
      BY <2>2, <2>3, <2>4, <2>5, PushStep
  <1>10. CASE Fault
    <2>1. PICK e \in Exceptions, entry \in {intr, FALSE} :
            /\ stack' = Append(stack, Context(e, _print, entry, intr))
            /\ intr' = (entry /\ ~_print.masked)
      BY <1>10 DEF Fault
    <2> DEFINE c == Context(e, _print, entry, intr)
    <2>2. stack' = Append(stack, c) /\ intr' = FALSE /\ at' = at /\ ~Spinning /\ Running
      BY <1>10, <2>1 DEF Fault, _print, Routine
    <2>3. c \in Contexts /\ c.code \in Exceptions /\ c.held = <<>> /\ c.locks = <<"SERIAL">> /\ c.back = intr
      <3>1. entry \in BOOLEAN
        BY <1>0, <2>1
      <3> QED
        BY <1>0, <2>1, <3>1, PrintContext
    <2>4. c.back => Len(stack) = 1 /\ at > 4
      BY <2>3 DEF StackInv, FlagKnown
    <2> HIDE DEF c
    <2> QED
      BY <2>2, <2>3, <2>4, PushStep
  <1>11. CASE cmd_halt \/ UNCHANGED vars
    <2>1. stack' = stack /\ at' = at /\ intr' = intr
      BY <1>11 DEF cmd_halt, vars
    <2> QED
      BY <2>1 DEF StackInv, StackType, BaseShape, AboveShape, FlagKnown, PrintOnTop, Prints
  <1> QED
    BY <1>1, <1>2, <1>3, <1>4, <1>5, <1>6, <1>7, <1>8, <1>9, <1>10, <1>11 DEF Next, Cpu

\* In a state of that shape only an exception can spin, and only on the code it was raised in.
LEMMA OnlyOwnPrint == StackInv => SpinsOnlyOnOwnPrint
  <1> SUFFICES ASSUME StackInv, Spinning
               PROVE  /\ Top.code \in Exceptions
                      /\ "SERIAL" \in Range(stack[Len(stack) - 1].held)
                      /\ "SERIAL" \notin HeldBelow(Len(stack) - 2)
    BY DEF SpinsOnlyOnOwnPrint
  <1>1. PICK n \in Nat \ {0} : n = Len(stack)
    BY DEF StackInv, StackType
  <1>2. Top = stack[n] /\ Top.locks # <<>>
    BY <1>1 DEF Top, Last, Spinning
  <1>3. PICK i \in 1 .. n : Head(Top.locks) \in Range(stack[i].held)
    BY <1>1 DEF Spinning, Locked, HeldBelow
  <1>4. Head(Top.locks) \notin Range(Top.held)
    <2>1. CASE n = 1
      BY <1>2, <2>1, NestedLocks DEF StackInv, BaseShape
    <2>2. CASE n > 1
      <3>1. Top.held = <<>>
        BY <1>1, <1>2, <2>2, SingleCases DEF StackInv, AboveShape
      <3> QED
        BY <3>1, RangeOfLocks
    <2> QED
      BY <1>1, <2>1, <2>2
  <1>5. i # n /\ n > 1
    BY <1>1, <1>2, <1>3, <1>4
  <1>6. Top.code \in Exceptions /\ Head(Top.locks) = "SERIAL"
    <2>1. CASE Top.code \in Range(Lines) /\ n = 2 /\ at > 4 /\ Single(Top, "PICS")
      <3>1. Head(Top.locks) = "PICS"
        BY <1>2, <2>1, SingleCases
      <3>2. Range(stack[1].held) \subseteq AfterEnable
        BY <2>1, NestedLocks DEF StackInv, BaseShape
      <3>3. i = 1
        BY <1>5, <2>1
      <3> QED
        BY <1>3, <3>1, <3>2, <3>3 DEF AfterEnable
    <2>2. CASE Top.code \in Exceptions /\ Single(Top, "SERIAL")
      BY <1>2, <2>2, SingleCases
    <2> QED
      BY <1>1, <1>2, <1>5, <2>1, <2>2 DEF StackInv, AboveShape
  <1>7. \A k \in 1 .. n - 2 : "SERIAL" \notin Range(stack[k].held)
    BY <1>1 DEF StackInv, PrintOnTop, Prints
  <1>8. i = n - 1
    BY <1>1, <1>3, <1>5, <1>6, <1>7
  <1> QED
    BY <1>1, <1>3, <1>6, <1>7, <1>8 DEF HeldBelow

(***************************************************************************)
(* However many exceptions and panics are raised and wherever they nest,   *)
(* a handler waits for a lock of the code below it only if that code was   *)
(* printing when it faulted (_print, notify_end_of_interrupt).             *)
(***************************************************************************)
THEOREM SpinsOnlyInPrint == Spec => []SpinsOnlyOnOwnPrint
  <1>1. Init => StackInv
    <2> SUFFICES ASSUME Init PROVE StackInv
      OBVIOUS
    <2>1. stack = <<Base>> /\ at = 1 /\ intr = FALSE
      BY DEF Init
    <2>2. stack \in Seq(Contexts) /\ Len(stack) = 1 /\ stack[1] = Base
      BY <2>1, BaseFits
    <2>3. intr \in BOOLEAN
      BY <2>1
    <2> QED
      BY <2>1, <2>2, <2>3, BaseFits DEF StackInv, StackType, BaseShape, AboveShape, FlagKnown, PrintOnTop
  <1> QED
    BY <1>1, StackStep, OnlyOwnPrint, PTL DEF Spec
-----------------------------------------------------------------------------
\* Putting sequences together in either order.
LEMMA OutsAssociate == \A s, t, u \in Seq(Out) : (s \o t) \o u = s \o (t \o u)
  <1> TAKE s, t, u \in Seq(Out)
  <1> QED
    BY SMT

\* What a byte does to the decoder, field by field.
LEMMA NextDecoderFields ==
  ASSUME NEW d \in Decoder, NEW b \in Byte
  PROVE  /\ NextDecoder(d, b) \in Decoder
         /\ NextDecoder(d, b).state = IF d.state = "start" /\ b = E0 THEN "extended" ELSE "start"
         /\ d.state = "start" /\ b.code = Shift => (NextDecoder(d, b).shift <=> ~b.up)
         /\ ~(d.state = "start" /\ b.code = Shift) => (NextDecoder(d, b).shift <=> d.shift)
  <1>1. b.up \in BOOLEAN /\ d.shift \in BOOLEAN /\ d.state \in {"start", "extended"}
    <2>1. CASE b = E0
      BY <2>1 DEF E0, Decoder
    <2>2. CASE b \in [code : Keys, up : BOOLEAN]
      BY <2>2 DEF Decoder
    <2> QED
      BY <2>1, <2>2 DEF Byte
  <1> DEFINE st == IF d.state = "start" /\ b = E0 THEN "extended" ELSE "start"
             sh == IF d.state = "start" /\ b.code = Shift THEN ~b.up ELSE d.shift
  <1>2. st \in {"start", "extended"}
    OBVIOUS
  <1>3. sh \in BOOLEAN
    BY <1>1
  <1>4. /\ d.state = "start" /\ b.code = Shift => (sh <=> ~b.up)
        /\ ~(d.state = "start" /\ b.code = Shift) => (sh <=> d.shift)
    BY <1>1
  <1>5. NextDecoder(d, b) = [state |-> st, shift |-> sh]
    BY DEF NextDecoder
  <1> HIDE DEF st, sh
  <1>6. NextDecoder(d, b).state = st
    BY <1>5
  <1>7. NextDecoder(d, b).shift = sh
    BY <1>5
  <1>8. NextDecoder(d, b) \in Decoder
    BY <1>2, <1>3, <1>5 DEF Decoder
  <1>9. NextDecoder(d, b).shift <=> sh
    BY <1>7, Zenon
  <1> QED
    BY <1>4, <1>6, <1>8, <1>9 DEF st

\* It is a decoder again.
LEMMA NextDecoderType ==
  ASSUME NEW d \in Decoder, NEW b \in Byte
  PROVE  NextDecoder(d, b) \in Decoder
  BY NextDecoderFields

\* The characters of a key.
LEMMA CharsType ==
  ASSUME NEW d \in Decoder, NEW b \in Byte
  PROVE  Chars(Key(d, b)) \in Seq(Out)
  <1>1. Key(d, b) \in {"no", "raw", "a", "A", "7"}
    BY DEF Key, Character
  <1> QED
    <2>1. PICK key : key = Key(d, b)
      OBVIOUS
    <2>2. CASE key \in {"no", "raw"}
      BY <2>1, <2>2 DEF Chars
    <2>3. CASE key \in Out
      <3>1. Chars(key) = <<key>>
        BY <2>3 DEF Chars, Out
      <3>2. <<key>> \in Seq(Out)
        BY <2>3
      <3> QED
        BY <2>1, <3>1, <3>2
    <2> QED
      BY <1>1, <2>1, <2>2, <2>3 DEF Out

\* A set of numbers has a least one.
LEMMA LeastNumber ==
  ASSUME NEW T \in SUBSET Nat, T # {}
  PROVE  \E k \in T : \A j \in T : k <= j
  <1>1. PICK k \in T : \A j \in T : ~(<<j, k>> \in OpToRel(<, Nat))
    BY NatLessThanWellFounded, WFMin
  <1>2. ASSUME NEW j \in T PROVE k <= j
    <2>1. ~(j < k)
      BY <1>1 DEF OpToRel
    <2> QED
      BY <2>1
  <1> QED
    BY <1>2

\* The decoder after each of a sequence of bytes.
Runs(after, d, s) ==
  /\ after[0] = [dec |-> d, out |-> <<>>]
  /\ \A n \in 1 .. Len(s) : after[n] = Decoded(after[n - 1], s[n])
  /\ Decode(d, s) = after[Len(s)]

\* There is one after each of them.
LEMMA DecodeRuns ==
  ASSUME NEW d, NEW T, NEW s \in Seq(T)
  PROVE  \E after : Runs(after, d, s)
  <1>0. PICK N \in Nat : N = Len(s)
    OBVIOUS
  <1> DEFINE Round(f, n) == IF n = 0 THEN [dec |-> d, out |-> <<>>] ELSE Decoded(f[n - 1], s[n])
             IsLoop(f, m) == f = [n \in 0 .. m |-> Round(f, n)]
             Bad == {m \in Nat : ~\E f : IsLoop(f, m)}
  <1>1. Bad = {}
    <2>1. SUFFICES ASSUME Bad # {} PROVE FALSE
      OBVIOUS
    <2>2. PICK m \in Bad : \A k \in Bad : m <= k
      <3>1. Bad \in SUBSET Nat
        OBVIOUS
      <3> HIDE DEF Bad
      <3> QED
        BY <2>1, <3>1, LeastNumber
    <2>3. m # 0
      <3>1. IsLoop([n \in 0 .. 0 |-> [dec |-> d, out |-> <<>>]], 0)
        OBVIOUS
      <3> QED
        BY <3>1
    <2>4. m \in Nat /\ m - 1 \in Nat /\ m - 1 \notin Bad
      <3>1. m \in Nat
        OBVIOUS
      <3>2. m - 1 \in Nat /\ ~(m <= m - 1)
        BY <2>3, <3>1
      <3> HIDE DEF Bad
      <3> QED
        BY <2>2, <3>1, <3>2
    <2>5. PICK g : IsLoop(g, m - 1)
      BY <2>4
    <2>6. PICK f : f = [n \in 0 .. m |-> Round(g, n)]
      OBVIOUS
    <2>7. ASSUME NEW n \in 0 .. m PROVE Round(g, n) = Round(f, n)
      <3>1. CASE n = 0
        BY <3>1
      <3>2. CASE n # 0
        <4>1. n - 1 \in 0 .. m - 1 /\ n - 1 \in 0 .. m
          BY <2>4, <3>2
        <4>2. g[n - 1] = Round(g, n - 1)
          BY <2>5, <4>1
        <4>3. f[n - 1] = Round(g, n - 1)
          BY <2>6, <4>1
        <4> QED
          BY <4>2, <4>3
      <3> QED
        BY <3>1, <3>2
    <2>8. IsLoop(f, m)
      <3> HIDE DEF Round
      <3> QED
        BY <2>6, <2>7
    <2> QED
      BY <2>2, <2>8
  <1>2. \E f : IsLoop(f, N)
    BY <1>1
  <1>3. PICK f : f = CHOOSE g : g = [n \in 0 .. N |-> IF n = 0 THEN [dec |-> d, out |-> <<>>]
                                                     ELSE Decoded(g[n - 1], s[n])]
    OBVIOUS
  <1>4. IsLoop(f, N)
    BY <1>2, <1>3
  <1>5. Decode(d, s) = f[N]
    BY <1>0, <1>3 DEF Decode
  <1>6. \A n \in 0 .. N : f[n] = Round(f, n)
    <2> HIDE DEF Round
    <2> QED
      BY <1>4
  <1>7. f[0] = [dec |-> d, out |-> <<>>] /\ \A n \in 1 .. N : f[n] = Decoded(f[n - 1], s[n])
    BY <1>6
  <1> QED
    BY <1>0, <1>5, <1>7 DEF Runs

\* The two results of a byte.
LEMMA DecodedFields ==
  ASSUME NEW x, NEW b
  PROVE  /\ Decoded(x, b).dec = NextDecoder(x.dec, b)
         /\ Decoded(x, b).out = x.out \o Chars(Key(x.dec, b))
  BY DEF Decoded

\* Their types, after any number of bytes.
LEMMA RunsType ==
  ASSUME NEW d \in Decoder, NEW s \in Seq(Byte), NEW N \in Nat, N = Len(s), NEW after, Runs(after, d, s)
  PROVE  \A n \in 0 .. N : after[n].dec \in Decoder /\ after[n].out \in Seq(Out)
  <1> DEFINE Bad == {n \in 0 .. N : ~(after[n].dec \in Decoder /\ after[n].out \in Seq(Out))}
  <1>1. Bad = {}
    <2>1. SUFFICES ASSUME Bad # {} PROVE FALSE
      OBVIOUS
    <2>2. PICK n \in Bad : \A m \in Bad : n <= m
      <3>1. Bad \in SUBSET Nat
        OBVIOUS
      <3> HIDE DEF Bad
      <3> QED
        BY <2>1, <3>1, LeastNumber
    <2>3. n \in 0 .. N /\ ~(after[n].dec \in Decoder /\ after[n].out \in Seq(Out))
      OBVIOUS
    <2>4. n # 0
      <3>1. after[0].dec = d /\ after[0].out = <<>>
        BY DEF Runs
      <3>2. <<>> \in Seq(Out)
        OBVIOUS
      <3> QED
        BY <2>3, <3>1, <3>2
    <2>5. n \in 1 .. N /\ n - 1 \in 0 .. N /\ ~(n <= n - 1)
      BY <2>3, <2>4
    <2>6. after[n - 1].dec \in Decoder /\ after[n - 1].out \in Seq(Out)
      BY <2>2, <2>5
    <2>7. after[n] = Decoded(after[n - 1], s[n]) /\ s[n] \in Byte
      BY <2>5 DEF Runs
    <2>8. after[n].dec \in Decoder
      <3>1. after[n].dec = NextDecoder(after[n - 1].dec, s[n])
        BY <2>7, DecodedFields
      <3> QED
        BY <2>6, <2>7, <3>1, NextDecoderType
    <2>9. after[n].out \in Seq(Out)
      <3>1. Chars(Key(after[n - 1].dec, s[n])) \in Seq(Out)
        BY <2>6, <2>7, CharsType
      <3>2. after[n].out = after[n - 1].out \o Chars(Key(after[n - 1].dec, s[n]))
        BY <2>7, DecodedFields
      <3> QED
        BY <2>6, <3>1, <3>2, ConcatProperties, Zenon
    <2> QED
      BY <2>3, <2>8, <2>9
  <1> QED
    BY <1>1

\* What decoding no byte gives.
LEMMA DecodeNone ==
  ASSUME NEW d
  PROVE  Decode(d, <<>>).dec = d /\ Decode(d, <<>>).out = <<>>
  <1>1. <<>> \in Seq(Byte) /\ Len(<<>>) = 0
    OBVIOUS
  <1>2. PICK after : Runs(after, d, <<>>)
    BY <1>1, DecodeRuns
  <1>3. Decode(d, <<>>) = [dec |-> d, out |-> <<>>]
    BY <1>1, <1>2 DEF Runs
  <1> QED
    BY <1>3

\* And one byte.
LEMMA DecodeOne ==
  ASSUME NEW d \in Decoder, NEW b \in Byte, NEW s, s = <<b>>
  PROVE  Decode(d, s).dec = NextDecoder(d, b) /\ Decode(d, s).out = Chars(Key(d, b))
  <1>1. s \in Seq(Byte) /\ Len(s) = 1 /\ s[1] = b
    OBVIOUS
  <1>2. PICK after : Runs(after, d, s)
    BY <1>1, DecodeRuns
  <1>3. Decode(d, s) = Decoded(after[0], b) /\ after[0] = [dec |-> d, out |-> <<>>]
    BY <1>1, <1>2 DEF Runs
  <1>4. Decode(d, s).dec = NextDecoder(d, b) /\ Decode(d, s).out = <<>> \o Chars(Key(d, b))
    <2>1. after[0].dec = d /\ after[0].out = <<>>
      BY <1>3
    <2> QED
      BY <1>3, <2>1, DecodedFields, Zenon
  <1>5. <<>> \o Chars(Key(d, b)) = Chars(Key(d, b))
    BY CharsType, ConcatEmptySeq
  <1> QED
    BY <1>4, <1>5

\* The types of what decoding gives.
LEMMA DecodeType ==
  ASSUME NEW d \in Decoder, NEW s \in Seq(Byte)
  PROVE  Decode(d, s).dec \in Decoder /\ Decode(d, s).out \in Seq(Out)
  <1>1. PICK N \in Nat : N = Len(s)
    OBVIOUS
  <1>2. PICK after : Runs(after, d, s)
    BY DecodeRuns
  <1>3. Decode(d, s) = after[N] /\ N \in 0 .. N
    BY <1>1, <1>2 DEF Runs
  <1> QED
    BY <1>1, <1>2, <1>3, RunsType

\* Bytes may be decoded a part at a time.
LEMMA DecodeConcat ==
  ASSUME NEW d \in Decoder, NEW s \in Seq(Byte), NEW t \in Seq(Byte)
  PROVE  /\ Decode(d, s \o t).dec = Decode(Decode(d, s).dec, t).dec
         /\ Decode(d, s \o t).out = Decode(d, s).out \o Decode(Decode(d, s).dec, t).out
  <1>0. PICK M \in Nat, N \in Nat : M = Len(s) /\ N = Len(t)
    OBVIOUS
  <1>1. PICK st : st = s \o t
    OBVIOUS
  <1>2. /\ st \in Seq(Byte) /\ Len(st) = M + N
        /\ \A i \in 1 .. M + N : st[i] = IF i <= M THEN s[i] ELSE t[i - M]
    BY <1>0, <1>1, ConcatProperties, Zenon
  <1>3. PICK a : Runs(a, d, s)
    BY DecodeRuns
  <1>4. a[M] = Decode(d, s)
    BY <1>0, <1>3 DEF Runs
  <1>5. PICK e : e = a[M].dec /\ e \in Decoder /\ a[M].out \in Seq(Out)
    BY <1>4, DecodeType
  <1>6. PICK b : Runs(b, e, t)
    BY DecodeRuns
  <1>7. PICK h : Runs(h, d, st)
    BY <1>2, DecodeRuns
  <1>8. \A n \in 0 .. M : h[n] = a[n]
    <2> DEFINE Bad == {n \in 0 .. M : h[n] # a[n]}
    <2>1. SUFFICES ASSUME Bad # {} PROVE FALSE
      OBVIOUS
    <2>2. PICK n \in Bad : \A m \in Bad : n <= m
      <3>1. Bad \in SUBSET Nat
        OBVIOUS
      <3> HIDE DEF Bad
      <3> QED
        BY <2>1, <3>1, LeastNumber
    <2>3. n \in 0 .. M /\ h[n] # a[n]
      OBVIOUS
    <2>4. n # 0
      BY <1>3, <1>7, <2>3 DEF Runs
    <2>5. n \in 1 .. M /\ n - 1 \in 0 .. M /\ ~(n <= n - 1) /\ n \in 1 .. M + N /\ n <= M
      BY <1>0, <2>3, <2>4
    <2>6. h[n - 1] = a[n - 1]
      BY <2>2, <2>5
    <2>7. h[n] = Decoded(h[n - 1], st[n]) /\ a[n] = Decoded(a[n - 1], s[n]) /\ st[n] = s[n]
      BY <1>0, <1>2, <1>3, <1>7, <2>5 DEF Runs
    <2> QED
      BY <2>3, <2>6, <2>7
  <1>9. \A n \in 0 .. N : h[M + n].dec = b[n].dec /\ h[M + n].out = a[M].out \o b[n].out
    <2> DEFINE Joined(n) == h[M + n].dec = b[n].dec /\ h[M + n].out = a[M].out \o b[n].out
               Bad == {n \in 0 .. N : ~Joined(n)}
    <2>1. SUFFICES ASSUME Bad # {} PROVE FALSE
      OBVIOUS
    <2>2. PICK n \in Bad : \A m \in Bad : n <= m
      <3>1. Bad \in SUBSET Nat
        <4> HIDE DEF Joined
        <4> QED
          OBVIOUS
      <3> HIDE DEF Bad
      <3> QED
        BY <2>1, <3>1, LeastNumber
    <2>3. n \in 0 .. N /\ ~Joined(n)
      OBVIOUS
    <2>4. n # 0
      <3>1. b[0].dec = e /\ b[0].out = <<>>
        <4>1. b[0] = [dec |-> e, out |-> <<>>]
          BY <1>6 DEF Runs
        <4> QED
          BY <4>1
      <3>2. h[M + 0] = a[M]
        BY <1>0, <1>8
      <3>3. a[M].out \o <<>> = a[M].out
        BY <1>5, ConcatEmptySeq
      <3>4. Joined(0)
        BY <1>5, <3>1, <3>2, <3>3
      <3> HIDE DEF Joined
      <3> QED
        BY <2>3, <3>4
    <2>5. /\ n \in 1 .. N /\ n - 1 \in 0 .. N /\ ~(n <= n - 1)
          /\ M + n \in 1 .. M + N /\ ~(M + n <= M) /\ (M + n) - M = n /\ (M + n) - 1 = M + (n - 1)
      BY <1>0, <2>3, <2>4
    <2>6. Joined(n - 1)
      <3> HIDE DEF Joined
      <3> QED
        BY <2>2, <2>5
    <2>7. h[M + n] = Decoded(h[M + (n - 1)], t[n]) /\ b[n] = Decoded(b[n - 1], t[n]) /\ t[n] \in Byte
      <3>1. st[M + n] = t[n] /\ t[n] \in Byte
        <4>1. t[n] \in Byte
          BY <1>0, <2>5
        <4>2. st[M + n] = IF M + n <= M THEN s[M + n] ELSE t[(M + n) - M]
          BY <1>2, <2>5
        <4> QED
          BY <2>5, <4>1, <4>2
      <3>2. h[M + n] = Decoded(h[(M + n) - 1], st[M + n])
        BY <1>2, <1>7, <2>5 DEF Runs
      <3>3. b[n] = Decoded(b[n - 1], t[n])
        BY <1>0, <1>6, <2>5 DEF Runs
      <3> QED
        BY <2>5, <3>1, <3>2, <3>3
    <2>8. b[n - 1].dec \in Decoder /\ b[n - 1].out \in Seq(Out)
      BY <1>0, <1>5, <1>6, <2>5, RunsType
    <2>9. PICK x, c : x = b[n - 1].out /\ c = Chars(Key(b[n - 1].dec, t[n])) /\ x \in Seq(Out) /\ c \in Seq(Out)
      BY <2>7, <2>8, CharsType
    <2>10. h[M + n].dec = b[n].dec
      <3>1. h[M + n].dec = NextDecoder(h[M + (n - 1)].dec, t[n])
        BY <2>7, DecodedFields
      <3>2. b[n].dec = NextDecoder(b[n - 1].dec, t[n])
        BY <2>7, DecodedFields
      <3> QED
        BY <2>6, <3>1, <3>2
    <2>11. h[M + n].out = (a[M].out \o x) \o c
      <3>1. h[M + n].out = h[M + (n - 1)].out \o Chars(Key(h[M + (n - 1)].dec, t[n]))
        BY <2>7, DecodedFields
      <3> QED
        BY <2>6, <2>9, <3>1
    <2>12. b[n].out = x \o c
      BY <2>7, <2>9, DecodedFields
    <2>13. (a[M].out \o x) \o c = a[M].out \o (x \o c)
      <3>1. PICK o : o = a[M].out /\ o \in Seq(Out)
        BY <1>5
      <3>2. (o \o x) \o c = o \o (x \o c)
        <4>1. o \in Seq(Out) /\ x \in Seq(Out) /\ c \in Seq(Out)
          BY <2>9, <3>1
        <4> QED
          BY <4>1, OutsAssociate, Zenon
      <3> QED
        BY <3>1, <3>2
    <2>14. h[M + n].out = a[M].out \o b[n].out
      BY <2>11, <2>12, <2>13
    <2>15. Joined(n)
      BY <2>10, <2>14
    <2> HIDE DEF Joined
    <2> QED
      BY <2>3, <2>15
  <1>10. N \in 0 .. N /\ h[M + N] = Decode(d, st) /\ b[N] = Decode(e, t)
    BY <1>0, <1>2, <1>6, <1>7 DEF Runs
  <1>11. h[M + N].dec = b[N].dec /\ h[M + N].out = a[M].out \o b[N].out
    BY <1>9, <1>10
  <1> QED
    BY <1>1, <1>4, <1>5, <1>10, <1>11

\* Sequences of bytes, in parts.
LEMMA ByteSeqs ==
  /\ \A s, t \in Seq(Byte) : s \o t \in Seq(Byte)
  /\ \A s, t, u \in Seq(Byte) : (s \o t) \o u = s \o (t \o u)
  /\ \A s \in Seq(Byte) : s \o <<>> = s /\ <<>> \o s = s
  /\ \A b \in Byte : <<b>> \in Seq(Byte)
  /\ <<>> \in Seq(Byte)
  <1>1. \A s, t \in Seq(Byte) : s \o t \in Seq(Byte)
    BY ConcatProperties
  <1>2. \A s, t, u \in Seq(Byte) : (s \o t) \o u = s \o (t \o u)
    <2> TAKE s, t, u \in Seq(Byte)
    <2> QED
      BY SMT
  <1>3. \A s \in Seq(Byte) : s \o <<>> = s /\ <<>> \o s = s
    BY ConcatEmptySeq
  <1>4. (\A b \in Byte : <<b>> \in Seq(Byte)) /\ <<>> \in Seq(Byte)
    OBVIOUS
  <1> QED
    BY <1>1, <1>2, <1>3, <1>4

\* The first byte and the others.
LEMMA FirstByte ==
  ASSUME NEW s \in Seq(Byte), s # <<>>
  PROVE  Head(s) \in Byte /\ Tail(s) \in Seq(Byte) /\ s = <<Head(s)>> \o Tail(s)
  <1>1. Head(s) \in Byte /\ Tail(s) \in Seq(Byte)
    OBVIOUS
  <1>2. s = <<Head(s)>> \o Tail(s)
    BY SMT
  <1> QED
    BY <1>1, <1>2

\* The bytes that say which keys are pressed or released.
KeyByte == [code : Keys, up : BOOLEAN]

\* Bytes of keys: what tells them from one another.
LEMMA KeyBytes ==
  /\ E0 \in Byte /\ E0.code \notin Keys /\ None \notin Byte /\ None.code \notin Keys
  /\ \A b \in KeyByte : b \in Byte /\ b # E0 /\ b.code \in Keys /\ b.up \in BOOLEAN
  <1>1. E0.code = "E0" /\ None.code = "none"
    BY DEF E0, None
  <1>2. E0.code \notin Keys /\ None.code \notin Keys
    BY <1>1 DEF Keys, Shift, Letter, Home
  <1>3. \A b \in KeyByte : b.code \in Keys /\ b.up \in BOOLEAN
    BY DEF KeyByte
  <1>4. E0 \in Byte /\ \A b \in KeyByte : b \in Byte
    BY DEF Byte, KeyByte
  <1>5. None \notin Byte
    BY <1>1, <1>2, <1>3 DEF Byte, KeyByte
  <1> QED
    BY <1>2, <1>3, <1>4, <1>5

\* A byte sent by a key that has one byte.
LEMMA KeyDecoded ==
  ASSUME NEW d \in Decoder, NEW b \in KeyByte, d.state = "start", b.code # Home
  PROVE  /\ NextDecoder(d, b).state = "start"
         /\ b.code = Shift => (NextDecoder(d, b).shift <=> ~b.up)
         /\ b.code # Shift => (NextDecoder(d, b).shift <=> d.shift)
         /\ Chars(Key(d, b)) = IF b.code = Letter /\ ~b.up THEN <<Character(d.shift)>> ELSE <<>>
  <1>1. b \in Byte /\ b # E0 /\ b.code \in {Shift, Letter} /\ b.up \in BOOLEAN
    BY KeyBytes DEF Keys
  <1>2. /\ NextDecoder(d, b).state = "start"
        /\ b.code = Shift => (NextDecoder(d, b).shift <=> ~b.up)
        /\ b.code # Shift => (NextDecoder(d, b).shift <=> d.shift)
    BY <1>1, NextDecoderFields
  <1>3. CASE b.up
    <2>1. Key(d, b) = "no"
      BY <1>3 DEF Key
    <2> QED
      BY <1>2, <1>3, <2>1 DEF Chars
  <1>4. CASE ~b.up /\ b.code = Letter
    <2>1. Letter # Home
      BY DEF Letter, Home
    <2>2. Key(d, b) = Character(d.shift)
      BY <1>1, <1>4, <2>1 DEF Key
    <2>3. Character(d.shift) \notin {"no", "raw"}
      BY DEF Character
    <2>4. Chars(Key(d, b)) = <<Character(d.shift)>>
      BY <2>2, <2>3 DEF Chars
    <2> QED
      BY <1>2, <1>4, <2>4
  <1>5. CASE ~b.up /\ b.code = Shift
    <2>1. Shift # Home /\ Shift # Letter
      BY DEF Letter, Home, Shift
    <2>2. Key(d, b) = "raw"
      BY <1>1, <1>5, <2>1 DEF Key
    <2> QED
      BY <1>2, <1>5, <2>1, <2>2 DEF Chars
  <1> QED
    BY <1>1, <1>3, <1>4, <1>5

\* The second byte of a key that has two, and the first.
LEMMA PairDecoded ==
  ASSUME NEW d \in Decoder, NEW b \in KeyByte, d.state = "start", b.code = Home
  PROVE  LET e == NextDecoder(d, E0) IN
           /\ e \in Decoder /\ Chars(Key(d, E0)) = <<>>
           /\ NextDecoder(e, b).state = "start" /\ (NextDecoder(e, b).shift <=> d.shift)
           /\ Chars(Key(e, b)) = <<>>
  <1>1. b \in Byte /\ b # E0 /\ E0 \in Byte /\ E0.code # Shift /\ b.up \in BOOLEAN
    BY KeyBytes DEF Keys
  <1> DEFINE e == NextDecoder(d, E0)
  <1>2. e \in Decoder /\ e.state = "extended" /\ (e.shift <=> d.shift)
    BY <1>1, NextDecoderFields
  <1>3. Key(d, E0) = "no"
    BY DEF Key
  <1> HIDE DEF e
  <1>4. NextDecoder(e, b).state = "start" /\ (NextDecoder(e, b).shift <=> e.shift)
    BY <1>1, <1>2, NextDecoderFields
  <1>5. Key(e, b) \in {"no", "raw"}
    <2>1. Home # Letter
      BY DEF Home, Letter
    <2>2. CASE b.up
      BY <2>2 DEF Key
    <2>3. CASE ~b.up
      BY <1>1, <1>2, <2>1, <2>3 DEF Key
    <2> QED
      BY <2>2, <2>3
  <1>6. Chars(Key(d, E0)) = <<>> /\ Chars(Key(e, b)) = <<>>
    BY <1>3, <1>5 DEF Chars
  <1>7. NextDecoder(e, b).shift <=> d.shift
    BY <1>2, <1>4
  <1> QED
    BY <1>2, <1>4, <1>6, <1>7 DEF e

\* What pressing or releasing a key does to a decoder that is between two keys.
LEMMA EventDecoded ==
  ASSUME NEW d \in Decoder, NEW b \in KeyByte, d.state = "start",
         NEW bs, bs = (IF b.code = Home THEN <<E0>> ELSE <<>>) \o <<b>>
  PROVE  /\ bs \in Seq(Byte)
         /\ Decode(d, bs).dec.state = "start"
         /\ b.code = Shift => (Decode(d, bs).dec.shift <=> ~b.up)
         /\ b.code # Shift => (Decode(d, bs).dec.shift <=> d.shift)
         /\ Decode(d, bs).out = IF b.code = Letter /\ ~b.up THEN <<Character(d.shift)>> ELSE <<>>
  <1>1. b \in Byte /\ E0 \in Byte
    BY KeyBytes
  <1>2. CASE b.code # Home
    <2>1. bs = <<b>> /\ bs \in Seq(Byte)
      BY <1>1, <1>2, ByteSeqs
    <2>2. Decode(d, bs).dec = NextDecoder(d, b) /\ Decode(d, bs).out = Chars(Key(d, b))
      BY <1>1, <2>1, DecodeOne
    <2> QED
      BY <1>2, <2>1, <2>2, KeyDecoded
  <1>3. CASE b.code = Home
    <2>1. bs = <<E0>> \o <<b>> /\ <<E0>> \in Seq(Byte) /\ <<b>> \in Seq(Byte)
      BY <1>1, <1>3, ByteSeqs
    <2>2. PICK e, s, t : e = NextDecoder(d, E0) /\ s = <<E0>> /\ t = <<b>>
      OBVIOUS
    <2>3. /\ e \in Decoder /\ Chars(Key(d, E0)) = <<>>
          /\ NextDecoder(e, b).state = "start" /\ (NextDecoder(e, b).shift <=> d.shift)
          /\ Chars(Key(e, b)) = <<>>
      BY <1>3, <2>2, PairDecoded
    <2>4. Decode(d, s).dec = e /\ Decode(d, s).out = <<>>
      BY <1>1, <2>2, <2>3, DecodeOne
    <2>5. Decode(e, t).dec = NextDecoder(e, b) /\ Decode(e, t).out = <<>>
      BY <1>1, <2>2, <2>3, DecodeOne
    <2>6. /\ s \in Seq(Byte) /\ t \in Seq(Byte) /\ bs = s \o t
          /\ Decode(d, s \o t).dec = Decode(Decode(d, s).dec, t).dec
          /\ Decode(d, s \o t).out = Decode(d, s).out \o Decode(Decode(d, s).dec, t).out
      BY <2>1, <2>2, DecodeConcat
    <2>7. <<>> \o <<>> = <<>> /\ bs \in Seq(Byte)
      BY <2>1, ByteSeqs
    <2>8. Home # Letter /\ Home # Shift
      BY DEF Home, Letter, Shift
    <2> QED
      BY <1>3, <2>3, <2>4, <2>5, <2>6, <2>7, <2>8
  <1> QED
    BY <1>2, <1>3

\* What is on its way is a sequence of bytes.
LEMMA PendingType ==
  ASSUME KeyType
  PROVE  Received \in Seq(Byte) /\ Pending \in Seq(Byte) /\ Pending = Received \o wire
  <1> DEFINE rest == IF offered = None THEN <<>> ELSE <<offered>>
  <1>1. rest \in Seq(Byte) /\ queue \in Seq(Byte) /\ wire \in Seq(Byte)
    BY ByteSeqs DEF KeyType
  <1>2. Received = queue \o rest
    BY DEF Received
  <1> HIDE DEF rest
  <1> QED
    BY <1>1, <1>2, ByteSeqs DEF Pending

\* A decoder in step stays in step when a key is pressed or released.
LEMMA EventInStep ==
  ASSUME NEW d \in Decoder, NEW keys, InStep(d, keys), NEW b \in KeyByte, NEW more,
         more = (IF b.up THEN keys \ {b.code} ELSE keys \cup {b.code}),
         NEW bs, bs = (IF b.code = Home THEN <<E0>> ELSE <<>>) \o <<b>>
  PROVE  InStep(Decode(d, bs).dec, more)
  <1>1. /\ Decode(d, bs).dec.state = "start"
        /\ b.code = Shift => (Decode(d, bs).dec.shift <=> ~b.up)
        /\ b.code # Shift => (Decode(d, bs).dec.shift <=> d.shift)
    BY EventDecoded DEF InStep
  <1>2. CASE b.code = Shift
    <2>1. Shift \in more <=> ~b.up
      BY <1>2
    <2> QED
      BY <1>1, <1>2, <2>1 DEF InStep
  <1>3. CASE b.code # Shift
    <2>1. Shift \in more <=> Shift \in keys
      BY <1>3
    <2> QED
      BY <1>1, <1>3, <2>1 DEF InStep
  <1> QED
    BY <1>2, <1>3

\* Nothing happens to what the invariant is about.
LEMMA KeySame ==
  ASSUME KeyInv, UNCHANGED <<held, wire, offered, queue, dec, typed, handled, dropped, cut, unsure>>
  PROVE  KeyInv'
  BY DEF KeyInv, KeyType, LastSaysHeld, OfferedHeals, CutInv, InStep, NothingTypedIsLost, Pending, Received,
         Decoder

\* The invariant after a step that changes nothing of what is on its way to the decoder.
LEMMA KeyMoved ==
  ASSUME KeyInv, KeyType', LastSaysHeld', OfferedHeals', Pending' = Pending,
         UNCHANGED <<held, queue, dec, typed, handled, dropped, cut, unsure>>
  PROVE  KeyInv'
  BY DEF KeyInv, CutInv, InStep, NothingTypedIsLost

\* The keyboard sends a byte.
LEMMA SendInv ==
  ASSUME KeyInv, Send
  PROVE  KeyInv'
  <1>0. KeyType
    BY DEF KeyInv
  <1>1. /\ wire # <<>> /\ wire \in Seq(Byte) /\ queue \in Seq(Byte) /\ offered = None
        /\ offered' = Head(wire) /\ wire' = Tail(wire) /\ queue' = queue
        /\ UNCHANGED <<held, dec, typed, handled, dropped, cut, unsure>>
    BY <1>0 DEF Send, Fifo!Offer, user, shell, KeyType
  <1>2. PICK h, t : h = Head(wire) /\ t = Tail(wire) /\ h \in Byte /\ t \in Seq(Byte) /\ wire = <<h>> \o t
    BY <1>1, FirstByte
  <1>3. KeyType'
    BY <1>0, <1>1, <1>2 DEF KeyType
  <1>4. Pending' = Pending
    <2>1. Received = queue /\ Received' = queue \o <<h>> /\ <<h>> \in Seq(Byte)
      BY <1>1, <1>2, ByteSeqs, KeyBytes DEF Received
    <2>2. Pending = queue \o (<<h>> \o t) /\ Pending' = (queue \o <<h>>) \o t
      BY <1>1, <1>2, <2>1 DEF Pending
    <2>3. (queue \o <<h>>) \o t = queue \o (<<h>> \o t)
      BY <1>1, <1>2, <2>1, ByteSeqs
    <2> QED
      BY <2>2, <2>3
  <1>5. PICK n \in Nat : n = Len(wire) /\ n > 0 /\ Len(wire') = n - 1 /\ wire[1] = h
                        /\ \A i \in 1 .. n - 1 : wire'[i] = wire[i + 1]
    BY <1>1, <1>2
  <1>6. LastSaysHeld'
    <2>1. ASSUME NEW i \in 1 .. n - 1, wire[i + 1].code = Shift
          PROVE  i = n - 1 /\ (wire[i + 1].up <=> Shift \notin held)
      <3>1. i + 1 \in 1 .. n
        BY <1>5
      <3>2. i + 1 = n /\ (wire[i + 1].up <=> Shift \notin held)
        BY <1>5, <2>1, <3>1 DEF KeyInv, LastSaysHeld
      <3> QED
        BY <1>5, <3>2
    <2> QED
      BY <1>1, <1>5, <2>1 DEF LastSaysHeld
  <1>7. ASSUME h.code = Shift, NEW d \in Decoder, d.state = "start", d.shift <=> ~h.up
        PROVE  InStep(Decode(d, t).dec, held)
    <2>1. 1 \in 1 .. n
      BY <1>5
    <2>2. 1 = n /\ (h.up <=> Shift \notin held)
      BY <1>5, <1>7, <2>1 DEF KeyInv, LastSaysHeld
    <2>3. t = <<>>
      BY <1>1, <1>2, <1>5, <2>2
    <2>4. Decode(d, t).dec = d
      BY <2>3, DecodeNone
    <2> QED
      BY <1>7, <2>2, <2>4 DEF InStep
  <1>8. OfferedHeals'
    BY <1>1, <1>2, <1>7 DEF OfferedHeals, InStep, Decoder
  <1> QED
    BY <1>1, <1>3, <1>4, <1>6, <1>8, KeyMoved

\* The handler queues the byte; one of the modifier puts a decoder in step again.
LEMMA PushInv ==
  ASSUME KeyInv, Push
  PROVE  KeyInv'
  <1>0. KeyType
    BY DEF KeyInv
  <1>1. /\ offered # None /\ queue' = Append(queue, offered) /\ offered' = None
        /\ UNCHANGED <<held, wire, dec, typed, handled, dropped>>
        /\ queue \in Seq(Byte) /\ wire \in Seq(Byte) /\ offered \in Byte /\ dec \in Decoder
    BY <1>0 DEF Push, Fifo!Accept, user, shell, KeyType
  <1>2. unsure' \in BOOLEAN /\ cut' \in BOOLEAN
    BY Zenon DEF Push
  <1>3. /\ unsure' <=> (unsure /\ ~(offered.code = Shift /\ ~cut))
        /\ cut' <=> offered = E0
    BY Zenon DEF Push
  <1>4. KeyType'
    BY <1>0, <1>1, <1>2 DEF KeyType
  <1>5. PICK one : one = <<offered>> /\ one \in Seq(Byte)
    BY <1>1, ByteSeqs
  <1>6. Received = queue \o one /\ Received' = queue \o one /\ Received \in Seq(Byte)
    <2>1. Append(queue, offered) = queue \o one
      BY <1>1, <1>5
    <2>2. (queue \o one) \o <<>> = queue \o one /\ queue \o one \in Seq(Byte)
      BY <1>1, <1>5, ByteSeqs
    <2> QED
      BY <1>1, <1>5, <2>1, <2>2 DEF Received
  <1>7. Pending' = Pending /\ Pending = (queue \o one) \o wire
    BY <1>1, <1>6 DEF Pending
  <1>8. LastSaysHeld'
    BY <1>1 DEF KeyInv, LastSaysHeld
  <1>9. OfferedHeals'
    <2>1. offered'.code # Shift
      BY <1>1, KeyBytes DEF Keys
    <2> QED
      BY <2>1 DEF OfferedHeals
  <1>10. ASSUME ~unsure' PROVE InStep(Decode(dec, Pending).dec, held)
    <2>1. CASE ~unsure
      BY <2>1 DEF KeyInv
    <2>2. CASE offered.code = Shift /\ ~cut
      <3>0. Decode(dec, queue).dec.state = "start"
        BY <2>2 DEF KeyInv, CutInv
      <3>1. PICK d, e : d = Decode(dec, queue).dec /\ e = Decode(d, one).dec /\ d \in Decoder
        BY <1>1, DecodeType
      <3>2. e = NextDecoder(d, offered) /\ e \in Decoder
        BY <1>1, <1>5, <3>1, DecodeOne, NextDecoderType
      <3>3. e.state = "start" /\ (e.shift <=> ~offered.up)
        <4>1. offered # E0
          BY <2>2, KeyBytes DEF Keys
        <4> QED
          BY <1>1, <2>2, <3>0, <3>1, <3>2, <4>1, NextDecoderFields
      <3>4. InStep(Decode(e, wire).dec, held)
        BY <2>2, <3>2, <3>3 DEF KeyInv, OfferedHeals
      <3>5. Decode(dec, queue \o one).dec = e
        BY <1>1, <1>5, <3>1, DecodeConcat
      <3>6. Decode(dec, Pending).dec = Decode(e, wire).dec
        BY <1>1, <1>6, <1>7, <3>5, DecodeConcat
      <3> QED
        BY <3>4, <3>6
    <2> QED
      BY <1>3, <1>10, <2>1, <2>2
  <1>11. unsure' => dropped'
    <2>1. unsure' => unsure
      BY <1>3
    <2>2. dropped' <=> dropped
      BY <1>1
    <2> QED
      BY <2>1, <2>2 DEF KeyInv
  <1>12. ~unsure' => InStep(Decode(dec, Pending).dec, held)'
    BY <1>1, <1>7, <1>10 DEF InStep
  <1>13. NothingTypedIsLost'
    BY <1>1, <1>7 DEF KeyInv, NothingTypedIsLost
  <1>14. CutInv'
    <2>1. PICK d, e : d = Decode(dec, queue).dec /\ e = Decode(d, one).dec /\ d \in Decoder
      BY <1>1, DecodeType
    <2>2. e = NextDecoder(d, offered) /\ Decode(dec, queue \o one).dec = e
      <3>1. e = NextDecoder(d, offered)
        BY <1>1, <1>5, <2>1, DecodeOne, NextDecoderType
      <3>2. Decode(dec, queue \o one).dec = e
        BY <1>1, <1>5, <2>1, DecodeConcat
      <3> QED
        BY <3>1, <3>2
    <2>3. offered # E0 => e.state = "start"
      BY <1>1, <2>1, <2>2, NextDecoderFields
    <2>4. queue' = queue \o one /\ dec' = dec
      BY <1>1, <1>5
    <2>5. Decode(dec', queue').dec = e
      BY <2>2, <2>4
    <2> QED
      BY <1>3, <2>3, <2>5 DEF CutInv
  <1> QED
    BY <1>4, <1>8, <1>9, <1>11, <1>12, <1>13, <1>14 DEF KeyInv

\* Or a full queue discards it.
LEMMA PushFullInv ==
  ASSUME KeyInv, PushFull
  PROVE  KeyInv'
  <1>1. /\ offered' = None /\ dropped' = TRUE /\ unsure' = TRUE
        /\ UNCHANGED <<held, wire, queue, dec, typed, handled, cut>>
    BY DEF PushFull, Fifo!Discard, user, shell
  <1>2. KeyType' /\ LastSaysHeld' /\ CutInv'
    BY <1>1 DEF KeyInv, KeyType, LastSaysHeld, CutInv
  <1>3. OfferedHeals'
    <2>1. offered'.code # Shift
      BY <1>1, KeyBytes DEF Keys
    <2> QED
      BY <2>1 DEF OfferedHeals
  <1>4. unsure' /\ dropped'
    BY <1>1
  <1>5. NothingTypedIsLost'
    BY <1>4 DEF NothingTypedIsLost
  <1> QED
    BY <1>2, <1>3, <1>4, <1>5 DEF KeyInv

\* The shell decodes the first byte of those on their way.
LEMMA ReadByteInv ==
  ASSUME KeyInv, ReadByte
  PROVE  KeyInv'
  <1>0. KeyType
    BY DEF KeyInv
  <1>1. PICK h, t : /\ queue # <<>> /\ h = Head(queue) /\ t = Tail(queue)
                    /\ h \in Byte /\ t \in Seq(Byte) /\ queue = <<h>> \o t
                    /\ queue' = t /\ dec' = NextDecoder(dec, h)
                    /\ handled' = handled \o Chars(Key(dec, h))
                    /\ UNCHANGED <<held, wire, offered, typed, dropped, cut, unsure>>
    BY <1>0, FirstByte DEF ReadByte, Fifo!Take, user, KeyType
  <1>2. PICK c : c = Chars(Key(dec, h)) /\ c \in Seq(Out)
    BY <1>0, <1>1, CharsType DEF KeyType
  <1>3. dec \in Decoder /\ dec' \in Decoder /\ handled \in Seq(Out) /\ handled' = handled \o c
    BY <1>0, <1>1, <1>2, NextDecoderType DEF KeyType
  <1>4. handled' \in Seq(Out)
    BY <1>2, <1>3, ConcatProperties
  <1>5. KeyType'
    BY <1>0, <1>1, <1>3, <1>4 DEF KeyType
  <1>6. LastSaysHeld' /\ OfferedHeals'
    BY <1>1 DEF KeyInv, LastSaysHeld, OfferedHeals, InStep
  <1>7. PICK one : one = <<h>> /\ one \in Seq(Byte)
    BY <1>1, ByteSeqs
  <1>8. Pending' \in Seq(Byte) /\ Pending = one \o Pending'
    <2>1. PICK rest : /\ rest = (IF offered = None THEN <<>> ELSE <<offered>>)
                      /\ rest \in Seq(Byte) /\ wire \in Seq(Byte)
      BY <1>0, ByteSeqs DEF KeyType
    <2>2. Received = (one \o t) \o rest /\ Received' = t \o rest
      BY <1>1, <1>7, <2>1 DEF Received
    <2>3. Pending = ((one \o t) \o rest) \o wire /\ Pending' = (t \o rest) \o wire
      BY <1>1, <2>2 DEF Pending
    <2>4. (one \o t) \o rest = one \o (t \o rest) /\ t \o rest \in Seq(Byte)
      BY <1>1, <1>7, <2>1, ByteSeqs
    <2>5. (one \o (t \o rest)) \o wire = one \o ((t \o rest) \o wire) /\ (t \o rest) \o wire \in Seq(Byte)
      <3>1. PICK u : u = t \o rest /\ u \in Seq(Byte)
        BY <2>4
      <3>2. one \in Seq(Byte) /\ u \in Seq(Byte) /\ wire \in Seq(Byte)
        BY <1>7, <2>1, <3>1
      <3>3. (one \o u) \o wire = one \o (u \o wire)
        BY <3>2, SMT
      <3>4. u \o wire \in Seq(Byte)
        BY <3>2, ConcatProperties
      <3> QED
        BY <3>1, <3>3, <3>4
    <2> QED
      BY <2>3, <2>4, <2>5
  <1>9. Decode(dec, one).dec = dec' /\ Decode(dec, one).out = c
    BY <1>1, <1>2, <1>3, <1>7, DecodeOne
  <1>10. PICK p, d : p = Pending' /\ d = dec' /\ p \in Seq(Byte) /\ d \in Decoder
    BY <1>3, <1>8
  <1>11. Decode(dec, Pending).dec = Decode(d, p).dec /\ Decode(dec, Pending).out = c \o Decode(d, p).out
    BY <1>3, <1>7, <1>8, <1>9, <1>10, DecodeConcat
  <1>12. (~unsure => InStep(Decode(dec, Pending).dec, held))'
    <2>1. ~unsure' => InStep(Decode(d, p).dec, held')
      BY <1>1, <1>11 DEF KeyInv
    <2> QED
      BY <1>10, <2>1 DEF InStep
  <1>13. (unsure => dropped)'
    BY <1>1 DEF KeyInv
  <1>14. NothingTypedIsLost'
    <2>1. PICK o : o = Decode(d, p).out /\ o \in Seq(Out)
      BY <1>10, DecodeType
    <2>2. (handled \o c) \o o = handled \o (c \o o)
      <3>1. handled \in Seq(Out) /\ c \in Seq(Out) /\ o \in Seq(Out)
        BY <1>2, <1>3, <2>1
      <3> QED
        BY <3>1, SMT
    <2>3. ~dropped' => handled' \o Decode(d, p).out = typed'
      BY <1>1, <1>3, <1>11, <2>1, <2>2 DEF KeyInv, NothingTypedIsLost
    <2> QED
      BY <1>10, <2>3 DEF NothingTypedIsLost
  <1>15. CutInv'
    <2>1. Decode(dec, one \o t).dec = Decode(Decode(dec, one).dec, t).dec
      BY <1>1, <1>3, <1>7, DecodeConcat
    <2>2. Decode(dec, queue).dec = Decode(d, t).dec
      BY <1>1, <1>7, <1>9, <1>10, <2>1
    <2>3. ~cut => Decode(d, t).dec.state = "start"
      BY <2>2 DEF KeyInv, CutInv
    <2> QED
      BY <1>1, <1>10, <2>3 DEF CutInv
  <1> QED
    BY <1>5, <1>6, <1>12, <1>13, <1>14, <1>15 DEF KeyInv

\* A key is pressed or released.
LEMMA PressInv ==
  ASSUME KeyInv, NEW k \in Keys, PressOrRelease(k)
  PROVE  KeyInv'
  <1>0. KeyType
    BY DEF KeyInv
  <1>1. /\ wire = <<>>
        /\ UNCHANGED <<offered, queue, dec, handled, dropped, cut, unsure>>
    BY DEF PressOrRelease, shell
  <1>2. PICK b \in KeyByte :
          /\ b.code = k /\ (b.up <=> k \in held)
          /\ held' = (IF b.up THEN held \ {b.code} ELSE held \cup {b.code})
          /\ wire' = (IF b.code = Home THEN <<E0>> ELSE <<>>) \o <<b>>
          /\ typed' = IF b.code = Letter /\ ~b.up THEN Append(typed, Character(Shift \in held)) ELSE typed
    <2> DEFINE b == [code |-> k, up |-> k \in held]
    <2>1. b \in KeyByte
      BY DEF KeyByte
    <2>2. b.code = k
      OBVIOUS
    <2>3. b.up <=> k \in held
      BY Zenon
    <2>4. wire' = (IF k = Home THEN <<E0>> ELSE <<>>) \o <<b>>
      BY DEF PressOrRelease
    <2>5. /\ held' = (IF k \in held THEN held \ {k} ELSE held \cup {k})
          /\ typed' = IF k = Letter /\ ~(k \in held) THEN Append(typed, Character(Shift \in held)) ELSE typed
      BY DEF PressOrRelease
    <2> HIDE DEF b
    <2>6. /\ held' = (IF b.up THEN held \ {b.code} ELSE held \cup {b.code})
          /\ typed' = IF b.code = Letter /\ ~b.up THEN Append(typed, Character(Shift \in held)) ELSE typed
      BY <2>2, <2>3, <2>5
    <2> QED
      BY <2>1, <2>2, <2>3, <2>4, <2>6
  <1>3. PICK bs, R : /\ bs = wire' /\ bs \in Seq(Byte) /\ R = Received /\ R \in Seq(Byte)
                     /\ bs = (IF b.code = Home THEN <<E0>> ELSE <<>>) \o <<b>>
    <2>1. wire' \in Seq(Byte)
      <3>1. b \in Byte /\ E0 \in Byte
        BY <1>2, KeyBytes
      <3> QED
        BY <1>2, <3>1, ByteSeqs
    <2> QED
      BY <1>0, <1>2, <2>1, PendingType
  <1>4. Pending = R /\ Pending' = R \o bs
    BY <1>1, <1>3, ByteSeqs DEF Pending, Received
  <1>5. PICK d : d = Decode(dec, R).dec /\ d \in Decoder /\ Decode(dec, R).out \in Seq(Out)
    BY <1>0, <1>3, DecodeType DEF KeyType
  <1>6. /\ Decode(dec, R \o bs).dec = Decode(d, bs).dec
        /\ Decode(dec, R \o bs).out = Decode(dec, R).out \o Decode(d, bs).out
    BY <1>0, <1>3, <1>5, DecodeConcat DEF KeyType
  <1>7. typed' \in Seq(Out)
    <2>1. Character(Shift \in held) \in Out
      BY DEF Character, Out
    <2> QED
      BY <1>0, <1>2, <2>1 DEF KeyType
  <1>8. KeyType'
    BY <1>0, <1>1, <1>3, <1>7 DEF KeyType
  <1>9. LastSaysHeld'
    <2>1. CASE b.code = Home
      <3>1. E0.code # Shift /\ b.code # Shift
        BY <2>1, KeyBytes DEF Keys, Home, Shift
      <3>2. Len(bs) = 2 /\ bs[1] = E0 /\ bs[2] = b
        BY <1>3, <2>1
      <3> QED
        BY <1>3, <3>1, <3>2 DEF LastSaysHeld
    <2>2. CASE b.code # Home
      <3>1. Len(bs) = 1 /\ bs[1] = b
        BY <1>3, <2>2
      <3>2. b.code = Shift => (b.up <=> Shift \notin held')
        BY <1>2
      <3> QED
        BY <1>3, <3>1, <3>2 DEF LastSaysHeld
    <2> QED
      BY <2>1, <2>2
  <1>10. OfferedHeals'
    <2>1. ASSUME offered.code = Shift, NEW e \in Decoder, e.state = "start", e.shift <=> ~offered.up
          PROVE  InStep(Decode(e, bs).dec, held')
      <3>1. InStep(Decode(e, <<>>).dec, held)
        BY <1>1, <2>1 DEF KeyInv, OfferedHeals
      <3>2. InStep(e, held)
        BY <3>1, DecodeNone
      <3> QED
        BY <1>2, <1>3, <3>2, EventInStep
    <2> QED
      BY <1>1, <1>3, <2>1 DEF OfferedHeals, InStep, Decoder
  <1>11. ASSUME ~unsure PROVE InStep(d, held) /\ InStep(Decode(d, bs).dec, held')
    <2>1. InStep(d, held)
      BY <1>4, <1>5, <1>11 DEF KeyInv
    <2> QED
      BY <1>2, <1>3, <1>5, <2>1, EventInStep
  <1>12. (~unsure => InStep(Decode(dec, Pending).dec, held))'
    <2>1. ~unsure' => InStep(Decode(dec', R \o bs).dec, held')
      BY <1>1, <1>6, <1>11
    <2> QED
      BY <1>4, <2>1 DEF InStep
  <1>13. (unsure => dropped)'
    BY <1>1 DEF KeyInv
  <1>14. ASSUME ~dropped PROVE handled \o Decode(dec, R \o bs).out = typed'
    <2>1. d.state = "start" /\ (d.shift <=> Shift \in held)
      BY <1>11, <1>14 DEF KeyInv, InStep
    <2>2. Decode(d, bs).out = IF b.code = Letter /\ ~b.up THEN <<Character(d.shift)>> ELSE <<>>
      <3>1. /\ d \in Decoder /\ b \in KeyByte /\ d.state = "start"
            /\ bs = (IF b.code = Home THEN <<E0>> ELSE <<>>) \o <<b>>
        BY <1>2, <1>3, <1>5, <2>1
      <3> QED
        BY <3>1, EventDecoded, Zenon
    <2>3. Character(d.shift) = Character(Shift \in held) /\ Character(d.shift) \in Out
      BY <2>1 DEF Character, Out
    <2>4. PICK o, c : /\ o = Decode(dec, R).out /\ o \in Seq(Out) /\ handled \in Seq(Out)
                      /\ c = Decode(d, bs).out /\ c \in Seq(Out)
      BY <1>0, <1>3, <1>5, DecodeType DEF KeyType
    <2>5. handled \o o = typed /\ typed \in Seq(Out)
      BY <1>0, <1>4, <1>14, <2>4 DEF KeyInv, NothingTypedIsLost, KeyType
    <2>6. handled \o (o \o c) = typed \o c
      <3>1. handled \in Seq(Out) /\ o \in Seq(Out) /\ c \in Seq(Out)
        BY <2>4
      <3>2. (handled \o o) \o c = handled \o (o \o c)
        BY <3>1, OutsAssociate, Zenon
      <3> QED
        BY <2>5, <3>2
    <2>7. typed \o c = typed'
      <3>1. CASE b.code = Letter /\ ~b.up
        <4>1. c = <<Character(d.shift)>> /\ typed' = Append(typed, Character(d.shift))
          BY <1>2, <2>2, <2>3, <2>4, <3>1
        <4> QED
          BY <2>3, <2>5, <4>1
      <3>2. CASE ~(b.code = Letter /\ ~b.up)
        <4>1. c = <<>> /\ typed' = typed
          BY <1>2, <2>2, <2>4, <3>2
        <4> QED
          BY <2>5, <4>1, ConcatEmptySeq
      <3> QED
        BY <3>1, <3>2
    <2> QED
      BY <1>6, <2>4, <2>6, <2>7
  <1>15. NothingTypedIsLost'
    <2>1. ~dropped' => handled' \o Decode(dec', R \o bs).out = typed'
      BY <1>1, <1>14
    <2> QED
      BY <1>4, <2>1 DEF NothingTypedIsLost
  <1>16. CutInv'
    BY <1>1 DEF KeyInv, CutInv
  <1> QED
    BY <1>8, <1>9, <1>10, <1>12, <1>13, <1>15, <1>16 DEF KeyInv

\* At first nothing is typed, nothing is on its way, and the modifier is not held.
LEMMA KeyInitInv == KeyInit => KeyInv
  <1> SUFFICES ASSUME KeyInit PROVE KeyInv
    OBVIOUS
  <1>1. /\ held = {} /\ wire = <<>> /\ queue = <<>> /\ offered = None /\ dec = NewDecoder
        /\ typed = <<>> /\ handled = <<>> /\ dropped = FALSE /\ cut = FALSE /\ unsure = FALSE
    BY DEF KeyInit, Fifo!Init
  <1>2. dec \in Decoder
    BY <1>1 DEF NewDecoder, Decoder
  <1>3. KeyType
    <2>1. <<>> \in Seq(Byte) /\ <<>> \in Seq(Out)
      BY EmptySeq
    <2>2. dropped \in BOOLEAN /\ cut \in BOOLEAN /\ unsure \in BOOLEAN
      BY <1>1, Zenon
    <2>3. queue \in Seq(Byte) /\ wire \in Seq(Byte) /\ typed \in Seq(Out) /\ handled \in Seq(Out)
      BY <1>1, <2>1, Zenon
    <2> QED
      BY <1>1, <1>2, <2>2, <2>3, Zenon DEF KeyType
  <1>4. Pending = <<>>
    BY <1>1, ByteSeqs DEF Pending, Received
  <1>5. InStep(dec, held)
    <2>1. dec.state = "start"
      BY <1>1 DEF NewDecoder
    <2>2. ~dec.shift
      BY <1>1, Zenon DEF NewDecoder
    <2> QED
      BY <1>1, <2>1, <2>2 DEF InStep
  <1>6. Decode(dec, Pending).dec = dec /\ Decode(dec, Pending).out = <<>>
    BY <1>4, DecodeNone
  <1>7. LastSaysHeld
    BY <1>1 DEF LastSaysHeld
  <1>8. OfferedHeals
    <2>1. offered.code # Shift
      BY <1>1, KeyBytes DEF Keys
    <2> QED
      BY <2>1 DEF OfferedHeals
  <1>9. NothingTypedIsLost
    <2>1. <<>> \o <<>> = <<>>
      BY ByteSeqs
    <2> QED
      BY <1>1, <1>6, <2>1 DEF NothingTypedIsLost
  <1>10. CutInv
    <2>1. Decode(dec, queue).dec = dec
      BY <1>1, DecodeNone
    <2> QED
      BY <1>5, <2>1 DEF InStep, CutInv
  <1> QED
    BY <1>1, <1>3, <1>5, <1>6, <1>7, <1>8, <1>9, <1>10 DEF KeyInv

\* Every step preserves the invariant.
LEMMA KeyStep == KeyInv /\ [KeyNext]_keyVars => KeyInv'
  <1> SUFFICES ASSUME KeyInv, [KeyNext]_keyVars PROVE KeyInv'
    OBVIOUS
  <1>1. ASSUME NEW k \in Keys, PressOrRelease(k) PROVE KeyInv'
    BY <1>1, PressInv
  <1>2. CASE Send
    BY <1>2, SendInv
  <1>3. CASE Push
    BY <1>3, PushInv
  <1>4. CASE PushFull
    BY <1>4, PushFullInv
  <1>5. CASE Click
    BY <1>5, KeySame DEF Click, user, shell
  <1>6. CASE ShellTurn
    BY <1>6, KeySame DEF ShellTurn, user, KEYBOARD
  <1>7. CASE ReadNone
    BY <1>7, KeySame DEF ReadNone, Fifo!TakeNone, user
  <1>8. CASE ReadByte
    BY <1>8, ReadByteInv
  <1>9. CASE UNCHANGED keyVars
    BY <1>9, KeySame DEF keyVars
  <1> QED
    BY <1>1, <1>2, <1>3, <1>4, <1>5, <1>6, <1>7, <1>8, <1>9 DEF KeyNext, keyboard_handler, try_read_key

\* The invariant of what is on its way to the decoder.
LEMMA KeyInvariant == KeySpec => []KeyInv
  BY KeyInitInv, KeyStep, PTL DEF KeySpec

(***************************************************************************)
(* For every size of the queue and however long is typed: until a full     *)
(* queue discards a byte, what handle_char has been given and what the     *)
(* bytes on their way will decode to is what was typed, in order.          *)
(***************************************************************************)
THEOREM TypingArrives == KeySpec => []NothingTypedIsLost
  <1>1. KeyInv => NothingTypedIsLost
    BY DEF KeyInv
  <1> QED
    BY <1>1, KeyInvariant, PTL

(***************************************************************************)
(* After a byte has been discarded the decoder and the keyboard agree on   *)
(* the modifier again as soon as one of its own bytes has got through,     *)
(* unless it did so right behind the first byte of a two-byte scancode, for *)
(* whose second byte it is then taken; after such a one the next makes them *)
(* agree, whatever was lost before.                                        *)
(***************************************************************************)
THEOREM ModifierAlwaysHeals == KeySpec => []StuckModifierHeals
  <1>1. KeyInv => StuckModifierHeals
    BY DEF KeyInv, InStep, StuckModifierHeals
  <1> QED
    BY <1>1, KeyInvariant, PTL
=============================================================================
