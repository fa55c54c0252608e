-------------------------------- MODULE Boot --------------------------------
(***************************************************************************)
(* kernel_main from wm::init to task::run: what it takes from the 8 MiB    *)
(* heap, in order, on the screen the bootloader has set up; the one place  *)
(* where the screen's memory has to have the size the window manager       *)
(* expects; and the list of memory regions it makes for the memory map     *)
(* task.  CONFIG asks for at least 1024 by 768 pixels and bounds nothing   *)
(* from above.                                                             *)
(***************************************************************************)
EXTENDS Integers, Sequences, FiniteSetsExt

CONSTANTS
  Machines,   \* what the bootloader finds: a screen and a memory map
  NoScreen    \* instead of a screen: width, height, bpp, stride

\* A region as the bootloader reports it, its bounds as hexadecimal digits.
BootRegion ==
  [kind : {"Usable", "Bootloader", "UnknownUefi", "UnknownBios"}, tag : Nat,
   start : [1 .. 16 -> 0 .. 15], end : [1 .. 16 -> 0 .. 15]]

ASSUME MachinesAssumption ==
  \A m \in Machines :
    /\ m.map \in Seq(BootRegion)
    /\ m.screen # NoScreen =>
         /\ {m.screen.width, m.screen.height, m.screen.bpp} \subseteq Nat \ {0}
         /\ m.screen.stride >= m.screen.width

\* Mutant: the heap of the comment above HEAP_SIZE.
SmallHeap == 100 * 1024

HEAP_SIZE == 8 * 1024 * 1024
TASK_STACK_SIZE == 64 * 1024
MAX_REGIONS == 32

\* Bound on the small allocations: the vectors of windows and of tasks.
Vectors == 8 * 1024

VARIABLES
  machine,      \* boot_info
  step,         \* position in kernel_main
  free,         \* bytes left in the heap
  status,       \* "booting", "running" or "panic"
  regions,      \* the local list of regions
  MEM_REGIONS   \* the list of the memory map task

bootVars == <<machine, step, free, status, regions, MEM_REGIONS>>

kernel_main ==
  <<"bg_cache", "back_buf", "vectors", "regions", "heap_region", "set_regions",
    "Shell", "MemoryMap", "Counter", "composite", "stack", "stack", "stack">>

At(s) == status = "booting" /\ kernel_main[step] = s

screen == machine.screen
ScreenBytes == screen.width * screen.height * screen.bpp

Size(window) ==
  CASE window = "Shell" -> <<520, 420>>
    [] window = "MemoryMap" -> <<340, 520>>
    [] window = "Counter" -> <<240, 200>>

\* Bytes a step allocates.  Without a screen there is no window manager, and
\* everything asked of it is ignored.
Needs(s) ==
  IF s = "stack" THEN TASK_STACK_SIZE
  ELSE IF s = "vectors" THEN Vectors
  ELSE IF screen = NoScreen \/ s = "composite" THEN 0
  ELSE IF s \in {"bg_cache", "back_buf"} THEN ScreenBytes
  ELSE Size(s)[1] * Size(s)[2] * screen.bpp

\* copy_from_slice in composite: the back buffer has no padding at the row ends.
SizesAgree == screen = NoScreen \/ screen.stride * screen.height * screen.bpp = ScreenBytes

BootInit ==
  /\ machine \in Machines
  /\ step = 1
  /\ free = HEAP_SIZE
  /\ status = "booting"
  /\ regions = <<>>
  /\ MEM_REGIONS = <<>>

Advance ==
  /\ step' = step + 1
  /\ status' = IF step = Len(kernel_main) THEN "running" ELSE status

Panics(s) == free < Needs(s) \/ (s = "composite" /\ ~SizesAgree)

Allocate ==
  /\ \E s \in {"bg_cache", "back_buf", "vectors", "Shell", "MemoryMap", "Counter", "composite", "stack"} :
       /\ At(s)
       /\ IF Panics(s)
            THEN status' = "panic" /\ UNCHANGED <<step, free>>
            ELSE free' = free - Needs(s) /\ Advance
  /\ UNCHANGED <<machine, regions, MEM_REGIONS>>

(***************************************************************************)
(* The list of regions.                                                    *)
(***************************************************************************)
bios_e820_to_kind(tag) ==
  CASE tag = 1 -> "Usable" [] tag = 3 -> "AcpiReclaimable" [] tag = 4 -> "AcpiNvs"
    [] tag = 5 -> "BadMemory" [] OTHER -> "Reserved"

Kind(r) ==
  CASE r.kind \in {"Usable", "Bootloader"} -> r.kind
    [] r.kind = "UnknownBios" -> bios_e820_to_kind(r.tag)
    [] OTHER -> "Reserved"

Info(r) == [kind |-> Kind(r), start |-> r.start, end |-> r.end]

\* Mutant: the list is filled to its end.
FullAt32 == 32
CollectLimit == 30

Collect ==
  /\ At("regions")
  /\ IF Len(regions) < Min({Len(machine.map), CollectLimit})
       THEN /\ regions' = Append(regions, Info(machine.map[Len(regions) + 1]))
            /\ UNCHANGED <<step, status>>
       ELSE Advance /\ UNCHANGED regions
  /\ UNCHANGED <<machine, free, MEM_REGIONS>>

\* Addresses are tuples of 16 hexadecimal digits.
HEAP_START == <<0, 0, 0, 0, 4, 4, 4, 4, 4, 4, 4, 4, 0, 0, 0, 0>>
HeapEnd == [HEAP_START EXCEPT ![11] = 12]
HeapInfo == [kind |-> "Heap", start |-> HEAP_START, end |-> HeapEnd]

AddHeap ==
  /\ At("heap_region")
  /\ regions' = IF Len(regions) < 32 THEN Append(regions, HeapInfo) ELSE regions
  /\ Advance
  /\ UNCHANGED <<machine, free, MEM_REGIONS>>

set_memory_regions ==
  /\ At("set_regions")
  /\ MEM_REGIONS' = SubSeq(regions, 1, Min({Len(regions), MAX_REGIONS}))
  /\ Advance
  /\ UNCHANGED <<machine, free, regions>>

BootNext == Allocate \/ Collect \/ AddHeap \/ set_memory_regions
-----------------------------------------------------------------------------
\* The screen the system is written for, a smaller one or none.
Designed ==
  screen = NoScreen \/
    (screen.width <= 1024 /\ screen.height <= 768 /\ screen.bpp <= 4 /\ screen.stride = screen.width)

AllNeeds ==
  2 * ScreenBytes + (520 * 420 + 340 * 520 + 240 * 200) * screen.bpp + 3 * 65536 + Vectors

PanicExplained == ~Designed /\ (screen.stride # screen.width \/ AllNeeds > 8388608)
Booted == status = "running" \/ (status = "panic" /\ PanicExplained)

(***************************************************************************)
(* The system boots on the screen it is written for, on every smaller one  *)
(* and without one.  On any other it never hangs half way: it runs, or it  *)
(* panics for one of two reasons, a screen with padding between its rows   *)
(* or one for which the two buffers of WindowManager::new, the windows and *)
(* the stacks ask for more than 8 MiB in all.                              *)
(***************************************************************************)
BootsAsDesigned == <>Booted

Listed(n) == [k \in 1 .. n |-> Info(machine.map[k])]

(***************************************************************************)
(* However many regions the bootloader reports, the task gets the first of *)
(* them in order with their kinds translated, and the heap as the last     *)
(* entry: the list never fills up before it (kernel_main).                 *)
(***************************************************************************)
HeapAlwaysListed ==
  At("Shell") => MEM_REGIONS = Listed(Min({Len(machine.map), 30})) \o <<HeapInfo>>
=============================================================================
