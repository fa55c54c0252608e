------------------------------ MODULE Desktop ------------------------------
(***************************************************************************)
(* kernel_main and the two tasks that only display something, after it.    *)
(* Tasks take their turns in the order they were spawned in: the memory    *)
(* map is drawn in the first turn of its task, before the counter's first. *)
(* Nothing looks at the ticks of the time before; they count as ticks      *)
(* before that turn.                                                       *)
(***************************************************************************)
EXTENDS MemoryMap, Counter

allVars == <<bootVars, memmapVars, vars>>

DesktopInit == BootInit /\ MemmapInit /\ Init

BootStep == BootNext /\ UNCHANGED <<memmapVars, vars>>
MemmapStep == MemmapNext /\ UNCHANGED <<bootVars, vars>>
Tick == drawing = "drawn" /\ timer_handler /\ UNCHANGED <<bootVars, memmapVars>>
CounterTurn == drawing = "drawn" /\ Turn /\ UNCHANGED <<bootVars, memmapVars>>

DesktopNext == BootStep \/ MemmapStep \/ Tick \/ CounterTurn

\* Nothing else runs before kernel_main calls run, so the CPU executes it to its end;
\* the memory map task then has its first turn, after one turn of the shell, which is one key
\* and no command yet.
\* Nothing is assumed of the PIT, nor of later turns: after the shell's halt there are none.
DesktopSpec ==
  /\ DesktopInit
  /\ [][DesktopNext]_allVars
  /\ WF_allVars(BootStep \/ MemmapStep)
=============================================================================
