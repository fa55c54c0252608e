\* Four slots hold three values: full, empty and both wrap-arounds occur.
CONSTANTS
  BUF_SIZE = 4
  Val = {z, a, b}
  Zero = z
  None = None
SPECIFICATION Spec
INVARIANTS RingInv NoSlotRace
PROPERTY ImplementsFifo
