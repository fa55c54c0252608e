CONSTANTS
  MaxFaults = 2
SPECIFICATION Spec
INVARIANTS SpinsOnlyOnOwnPrint
PROPERTIES EveryInterruptServed PanicEndsMachine
CHECK_DEADLOCK FALSE
