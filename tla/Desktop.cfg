CONSTANTS
  Machines <- MCMachines
  NoScreen = NoScreen
  Modulus = 32
  MaxGap = 16
SPECIFICATION DesktopSpec
INVARIANTS HeapAlwaysListed RowsShowRegions DisplayFresh
PROPERTIES BootsAsDesigned
CHECK_DEADLOCK FALSE
