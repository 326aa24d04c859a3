\* Three entries; every second row of the window is a control row.
SPECIFICATION Spec
CONSTANTS
  Depth = 3
  Row = 2
  Wrap = 4
  Data = {0, 1}
  Blank = 0
  Access <- MCAccess
  MaxDump = 3
INVARIANTS TypeOK RingHoldsHistory DumpIsNewest
PROPERTIES LoadIsLogged
