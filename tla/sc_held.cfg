\* Two addresses; no host writes, so that no store is lost to one.
SPECIFICATION Spec
CONSTANTS
  Addr = {1, 2}
  Value = {0, 1}
  CanHold = TRUE
  CanWrite = FALSE
INVARIANTS ScReports
