\* Every test of the repository that keeps to its program, 127 of them.
SPECIFICATION Spec
CONSTANTS
  Suite <- MCSuite
  Junk = {0, 23130}
  Fill = 8
  Cost <- MCCost
INVARIANTS Verdict NoStray
PROPERTIES TestEnds
