CONSTANTS
  PC <- PC3
  ResetPC = 0
  Mtvec = 2
  NoPC = NoPC
  Succ <- Succ3
  Targets <- MCTargets
  Reg = {0, 1}
  X0 = 0
  Value = {0}
  Zero = 0
  Junk = Junk
  Instr <- FlowInstr
  Exec <- NoValue
  DivCycles = 2
  CanPause = TRUE
  CanReset = TRUE
  CanInterrupt = TRUE
SPECIFICATION StopSpec
PROPERTIES TrapFlow
