CONSTANTS
  PC <- PC3
  ResetPC = 0
  Mtvec = 2
  NoPC = NoPC
  Succ <- Succ3
  Targets <- MCTargets
  Reg = {0, 1}
  X0 = 0
  Value = {0, 1}
  Zero = 0
  Junk = Junk
  Instr <- WfiInstr
  Exec <- MCExec
  DivCycles = 2
  CanPause = FALSE
  CanReset = FALSE
  CanInterrupt = TRUE
SPECIFICATION Spec
PROPERTIES WfiWakes
