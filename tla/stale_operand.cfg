CONSTANTS
  PC <- MCPC
  ResetPC = 0
  Mtvec = 3
  NoPC = NoPC
  Succ <- MCSucc
  Targets <- MCTargets
  Reg = {0, 1}
  X0 = 0
  Value = {0, 1}
  Zero = 0
  Junk = Junk
  Instr <- UnitInstr
  Exec <- MCExec
  DivCycles = 2
  CanPause = FALSE
  CanReset = FALSE
  CanInterrupt = FALSE
SPECIFICATION Spec
INVARIANTS OperandsCurrent
