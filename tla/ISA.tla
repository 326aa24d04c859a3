-------------------------------- MODULE ISA --------------------------------
(***************************************************************************)
(* What a program may assume of the core: instructions execute one at a    *)
(* time, in program order, each reading the registers its predecessors     *)
(* wrote.  The program itself is left open: every step executes some       *)
(* instruction of Instr, so the specification covers every program.        *)
(* The six-stage core of rtl/riscv_soc.sv (module Pipeline) is checked     *)
(* to implement it.                                                        *)
(***************************************************************************)
CONSTANTS
  PC, ResetPC, Succ, Targets,   \* program counters: reset value, pc + 4, branch targets
  Reg, X0, Value, Zero,         \* registers, the register that reads as zero, values
  Instr, Exec(_, _, _, _),      \* instructions; result of i at pc on two operands
  CanReset                      \* whether the host may reset the core

VARIABLES apc, aregs            \* address of the next instruction, the registers

avars == <<apc, aregs>>

\* The value an instruction sees in register r.
Operand(r) == IF r = X0 THEN Zero ELSE aregs[r]

\* A load or an SC.W returns what memory decides; everything else computes.
Results(i) ==
  IF i.kind \in {"load", "sc"} THEN Value
  ELSE {Exec(i, apc, Operand(i.rs1), Operand(i.rs2))}

\* Where execution continues after i.
Nexts(i) ==
  {p \in Targets \cup {Succ[apc]} :
     \/ i.kind \in {"branch", "jump"} /\ p \in Targets
     \/ i.kind # "jump" /\ p = Succ[apc]}

Init == apc = ResetPC /\ aregs \in [Reg \ {X0} -> Value]

Execute(i) ==
  /\ apc' \in Nexts(i)
  /\ \E v \in Results(i) :
       aregs' = [r \in Reg \ {X0} |-> IF r = i.rd THEN v ELSE aregs[r]]

\* A reset restarts the program and promises nothing about the registers.
Reset == CanReset /\ apc' = ResetPC /\ aregs' \in [Reg \ {X0} -> Value]

Next == Reset \/ \E i \in Instr : Execute(i)

Spec == Init /\ [][Next]_avars

\* The control half alone: the order of execution, whatever the registers hold.
FlowNext == (CanReset /\ apc' = ResetPC) \/ \E i \in Instr : apc' \in Nexts(i)
FlowSpec == apc = ResetPC /\ [][FlowNext]_apc
=============================================================================
