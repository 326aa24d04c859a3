----------------------------- MODULE MCPipeline -----------------------------
(***************************************************************************)
(* Instances of Pipeline for TLC: one general register x1 beside x0, two   *)
(* values, and three or four program counters, enough to notice two or     *)
(* three lost instructions in a row.                                       *)
(***************************************************************************)
EXTENDS Pipeline

MCPC == 0..3
MCSucc == [p \in MCPC |-> (p + 1) % 4]
\* Neither where a reset goes nor where a trap goes, so that a wrong jump is never
\* taken for one of them.
MCTargets == {1}

\* x1 counts modulo 2, so that every write changes what the next reader sees.
MCExec(i, p, a, b) == IF a = 1 THEN 0 ELSE 1

Ins(kind, rd, rs1) == [kind |-> kind, rd |-> rd, rs1 |-> rs1, rs2 |-> 0, imm |-> 0]
Store == [kind |-> "store", rd |-> 0, rs1 |-> 0, rs2 |-> 1, imm |-> 0]

BaseInstr == {Ins("alu", 1, 1), Store, Ins("alu", 0, 0),
              Ins("load", 1, 0), Ins("sc", 1, 1),
              Ins("branch", 0, 1), Ins("jump", 1, 0)}

UnitInstr == {Ins("alu", 1, 1), Ins("load", 1, 0), Ins("branch", 0, 1),
              Ins("mul", 1, 1), Ins("div", 0, 1)}
\* Every way to write and to read a register, and to leave the order of addresses.
SafeInstr == BaseInstr \cup {Ins("div", 1, 1)}
PC3 == 0..2
Succ3 == [p \in PC3 |-> (p + 1) % 3]

\* Whatever redirects the fetch, and what may be stalled or waiting when it does.
FlowInstr == {Ins("load", 1, 0), Ins("branch", 0, 1), Ins("csrsi", 0, 0),
              Ins("ecall", 0, 0), Ins("mret", 0, 0), Ins("wfi", 0, 0)}
\* Where the fetch goes next does not depend on values.
NoValue(i, p, a, b) == 0

Mepcw(p) == [Ins("mepcw", 0, 0) EXCEPT !.imm = p]
TrapInstr == FlowInstr \cup {Mepcw(1)}

\* An idle loop that sleeps with interrupts disabled, after a load.
WfiInstr == {Ins("load", 1, 0), Ins("alu", 0, 0), Ins("wfi", 0, 0)}
=============================================================================
