------------------------------- MODULE Program -------------------------------
(***************************************************************************)
(* What a test is written in: instructions as the encoders of the test     *)
(* benches put them into a word and decoder.sv gets them out of it again,  *)
(* and the commands of a test driver.                                      *)
(***************************************************************************)
EXTENDS Word32, TLC

\* Immediates lose the bits their field has no room for.
R(op, fn, rd, rs1, rs2, imm) ==
  [op |-> op, fn |-> fn, rd |-> rd, rs1 |-> rs1, rs2 |-> rs2, imm |-> imm]
Op(fn, rd, rs1, rs2)  == R("op", fn, rd, rs1, rs2, 0)
Imm(fn, rd, rs1, imm) == R("imm", fn, rd, rs1, 0, SignExtend(imm, 12))
Ld(fn, rd, rs1, imm)  == R("load", fn, rd, rs1, 0, SignExtend(imm, 12))
St(fn, rs2, rs1, imm) == R("store", fn, 0, rs1, rs2, SignExtend(imm, 12))
Br(fn, rs1, rs2, imm) == R("branch", fn, 0, rs1, rs2, SignExtend(imm - (imm % 2), 13))
LUI(rd, imm)    == R("lui", "", rd, 0, 0, Join(imm \div 16, (imm % 16) * 4096))
AUIPC(rd, imm)  == R("auipc", "", rd, 0, 0, Join(imm \div 16, (imm % 16) * 4096))
JAL(rd, imm)    == R("jal", "", rd, 0, 0, SignExtend(imm - (imm % 2), 21))
JALR(rd, rs1, imm) == R("jalr", "", rd, rs1, 0, SignExtend(imm, 12))
LR(rd, rs1)      == R("lr", "w", rd, rs1, 0, 0)
SC(rd, rs2, rs1) == R("sc", "w", rd, rs1, rs2, 0)
NOP    == Imm("add", 0, 0, 0)
Loop   == Br("eq", 0, 0, 0)
EBREAK == R("ebreak", "", 0, 0, 0, 0)

\* Commands of a driver; words are functions from word numbers of data memory.
Do(what, n, words) == [what |-> what, n |-> n, words |-> words]
Reset     == Do("reset", 0, <<>>)
Run       == Do("run", 0, <<>>)
Stop      == Do("stop", 0, <<>>)
Wait(n)   == Do("wait", n, <<>>)
Put(w)    == Do("put", 0, w)
See(w)    == Do("see", 0, w)
Status(n) == Do("status", n, <<>>)     \* RUNNING + 2 * HALTED
Until(n)  == Do("until", n, <<>>)      \* HALTED, or n cycles gone

\* A test that follows others finds whatever they left in memory and registers;
\* a fresh one starts from a new simulation, where everything is zero.
Test(prog, script)  == [prog |-> prog, script |-> script, fresh |-> FALSE]
Fresh(prog, script) == [prog |-> prog, script |-> script, fresh |-> TRUE]

\* The driver most tests share: run for n cycles, stop, compare.
Batch(pre, n, out) == <<Reset, Put(pre), Run, Wait(n), Stop, See(out)>>
\* The same, reading results while the core is still running.
Live(pre, n, out)  == <<Reset, Put(pre), Run, Wait(n), See(out)>>
=============================================================================
