------------------------------- MODULE Machine -------------------------------
(***************************************************************************)
(* A test of the repository as its author sees it: a program in            *)
(* instruction memory, the core that executes it one instruction at a      *)
(* time, data memory, and the test driver, which acts at its own pace.     *)
(* The driver (a testbench or riscv_host.c) mostly does not ask whether    *)
(* the program has finished: it waits some cycles and then reads.          *)
(*                                                                         *)
(* Memory words and registers nobody has written hold junk, the same       *)
(* unknown word everywhere: a test may not depend on what an earlier test  *)
(* left behind.                                                            *)
(***************************************************************************)
EXTENDS Program

CONSTANTS Suite,    \* the tests: a sequence of records, see Program
          Junk,     \* what an unwritten word or register may hold
          Fill,     \* cycles before the first instruction completes
          Cost(_)   \* cycles an instruction takes at most

VARIABLES test, at, left, failed,        \* the driver
          junk, pc, regs, dmem, resv,    \* the core and its data memory
          run, halted                    \* CTRL.RUN and STATUS.HALTED

core == <<pc, regs, resv>>
vars == <<test, at, left, failed, junk, core, dmem, run, halted>>

prog   == Suite[test].prog
script == Suite[test].script
Inside == pc % 4 = 0 /\ pc \div 4 \in 0..(Len(prog) - 1)
\* The word k places behind the pc; EBREAK pads what is loaded.
Next(k) == IF pc \div 4 + k < Len(prog) THEN prog[pc \div 4 + 1 + k] ELSE EBREAK
Instr == Next(0)
Running == run /\ ~halted

-----------------------------------------------------------------------------
(* The core.                                                               *)

Reg(r) == IF r = 0 THEN 0 ELSE IF r \in DOMAIN regs THEN regs[r] ELSE junk
Mem(w) == IF w \in DOMAIN dmem THEN dmem[w] ELSE junk

Addr(i) == Plus(Reg(i.rs1), i.imm)
Index(i) == (Lo(Addr(i)) % 32768) \div 4     \* 8192 words answer at every address
Lane(i) == Lo(Addr(i)) % 4

Half(w, l) == IF l < 2 THEN Lo(w) ELSE Hi(w) % 65536
Loaded(i) ==
  LET w == Mem(Index(i)) IN
  CASE i.fn = "w"  -> w
    [] i.fn = "h"  -> SignExtend(Half(w, Lane(i)), 16)
    [] i.fn = "hu" -> Half(w, Lane(i))
    [] i.fn = "b"  -> SignExtend(Byte(w, Lane(i)), 8)
    [] i.fn = "bu" -> Byte(w, Lane(i))

\* The byte lanes a store enables take the replicated register.
Merged(i) ==
  LET w == Mem(Index(i))
      v == Reg(i.rs2)
      B(k) == IF \/ i.fn = "w"
                 \/ i.fn = "h" /\ k \div 2 = Lane(i) \div 2
                 \/ i.fn = "b" /\ k = Lane(i)
              THEN Byte(v, IF i.fn = "w" THEN k ELSE IF i.fn = "h" THEN k % 2 ELSE 0)
              ELSE Byte(w, k)
  IN Join(B(3) * 256 + B(2), B(1) * 256 + B(0))

\* Mutant: an SC.W does not compare the address it reserved.
ScAnyAddress(i) == resv # {}
ScSuccess(i) == Addr(i) \in resv

Stores(i) == i.op = "store" \/ (i.op = "sc" /\ ScSuccess(i))
Written(i) == IF Stores(i) THEN Index(i) :> Merged(i) ELSE <<>>

\* LR.W reserves an address, every SC.W gives it up, a store to it loses it.
Reservation(i) ==
  CASE i.op = "lr"    -> {Addr(i)}
    [] i.op = "sc"    -> {}
    [] i.op = "store" -> resv \ {Addr(i)}
    [] OTHER -> resv

Result(i) ==
  CASE i.op = "op"    -> Alu(i.fn, Reg(i.rs1), Reg(i.rs2))
    [] i.op = "imm"   -> Alu(i.fn, Reg(i.rs1), i.imm)
    [] i.op \in {"load", "lr"} -> Loaded(i)
    [] i.op = "lui"   -> i.imm
    [] i.op = "auipc" -> Plus(pc, i.imm)
    [] i.op \in {"jal", "jalr"} -> pc + 4
    [] i.op = "sc"    -> Bit(~ScSuccess(i))
    [] OTHER -> 0

\* Mutant: offsets count from the next instruction.
TargetFromNext(i) ==
  IF i.op = "jalr" THEN Addr(i) - (Addr(i) % 2)
  ELSE IF i.op = "jal" \/ (i.op = "branch" /\ Taken(i.fn, Reg(i.rs1), Reg(i.rs2)))
  THEN Plus(pc + 4, i.imm) ELSE pc + 4
Target(i) ==
  IF i.op = "jalr" THEN Addr(i) - (Addr(i) % 2)
  ELSE IF i.op = "jal" \/ (i.op = "branch" /\ Taken(i.fn, Reg(i.rs1), Reg(i.rs2)))
  THEN Plus(pc, i.imm) ELSE pc + 4

\* One instruction, except for what it writes to memory.
Execute(i) ==
  /\ Running /\ Inside /\ i.op # "ebreak"
  /\ pc' = Target(i)
  /\ regs' = IF i.rd = 0 THEN regs ELSE (i.rd :> Result(i)) @@ regs
  /\ resv' = Reservation(i)
  /\ UNCHANGED <<test, junk, run, halted>>

Step ==
  /\ Execute(Instr)
  /\ dmem' = Written(Instr) @@ dmem
  /\ left' = IF left < Cost(Instr) THEN 0 ELSE left - Cost(Instr)
  /\ UNCHANGED <<at, failed>>

\* EBREAK halts from WB: the instruction behind it is in MEM by then, and if
\* it is a store it is carried out.
Break ==
  /\ Running /\ Inside /\ Instr.op = "ebreak"
  /\ halted' = TRUE
  /\ dmem' = (IF Next(1).op = "store" THEN Written(Next(1)) ELSE <<>>) @@ dmem
  /\ UNCHANGED <<test, at, left, failed, junk, core, run>>

-----------------------------------------------------------------------------
(* The driver.                                                             *)

Advance ==
  /\ at' = at + 1
  /\ left' = IF at < Len(script) /\ script[at + 1].n > Fill
             THEN script[at + 1].n - Fill ELSE 0

\* A wait may end once the next instruction need not complete before it does.
\* Outside its program the core executes what an earlier test left there: the
\* model makes no claim and stops.
\* Mutant: a wait lasts until the core has halted.
WaitForHalt == ~Running
WaitOver == ~Running \/ ~Inside \/ left < Cost(Instr)

Driver(s) ==
  \/ /\ s.what = "reset"
     /\ pc' = 0 /\ resv' = {} /\ run' = FALSE /\ halted' = FALSE
     /\ UNCHANGED <<failed, regs, dmem>>
  \/ /\ s.what \in {"run", "stop"}
     /\ run' = (s.what = "run")
     /\ UNCHANGED <<failed, core, dmem, halted>>
  \/ /\ \/ s.what = "wait" /\ WaitOver
        \/ s.what = "until" /\ (halted \/ WaitOver)
     /\ UNCHANGED <<failed, core, dmem, run, halted>>
  \/ /\ s.what = "put"
     /\ dmem' = s.words @@ dmem
     /\ UNCHANGED <<failed, core, run, halted>>
  \/ /\ s.what \in {"see", "status"}
     /\ failed' = (failed \/ IF s.what = "see"
                             THEN \E w \in DOMAIN s.words : Mem(w) # s.words[w]
                             ELSE s.n # Bit(Running) + 2 * Bit(halted))
     /\ UNCHANGED <<core, dmem, run, halted>>

Drive ==
  /\ at <= Len(script) /\ Advance /\ Driver(script[at])
  /\ UNCHANGED <<test, junk>>

\* A host write takes the memory port from a CPU store of the same cycle.
Collide ==
  /\ at <= Len(script) /\ script[at].what = "put"
  /\ Execute(Instr) /\ Stores(Instr)
  /\ dmem' = script[at].words @@ dmem
  /\ Advance
  /\ UNCHANGED failed

Done == at > Len(script) /\ UNCHANGED vars

Init ==
  /\ test \in DOMAIN Suite
  /\ junk \in IF Suite[test].fresh THEN {0} ELSE Junk
  /\ at = 1 /\ left = 0 /\ failed = FALSE
  /\ pc = 0 /\ regs = <<>> /\ dmem = <<>> /\ resv = {}
  /\ run = FALSE /\ halted = FALSE

NextStep == Step \/ Break \/ Drive \/ Collide \/ Done
Spec == Init /\ [][NextStep]_vars /\ WF_vars(Step) /\ WF_vars(Break) /\ WF_vars(Drive)
=============================================================================
