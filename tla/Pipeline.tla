------------------------------ MODULE Pipeline ------------------------------
(***************************************************************************)
(* The six-stage core of rtl/riscv_soc.sv, one clock edge per step: IF,    *)
(* ID, EX1 (forwarding), EX2 (ALU), MEM, WB, with its stalls, flushes,     *)
(* load wait, multiplier and divider handshakes, traps and the host's RUN  *)
(* and RESET bits.                                                         *)
(*                                                                         *)
(* A Clock step is the conjunction of the always_ff blocks, each reading   *)
(* the registers of the finished cycle.  The program is open: the fetched  *)
(* instruction is any member of Instr.  Data are abstract: an instruction  *)
(* is its kind and register numbers, Exec gives its result, and Junk       *)
(* stands for the ALU output of an instruction whose real result comes     *)
(* from elsewhere (the address of a load or SC.W, the target of a jump).   *)
(***************************************************************************)
EXTENDS Naturals

CONSTANTS
  PC, ResetPC, Mtvec,     \* addresses: all, after reset, the trap vector
  NoPC,                   \* the target of what does not redirect the fetch
  Succ, Targets,          \* pc + 4; where a taken branch or a jump may go
  Reg, X0,                \* register numbers and the one that reads as zero
  Value, Zero, Junk,      \* register contents, see above for Junk
  Instr, Exec(_, _, _, _),\* the instruction alphabet; result at pc on operands
  DivCycles,              \* cycles the divider iterates (32 in hardware)
  CanPause, CanReset, CanInterrupt  \* what the environment may do

Kinds == {"alu", "load", "store", "sc", "branch", "jump", "mul", "div",
          "csrsi", "csrci", "mepcw", "ecall", "mret", "ebreak", "wfi"}

Instruction == [kind : Kinds, rd : Reg, rs1 : Reg, rs2 : Reg, imm : PC]

ASSUME PCAssumption ==
  /\ ResetPC \in PC /\ Mtvec \in PC /\ NoPC \notin PC
  /\ Targets \subseteq PC
  /\ Succ \in [PC -> PC]
ASSUME DataAssumption ==
  /\ X0 \in Reg
  /\ Zero \in Value /\ Junk \notin Value
ASSUME InstrAssumption == Instr \subseteq Instruction
ASSUME ExecAssumption ==
  \A i \in Instruction, p \in PC, a, b \in Value \cup {Junk} :
    Exec(i, p, a, b) \in Value
ASSUME SwitchAssumption ==
  /\ DivCycles \in Nat \ {0}
  /\ {CanPause, CanReset, CanInterrupt} \subseteq BOOLEAN

GPR == Reg \ {X0}
Word == Value \cup {Junk}
Units == {"mul", "div"}

Nop == [kind |-> "alu", rd |-> X0, rs1 |-> X0, rs2 |-> X0, imm |-> ResetPC]

VARIABLES
  if_pc,            \* address being fetched
  id, ex1, ex2, mem, wb,  \* the pipeline registers in front of each stage
  regs,             \* the register file, x0 excepted
  mem_load_wait,    \* cycles the load in MEM still waits for block RAM
  dmem_q,           \* registered address and read data of the DMEM port
  unit,             \* multiplier and divider with their control bits
  csr_mstatus, csr_mepc, interrupt_taken,  \* trap state
  timer, csr_mip,   \* mtime has passed mtimecmp; MTIP, which is one edge behind
  wfi_waiting, wfi_skip_next,              \* WFI waits; the next WFI does not
  ctrl_run, cpu_halted                     \* host control

stages == <<id, ex1, ex2, mem, wb>>
vars == <<if_pc, stages, regs, mem_load_wait, dmem_q, unit, csr_mstatus,
          csr_mepc, interrupt_taken, timer, csr_mip, wfi_waiting, wfi_skip_next,
          ctrl_run, cpu_halted>>

-----------------------------------------------------------------------------
(* Decoded facts about an instruction.                                     *)

\* Results that only exist in WB: load data, the SC.W flag, a jump's pc + 4.
Late(i) == i.kind \in {"load", "sc", "jump"}

Writes(s, r) == s.valid /\ r # X0 /\ s.i.rd = r
Reads(s, r)  == s.valid /\ r # X0 /\ r \in {s.i.rs1, s.i.rs2}
Is(s, kind)  == s.valid /\ s.i.kind = kind

IdBubble == [valid |-> FALSE, i |-> Nop, pc |-> id.pc]
ExBubble == [valid |-> FALSE, i |-> Nop, pc |-> ResetPC, a |-> Zero, b |-> Zero]
NoMstatus == [mie |-> FALSE, mpie |-> FALSE]
MemBubble == [valid |-> FALSE, i |-> Nop, res |-> Zero, to |-> NoPC,
              mstatus |-> NoMstatus]
WbBubble == [valid |-> FALSE, i |-> Nop, res |-> Zero]
UnitIdle == [running |-> FALSE, busy |-> 0, done |-> FALSE,
             pending |-> Zero, result |-> Zero]

-----------------------------------------------------------------------------
(* Combinational signals.                                                  *)

Running == ctrl_run /\ ~cpu_halted

MemBranchTaken == mem.valid /\ mem.to # NoPC
EcallTrap == Is(id, "ecall")
MretInId  == Is(id, "mret")
\* Mutant: MRET does not flush.
FlushNoMret == MemBranchTaken \/ interrupt_taken \/ EcallTrap
Flush == MemBranchTaken \/ interrupt_taken \/ EcallTrap \/ MretInId

\* Mutant: the hazard of an SC.W is forgotten.
LoadUseNoSc(s) ==
  /\ id.valid /\ Is(s, "load")
  /\ s.i.rd # X0
  /\ s.i.rd \in {id.i.rs1, id.i.rs2}
\* The result of s is not available before WB and the instruction in ID needs it.
LoadUse(s) ==
  /\ id.valid /\ s.valid
  /\ s.i.kind \in {"load", "sc"}
  /\ s.i.rd # X0
  /\ s.i.rd \in {id.i.rs1, id.i.rs2}
HazardLoadUse  == LoadUse(ex1) \/ LoadUse(ex2) \/ LoadUse(mem)
HazardLoadData == Is(mem, "load") /\ mem_load_wait # 0

\* Mutant: an operation already running is started again.
UnitStartAgain(u) == Is(ex2, u) /\ unit[u].busy = 0 /\ Running
UnitStart(u) ==
  Is(ex2, u) /\ ~unit[u].running /\ unit[u].busy = 0 /\ Running
\* Mutant: the cycle of the start does not stall.
UnitStallLate(u) == unit[u].busy # 0 /\ ~unit[u].done
UnitStall(u) == (unit[u].busy # 0 \/ UnitStart(u)) /\ ~unit[u].done

\* Stalls that freeze EX1 and everything behind it, and all stalls.
Freeze == HazardLoadData \/ \E u \in Units : UnitStall(u)
Stall  == HazardLoadUse \/ Freeze \/ wfi_waiting

\* Both register file ports, with the write-first bypass.
RegRead(r) ==
  IF r = X0 THEN Zero
  ELSE IF Writes(wb, r) /\ Running THEN wb.res
  ELSE regs[r]

\* ALU input of EX2 turned into the value EX2 and later MEM put on the bypass.
Ex2Result ==
  IF Late(ex2.i) THEN Junk
  ELSE IF ex2.i.kind \in Units THEN unit[ex2.i.kind].result
  ELSE Exec(ex2.i, ex2.pc, ex2.a, ex2.b)
MemAluResult == IF Late(mem.i) THEN Junk ELSE mem.res

\* Forwarding excludes loads and SC.W in EX2 and MEM, but not jumps.
CanForward(s, r) == Writes(s, r) /\ s.i.kind \notin {"load", "sc"}
Forward(r, data) ==
  IF CanForward(ex2, r) THEN Ex2Result
  ELSE IF CanForward(mem, r) THEN MemAluResult
  ELSE IF Writes(wb, r) THEN wb.res
  ELSE data

\* The new mstatus of a CSRRSI/CSRRCI on MIE; the read in EX2 sees a write in MEM.
MstatusAccess(s) == s.valid /\ s.i.kind \in {"csrsi", "csrci"}
MstatusInEx2 ==
  [mie  |-> ex2.i.kind = "csrsi",
   mpie |-> IF MstatusAccess(mem) THEN mem.mstatus.mpie ELSE csr_mstatus.mpie]

\* mepc as MRET sees it, with writes still in EX1, EX2 or MEM forwarded.
MepcForMret ==
  IF Is(ex1, "mepcw") THEN ex1.i.imm
  ELSE IF Is(ex2, "mepcw") THEN ex2.i.imm
  ELSE IF Is(mem, "mepcw") THEN mem.i.imm
  ELSE csr_mepc

IfPcNext ==
  IF interrupt_taken \/ EcallTrap THEN Mtvec
  ELSE IF MretInId THEN MepcForMret
  ELSE IF MemBranchTaken THEN mem.to
  ELSE Succ[if_pc]

-----------------------------------------------------------------------------
(* The register banks.                                                     *)

Fetch ==
  if_pc' = IF Running /\ (~Stall \/ Flush) THEN IfPcNext ELSE if_pc

IfId ==
  \/ Flush /\ id' = IdBubble
  \/ /\ ~Flush /\ Running /\ ~Stall
     /\ \E i \in Instr : id' = [valid |-> TRUE, i |-> i, pc |-> if_pc]
  \/ ~Flush /\ (Stall \/ ~Running) /\ UNCHANGED id

\* Mutant: every stall puts a bubble in EX1.
IdEx1Bubble ==
  \/ (Flush \/ Stall) /\ ex1' = ExBubble
  \/ /\ ~Flush /\ ~Stall /\ Running
     /\ ex1' = IF id.valid
               THEN [valid |-> TRUE, i |-> id.i, pc |-> id.pc,
                     a |-> RegRead(id.i.rs1), b |-> RegRead(id.i.rs2)]
               ELSE ExBubble
  \/ ~Flush /\ ~Stall /\ ~Running /\ UNCHANGED ex1
\* A stall that does not freeze EX1 replaces it by a bubble, running or not.
IdEx1 ==
  \/ (Flush \/ (Stall /\ ~Freeze)) /\ ex1' = ExBubble
  \/ /\ ~Flush /\ ~Stall /\ Running
     /\ ex1' = IF id.valid
               THEN [valid |-> TRUE, i |-> id.i, pc |-> id.pc,
                     a |-> RegRead(id.i.rs1), b |-> RegRead(id.i.rs2)]
               ELSE ExBubble
  \/ ~Flush /\ (Freeze \/ (~Stall /\ ~Running)) /\ UNCHANGED ex1

Ex1Ex2 ==
  \/ Flush /\ ex2' = ExBubble
  \/ /\ ~Flush /\ Running /\ ~Freeze
     /\ ex2' = [valid |-> ex1.valid, i |-> ex1.i, pc |-> ex1.pc,
                a |-> Forward(ex1.i.rs1, ex1.a),
                b |-> Forward(ex1.i.rs2, ex1.b)]
  \/ ~Flush /\ (Freeze \/ ~Running) /\ UNCHANGED ex2

\* What memory will return and where a branch goes are settled here.
Results(s) ==
  IF s.i.kind \in {"load", "sc"} THEN Value
  ELSE IF s.i.kind = "jump" THEN {Exec(s.i, s.pc, s.a, s.b)}
  ELSE {Ex2Result}
Redirects(s) ==
  {p \in Targets \cup {NoPC} : IF p = NoPC THEN s.i.kind # "jump"
                               ELSE s.i.kind \in {"branch", "jump"}}

Ex2Mem ==
  \/ Flush /\ mem' = MemBubble
  \/ /\ ~Flush /\ Running /\ ~Freeze
     /\ \/ ~ex2.valid /\ mem' = MemBubble
        \/ /\ ex2.valid
           /\ \E v \in Results(ex2), p \in Redirects(ex2) :
                mem' = [valid |-> TRUE, i |-> ex2.i, res |-> v, to |-> p,
                        mstatus |-> IF MstatusAccess(ex2) THEN MstatusInEx2
                                    ELSE NoMstatus]
  \/ ~Flush /\ (Freeze \/ ~Running) /\ UNCHANGED mem

\* Mutant: WB moves on in a stopped core.
MemWbStopped ==
  wb' = IF ~HazardLoadData
        THEN [valid |-> mem.valid, i |-> mem.i,
              res |-> IF Is(mem, "load") THEN dmem_q.data ELSE mem.res]
        ELSE wb
\* Neither a flush nor a busy multiplier or divider holds WB back.
MemWb ==
  wb' = IF Running /\ ~HazardLoadData
        THEN [valid |-> mem.valid, i |-> mem.i,
              res |-> IF Is(mem, "load") THEN dmem_q.data ELSE mem.res]
        ELSE wb

RegFile ==
  regs' = [r \in GPR |-> IF Running /\ Writes(wb, r) THEN wb.res ELSE regs[r]]

\* Address register, then read data: the word of a load appears after two edges.
Dmem ==
  dmem_q' = [addr |-> IF Is(mem, "load") THEN mem.res ELSE Junk,
             data |-> dmem_q.addr]

\* Mutant: one wait cycle, as for a memory with a single register.
LoadWaitOne ==
  mem_load_wait' = IF Flush THEN 0
                   ELSE IF ~Running THEN mem_load_wait
                   ELSE IF mem_load_wait # 0 THEN mem_load_wait - 1
                   ELSE IF Is(ex2, "load") THEN 1
                   ELSE 0
\* Mutant: a load waiting in EX2 restarts the count of the one in MEM.
LoadWaitRestart ==
  mem_load_wait' = IF Flush THEN 0
                   ELSE IF ~Running THEN mem_load_wait
                   ELSE IF Is(ex2, "load") THEN 3
                   ELSE IF mem_load_wait # 0 THEN mem_load_wait - 1
                   ELSE 0
LoadWait ==
  mem_load_wait' = IF Flush THEN 0
                   ELSE IF ~Running THEN mem_load_wait
                   ELSE IF mem_load_wait # 0 THEN mem_load_wait - 1
                   ELSE IF Is(ex2, "load") THEN 3
                   ELSE 0

-----------------------------------------------------------------------------
(* Multiplier and divider, which share their control logic.                *)

\* Mutant: the divider iterates once too often.
LatencyLong(u) == IF u = "mul" THEN {1} ELSE {0, DivCycles + 1}
\* Cycles busy after a start; 0 is the divider's shortcut for its special cases.
Latency(u) == IF u = "mul" THEN {1} ELSE {0, DivCycles}

\* The running bit, which follows the operation in EX2 and not the clock enable.
RunningNext(u) ==
  ~Flush /\ ~unit[u].done
         /\ \/ unit[u].running
            \/ Is(ex2, u) /\ unit[u].busy = 0

UnitStep(u, go, run, n) ==
  LET product == Exec(ex2.i, ex2.pc, ex2.a, ex2.b)
  IN [running |-> run,
      busy    |-> IF go THEN n
                  ELSE IF unit[u].busy # 0 THEN unit[u].busy - 1 ELSE 0,
      done    |-> (go /\ n = 0) \/ unit[u].busy = 1,
      pending |-> IF go THEN product ELSE unit[u].pending,
      result  |-> IF go /\ n = 0 THEN product
                  ELSE IF unit[u].busy = 1 THEN unit[u].pending
                  ELSE unit[u].result]

\* At most one unit starts: the one the instruction in EX2 needs.
UnitsNext ==
  \E n \in IF \E u \in Units : UnitStart(u) THEN Latency(ex2.i.kind) ELSE {0} :
    unit' = [u \in Units |-> UnitStep(u, UnitStart(u), RunningNext(u), n)]

-----------------------------------------------------------------------------
(* Traps.                                                                  *)

\* mie.MTIE is taken to be set.
TimerInterrupt == timer /\ csr_mstatus.mie
TakeInterrupt == TimerInterrupt /\ ~interrupt_taken /\ ~EcallTrap

\* The later assignments of the block win: trap, then MRET, then CSR writes.
Traps ==
  IF ~Running THEN UNCHANGED <<csr_mstatus, csr_mepc, interrupt_taken>>
  ELSE
    /\ interrupt_taken' = TakeInterrupt
    /\ csr_mepc' = IF Is(mem, "mepcw") /\ ~EcallTrap THEN mem.i.imm
                   ELSE IF EcallTrap \/ TakeInterrupt THEN id.pc
                   ELSE csr_mepc
    /\ csr_mstatus' =
         IF MstatusAccess(mem) THEN mem.mstatus
         ELSE IF MretInId THEN [mie |-> csr_mstatus.mpie, mpie |-> TRUE]
         ELSE IF EcallTrap \/ TakeInterrupt
              THEN [mie |-> FALSE, mpie |-> csr_mstatus.mie]
         ELSE csr_mstatus

\* The timer runs out at some edge, and starts anew when the program stores to it.
Timer ==
  /\ timer' \in IF ~Running \/ ~CanInterrupt THEN {timer}
                ELSE IF Is(mem, "store") THEN BOOLEAN ELSE {timer, TRUE}
  /\ csr_mip' = IF Running THEN timer ELSE csr_mip

\* The stall of a WFI begins when the WFI may already have left ID.  This block does
\* not look at RUN, and while a WFI is in ID it does not look at mip either.
Wfi ==
  IF wfi_waiting /\ (TimerInterrupt \/ EcallTrap)
  THEN wfi_waiting' = FALSE /\ wfi_skip_next' = TRUE
  ELSE IF Flush
  THEN wfi_waiting' = FALSE /\ UNCHANGED wfi_skip_next
  ELSE IF Is(id, "wfi")
  THEN /\ wfi_waiting' = (wfi_waiting \/ (~wfi_skip_next /\ ~csr_mip))
       /\ wfi_skip_next' = FALSE
  ELSE wfi_waiting' = (wfi_waiting /\ ~csr_mip) /\ UNCHANGED wfi_skip_next

-----------------------------------------------------------------------------
(* Host control and the specification.                                     *)

HostRun == ctrl_run' \in IF CanPause THEN BOOLEAN ELSE {ctrl_run}

Halt == cpu_halted' = (cpu_halted \/ (Is(wb, "ebreak") /\ Running))

Init ==
  /\ if_pc = ResetPC
  /\ id = [valid |-> FALSE, i |-> Nop, pc |-> ResetPC]
  /\ ex1 = ExBubble /\ ex2 = ExBubble /\ mem = MemBubble /\ wb = WbBubble
  /\ regs \in [GPR -> Value]
  /\ mem_load_wait = 0
  /\ dmem_q = [addr |-> Junk, data |-> Junk]
  /\ unit = [u \in Units |-> UnitIdle]
  /\ csr_mstatus = NoMstatus /\ csr_mepc = ResetPC /\ interrupt_taken = FALSE
  /\ timer = FALSE /\ csr_mip = FALSE /\ wfi_waiting = FALSE /\ wfi_skip_next = FALSE
  /\ ctrl_run = TRUE /\ cpu_halted = FALSE

\* A clock edge with cpu_rst low.
Clock ==
  /\ Fetch /\ IfId /\ IdEx1 /\ Ex1Ex2 /\ Ex2Mem /\ MemWb
  /\ RegFile /\ Dmem /\ LoadWait
  /\ UnitsNext
  /\ Traps /\ Timer /\ Wfi
  /\ HostRun /\ Halt

\* The edge that ends the one cycle a host write of the RESET bit lasts.  The
\* multiplier and the divider only know rst_n: they run on.
Reset ==
  /\ CanReset
  /\ if_pc' = ResetPC
  /\ id' = IdBubble
  /\ ex1' = ExBubble /\ ex2' = ExBubble /\ mem' = MemBubble /\ wb' = WbBubble
  /\ UNCHANGED regs
  /\ mem_load_wait' = 0
  /\ Dmem
  /\ unit' = [u \in Units |-> UnitStep(u, FALSE, FALSE, 0)]
  /\ csr_mstatus' = NoMstatus /\ csr_mepc' = ResetPC /\ interrupt_taken' = FALSE
  /\ timer' = FALSE /\ csr_mip' = FALSE /\ wfi_waiting' = FALSE /\ wfi_skip_next' = FALSE
  /\ HostRun /\ cpu_halted' = FALSE

Next == Clock \/ Reset

\* The clock never stops.
Steps == Init /\ [][Next]_vars
Spec == Steps /\ WF_vars(Clock)
-----------------------------------------------------------------------------
(* Properties.                                                             *)

IdType  == [valid : BOOLEAN, i : Instruction, pc : PC]
ExType  == [valid : BOOLEAN, i : Instruction, pc : PC, a : Word, b : Word]
MstatusType == [mie : BOOLEAN, mpie : BOOLEAN]
MemType == [valid : BOOLEAN, i : Instruction, res : Word,
            to : PC \cup {NoPC}, mstatus : MstatusType]
WbType  == [valid : BOOLEAN, i : Instruction, res : Word]
UnitType == [running : BOOLEAN, busy : 0..DivCycles, done : BOOLEAN,
             pending : Value, result : Value]

\* Every register of the core holds a value of its width: in particular a
\* load counter never underflows past 3 and a unit never counts past its last
\* iteration (rtl/riscv_soc.sv:345, rtl/divider.sv:36).
TypeOK ==
  /\ if_pc \in PC
  /\ id \in IdType /\ ex1 \in ExType /\ ex2 \in ExType
  /\ mem \in MemType /\ wb \in WbType
  /\ regs \in [GPR -> Word]
  /\ mem_load_wait \in 0..3
  /\ dmem_q \in [addr : Word, data : Word]
  /\ unit \in [Units -> UnitType]
  /\ csr_mstatus \in MstatusType /\ csr_mepc \in PC
  /\ {interrupt_taken, timer, csr_mip, wfi_waiting, wfi_skip_next} \subseteq BOOLEAN
  /\ ctrl_run \in BOOLEAN /\ cpu_halted \in BOOLEAN

\* The register file with the writes of the instructions past EX2 applied.
ArchReg(r) ==
  IF r = X0 THEN Zero
  ELSE IF Writes(mem, r) THEN mem.res
  ELSE IF Writes(wb, r) THEN wb.res
  ELSE regs[r]

\* An instruction in EX2 holds the operands program order gives it, whatever
\* mixture of bypasses, stalls and register file reads delivered them, unless
\* the branch or jump in MEM is about to flush it.
OperandsCurrent ==
  ex2.valid /\ ~MemBranchTaken => /\ ex2.a = ArchReg(ex2.i.rs1)
                                  /\ ex2.b = ArchReg(ex2.i.rs2)

\* The one hole in the bypass network: a multiplication or division holds an
\* instruction in EX1 while WB moves on with the only copy of its operand
\* (rtl/riscv_soc.sv:1202).
OperandAtRisk ==
  /\ Running /\ ~Flush /\ ~HazardLoadData /\ \E u \in Units : UnitStall(u)
  /\ \E r \in GPR : Reads(ex1, r) /\ Writes(wb, r) /\ ~Writes(ex2, r) /\ ~Writes(mem, r)

\* The host stops the core, which does not stop all of it: the flush does not look at
\* RUN (rtl/riscv_soc.sv:606), nor does the bubble of a stall that lets EX1 go on
\* (:623), nor does the running bit of a unit that is not at work (:824).
StopAtRisk ==
  /\ ~ctrl_run
  /\ \/ Flush
     \/ ex1.valid /\ Stall /\ ~Freeze
     \/ \E u \in Units : Is(ex2, u) /\ ~unit[u].running /\ unit[u].busy = 0

\* The behaviours that never come to the one, to the other, or to either.
OperandSpec == Init /\ [][Next /\ ~OperandAtRisk']_vars
StopSpec == Init /\ [][Next /\ ~StopAtRisk']_vars
SafeSpec == Init /\ [][Next /\ ~OperandAtRisk' /\ ~StopAtRisk']_vars

\* A program without multiplications and divisions never comes to the first: nothing
\* of theirs is ever in flight.
NoUnits == \A i \in Instr : i.kind \notin Units
UnitsUnused ==
  /\ id.i.kind \notin Units /\ ex1.i.kind \notin Units /\ ex2.i.kind \notin Units
  /\ \A u \in Units : unit[u].busy = 0

\* What makes OperandsCurrent inductive in OperandSpec: first, the load-use stalls keep
\* the producer of a late result out of EX2 and MEM while an instruction that needs
\* it is in EX1.
LateDistance ==
  \A r \in Reg : Reads(ex1, r) =>
    /\ Writes(ex2, r) => ex2.i.kind \notin {"load", "sc"}
    /\ Writes(mem, r) => mem.i.kind \notin {"load", "sc"}

\* What EX1 read for register r is right unless a bypass will replace it.
ReadCurrent(r, data) ==
  IF r = X0 THEN data = Zero
  ELSE ~Writes(ex2, r) /\ ~Writes(mem, r) /\ ~Writes(wb, r) => data = regs[r]
Ex1Current ==
  ex1.valid => ReadCurrent(ex1.i.rs1, ex1.a) /\ ReadCurrent(ex1.i.rs2, ex1.b)

\* A jump in MEM is about to flush whoever was bypassed its target address.
JumpRedirects == Is(mem, "jump") => mem.to # NoPC

OperandInv ==
  LateDistance /\ Ex1Current /\ JumpRedirects /\ OperandsCurrent

\* The address of the oldest instruction that has not reached MEM yet.
ArchPC ==
  IF MemBranchTaken THEN mem.to
  ELSE IF ex2.valid THEN ex2.pc
  ELSE IF ex1.valid THEN ex1.pc
  ELSE IF id.valid THEN id.pc
  ELSE if_pc

Arch == INSTANCE ISA WITH apc <- ArchPC, aregs <- [r \in GPR |-> ArchReg(r)]

\* The core implements the instruction set: executing an instruction means
\* entering MEM, and what it and the registers do then is a step of ISA.
ImplementsISA == Arch!Spec

\* Instructions enter MEM exactly once each and in program order, with nothing
\* fetched down a wrong path among them, whatever values they compute.
ImplementsFlow == Arch!FlowSpec

\* A multiply or divide leaves EX2 with the result of its own operands, not
\* with one the unit still holds from an earlier start.
UnitResultFresh ==
  (ex2.valid /\ ex2.i.kind \in Units /\ Running /\ ~Freeze /\ ~Flush) =>
    unit[ex2.i.kind].result = Exec(ex2.i, ex2.pc, ex2.a, ex2.b)

\* A unit only starts when its state machine is idle, where it can accept.
UnitStartsIdle ==
  \A u \in Units : UnitStart(u) => unit[u].busy = 0 /\ ~unit[u].done

\* A bound on the cycles a stalled core needs before the front moves again.  Each
\* occupied place in front of WB may wait for a load once, and for a unit that starts
\* again if its answer comes while the load still waits.
UnitsLeft ==
  IF \E u \in Units : UnitStart(u) THEN DivCycles + 1
  ELSE IF unit["mul"].busy > unit["div"].busy THEN unit["mul"].busy
  ELSE unit["div"].busy
MovesLeft ==
  IF ex1.valid THEN 3 * (DivCycles + 5)
  ELSE IF ex2.valid THEN 2 * (DivCycles + 5)
  ELSE IF mem.valid THEN DivCycles + 5
  ELSE 0
StallLeft ==
  MovesLeft
    + (IF HazardLoadData THEN DivCycles + 1 + mem_load_wait ELSE UnitsLeft)

\* No stall outlasts its causes: whatever load-use hazards, load waits, multiplications,
\* divisions, flushes and resets meet, a running core that waits for anything but an
\* interrupt is nearer to the end of its wait after every cycle.
StallsShrink ==
  [][Running /\ (HazardLoadUse \/ Freeze) => StallLeft' < StallLeft]_vars

\* No stall lasts forever: unless the host keeps resetting the core, instructions
\* keep entering MEM.
Progress == []<><<Reset>>_vars \/ ([]<>mem.valid /\ []<>~Freeze)

\* "WFI stalls until (mip & mie) != 0, regardless of mstatus.MIE"
\* (rtl/riscv_soc.sv:535): an interrupt that stays pending ends the wait.
WfiWakes == <>[]csr_mip => []<>~wfi_waiting

\* What a cycle of a running core may do to the next instruction to execute.
TrapStep ==
  Running =>
    \/ ArchPC' = ArchPC
    \/ \E i \in Instr : ex2.valid /\ ex2.i = i /\ ArchPC' \in Arch!Nexts(i)
    \/ (interrupt_taken \/ EcallTrap) /\ ArchPC' = Mtvec
    \/ MretInId /\ ~interrupt_taken /\ ArchPC' = MepcForMret
    \/ CanReset /\ ArchPC' = ResetPC

\* With traps the next instruction to execute of a running core still only changes
\* because the oldest one executed, or because a trap, MRET or the host redirected
\* the fetch.
TrapFlow == [][TrapStep]_vars

\* Traps are precise: when an interrupt, ECALL or MRET flushes the pipeline, the
\* place where it cuts the program (the mepc saved for the interrupt, the address
\* of the ECALL or MRET itself) is that of the next instruction to execute, and
\* no load is dropped while it waits in MEM.
TrapsPrecise ==
  /\ interrupt_taken => csr_mepc = ArchPC
  /\ EcallTrap \/ MretInId => id.pc = ArchPC
  /\ interrupt_taken \/ EcallTrap \/ MretInId => ~HazardLoadData

\* A core the host has stopped executes nothing and keeps its place in the program and
\* its registers, with whatever it had in flight when the stop came
\* (rtl/riscv_soc.sv:398, :413, :988, :1202).
StopKeepsPlace == [][~ctrl_run => UNCHANGED Arch!avars \/ Reset]_vars
=============================================================================
