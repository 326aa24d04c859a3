-------------------------- MODULE Pipeline_proofs --------------------------
(***************************************************************************)
(* Theorems about Pipeline for every program alphabet, register file,      *)
(* address space and divider latency.  One lemma per register bank, then   *)
(* the invariants they add up to.                                          *)
(***************************************************************************)
EXTENDS Pipeline, TLAPS

(***************************************************************************)
(* Type correctness.                                                       *)
(***************************************************************************)

\* The instruction of a bubble is an instruction, and bubbles have their types.
LEMMA BubbleTypes ==
  /\ Nop \in Instruction
  /\ ExBubble \in ExType /\ MemBubble \in MemType /\ WbBubble \in WbType
  /\ (id.pc \in PC => IdBubble \in IdType)
<1>1. Nop \in Instruction
  BY PCAssumption, DataAssumption DEF Nop, Instruction, Kinds
<1>. QED
  BY <1>1, PCAssumption, DataAssumption
  DEF ExBubble, ExType, MemBubble, MemType, NoMstatus, MstatusType, WbBubble,
      WbType, IdBubble, IdType, Word

\* What a register read port and the bypass deliver is a word.
LEMMA OperandTypes ==
  ASSUME TypeOK, NEW r \in Reg, NEW data \in Word
  PROVE  /\ RegRead(r) \in Word
         /\ Ex2Result \in Word
         /\ Forward(r, data) \in Word
<1>1. RegRead(r) \in Word
  BY DataAssumption DEF RegRead, TypeOK, GPR, WbType, Word
<1>2. Ex2Result \in Word
  <2>1. Exec(ex2.i, ex2.pc, ex2.a, ex2.b) \in Value
    BY ExecAssumption DEF TypeOK, ExType, Word
  <2>2. ex2.i.kind \in Units => unit[ex2.i.kind].result \in Value
    BY DEF TypeOK, UnitType
  <2>. QED
    BY <2>1, <2>2 DEF Ex2Result, Word
<1>3. MemAluResult \in Word
  BY DEF MemAluResult, TypeOK, MemType, Word
<1>4. wb.res \in Word
  BY DEF TypeOK, WbType
<1>. QED
  BY <1>1, <1>2, <1>3, <1>4 DEF Forward

\* The fetch address stays an address.
LEMMA FetchType == TypeOK /\ Fetch => if_pc' \in PC
<1>. SUFFICES ASSUME TypeOK, Fetch PROVE if_pc' \in PC
  OBVIOUS
<1>1. MepcForMret \in PC
  BY DEF MepcForMret, TypeOK, ExType, MemType, Instruction
<1>2. MemBranchTaken => mem.to \in PC
  BY DEF MemBranchTaken, TypeOK, MemType
<1>3. Succ[if_pc] \in PC
  BY PCAssumption DEF TypeOK
<1>. QED
  BY <1>1, <1>2, <1>3, PCAssumption DEF Fetch, IfPcNext, TypeOK

LEMMA IfIdType == TypeOK /\ IfId => id' \in IdType
<1>. SUFFICES ASSUME TypeOK, IfId PROVE id' \in IdType
  OBVIOUS
<1>1. id \in IdType /\ id.pc \in PC /\ if_pc \in PC
  BY DEF TypeOK, IdType
<1>2. \A i \in Instr : [valid |-> TRUE, i |-> i, pc |-> if_pc] \in IdType
  BY <1>1, InstrAssumption DEF IdType
<1>. QED
  BY <1>1, <1>2, BubbleTypes DEF IfId

LEMMA IdEx1Type == TypeOK /\ IdEx1 => ex1' \in ExType
<1>. SUFFICES ASSUME TypeOK, IdEx1 PROVE ex1' \in ExType
  OBVIOUS
<1>1. id.i \in Instruction /\ id.pc \in PC /\ id.i.rs1 \in Reg /\ id.i.rs2 \in Reg
  BY DEF TypeOK, IdType, Instruction
<1>2. RegRead(id.i.rs1) \in Word /\ RegRead(id.i.rs2) \in Word
  BY <1>1, OperandTypes, DataAssumption DEF Word
<1>3. [valid |-> TRUE, i |-> id.i, pc |-> id.pc,
       a |-> RegRead(id.i.rs1), b |-> RegRead(id.i.rs2)] \in ExType
  BY <1>1, <1>2 DEF ExType
<1>4. ex1 \in ExType
  BY DEF TypeOK
<1>. QED
  BY <1>3, <1>4, BubbleTypes DEF IdEx1

LEMMA Ex1Ex2Type == TypeOK /\ Ex1Ex2 => ex2' \in ExType
<1>. SUFFICES ASSUME TypeOK, Ex1Ex2 PROVE ex2' \in ExType
  OBVIOUS
<1>1. /\ ex1 \in ExType
      /\ ex1.i.rs1 \in Reg /\ ex1.i.rs2 \in Reg
      /\ ex1.a \in Word /\ ex1.b \in Word
  BY DEF TypeOK, ExType, Instruction
<1>2. /\ Forward(ex1.i.rs1, ex1.a) \in Word
      /\ Forward(ex1.i.rs2, ex1.b) \in Word
  BY <1>1, OperandTypes
<1>. QED
  BY <1>1, <1>2, BubbleTypes DEF Ex1Ex2, ExType, TypeOK

LEMMA Ex2MemType == TypeOK /\ Ex2Mem => mem' \in MemType
<1>. SUFFICES ASSUME TypeOK, Ex2Mem PROVE mem' \in MemType
  OBVIOUS
<1>1. CASE UNCHANGED mem
  BY <1>1 DEF TypeOK
<1>2. CASE mem' = MemBubble
  BY <1>2, BubbleTypes
<1>3. ASSUME NEW v \in Results(ex2), NEW p \in Redirects(ex2),
             mem' = [valid |-> TRUE, i |-> ex2.i, res |-> v, to |-> p,
                     mstatus |-> IF MstatusAccess(ex2) THEN MstatusInEx2
                                 ELSE NoMstatus]
      PROVE  mem' \in MemType
  <2>1. ex2.i \in Instruction
    BY DEF TypeOK, ExType
  <2>2. Exec(ex2.i, ex2.pc, ex2.a, ex2.b) \in Value
    BY ExecAssumption DEF TypeOK, ExType, Word
  <2>3. v \in Word
    BY <2>2, OperandTypes, DataAssumption DEF Results, Word
  <2>4. p \in PC \cup {NoPC}
    BY PCAssumption DEF Redirects
  <2>5. MstatusInEx2 \in MstatusType /\ NoMstatus \in MstatusType
    BY DEF MstatusInEx2, NoMstatus, MstatusType, TypeOK, MemType
  <2>. QED
    BY <1>3, <2>1, <2>3, <2>4, <2>5 DEF MemType
<1>. QED
  BY <1>1, <1>2, <1>3 DEF Ex2Mem

LEMMA MemWbType == TypeOK /\ MemWb => wb' \in WbType
  BY DEF TypeOK, MemWb, MemType, WbType

LEMMA RegFileType == TypeOK /\ RegFile => regs' \in [GPR -> Word]
  BY DEF TypeOK, RegFile, WbType

LEMMA DmemType == TypeOK /\ Dmem => dmem_q' \in [addr : Word, data : Word]
  BY DEF TypeOK, Dmem, MemType, Word

LEMMA LoadWaitType == TypeOK /\ LoadWait => mem_load_wait' \in 0..3
  BY DEF TypeOK, LoadWait

LEMMA UnitStepType ==
  ASSUME TypeOK, NEW u \in Units, NEW go \in BOOLEAN, NEW run \in BOOLEAN,
         NEW n \in 0..DivCycles
  PROVE  UnitStep(u, go, run, n) \in UnitType
<1>1. Exec(ex2.i, ex2.pc, ex2.a, ex2.b) \in Value
  BY ExecAssumption DEF TypeOK, ExType, Word
<1>2. unit[u] \in UnitType
  BY DEF TypeOK
<1>3. (IF go THEN n ELSE IF unit[u].busy # 0 THEN unit[u].busy - 1 ELSE 0)
        \in 0..DivCycles
  BY <1>2, SwitchAssumption DEF UnitType
<1>. QED
  BY <1>1, <1>2, <1>3 DEF UnitStep, UnitType

LEMMA UnitsType == TypeOK /\ UnitsNext => unit' \in [Units -> UnitType]
<1>. SUFFICES ASSUME TypeOK, UnitsNext PROVE unit' \in [Units -> UnitType]
  OBVIOUS
<1>1. \A u \in Units : UnitStart(u) \in BOOLEAN /\ RunningNext(u) \in BOOLEAN
  BY DEF UnitStart, RunningNext, Is, Running, Flush, TypeOK, UnitType
<1>2. PICK n \in 0..DivCycles :
        unit' = [u \in Units |-> UnitStep(u, UnitStart(u), RunningNext(u), n)]
  BY SwitchAssumption DEF UnitsNext, Latency
<1>. QED
  BY <1>1, <1>2, UnitStepType

LEMMA TrapsType ==
  ASSUME TypeOK, Traps
  PROVE  /\ csr_mstatus' \in MstatusType /\ csr_mepc' \in PC
         /\ interrupt_taken' \in BOOLEAN
<1>1. id.pc \in PC /\ mem.i.imm \in PC /\ mem.mstatus \in MstatusType
  BY DEF TypeOK, IdType, MemType, Instruction
<1>2. TakeInterrupt \in BOOLEAN
  BY DEF TakeInterrupt, TimerInterrupt, TypeOK, MstatusType
<1>3. csr_mstatus.mie \in BOOLEAN /\ csr_mstatus.mpie \in BOOLEAN
  BY DEF TypeOK, MstatusType
<1>4. csr_mstatus \in MstatusType /\ csr_mepc \in PC /\ interrupt_taken \in BOOLEAN
  BY DEF TypeOK
<1>5. /\ [mie |-> csr_mstatus.mpie, mpie |-> TRUE] \in MstatusType
      /\ [mie |-> FALSE, mpie |-> csr_mstatus.mie] \in MstatusType
  BY <1>3 DEF MstatusType
<1>6. csr_mstatus' \in MstatusType
  BY <1>1, <1>4, <1>5 DEF Traps
<1>7. csr_mepc' \in PC
  BY <1>1, <1>4 DEF Traps
<1>8. interrupt_taken' \in BOOLEAN
  BY <1>2, <1>4 DEF Traps
<1>. QED
  BY <1>6, <1>7, <1>8

LEMMA WfiType ==
  ASSUME TypeOK, Timer, Wfi
  PROVE  {timer', csr_mip', wfi_waiting', wfi_skip_next'} \subseteq BOOLEAN
<1>1. timer \in BOOLEAN /\ csr_mip \in BOOLEAN
  BY DEF TypeOK
<1>2. wfi_waiting \in BOOLEAN /\ wfi_skip_next \in BOOLEAN
  BY DEF TypeOK
<1>3. timer' \in BOOLEAN
  BY <1>1 DEF Timer
<1>4. csr_mip' \in BOOLEAN
  BY <1>1 DEF Timer
<1>5. wfi_waiting' \in BOOLEAN
  BY <1>1, <1>2 DEF Wfi
<1>6. wfi_skip_next' \in BOOLEAN
  BY <1>1, <1>2 DEF Wfi
<1>. QED
  BY <1>3, <1>4, <1>5, <1>6

\* Type correctness: every register keeps a value of its width, with the load
\* counter within two bits and the units within their iterations.
LEMMA TypeHolds == Steps => []TypeOK
<1>1. Init => TypeOK
  <2>. SUFFICES ASSUME Init PROVE TypeOK
    OBVIOUS
  <2>1. id \in IdType /\ id.pc \in PC
    BY BubbleTypes, PCAssumption DEF Init, IdType
  <2>2. UnitIdle \in UnitType /\ NoMstatus \in MstatusType
    BY DataAssumption, SwitchAssumption DEF UnitIdle, UnitType, NoMstatus, MstatusType
  <2>3. regs \in [GPR -> Word] /\ dmem_q \in [addr : Word, data : Word]
    BY DEF Init, Word
  <2>4. interrupt_taken \in BOOLEAN /\ ctrl_run \in BOOLEAN /\ cpu_halted \in BOOLEAN
    BY Zenon DEF Init
  <2>5. {interrupt_taken, timer, csr_mip, wfi_waiting, wfi_skip_next} \subseteq BOOLEAN
    BY Zenon DEF Init
  <2>. QED
    BY <2>1, <2>2, <2>3, <2>4, <2>5, BubbleTypes, PCAssumption DEF Init, TypeOK
<1>2. TypeOK /\ [Next]_vars => TypeOK'
  <2>. SUFFICES ASSUME TypeOK, [Next]_vars PROVE TypeOK'
    OBVIOUS
  <2>1. CASE Clock
    <3>1. {interrupt_taken', timer', csr_mip', wfi_waiting', wfi_skip_next'}
            \subseteq BOOLEAN
      BY <2>1, TrapsType, WfiType DEF Clock
    <3>2. ctrl_run' \in BOOLEAN /\ cpu_halted' \in BOOLEAN
      BY <2>1 DEF Clock, HostRun, Halt, Is, Running, TypeOK
    <3>. QED
      BY <2>1, <3>1, <3>2, FetchType, IfIdType, IdEx1Type, Ex1Ex2Type, Ex2MemType,
         MemWbType, RegFileType, DmemType, LoadWaitType, UnitsType, TrapsType
      DEF Clock, TypeOK
  <2>2. CASE Reset
    <3>1. ctrl_run' \in BOOLEAN /\ cpu_halted' = FALSE
      BY <2>2 DEF Reset, HostRun, TypeOK
    <3>2. unit' \in [Units -> UnitType]
      <4>1. \A u \in Units : UnitStep(u, FALSE, FALSE, 0) \in UnitType
        <5>1. 0 \in 0..DivCycles /\ FALSE \in BOOLEAN
          BY SwitchAssumption
        <5>. QED
          BY <5>1, UnitStepType, Zenon
      <4>. QED
        BY <2>2, <4>1 DEF Reset
    <3>3. dmem_q' \in [addr : Word, data : Word]
      BY <2>2, DmemType DEF Reset
    <3>4. id' \in IdType /\ regs' \in [GPR -> Word]
      <4>1. id.pc \in PC /\ regs \in [GPR -> Word]
        BY DEF TypeOK, IdType
      <4>. QED
        BY <2>2, <4>1, BubbleTypes DEF Reset
    <3>5. csr_mstatus' \in MstatusType
      BY <2>2 DEF Reset, NoMstatus, MstatusType
    <3>6. ex1' \in ExType /\ ex2' \in ExType /\ mem' \in MemType /\ wb' \in WbType
      BY <2>2, BubbleTypes DEF Reset
    <3>7. if_pc' \in PC /\ csr_mepc' \in PC /\ mem_load_wait' \in 0..3
      BY <2>2, PCAssumption DEF Reset
    <3>8. {interrupt_taken', timer', csr_mip', wfi_waiting', wfi_skip_next'}
            \subseteq BOOLEAN
      BY <2>2, Zenon DEF Reset
    <3>. QED
      BY <3>1, <3>2, <3>3, <3>4, <3>5, <3>6, <3>7, <3>8 DEF TypeOK
  <2>3. CASE UNCHANGED vars
    BY <2>3 DEF vars, stages, TypeOK
  <2>. QED
    BY <2>1, <2>2, <2>3 DEF Next
<1>. QED
  BY <1>1, <1>2, PTL DEF Steps

THEOREM TypeCorrect == Spec => []TypeOK
BY TypeHolds, PTL DEF Spec

(***************************************************************************)
(* Operands.  The invariant of the bypass network, one lemma per conjunct. *)
(***************************************************************************)

\* How the stages move in one clock: everything is flushed, held, held while WB takes
\* a copy of MEM, or advances.
LEMMA StagesMove ==
  ASSUME Clock
  PROVE  \/ Flush /\ ~ex1'.valid /\ ~ex2'.valid /\ ~mem'.valid
         \/ /\ ~Flush /\ (HazardLoadData \/ ~Running)
            /\ ex1' = ex1 \/ ~ex1'.valid
            /\ ex2' = ex2 /\ mem' = mem /\ wb' = wb
         \/ /\ ~Flush /\ Running /\ ~HazardLoadData /\ \E u \in Units : UnitStall(u)
            /\ ex1' = ex1 /\ ex2' = ex2 /\ mem' = mem
            /\ wb'.valid = mem.valid /\ wb'.i = mem.i
         \/ ~Flush /\ Running /\ ~Freeze
<1>2. ~ExBubble.valid /\ ~MemBubble.valid
  BY DEF ExBubble, MemBubble
<1>3. IdEx1 /\ Ex1Ex2 /\ Ex2Mem /\ MemWb
  BY DEF Clock
<1>4. CASE Flush
  <2>1. ex1' = ExBubble
    BY <1>3, <1>4 DEF IdEx1
  <2>2. ex2' = ExBubble
    BY <1>3, <1>4 DEF Ex1Ex2
  <2>3. mem' = MemBubble
    BY <1>3, <1>4 DEF Ex2Mem
  <2>. QED
    BY <1>2, <1>4, <2>1, <2>2, <2>3
<1>5. CASE ~Flush /\ (Freeze \/ ~Running)
  <2>1. ex1' = ex1 \/ ex1' = ExBubble
    BY <1>3, <1>5 DEF IdEx1, Stall
  <2>2. ex2' = ex2
    BY <1>3, <1>5 DEF Ex1Ex2
  <2>3. mem' = mem
    BY <1>3, <1>5 DEF Ex2Mem
  <2>4. CASE HazardLoadData \/ ~Running
    <3>1. wb' = wb
      BY <1>3, <2>4 DEF MemWb
    <3>. QED
      BY <1>2, <1>5, <2>1, <2>2, <2>3, <2>4, <3>1
  <2>5. CASE Running /\ ~HazardLoadData
    <3>1. \E u \in Units : UnitStall(u)
      BY <1>5, <2>5 DEF Freeze
    <3>2. ex1' = ex1
      BY <1>3, <1>5, <2>5 DEF IdEx1, Stall
    <3>3. wb'.valid = mem.valid /\ wb'.i = mem.i
      BY <1>3, <2>5 DEF MemWb
    <3>. QED
      BY <1>5, <2>2, <2>3, <2>5, <3>1, <3>2, <3>3
  <2>. QED
    BY <2>4, <2>5
<1>. QED
  BY <1>4, <1>5

\* The instruction that enters MEM is the one leaving EX2, with its result.
LEMMA IntoMem ==
  ASSUME Clock, ~Flush, Running, ~Freeze
  PROVE  \/ ~ex2.valid /\ ~mem'.valid
         \/ /\ ex2.valid /\ mem'.valid /\ mem'.i = ex2.i
            /\ mem'.res \in Results(ex2) /\ mem'.to \in Redirects(ex2)
BY DEF Clock, Ex2Mem, MemBubble

\* Likewise for EX2 and WB.
LEMMA IntoEx2AndWb ==
  ASSUME Clock, ~Flush, Running, ~Freeze
  PROVE  /\ ex2' = [valid |-> ex1.valid, i |-> ex1.i, pc |-> ex1.pc,
                    a |-> Forward(ex1.i.rs1, ex1.a),
                    b |-> Forward(ex1.i.rs2, ex1.b)]
         /\ wb' = [valid |-> mem.valid, i |-> mem.i,
                   res |-> IF Is(mem, "load") THEN dmem_q.data ELSE mem.res]
<1>1. ~HazardLoadData
  BY DEF Freeze
<1>. QED
  BY <1>1 DEF Clock, Ex1Ex2, MemWb

LEMMA JumpRedirectsStep ==
  ASSUME OperandInv, Clock
  PROVE  JumpRedirects'
<1>1. CASE ~mem'.valid \/ mem' = mem
  BY <1>1 DEF JumpRedirects, OperandInv, Is
<1>2. CASE ~Flush /\ Running /\ ~Freeze
  BY <1>2, IntoMem DEF Redirects, JumpRedirects, Is
<1>. QED
  BY <1>1, <1>2, StagesMove

LEMMA LateDistanceStep ==
  ASSUME OperandInv, Clock
  PROVE  LateDistance'
<1>1. CASE ~ex1'.valid
  BY <1>1 DEF LateDistance, Reads
<1>2. CASE ex1' = ex1 /\ ex2' = ex2 /\ mem' = mem
  BY <1>2 DEF LateDistance, OperandInv, Reads, Writes
<1>3. CASE ~Flush /\ Running /\ ~Freeze
  <2>. SUFFICES ASSUME NEW r \in Reg, Reads(ex1', r)
       PROVE  /\ Writes(ex2', r) => ex2'.i.kind \notin {"load", "sc"}
              /\ Writes(mem', r) => mem'.i.kind \notin {"load", "sc"}
    BY DEF LateDistance, Reads, Writes
  <2>1. ex1'.valid /\ r # X0 /\ r \in {ex1'.i.rs1, ex1'.i.rs2}
    BY DEF Reads
  <2>2. ~Stall /\ id.valid /\ ex1'.i = id.i
    <3>1. ~ExBubble.valid
      BY DEF ExBubble
    <3>. QED
      BY <1>3, <2>1, <3>1 DEF Clock, IdEx1
  <2>3. ~LoadUse(ex1) /\ ~LoadUse(ex2)
    BY <2>2 DEF Stall, HazardLoadUse
  <2>4. Writes(ex2', r) => ex2'.i.kind \notin {"load", "sc"}
    BY <1>3, <2>1, <2>2, <2>3, IntoEx2AndWb DEF Writes, LoadUse
  <2>5. Writes(mem', r) => mem'.i.kind \notin {"load", "sc"}
    BY <1>3, <2>1, <2>2, <2>3, IntoMem DEF Writes, LoadUse
  <2>. QED
    BY <2>4, <2>5
<1>. QED
  BY <1>1, <1>2, <1>3, StagesMove

\* The register file takes the write of WB when the core runs.
LEMMA RegsNext ==
  ASSUME Clock, NEW r \in GPR
  PROVE  regs'[r] = IF Running /\ Writes(wb, r) THEN wb.res ELSE regs[r]
  BY DEF Clock, RegFile

LEMMA Ex1CurrentStep ==
  ASSUME TypeOK, OperandInv, ~OperandAtRisk, Clock
  PROVE  Ex1Current'
<1>1. CASE ~ex1'.valid
  BY <1>1 DEF Ex1Current
<1>2. CASE /\ ex1' = ex1 /\ ex2' = ex2 /\ mem' = mem /\ wb' = wb
           /\ ex1'.valid
  <2>1. ASSUME NEW r \in Reg, NEW d, ReadCurrent(r, d) PROVE ReadCurrent(r, d)'
    <3>1. CASE r = X0
      BY <2>1, <3>1 DEF ReadCurrent
    <3>2. CASE r # X0
      <4>1. ~Writes(wb, r) => regs'[r] = regs[r]
        BY <3>2, RegsNext DEF GPR
      <4>. QED
        BY <1>2, <2>1, <3>2, <4>1 DEF ReadCurrent, Writes
    <3>. QED
      BY <3>1, <3>2
  <2>2. ReadCurrent(ex1.i.rs1, ex1.a) /\ ReadCurrent(ex1.i.rs2, ex1.b)
    BY <1>2 DEF OperandInv, Ex1Current
  <2>3. ex1.i.rs1 \in Reg /\ ex1.i.rs2 \in Reg
    BY DEF TypeOK, ExType, Instruction
  <2>4. ReadCurrent(ex1.i.rs1, ex1.a)' /\ ReadCurrent(ex1.i.rs2, ex1.b)'
    BY <1>2, <2>1, <2>2, <2>3 DEF ReadCurrent, Writes
  <2>. QED
    BY <2>4 DEF Ex1Current
<1>4. CASE /\ ~Flush /\ Running /\ ~HazardLoadData /\ \E u \in Units : UnitStall(u)
           /\ ex1' = ex1 /\ ex2' = ex2 /\ mem' = mem /\ ex1.valid
  <2>1. ASSUME NEW r \in {ex1.i.rs1, ex1.i.rs2}, NEW d, ReadCurrent(r, d), r \in Reg
        PROVE  IF r = X0 THEN d = Zero
               ELSE ~Writes(ex2, r) /\ ~Writes(mem, r) => d = regs'[r]
    <3>1. CASE r = X0
      BY <2>1, <3>1 DEF ReadCurrent
    <3>2. CASE r # X0 /\ ~Writes(ex2, r) /\ ~Writes(mem, r)
      <4>1. r \in GPR /\ Reads(ex1, r)
        BY <1>4, <2>1, <3>2 DEF GPR, Reads
      <4>2. ~Writes(wb, r)
        BY <1>4, <3>2, <4>1 DEF OperandAtRisk
      <4>. QED
        BY <2>1, <3>2, <4>1, <4>2, RegsNext DEF ReadCurrent
    <3>. QED
      BY <3>1, <3>2
  <2>2. ReadCurrent(ex1.i.rs1, ex1.a) /\ ReadCurrent(ex1.i.rs2, ex1.b)
    BY <1>4 DEF OperandInv, Ex1Current
  <2>3. ex1.i.rs1 \in Reg /\ ex1.i.rs2 \in Reg
    BY DEF TypeOK, ExType, Instruction
  <2>4. ReadCurrent(ex1.i.rs1, ex1.a)' /\ ReadCurrent(ex1.i.rs2, ex1.b)'
    BY <1>4, <2>1, <2>2, <2>3 DEF ReadCurrent, Writes
  <2>. QED
    BY <1>4, <2>4 DEF Ex1Current
<1>3. CASE ~Flush /\ Running /\ ~Freeze /\ ex1'.valid
  <2>1. ~ExBubble.valid
    BY DEF ExBubble
  <2>2. ex1' = [valid |-> TRUE, i |-> id.i, pc |-> id.pc,
                a |-> RegRead(id.i.rs1), b |-> RegRead(id.i.rs2)]
    BY <1>3, <2>1 DEF Clock, IdEx1
  <2>3. \A r \in Reg : RegRead(r) = IF r = X0 THEN Zero ELSE regs'[r]
    BY <1>3, RegsNext DEF RegRead, GPR
  <2>4. id.i.rs1 \in Reg /\ id.i.rs2 \in Reg
    BY DEF TypeOK, IdType, Instruction
  <2>. QED
    BY <2>2, <2>3, <2>4 DEF Ex1Current, ReadCurrent
<1>. QED
  BY <1>1, <1>2, <1>3, <1>4, StagesMove

\* What EX1 hands to EX2 for a register is its value once the instructions now
\* in EX2, MEM and WB have written theirs, unless a jump is about to flush it.
LEMMA ForwardIsArchReg ==
  ASSUME TypeOK, OperandInv, Clock, ~Flush, Running, ~Freeze,
         ~MemBranchTaken', ex1.valid,
         NEW r \in {ex1.i.rs1, ex1.i.rs2}, NEW d, ReadCurrent(r, d)
  PROVE  Forward(r, d) = ArchReg(r)'
<1>1. r \in Reg
  BY DEF TypeOK, ExType, Instruction
<1>2. CASE r = X0
  BY <1>2 DEF Forward, CanForward, Writes, ReadCurrent, ArchReg
<1>3. CASE r # X0
  <2>1. /\ Writes(ex2, r) => ex2.i.kind \notin {"load", "sc"}
        /\ Writes(mem, r) => mem.i.kind \notin {"load", "sc"}
    BY <1>1, <1>3 DEF OperandInv, LateDistance, Reads
  <2>2. Writes(mem', r) <=> Writes(ex2, r)
    BY IntoMem DEF Writes
  <2>3. Writes(wb', r) <=> Writes(mem, r)
    BY IntoEx2AndWb DEF Writes
  <2>4. ArchReg(r)' = IF Writes(mem', r) THEN mem'.res
                      ELSE IF Writes(wb', r) THEN wb'.res
                      ELSE regs'[r]
    BY <1>3 DEF ArchReg, Writes
  <2>5. CASE Writes(ex2, r)
    <3>1. ex2.i.kind # "jump"
      BY <2>5, IntoMem DEF Writes, Redirects, MemBranchTaken
    <3>2. mem'.res = Ex2Result
      BY <2>1, <2>5, <3>1, IntoMem DEF Writes, Results
    <3>. QED
      BY <2>1, <2>2, <2>4, <2>5, <3>2 DEF Forward, CanForward
  <2>6. CASE ~Writes(ex2, r) /\ Writes(mem, r)
    <3>1. mem.i.kind # "jump"
      BY <2>6 DEF OperandInv, JumpRedirects, Is, Writes, Flush, MemBranchTaken
    <3>2. ~Late(mem.i) /\ ~Is(mem, "load")
      BY <2>1, <2>6, <3>1 DEF Late, Is
    <3>3. wb'.res = mem.res
      BY <3>2, IntoEx2AndWb
    <3>. QED
      BY <2>1, <2>2, <2>3, <2>4, <2>6, <3>2, <3>3 DEF Forward, CanForward, MemAluResult
  <2>7. CASE ~Writes(ex2, r) /\ ~Writes(mem, r)
    <3>1. regs'[r] = IF Writes(wb, r) THEN wb.res ELSE regs[r]
      BY <1>1, <1>3, RegsNext DEF GPR
    <3>2. ~Writes(wb, r) => d = regs[r]
      BY <1>3, <2>7 DEF ReadCurrent
    <3>. QED
      BY <2>2, <2>3, <2>4, <2>7, <3>1, <3>2 DEF Forward, CanForward
  <2>. QED
    BY <2>5, <2>6, <2>7
<1>. QED
  BY <1>2, <1>3

\* A step in which EX2, MEM and WB hold changes no architectural register.
LEMMA HoldKeepsArchReg ==
  ASSUME Clock, mem' = mem, wb' = wb, NEW r \in Reg
  PROVE  ArchReg(r)' = ArchReg(r)
<1>1. CASE r = X0
  BY <1>1 DEF ArchReg
<1>2. CASE r # X0
  <2>1. regs'[r] = IF Running /\ Writes(wb, r) THEN wb.res ELSE regs[r]
    BY <1>2, RegsNext DEF GPR
  <2>. QED
    BY <1>2, <2>1 DEF ArchReg, Writes
<1>. QED
  BY <1>1, <1>2

\* So does one in which WB takes a copy of MEM: what was in WB has been written.
LEMMA CopyKeepsArchReg ==
  ASSUME Clock, Running, mem' = mem, wb'.valid = mem.valid, wb'.i = mem.i, NEW r \in Reg
  PROVE  ArchReg(r)' = ArchReg(r)
<1>1. CASE r = X0
  BY <1>1 DEF ArchReg
<1>2. CASE r # X0
  <2>1. regs'[r] = IF Writes(wb, r) THEN wb.res ELSE regs[r]
    BY <1>2, RegsNext DEF GPR
  <2>. QED
    BY <1>2, <2>1 DEF ArchReg, Writes
<1>. QED
  BY <1>1, <1>2

LEMMA OperandsCurrentStep ==
  ASSUME TypeOK, OperandInv, Clock
  PROVE  OperandsCurrent'
<1>1. CASE ~ex2'.valid
  BY <1>1 DEF OperandsCurrent
<1>2. CASE /\ ~Flush /\ ex2' = ex2 /\ mem' = mem
           /\ wb' = wb \/ (Running /\ wb'.valid = mem.valid /\ wb'.i = mem.i)
  <2>1. ex2.i.rs1 \in Reg /\ ex2.i.rs2 \in Reg
    BY DEF TypeOK, ExType, Instruction
  <2>2. /\ ArchReg(ex2.i.rs1)' = ArchReg(ex2.i.rs1)
        /\ ArchReg(ex2.i.rs2)' = ArchReg(ex2.i.rs2)
    <3>1. \A r \in Reg : ArchReg(r)' = ArchReg(r)
      BY <1>2, HoldKeepsArchReg, CopyKeepsArchReg
    <3>. QED
      BY <1>2, <2>1, <3>1 DEF ArchReg, Writes
  <2>3. ~MemBranchTaken
    BY <1>2 DEF Flush
  <2>. QED
    BY <1>2, <2>2, <2>3 DEF OperandInv, OperandsCurrent
<1>3. CASE ~Flush /\ Running /\ ~Freeze
  <2>. SUFFICES ASSUME ex2'.valid, ~MemBranchTaken'
       PROVE  ex2'.a = ArchReg(ex2.i.rs1)' /\ ex2'.b = ArchReg(ex2.i.rs2)'
    BY DEF OperandsCurrent
  <2>1. /\ ex1.valid /\ ex2'.i = ex1.i
        /\ ex2'.a = Forward(ex1.i.rs1, ex1.a)
        /\ ex2'.b = Forward(ex1.i.rs2, ex1.b)
    BY <1>3, IntoEx2AndWb
  <2>2. ReadCurrent(ex1.i.rs1, ex1.a) /\ ReadCurrent(ex1.i.rs2, ex1.b)
    BY <2>1 DEF OperandInv, Ex1Current
  <2>3. \A r \in {ex1.i.rs1, ex1.i.rs2} : \A d :
          ReadCurrent(r, d) => Forward(r, d) = ArchReg(r)'
    BY <1>3, <2>1, ForwardIsArchReg
  <2>. QED
    BY <2>1, <2>2, <2>3 DEF ArchReg, Writes
<1>. QED
  BY <1>1, <1>2, <1>3, StagesMove

\* Away from the hole in the bypass network every step preserves the invariant.
LEMMA OperandInvHolds == OperandSpec => []OperandInv
<1>1. Init => OperandInv /\ ~OperandAtRisk
  BY DEF Init, OperandInv, LateDistance, Ex1Current, JumpRedirects, OperandsCurrent,
         ExBubble, MemBubble, WbBubble, Reads, Writes, Is, OperandAtRisk
<1>2. TypeOK /\ OperandInv /\ ~OperandAtRisk /\ [Next /\ ~OperandAtRisk']_vars
        => OperandInv' /\ ~OperandAtRisk'
  <2>. SUFFICES ASSUME TypeOK, OperandInv, ~OperandAtRisk, [Next /\ ~OperandAtRisk']_vars
                PROVE  OperandInv' /\ ~OperandAtRisk'
    OBVIOUS
  <2>1. CASE Clock /\ ~OperandAtRisk'
    BY <2>1, LateDistanceStep, Ex1CurrentStep, JumpRedirectsStep, OperandsCurrentStep
    DEF OperandInv
  <2>2. CASE Reset /\ ~OperandAtRisk'
    <3>1. ~ex1'.valid /\ ~ex2'.valid /\ ~mem'.valid
      BY <2>2 DEF Reset, ExBubble, MemBubble
    <3>. QED
      BY <2>2, <3>1 DEF OperandInv, LateDistance, Reads, Ex1Current, JumpRedirects,
                        Is, OperandsCurrent
  <2>3. CASE UNCHANGED vars
    <3>1. OperandInv'
      BY <2>3 DEF vars, stages, OperandInv, LateDistance, Ex1Current, ReadCurrent,
                  JumpRedirects, OperandsCurrent, MemBranchTaken, ArchReg, Writes,
                  Reads, Is
    <3>2. ~OperandAtRisk'
      BY <2>3 DEF vars, stages, OperandAtRisk, Running, Flush, MemBranchTaken, EcallTrap,
                  MretInId, HazardLoadData, UnitStall, UnitStart, Reads, Writes, Is
    <3>. QED
      BY <3>1, <3>2
  <2>. QED
    BY <2>1, <2>2, <2>3 DEF Next
<1>3. Init /\ [][Next /\ ~OperandAtRisk']_vars => Steps
  BY PTL DEF Steps
<1>. QED
  BY <1>1, <1>2, <1>3, TypeHolds, PTL DEF OperandSpec

\* Without multiplications and divisions only a waiting load freezes EX1.
LEMMA FreezeIsLoadWait ==
  ASSUME UnitsUnused
  PROVE  /\ \A u \in Units : ~UnitStart(u)
         /\ Freeze <=> HazardLoadData
  BY DEF UnitsUnused, UnitStart, UnitStall, Freeze, Is

LEMMA UnitsUnusedStep ==
  ASSUME NoUnits, UnitsUnused, Clock \/ Reset
  PROVE  UnitsUnused'
<1>1. Nop.kind \notin Units
  BY DEF Nop, Units
<1>2. CASE Clock
  <2>1. id'.i.kind \notin Units
    BY <1>1, <1>2 DEF Clock, IfId, IdBubble, UnitsUnused, NoUnits
  <2>2. ex1'.i.kind \notin Units
    BY <1>1, <1>2 DEF Clock, IdEx1, ExBubble, UnitsUnused
  <2>3. ex2'.i.kind \notin Units
    BY <1>1, <1>2 DEF Clock, Ex1Ex2, ExBubble, UnitsUnused
  <2>4. PICK n : unit' = [u \in Units |-> UnitStep(u, UnitStart(u), RunningNext(u), n)]
    BY <1>2 DEF Clock, UnitsNext
  <2>5. \A u \in Units : unit'[u].busy = 0
    <3>. SUFFICES ASSUME NEW u \in Units PROVE unit'[u].busy = 0
      OBVIOUS
    <3>1. ~UnitStart(u) /\ unit[u].busy = 0
      BY FreezeIsLoadWait DEF UnitsUnused
    <3>2. unit'[u] = UnitStep(u, UnitStart(u), RunningNext(u), n)
      BY <2>4
    <3>. QED
      BY <3>1, <3>2 DEF UnitStep
  <2>. QED
    BY <2>1, <2>2, <2>3, <2>5 DEF UnitsUnused
<1>3. CASE Reset
  <2>1. \A u \in Units : unit'[u].busy = 0
    BY <1>3 DEF Reset, UnitStep, UnitsUnused
  <2>. QED
    BY <1>1, <1>3, <2>1 DEF Reset, IdBubble, ExBubble, UnitsUnused
<1>. QED
  BY <1>2, <1>3

LEMMA NeverAtRisk ==
  ASSUME NoUnits
  PROVE  Steps => OperandSpec
<1>1. Init => UnitsUnused
  BY DEF Init, UnitsUnused, ExBubble, Nop, UnitIdle, Units
<1>2. UnitsUnused /\ [Next]_vars => UnitsUnused'
  <2>1. ASSUME UnitsUnused, UNCHANGED vars PROVE UnitsUnused'
    BY <2>1 DEF vars, stages, UnitsUnused
  <2>. QED
    BY <2>1, UnitsUnusedStep DEF Next
<1>3. UnitsUnused => ~OperandAtRisk
  <2>1. UnitsUnused => \A u \in Units : ~UnitStall(u)
    BY FreezeIsLoadWait DEF UnitStall, UnitsUnused
  <2>. QED
    BY <2>1 DEF OperandAtRisk
<1>. QED
  BY <1>1, <1>2, <1>3, PTL DEF Steps, OperandSpec

\* Every instruction executes on the operands program order gives it, across all
\* bypasses, stalls of whatever cause, flushes, traps, resets and stops of the core,
\* as long as no multiplication or division holds an instruction in EX1 while WB
\* drops its operand (rtl/riscv_soc.sv:1202): there is no other hole in the network.
THEOREM OperandsCurrentUnlessAtRisk == OperandSpec => []OperandsCurrent
<1>1. OperandInv => OperandsCurrent
  BY DEF OperandInv
<1>. QED
  BY <1>1, OperandInvHolds, PTL

\* In particular every instruction of a program without multiplications and divisions.
THEOREM OperandsAlwaysCurrent ==
  ASSUME NoUnits
  PROVE  Spec => []OperandsCurrent
BY NeverAtRisk, OperandsCurrentUnlessAtRisk, PTL DEF Spec

(***************************************************************************)
(* The stopped core.                                                       *)
(***************************************************************************)

\* Outside the windows of StopAtRisk a core the host has stopped holds what it has in
\* flight; at most a bubble in EX1 is replaced by another.
LEMMA StoppedHolds ==
  ASSUME Clock, ~ctrl_run, ~StopAtRisk
  PROVE  /\ ~Flush /\ ~Running
         /\ UNCHANGED <<if_pc, id, ex2, mem, wb, mem_load_wait>>
         /\ ex1' = ex1 \/ (~ex1.valid /\ ~ex1'.valid)
<1>1. ~Flush /\ ~Running /\ (Stall /\ ~Freeze => ~ex1.valid)
  BY DEF StopAtRisk, Running
<1>2. Fetch /\ IfId /\ IdEx1 /\ Ex1Ex2 /\ Ex2Mem /\ MemWb /\ LoadWait
  BY DEF Clock
<1>3. if_pc' = if_pc /\ id' = id
  BY <1>1, <1>2 DEF Fetch, IfId
<1>4. ex2' = ex2
  BY <1>1, <1>2 DEF Ex1Ex2
<1>5. mem' = mem
  BY <1>1, <1>2 DEF Ex2Mem
<1>6. wb' = wb /\ mem_load_wait' = mem_load_wait
  BY <1>1, <1>2 DEF MemWb, LoadWait
<1>7. ex1' = ex1 \/ (~ex1.valid /\ ~ex1'.valid)
  BY <1>1, <1>2 DEF IdEx1, ExBubble
<1>. QED
  BY <1>1, <1>3, <1>4, <1>5, <1>6, <1>7

LEMMA NotAtRisk == StopSpec => []~StopAtRisk
<1>1. Init => ~StopAtRisk
  BY DEF Init, StopAtRisk
<1>2. ~StopAtRisk /\ [Next /\ ~StopAtRisk']_vars => ~StopAtRisk'
  <2>1. ASSUME ~StopAtRisk, UNCHANGED vars PROVE ~StopAtRisk'
    BY <2>1 DEF vars, stages, StopAtRisk, Flush, MemBranchTaken, EcallTrap, MretInId,
                Stall, HazardLoadUse, LoadUse, Freeze, HazardLoadData, UnitStall,
                UnitStart, Running, Is
  <2>. QED
    BY <2>1
<1>. QED
  BY <1>1, <1>2, PTL DEF StopSpec

LEMMA StopSteps == StopSpec => Steps
BY PTL DEF StopSpec, Steps

\* Where the host leaves RUN set the question does not arise.
LEMMA NeverStopped ==
  ASSUME ~CanPause
  PROVE  Steps => StopSpec
<1>1. Init => ctrl_run
  BY DEF Init
<1>2. ctrl_run /\ [Next]_vars => ctrl_run'
  BY DEF Next, Clock, Reset, HostRun, vars
<1>3. ctrl_run => ~StopAtRisk
  BY DEF StopAtRisk
<1>. QED
  BY <1>1, <1>2, <1>3, PTL DEF Steps, StopSpec

(***************************************************************************)
(* The multiplier and the divider.  A unit at work stalls the stages       *)
(* behind MEM, so that the instruction in EX2 cannot change under it: it   *)
(* is the unit's own, or was flushed in the cycle of the start or later.   *)
(***************************************************************************)
UnitResult == Exec(ex2.i, ex2.pc, ex2.a, ex2.b)
AtWork(u) == unit[u].busy # 0 \/ unit[u].done

UnitOwned(u) == AtWork(u) /\ ex2.valid => ex2.i.kind = u /\ unit[u].running
UnitWork(u) ==
  AtWork(u) /\ ex2.valid => /\ unit[u].busy # 0 => unit[u].pending = UnitResult
                            /\ unit[u].done => unit[u].result = UnitResult
UnitPulse(u) == unit[u].busy # 0 => ~unit[u].done
UnitLive(u) == ~cpu_halted /\ unit[u].running => AtWork(u)

UnitInv == \A u \in Units : UnitOwned(u) /\ UnitWork(u) /\ UnitPulse(u)

\* What a clock edge does to a unit, field by field.
UnitMove(u, n) ==
  /\ unit'[u].running = RunningNext(u)
  /\ unit'[u].busy = IF UnitStart(u) THEN n
                     ELSE IF unit[u].busy # 0 THEN unit[u].busy - 1 ELSE 0
  /\ unit'[u].done <=> (UnitStart(u) /\ n = 0) \/ unit[u].busy = 1
  /\ unit'[u].pending = IF UnitStart(u) THEN UnitResult ELSE unit[u].pending
  /\ unit'[u].result = IF UnitStart(u) /\ n = 0 THEN UnitResult
                       ELSE IF unit[u].busy = 1 THEN unit[u].pending
                       ELSE unit[u].result

LEMMA UnitMoves ==
  ASSUME Clock, NEW u \in Units
  PROVE  \E n \in Nat : UnitMove(u, n)
<1>1. PICK n \in Nat : unit' = [v \in Units |-> UnitStep(v, UnitStart(v), RunningNext(v), n)]
  BY SwitchAssumption DEF Clock, UnitsNext, Latency
<1>2. unit'[u] = UnitStep(u, UnitStart(u), RunningNext(u), n)
  BY <1>1
<1>3. unit'[u].running = RunningNext(u)
  BY <1>2 DEF UnitStep
<1>4. unit'[u].busy = IF UnitStart(u) THEN n
                      ELSE IF unit[u].busy # 0 THEN unit[u].busy - 1 ELSE 0
  BY <1>2 DEF UnitStep
<1>5. unit'[u].done = ((UnitStart(u) /\ n = 0) \/ unit[u].busy = 1)
  BY <1>2 DEF UnitStep
<1>6. unit'[u].done <=> (UnitStart(u) /\ n = 0) \/ unit[u].busy = 1
  BY <1>5, Zenon
<1>7. unit'[u].pending = IF UnitStart(u) THEN UnitResult ELSE unit[u].pending
  BY <1>2 DEF UnitStep, UnitResult
<1>8. unit'[u].result = IF UnitStart(u) /\ n = 0 THEN UnitResult
                        ELSE IF unit[u].busy = 1 THEN unit[u].pending
                        ELSE unit[u].result
  BY <1>2 DEF UnitStep, UnitResult
<1>. QED
  BY <1>3, <1>4, <1>6, <1>7, <1>8, Zenon DEF UnitMove

\* While a unit works, or starts, EX2 holds its instruction or is flushed.
LEMMA WorkHoldsEx2 ==
  ASSUME UnitInv, Clock, NEW u \in Units,
         UnitStart(u) \/ unit[u].busy # 0
  PROVE  /\ ~unit[u].done
         /\ ~ex2'.valid \/ (~Flush /\ ex2' = ex2)
<1>1. ~unit[u].done
  BY DEF UnitInv, UnitOwned, UnitPulse, UnitStart, Is, AtWork
<1>2. Freeze
  BY <1>1 DEF Freeze, UnitStall
<1>3. ~ex2'.valid \/ (~Flush /\ ex2' = ex2)
  BY <1>2 DEF Clock, Ex1Ex2, ExBubble
<1>. QED
  BY <1>1, <1>3

LEMMA UnitInvStep ==
  ASSUME TypeOK, UnitInv, Clock
  PROVE  UnitInv'
<1>. SUFFICES ASSUME NEW u \in Units
              PROVE  UnitOwned(u)' /\ UnitWork(u)' /\ UnitPulse(u)'
  BY DEF UnitInv
<1>1. PICK n \in Nat : UnitMove(u, n)
  BY UnitMoves
<1>2. unit[u].busy \in Nat
  BY DEF TypeOK, UnitType
<1>3. CASE UnitStart(u)
  <2>1. Is(ex2, u) /\ unit[u].busy = 0 /\ ~unit[u].running
    BY <1>3 DEF UnitStart
  <2>2. ~unit[u].done /\ (~ex2'.valid \/ (~Flush /\ ex2' = ex2))
    BY <1>3, WorkHoldsEx2
  <2>3. unit'[u].busy = n /\ (n = 0 <=> unit'[u].done)
    <3>1. unit'[u].busy = n
      BY <1>1, <1>3 DEF UnitMove
    <3>2. unit'[u].done <=> (UnitStart(u) /\ n = 0) \/ unit[u].busy = 1
      BY <1>1 DEF UnitMove
    <3>. QED
      BY <1>3, <2>1, <3>1, <3>2
  <2>4. unit'[u].pending = UnitResult /\ (n = 0 => unit'[u].result = UnitResult)
    BY <1>1, <1>3 DEF UnitMove
  <2>5. ex2'.valid => ex2' = ex2 /\ unit'[u].running
    <3>1. unit'[u].running = RunningNext(u)
      BY <1>1 DEF UnitMove
    <3>2. ex2'.valid => RunningNext(u)
      BY <2>1, <2>2 DEF RunningNext
    <3>. QED
      BY <2>2, <3>1, <3>2
  <2>. QED
    BY <2>1, <2>3, <2>4, <2>5 DEF UnitOwned, UnitWork, UnitPulse, UnitResult, AtWork, Is
<1>4. CASE ~UnitStart(u) /\ unit[u].busy # 0
  <2>1. ~unit[u].done /\ (~ex2'.valid \/ (~Flush /\ ex2' = ex2))
    BY <1>4, WorkHoldsEx2
  <2>2. unit'[u].busy = unit[u].busy - 1 /\ (unit'[u].done <=> unit[u].busy = 1)
    <3>1. unit'[u].busy = unit[u].busy - 1
      BY <1>1, <1>4 DEF UnitMove
    <3>2. unit'[u].done <=> (UnitStart(u) /\ n = 0) \/ unit[u].busy = 1
      BY <1>1 DEF UnitMove
    <3>. QED
      BY <1>4, <3>1, <3>2
  <2>3. /\ unit'[u].pending = unit[u].pending
        /\ unit[u].busy = 1 => unit'[u].result = unit[u].pending
    BY <1>1, <1>4 DEF UnitMove
  <2>4. ex2.valid => /\ ex2.i.kind = u /\ unit[u].running
                     /\ unit[u].pending = UnitResult
    BY <1>4 DEF UnitInv, UnitOwned, UnitWork, AtWork
  <2>5. ex2'.valid => ex2' = ex2 /\ unit'[u].running
    <3>1. unit'[u].running = RunningNext(u)
      BY <1>1 DEF UnitMove
    <3>2. ex2'.valid => RunningNext(u)
      BY <2>1, <2>4 DEF RunningNext
    <3>. QED
      BY <2>1, <3>1, <3>2
  <2>. QED
    BY <1>2, <2>2, <2>3, <2>4, <2>5 DEF UnitOwned, UnitWork, UnitPulse, UnitResult, AtWork
<1>5. CASE ~UnitStart(u) /\ unit[u].busy = 0
  <2>1. unit'[u].busy = 0
    BY <1>1, <1>5 DEF UnitMove
  <2>2. unit'[u].done <=> (UnitStart(u) /\ n = 0) \/ unit[u].busy = 1
    BY <1>1 DEF UnitMove
  <2>3. ~unit'[u].done
    BY <1>5, <2>2
  <2>. QED
    BY <2>1, <2>3 DEF UnitOwned, UnitWork, UnitPulse, AtWork
<1>. QED
  BY <1>3, <1>4, <1>5

\* A reset empties EX2 and lets the units finish.
LEMMA UnitInvReset ==
  ASSUME TypeOK, UnitInv, Reset
  PROVE  UnitInv'
<1>. SUFFICES ASSUME NEW u \in Units
              PROVE  UnitOwned(u)' /\ UnitWork(u)' /\ UnitPulse(u)'
  BY DEF UnitInv
<1>1. ~ex2'.valid
  BY DEF Reset, ExBubble
<1>2. unit'[u] = UnitStep(u, FALSE, FALSE, 0)
  BY DEF Reset
<1>3. unit[u].busy \in Nat
  BY DEF TypeOK, UnitType
<1>4. unit'[u].busy # 0 => ~unit'[u].done
  <2>1. unit'[u].busy = IF unit[u].busy # 0 THEN unit[u].busy - 1 ELSE 0
    BY <1>2 DEF UnitStep
  <2>2. unit'[u].done = ((FALSE /\ 0 = 0) \/ unit[u].busy = 1)
    BY <1>2 DEF UnitStep
  <2>3. unit'[u].done <=> unit[u].busy = 1
    BY <2>2, Zenon
  <2>. QED
    BY <1>3, <2>1, <2>3
<1>. QED
  BY <1>1, <1>4 DEF UnitOwned, UnitWork, UnitPulse

LEMMA UnitInvHolds == Steps => []UnitInv
<1>1. Init => UnitInv
  BY DEF Init, UnitInv, UnitOwned, UnitWork, UnitPulse, AtWork, ExBubble, UnitIdle
<1>2. TypeOK /\ UnitInv /\ [Next]_vars => UnitInv'
  <2>. SUFFICES ASSUME TypeOK, UnitInv, UNCHANGED vars PROVE UnitInv'
    BY UnitInvStep, UnitInvReset DEF Next
  <2>. QED
    BY DEF vars, stages, UnitInv, UnitOwned, UnitWork, UnitPulse, UnitResult, AtWork
<1>. QED
  BY <1>1, <1>2, TypeHolds, PTL DEF Steps

\* A unit is only started when it can accept: neither at work nor in the cycle of its
\* done pulse, for any mix of flushes, resets, stops and loads that hold its operation.
THEOREM UnitsStartIdle == Spec => []UnitStartsIdle
<1>1. UnitInv => UnitStartsIdle
  BY DEF UnitInv, UnitOwned, UnitStartsIdle, UnitStart, Is, AtWork
<1>. QED
  BY <1>1, UnitInvHolds, PTL DEF Spec

\* In a core that has not halted the running bit of a unit says that it is at work,
\* wherever the host may stop it.
LEMMA UnitLiveStep ==
  ASSUME ~StopAtRisk, TypeOK, UnitInv, Clock, NEW u \in Units, UnitLive(u)
  PROVE  UnitLive(u)'
<1>. SUFFICES ASSUME ~cpu_halted', unit'[u].running PROVE AtWork(u)'
  BY DEF UnitLive
<1>1. ~cpu_halted
  BY DEF Clock, Halt
<1>2. PICK n \in Nat : UnitMove(u, n)
  BY UnitMoves
<1>3. RunningNext(u)
  BY <1>2 DEF UnitMove
<1>4. unit[u].busy \in Nat
  BY DEF TypeOK, UnitType
<1>5. unit'[u].done <=> (UnitStart(u) /\ n = 0) \/ unit[u].busy = 1
  BY <1>2 DEF UnitMove
<1>6. CASE UnitStart(u)
  <2>1. unit'[u].busy = n
    BY <1>2, <1>6 DEF UnitMove
  <2>. QED
    BY <1>6, <1>5, <2>1 DEF AtWork
<1>7. CASE ~UnitStart(u)
  <2>1. unit[u].busy # 0
    <3>. SUFFICES ASSUME unit[u].busy = 0 PROVE FALSE
      OBVIOUS
    <3>1. ~unit[u].running /\ Is(ex2, u)
      BY <1>1, <1>3 DEF RunningNext, UnitLive, AtWork
    <3>2. ~ctrl_run
      BY <1>1, <1>7, <3>1 DEF UnitStart, Running
    <3>. QED
      BY <3>1, <3>2 DEF StopAtRisk
  <2>2. unit'[u].busy = unit[u].busy - 1
    BY <1>2, <1>7, <2>1 DEF UnitMove
  <2>. QED
    BY <1>4, <1>5, <2>1, <2>2 DEF AtWork
<1>. QED
  BY <1>6, <1>7

LEMMA ResultFreshHolds == StopSpec => []UnitResultFresh
<1>. DEFINE Live == \A u \in Units : UnitLive(u)
<1>1. Init => Live
  BY DEF Init, UnitLive, UnitIdle
<1>2. TypeOK /\ UnitInv /\ ~StopAtRisk /\ Live /\ [Next]_vars => Live'
  <2>. SUFFICES ASSUME TypeOK, UnitInv, ~StopAtRisk, Live, [Next]_vars, NEW u \in Units
                PROVE  UnitLive(u)'
    OBVIOUS
  <2>1. CASE Clock
    BY <2>1, UnitLiveStep
  <2>2. CASE Reset
    BY <2>2 DEF Reset, UnitStep, UnitLive
  <2>3. CASE UNCHANGED vars
    BY <2>3 DEF vars, UnitLive, AtWork
  <2>. QED
    BY <2>1, <2>2, <2>3 DEF Next
<1>3. UnitInv /\ Live => UnitResultFresh
  <2>. SUFFICES ASSUME UnitInv, Live, NEW u \in Units, ex2.valid, ex2.i.kind = u,
                       Running, ~Freeze
                PROVE  unit[u].result = UnitResult
    BY DEF UnitResultFresh, UnitResult
  <2>1. ~UnitStall(u)
    BY DEF Freeze
  <2>2. unit[u].done
    BY <2>1 DEF UnitStall, UnitStart, UnitLive, AtWork, Is, Running
  <2>. QED
    BY <2>2 DEF UnitInv, UnitWork, AtWork
<1>. QED
  BY <1>1, <1>2, <1>3, TypeHolds, UnitInvHolds, NotAtRisk, StopSteps, PTL DEF Steps

\* A multiplication or division that leaves EX2 takes the result of its own operands
\* with it, whenever the host stops and starts the core, unless it does so while the
\* operation is in EX2 and its unit is not at work (rtl/riscv_soc.sv:816-899).
THEOREM UnitResultsFreshUnlessStopped == StopSpec => []UnitResultFresh
BY ResultFreshHolds

\* In particular it does if the host leaves RUN set.
THEOREM UnitResultsFresh ==
  ASSUME ~CanPause
  PROVE  Spec => []UnitResultFresh
BY ResultFreshHolds, NeverStopped, PTL DEF Spec

(***************************************************************************)
(* The length of a stall: its measure, one lemma per cause.                *)
(***************************************************************************)
LEMMA UnitsLeftBounds ==
  ASSUME TypeOK
  PROVE  /\ DivCycles \in Nat \ {0}
         /\ \A u \in Units : unit[u].busy \in Nat /\ unit[u].busy <= UnitsLeft
         /\ UnitsLeft \in Nat /\ UnitsLeft <= DivCycles + 1
         /\ (\A u \in Units : ~UnitStart(u)) => UnitsLeft <= DivCycles
<1>1. DivCycles \in Nat \ {0}
  BY SwitchAssumption
<1>2. \A u \in Units : unit[u].busy \in 0..DivCycles
  BY DEF TypeOK, UnitType
<1>3. unit["mul"].busy \in 0..DivCycles /\ unit["div"].busy \in 0..DivCycles
  BY <1>2 DEF Units
<1>. QED
  BY <1>1, <1>2, <1>3 DEF UnitsLeft, Units

\* A stall for a unit is one of a unit that counts down or starts.
LEMMA UnitStallCounts ==
  ASSUME TypeOK, NEW u \in Units, UnitStall(u)
  PROVE  UnitsLeft # 0
BY UnitsLeftBounds DEF UnitStall, UnitsLeft

\* The counters of both units count down, unless a start sets one.
LEMMA BusyCounts ==
  ASSUME TypeOK, Clock \/ Reset, TypeOK', UnitsLeft # 0, NEW u \in Units
  PROVE  unit'[u].busy <= UnitsLeft - 1
<1>1. unit'[u].busy \in 0..DivCycles
  BY DEF TypeOK, UnitType
<1>2. CASE \E v \in Units : UnitStart(v)
  <2>1. UnitsLeft = DivCycles + 1
    BY <1>2 DEF UnitsLeft
  <2>. QED
    BY <1>1, <2>1, UnitsLeftBounds
<1>3. CASE \A v \in Units : ~UnitStart(v)
  <2>1. unit'[u].busy = IF unit[u].busy # 0 THEN unit[u].busy - 1 ELSE 0
    <3>1. CASE Clock
      <4>1. PICK n \in Nat : UnitMove(u, n)
        BY <3>1, UnitMoves
      <4>. QED
        BY <1>3, <4>1 DEF UnitMove
    <3>2. CASE Reset
      BY <3>2 DEF Reset, UnitStep
    <3>. QED
      BY <3>1, <3>2
  <2>. QED
    BY <2>1, UnitsLeftBounds
<1>. QED
  BY <1>2, <1>3

\* Once the pipeline has been emptied only the count of a unit is left.
LEMMA EmptiedLeft ==
  ASSUME TypeOK', ~ex1'.valid, ~ex2'.valid, ~mem'.valid
  PROVE  StallLeft' = UnitsLeft' /\ \A u \in Units : ~UnitStart(u)'
<1>1. \A u \in Units : ~UnitStart(u)'
  BY DEF UnitStart, Is
<1>2. MovesLeft' = 0 /\ ~HazardLoadData'
  BY DEF MovesLeft, HazardLoadData, Is
<1>3. UnitsLeft' \in Nat
  BY <1>1, SwitchAssumption DEF TypeOK, UnitType, UnitsLeft, Units
<1>4. StallLeft' = MovesLeft' + (IF HazardLoadData' THEN DivCycles + 1 + mem_load_wait'
                                 ELSE UnitsLeft')
  BY DEF StallLeft
<1>5. StallLeft' = MovesLeft' + UnitsLeft'
  BY <1>2, <1>4, Zenon
<1>6. StallLeft' = UnitsLeft'
  <2>1. \A m, n \in Nat : m = 0 => m + n = n
    OBVIOUS
  <2>2. MovesLeft' = 0 /\ MovesLeft' \in Nat
    BY <1>2
  <2>. QED
    BY <1>3, <1>5, <2>1, <2>2, Zenon
<1>. QED
  BY <1>1, <1>6, Zenon

\* A flush or reset leaves less than any stall it ends.
LEMMA FlushShrinks ==
  ASSUME TypeOK, TypeOK', (Clock /\ Flush) \/ Reset, HazardLoadUse \/ Freeze
  PROVE  StallLeft' < StallLeft
<1>1. ~ex1'.valid /\ ~ex2'.valid /\ ~mem'.valid
  <2>1. CASE Clock /\ Flush
    BY <2>1, StagesMove
  <2>2. CASE Reset
    BY <2>2 DEF Reset, ExBubble, MemBubble
  <2>. QED
    BY <2>1, <2>2
<1>2. StallLeft' = UnitsLeft' /\ \A u \in Units : ~UnitStart(u)'
  BY <1>1, EmptiedLeft
<1>3. UnitsLeft' \in Nat /\ UnitsLeft' <= DivCycles
  BY <1>2, SwitchAssumption DEF TypeOK, UnitType, UnitsLeft, Units
<1>4. CASE HazardLoadUse \/ HazardLoadData
  <2>1. ex1.valid \/ ex2.valid \/ mem.valid
    BY <1>4 DEF HazardLoadUse, LoadUse, HazardLoadData, Is
  <2>2. MovesLeft \in Nat /\ MovesLeft >= DivCycles + 5
    BY <2>1, UnitsLeftBounds DEF MovesLeft
  <2>3. StallLeft \in Nat /\ StallLeft >= MovesLeft
    BY <2>2, UnitsLeftBounds DEF StallLeft, TypeOK
  <2>. QED
    BY <1>2, <1>3, <2>2, <2>3, UnitsLeftBounds
<1>5. CASE ~HazardLoadData /\ \E u \in Units : UnitStall(u)
  <2>1. UnitsLeft # 0
    BY <1>5, UnitStallCounts
  <2>2. UnitsLeft' <= UnitsLeft - 1
    <3>1. \A u \in Units : unit'[u].busy <= UnitsLeft - 1
      BY <2>1, BusyCounts
    <3>. QED
      BY <1>2, <3>1 DEF UnitsLeft, Units
  <2>3. MovesLeft \in Nat
    BY UnitsLeftBounds DEF MovesLeft
  <2>. QED
    BY <1>2, <1>3, <1>5, <2>1, <2>2, <2>3, UnitsLeftBounds DEF StallLeft
<1>. QED
  BY <1>4, <1>5 DEF Freeze

\* A load that waits in MEM counts down; what a unit does behind it is allowed for.
LEMMA LoadWaitShrinks ==
  ASSUME TypeOK, TypeOK', Clock, Running, ~Flush, HazardLoadData
  PROVE  StallLeft' < StallLeft
<1>1. mem_load_wait \in 1..3 /\ mem_load_wait' = mem_load_wait - 1
  BY DEF Clock, LoadWait, HazardLoadData, TypeOK
<1>2. ex2' = ex2 /\ mem' = mem /\ (ex1' = ex1 \/ ~ex1'.valid)
  BY StagesMove DEF Freeze
<1>3. MovesLeft' \in Nat /\ MovesLeft' <= MovesLeft /\ MovesLeft \in Nat
  BY <1>2, UnitsLeftBounds DEF MovesLeft
<1>4. UnitsLeft' \in Nat /\ UnitsLeft' <= DivCycles + 1
  BY SwitchAssumption DEF TypeOK, UnitType, UnitsLeft, Units
<1>. QED
  BY <1>1, <1>3, <1>4, UnitsLeftBounds DEF StallLeft

\* A unit that works in EX2 is not started again before its answer is taken.
LEMMA UnitStallShrinks ==
  ASSUME TypeOK, TypeOK', UnitInv, Clock, Running, ~Flush, ~HazardLoadData,
         \E u \in Units : UnitStall(u)
  PROVE  StallLeft' < StallLeft
<1>1. ex1' = ex1 /\ ex2' = ex2 /\ mem' = mem
  BY StagesMove DEF Freeze
<1>2. PICK u \in Units : UnitStall(u)
  OBVIOUS
<1>3. ex2.valid => ex2.i.kind = u /\ (unit[u].running \/ UnitStart(u)) /\ ~unit[u].done
  BY <1>2 DEF UnitStall, UnitStart, UnitInv, UnitOwned, AtWork, Is
<1>4. ex2.valid => unit'[u].running
  <2>1. ex2.valid => RunningNext(u)
    BY <1>3 DEF RunningNext, UnitStart
  <2>2. PICK n \in Nat : UnitMove(u, n)
    BY UnitMoves
  <2>. QED
    BY <2>1, <2>2 DEF UnitMove
<1>5. \A v \in Units : ~UnitStart(v)'
  BY <1>1, <1>3, <1>4 DEF UnitStart, Is
<1>6. UnitsLeft # 0 /\ UnitsLeft' \in Nat /\ UnitsLeft' <= UnitsLeft - 1
  <2>1. UnitsLeft # 0
    BY <1>2, UnitStallCounts
  <2>2. \A v \in Units : unit'[v].busy <= UnitsLeft - 1 /\ unit'[v].busy \in Nat
    BY <2>1, BusyCounts DEF TypeOK, UnitType
  <2>. QED
    BY <1>5, <2>1, <2>2 DEF UnitsLeft, Units
<1>7. ~HazardLoadData'
  <2>1. ~Is(ex2, "load")
    BY <1>3 DEF Is, Units
  <2>2. Is(mem, "load") => mem_load_wait = 0
    BY DEF HazardLoadData
  <2>. QED
    BY <1>1, <2>1, <2>2 DEF Clock, LoadWait, HazardLoadData, Is
<1>8. MovesLeft' = MovesLeft /\ MovesLeft \in Nat
  BY <1>1, UnitsLeftBounds DEF MovesLeft
<1>. QED
  BY <1>6, <1>7, <1>8, UnitsLeftBounds DEF StallLeft

\* A load-use stall empties EX1 and moves the producer on.
LEMMA LoadUseShrinks ==
  ASSUME TypeOK, TypeOK', Clock, Running, ~Flush, ~Freeze, HazardLoadUse
  PROVE  StallLeft' < StallLeft
<1>1. ~ex1'.valid /\ ex2'.valid = ex1.valid /\ (mem'.valid => ex2.valid)
  <2>1. ex1' = ExBubble
    BY DEF Clock, IdEx1, Stall
  <2>. QED
    BY <2>1, IntoEx2AndWb, IntoMem DEF ExBubble
<1>2. ex1.valid \/ ex2.valid \/ mem.valid
  BY DEF HazardLoadUse, LoadUse
<1>3. MovesLeft' \in Nat /\ MovesLeft \in Nat /\ MovesLeft' <= MovesLeft - (DivCycles + 5)
  BY <1>1, <1>2, UnitsLeftBounds DEF MovesLeft
<1>4. UnitsLeft' \in Nat /\ UnitsLeft' <= DivCycles + 1
  BY SwitchAssumption DEF TypeOK, UnitType, UnitsLeft, Units
<1>5. StallLeft' \in Nat /\ StallLeft' <= MovesLeft' + DivCycles + 4
  <2>1. mem_load_wait' \in 0..3
    BY DEF TypeOK
  <2>2. StallLeft' = MovesLeft' + (IF HazardLoadData' THEN DivCycles + 1 + mem_load_wait'
                                   ELSE UnitsLeft')
    BY DEF StallLeft
  <2>. QED
    BY <1>3, <1>4, <2>1, <2>2, UnitsLeftBounds
<1>6. StallLeft = MovesLeft + UnitsLeft
  BY DEF StallLeft, Freeze
<1>. QED
  BY <1>3, <1>5, <1>6, UnitsLeftBounds

\* Every stall of a running core other than the wait for an interrupt has a measure
\* that each cycle brings down, however the causes of stalls, flushes, traps, resets and
\* stops meet: no stall outlasts it (rtl/riscv_soc.sv:333, :345, :816-899).
THEOREM StallsAlwaysShrink == Spec => StallsShrink
<1>1. ASSUME TypeOK, TypeOK', UnitInv, Next, Running, HazardLoadUse \/ Freeze
      PROVE  StallLeft' < StallLeft
  <2>1. CASE Reset \/ (Clock /\ Flush)
    BY <1>1, <2>1, FlushShrinks
  <2>2. CASE Clock /\ ~Flush /\ HazardLoadData
    BY <1>1, <2>2, LoadWaitShrinks
  <2>3. CASE Clock /\ ~Flush /\ ~HazardLoadData /\ \E u \in Units : UnitStall(u)
    BY <1>1, <2>3, UnitStallShrinks
  <2>4. CASE Clock /\ ~Flush /\ ~Freeze
    BY <1>1, <2>4, LoadUseShrinks
  <2>. QED
    BY <1>1, <2>1, <2>2, <2>3, <2>4 DEF Next, Freeze
<1>2. TypeOK /\ TypeOK' /\ UnitInv /\ [Next]_vars
        => [Running /\ (HazardLoadUse \/ Freeze) => StallLeft' < StallLeft]_vars
  BY <1>1
<1>. QED
  BY <1>2, TypeHolds, UnitInvHolds, PTL DEF Spec, Steps, StallsShrink
=============================================================================
