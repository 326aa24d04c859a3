------------------------- MODULE PipelineISA_proofs -------------------------
(***************************************************************************)
(* The core implements the instruction set, for every program alphabet,    *)
(* register file, address space, memory and divider latency: the order of  *)
(* execution first, with and without traps, and then what is computed.     *)
(***************************************************************************)
EXTENDS Pipeline_proofs

(***************************************************************************)
(* The instructions in flight are consecutive: each stage that holds one   *)
(* is followed, in the next younger occupied stage or in the fetch, by the *)
(* one after it.                                                           *)
(***************************************************************************)
FromId  == IF id.valid THEN id.pc ELSE if_pc
FromEx1 == IF ex1.valid THEN ex1.pc ELSE FromId
FromEx2 == IF ex2.valid THEN ex2.pc ELSE FromEx1

InOrder ==
  /\ id.valid => if_pc = Succ[id.pc]
  /\ ex1.valid => FromId = Succ[ex1.pc]
  /\ ex2.valid => FromEx1 = Succ[ex2.pc]

OfProgram ==
  /\ id.valid => id.i \in Instr
  /\ ex1.valid => ex1.i \in Instr
  /\ ex2.valid => ex2.i \in Instr

FlowInv == InOrder /\ OfProgram

LEMMA ArchPCIs ==
  /\ ArchPC = IF MemBranchTaken THEN mem.to ELSE FromEx2
  /\ ArchPC' = IF MemBranchTaken' THEN mem'.to ELSE FromEx2'
BY DEF ArchPC, FromEx2, FromEx1, FromId

\* A flush empties the pipeline; a running core goes on where the fetch does.
LEMMA FlushEmpties ==
  ASSUME Clock, Flush
  PROVE  /\ FlowInv' /\ ~mem'.valid /\ FromEx2' = if_pc'
         /\ Running => if_pc' = IfPcNext
<1>1. IfId /\ IdEx1 /\ Ex1Ex2 /\ Ex2Mem /\ Fetch
  BY DEF Clock
<1>2. ~id'.valid /\ ~ex1'.valid /\ ~ex2'.valid /\ ~mem'.valid
  BY <1>1 DEF IfId, IdEx1, Ex1Ex2, Ex2Mem, IdBubble, ExBubble, MemBubble
<1>3. Running => if_pc' = IfPcNext
  BY <1>1 DEF Fetch
<1>. QED
  BY <1>2, <1>3 DEF FlowInv, InOrder, OfProgram, FromEx2, FromEx1, FromId

\* A running core that waits for its memory or a unit stands still.
LEMMA FreezeHolds ==
  ASSUME Clock, Running, ~Flush, Freeze
  PROVE  UNCHANGED <<if_pc, id, ex1, ex2, mem>>
<1>1. IfId /\ IdEx1 /\ Ex1Ex2 /\ Ex2Mem /\ Fetch
  BY DEF Clock
<1>2. Stall
  BY DEF Stall
<1>3. if_pc' = if_pc /\ id' = id
  BY <1>1, <1>2 DEF Fetch, IfId
<1>4. ex1' = ex1
  BY <1>1, <1>2 DEF IdEx1
<1>5. ex2' = ex2
  BY <1>1 DEF Ex1Ex2
<1>6. mem' = mem
  BY <1>1 DEF Ex2Mem
<1>. QED
  BY <1>3, <1>4, <1>5, <1>6

\* Otherwise the instruction in EX2 leaves it, and what is behind moves up or is
\* held back by a bubble, in order.
LEMMA FrontMoves ==
  ASSUME FlowInv, Clock, Running, ~Flush, ~Freeze
  PROVE  FlowInv' /\ FromEx2' = FromEx1
<1>1. IfId /\ IdEx1 /\ Ex1Ex2 /\ Fetch
  BY DEF Clock
<1>2. ex2'.valid = ex1.valid /\ ex2'.i = ex1.i /\ ex2'.pc = ex1.pc
  BY <1>1 DEF Ex1Ex2
<1>3. CASE Stall
  <2>1. if_pc' = if_pc /\ id' = id
    BY <1>1, <1>3 DEF Fetch, IfId
  <2>2. ~ex1'.valid
    BY <1>1, <1>3 DEF IdEx1, ExBubble
  <2>. QED
    BY <1>2, <2>1, <2>2 DEF FlowInv, InOrder, OfProgram, FromEx2, FromEx1, FromId
<1>4. CASE ~Stall
  <2>1. if_pc' = Succ[if_pc]
    BY <1>1, <1>4 DEF Fetch, IfPcNext, Flush
  <2>2. id'.valid /\ id'.i \in Instr /\ id'.pc = if_pc
    BY <1>1, <1>4 DEF IfId
  <2>3. (ex1'.valid <=> id.valid) /\ (id.valid => ex1'.i = id.i /\ ex1'.pc = id.pc)
    BY <1>1, <1>4 DEF IdEx1, ExBubble
  <2>. QED
    BY <1>2, <2>1, <2>2, <2>3 DEF FlowInv, InOrder, OfProgram, FromEx2, FromEx1, FromId
<1>. QED
  BY <1>3, <1>4

\* The running core: a step executes the instruction in EX2, or the next one to
\* execute stays what it is, unless a trap or MRET redirects the fetch.
LEMMA FlowStep ==
  ASSUME TypeOK, FlowInv, Clock, Running
  PROVE  /\ FlowInv'
         /\ \/ Flush /\ ArchPC' = IfPcNext
            \/ ~Flush /\ Freeze /\ ArchPC' = ArchPC
            \/ ~Flush /\ ~Freeze /\ ~ex2.valid /\ ArchPC' = ArchPC
            \/ ~Flush /\ ~Freeze /\ ex2.valid /\ ArchPC' \in Arch!Nexts(ex2.i)
<1>1. CASE Flush
  <2>1. FlowInv' /\ ~mem'.valid /\ FromEx2' = if_pc' /\ if_pc' = IfPcNext
    BY <1>1, FlushEmpties
  <2>2. ArchPC' = FromEx2'
    BY <2>1, ArchPCIs DEF MemBranchTaken
  <2>. QED
    BY <1>1, <2>1, <2>2
<1>2. CASE ~Flush /\ Freeze
  <2>1. UNCHANGED <<if_pc, id, ex1, ex2, mem>>
    BY <1>2, FreezeHolds
  <2>2. FlowInv'
    BY <2>1 DEF FlowInv, InOrder, OfProgram, FromEx1, FromId
  <2>3. ArchPC' = ArchPC
    BY <2>1 DEF ArchPC, MemBranchTaken
  <2>. QED
    BY <1>2, <2>2, <2>3
<1>3. CASE ~Flush /\ ~Freeze
  <2>1. FlowInv' /\ FromEx2' = FromEx1
    BY <1>3, FrontMoves
  <2>2. ArchPC = FromEx2
    BY <1>3, ArchPCIs DEF Flush
  <2>3. CASE ~ex2.valid
    <3>1. ~mem'.valid
      BY <1>3, <2>3 DEF Clock, Ex2Mem, MemBubble
    <3>2. ArchPC' = FromEx2'
      BY <3>1, ArchPCIs DEF MemBranchTaken
    <3>. QED
      BY <1>3, <2>1, <2>2, <2>3, <3>2 DEF FromEx2
  <2>4. CASE ex2.valid
    <3>1. mem'.valid /\ mem'.to \in Redirects(ex2)
      BY <1>3, <2>4 DEF Clock, Ex2Mem
    <3>2. ArchPC' = IF mem'.to # NoPC THEN mem'.to ELSE FromEx1
      BY <2>1, <3>1, ArchPCIs DEF MemBranchTaken
    <3>3. ArchPC = ex2.pc /\ FromEx1 = Succ[ex2.pc]
      BY <2>2, <2>4 DEF FromEx2, FlowInv, InOrder
    <3>4. ArchPC' \in Arch!Nexts(ex2.i)
      <4>1. CASE mem'.to = NoPC
        BY <3>1, <3>2, <3>3, <4>1 DEF Redirects, Arch!Nexts
      <4>2. CASE mem'.to # NoPC
        BY <3>1, <3>2, <4>2 DEF Redirects, Arch!Nexts
      <4>. QED
        BY <4>1, <4>2
    <3>. QED
      BY <1>3, <2>1, <2>4, <3>4
  <2>. QED
    BY <2>3, <2>4
<1>. QED
  BY <1>1, <1>2, <1>3

\* Mem, WB and the flush aside, the places of a core that nobody has started.
LEMMA InitFlow == Init => FlowInv /\ ArchPC = ResetPC
BY DEF Init, FlowInv, InOrder, OfProgram, ArchPC, MemBranchTaken, ExBubble, MemBubble

LEMMA ResetFlow ==
  ASSUME Reset
  PROVE  FlowInv' /\ ArchPC' = ResetPC
BY DEF Reset, FlowInv, InOrder, OfProgram, ArchPC, MemBranchTaken, ExBubble, MemBubble,
       IdBubble

LEMMA FlowStutters ==
  ASSUME FlowInv, UNCHANGED vars
  PROVE  FlowInv' /\ ArchPC' = ArchPC
BY DEF vars, stages, FlowInv, InOrder, OfProgram, FromEx1, FromId, ArchPC, MemBranchTaken

\* Nor does a stopped core lose its place or a register, outside the windows of
\* StopAtRisk.
LEMMA StoppedFlow ==
  ASSUME Clock, ~ctrl_run, ~StopAtRisk
  PROVE  (FlowInv => FlowInv') /\ UNCHANGED Arch!avars
<1>. SUFFICES (FlowInv => FlowInv') /\ ArchPC' = ArchPC
  <2>1. \A r \in GPR : ArchReg(r)' = ArchReg(r)
    BY StoppedHolds, HoldKeepsArchReg DEF GPR
  <2>. QED
    BY <2>1 DEF Arch!avars
<1>1. /\ UNCHANGED <<if_pc, id, ex2, mem>>
      /\ ex1' = ex1 \/ (~ex1.valid /\ ~ex1'.valid)
  BY StoppedHolds
<1>2. CASE ex1' = ex1
  BY <1>1, <1>2 DEF FlowInv, InOrder, OfProgram, FromEx1, FromId, ArchPC, MemBranchTaken
<1>3. CASE ~ex1.valid /\ ~ex1'.valid
  <2>1. FromId' = FromId /\ FromEx1' = FromEx1 /\ FromEx2' = FromEx2
    BY <1>1, <1>3 DEF FromEx2, FromEx1, FromId
  <2>2. FlowInv => FlowInv'
    BY <1>1, <1>3, <2>1 DEF FlowInv, InOrder, OfProgram
  <2>3. ArchPC' = ArchPC
    BY <1>1, <2>1, ArchPCIs DEF MemBranchTaken
  <2>. QED
    BY <2>2, <2>3
<1>. QED
  BY <1>1, <1>2, <1>3

\* A stopped core executes nothing, and what it had in flight is there when it starts
\* again, unless the stop falls into one of the windows where it does not hold
\* everything (rtl/riscv_soc.sv:606, :623, :824).
THEOREM StopsKeepPlace == StopSpec => StopKeepsPlace
<1>1. ~StopAtRisk /\ [Next]_vars => [~ctrl_run => UNCHANGED Arch!avars \/ Reset]_vars
  BY StoppedFlow DEF Next
<1>. QED
  BY <1>1, NotAtRisk, StopSteps, PTL DEF Steps, StopKeepsPlace

(***************************************************************************)
(* The order of execution with traps.  A core that has halted may break    *)
(* the order: the flush of a branch does not look at RUN and HALTED, the   *)
(* fetch does.                                                             *)
(***************************************************************************)
LEMMA FlowHolds == StopSpec => [](~cpu_halted => FlowInv)
<1>1. Init => (~cpu_halted => FlowInv)
  BY InitFlow
<1>2. TypeOK /\ ~StopAtRisk /\ (~cpu_halted => FlowInv) /\ [Next]_vars
        => (~cpu_halted => FlowInv)'
  <2>1. ASSUME TypeOK, ~StopAtRisk, ~cpu_halted => FlowInv, Clock, ~cpu_halted'
        PROVE  FlowInv'
    <3>1. ~cpu_halted
      BY <2>1 DEF Clock, Halt
    <3>2. CASE Running
      BY <2>1, <3>1, <3>2, FlowStep
    <3>3. CASE ~ctrl_run
      BY <2>1, <3>1, <3>3, StoppedFlow
    <3>. QED
      BY <3>1, <3>2, <3>3 DEF Running
  <2>2. ASSUME ~cpu_halted => FlowInv, UNCHANGED vars PROVE (~cpu_halted => FlowInv)'
    BY <2>2, FlowStutters DEF vars
  <2>. QED
    BY <2>1, <2>2, ResetFlow DEF Next
<1>. QED
  BY <1>1, <1>2, TypeHolds, NotAtRisk, StopSteps, PTL DEF Steps

\* Whatever traps, interrupts, returns, branches, stalls, resets and stops meet: a
\* running core executes the instructions of its program one after another, and leaves
\* their order only for a trap, a return or a reset, unless the host stops it in one of
\* the windows where a stop does not hold everything (rtl/riscv_soc.sv:606, :623).
THEOREM TrapsKeepOrderUnlessStopped == StopSpec => TrapFlow
<1>1. ASSUME TypeOK, ~cpu_halted => FlowInv, Next, Running PROVE TrapStep
  <2>1. CASE Clock
    <3>1. CASE Flush /\ ArchPC' = IfPcNext
      <4>1. ArchPC = mem.to \/ ~MemBranchTaken
        BY ArchPCIs
      <4>. QED
        BY <3>1, <4>1 DEF IfPcNext, Flush, TrapStep
    <3>2. CASE ~Flush /\ ~Freeze /\ ex2.valid /\ ArchPC' \in Arch!Nexts(ex2.i)
      BY <1>1, <3>2 DEF FlowInv, OfProgram, TrapStep, Running
    <3>3. CASE ArchPC' = ArchPC
      BY <3>3 DEF TrapStep
    <3>. QED
      BY <1>1, <2>1, <3>1, <3>2, <3>3, FlowStep DEF Running
  <2>2. CASE Reset
    BY <2>2, ResetFlow DEF Reset, TrapStep
  <2>. QED
    BY <1>1, <2>1, <2>2 DEF Next
<1>2. TypeOK /\ (~cpu_halted => FlowInv) /\ [Next]_vars => [TrapStep]_vars
  BY <1>1 DEF TrapStep
<1>. QED
  BY <1>2, FlowHolds, TypeHolds, StopSteps, PTL DEF Steps, TrapFlow

\* In particular a core that the host leaves to run.
THEOREM TrapsKeepOrder ==
  ASSUME ~CanPause
  PROVE  Spec => TrapFlow
BY TrapsKeepOrderUnlessStopped, NeverStopped, PTL DEF Spec

(***************************************************************************)
(* Programs nothing traps: no ECALL, MRET or EBREAK, and no interrupt, or  *)
(* none that the program enables.                                          *)
(***************************************************************************)
NoTraps ==
  /\ \A i \in Instr : i.kind \notin {"ecall", "mret", "ebreak"}
  /\ CanInterrupt => \A i \in Instr : i.kind # "csrsi"

Masked ==
  IF CanInterrupt THEN csr_mstatus.mie = FALSE /\ mem.mstatus.mie = FALSE ELSE timer = FALSE
Calm ==
  /\ cpu_halted = FALSE /\ interrupt_taken = FALSE /\ Masked
  /\ Is(mem, "ebreak") = FALSE /\ Is(wb, "ebreak") = FALSE

LEMMA CalmFlush ==
  ASSUME NoTraps, FlowInv, Calm
  PROVE  /\ ~EcallTrap /\ ~MretInId /\ ~TakeInterrupt
         /\ Flush <=> MemBranchTaken
<1>1. ~EcallTrap /\ ~MretInId
  BY DEF EcallTrap, MretInId, Is, NoTraps, FlowInv, OfProgram
<1>2. ~TakeInterrupt
  BY DEF TakeInterrupt, TimerInterrupt, Calm, Masked
<1>. QED
  BY <1>1, <1>2 DEF Flush, Calm

LEMMA CalmStep ==
  ASSUME NoTraps, TypeOK, FlowInv, Calm, Clock
  PROVE  Calm'
<1>1. cpu_halted' = FALSE
  BY DEF Clock, Halt, Calm
<1>2. interrupt_taken' = FALSE
  BY CalmFlush DEF Clock, Traps, Calm, TakeInterrupt
<1>3. mem' = MemBubble \/ mem' = mem
      \/ /\ mem'.i = ex2.i /\ ex2.valid
         /\ mem'.mstatus = IF MstatusAccess(ex2) THEN MstatusInEx2 ELSE NoMstatus
  BY DEF Clock, Ex2Mem
<1>4. ~Is(mem', "ebreak")
  BY <1>3 DEF Calm, Is, MemBubble, NoTraps, FlowInv, OfProgram
<1>5. ~Is(wb', "ebreak")
  BY DEF Clock, MemWb, Calm, Is
<1>6. Masked'
  <2>1. CASE ~CanInterrupt
    BY <2>1 DEF Clock, Timer, Calm, Masked
  <2>2. CASE CanInterrupt
    <3>1. mem'.mstatus.mie = FALSE
      <4>1. ex2.valid => ex2.i.kind # "csrsi"
        BY <2>2 DEF NoTraps, FlowInv, OfProgram
      <4>2. ex2.valid => MstatusInEx2.mie = FALSE
        BY <4>1 DEF MstatusInEx2
      <4>. QED
        BY <1>3, <2>2, <4>2 DEF Calm, Masked, MemBubble, NoMstatus
    <3>2. csr_mstatus' = mem.mstatus \/ csr_mstatus' = csr_mstatus
      BY CalmFlush DEF Clock, Traps
    <3>. QED
      BY <2>2, <3>1, <3>2 DEF Calm, Masked
  <2>. QED
    BY <2>1, <2>2
<1>. QED
  BY <1>1, <1>2, <1>4, <1>5, <1>6 DEF Calm, Is

LEMMA CalmHolds ==
  ASSUME NoTraps
  PROVE  StopSpec => [](FlowInv /\ Calm)
<1>1. Init => FlowInv /\ Calm
  BY InitFlow DEF Init, Calm, Masked, Is, MemBubble, WbBubble, NoMstatus
<1>2. TypeOK /\ ~StopAtRisk /\ (FlowInv /\ Calm) /\ [Next]_vars => (FlowInv /\ Calm)'
  <2>1. ASSUME TypeOK, ~StopAtRisk, FlowInv, Calm, Clock PROVE (FlowInv /\ Calm)'
    <3>1. CASE Running
      BY <2>1, <3>1, CalmStep, FlowStep
    <3>2. CASE ~ctrl_run
      BY <2>1, <3>2, CalmStep, StoppedFlow
    <3>. QED
      BY <2>1, <3>1, <3>2 DEF Running, Calm
  <2>2. ASSUME Calm, Reset PROVE Calm'
    BY <2>2 DEF Reset, Calm, Masked, Is, MemBubble, WbBubble, NoMstatus
  <2>3. ASSUME Calm, UNCHANGED vars PROVE Calm'
    BY <2>3 DEF vars, stages, Calm, Masked, Is
  <2>. QED
    BY <2>1, <2>2, <2>3, ResetFlow, FlowStutters DEF Next
<1>. QED
  BY <1>1, <1>2, TypeHolds, NotAtRisk, StopSteps, PTL DEF Steps

\* In such a program a step of a running core executes the instruction in EX2 or leaves the
\* next one to execute what it is: a flush comes from a branch or jump that has
\* executed already.
LEMMA CalmFlow ==
  ASSUME NoTraps, TypeOK, FlowInv, Calm, Clock, Running
  PROVE  \/ Flush /\ ArchPC' = ArchPC
         \/ ~Flush /\ Freeze /\ ArchPC' = ArchPC
         \/ ~Flush /\ ~Freeze /\ ~ex2.valid /\ ArchPC' = ArchPC
         \/ /\ ~Flush /\ ~Freeze /\ ex2.valid
            /\ ex2.i \in Instr /\ ArchPC' \in Arch!Nexts(ex2.i)
<1>2. Flush => IfPcNext = ArchPC
  BY CalmFlush, ArchPCIs DEF IfPcNext, Calm
<1>3. ex2.valid => ex2.i \in Instr
  BY DEF FlowInv, OfProgram
<1>. QED
  BY <1>2, <1>3, FlowStep

\* Instructions enter MEM exactly once each and in program order, and nothing that was
\* fetched down a wrong path is among them: for every latency of the divider, every
\* moment of a reset or a stop and every pattern of stalls, unless the stop falls into
\* one of the windows where it does not hold everything (rtl/riscv_soc.sv:606, :623).
THEOREM CoreKeepsOrderUnlessStopped ==
  ASSUME NoTraps
  PROVE  StopSpec => ImplementsFlow
<1>1. Init => ArchPC = ResetPC
  BY InitFlow
<1>2. ASSUME TypeOK, ~StopAtRisk, FlowInv, Calm, Next
      PROVE  Arch!FlowNext \/ ArchPC' = ArchPC
  <2>1. CASE Clock /\ Running
    BY <1>2, <2>1, CalmFlow DEF Arch!FlowNext
  <2>2. CASE Clock /\ ~ctrl_run
    BY <1>2, <2>2, StoppedFlow DEF Arch!avars
  <2>3. CASE Reset
    BY <2>3, ResetFlow DEF Reset, Arch!FlowNext
  <2>. QED
    BY <1>2, <2>1, <2>2, <2>3 DEF Next, Running, Calm
<1>3. TypeOK /\ ~StopAtRisk /\ (FlowInv /\ Calm) /\ [Next]_vars => [Arch!FlowNext]_ArchPC
  BY <1>2, FlowStutters
<1>. QED
  BY <1>1, <1>3, CalmHolds, TypeHolds, NotAtRisk, StopSteps, PTL
  DEF Steps, ImplementsFlow, Arch!FlowSpec

\* In particular if the host leaves the core to run.
THEOREM CoreKeepsOrder ==
  ASSUME ~CanPause, NoTraps
  PROVE  Spec => ImplementsFlow
BY CoreKeepsOrderUnlessStopped, NeverStopped, PTL DEF Spec

(***************************************************************************)
(* What is computed: the word of a load has arrived when its wait is over, *)
(* no Junk passes EX2, and only a branch or jump redirects the fetch.      *)
(***************************************************************************)
WordArrives ==
  /\ mem_load_wait # 0 => Is(mem, "load")
  /\ Is(mem, "load") => /\ mem_load_wait <= 2 => dmem_q.addr = mem.res
                        /\ mem_load_wait <= 1 => dmem_q.data = mem.res

NoJunk ==
  /\ mem.res \in Value /\ wb.res \in Value
  /\ \A r \in GPR : regs[r] \in Value

BranchesRedirect == mem.to # NoPC => mem.i.kind \in {"branch", "jump"}

WordInv == WordArrives /\ NoJunk /\ BranchesRedirect

\* The ways the registers from MEM on move in a running core.
LEMMA BackMoves ==
  ASSUME BranchesRedirect, Calm, NoTraps, FlowInv, Clock, Running
  PROVE  \/ Flush /\ ~Is(mem, "load") /\ mem' = MemBubble
         \/ ~Flush /\ HazardLoadData /\ mem' = mem /\ wb' = wb
         \/ ~Flush /\ ~HazardLoadData /\ Freeze /\ mem' = mem
         \/ ~Flush /\ ~Freeze /\ ~ex2.valid /\ mem' = MemBubble
         \/ /\ ~Flush /\ ~Freeze /\ ex2.valid
            /\ mem'.valid /\ mem'.i = ex2.i /\ mem'.to \in Redirects(ex2)
            /\ mem'.res \in Results(ex2)
<1>1. HazardLoadData => Freeze
  BY DEF Freeze
<1>2. Ex2Mem /\ MemWb
  BY DEF Clock
<1>3. CASE Flush
  <2>1. ~Is(mem, "load")
    BY <1>3, CalmFlush DEF MemBranchTaken, BranchesRedirect, Is
  <2>. QED
    BY <1>2, <1>3, <2>1 DEF Ex2Mem
<1>4. CASE ~Flush /\ HazardLoadData
  BY <1>1, <1>2, <1>4 DEF Ex2Mem, MemWb
<1>5. CASE ~Flush /\ ~HazardLoadData /\ Freeze
  BY <1>2, <1>5 DEF Ex2Mem
<1>6. CASE ~Flush /\ ~Freeze /\ ~ex2.valid
  BY <1>1, <1>2, <1>6 DEF Ex2Mem
<1>7. CASE ~Flush /\ ~Freeze /\ ex2.valid
  BY <1>1, <1>2, <1>7 DEF Ex2Mem
<1>. QED
  BY <1>3, <1>4, <1>5, <1>6, <1>7

\* A load does not meet the stall of a multiplication or division while it is in EX2.
LEMMA StallIsNotALoads ==
  ASSUME UnitInv, Freeze, ~HazardLoadData
  PROVE  ~Is(ex2, "load")
<1>1. PICK u \in Units : UnitStall(u)
  BY DEF Freeze
<1>2. ex2.valid => ex2.i.kind = u
  BY <1>1 DEF UnitStall, UnitStart, UnitInv, UnitOwned, AtWork, Is
<1>3. u # "load"
  BY DEF Units
<1>. QED
  BY <1>2, <1>3 DEF Is

LEMMA WordArrivesStep ==
  ASSUME TypeOK, UnitInv, WordInv, FlowInv, Calm, NoTraps, Clock, Running
  PROVE  WordArrives'
<1>1. mem_load_wait \in 0..3
  BY DEF TypeOK
<1>2. LoadWait /\ Dmem
  BY DEF Clock
<1>3. CASE mem' = MemBubble
  <2>1. ~Is(mem, "load") \/ ~HazardLoadData
    BY <1>3, BackMoves DEF MemBubble, WordInv, HazardLoadData, Freeze, Is
  <2>2. mem_load_wait = 0
    BY <2>1 DEF WordInv, WordArrives, HazardLoadData
  <2>3. Flush \/ ~Is(ex2, "load")
    BY <1>3, <2>1, BackMoves, StallIsNotALoads DEF MemBubble, WordInv, HazardLoadData, Is
  <2>4. mem_load_wait' = 0
    BY <1>1, <1>2, <2>2, <2>3 DEF LoadWait, Is
  <2>. QED
    BY <1>3, <2>4 DEF WordArrives, MemBubble, Is
<1>4. CASE ~Flush /\ HazardLoadData /\ mem' = mem
  <2>1. mem_load_wait' = mem_load_wait - 1 /\ dmem_q'.addr = mem.res /\ dmem_q'.data = dmem_q.addr
    BY <1>1, <1>2, <1>4 DEF LoadWait, Dmem, HazardLoadData
  <2>. QED
    BY <1>1, <1>4, <2>1 DEF WordInv, WordArrives, HazardLoadData, Is
<1>6. CASE ~Flush /\ ~HazardLoadData /\ Freeze /\ mem' = mem
  <2>1. mem_load_wait = 0
    BY <1>6 DEF WordInv, WordArrives, HazardLoadData
  <2>2. mem_load_wait' = 0
    BY <1>1, <1>2, <1>6, <2>1, StallIsNotALoads DEF LoadWait
  <2>3. Is(mem, "load") => dmem_q'.addr = mem.res /\ dmem_q'.data = dmem_q.addr
    BY <1>2 DEF Dmem
  <2>. QED
    BY <1>6, <2>1, <2>2, <2>3 DEF WordInv, WordArrives, Is
<1>5. CASE ~Flush /\ ~HazardLoadData /\ ex2.valid /\ mem'.valid /\ mem'.i = ex2.i
  <2>1. mem_load_wait = 0
    BY <1>5 DEF WordInv, WordArrives, HazardLoadData
  <2>2. mem_load_wait' = IF Is(ex2, "load") THEN 3 ELSE 0
    BY <1>1, <1>2, <1>5, <2>1 DEF LoadWait
  <2>. QED
    BY <1>5, <2>2 DEF WordArrives, Is
<1>. QED
  BY <1>3, <1>4, <1>5, <1>6, BackMoves DEF WordInv, Freeze

\* What leaves EX2 is a register content.
LEMMA ResultsAreValues ==
  ASSUME TypeOK
  PROVE  Results(ex2) \subseteq Value
<1>1. Exec(ex2.i, ex2.pc, ex2.a, ex2.b) \in Value
  BY ExecAssumption DEF TypeOK, ExType, Word
<1>2. ex2.i.kind \in Units => unit[ex2.i.kind].result \in Value
  BY DEF TypeOK, UnitType
<1>. QED
  BY <1>1, <1>2 DEF Results, Ex2Result, Late

LEMMA WordStep ==
  ASSUME TypeOK, UnitInv, WordInv, FlowInv, Calm, NoTraps, Clock, Running
  PROVE  WordInv'
<1>1. WordArrives'
  BY WordArrivesStep
<1>2. BranchesRedirect'
  BY BackMoves DEF WordInv, BranchesRedirect, MemBubble, Redirects
<1>3. mem'.res \in Value
  BY BackMoves, ResultsAreValues, DataAssumption DEF WordInv, NoJunk, MemBubble
<1>4. wb'.res \in Value
  <2>1. CASE HazardLoadData
    BY <2>1 DEF Clock, MemWb, WordInv, NoJunk
  <2>2. CASE ~HazardLoadData
    <3>1. Is(mem, "load") => dmem_q.data = mem.res
      BY <2>2 DEF HazardLoadData, WordInv, WordArrives
    <3>. QED
      BY <2>2, <3>1 DEF Clock, MemWb, WordInv, NoJunk
  <2>. QED
    BY <2>1, <2>2
<1>5. \A r \in GPR : regs'[r] \in Value
  BY RegsNext DEF WordInv, NoJunk
<1>. QED
  BY <1>1, <1>2, <1>3, <1>4, <1>5 DEF WordInv, NoJunk

\* Nothing a load waits for is lost while the host has stopped the core.
LEMMA WordStopped ==
  ASSUME TypeOK, WordInv, Clock, ~ctrl_run, ~StopAtRisk
  PROVE  WordInv'
<1>1. mem' = mem /\ wb' = wb /\ mem_load_wait' = mem_load_wait
  BY StoppedHolds
<1>2. /\ mem_load_wait \in 0..3
      /\ Is(mem, "load") => dmem_q'.addr = mem.res /\ dmem_q'.data = dmem_q.addr
  BY DEF TypeOK, Clock, Dmem
<1>3. WordArrives'
  BY <1>1, <1>2 DEF WordInv, WordArrives, Is
<1>4. \A r \in GPR : regs'[r] \in Value
  BY RegsNext DEF WordInv, NoJunk
<1>. QED
  BY <1>1, <1>3, <1>4 DEF WordInv, NoJunk, BranchesRedirect

LEMMA WordInvHolds ==
  ASSUME NoTraps
  PROVE  StopSpec => []WordInv
<1>1. Init => WordInv
  BY DataAssumption DEF Init, WordInv, WordArrives, NoJunk, BranchesRedirect, MemBubble,
                        WbBubble, Is
<1>2. TypeOK /\ UnitInv /\ ~StopAtRisk /\ (FlowInv /\ Calm) /\ WordInv /\ [Next]_vars
        => WordInv'
  <2>1. ASSUME WordInv, Reset PROVE WordInv'
    BY <2>1, DataAssumption DEF Reset, WordInv, WordArrives, NoJunk, BranchesRedirect,
                                MemBubble, WbBubble, Is
  <2>2. ASSUME WordInv, UNCHANGED vars PROVE WordInv'
    BY <2>2 DEF vars, stages, WordInv, WordArrives, NoJunk, BranchesRedirect, Is
  <2>. QED
    BY <2>1, <2>2, WordStep, WordStopped DEF Next, Running, Calm
<1>. QED
  BY <1>1, <1>2, CalmHolds, UnitInvHolds, TypeHolds, NotAtRisk, StopSteps, PTL DEF Steps

\* While nothing waits in MEM, the writes of MEM and WB settle one stage further down,
\* and only the instruction that enters MEM changes what program order sees.
LEMMA ArchRegMoves ==
  ASSUME WordInv, Clock, Running, ~HazardLoadData, NEW r \in GPR
  PROVE  ArchReg(r)' = IF Writes(mem', r) THEN mem'.res ELSE ArchReg(r)
<1>1. r # X0
  BY DEF GPR
<1>2. Is(mem, "load") => dmem_q.data = mem.res
  BY DEF HazardLoadData, WordInv, WordArrives
<1>3. wb'.valid = mem.valid /\ wb'.i = mem.i /\ wb'.res = mem.res
  BY <1>1, <1>2 DEF Clock, MemWb
<1>4. regs'[r] = IF Writes(wb, r) THEN wb.res ELSE regs[r]
  BY <1>1, RegsNext
<1>. QED
  BY <1>1, <1>3, <1>4 DEF ArchReg, Writes

\* An instruction that enters MEM carries the result program order gives it.
LEMMA ResultIsArchs ==
  ASSUME TypeOK, OperandInv, UnitResultFresh, Running, ~Freeze, ~Flush, ex2.valid
  PROVE  Results(ex2) \subseteq Arch!Results(ex2.i)
<1>1. ex2.a = ArchReg(ex2.i.rs1) /\ ex2.b = ArchReg(ex2.i.rs2) /\ ~MemBranchTaken
  BY DEF OperandInv, OperandsCurrent, Flush
<1>2. ex2.i.rs1 \in Reg /\ ex2.i.rs2 \in Reg
  BY DEF TypeOK, ExType, Instruction
<1>3. \A r \in Reg : Arch!Operand(r) = ArchReg(r)
  BY DEF Arch!Operand, ArchReg, GPR
<1>4. ArchPC = ex2.pc
  BY <1>1 DEF ArchPC
<1>5. ex2.i.kind \in Units => unit[ex2.i.kind].result = Exec(ex2.i, ex2.pc, ex2.a, ex2.b)
  BY DEF UnitResultFresh
<1>. QED
  BY <1>1, <1>2, <1>3, <1>4, <1>5 DEF Results, Arch!Results, Ex2Result, Late

\* Every clock edge of a running core executes one instruction of the instruction set
\* or none.
LEMMA IsaStep ==
  ASSUME TypeOK, OperandInv, UnitResultFresh, WordInv, FlowInv, Calm, NoTraps, Clock,
         Running
  PROVE  Arch!Next \/ UNCHANGED Arch!avars
<1>. DEFINE Same == \A r \in GPR : ArchReg(r)' = ArchReg(r)
<1>1. HazardLoadData => Freeze
  BY DEF Freeze
<1>2. ASSUME Same, ArchPC' = ArchPC PROVE UNCHANGED Arch!avars
  BY <1>2 DEF Arch!avars
<1>3. CASE HazardLoadData
  <2>1. ~Flush /\ mem' = mem /\ wb' = wb
    BY <1>1, <1>3, BackMoves DEF WordInv, HazardLoadData
  <2>2. Same
    BY <2>1, HoldKeepsArchReg DEF GPR
  <2>3. ArchPC' = ArchPC
    BY <1>1, <1>3, <2>1, CalmFlow
  <2>. QED
    BY <1>2, <2>2, <2>3
<1>4. CASE ~HazardLoadData /\ ~mem'.valid
  <2>1. Same
    BY <1>4, ArchRegMoves DEF Writes
  <2>2. Flush \/ Freeze \/ ~ex2.valid
    BY <1>4, BackMoves DEF WordInv
  <2>3. ArchPC' = ArchPC
    BY <2>2, CalmFlow
  <2>. QED
    BY <1>2, <2>1, <2>3
<1>5. CASE ~HazardLoadData /\ Freeze /\ ~Flush
  <2>1. mem' = mem
    BY <1>5, BackMoves DEF WordInv
  <2>2. Same
    BY <1>5, <2>1, ArchRegMoves DEF ArchReg, GPR
  <2>3. ArchPC' = ArchPC
    BY <1>5, CalmFlow
  <2>. QED
    BY <1>2, <2>2, <2>3
<1>6. CASE ~Freeze /\ mem'.valid
  <2>1. /\ ~HazardLoadData /\ ~Flush /\ ex2.valid /\ mem'.i = ex2.i
        /\ mem'.res \in Results(ex2)
    BY <1>1, <1>6, BackMoves DEF WordInv, MemBubble
  <2>2. ex2.i \in Instr /\ ArchPC' \in Arch!Nexts(ex2.i)
    BY <1>6, <2>1, CalmFlow
  <2>3. mem'.res \in Arch!Results(ex2.i)
    BY <1>1, <1>6, <2>1, ResultIsArchs
  <2>4. \A r \in GPR : ArchReg(r)' = IF r = ex2.i.rd THEN mem'.res ELSE ArchReg(r)
    BY <1>6, <2>1, ArchRegMoves DEF Writes, GPR
  <2>. QED
    BY <2>2, <2>3, <2>4 DEF Arch!Next, Arch!Execute, GPR
<1>7. mem'.valid => ~Flush
  BY BackMoves DEF WordInv, MemBubble
<1>. QED
  BY <1>3, <1>4, <1>5, <1>6, <1>7

LEMMA IsaInit == Init => Arch!Init
<1>1. Init => \A r \in GPR : ArchReg(r) \in Value
  BY DEF Init, ArchReg, Writes, MemBubble, WbBubble, GPR
<1>. QED
  BY <1>1, InitFlow DEF Arch!Init, GPR

LEMMA IsaReset ==
  ASSUME WordInv, Reset
  PROVE  Arch!Next
<1>1. \A r \in GPR : ArchReg(r)' \in Value
  BY DEF Reset, WordInv, NoJunk, ArchReg, Writes, MemBubble, WbBubble, GPR
<1>. QED
  BY <1>1, ResetFlow DEF Reset, Arch!Next, Arch!Reset, GPR

\* The six-stage core implements the instruction set: a program without traps cannot
\* tell its bypasses, stalls, load waits, flushes, multiplier and divider from a machine
\* that executes one instruction after another, whenever the host resets, stops and
\* starts the core, unless it comes to the one hole in the bypass network
\* (rtl/riscv_soc.sv:1202) or the stop to one of its windows (:606, :623, :824).
THEOREM CoreImplementsISAUnlessAtRisk ==
  ASSUME NoTraps
  PROVE  SafeSpec => ImplementsISA
<1>1. ASSUME UNCHANGED vars PROVE UNCHANGED Arch!avars
  BY <1>1 DEF vars, stages, Arch!avars, ArchPC, MemBranchTaken, ArchReg, Writes
<1>2. ASSUME TypeOK, OperandInv, UnitResultFresh, WordInv, FlowInv, Calm, ~StopAtRisk,
             Next
      PROVE  Arch!Next \/ UNCHANGED Arch!avars
  BY <1>2, IsaReset, IsaStep, StoppedFlow DEF Next, Running, Calm
<1>3. TypeOK /\ OperandInv /\ UnitResultFresh /\ WordInv /\ (FlowInv /\ Calm)
        /\ ~StopAtRisk /\ [Next]_vars => [Arch!Next]_(Arch!avars)
  BY <1>1, <1>2
<1>4. SafeSpec => Steps /\ OperandSpec /\ StopSpec
  BY PTL DEF SafeSpec, OperandSpec, StopSpec, Steps
<1>. QED
  BY <1>3, <1>4, IsaInit, CalmHolds, WordInvHolds, OperandInvHolds, ResultFreshHolds,
     TypeHolds, NotAtRisk, PTL
  DEF Steps, ImplementsISA, Arch!Spec

\* A program without multiplications and divisions that the host leaves to run comes to
\* neither.
THEOREM CoreImplementsISA ==
  ASSUME ~CanPause, NoTraps, NoUnits
  PROVE  Spec => ImplementsISA
<1>1. Steps => SafeSpec
  BY NeverAtRisk, NeverStopped, PTL DEF OperandSpec, StopSpec, SafeSpec
<1>. QED
  BY <1>1, CoreImplementsISAUnlessAtRisk, PTL DEF Spec
=============================================================================
