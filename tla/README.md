# Verification of the RISC-V SoC

TLA+ models of the RISC-V system on a PCIe FPGA board in this repository: the
six-stage core (`rtl/riscv_soc.sv`) with its multiplier and divider
(`rtl/multiplier.sv`, `rtl/divider.sv`), the bridge through which the host reaches
its memories (`rtl/axi_core_hw.sv`, `rtl/bus64to32.sv`, `rtl/dmem.sv`) and the
sniffer in it (`rtl/bus_sniffer.sv`), the CPU's log (`rtl/cpu_logger.sv` and the
library that reads it), the console the CPU and the host share (`sw/lib/uart.h`,
`host/src/uart_console.c`, `host/src/pcie_vfio.c`), and the repository's own test
programs with the drivers that judge them (`tb/*.cpp`, `host/src/riscv_host.c`).
TLC checks each model on a small instance; TLAPS proves the most important facts
for every value of the constants.

## The system

| Part | State | Operations | Talks to |
|---|---|---|---|
| Core pipeline (`riscv_soc.sv`, `regfile.sv`) | `if_pc`, the registers in front of ID, EX1, EX2, MEM, WB, the register file, `mem_load_wait`, the multiplier and divider running bits | one clock edge: fetch, decode and register read, bypass, ALU, memory, write back, each with its hold, bubble and flush | data memory port, multiplier, divider, CSRs |
| Multiplier, divider (`multiplier.sv`, `divider.sv`) | state machine, counter, done, result | start, iterate, finish | EX2; only `rst_n` resets them |
| Traps and CSRs (`riscv_soc.sv` 360-600, 1220-1310) | `mstatus`, `mepc`, `mcause`, `mtvec`, `mie`, `mip`, counters, `interrupt_taken`, WFI bits | timer interrupt, ECALL, MRET, CSR writes, WFI | fetch, flush |
| Data memory (`dmem.sv`), LR/SC reservation | 8192 words, registered address and data of the CPU port, `host_rdata` | CPU read (two edges), CPU write with byte lanes, host read and write, which has priority | MEM stage, bridge |
| AXI bridge (`axi_core_hw.sv`, `bus64to32.sv`) | read and write channel state machines, adapter state machine, captured address and data | a 64-bit access as two 32-bit accesses | PCIe interconnect, SoC |
| Host control registers (`riscv_soc.sv` 86-120, 260-296) | RUN, RESET, halted, performance counters | run, stop, reset, status reads | pipeline |
| Bus sniffer (`bus_sniffer.sv`) | circular log, a read that waits for its word, an entry that waits to be written | log, clear, read | bridge |
| CPU logger (`cpu_logger.sv`, `riscv_soc.sv` 1380-1466) | circular log, count, an entry that waits to be written, enable and clear bits | log, clear, read | MEM stage, bridge |
| Test drivers (`tb/*.cpp`, `riscv_host.c`) | the place in the test | load, reset, run, wait some cycles, stop, compare | bridge or the SoC's bus |
| Timer, PLIC stub | `mtime`, `mtimecmp` | count, compare | traps |
| Console rings (`uart.h`, `uart_console.c`) | two rings of 16 words with head and tail in data memory, indices loaded into local variables | putchar, getchar, getchar_nb, kbhit; the host's display and key loop; clearing and starting | data memory, bridge |
| Host library and tools | none beyond local variables | 32-bit accesses as 64-bit read-modify-write, load, run, stop, reset | bridge |

The hard behaviours are: stalls that hold some stages and let others move, so
that an operand's producer and its reader change their distance; bypasses that
must agree with them; flushes that come from three different stages; long
operations that survive a flush or a reset; a bridge whose two channels share
one adapter and one done signal; two processors on one memory with no atomic
operation between them, one of which can only write 64 bits at a time; logs that
build an entry at one edge and write it at another; test drivers that wait for a
time instead of an event, and tests that run one after another on the same memory.
`PROJECT.json` lists them line by line as hazards, with the properties about
each one.

What makes each part correct:

- pipeline: every instruction executes once, in program order, with the operands
  its predecessors left (`ImplementsISA`, `ImplementsFlow`, `OperandsCurrent`);
  stalls end (`Progress`), and every cycle of one brings its end nearer
  (`StallsShrink`); a trap cuts the program at one place (`TrapsPrecise`,
  `TrapFlow`); stopping loses nothing (`StopKeepsPlace`);
- multiplier and divider: started when idle, result of the right operation
  (`UnitStartsIdle`, `UnitResultFresh`), right for all operands (`ReadyIsRight`,
  `RemainderFits`), in the edges it needs (`StallShrinks`);
- bridge: each access happens once, in order, with its own address and data, and
  is answered (`ImplementsPort`, `Answered`), within eleven edges of a prompt
  master (`AnswerNears`);
- reservation: an SC.W reports what its store did, and stores only if nothing else
  was stored there since the LR.W (`ScReports`, `ReservationStands`);
- WFI: an interrupt that stays pending ends the wait (`WfiWakes`);
- logs: they hold the accesses since a clear, newest first, and show them as such
  (`SniffsAll`, `RingHoldsHistory`, `LoadIsLogged`, `DumpIsNewest`);
- tests: their verdict depends neither on the core's pace nor on what was there
  before, and they execute only what they loaded (`Verdict`, `NoStray`, `TestEnds`);
- console: no key is skipped, nobody waits for what is there (`NothingSkipped`,
  `RoomIsMade`, `GetcharReturns`); no output is lost (`WriteKeepsNeighbour`,
  which the code breaks).

## Modules

    ISA        sequential machine        <== Pipeline    (refinement, two forms, proved)
    HostPort   64-bit access promise     <== AxiBridge   (refinement, proved)
    Sniffer    the bridge with the sniffer in its path (extends AxiBridge)
    Console    CPU and host over the memory HostPort describes
    Machine    the sequential machine on 32-bit words, with a test driver beside it
               (Word32: arithmetic; Program: instructions and scripts;
               AxiTests ... PipelineTests: the tests)
    LrSc       the MEM stage with the reservation
    CpuLog     the MEM stage with the logger and the host that reads it

| Module | Models | Checked by |
|---|---|---|
| `ISA.tla` | what a program may assume: instructions one at a time, in order; `FlowSpec` is its control half | abstract specification |
| `Pipeline.tla` | the core, one clock edge per step | `MCPipeline.tla`: `isa`, `units`, `traps`, `stale_operand`, `traps_precise`, `wfi_wakes` |
| `Pipeline_proofs.tla` | `TypeCorrect`, `OperandsCurrentUnlessAtRisk`, `OperandsAlwaysCurrent`, `UnitsStartIdle`, `UnitResultsFreshUnlessStopped`, `UnitResultsFresh`, `StallsAlwaysShrink` | TLAPS |
| `PipelineISA_proofs.tla` | `StopsKeepPlace`, `TrapsKeepOrderUnlessStopped`, `TrapsKeepOrder`, `CoreKeepsOrderUnlessStopped`, `CoreKeepsOrder`, `CoreImplementsISAUnlessAtRisk`, `CoreImplementsISA` | TLAPS |
| `LrSc.tla` | LR.W and SC.W in MEM, the reservation, what WB gets, host writes | `sc_held` |
| `LrSc_proofs.tla` | `ReservationsStand`, `UnheldReports` | TLAPS |
| `MulDiv.tla` | multiplier, divider and their control logic in EX2, with the arithmetic | `MCMulDiv.tla`: `muldiv` |
| `MulDiv_proofs.tla` | `TypesRight`, `AnswersAreRightUnlessStopped`, `AnswersAreRight`, `NoBitIsLost`, `StallsAlwaysShrink` | TLAPS |
| `HostPort.tla` | what the host may assume of its BAR | abstract specification |
| `AxiBridge.tla` | AXI-Lite channels, adapter, memory ports, one clock edge per step | `bridge` |
| `Sniffer.tla` | the sniffer beside them, edge by edge | `MCAxiBridge.tla`: `bridge` |
| `AxiBridge_proofs.tla` | `BridgeConsistent`, `BridgeImplementsPort`, `AccessesNearTheirAnswer` | TLAPS |
| `Sniffer_proofs.tla` | `EverythingLogged` | TLAPS |
| `Console.tla` | the two rings, every volatile access and every half of a host access a step | `console` |
| `Console_proofs.tla` | `ConsoleTypes`, `NoKeySkipped` | TLAPS |
| `CpuLog.tla` | the CPU logger, its window, `cpulog_clear` and `cpulog_dump` | `MCCpuLog.tla`: `tools` |
| `CpuLog_proofs.tla` | `TypeCorrect`, `RingIsHistory`, `DumpPrintsHistory`, `LoadsAreLogged` | TLAPS |
| `Word32.tla`, `Program.tla`, `Machine.tla` | RV32IM and LR/SC on 32-bit words; a program's memory, registers, driver | `programs` |
| `AxiTests.tla`, `HostTests.tla`, `Rv32imTests.tla`, `AtomicTests.tla`, `PipelineTests.tla` | the tests of `tb_axi_core.cpp`, of `riscv_host.c` and `tb_host_sim.cpp`, of the RV32IM and atomic benches, of `tb_pipeline.cpp` and `tb_riscv_soc.cpp` | `MCPrograms.tla`: `programs` |

### Pipeline

`Clock` is the conjunction of the `always_ff` blocks, one operator per block
(`Fetch`, `IfId`, `IdEx1`, `Ex1Ex2`, `Ex2Mem`, `MemWb`, `RegFile`, `Dmem`,
`LoadWait`, `UnitsNext`, `Traps`, `HostRun`, `Halt`); wires are operators with
the RTL's names. `Reset` is the edge a host write of CTRL.RESET causes; it leaves
the multiplier and divider running, as the RTL does.

The program is open: `IfId` fetches any instruction of `Instr`, so one run covers
every program over the alphabet. An instruction is its kind and its register
numbers; its result is `Exec(i, pc, a, b)`, an uninterpreted function. Load data
and the SC.W flag are settled when the instruction enters MEM (`Results`) and
travel through `dmem_q` with the two-edge delay of `dmem.sv`, so that a wait one
cycle short captures another address's word. `Junk` is what the ALU output holds
for an instruction whose result comes from elsewhere: the address of a load, the
target of a jump. It never equals a value, so a bypass that delivers it is seen.
The divider's 32 iterations are `DivCycles`, with the shortcut of the special
cases as latency 0. `timer` is `mtime >= mtimecmp`: it comes on at any edge while the
core runs and may go off when the program stores; `csr_mip` follows one edge later,
and `mie.MTIE` is taken to be set. `Wfi` is the block at `riscv_soc.sv:544`, whose
stall begins one edge after the WFI was seen in ID and does not look at RUN.

`ArchPC` and `ArchReg` are the refinement mapping: the oldest instruction that
has not entered MEM, and the register file with the writes of MEM and WB applied.
Executing an instruction of `ISA` is its entering MEM.

Without traps, the core keeps its promises except in two situations. The model names
both as predicates on one state, so that the runs and theorems can say what holds
everywhere else:

- `OperandAtRisk`: a multiplication or division stalls EX1 while WB moves on with the
  only copy of an operand of the instruction there (`riscv_soc.sv:1202`).
- `StopAtRisk`: the host has cleared RUN, and something moves all the same. There
  are three such windows: a flush, which does not look at RUN (`:606`) while the fetch
  does; a load-use or WFI stall, which puts a bubble into EX1 although EX2 does not
  take what was there (`:623`); and a multiplication or division in EX2 whose unit is
  not at work, which sets the running bit without starting (`:824`, `:830`). A stop
  during a division that lasts until after its done pulse is of the third kind: the
  pulse clears the bit, and the operation still in EX2 sets it again.

`OperandSpec`, `StopSpec` and `SafeSpec` are the behaviours of the core that never
come to the one, to the other, or to either. A behaviour that would come to
one is left out from that step on; everything else the host stops and resets, and the
program does, is in them. `OperandSpec` and `StopSpec` are properties of what the host
and the program do, not something the core ensures: `stale_operand` and the
disagreements below show what happens outside. Leaving RUN set
is one way to keep to `StopSpec` (`NeverStopped`), a program without multiplications
and divisions to keep to `OperandSpec` (`NeverAtRisk`).

### LrSc

`Pipeline` settles the flag of an SC.W, as an arbitrary value, when it enters MEM.
`LrSc` is the MEM stage alone, where the flag is the RTL's `sc_success`, which is a
wire: it is computed in every cycle the SC.W spends in MEM. The EX2 stage is open: any
LR.W, SC.W, store or something
else (a bubble) follows, at any edge a flush may come, and a multiplier or divider
may hold MEM (`CanHold`) or the host write to the memory (`CanWrite`).

### MulDiv

`Pipeline` has the reasons for every stall and flush and leaves results open;
`MulDiv` is its complement: EX2 receives any request when nothing stalls, is held
or flushed at any edge, and the units compute on words of `W` bits. `Pow2` is a
constant function with its defining equations as an assumption, because the prover
cannot unfold a recursion. The quotient and the remainder registers, the signs and
the W iterations are the RTL's, with the truncation of every shift and
subtraction. `Product`, `Quotient` and `Remainder` are the definitions of the M
extension over signed and unsigned numbers. An idle unit's working registers,
which nothing reads before the next start, are reset in the model. `StopAtRisk` and
`StopSpec` are here what the third window of a stop is in `Pipeline`.

### AxiBridge

One step is one clock edge of both channels, the adapter and the memory. The
master is the PCIe interconnect: `axi_core_hw.tcl:78-80` declares acceptance
capabilities of one, reads and writes together, so `Master` has one request at a
time, raises its valid signals in any order and holds them to the handshake. The
memory may take a CPU store on any edge except the edge of a host write, which
drops it (`dmem.sv:41`). Only the data memory is behind the adapter here;
instruction memory has the same host timing. Byte strobes matter to the RTL only
as zero or not zero, and so here (`strobed`).

The mapping to `HostPort` is `Stage`, how many halves are done, and `Got`, the
words read: a word counts as read at the edge that leaves `R_LO` or `R_HI`, and
is in `host_rdata` until the adapter captures it.

### Sniffer

`SniffedSpec` takes the sniffer's edge with the bridge's. `seen` is the history:
what reached the memory since a clear while logging was enabled, with the words
the memory held. `SniffsAll` compares it with the log, up to the entries that are
still on their way. Accesses to the sniffer's own registers bypass it; a write to
its control register is a step of `Control` while nothing else is under way.

### CpuLog

One step is one edge of the core's MEM stage, the logger and the host, which has
at least `HostGap` edges from one access to the next. An entry is its type and
word. The window's address arithmetic is `Age` (`log_wr_ptr - 1 - idx`) and
`Shadowed` (`addr[7:4] == 0` shows control registers, also in the rows of entries).
`events` and `total` are the history. `total` counts modulo `Wrap`, as the count of
32 bits does.

### Machine and the tests

`Machine` executes one instruction per step on 32-bit words (`Word32` keeps them as
signed integers, since TLC's do not reach 2^32) and lets a driver act between any
two. A test is a program and a script: put words, reset, run, wait n cycles, stop,
compare words or the status. The drivers wait for a time, so `left` is what is left
of the wait, and each instruction takes between no time and `Cost` of it: a wait may
end once the next instruction need not complete in time. `Cost` is generous (45 for
a division, 8 for a load or multiplication), and `Fill` are the cycles before the
first instruction completes: with `Verdict` a wait that suffices here suffices on
the core, as long as it does not take longer. Memory and registers start with
`junk`, the same unknown word everywhere, except in the benches that build a new
model for each test (`fresh`). A host write that meets a CPU store drops it
(`Collide`), EBREAK lets a store behind it through (`Break`). `tb_axi_core.cpp` runs
all its tests on one simulation, most of them without clearing the words they
compare, and its `axi_write` writes 64 bits and so also the next word (`Pair`); the
other benches write 32. Every reset ends the reservation, but leaves memory and
registers alone.

The tests are those whose verdict rests on memory and status words. Tests that look
at signals (the benches of single modules), at logs, counters or the console
are not in the suite; Test 46 of `tb_axi_core.cpp` is, without its echo of received
characters. Machine is the ISA as the tests understand it; that the core
implements the ISA is what `isa` and `CoreImplementsISAUnlessAtRisk` are about, for
programs without traps, and `stale_operand` and `sc_held` show where it
does not: a test passing in `programs` says that the test is sound,
not that the core passes it.

### Console

`HostPort` says what one host access is: two 32-bit accesses. `Console` therefore
takes every half of the host's read-modify-writes as a step of its own, and every
volatile load or store of `uart.h`. A CPU store that meets a host write is lost
(`StoreLost`). Halves that no one else reads or writes are left out: the half a
`read32` throws away, and the half of a read-modify-write that is then replaced.
Characters are their numbers. `Starts` says whether `elf_loader` ran the program
before the console (`"loader"`) or only loaded it (`"clear"`).

## Runs

| Run | Question | Bounds | Result |
|---|---|---|---|
| `isa` | does the core implement the ISA and keep its place through resets and stops, away from `OperandAtRisk` and `StopAtRisk`? | 3 addresses, one register besides x0, 2 values; alu, store, load, SC.W, branch, jump, nop, div | holds |
| `units` | with multiplier, divider and host resets: type, one start at a time, right result, program order, every stall ends and shrinks | 3 addresses, divider of 2 iterations | holds |
| `traps` | with ECALL, MRET, WFI, timer, CSR writes, host resets and stops (`StopSpec`), what may change the next instruction? | 3 addresses, one value | holds |
| `stale_operand` | do operands stay current across a multiply or divide stall? | 4 addresses; alu, load, branch, mul, div | violated |
| `traps_precise` | do traps cut the program at one place? | as `traps`, 4 addresses, with writes of mepc | violated |
| `wfi_wakes` | does an interrupt that stays pending end a WFI? | load, nop and WFI; interrupts disabled | violated |
| `sc_held` | does an SC.W report what its store did? | 2 addresses, 2 values, no host writes | violated |
| `muldiv` | does every multiplication and division leave EX2 with its result, and in time, with stops (`StopSpec`)? | 3-bit words: all divisions, products of 4 pairs of factors | holds |
| `bridge` | is the bridge a `HostPort`, does it answer and how soon, does the sniffer log every access? | 2 words (the address wraps), 2 values, 3 requests, one without strobes; log of 2 entries | holds |
| `console` | is input complete, does nobody starve? | rings of 3, 3 characters out, 3 keys in, both ways of starting | holds |
| `tools` | does the log hold and show what was accessed? | log of 3 entries, every second row a control row, count modulo 4 | holds |
| `programs` | is every test's verdict sound? | 127 tests as they are in the repository; junk 0 and 0x5A5A | holds |

Why the bounds are enough. The pipeline holds five instructions; three addresses
tell one or two lost or repeated instructions apart (the theorems cover longer
programs), and one register with two
values, incremented modulo 2, shows every stale read. Bypasses compare register
numbers only for equality and with x0, so a second register adds no case. The
divider's counter is only compared with its end; two iterations let the load
wait, the flush and the start meet it at the beginning, in between and at the
end. Where the fetch goes next does not depend on values, so `traps` has one; the
timer stays on once it has come on, as no store is in its programs. Three bits tell
the first, an inner
and the last iteration of the divider apart and hold every combination of signs;
the theorems cover the other widths. The bridge keeps nothing of an access when it
is answered, except that the channels take one more edge to rest, and the sniffer
nothing but its log: two entries let it wrap after every access of the host, while
the next is under way. Three slots let a ring be empty, partly
filled and full, and three characters make its indices wrap. A log of three
entries wraps at a place that no access pattern repeats with, and the theorems
cover the other depths. The programs are not abstracted: the values of `junk`
differ in every byte from what a test expects of a fresh memory, and a test that
rests on an unwritten word fails with one of the two.

The four violations are disagreements between the code and what it says of
itself; `PROJECT.json` quotes both. In short: an instruction held in EX1 behind a
multiply or divide loses an operand that was being forwarded from WB; ECALL, MRET
and the interrupt drop older instructions with the flush; a WFI that a waiting load
keeps in ID does not wake when interrupts are disabled; an SC.W that a
multiplication behind it keeps in MEM stores and reports that it did not.

Smaller disagreements and what to change in a `.cfg` to see them:

- Clearing RUN while a branch resolves loses the branch, because the flush does not
  look at RUN and the fetch does (`riscv_soc.sv:398`): `stale_operand.cfg` with
  `Instr <- BaseInstr`, `CanPause = TRUE` and `PROPERTIES StopKeepsPlace`, or
  `traps.cfg` with `SPECIFICATION Spec`, where `TrapFlow` fails.
- Clearing RUN in the cycle a multiplication or division enters EX2 sets its
  running bit without starting it (`riscv_soc.sv:824` and `:830`), and it later
  leaves with an old result: `muldiv.cfg` with `SPECIFICATION Spec`, where
  `ReadyIsRight` fails.
- A program that filled the output ring under `elf_loader` waits for ever in
  `putchar` once `uart_console.c:55` clears the indices: `console.cfg` with
  `Starts = {"loader"}` and `PutcharReturns`.
- `write32` (`pcie_vfio.c:36`) undoes what the CPU stored in the other half of the
  64 bits, between its read and its write: `console.cfg` with `WriteKeepsNeighbour`.
- A load makes four entries in the CPU log, and the first two carry the word of
  another access, as its own is two edges behind (`cpu_logger.sv:130` says "IMEM and
  DMEM data are valid in the SAME cycle as the request."): `tools.cfg` with
  `LoggedDataIsRead`. A store held in MEM is logged in every cycle as well, and a
  fetch in the cycle of a data access is not.
- The branch of the BNE test goes back 32 bytes where its comment says 4
  (`tb_axi_core.cpp:408`, `riscv_host.c:81`, `riscv_tests.h:43`): the core leaves the
  program, and the word the test reads is 0 all the same. `programs.cfg` with
  `Suite <- MCStray`: `NoStray` fails.

And what reading the code for the models showed without a run: every sixteenth row of
the log windows is a control row, so that `cpulog_dump(20)` and `(64)` in
`test_logger.c:115` and `test_programs.c:47` print control registers as entries;
four bits of index reach 15 of the sniffer's 32 entries (`axi_core_hw.sv:343`), of
which `tb_bus_sniffer.cpp:335` reads the one numbered 31 on the module itself; host
writes do not end a reservation, and a reservation is compared by address and not by
word. When a WFI waits it has mostly left ID, so
that the interrupt saves the address after it, MRET does not "return to WFI"
(`riscv_soc.sv:536`), and `wfi_skip_next`, which is still set, makes the next WFI not
wait. minstret counts an instruction again in each cycle it is held (`:1248`).

## Fairness

The clock never stops: `WF(Clock)` in the pipeline, and in the bridge weak
fairness of the edge on which the master drives its valid and ready signals, since
AXI lets a master delay them but not for ever. It must raise `rready` without
waiting for `rvalid`: `axi_core_hw.sv:131-133` raises `rvalid` only then. In the
console the running CPU executes (`Progress` of the pipeline) and the host's loop,
which polls and sleeps, goes round. In `Machine` the running core executes
(`Step`, `Break`) and the driver goes on when its wait is over (`Drive`).
`Progress` allows for a host that resets the core for ever.

## Proofs

Constants are constrained only by the named assumptions of each module.

- `TypeCorrect` (Pipeline): `TypeOK` is inductive as it stands.
- `OperandsCurrentUnlessAtRisk` (Pipeline): `OperandSpec => []OperandsCurrent`, with
  multiplications and divisions. The invariant is not inductive: what an instruction
  reads in EX2 was settled in ID and EX1. `OperandInv` adds what made it right:
  `LateDistance` (the load-use
  stalls keep the producer of a late result out of EX2 and MEM while its reader is
  in EX1, and so out of the reach of the bypasses that would deliver `Junk`),
  `Ex1Current` (what EX1 holds is right unless a bypass will replace it),
  `JumpRedirects` (a jump in MEM is about to flush whoever was bypassed its target
  address). The proof follows the value: `ForwardIsArchReg` for
  an instruction that moves from EX1 to EX2, `HoldKeepsArchReg` for one that stays
  there. When a unit holds EX1 and WB moves on, a copy of what MEM holds goes to
  WB again (`CopyKeepsArchReg`) and nothing is lost but the operand of
  `OperandAtRisk`: it is the one hole in the network, and `stale_operand` the
  counterexample. `OperandsAlwaysCurrent` is the corollary for programs with
  `NoUnits`, by `UnitsUnused`.
- `UnitsStartIdle` and `UnitResultsFreshUnlessStopped` (Pipeline): a unit at work
  stalls the stages behind MEM, so that the instruction in EX2 is the unit's own or
  none (`UnitOwned`), and what the unit computes or shows is the result of that
  instruction's operands (`UnitWork`); it is not busy in the cycle of its done
  pulse (`UnitPulse`). These hold whatever the host does. That the running bit says
  that the unit is at work (`UnitLive`), and so that an operation does not leave EX2
  before it is done, holds in `StopSpec` until the core halts; what a stop could do to
  it is the third window.
- `StallsAlwaysShrink` (Pipeline): `Spec => StallsShrink`, a safety property that
  says more than that stalls end. `StallLeft` is a bound on what is left of a stall:
  `MovesLeft` gives each place in front of WB that is still occupied `DivCycles + 5`
  cycles, since what is there may wait for a load once and for a unit that starts
  again because it answered while the load waited, and `UnitsLeft` or the load's count
  is what is left of the wait under way. The proof has one lemma per cause
  (`FlushShrinks`, `LoadWaitShrinks`, `UnitStallShrinks`, `LoadUseShrinks`) and rests on
  the types and `UnitOwned` alone, so that it holds with traps, and of a core that was
  stopped and started at any moment. The WFI stall is not one of them; `wfi_wakes` is
  about it.
- `StopsKeepPlace` (Pipeline, in `PipelineISA_proofs`): `StopSpec => StopKeepsPlace`. A
  stopped core in which nothing of `StopAtRisk` holds keeps every stage (`StoppedHolds`),
  and with them the refinement mapping (`StoppedFlow`).
- `TrapsKeepOrderUnlessStopped`, `CoreKeepsOrderUnlessStopped`,
  `CoreImplementsISAUnlessAtRisk`: the refinement of `ISA`, for every alphabet, address
  space, register file and divider latency, in three steps, each with resets and stops.
  - Order. `InOrder` says that each instruction in flight is followed, in the next
    younger occupied stage or in the fetch, by the one after it in the program, and
    `OfProgram` that it is one of the program. A step either flushes, and then the
    fetch decides (`FlushEmpties`), or stands still (`FreezeHolds`), or moves
    the front up behind the instruction that leaves EX2 (`FrontMoves`). `FlowStep`
    puts them together; `TrapsKeepOrderUnlessStopped` (`TrapFlow`) is what it says of a
    running core with every kind of trap, EBREAK included, and with resets.
  - Without traps (`NoTraps`: no ECALL, MRET or EBREAK, and an interrupt only in
    programs that never set MIE) a flush can only come from a branch or jump in MEM,
    whose target is the next instruction already, so that nothing is left but
    executing (`Calm`, `CalmFlow`). That is `CoreKeepsOrderUnlessStopped`
    (`ImplementsFlow`), with multiplications and divisions. Interrupts that stay
    disabled are the reason for
    `Masked`: the bypass of `mstatus` in MEM must be clear too.
  - Values. `CoreImplementsISAUnlessAtRisk` (`SafeSpec => ImplementsISA`) adds the
    operands of `OperandInv`, the results of `UnitResultsFreshUnlessStopped`, and
    `WordInv`: when the wait of a load is over the data register holds its word
    (`WordArrives`: the address register one edge into the wait, the data register
    two), the bypass value `Junk` never gets past EX2 (`NoJunk`), and the flush of a branch
    never meets a load that waits in MEM (`BranchesRedirect`). Then WB takes over
    exactly what MEM had (`ArchRegMoves`), and what enters MEM is what program order
    computes (`ResultIsArchs`).

  `TrapsKeepOrder`, `CoreKeepsOrder` and `CoreImplementsISA` are the corollaries for a
  host that leaves RUN set and, the last, a program with `NoUnits`. What a stop may
  break a halt breaks too: a branch that resolves while the core halts is lost, which
  is why `FlowInv` is claimed of a core that has not halted and `NoTraps` excludes
  EBREAK. Traps are excluded from the refinement because they are not precise
  (`traps_precise`), but multiplications and divisions no longer are: with
  `OperandAtRisk` named, theirs is the only way to a wrong value.
- `ReservationsStand` (LrSc) is inductive as it stands, with MEM held and the host
  writing. `UnheldReports`: with neither, an SC.W is in MEM for one cycle, and what
  WB copies in that cycle is what the store did.
- `TypeCorrect`, `RingIsHistory`, `DumpPrintsHistory` (CpuLog), for every depth,
  row and count: the ring's entry k behind the pointer is the k-th newest event,
  with the one under way counted first. The dump needs in addition that the log
  rests while it is read: the core has stood still long enough for the entry under
  way, and no clear is pending. `LoadsAreLogged`: `Spec => LoadIsLogged`, from
  `WordArrives`, the two-edge delay of the memory against the wait of the load: the entry
  made in the last cycle of a load carries its word.
- `TypesRight`, `NoBitIsLost` and `AnswersAreRightUnlessStopped` (MulDiv), for every
  width, with an invariant of its own: `UnitInv` says that
  a unit works or answers for the instruction in EX2 or for none (`UnitOwned`),
  that it works on that instruction's operands (`WorkOwned`, `MulRight`), and that
  quotient and remainder are those of the bits of the dividend shifted in so far
  (`PrefixDivided`). With the bound on that prefix the remainder cannot lose a bit,
  which `rem < divisor` alone does not give. The lemmas are the uniqueness of
  Euclidean division, the step of the prefix, and that the correction of the signs
  commutes with the division of the absolute values. All of that
  holds whatever the host does; what needs `StopSpec` is `UnitLive`, that a
  running bit means a unit at work, or done in this cycle, for the operation in EX2,
  which so does not leave with an old result. `AnswersAreRight` is the corollary for a
  host that leaves RUN set.
- `StallsAlwaysShrink` (MulDiv): `Spec => StallShrinks`. The edges left of an operation
  are counted by the unit's own state, W + 1 for a division. While a unit stalls no
  operation starts at the next edge (`NoSecondStart`): the one in EX2 is, by
  `UnitOwned`, the one under way, or it was flushed. An operation whose done pulse is
  missed behind a load does start again, but only after its stall is over; the
  measure of `Pipeline` counts that.
- `BridgeConsistent`: `BridgeInv` is inductive. It says for each phase of the
  access where the channel and the adapter can be together, that the captured
  address and data are the request's, and that everything else rests.
- `BridgeImplementsPort`: `Spec => ImplementsPort`, one case per place of the
  access, each a step of `HostPort` or a `Store`.
- `AccessesNearTheirAnswer` (AxiBridge): `Spec => AnswerNears`, from `BridgeInv`.
  `AnswerLeft` counts the edges left along the channel and the adapter; a master that
  waits before it raises a signal does not set the access back, and no access of the
  other channel, nor a CPU store, delays it. A write without strobes has no answer to
  near: the adapter never sees it.
- `ConsoleTypes`: `TypeOK` with `RoomToCount`, which says the bounds of the model
  are never overrun.
- `NoKeySkipped` (Console): `Spec => NothingSkipped`, for every ring and number of
  keys. The ring's index says nothing about which key a slot holds, so `KeyInv` counts
  keys by their distance behind `RX_HEAD`: the slot d behind it holds the d-th newest
  published key (`KeysInPlace`), and an index that is d behind it has all but the newest
  d keys behind it. Of the three tails in play the program's own copy is not behind
  the one in memory (`CpuAhead`), the memory's has nothing behind it that was not
  read (`TailInRange`), and the copy the host is about to write back is one the
  program stored (`CurrentBehind`): a write-back may set the tail back and let keys be
  read again, but never past an unread one.
- `EverythingLogged` (Sniffer): with `BridgeInv`, a read waits for its word only
  while the adapter waits too, so that no other access meets it (`OnTheWay`); what is
  under way is then the newest of what the memory saw, and the ring holds the rest.

Only model-checked: the verdicts of the tests (`Verdict`, `NoStray`), whose programs
are data and whose words need bitwise operators the prover has no theory of, and all
liveness (fairness and ENABLED are beyond the prover, as are recursive operators and
induction over data). The two measures, `StallsShrink` and `AnswerNears`, are the safety
half of `Progress` and `Answered` and are proved; what is left to TLC is that the
clock ticks and the master is prompt again and again. Every other safety property of the
passing runs, and each
refinement, has a theorem.

## Not modelled

- The host's performance counters, `mcycle` and `minstret`: they do not feed back into
  the core. The time stamps of both logs.
- The halves of the 64-bit timer registers, and CSR writes to `mie`, `mip`, `mcause`,
  `mtval`, `mtvec` and `mscratch`.
- The bit patterns of instructions and what the decoder does with illegal ones.
- The sniffer's window and its count; its entries are compared in place. Its window
  differs from the CPU log's, which is modelled, in the width of the index.
- ELF parsing and terminal handling (pure I/O), `printf` and the C library
  (sequential, no shared state beyond `putchar`), register and profile dumps of the
  host tools, `run_tests.py`.
- The PLIC stub (no state), generated and declarative FPGA build files, the
  tied-off AXI master port.
- Test benches that compare signals of one module cycle by cycle: what they check of
  the module is in its model.
