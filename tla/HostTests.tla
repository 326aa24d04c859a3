------------------------------ MODULE HostTests -------------------------------
(***************************************************************************)
(* The tests of the host: the programs of host/include/riscv_tests.h, the  *)
(* program host/src/riscv_host.c that runs them on the board (it carries   *)
(* its own copies), and tb/tb_host_sim.cpp, which runs them on a           *)
(* simulation.                                                             *)
(***************************************************************************)
EXTENDS Program

\* What several programs have in common: a branch over one instruction, and an
\* operation of the multiplier or the divider.
OverOne(fn, a, b, w) ==
  <<Imm("add", 1, 0, a), Imm("add", 2, 0, b), Imm("add", 3, 0, 1), Br(fn, 1, 2, 8),
    Imm("add", 3, 0, 2), St("w", 3, 0, 4 * w), Loop>>
MExt(fn, a, b) ==
  <<Imm("add", 1, 0, a), Imm("add", 2, 0, b), Op(fn, 3, 1, 2), St("w", 3, 0, 0), EBREAK>>

ProgBasicAlu ==
  <<Imm("add", 1, 0, 5), Imm("add", 2, 0, 3), Op("add", 3, 1, 2), St("w", 3, 0, 0), Loop>>
\* The comment of its branch says -4; the word is a branch by -32.
ProgBne ==
  <<Imm("add", 1, 0, 5), Imm("add", 1, 1, -1), Br("ne", 0, 1, -32), St("w", 1, 0, 4), Loop>>
ProgBlt == OverOne("lt", -5, 3, 2)
ProgBltu == OverOne("ltu", -5, 3, 3)
ProgBge == OverOne("ge", 5, -3, 4)
ProgBgeu == OverOne("geu", 5, -3, 5)
ProgJal == <<Imm("add", 1, 0, 5), JAL(1, 12), St("w", 1, 0, 56), Loop, NOP, JAL(0, -12)>>
ProgJalr ==
  <<Imm("add", 10, 0, 3), JAL(1, 12), St("w", 10, 0, 60), Loop, Imm("add", 10, 10, 5),
    JALR(0, 1, 0)>>
ProgLui == <<LUI(1, \hDEADB), St("w", 1, 0, 64), Loop>>
ProgAuipc == <<AUIPC(1, 1), St("w", 1, 0, 68), Loop>>
ProgShifts ==
  <<Imm("add", 1, 0, 8), Imm("add", 2, 0, 2), Op("sll", 3, 1, 2), Op("srl", 4, 1, 2),
    Imm("add", 5, 0, -2048), Op("sra", 6, 5, 2), St("w", 3, 0, 24), St("w", 4, 0, 28),
    St("w", 6, 0, 32), Loop>>
ProgImmShifts ==
  <<Imm("add", 1, 0, 1), Imm("sll", 2, 1, 16), Imm("srl", 3, 2, 8), Imm("add", 4, 0, -2048),
    Imm("sra", 5, 4, 4), St("w", 2, 0, 36), St("w", 3, 0, 40), St("w", 5, 0, 44), Loop>>
ProgSlt ==
  <<Imm("add", 1, 0, -5), Imm("add", 2, 0, 3), Op("slt", 3, 1, 2), Op("sltu", 4, 1, 2),
    St("w", 3, 0, 48), St("w", 4, 0, 52), Loop>>
ProgByteOps ==
  <<Imm("add", 1, 0, 255), Imm("add", 2, 0, 72), St("b", 1, 2, 0), Ld("b", 3, 2, 0),
    Ld("bu", 4, 2, 0), St("w", 3, 0, 72), St("w", 4, 0, 76), Loop>>
ProgHalfwordOps ==
  <<Imm("add", 1, 0, -1), Imm("add", 2, 0, 80), St("h", 1, 2, 0), Ld("h", 3, 2, 0),
    Ld("hu", 4, 2, 0), St("w", 3, 0, 80), St("w", 4, 0, 84), Loop>>
ProgMul == MExt("mul", 7, 6)
ProgMulh == <<LUI(1, 16), LUI(2, 16), Op("mulh", 3, 1, 2), St("w", 3, 0, 0), EBREAK>>
ProgDiv == MExt("div", 42, 7)
ProgDivu == MExt("divu", 100, 10)
ProgRem == MExt("rem", 47, 7)
ProgRemu == MExt("remu", 103, 10)
ProgDivZero == MExt("div", 42, 0)
ProgCpulogTest ==
  <<Imm("add", 1, 0, 10), St("w", 1, 0, 0), Ld("w", 2, 0, 0), Op("add", 2, 2, 2),
    St("w", 2, 0, 4), Ld("w", 3, 0, 4), Imm("add", 4, 0, -534), St("w", 4, 0, 8), NOP, NOP,
    EBREAK>>

\* run_test: reset, clear the memories, load, run, sleep, stop, read. The
\* sleep of 10 ms lasts for more cycles than any program; Long stands for it.
Long == 200
\* init_memory: all of data memory; here the words the tests use.
Cleared == [w \in 0..31 |-> 0]
Host(prog, out) == Test(prog, Batch(Cleared, Long, out))
\* run_test_hex, and the tests written out: the memories are not cleared.
HostHex(prog, out) == Test(prog, Batch(<<>>, Long, out))
\* With cpu_wait_halt: polls HALTED, and stops the core whether it came or
\* not.
HostHalt(prog, out) == Test(prog, <<Reset, Put(Cleared), Run, Until(Long), Stop, See(out)>>)

HostBasicAlu == Host(ProgBasicAlu, 0 :> 8)
HostBne == Host(ProgBne, 1 :> 0)
HostBlt == Host(ProgBlt, 2 :> 1)
HostBltu == Host(ProgBltu, 3 :> 2)
HostBge == Host(ProgBge, 4 :> 1)
HostBgeu == Host(ProgBgeu, 5 :> 2)
HostShifts == HostHex(ProgShifts, 6 :> 32 @@ 7 :> 2 @@ 8 :> -512)
HostImmShifts == HostHex(ProgImmShifts, 9 :> \h10000 @@ 10 :> 256 @@ 11 :> -128)
HostSlt == HostHex(ProgSlt, 12 :> 1 @@ 13 :> 0)
HostJal == Host(ProgJal, 14 :> 8)
HostJalr == Host(ProgJalr, 15 :> 8)
HostLui == HostHex(ProgLui, 16 :> W(\hDEAD, \hB000))
HostAuipc == HostHex(ProgAuipc, 17 :> 4096)
HostByteOps == HostHex(ProgByteOps, 18 :> -1 @@ 19 :> 255)
HostHalfwordOps ==
  HostHex(<<LUI(2, \hFFFF0), Imm("add", 2, 2, -1), Imm("add", 3, 0, 80), St("h", 2, 3, 0),
    Ld("h", 4, 3, 0), Ld("hu", 5, 3, 0), St("w", 4, 0, 80), St("w", 5, 0, 84), Loop>>,
    20 :> -1 @@ 21 :> 65535)
HostMul == Host(ProgMul, 0 :> 42)
HostMulh == HostHalt(ProgMulh, 0 :> 1)
HostDiv == Host(ProgDiv, 0 :> 6)
HostDivu == Host(ProgDivu, 0 :> 10)
HostRem == Host(ProgRem, 0 :> 5)
HostRemu == Host(ProgRemu, 0 :> 3)
HostDivZero == HostHalt(ProgDivZero, 0 :> -1)
HostSuite ==
  <<HostBasicAlu, HostBlt, HostBltu, HostBge, HostBgeu, HostShifts, HostImmShifts, HostSlt,
    HostJal, HostJalr, HostLui, HostAuipc, HostByteOps, HostHalfwordOps, HostMul, HostMulh,
    HostDiv, HostDivu, HostRem, HostRemu, HostDivZero>>

\* run_single_test of the simulation: no clearing between tests, except once
\* before all of them.
Sim(prog, out) == Test(prog, Batch(<<>>, Long, out))
\* The table, without its second entry, SimBne.
SimTable ==
  <<Sim(ProgBasicAlu, 0 :> 8), Sim(ProgBlt, 2 :> 1), Sim(ProgBltu, 3 :> 2), Sim(ProgBge,
    4 :> 1), Sim(ProgBgeu, 5 :> 2), Sim(ProgJal, 14 :> 8), Sim(ProgJalr, 15 :> 8),
    Sim(ProgLui, 16 :> W(\hDEAD, \hB000)), Sim(ProgAuipc, 17 :> 4096)>>
SimMExt ==
  <<Sim(ProgMul, 0 :> 42), Sim(ProgMulh, 0 :> 1), Sim(ProgDiv, 0 :> 6), Sim(ProgDivu,
    0 :> 10), Sim(ProgRem, 0 :> 5), Sim(ProgRemu, 0 :> 3), Sim(ProgDivZero, 0 :> -1)>>
SimBne == Sim(ProgBne, 1 :> 0)
SimShifts == Sim(ProgShifts, 6 :> 32 @@ 7 :> 2 @@ 8 :> -512)
SimImmShifts == Sim(ProgImmShifts, 9 :> \h10000 @@ 10 :> 256 @@ 11 :> -128)
SimSlt == Sim(ProgSlt, 12 :> 1 @@ 13 :> 0)
SimByteOps == Sim(ProgByteOps, 18 :> -1 @@ 19 :> 255)
SimHalfwordOps == Sim(ProgHalfwordOps, 20 :> -1 @@ 21 :> 65535)
SimSuite == SimTable \o <<SimShifts, SimImmShifts, SimSlt, SimByteOps, SimHalfwordOps>> \o SimMExt
===============================================================================
