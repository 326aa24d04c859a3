----------------------------- MODULE MCPrograms -----------------------------
(***************************************************************************)
(* The tests of the repository, with their verdicts, on Machine.           *)
(***************************************************************************)
EXTENDS Machine, AxiTests, HostTests, Rv32imTests, AtomicTests, PipelineTests

MCSuite ==
  AxiSuite1 \o AxiSuite2 \o HostSuite \o SimSuite \o RvSuite \o AtomicSuite \o PipeSuite
\* The test of BNE, in each of the programs that carry it: see ProgBne.
MCStray == <<Axi2, HostBne, SimBne>>

\* Cycles an instruction keeps its successor from completing, generously: the
\* divider iterates 32 times, and nothing else the core does takes that long.
MCCost(i) ==
  CASE i.op = "op" /\ i.fn \in {"mul", "mulh", "mulhsu", "mulhu"} -> 8
    [] i.op = "op" /\ i.fn \in {"div", "divu", "rem", "remu"} -> 45
    [] i.op \in {"branch", "jal", "jalr"} -> 6
    [] i.op \in {"load", "lr", "sc"} -> 8
    [] OTHER -> 2

\* No verdict of the repository's tests depends on the pace of the core, on
\* what an earlier test left in memory or registers, or on which of the driver
\* and the core reaches the memory first: each test passes.
Verdict == ~failed

\* A program under test never leaves the words it was loaded into.
NoStray == Running => Inside

\* Every test comes to its end: no wait of a driver outlasts its program in a
\* way that keeps the test from its verdict.
TestEnds == <>(at > Len(script))
=============================================================================
