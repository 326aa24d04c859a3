---------------------------- MODULE PipelineTests -----------------------------
(***************************************************************************)
(* The tests of tb/tb_pipeline.cpp and tb/tb_riscv_soc.cpp: the hazards of *)
(* the pipeline, in runs of 25 to 50 cycles.                               *)
(***************************************************************************)
EXTENDS Program

\* Words 0 to 15 are cleared and one may be set; the program, padded with NOP,
\* runs for n cycles.
Corner(prog, pre, n, out) ==
  Test(prog, <<Put(pre @@ [w \in 0..15 |-> 0]), Reset, Run, Wait(n), Stop, See(out)>>)
Sum == <<Imm("add", 1, 0, 5), Imm("add", 2, 0, 3), Op("add", 3, 1, 2)>>
PipeStoreForwardingMem == Corner(Sum \o <<St("w", 3, 0, 0), Loop>>, <<>>, 30, 0 :> 8)
PipeStoreForwardingWb == Corner(Sum \o <<NOP, St("w", 3, 0, 4), Loop>>, <<>>, 30, 1 :> 8)
PipeStoreNoForwarding == Corner(Sum \o <<NOP, NOP, NOP, St("w", 3, 0, 8), Loop>>, <<>>, 35, 2 :> 8)
PipeLoadUseHazard ==
  Corner(<<Imm("add", 1, 0, 5), Ld("w", 4, 0, 12), Op("add", 5, 4, 1), St("w", 5, 0, 16),
    Loop>>, 3 :> 42, 30, 4 :> 47)
PipeBackToBackStores ==
  Corner(<<Imm("add", 1, 0, 5), Imm("add", 2, 0, 3), Imm("add", 3, 0, 8), St("w", 1, 0, 20),
    St("w", 2, 0, 24), St("w", 3, 0, 28), Loop>>, <<>>, 30, 5 :> 5 @@ 6 :> 3 @@ 7 :> 8)
PipeStoreAddressForwarding ==
  Corner(<<Imm("add", 6, 0, 4), Imm("add", 7, 0, 99), St("w", 7, 6, 0), Loop>>, <<>>, 25,
    1 :> 99)
PipeX0WritesIgnored ==
  Corner(<<Imm("add", 0, 0, 100), St("w", 0, 0, 0), Loop>>, 0 :> W(\hDEAD, \hBEEF), 25,
    0 :> 0)
\* The bench also looks at the fetch address, which the model does not have.
PipeSoc ==
  Fresh(Sum \o <<Op("sub", 4, 1, 2), St("w", 3, 0, 0), Ld("w", 5, 0, 0), Ld("w", 6, 0, 4),
    Loop>>, <<Put(1 :> 200), Reset, Run, Wait(50), Stop, See(0 :> 8 @@ 1 :> 200)>>)
PipeSuite ==
  <<PipeStoreForwardingMem, PipeStoreForwardingWb, PipeStoreNoForwarding, PipeLoadUseHazard,
    PipeBackToBackStores, PipeStoreAddressForwarding, PipeX0WritesIgnored, PipeSoc>>
===============================================================================
