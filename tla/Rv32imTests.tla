----------------------------- MODULE Rv32imTests ------------------------------
(***************************************************************************)
(* The tests of tb/tb_rv32im_comprehensive.cpp, each in a new simulation:  *)
(* one sequence for each function of the bench. Results go to word 256,    *)
(* address 0x10000400 of the program.                                      *)
(***************************************************************************)
EXTENDS Program

\* run_test_program: the sentinel, n cycles, the result; a test may set other
\* words before and look at another word.
Bench(prog, pre, n, out) ==
  Fresh(prog \o <<EBREAK>>, <<Put(256 :> W(\hDEAD, \h1234) @@ pre), Run, Wait(n), Stop,
    See(out)>>)
\* A body whose result, in register rd, is stored at the address in x2.
Base(imm) == <<LUI(2, \h10000), Imm("add", 2, 2, imm)>>
Report(body, rd, n, v) == Bench(body \o Base(1024) \o <<St("w", rd, 2, 0)>>, <<>>, n, 256 :> v)
\* Two small operands, and then an operation or a branch over one instruction.
Small3(a, b) == <<Imm("add", 3, 0, a), Imm("add", 4, 0, b)>>
Calc(fn, a, b, n, v) == Report(Small3(a, b) \o <<Op(fn, 1, 3, 4)>>, 1, n, v)
Over(fn, a, b, last, v) ==
  Report(Small3(a, b) \o <<Br(fn, 3, 4, 8), Imm("add", 1, 0, 0), last>>, 1, 100, v)
\* What is stored at the base address is loaded and stored behind it.
Through(value, fn, ld, v) ==
  Bench(Base(1024) \o value \o <<St(fn, 3, 2, 0), Ld(ld, 1, 2, 0), St("w", 1, 2, 4)>>,
    257 :> 0, 100, 257 :> v)

RvLui ==
  <<Report(<<LUI(1, \h12345)>>, 1, 100, \h12345000),
    Report(<<LUI(1, \hFFFFF)>>, 1, 100, -4096)>>
RvAuipc ==
  <<Report(<<AUIPC(1, 1)>>, 1, 100, 4096)>>
RvAddSub ==
  <<Calc("add", 5, 7, 100, 12),
    Calc("sub", 10, 3, 100, 7),
    Calc("sub", 3, 10, 100, -7),
    Report(<<LUI(3, \h7FFFF), Imm("add", 3, 3, 2047), Imm("add", 4, 0, 1),
      Op("add", 1, 3, 4)>>, 1, 100, \h7FFFF800)>>
RvLogical ==
  <<Report(<<LUI(3, 0), Imm("add", 3, 0, 2032), Imm("add", 4, 0, 255), Op("and", 1, 3, 4)>>,
      1, 100, 240),
    Calc("or", 240, 15, 100, 255),
    Calc("xor", 255, 240, 100, 15)>>
RvShifts ==
  <<Calc("sll", 1, 4, 100, 16),
    Report(<<LUI(3, \h80000), Imm("add", 4, 0, 4), Op("srl", 1, 3, 4)>>, 1, 100, \h8000000),
    Report(<<LUI(3, \h80000), Imm("add", 4, 0, 4), Op("sra", 1, 3, 4)>>,
      1, 100, W(\hF800, \h0)),
    Report(<<Imm("add", 3, 0, 1), Imm("sll", 1, 3, 31)>>, 1, 100, W(\h8000, \h0))>>
RvSlt ==
  <<Calc("slt", -1, 1, 100, 1),
    Calc("sltu", -1, 1, 100, 0),
    Calc("slt", 5, 3, 100, 0)>>
RvBranches ==
  <<Over("eq", 5, 5, Imm("add", 1, 0, 1), 1),
    Over("eq", 5, 6, Imm("add", 1, 1, 1), 1),
    Over("ne", 5, 6, Imm("add", 1, 0, 1), 1),
    Over("lt", -1, 1, Imm("add", 1, 0, 1), 1),
    Over("ltu", -1, 1, Imm("add", 1, 1, 1), 1),
    Over("ge", 5, 5, Imm("add", 1, 0, 1), 1)>>
RvLoadStore ==
  <<Through(<<Imm("add", 3, 0, 291)>>, "w", "w", 291),
    Through(<<Imm("add", 3, 0, 128)>>, "b", "b", -128),
    Through(<<Imm("add", 3, 0, 128)>>, "b", "bu", 128),
    Through(<<LUI(3, \hFFFF8), Imm("add", 3, 3, 0)>>, "h", "h", -32768)>>
RvJalJalr ==
  <<Report(<<JAL(1, 8), Imm("add", 5, 0, 99), Imm("add", 5, 0, 42)>>, 5, 100, 42),
    Report(<<Imm("add", 3, 0, 16), JALR(1, 3, 0), Imm("add", 5, 0, 99),
      Imm("add", 5, 0, 99), Imm("add", 5, 0, 42)>>, 5, 100, 42)>>
RvMul ==
  <<Calc("mul", 7, 6, 150, 42),
    Calc("mul", -3, 5, 150, -15),
    Report(<<LUI(3, \h10000), Imm("add", 4, 0, 16), Op("mulh", 1, 3, 4)>>, 1, 150, 1),
    Calc("mulhu", -1, 2, 150, 1)>>
RvDiv ==
  <<Calc("div", 20, 6, 200, 3),
    Calc("rem", 20, 6, 200, 2),
    Calc("div", -20, 6, 200, -3),
    Calc("divu", -1, 2, 200, \h7FFFFFFF),
    Calc("div", 10, 0, 200, -1)>>
RvForwarding ==
  <<Report(<<Imm("add", 3, 0, 10), Imm("add", 4, 3, 5), Imm("add", 1, 4, 5)>>, 1, 100, 20),
    Bench(<<LUI(2, \h10000), Imm("add", 2, 2, 1040), Ld("w", 3, 2, 0), Imm("add", 1, 3, 5),
      Imm("add", 2, 0, 0), LUI(2, \h10000), Imm("add", 2, 2, 1024), St("w", 1, 2, 0)>>,
      260 :> 100, 150, 256 :> 105)>>

RvSuite ==
  RvLui \o RvAuipc \o RvAddSub \o RvLogical \o RvShifts \o RvSlt \o RvBranches \o
    RvLoadStore \o RvJalJalr \o RvMul \o RvDiv \o RvForwarding
===============================================================================
