------------------------------ MODULE AxiTests --------------------------------
(***************************************************************************)
(* The tests of tb/tb_axi_core.cpp: the host's view of the core through    *)
(* the AXI bridge. Every 64-bit write of the bench also writes the word    *)
(* behind the one it means. Names follow the numbers of the bench.         *)
(***************************************************************************)
EXTENDS Program

\* One 64-bit write of a word: the next word becomes zero.
Pair(w, v) == w :> v @@ (w + 1) :> 0

\* The shapes several tests share: a binary operation, a branch over one
\* instruction, and an operation of the multiplier or the divider.
Binary(fn, a, b, w, v) ==
  Test(<<Imm("add", 1, 0, a), Imm("add", 2, 0, b), Op(fn, 3, 1, 2), St("w", 3, 0, 4 * w),
    Loop>>, Batch(<<>>, 100, w :> v))
Skip(fn, a, b, w, v) ==
  Test(<<Imm("add", 1, 0, a), Imm("add", 2, 0, b), Imm("add", 3, 0, 1), Br(fn, 1, 2, 8),
    Imm("add", 3, 0, 2), St("w", 3, 0, 4 * w), Loop>>, Batch(<<>>, 100, w :> v))
Unit(fn, setup, n, v) ==
  Test(setup \o <<Op(fn, 3, 1, 2), St("w", 3, 0, 0), EBREAK>>, Live(Pair(0, 0), n, 0 :> v))
Square == <<LUI(1, 16), LUI(2, 16)>>
Small(a, b) == <<Imm("add", 1, 0, a), Imm("add", 2, 0, b)>>

Axi0 ==
  Test(<<Imm("add", 1, 0, 5), Imm("add", 2, 0, 3), Op("add", 3, 1, 2), St("w", 3, 0, 0),
    Loop>>, Batch(<<>>, 100, 0 :> 8))
Axi1 ==
  Test(<<Imm("add", 1, 0, 5), Imm("add", 2, 0, 5), Br("eq", 1, 2, 8), Imm("add", 3, 0, 99),
    Imm("add", 3, 0, 42), St("w", 3, 0, 0), EBREAK>>, Live(Pair(0, 0), 100, 0 :> 42))
\* Its branch is encoded with the offset -32, where its comment says -4: it is
\* not in Suite, see StrayTests of the model-checking module.
Axi2 ==
  Test(<<Imm("add", 1, 0, 5), Imm("add", 1, 1, -1), Br("ne", 0, 1, -32), St("w", 1, 0, 4),
    Loop>>, Batch(<<>>, 200, 1 :> 0))
Axi3 == Skip("lt", -5, 3, 2, 1)
Axi4 == Skip("ltu", -5, 3, 3, 2)
Axi5 == Skip("ge", 5, -3, 4, 1)
Axi6 == Skip("geu", 5, -3, 5, 2)
Axi7 == Binary("sll", 5, 2, 6, 20)
Axi8 == Binary("srl", 80, 3, 7, 10)
Axi9 == Binary("sra", -16, 2, 8, -4)
Axi10 ==
  Test(<<Imm("add", 1, 0, 3), Imm("sll", 2, 1, 4), St("w", 2, 0, 36), Loop>>, Batch(<<>>,
    100, 9 :> 48))
Axi11 == Binary("slt", -5, 3, 10, 1)
Axi12 == Binary("sltu", -5, 3, 11, 0)
Axi13 ==
  Test(<<JAL(1, 8), Imm("add", 2, 0, 99), St("w", 1, 0, 48), Loop>>, Batch(<<>>, 100,
    12 :> 4))
Axi14 ==
  Test(<<Imm("add", 10, 0, 3), JAL(1, 12), St("w", 10, 0, 52), Loop, Imm("add", 10, 10, 5),
    JALR(0, 1, 0)>>, Batch(<<>>, 100, 13 :> 8))
Axi15 == Test(<<LUI(1, \h12345), St("w", 1, 0, 56), Loop>>, Batch(<<>>, 100, 14 :> \h12345000))
Axi16 == Test(<<AUIPC(1, 1), St("w", 1, 0, 60), Loop>>, Batch(<<>>, 100, 15 :> 4096))
Axi17 ==
  Test(<<Imm("add", 1, 0, 255), Imm("add", 2, 0, 65), St("b", 1, 2, 0), Ld("b", 3, 2, 0),
    Ld("bu", 4, 2, 0), St("w", 3, 0, 64), St("w", 4, 0, 68), Loop>>, Batch(<<>>, 100,
    16 :> -1 @@ 17 :> 255))
Axi18 ==
  Test(<<LUI(2, \h80000), Imm("add", 2, 0, 72), Imm("add", 1, 0, -1), St("h", 1, 2, 0),
    Ld("h", 3, 2, 0), Ld("hu", 4, 2, 0), St("w", 3, 0, 72), St("w", 4, 0, 76), Loop>>,
    Batch(<<>>, 100, 18 :> -1 @@ 19 :> 65535))
Axi19 == Binary("sub", 10, 3, 0, 7)
Axi20 ==
  Test(<<Imm("add", 1, 0, 255), Imm("add", 2, 0, 240), Op("and", 3, 1, 2),
    Op("or", 4, 1, 2), Op("xor", 5, 1, 2), St("w", 3, 0, 0), St("w", 4, 0, 4),
    St("w", 5, 0, 8), Loop>>, Batch(<<>>, 200, 0 :> 240 @@ 1 :> 255 @@ 2 :> 15))
Axi21 ==
  Test(<<Imm("add", 1, 0, 255), Imm("and", 2, 1, 240), Imm("or", 3, 1, 15),
    Imm("xor", 4, 1, 240), St("w", 2, 0, 0), St("w", 3, 0, 4), St("w", 4, 0, 8), Loop>>,
    Batch(<<>>, 200, 0 :> 240 @@ 1 :> 255 @@ 2 :> 15))
Axi22 ==
  Test(<<Imm("add", 1, 0, 128), Imm("sra", 2, 1, 1), Imm("srl", 3, 1, 1), St("w", 2, 0, 0),
    St("w", 3, 0, 4), Loop>>, Batch(<<>>, 200, 0 :> 64 @@ 1 :> 64))
Axi23 ==
  Test(<<Imm("add", 1, 0, -5), Imm("slt", 2, 1, 10), Imm("sltu", 3, 1, 10),
    St("w", 2, 0, 0), St("w", 3, 0, 4), Loop>>, Batch(<<>>, 200, 0 :> 1 @@ 1 :> 0))
Axi24 ==
  Test(<<LUI(2, \h12345), Imm("add", 2, 2, 1656), St("w", 2, 0, 0), Ld("w", 3, 0, 0),
    St("w", 3, 0, 4), Loop>>, Batch(<<>>, 200, 1 :> \h12345678))
Axi25 ==
  Test(<<Imm("add", 1, 0, 5), Imm("add", 2, 1, 1), Imm("add", 3, 2, 2), Imm("add", 4, 3, 3),
    Op("add", 5, 4, 4), St("w", 5, 0, 0), Loop>>, Batch(<<>>, 200, 0 :> 22))
Axi26 ==
  Test(<<Imm("add", 1, 0, 10), St("w", 1, 0, 0), Ld("w", 2, 0, 0), Imm("add", 2, 2, 2),
    St("w", 2, 0, 4), Loop>>, Batch(<<>>, 200, 1 :> 12))
Axi27 ==
  Test(<<Imm("add", 1, 0, 1), Imm("add", 2, 0, 2), Br("eq", 1, 2, 8), Imm("add", 1, 1, 1),
    Br("eq", 1, 2, 8), Imm("add", 1, 1, 1), Imm("add", 1, 1, 1), St("w", 1, 0, 0), Loop>>,
    Batch(<<>>, 200, 0 :> 3))
Axi28 ==
  Test(<<Imm("add", 1, 0, 10), Imm("add", 2, 0, 20), Imm("add", 3, 0, 30), St("w", 1, 0, 0),
    St("w", 2, 0, 4), St("w", 3, 0, 8), Ld("w", 4, 0, 0), Ld("w", 5, 0, 4),
    Ld("w", 6, 0, 8), Op("add", 7, 4, 5), Op("add", 8, 7, 6), St("w", 8, 0, 12), Loop>>,
    Batch(<<>>, 200, 3 :> 60))
Axi29 ==
  Test(<<Imm("add", 1, 0, 171), St("w", 1, 0, 0), Ld("w", 2, 0, 0), St("w", 2, 0, 4),
    Loop>>, Batch(<<>>, 200, 1 :> 171))
Axi30 ==
  Test(<<Imm("add", 1, 0, 0), Imm("add", 2, 0, 1), Imm("add", 3, 0, 6), Op("add", 1, 1, 2),
    Imm("add", 2, 2, 1), Br("ne", 2, 3, -8), St("w", 1, 0, 0), Loop>>, Batch(<<>>, 300,
    0 :> 15))
Axi31 ==
  Test(<<Imm("add", 1, 0, 10), St("w", 1, 0, 0), EBREAK, Imm("add", 1, 0, 20),
    St("w", 1, 0, 0)>>, Live(Pair(0, 0), 50, <<>>) \o <<Status(2), See(0 :> 10)>>)
Axi32 == Unit("mul", Small(7, 6), 50, 42)
Axi33 == Unit("mulh", Square, 50, 1)
Axi34 == Unit("mulhsu", Square, 50, 1)
Axi35 == Unit("mulhu", Square, 50, 1)
Axi36 == Unit("div", Small(42, 7), 150, 6)
Axi37 == Unit("divu", Small(100, 10), 150, 10)
Axi38 == Unit("rem", Small(47, 7), 150, 5)
Axi39 == Unit("remu", Small(103, 10), 150, 3)
Axi40 == Unit("div", Small(42, 0), 150, -1)

\* Tests 41 and 42 poll a flag at word 384 and report in word 0.
Polling ==
  <<Imm("add", 1, 0, 1536), St("w", 0, 0, 0), Ld("w", 2, 1, 0), Br("eq", 2, 0, -4),
    Imm("add", 3, 0, 1), St("w", 3, 0, 0), EBREAK>>
Axi41 ==
  Test(Polling, <<Reset, Put(Pair(0, 0)), Put(Pair(384, 0)), Run, Wait(200), Status(1),
    See(0 :> 0), Put(Pair(384, 1)), Wait(100), See(0 :> 1), Status(2)>>)
Axi42 ==
  Test(Polling, <<Reset, Put(Pair(0, 0)), Put(Pair(384, 0)), Run>> \o
    [i \in 1..50 |-> Put(Pair(63 + i, W(\hDEAD, \hBEEF)))] \o <<See(0 :> 0),
    Put(Pair(384, 1)), Wait(50), See(0 :> 1)>>)
Axi43 ==
  Test(<<Imm("add", 1, 0, 1536), Imm("add", 3, 0, 1), St("w", 3, 1, 0), Ld("w", 2, 1, 0),
    Br("ne", 2, 0, -4), Imm("add", 3, 0, 99), St("w", 3, 0, 0), EBREAK>>, <<Reset,
    Put(Pair(0, 0)), Run, Wait(100), See(384 :> 1 @@ 0 :> 0), Put(Pair(384, 0)), Wait(100),
    See(0 :> 99)>>)
Axi44 ==
  Test(<<LUI(1, 8), Imm("add", 1, 1, -16), St("w", 0, 1, 0), Ld("w", 2, 1, 0),
    Br("eq", 2, 0, -4), Imm("add", 3, 0, 1), St("w", 3, 0, 0), EBREAK>>, <<Reset,
    Put(Pair(0, 0)), Put(Pair(8188, 4660)), Run, Wait(100), See(8188 :> 0 @@ 0 :> 0),
    Wait(500), See(0 :> 0), Put(Pair(8188, 1)), Wait(100), See(0 :> 1)>>)
Axi45 ==
  Test(<<Imm("add", 3, 0, 0), Ld("w", 14, 0, 256), Ld("w", 15, 0, 260), Br("eq", 14, 15, 8),
    Imm("add", 3, 0, 1), St("w", 3, 0, 0), EBREAK>>, Batch(Pair(0, 0) @@ 64 :> 5 @@
    Pair(65, 5), 200, 0 :> 0) \o Batch(Pair(0, \hDEAD) @@ 64 :> 5 @@ Pair(65, 7), 200,
    0 :> 1))
\* uart_test.bin: a start-up loop over an empty .bss, putchar, and a main that
\* prints Hi! and then echoes.
UartTest ==
  <<Imm("add", 2, 0, 1212), Imm("add", 5, 0, 188), Imm("add", 6, 0, 188),
    Br("ge", 5, 6, 16), St("w", 0, 5, 0), Imm("add", 5, 5, 4), JAL(0, -12), JAL(1, 48),
    EBREAK, JAL(0, 0), Ld("w", 13, 0, 320), Imm("add", 14, 13, 1), Imm("and", 14, 14, 15),
    Ld("w", 15, 0, 324), Br("eq", 15, 14, -4), Imm("sll", 13, 13, 2), St("w", 10, 13, 256),
    St("w", 14, 0, 320), JALR(0, 1, 0), Imm("add", 2, 2, -16), Imm("add", 10, 0, 72),
    St("w", 1, 2, 12), JAL(1, -48), Imm("add", 10, 0, 105), JAL(1, -56),
    Imm("add", 10, 0, 33), JAL(1, -64), Imm("add", 10, 0, 10), JAL(1, -72),
    Ld("w", 14, 0, 580), Ld("w", 15, 0, 576), Br("eq", 14, 15, -4), Imm("add", 15, 14, 1),
    Imm("and", 15, 15, 15), Imm("sll", 14, 14, 2), Ld("w", 12, 14, 512),
    St("w", 15, 0, 580), Ld("w", 13, 0, 320), Imm("add", 14, 13, 1), Imm("and", 14, 14, 15),
    Ld("w", 15, 0, 324), Br("eq", 14, 15, -4), Imm("sll", 13, 13, 2),
    Imm("and", 15, 12, 255), St("w", 15, 13, 256), St("w", 14, 0, 320), JAL(0, -68)>>
\* Up to the greeting: what the bench does next depends on the cycle in which
\* its write of TX_TAIL meets the echo, see Console.
Axi46 ==
  Test(UartTest, <<Reset, Put([w \in 64..72 |-> IF w = 72 THEN 0 ELSE W(\hDEAD, \hBEEF)]),
    Put([w \in {80, 81, 82, 144, 145, 146} |-> 0]), Run, Wait(2000),
    See(80 :> 4 @@ 81 :> 0), See(64 :> 72 @@ 65 :> 105 @@ 66 :> 33 @@ 67 :> 10)>>)

AxiSuite1 ==
  <<Axi0, Axi1, Axi3, Axi4, Axi5, Axi6, Axi7, Axi8, Axi9, Axi10, Axi11, Axi12, Axi13, Axi14,
    Axi15, Axi16, Axi17, Axi18, Axi19, Axi20, Axi21, Axi22, Axi23>>
AxiSuite2 ==
  <<Axi24, Axi25, Axi26, Axi27, Axi28, Axi29, Axi30, Axi31, Axi32, Axi33, Axi34, Axi35,
    Axi36, Axi37, Axi38, Axi39, Axi40, Axi41, Axi42, Axi43, Axi44, Axi45, Axi46>>
===============================================================================
