----------------------------- MODULE AtomicTests ------------------------------
(***************************************************************************)
(* The tests of tb/tb_atomic_comprehensive.cpp and tb/tb_atomic.cpp: LR.W  *)
(* and SC.W at the address 0x10000400 of the program, word 256.            *)
(***************************************************************************)
EXTENDS Program

Atomic(body, pre, n, out) ==
  Test(<<LUI(1, \h10000), Imm("add", 1, 1, 1024)>> \o body \o <<EBREAK>>, Batch(pre, n,
    out))

Atomic1BasicLr ==
  Atomic(<<LR(2, 1), St("w", 2, 1, 4)>>, 256 :> W(\hDEAD, \hBEEF) @@ 257 :> 0, 100,
    257 :> W(\hDEAD, \hBEEF))
Atomic2BasicScSuccess ==
  Atomic(<<LR(2, 1), Imm("add", 3, 2, 1), SC(4, 3, 1), St("w", 4, 1, 4)>>, 256 :> 100 @@
    257 :> -1, 100, 256 :> 101 @@ 257 :> 0)
Atomic3ScWithoutLr ==
  Atomic(<<Imm("add", 3, 0, 999), SC(4, 3, 1), St("w", 4, 1, 4)>>, 256 :> 42 @@ 257 :> -1,
    100, 256 :> 42 @@ 257 :> 1)
Atomic4ScDifferentAddr ==
  Atomic(<<Imm("add", 5, 1, 16), LR(2, 1), Imm("add", 3, 0, 999), SC(4, 3, 5),
    St("w", 4, 1, 4)>>, 256 :> 42 @@ 257 :> -1 @@ 260 :> 77, 100, 260 :> 77 @@ 257 :> 1)
Atomic5ScAfterStoreSameAddr ==
  Atomic(<<LR(2, 1), Imm("add", 6, 0, 200), St("w", 6, 1, 0), Imm("add", 3, 0, 300),
    SC(4, 3, 1), St("w", 4, 1, 4)>>, 256 :> 100 @@ 257 :> -1, 150, 256 :> 200 @@ 257 :> 1)
Atomic6ScAfterStoreDiffAddr ==
  Atomic(<<Imm("add", 5, 1, 16), LR(2, 1), Imm("add", 6, 0, 200), St("w", 6, 5, 0),
    Imm("add", 3, 2, 1), SC(4, 3, 1), St("w", 4, 1, 4)>>, 256 :> 100 @@ 257 :> -1 @@
    260 :> 0, 150, 256 :> 101 @@ 257 :> 0 @@ 260 :> 200)
Atomic7MultipleLr ==
  Atomic(<<Imm("add", 5, 1, 16), LR(2, 1), LR(2, 5), Imm("add", 3, 0, 999), SC(4, 3, 5),
    St("w", 4, 1, 4), SC(6, 3, 1), St("w", 6, 1, 8)>>, 256 :> 42 @@ 257 :> -1 @@
    258 :> -1 @@ 260 :> 77, 200, 260 :> 999 @@ 257 :> 0 @@ 256 :> 42 @@ 258 :> 1)
Atomic8BackToBack ==
  Atomic(<<Imm("add", 3, 0, 123), LR(2, 1), SC(4, 3, 1), St("w", 4, 1, 4)>>, 256 :> 50 @@
    257 :> -1, 100, 256 :> 123 @@ 257 :> 0)
Atomic9LrDataHazard ==
  Atomic(<<LR(2, 1), Op("add", 3, 2, 2), St("w", 3, 1, 4)>>, 256 :> 25 @@ 257 :> 0, 100,
    257 :> 50)
Atomic10ScResultHazard ==
  Atomic(<<LR(2, 1), Imm("add", 3, 2, 1), SC(4, 3, 1), Imm("add", 5, 4, 100),
    St("w", 5, 1, 4)>>, 256 :> 50 @@ 257 :> -1, 150, 257 :> 100)
Atomic11SpinlockPattern ==
  Atomic(<<LR(2, 1), Br("ne", 2, 0, 28), Imm("add", 3, 0, 1), SC(4, 3, 1),
    Br("ne", 4, 0, -12), Imm("add", 5, 0, 42), St("w", 5, 1, 4), EBREAK,
    Imm("add", 5, 0, 99), St("w", 5, 1, 4)>>, 256 :> 0 @@ 257 :> 0, 200, 256 :> 1 @@
    257 :> 42)
Atomic12DoubleSc ==
  Atomic(<<LR(2, 1), Imm("add", 3, 2, 1), SC(4, 3, 1), St("w", 4, 1, 4),
    Imm("add", 3, 3, 1), SC(5, 3, 1), St("w", 5, 1, 8)>>, 256 :> 100 @@ 257 :> -1 @@
    258 :> -1, 200, 256 :> 101 @@ 257 :> 0 @@ 258 :> 1)

\* Its first word is LUI x0, where the comment says LUI x1: x1 is 0x400 and
\* names the same word only because a new simulation's registers are zero.
AtomicFirst ==
  Fresh(<<LUI(0, \h10000), Imm("add", 1, 1, 1024), LR(2, 1), Imm("add", 3, 2, 1),
    SC(4, 3, 1), St("w", 4, 1, 4), SC(5, 3, 1), St("w", 5, 1, 8), EBREAK>>,
    <<Put(256 :> 42 @@ 257 :> W(\hDEAD, \hBEEF) @@ 258 :> W(\hDEAD, \hBEEF)), Run,
    Wait(150), Stop, See(256 :> 43 @@ 257 :> 0 @@ 258 :> 1)>>)
AtomicSuite ==
  <<Atomic1BasicLr, Atomic2BasicScSuccess, Atomic3ScWithoutLr, Atomic4ScDifferentAddr,
    Atomic5ScAfterStoreSameAddr, Atomic6ScAfterStoreDiffAddr, Atomic7MultipleLr,
    Atomic8BackToBack, Atomic9LrDataHazard, Atomic10ScResultHazard, Atomic11SpinlockPattern,
    Atomic12DoubleSc, AtomicFirst>>
===============================================================================
