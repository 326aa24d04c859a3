------------------------------- MODULE MulDiv -------------------------------
(***************************************************************************)
(* The M extension in EX2: rtl/multiplier.sv, rtl/divider.sv and the       *)
(* control logic rtl/riscv_soc.sv keeps around each of them, one clock     *)
(* edge per step, with the arithmetic on words of W bits.                  *)
(*                                                                         *)
(* EX2 is fed by the environment: when nothing stalls, any request or a    *)
(* bubble enters; a load waiting in MEM may hold it, and a flush may empty *)
(* it at any time.  Pipeline gives the stalls and flushes their reasons and *)
(* leaves the arithmetic open; here it is the other way round.             *)
(*                                                                         *)
(* Registers nothing reads before the next start (the working registers of *)
(* an idle unit) are reset instead of kept.                                *)
(***************************************************************************)
EXTENDS Integers

CONSTANTS
  W,          \* bits in a word (32 in hardware)
  Pow2,       \* powers of two up to 2^W
  Requests,   \* the operations, with their operands, the program may ask for
  CanPause    \* whether the host clears RUN

MulOps == {"MUL", "MULH", "MULHSU", "MULHU"}
DivOps == {"DIV", "DIVU", "REM", "REMU"}
SignedOps == {"DIV", "REM"}

Base == Pow2[W]
Half == Pow2[W - 1]
Word == 0 .. Base - 1

ASSUME WidthAssumption == W \in Nat \ {0}
ASSUME PowAssumption ==
  /\ Pow2 \in [0 .. W -> Nat]
  /\ Pow2[0] = 1
  /\ \A n \in 0 .. W - 1 : Pow2[n + 1] = 2 * Pow2[n]
  /\ \A n \in 0 .. W : 0 < Pow2[n] /\ Pow2[n] <= Pow2[W]
ASSUME RequestAssumption ==
  /\ Requests \subseteq [op : MulOps \cup DivOps, a : Word, b : Word]
  /\ CanPause \in BOOLEAN

VARIABLES
  cpu_running,   \* RUN is set
  ex2,           \* the instruction in EX2 and its forwarded operands
  mul_running,   \* control bit of the multiplier
  stage1,        \* multiplier: registered operands, sign or zero extended
  mul_done, mul_result,
  div_running,   \* control bit of the divider
  div_state, work,   \* divider: state machine and working registers
  div_done, quotient, remainder

mulVars == <<stage1, mul_done, mul_result>>
divVars == <<div_state, work, div_done, quotient, remainder>>
vars == <<cpu_running, ex2, mul_running, div_running, mulVars, divVars>>

Bubble   == [valid |-> FALSE, op |-> "MUL", a |-> 0, b |-> 0]
NoFactor == [valid |-> FALSE, op |-> "MUL", a |-> 0, b |-> 0]
NoWork   == [count |-> 0, quot |-> 0, rem |-> 0, divisor |-> 0, dividend |-> 0,
             neg_quot |-> FALSE, neg_rem |-> FALSE]

-----------------------------------------------------------------------------
(* Words as numbers.                                                       *)

Negative(x) == x >= Half
Signed(x) == IF Negative(x) THEN x - Base ELSE x
\* Mutant: the carry out of the increment is kept.
NegateWide(x) == Base - x
Negate(x) == IF x = 0 THEN 0 ELSE Base - x       \* ~x + 1
Abs(op, x) == IF op \in SignedOps /\ Negative(x) THEN Negate(x) ELSE x

-----------------------------------------------------------------------------
(* Control logic in EX2.                                                   *)

IsMul == ex2.valid /\ ex2.op \in MulOps
IsDiv == ex2.valid /\ ex2.op \in DivOps
mul_busy == stage1.valid
div_busy == div_state = "RUNNING"

mul_start == IsMul /\ ~mul_running /\ ~mul_busy /\ cpu_running
div_start == IsDiv /\ ~div_running /\ ~div_busy /\ cpu_running
mul_stall == (mul_busy \/ mul_start) /\ ~mul_done
div_stall == (div_busy \/ div_start) /\ ~div_done
Stall == mul_stall \/ div_stall

\* What the ALU passes on for the operation in EX2.
Result == IF ex2.op \in MulOps THEN mul_result
          ELSE IF ex2.op \in {"DIV", "DIVU"} THEN quotient
          ELSE remainder

\* The running bits are set without regard to cpu_running.
Controls(flush) ==
  /\ mul_running' = (/\ ~flush /\ ~mul_done
                     /\ mul_running \/ (IsMul /\ ~mul_busy))
  /\ div_running' = (/\ ~flush /\ ~div_done
                     /\ div_running \/ (IsDiv /\ ~div_busy))

\* A flush empties EX2, a hold is a load's wait in MEM.
Ex2(flush, hold) ==
  \/ flush /\ ex2' = Bubble
  \/ /\ ~flush /\ ~hold /\ ~Stall /\ cpu_running
     /\ \/ ex2' = Bubble
        \/ \E r \in Requests : ex2' = [valid |-> TRUE, op |-> r.op, a |-> r.a, b |-> r.b]
  \/ ~flush /\ (hold \/ Stall \/ ~cpu_running) /\ UNCHANGED ex2

-----------------------------------------------------------------------------
(* Multiplier.                                                             *)

Extend(x, signed) == IF signed THEN Signed(x) ELSE x

MulIdle ==
  /\ ~mul_busy /\ ~mul_start
  /\ mul_done' = FALSE
  /\ UNCHANGED <<stage1, mul_result>>

MulBegin ==
  /\ ~mul_busy /\ mul_start
  /\ mul_done' = FALSE
  /\ stage1' = [valid |-> TRUE, op |-> ex2.op,
                a |-> Extend(ex2.a, ex2.op \in {"MUL", "MULH", "MULHSU"}),
                b |-> Extend(ex2.b, ex2.op \in {"MUL", "MULH"})]
  /\ UNCHANGED mul_result

\* Bits W-1..0 of the product, or bits 2W-1..W.
MulFinish ==
  /\ mul_busy
  /\ mul_done' = TRUE
  /\ stage1' = NoFactor
  /\ mul_result' = LET product == stage1.a * stage1.b
                   IN (IF stage1.op = "MUL" THEN product ELSE product \div Base) % Base

Multiplier == MulIdle \/ MulBegin \/ MulFinish

-----------------------------------------------------------------------------
(* Divider.                                                                *)

DivIdle ==
  /\ div_state = "IDLE" /\ ~div_start
  /\ div_done' = FALSE
  /\ UNCHANGED <<div_state, work, quotient, remainder>>

\* The special cases are answered on the edge of the start.
Shortcut(q, r) ==
  /\ div_done' = TRUE
  /\ quotient' = q /\ remainder' = r
  /\ UNCHANGED <<div_state, work>>

DivByZero ==
  /\ div_state = "IDLE" /\ div_start
  /\ ex2.b = 0
  /\ Shortcut(Base - 1, ex2.a)

DivOverflow ==
  /\ div_state = "IDLE" /\ div_start
  /\ ex2.op \in SignedOps /\ ex2.a = Half /\ ex2.b = Base - 1
  /\ Shortcut(Half, 0)

DivBegin ==
  /\ div_state = "IDLE" /\ div_start
  /\ ex2.b # 0
  /\ ~(ex2.op \in SignedOps /\ ex2.a = Half /\ ex2.b = Base - 1)
  /\ div_state' = "RUNNING"
  /\ work' = [count |-> 0, quot |-> 0, rem |-> 0,
              divisor |-> Abs(ex2.op, ex2.b), dividend |-> Abs(ex2.op, ex2.a),
              neg_quot |-> ex2.op \in SignedOps /\ Negative(ex2.a) # Negative(ex2.b),
              neg_rem  |-> ex2.op \in SignedOps /\ Negative(ex2.a)]
  /\ div_done' = FALSE
  /\ UNCHANGED <<quotient, remainder>>

\* The next bit of the dividend, most significant first.
NextBit == (work.dividend \div Pow2[W - 1 - work.count]) % 2
\* A shift keeps W bits: the top bit falls off.
Shift(x, bit) == ((2 * x) % Base) + bit
rem_shifted == Shift(work.rem, NextBit)
\* Mutant: the subtraction is only tried when the remainder exceeds the divisor.
sub_ok_strict == rem_shifted > work.divisor
\* Mutant: the borrow is lost, as in a subtraction of W bits.
sub_ok_lost == TRUE
sub_ok == rem_shifted >= work.divisor
next_rem  == IF sub_ok THEN (rem_shifted - work.divisor) % Base ELSE rem_shifted
next_quot == Shift(work.quot, IF sub_ok THEN 1 ELSE 0)

\* Mutant: the iteration is not counted.
IterateUncounted ==
  /\ div_state = "RUNNING" /\ work.count # W - 1
  /\ work' = [work EXCEPT !.quot = next_quot, !.rem = next_rem]
  /\ div_done' = FALSE
  /\ UNCHANGED <<div_state, quotient, remainder>>
Iterate ==
  /\ div_state = "RUNNING" /\ work.count # W - 1
  /\ work' = [work EXCEPT !.count = work.count + 1,
                          !.quot = next_quot, !.rem = next_rem]
  /\ div_done' = FALSE
  /\ UNCHANGED <<div_state, quotient, remainder>>

Finish ==
  /\ div_state = "RUNNING" /\ work.count = W - 1
  /\ div_state' = "DONE"
  /\ work' = NoWork
  /\ quotient'  = IF work.neg_quot THEN Negate(next_quot) ELSE next_quot
  /\ remainder' = IF work.neg_rem THEN Negate(next_rem) ELSE next_rem
  /\ div_done' = TRUE

\* A start in this cycle would be ignored.
Rest ==
  /\ div_state = "DONE"
  /\ div_state' = "IDLE"
  /\ div_done' = FALSE
  /\ UNCHANGED <<work, quotient, remainder>>

Divider == DivIdle \/ DivByZero \/ DivOverflow \/ DivBegin \/ Iterate \/ Finish \/ Rest

-----------------------------------------------------------------------------
Init ==
  /\ cpu_running = TRUE
  /\ ex2 = Bubble
  /\ mul_running = FALSE /\ stage1 = NoFactor
  /\ mul_done = FALSE /\ mul_result = 0
  /\ div_running = FALSE /\ div_state = "IDLE" /\ work = NoWork
  /\ div_done = FALSE /\ quotient = 0 /\ remainder = 0

Clock ==
  \E flush, hold \in BOOLEAN :
    /\ Controls(flush) /\ Ex2(flush, hold)
    /\ Multiplier /\ Divider
    /\ cpu_running' \in IF CanPause THEN BOOLEAN ELSE {TRUE}

\* The clock never stops.
Spec == Init /\ [][Clock]_vars /\ WF_vars(Clock)

\* The host stops the core while an operation is in EX2 and its unit is not at work:
\* the running bit is set, and nothing started (rtl/riscv_soc.sv:824, :889).
StopAtRisk ==
  /\ ~cpu_running
  /\ \/ IsMul /\ ~mul_running /\ ~mul_busy
     \/ IsDiv /\ ~div_running /\ ~div_busy

\* The behaviours in which it never does.
SafeClock == Clock /\ ~StopAtRisk'
StopSpec == Init /\ [][SafeClock]_vars /\ WF_vars(SafeClock)

-----------------------------------------------------------------------------
(* Properties.                                                             *)

\* What the M extension asks of an operation: products of signed or unsigned
\* words, quotients rounded towards zero with the sign of the dividend on the
\* remainder, all ones and the dividend for a division by zero, and the
\* dividend and zero for the one quotient that does not fit.
LeftFactor(op, a)  == IF op = "MULHU" THEN a ELSE Signed(a)
RightFactor(op, b) == IF op \in {"MUL", "MULH"} THEN Signed(b) ELSE b
Product(op, a, b) ==
  LET p == LeftFactor(op, a) * RightFactor(op, b)
  IN (IF op = "MUL" THEN p ELSE p \div Base) % Base

Num(op, x) == IF op \in SignedOps THEN Signed(x) ELSE x
Magnitude(n) == IF n < 0 THEN -n ELSE n
Quotient(op, a, b) ==
  LET n == Num(op, a)
      d == Num(op, b)
      q == Magnitude(n) \div Magnitude(d)
  IN IF b = 0 THEN Base - 1 ELSE (IF (n < 0) # (d < 0) THEN -q ELSE q) % Base
Remainder(op, a, b) ==
  LET n == Num(op, a)
      r == Magnitude(n) % Magnitude(Num(op, b))
  IN IF b = 0 THEN a ELSE (IF n < 0 THEN -r ELSE r) % Base

Answer(op, a, b) ==
  IF op \in MulOps THEN Product(op, a, b)
  ELSE IF op \in {"DIV", "DIVU"} THEN Quotient(op, a, b)
  ELSE Remainder(op, a, b)

\* Every register keeps a value of its width; in particular the divider's
\* counter stops at the last bit (rtl/divider.sv:65) and a negated quotient or
\* remainder is a word.
TypeOK ==
  /\ cpu_running \in BOOLEAN
  /\ ex2 \in [valid : BOOLEAN, op : MulOps \cup DivOps, a : Word, b : Word]
  /\ mul_running \in BOOLEAN /\ div_running \in BOOLEAN
  /\ stage1 \in [valid : BOOLEAN, op : MulOps, a : -Base .. Base, b : -Base .. Base]
  /\ mul_done \in BOOLEAN /\ mul_result \in Word
  /\ div_state \in {"IDLE", "RUNNING", "DONE"}
  /\ work \in [count : 0 .. W - 1, quot : Word, rem : Word, divisor : Word,
               dividend : Word, neg_quot : BOOLEAN, neg_rem : BOOLEAN]
  /\ div_done \in BOOLEAN /\ quotient \in Word /\ remainder \in Word

\* Whenever the core runs and neither unit stalls the pipeline, the operation in EX2 may leave with
\* the ALU's result: it is the one the M extension asks for, whatever was
\* flushed, held or computed before.
ReadyIsRight ==
  ex2.valid /\ cpu_running /\ ~Stall => Result = Answer(ex2.op, ex2.a, ex2.b)

\* The divider shifts its remainder without a bit to spare (rtl/divider.sv:134):
\* the bit that falls off is never set, even for divisors above half the range.
RemainderFits == div_busy => 2 * work.rem + NextBit \in Word

\* Why it is so.  First, a unit works or answers for the instruction in EX2 or,
\* after a flush, for none.
UnitOwned ==
  /\ mul_busy \/ mul_done => ~ex2.valid \/ (IsMul /\ mul_running)
  /\ div_busy \/ div_done => ~ex2.valid \/ (IsDiv /\ div_running)
  /\ ~(mul_busy /\ mul_done) /\ ~(div_busy /\ div_done)
  /\ div_state = "DONE" => div_done
\* And the running bit means what its name says, in StopSpec.
UnitLive ==
  /\ mul_running => IsMul /\ (mul_busy \/ mul_done)
  /\ div_running => IsDiv /\ (div_busy \/ div_done)

\* The multiplier holds the factors, then the product.
MulRight ==
  /\ mul_busy /\ ex2.valid => /\ stage1.op = ex2.op
                              /\ stage1.a = LeftFactor(ex2.op, ex2.a)
                              /\ stage1.b = RightFactor(ex2.op, ex2.b)
  /\ mul_done /\ ex2.valid => mul_result = Product(ex2.op, ex2.a, ex2.b)

\* What the divider works on, and what it has done: the bits of the dividend
\* shifted in so far are a number, which it has divided.
WorkOwned ==
  div_busy /\ ex2.valid =>
    /\ ex2.b # 0
    /\ work.dividend = Abs(ex2.op, ex2.a) /\ work.divisor = Abs(ex2.op, ex2.b)
    /\ work.neg_quot = (ex2.op \in SignedOps /\ Negative(ex2.a) # Negative(ex2.b))
    /\ work.neg_rem = (ex2.op \in SignedOps /\ Negative(ex2.a))
Prefix == work.dividend \div Pow2[W - work.count]
PrefixDivided ==
  div_busy => /\ Prefix < Pow2[work.count]
              /\ work.quot * work.divisor + work.rem = Prefix
              /\ work.rem < work.divisor

DoneRight ==
  div_done /\ ex2.valid => /\ quotient = Quotient(ex2.op, ex2.a, ex2.b)
                           /\ remainder = Remainder(ex2.op, ex2.a, ex2.b)

UnitInv == UnitOwned /\ MulRight /\ WorkOwned /\ PrefixDivided /\ DoneRight

\* The edges a unit still needs: it registers the operands, then works on them.
MulLeft == IF mul_start THEN 2 ELSE IF mul_busy THEN 1 ELSE 0
DivLeft == IF div_start THEN W + 1 ELSE IF div_busy THEN W - work.count ELSE 0

StallLeft == MulLeft + DivLeft

\* A stall is over after as many edges as its operation needs, W + 1 for a division,
\* whatever is held or flushed meanwhile: no edge of a stall leaves a unit where it
\* was, or starts the operation once more (rtl/riscv_soc.sv:824, rtl/divider.sv:65).
StallShrinks == [][Stall => StallLeft' < StallLeft]_vars

\* A unit that stalls the pipeline answers: the stall ends.
StallEnds == Stall ~> ~Stall
=============================================================================
