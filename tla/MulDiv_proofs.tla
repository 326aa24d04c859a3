---------------------------- MODULE MulDiv_proofs ----------------------------
(***************************************************************************)
(* The divider is right for words of every width.                          *)
(***************************************************************************)
EXTENDS MulDiv, TLAPS

-----------------------------------------------------------------------------
(* Arithmetic.                                                             *)

\* A quotient and a remainder in range are those of the division.
LEMMA DivisionIsUnique ==
  ASSUME NEW n \in Int, NEW d \in Nat \ {0}, NEW q \in Int, NEW r \in 0 .. d - 1,
         n = q * d + r
  PROVE  n \div d = q /\ n % d = r
<1>1. n = d * (n \div d) + (n % d) /\ n % d \in 0 .. d - 1 /\ n \div d \in Int
  OBVIOUS
<1>. DEFINE q2 == n \div d
            r2 == n % d
<1>2. q2 \in Int /\ r2 \in 0 .. d - 1 /\ d * (q2 - q) = r - r2
  BY <1>1
<1>. HIDE DEF q2, r2
<1>3. q2 = q
  <2>1. CASE q2 >= q + 1
    <3>1. d * (q2 - q) >= d
      BY <1>2, <2>1
    <3>. QED BY <3>1, <1>2
  <2>2. CASE q2 <= q - 1
    <3>1. d * (q2 - q) <= -d
      BY <1>2, <2>2
    <3>. QED BY <3>1, <1>2
  <2>. QED BY <1>2, <2>1, <2>2
<1>4. r2 = r
  BY <1>2, <1>3
<1>. QED BY <1>3, <1>4 DEF q2, r2

\* One more bit of a word: what the divider has seen of the dividend grows by it.
LEMMA PrefixStep ==
  ASSUME NEW n \in Nat, NEW p \in Nat \ {0}
  PROVE  /\ n \div p = 2 * (n \div (2 * p)) + ((n \div p) % 2)
         /\ n \div p \in Nat /\ n \div (2 * p) \in Nat /\ (n \div p) % 2 \in 0 .. 1
<1>. DEFINE q == n \div p
            r == n % p
            h == q \div 2
            b == q % 2
<1>1. q \in Nat /\ r \in 0 .. p - 1 /\ n = q * p + r
  OBVIOUS
<1>. HIDE DEF q, r
<1>2. h \in Nat /\ b \in 0 .. 1 /\ q = 2 * h + b
  BY <1>1
<1>. HIDE DEF h, b
<1>3. n = h * (2 * p) + (b * p + r)
  BY <1>1, <1>2
<1>4. b * p + r \in 0 .. 2 * p - 1
  <2>1. CASE b = 0
    BY <2>1, <1>1
  <2>2. CASE b = 1
    BY <2>2, <1>1
  <2>. QED BY <1>2, <2>1, <2>2
<1>5. n \div (2 * p) = h
  <2>. DEFINE d == 2 * p
              s == b * p + r
  <2>1. d \in Nat \ {0} /\ s \in 0 .. d - 1 /\ n = h * d + s
    BY <1>3, <1>4
  <2>. HIDE DEF d, s
  <2>2. n \div d = h
    BY <2>1, <1>2, DivisionIsUnique
  <2>. QED BY <2>2 DEF d
<1>. QED BY <1>1, <1>2, <1>5 DEF q, h, b

-----------------------------------------------------------------------------
(* Words.                                                                  *)

LEMMA BaseFacts ==
  /\ Base \in Nat \ {0} /\ Half \in Nat \ {0} /\ Base = 2 * Half
  /\ Pow2[0] = 1
  /\ \A n \in 0 .. W : Pow2[n] \in Nat \ {0} /\ Pow2[n] <= Base
  /\ \A n \in 0 .. W - 1 : Pow2[n + 1] = 2 * Pow2[n]
<1>1. W \in 0 .. W /\ W - 1 \in 0 .. W /\ W - 1 \in 0 .. W - 1 /\ (W - 1) + 1 = W
  BY WidthAssumption
<1>2. \A n \in 0 .. W : Pow2[n] \in Nat \ {0} /\ Pow2[n] <= Base
  BY PowAssumption DEF Base
<1>3. Base = 2 * Half
  BY <1>1, PowAssumption DEF Base, Half
<1>. QED BY <1>1, <1>2, <1>3, PowAssumption DEF Base, Half

\* Wrapping a number that is at most a word away from zero.
LEMMA WrapFacts ==
  ASSUME NEW x \in Word
  PROVE  x % Base = x /\ (-x) % Base = Negate(x) /\ Negate(x) \in Word
<1>1. Base \in Nat \ {0} /\ x \in 0 .. Base - 1
  BY BaseFacts DEF Word
<1>2. x % Base = x
  <2>1. x = 0 * Base + x
    BY <1>1
  <2>. QED BY <1>1, <2>1, DivisionIsUnique
<1>3. CASE x = 0
  BY <1>1, <1>2, <1>3 DEF Negate, Word
<1>4. CASE x # 0
  <2>1. -x = (-1) * Base + (Base - x) /\ Base - x \in 0 .. Base - 1
    BY <1>1, <1>4
  <2>2. (-x) % Base = Base - x
    BY <1>1, <2>1, DivisionIsUnique
  <2>. QED BY <1>2, <1>4, <2>1, <2>2 DEF Negate, Word
<1>. QED BY <1>3, <1>4

\* The absolute value the divider works with is that of the signed number.
LEMMA AbsFacts ==
  ASSUME NEW op, NEW x \in Word
  PROVE  /\ Abs(op, x) = Magnitude(Num(op, x))
         /\ Abs(op, x) \in Word
         /\ x # 0 => Abs(op, x) # 0
         /\ (Num(op, x) < 0) = (op \in SignedOps /\ Negative(x))
<1>. x \in 0 .. Base - 1 /\ Base \in Nat \ {0} /\ Half \in Nat \ {0} /\ Base = 2 * Half
  BY BaseFacts DEF Word
<1>1. CASE op \in SignedOps /\ Negative(x)
  BY <1>1 DEF Abs, Magnitude, Num, Signed, Negate, Negative, Word
<1>2. CASE ~(op \in SignedOps /\ Negative(x))
  BY <1>2 DEF Abs, Magnitude, Num, Signed, Negative, Word
<1>. QED BY <1>1, <1>2

\* A division of the absolute values, with the signs put back, is the answer.
LEMMA SignsPutBack ==
  ASSUME NEW op, NEW a \in Word, NEW b \in Word, b # 0,
         NEW q \in Word, NEW r \in Word,
         q * Abs(op, b) + r = Abs(op, a), r < Abs(op, b)
  PROVE  /\ Quotient(op, a, b) =
              IF op \in SignedOps /\ Negative(a) # Negative(b) THEN Negate(q) ELSE q
         /\ Remainder(op, a, b) =
              IF op \in SignedOps /\ Negative(a) THEN Negate(r) ELSE r
<1>. DEFINE n == Abs(op, a)
            d == Abs(op, b)
<1>1. n = Magnitude(Num(op, a)) /\ d = Magnitude(Num(op, b))
      /\ n \in Word /\ d \in Word /\ d # 0
  BY AbsFacts
<1>2. (Num(op, a) < 0) = (op \in SignedOps /\ Negative(a))
      /\ (Num(op, b) < 0) = (op \in SignedOps /\ Negative(b))
  BY AbsFacts
<1>3. n = q * d + r /\ r < d
  OBVIOUS
<1>. HIDE DEF n, d
<1>4. n \in Int /\ d \in Nat \ {0} /\ q \in Int /\ r \in 0 .. d - 1
  BY <1>1, <1>3, BaseFacts DEF Word
<1>5. n \div d = q /\ n % d = r
  BY <1>3, <1>4, DivisionIsUnique
<1>6. /\ q % Base = q /\ (-q) % Base = Negate(q)
      /\ r % Base = r /\ (-r) % Base = Negate(r)
  BY WrapFacts
<1>7. Quotient(op, a, b) = IF (Num(op, a) < 0) # (Num(op, b) < 0) THEN Negate(q) ELSE q
  BY <1>1, <1>5, <1>6 DEF Quotient
<1>8. Remainder(op, a, b) = IF Num(op, a) < 0 THEN Negate(r) ELSE r
  BY <1>1, <1>5, <1>6 DEF Remainder
<1>9. CASE op \in SignedOps
  <2>. HIDE DEF Negative
  <2>1. (Num(op, a) < 0) = Negative(a) /\ (Num(op, b) < 0) = Negative(b)
    BY <1>2, <1>9 DEF Negative
  <2>. QED BY <1>7, <1>8, <1>9, <2>1
<1>10. CASE op \notin SignedOps
  <2>1. (Num(op, a) < 0) = FALSE /\ (Num(op, b) < 0) = FALSE
    BY <1>2, <1>10
  <2>. QED BY <1>7, <1>8, <1>10, <2>1
<1>. QED BY <1>9, <1>10

-----------------------------------------------------------------------------
(* One iteration of the divider.                                           *)

Seen == work.dividend \div Pow2[W - 1 - work.count]

LEMMA ProductOfNaturals ==
  ASSUME NEW q \in Nat, NEW d \in Nat \ {0}
  PROVE  q * d \in Nat /\ q <= q * d
<1>1. q * d = q * (d - 1) + q /\ q * (d - 1) \in Nat
  OBVIOUS
<1>. QED BY <1>1

LEMMA IterationRight ==
  ASSUME TypeOK, PrefixDivided, div_busy
  PROVE  /\ 2 * work.rem + NextBit \in Word
         /\ next_quot \in Word /\ next_rem \in Word
         /\ next_quot * work.divisor + next_rem = Seen
         /\ next_rem < work.divisor
         /\ Seen < 2 * Pow2[work.count]
<1>. DEFINE c == work.count
            n == work.dividend
            d == work.divisor
            q == work.quot
            r == work.rem
            m == Pow2[W - 1 - c]
            top == Pow2[c]
<1>1. /\ c \in 0 .. W - 1 /\ W \in Nat \ {0} /\ Base \in Nat \ {0}
      /\ n \in Nat /\ d \in Nat /\ d < Base /\ q \in Nat /\ r \in Nat
  BY BaseFacts, WidthAssumption DEF TypeOK, Word
<1>2. m \in Nat \ {0} /\ Pow2[W - c] = 2 * m
  <2>1. W - 1 - c \in 0 .. W - 1 /\ (W - 1 - c) + 1 = W - c /\ W - 1 - c \in 0 .. W
    BY <1>1
  <2>. HIDE DEF c
  <2>. QED BY <2>1, BaseFacts
<1>3. top \in Nat \ {0} /\ 2 * top <= Base
  <2>1. c \in 0 .. W /\ c + 1 \in 0 .. W
    BY <1>1
  <2>. HIDE DEF c
  <2>. QED BY <1>1, <2>1, BaseFacts
<1>4. Prefix < top /\ q * d + r = Prefix /\ r < d /\ Prefix = n \div (2 * m)
  BY <1>2 DEF PrefixDivided, Prefix
<1>5. /\ Seen = 2 * Prefix + NextBit
      /\ Seen \in Nat /\ Prefix \in Nat /\ NextBit \in 0 .. 1
  <2>. HIDE DEF n, m
  <2>1. n \div m = 2 * (n \div (2 * m)) + ((n \div m) % 2)
        /\ n \div m \in Nat /\ n \div (2 * m) \in Nat /\ (n \div m) % 2 \in 0 .. 1
    BY <1>1, <1>2, PrefixStep
  <2>2. Seen = n \div m /\ NextBit = (n \div m) % 2
    BY DEF Seen, NextBit, n, m
  <2>. QED BY <1>4, <2>1, <2>2
<1>6. q * d \in Nat /\ q <= q * d
  <2>. HIDE DEF q, d, r
  <2>. QED BY <1>1, <1>4, ProductOfNaturals
<1>. HIDE DEF c, n, d, q, r, m, top
<1>7. /\ 2 * r \in Word /\ 2 * q \in Word
      /\ 2 * r + NextBit \in Word /\ 2 * q + 1 \in Word
  BY <1>1, <1>3, <1>4, <1>5, <1>6 DEF Word
<1>8. rem_shifted = 2 * r + NextBit
  BY <1>7, WrapFacts DEF rem_shifted, Shift, r
<1>9. next_quot = 2 * q + (IF sub_ok THEN 1 ELSE 0)
  BY <1>7, WrapFacts DEF next_quot, Shift, q
<1>10. sub_ok <=> 2 * r + NextBit >= d
  BY <1>8 DEF sub_ok, d
<1>11. Seen < 2 * top
  BY <1>3, <1>4, <1>5
<1>12. \E qd \in Nat : /\ q * d = qd /\ (2 * q) * d = 2 * qd
                       /\ (2 * q + 1) * d = 2 * qd + d
  BY <1>1, <1>6
<1>13. PICK qd \in Nat : /\ q * d = qd /\ (2 * q) * d = 2 * qd
                         /\ (2 * q + 1) * d = 2 * qd + d
  BY <1>12
<1>14. qd + r = Prefix /\ Seen = 2 * Prefix + NextBit
  BY <1>4, <1>5, <1>13
<1>15. CASE 2 * r + NextBit >= d
  <2>1. next_quot = 2 * q + 1
    BY <1>9, <1>10, <1>15
  <2>2. 2 * r + NextBit - d \in Word
    BY <1>1, <1>5, <1>7, <1>15 DEF Word
  <2>3. next_rem = 2 * r + NextBit - d
    <3>1. (2 * r + NextBit - d) % Base = 2 * r + NextBit - d
      BY <2>2, WrapFacts
    <3>2. next_rem = (2 * r + NextBit - d) % Base
      <4>1. next_rem = (rem_shifted - d) % Base
        BY <1>10, <1>15 DEF next_rem, d
      <4>. QED BY <1>1, <1>5, <1>8, <4>1
    <3>. QED BY <3>1, <3>2
  <2>4. next_rem < d
    BY <1>1, <1>4, <1>5, <2>3
  <2>5. next_quot * d = 2 * qd + d
    BY <1>13, <2>1
  <2>6. next_quot * d + next_rem = Seen
    BY <1>1, <1>5, <1>14, <2>3, <2>5
  <2>7. next_quot \in Word /\ next_rem \in Word
    BY <1>7, <2>1, <2>2, <2>3
  <2>. QED BY <1>7, <1>11, <2>4, <2>6, <2>7 DEF r, d, top, c
<1>16. CASE 2 * r + NextBit < d
  <2>1. next_quot = 2 * q /\ next_rem = 2 * r + NextBit
    BY <1>1, <1>5, <1>8, <1>9, <1>10, <1>16 DEF next_rem
  <2>2. next_rem < d
    BY <1>16, <2>1
  <2>3. next_quot * d = 2 * qd
    BY <1>13, <2>1
  <2>4. next_quot * d + next_rem = Seen
    BY <1>1, <1>5, <1>14, <2>1, <2>3
  <2>5. next_quot \in Word /\ next_rem \in Word
    BY <1>7, <2>1
  <2>. QED BY <1>7, <1>11, <2>2, <2>4, <2>5 DEF r, d, top, c
<1>. QED BY <1>1, <1>5, <1>15, <1>16

-----------------------------------------------------------------------------
(* The invariant.                                                          *)

Ops == MulOps \cup DivOps

LEMMA InitRight == Init => TypeOK /\ UnitInv
<1>1. 0 \in Word /\ 0 \in -Base .. Base /\ 0 \in 0 .. W - 1 /\ "MUL" \in MulOps
  BY BaseFacts, WidthAssumption DEF Word, MulOps
<1>2. /\ Bubble \in [valid : BOOLEAN, op : MulOps \cup DivOps, a : Word, b : Word]
      /\ NoFactor \in [valid : BOOLEAN, op : MulOps, a : -Base .. Base, b : -Base .. Base]
  BY <1>1 DEF Bubble, NoFactor
<1>3. NoWork \in [count : 0 .. W - 1, quot : Word, rem : Word, divisor : Word,
                  dividend : Word, neg_quot : BOOLEAN, neg_rem : BOOLEAN]
  BY <1>1 DEF NoWork
<1>4. Init => TypeOK
  BY <1>1, <1>2, <1>3 DEF Init, TypeOK
<1>5. Init => UnitInv
  BY DEF Init, UnitInv, UnitOwned, MulRight, WorkOwned, PrefixDivided, DoneRight,
         Bubble, NoFactor, mul_busy, div_busy
<1>. QED BY <1>4, <1>5

\* What an edge does to EX2.
LEMMA Ex2Step ==
  ASSUME TypeOK, NEW flush \in BOOLEAN, NEW hold \in BOOLEAN, Ex2(flush, hold)
  PROVE  /\ ex2' \in [valid : BOOLEAN, op : Ops, a : Word, b : Word]
         /\ \/ flush
            \/ ~flush /\ ex2' = ex2
            \/ ~flush /\ ~Stall /\ cpu_running
         /\ ex2'.valid => ~flush
         /\ flush => ~ex2'.valid
<1>1. Bubble \in [valid : BOOLEAN, op : Ops, a : Word, b : Word] /\ ~Bubble.valid
  BY BaseFacts DEF Bubble, Ops, MulOps, Word
<1>2. CASE ex2' = Bubble /\ (flush \/ (~flush /\ ~Stall /\ cpu_running))
  BY <1>1, <1>2
<1>3. CASE /\ ~flush /\ ~Stall /\ cpu_running
           /\ \E r \in Requests : ex2' = [valid |-> TRUE, op |-> r.op, a |-> r.a, b |-> r.b]
  BY <1>3, RequestAssumption DEF Ops
<1>4. CASE ~flush /\ ex2' = ex2
  BY <1>4 DEF TypeOK, Ops
<1>5. \/ ex2' = Bubble /\ (flush \/ (~flush /\ ~Stall /\ cpu_running))
      \/ /\ ~flush /\ ~Stall /\ cpu_running
         /\ \E r \in Requests : ex2' = [valid |-> TRUE, op |-> r.op, a |-> r.a, b |-> r.b]
      \/ ~flush /\ ex2' = ex2
  BY DEF Ex2
<1>. QED BY <1>2, <1>3, <1>4, <1>5

\* Every step keeps each unit the servant of the instruction in EX2.
LEMMA OwnedStep ==
  ASSUME TypeOK, UnitInv, NEW flush \in BOOLEAN, NEW hold \in BOOLEAN,
         Controls(flush), Ex2(flush, hold), Multiplier, Divider
  PROVE  UnitOwned' /\ (UnitLive /\ ~StopAtRisk => UnitLive')
<1>. USE DEF IsMul, IsDiv, mul_busy, div_busy, MulOps, DivOps
<1>1. UnitOwned
  BY DEF UnitInv
<1>2. /\ \/ flush
         \/ ~flush /\ ex2' = ex2
         \/ ~flush /\ ~Stall /\ cpu_running
      /\ flush => ~ex2'.valid
  BY Ex2Step
<1>3. Stall <=> mul_stall \/ div_stall
  BY DEF Stall
<1>4. /\ mul_running \in BOOLEAN /\ div_running \in BOOLEAN
      /\ mul_done \in BOOLEAN /\ div_done \in BOOLEAN /\ ex2.valid \in BOOLEAN
      /\ stage1.valid \in BOOLEAN /\ div_state \in {"IDLE", "RUNNING", "DONE"}
  BY DEF TypeOK
<1>5. /\ mul_running' = (/\ ~flush /\ ~mul_done
                         /\ mul_running \/ (IsMul /\ ~mul_busy))
      /\ div_running' = (/\ ~flush /\ ~div_done
                         /\ div_running \/ (IsDiv /\ ~div_busy))
  BY DEF Controls
\* After the edge the multiplier works if it was started, and answers if it worked.
<1>6. /\ mul_busy' <=> mul_start
      /\ mul_done' <=> mul_busy
  BY <1>1, <1>4 DEF Multiplier, MulIdle, MulBegin, MulFinish, NoFactor, mul_start
<1>7. /\ div_busy' => div_start \/ div_busy
      /\ div_done' => div_start \/ div_busy
      /\ div_start \/ div_busy => div_busy' \/ div_done'
      /\ ~(div_busy' /\ div_done')
      /\ div_state' = "DONE" => div_done'
  BY <1>1, <1>4 DEF UnitOwned, Divider, DivIdle, DivByZero, DivOverflow, Shortcut,
                    DivBegin, Iterate, Finish, Rest, div_start
<1>8. /\ mul_busy' \/ mul_done' => ~ex2'.valid \/ (IsMul /\ mul_running)'
      /\ ~(mul_busy' /\ mul_done')
  BY <1>1, <1>2, <1>3, <1>4, <1>5, <1>6 DEF UnitOwned, mul_start, mul_stall
<1>9. div_busy' \/ div_done' => ~ex2'.valid \/ (IsDiv /\ div_running)'
  BY <1>1, <1>2, <1>3, <1>4, <1>5, <1>7 DEF UnitOwned, div_start, div_stall
\* The running bit of a unit that was idle is set for the operation that starts it.
<1>10. ASSUME UnitLive, ~StopAtRisk, mul_running' PROVE IsMul' /\ (mul_busy' \/ mul_done')
  <2>1. mul_busy \/ mul_start
    BY <1>4, <1>5, <1>10 DEF UnitLive, StopAtRisk, mul_start
  <2>. QED
    BY <1>1, <1>2, <1>3, <1>4, <1>5, <1>6, <1>10, <2>1
    DEF UnitOwned, UnitLive, mul_start, mul_stall
<1>11. ASSUME UnitLive, ~StopAtRisk, div_running' PROVE IsDiv' /\ (div_busy' \/ div_done')
  <2>1. div_busy \/ div_start
    BY <1>4, <1>5, <1>11 DEF UnitLive, StopAtRisk, div_start
  <2>. QED
    BY <1>1, <1>2, <1>3, <1>4, <1>5, <1>7, <1>11, <2>1
    DEF UnitOwned, UnitLive, div_start, div_stall
<1>. QED BY <1>7, <1>8, <1>9, <1>10, <1>11 DEF UnitOwned, UnitLive

\* While a unit starts or works, EX2 keeps its instruction or is flushed.
LEMMA WorkHolds ==
  ASSUME TypeOK, UnitOwned, NEW flush \in BOOLEAN, NEW hold \in BOOLEAN,
         Ex2(flush, hold), mul_busy \/ mul_start \/ div_busy \/ div_start
  PROVE  ex2'.valid => ex2' = ex2 /\ ex2.valid
<1>1. Stall
  BY DEF TypeOK, UnitOwned, Stall, mul_stall, div_stall, mul_start, div_start,
         mul_busy, div_busy, IsMul, IsDiv
<1>. QED BY <1>1, Ex2Step

\* The factors are extended as the operation reads them, and multiplied.
LEMMA MulStep ==
  ASSUME TypeOK, UnitInv, NEW flush \in BOOLEAN, NEW hold \in BOOLEAN,
         Ex2(flush, hold), Multiplier
  PROVE  MulRight'
<1>1. UnitOwned /\ MulRight
  BY DEF UnitInv
<1>2. CASE MulIdle
  <2>1. ~mul_busy' /\ ~mul_done'
    BY <1>2 DEF MulIdle, mul_busy
  <2>. QED BY <2>1 DEF MulRight
<1>3. CASE MulBegin
  <2>1. ex2'.valid => ex2' = ex2
    BY <1>1, <1>3, WorkHolds DEF MulBegin
  <2>2. /\ ~mul_done'
        /\ stage1'.op = ex2.op
        /\ stage1'.a = LeftFactor(ex2.op, ex2.a)
        /\ stage1'.b = RightFactor(ex2.op, ex2.b)
    BY <1>3 DEF MulBegin, mul_start, IsMul, MulOps, Extend, LeftFactor, RightFactor
  <2>. QED BY <2>1, <2>2 DEF MulRight
<1>4. CASE MulFinish
  <2>1. ex2'.valid => ex2' = ex2 /\ ex2.valid
    BY <1>1, <1>4, WorkHolds DEF MulFinish
  <2>2. ~mul_busy'
    BY <1>4 DEF MulFinish, NoFactor, mul_busy
  <2>3. ex2.valid => mul_result' = Product(ex2.op, ex2.a, ex2.b)
    BY <1>1, <1>4 DEF MulFinish, MulRight, Product
  <2>. QED BY <2>1, <2>2, <2>3 DEF MulRight
<1>. QED BY <1>2, <1>3, <1>4 DEF Multiplier

\* What the divider does when it does not finish keeps what it works on.
LEMMA BeginStep ==
  ASSUME TypeOK, UnitInv, NEW flush \in BOOLEAN, NEW hold \in BOOLEAN,
         Ex2(flush, hold), DivBegin
  PROVE  WorkOwned' /\ PrefixDivided' /\ DoneRight'
<1>1. UnitOwned /\ div_start
  BY DEF UnitInv, DivBegin
<1>2. ex2'.valid => ex2' = ex2
  BY <1>1, WorkHolds
<1>3. ex2.a \in Word /\ ex2.b \in Word /\ ex2.b # 0 /\ ~div_done'
  BY DEF DivBegin, TypeOK
<1>4. /\ work'.count = 0 /\ work'.quot = 0 /\ work'.rem = 0
      /\ work'.divisor = Abs(ex2.op, ex2.b) /\ work'.dividend = Abs(ex2.op, ex2.a)
      /\ work'.neg_quot = (ex2.op \in SignedOps /\ Negative(ex2.a) # Negative(ex2.b))
      /\ work'.neg_rem = (ex2.op \in SignedOps /\ Negative(ex2.a))
  BY DEF DivBegin
<1>5. Prefix' = 0
  <2>. DEFINE n == work'.dividend
  <2>1. n \in 0 .. Base - 1
    BY <1>3, <1>4, AbsFacts DEF Word
  <2>2. Prefix' = n \div Base
    BY <1>4, WidthAssumption DEF Prefix, Base
  <2>. HIDE DEF n
  <2>3. n = 0 * Base + n
    BY <2>1, BaseFacts
  <2>. QED BY <2>1, <2>2, <2>3, BaseFacts, DivisionIsUnique
<1>6. 0 * work'.divisor + 0 = 0 /\ 0 < work'.divisor /\ 0 < Pow2[0]
  BY <1>3, <1>4, AbsFacts, BaseFacts DEF Word
<1>7. PrefixDivided'
  BY <1>4, <1>5, <1>6 DEF PrefixDivided
<1>8. WorkOwned'
  BY <1>2, <1>3, <1>4 DEF WorkOwned
<1>. QED BY <1>3, <1>7, <1>8 DEF DoneRight

LEMMA IterateStep ==
  ASSUME TypeOK, UnitInv, NEW flush \in BOOLEAN, NEW hold \in BOOLEAN,
         Ex2(flush, hold), Iterate
  PROVE  WorkOwned' /\ PrefixDivided' /\ DoneRight'
<1>1. UnitOwned /\ WorkOwned /\ PrefixDivided /\ div_busy
  BY DEF UnitInv, Iterate, div_busy
<1>2. ex2'.valid => ex2' = ex2 /\ ex2.valid
  BY <1>1, WorkHolds
<1>3. /\ work'.count = work.count + 1 /\ work'.quot = next_quot /\ work'.rem = next_rem
      /\ work'.divisor = work.divisor /\ work'.dividend = work.dividend
      /\ work'.neg_quot = work.neg_quot /\ work'.neg_rem = work.neg_rem
      /\ ~div_done' /\ work.count \in 0 .. W - 1 /\ work.count # W - 1
  BY DEF Iterate, TypeOK
<1>4. WorkOwned'
  BY <1>1, <1>2, <1>3 DEF WorkOwned
<1>5. Prefix' = Seen
  <2>1. W - (work.count + 1) = W - 1 - work.count
    BY <1>3, WidthAssumption
  <2>. QED BY <1>3, <2>1 DEF Prefix, Seen
<1>6. Pow2[work'.count] = 2 * Pow2[work.count]
  BY <1>3, BaseFacts
<1>7. PrefixDivided'
  BY <1>1, <1>3, <1>5, <1>6, IterationRight DEF PrefixDivided
<1>. QED BY <1>3, <1>4, <1>7 DEF DoneRight

LEMMA FinishStep ==
  ASSUME TypeOK, UnitInv, NEW flush \in BOOLEAN, NEW hold \in BOOLEAN,
         Ex2(flush, hold), Finish
  PROVE  WorkOwned' /\ PrefixDivided' /\ DoneRight'
<1>1. UnitOwned /\ WorkOwned /\ PrefixDivided /\ div_busy /\ ~div_busy'
  BY DEF UnitInv, Finish, div_busy
<1>2. ex2'.valid => ex2' = ex2 /\ ex2.valid
  BY <1>1, WorkHolds
<1>3. Seen = work.dividend
  <2>1. W - 1 - work.count = 0 /\ work.dividend \in Nat
    BY WidthAssumption, BaseFacts DEF Finish, TypeOK, Word
  <2>2. work.dividend = work.dividend * 1 + 0 /\ 0 \in 0 .. 1 - 1
    BY <2>1
  <2>3. work.dividend \div 1 = work.dividend
    BY <2>1, <2>2, DivisionIsUnique
  <2>. QED BY <2>1, <2>3, BaseFacts DEF Seen
<1>4. /\ next_quot \in Word /\ next_rem \in Word
      /\ next_quot * work.divisor + next_rem = work.dividend
      /\ next_rem < work.divisor
  BY <1>1, <1>3, IterationRight
<1>5. ASSUME ex2.valid
      PROVE  /\ quotient' = Quotient(ex2.op, ex2.a, ex2.b)
             /\ remainder' = Remainder(ex2.op, ex2.a, ex2.b)
  <2>1. /\ ex2.b # 0 /\ ex2.a \in Word /\ ex2.b \in Word
        /\ work.dividend = Abs(ex2.op, ex2.a) /\ work.divisor = Abs(ex2.op, ex2.b)
        /\ work.neg_quot = (ex2.op \in SignedOps /\ Negative(ex2.a) # Negative(ex2.b))
        /\ work.neg_rem = (ex2.op \in SignedOps /\ Negative(ex2.a))
    BY <1>1, <1>5 DEF WorkOwned, TypeOK
  <2>2. /\ Quotient(ex2.op, ex2.a, ex2.b) =
             IF ex2.op \in SignedOps /\ Negative(ex2.a) # Negative(ex2.b)
             THEN Negate(next_quot) ELSE next_quot
        /\ Remainder(ex2.op, ex2.a, ex2.b) =
             IF ex2.op \in SignedOps /\ Negative(ex2.a)
             THEN Negate(next_rem) ELSE next_rem
    BY <1>4, <2>1, SignsPutBack
  <2>. QED BY <2>1, <2>2 DEF Finish
<1>. QED BY <1>1, <1>2, <1>5 DEF WorkOwned, PrefixDivided, DoneRight

\* The special cases: the one for the overflow agrees with the general rule.
LEMMA OverflowAnswer ==
  ASSUME NEW op \in SignedOps
  PROVE  Quotient(op, Half, Base - 1) = Half /\ Remainder(op, Half, Base - 1) = 0
<1>1. /\ Half \in Word /\ Base - 1 \in Word /\ Base - 1 # 0 /\ 0 \in Word
      /\ Negative(Half) /\ Negative(Base - 1)
  BY BaseFacts DEF Word, Negative
<1>2. Abs(op, Half) = Half /\ Abs(op, Base - 1) = 1
  BY <1>1, BaseFacts DEF Abs, Negate
<1>3. Half * Abs(op, Base - 1) + 0 = Abs(op, Half) /\ 0 < Abs(op, Base - 1)
  BY <1>2, BaseFacts
<1>4. /\ Quotient(op, Half, Base - 1) =
           IF op \in SignedOps /\ Negative(Half) # Negative(Base - 1)
           THEN Negate(Half) ELSE Half
      /\ Remainder(op, Half, Base - 1) =
           IF op \in SignedOps /\ Negative(Half) THEN Negate(0) ELSE 0
  <2>. DEFINE a == Half
              b == Base - 1
              zero == 0
  <2>1. a \in Word /\ b \in Word /\ b # 0 /\ zero \in Word
        /\ a * Abs(op, b) + zero = Abs(op, a) /\ zero < Abs(op, b)
    BY <1>1, <1>3
  <2>. HIDE DEF a, b, zero
  <2>2. /\ Quotient(op, a, b) =
             IF op \in SignedOps /\ Negative(a) # Negative(b) THEN Negate(a) ELSE a
        /\ Remainder(op, a, b) =
             IF op \in SignedOps /\ Negative(a) THEN Negate(zero) ELSE zero
    BY <2>1, SignsPutBack
  <2>. QED BY <2>2 DEF a, b, zero
<1>5. Negate(0) = 0 /\ Negative(Half) = TRUE /\ Negative(Base - 1) = TRUE
  BY <1>1, BaseFacts DEF Negate, Negative
<1>. QED BY <1>4, <1>5

LEMMA ShortcutStep ==
  ASSUME TypeOK, UnitInv, NEW flush \in BOOLEAN, NEW hold \in BOOLEAN,
         Ex2(flush, hold), DivByZero \/ DivOverflow
  PROVE  WorkOwned' /\ PrefixDivided' /\ DoneRight'
<1>1. UnitOwned /\ div_start /\ ~div_busy'
  BY DEF UnitInv, DivByZero, DivOverflow, Shortcut, div_busy
<1>2. ex2'.valid => ex2' = ex2
  BY <1>1, WorkHolds
<1>3. /\ quotient' = Quotient(ex2.op, ex2.a, ex2.b)
      /\ remainder' = Remainder(ex2.op, ex2.a, ex2.b)
  <2>1. CASE DivByZero
    BY <2>1 DEF DivByZero, Shortcut, Quotient, Remainder
  <2>2. CASE DivOverflow
    BY <2>2, OverflowAnswer DEF DivOverflow, Shortcut
  <2>. QED BY <2>1, <2>2
<1>. QED BY <1>1, <1>2, <1>3 DEF WorkOwned, PrefixDivided, DoneRight

LEMMA RestStep ==
  ASSUME DivIdle \/ Rest
  PROVE  WorkOwned' /\ PrefixDivided' /\ DoneRight'
<1>1. ~div_busy' /\ ~div_done'
  BY DEF DivIdle, Rest, div_busy
<1>. QED BY <1>1 DEF WorkOwned, PrefixDivided, DoneRight

\* No register leaves its width.
LEMMA TypeStep ==
  ASSUME TypeOK, UnitInv, Clock
  PROVE  TypeOK'
<1>1. PICK flush \in BOOLEAN, hold \in BOOLEAN :
         /\ Controls(flush) /\ Ex2(flush, hold)
         /\ Multiplier /\ Divider
         /\ cpu_running' \in IF CanPause THEN BOOLEAN ELSE {TRUE}
  BY DEF Clock
<1>2. /\ Base \in Nat \ {0} /\ Half \in Word /\ 0 \in Word /\ Base - 1 \in Word
      /\ Base = 2 * Half /\ W \in Nat \ {0}
  BY BaseFacts, WidthAssumption DEF Word
<1>3. ex2.a \in Word /\ ex2.b \in Word /\ ex2.op \in MulOps \cup DivOps
  BY DEF TypeOK
<1>4. ex2' \in [valid : BOOLEAN, op : MulOps \cup DivOps, a : Word, b : Word]
  BY <1>1, Ex2Step DEF Ops
<1>5. cpu_running' \in BOOLEAN /\ mul_running' \in BOOLEAN /\ div_running' \in BOOLEAN
  BY <1>1, RequestAssumption DEF Controls, TypeOK
<1>6. /\ stage1' \in [valid : BOOLEAN, op : MulOps, a : -Base .. Base, b : -Base .. Base]
      /\ mul_done' \in BOOLEAN /\ mul_result' \in Word
  <2>1. CASE MulIdle
    BY <2>1 DEF MulIdle, TypeOK
  <2>2. CASE MulBegin
    <3>1. ex2.op \in MulOps
      BY <2>2 DEF MulBegin, mul_start, IsMul
    <3>2. \A x \in Word, s \in BOOLEAN : Extend(x, s) \in -Base .. Base
      BY <1>2 DEF Extend, Signed, Negative, Word
    <3>3. (ex2.op \in {"MUL", "MULH", "MULHSU"}) \in BOOLEAN
          /\ (ex2.op \in {"MUL", "MULH"}) \in BOOLEAN
      OBVIOUS
    <3>. QED BY <1>3, <2>2, <3>1, <3>2, <3>3 DEF MulBegin, TypeOK
  <2>3. CASE MulFinish
    <3>1. NoFactor \in [valid : BOOLEAN, op : MulOps, a : -Base .. Base, b : -Base .. Base]
      BY <1>2 DEF NoFactor, MulOps
    <3>2. \A x \in Int : x % Base \in Word /\ x \div Base \in Int
      BY <1>2 DEF Word
    <3>3. stage1.a * stage1.b \in Int
      BY <1>2 DEF TypeOK
    <3>. QED BY <2>3, <3>1, <3>2, <3>3 DEF MulFinish
  <2>. QED BY <1>1, <2>1, <2>2, <2>3 DEF Multiplier
<1>7. /\ div_state' \in {"IDLE", "RUNNING", "DONE"}
      /\ work' \in [count : 0 .. W - 1, quot : Word, rem : Word, divisor : Word,
                    dividend : Word, neg_quot : BOOLEAN, neg_rem : BOOLEAN]
      /\ div_done' \in BOOLEAN /\ quotient' \in Word /\ remainder' \in Word
  <2>1. CASE DivIdle \/ Rest
    BY <2>1 DEF DivIdle, Rest, TypeOK
  <2>2. CASE DivByZero \/ DivOverflow
    BY <1>2, <1>3, <2>2 DEF DivByZero, DivOverflow, Shortcut, TypeOK
  <2>3. CASE DivBegin
    <3>1. 0 \in 0 .. W - 1 /\ Abs(ex2.op, ex2.a) \in Word /\ Abs(ex2.op, ex2.b) \in Word
      BY <1>2, <1>3, AbsFacts
    <3>2. (ex2.op \in SignedOps /\ Negative(ex2.a) # Negative(ex2.b)) \in BOOLEAN
          /\ (ex2.op \in SignedOps /\ Negative(ex2.a)) \in BOOLEAN
      OBVIOUS
    <3>. QED BY <1>2, <2>3, <3>1, <3>2 DEF DivBegin, TypeOK
  <2>4. CASE Iterate \/ Finish
    <3>1. next_quot \in Word /\ next_rem \in Word
      BY <2>4, IterationRight DEF Iterate, Finish, div_busy, UnitInv
    <3>2. CASE Iterate
      <4>1. work.count + 1 \in 0 .. W - 1
        BY <1>2, <3>2 DEF Iterate, TypeOK
      <4>. QED BY <3>1, <3>2, <4>1 DEF Iterate, TypeOK
    <3>3. CASE Finish
      <4>1. Negate(next_quot) \in Word /\ Negate(next_rem) \in Word
        BY <3>1, WrapFacts
      <4>2. NoWork \in [count : 0 .. W - 1, quot : Word, rem : Word, divisor : Word,
                        dividend : Word, neg_quot : BOOLEAN, neg_rem : BOOLEAN]
        BY <1>2 DEF NoWork
      <4>. QED BY <3>1, <3>3, <4>1, <4>2 DEF Finish
    <3>. QED BY <2>4, <3>2, <3>3
  <2>. QED BY <1>1, <2>1, <2>2, <2>3, <2>4 DEF Divider
<1>. QED BY <1>4, <1>5, <1>6, <1>7 DEF TypeOK

LEMMA StepRight ==
  ASSUME TypeOK, UnitInv, [Clock]_vars
  PROVE  TypeOK' /\ UnitInv'
<1>1. CASE UNCHANGED vars
  BY <1>1 DEF vars, mulVars, divVars, TypeOK, UnitInv, UnitOwned, MulRight, WorkOwned,
              PrefixDivided, Prefix, DoneRight, IsMul, IsDiv, mul_busy, div_busy
<1>2. CASE Clock
  <2>1. PICK flush \in BOOLEAN, hold \in BOOLEAN :
           /\ Controls(flush) /\ Ex2(flush, hold)
           /\ Multiplier /\ Divider
           /\ cpu_running' \in IF CanPause THEN BOOLEAN ELSE {TRUE}
    BY <1>2 DEF Clock
  <2>2. UnitOwned'
    BY <2>1, OwnedStep
  <2>3. MulRight'
    BY <2>1, MulStep
  <2>4. WorkOwned' /\ PrefixDivided' /\ DoneRight'
    BY <2>1, BeginStep, IterateStep, FinishStep, ShortcutStep, RestStep DEF Divider
  <2>. QED BY <1>2, <2>2, <2>3, <2>4, TypeStep DEF UnitInv
<1>. QED BY <1>1, <1>2

-----------------------------------------------------------------------------
(* Theorems.                                                               *)

LEMMA InvariantHolds == Init /\ [][Clock]_vars => [](TypeOK /\ UnitInv)
<1>1. TypeOK /\ UnitInv /\ [Clock]_vars => TypeOK' /\ UnitInv'
  BY StepRight
<1>. QED BY <1>1, InitRight, PTL

\* For every width no register of the units outgrows its bits and no counter its end,
\* whatever the host does.
THEOREM TypesRight == Spec => []TypeOK
<1>. QED BY InvariantHolds, PTL DEF Spec

\* For every width no bit of a remainder is ever shifted out.
THEOREM NoBitIsLost == Spec => []RemainderFits
<1>1. TypeOK /\ UnitInv => RemainderFits
  BY IterationRight DEF RemainderFits, UnitInv
<1>. QED BY <1>1, InvariantHolds, PTL DEF Spec

\* What leaves EX2 is right because the unit was at work for it.
LEMMA ReadyAnswers ==
  ASSUME TypeOK, UnitInv, UnitLive
  PROVE  ReadyIsRight
<1>. SUFFICES ASSUME ex2.valid, cpu_running, ~Stall
              PROVE  Result = Answer(ex2.op, ex2.a, ex2.b)
  BY DEF ReadyIsRight
<1>1. UnitOwned /\ MulRight /\ DoneRight /\ ~mul_stall /\ ~div_stall
  BY DEF UnitInv, Stall
<1>2. CASE ex2.op \in MulOps
  <2>1. mul_done
    BY <1>1, <1>2 DEF UnitLive, IsMul, mul_stall, mul_start, TypeOK
  <2>. QED BY <1>1, <1>2, <2>1 DEF MulRight, Result, Answer
<1>3. CASE ex2.op \notin MulOps
  <2>1. ex2.op \in DivOps
    BY <1>3 DEF TypeOK
  <2>2. div_done
    BY <1>1, <2>1 DEF UnitLive, IsDiv, div_stall, div_start, TypeOK
  <2>. QED BY <1>1, <1>3, <2>2 DEF DoneRight, Result, Answer
<1>. QED BY <1>2, <1>3

LEMMA AnswersHold == Init /\ [][SafeClock]_vars => []ReadyIsRight
<1>1. Init => UnitLive /\ ~StopAtRisk
  BY DEF Init, UnitLive, StopAtRisk
<1>2. TypeOK /\ UnitInv /\ (UnitLive /\ ~StopAtRisk) /\ [SafeClock]_vars
        => (UnitLive /\ ~StopAtRisk)'
  <2>1. ASSUME TypeOK, UnitInv, UnitLive, ~StopAtRisk, Clock PROVE UnitLive'
    BY <2>1, OwnedStep DEF Clock
  <2>2. ASSUME UnitLive, ~StopAtRisk, UNCHANGED vars PROVE (UnitLive /\ ~StopAtRisk)'
    BY <2>2 DEF vars, mulVars, divVars, UnitLive, StopAtRisk, IsMul, IsDiv, mul_busy,
                div_busy
  <2>. QED BY <2>1, <2>2 DEF SafeClock
<1>3. [SafeClock]_vars => [Clock]_vars
  BY DEF SafeClock
<1>. QED BY <1>1, <1>2, <1>3, ReadyAnswers, InvariantHolds, PTL

\* For every width and all operands: an operation leaves EX2 with the result the M
\* extension defines, whenever the host stops and starts the core, unless it does so
\* while the operation is in EX2 and its unit not at work (rtl/riscv_soc.sv:824, :889).
THEOREM AnswersAreRightUnlessStopped == StopSpec => []ReadyIsRight
BY AnswersHold, PTL DEF StopSpec

\* In particular if the host leaves RUN set.
THEOREM AnswersAreRight == ASSUME ~CanPause PROVE Spec => []ReadyIsRight
<1>1. Init => cpu_running
  BY DEF Init
<1>2. cpu_running /\ [Clock]_vars => cpu_running'
  BY DEF Clock, vars
<1>3. cpu_running' /\ [Clock]_vars => [SafeClock]_vars
  BY DEF SafeClock, StopAtRisk
<1>. QED BY <1>1, <1>2, <1>3, AnswersHold, PTL DEF Spec

-----------------------------------------------------------------------------
(* Stalls end.                                                             *)

\* Of two counters that do not grow one shrinks: so does their sum.
LEMMA SumShrinks ==
  ASSUME NEW a \in Nat, NEW b \in Nat, NEW c \in Nat, NEW d \in Nat,
         c <= a, d <= b, c < a \/ d < b
  PROVE  c + d < a + b
OBVIOUS

\* While a unit stalls the pipeline no operation starts at the next edge: the one in
\* EX2 is the one under way, or it was flushed.
LEMMA NoSecondStart ==
  ASSUME TypeOK, UnitInv, NEW flush \in BOOLEAN, NEW hold \in BOOLEAN,
         Controls(flush), Ex2(flush, hold), Multiplier, Divider, Stall
  PROVE  ~mul_start' /\ ~div_start'
<1>. USE DEF IsMul, IsDiv, mul_busy, div_busy, MulOps, DivOps
<1>1. UnitOwned /\ UnitOwned'
  BY OwnedStep DEF UnitInv
<1>2. ex2' = ex2 \/ ~ex2'.valid
  BY Ex2Step
<1>3. /\ mul_running' = (/\ ~flush /\ ~mul_done
                         /\ mul_running \/ (IsMul /\ ~mul_busy))
      /\ div_running' = (/\ ~flush /\ ~div_done
                         /\ div_running \/ (IsDiv /\ ~div_busy))
      /\ ex2'.valid => ~flush
  BY Ex2Step DEF Controls
<1>4. mul_stall \/ div_stall
  BY DEF Stall
<1>. QED
  BY <1>1, <1>2, <1>3, <1>4 DEF UnitOwned, mul_stall, div_stall, mul_start, div_start

\* An edge takes the multiplier on, and the divider; neither does more afterwards than
\* it had left.
LEMMA LeftShrinks ==
  ASSUME TypeOK, TypeOK', UnitInv, Multiplier, Divider, ~mul_start', ~div_start'
  PROVE  /\ MulLeft \in Nat /\ MulLeft' \in Nat /\ DivLeft \in Nat /\ DivLeft' \in Nat
         /\ MulLeft' <= MulLeft /\ (mul_stall => MulLeft' < MulLeft)
         /\ DivLeft' <= DivLeft /\ (div_stall => DivLeft' < DivLeft)
<1>1. UnitOwned /\ W \in Nat \ {0}
  BY WidthAssumption DEF UnitInv
<1>2. /\ mul_busy \in BOOLEAN /\ mul_start \in BOOLEAN
      /\ mul_busy' => mul_start
  BY DEF TypeOK, mul_busy, mul_start, Multiplier, MulIdle, MulBegin, MulFinish,
         NoFactor, IsMul
<1>3. /\ MulLeft \in Nat /\ MulLeft' \in Nat
      /\ MulLeft' <= MulLeft /\ (mul_stall => MulLeft' < MulLeft)
  BY <1>2 DEF MulLeft, mul_stall
<1>4. work.count \in 0 .. W - 1 /\ work'.count \in 0 .. W - 1
  BY DEF TypeOK
<1>5. div_start => ~div_busy
  BY DEF div_start
<1>6. DivLeft \in Nat /\ DivLeft' \in Nat
  BY <1>1, <1>4 DEF DivLeft
<1>7. DivLeft' = IF div_busy' THEN W - work'.count ELSE 0
  BY DEF DivLeft
<1>8. CASE div_start
  <2>1. DivLeft = W + 1
    BY <1>8 DEF DivLeft
  <2>. QED BY <1>1, <1>3, <1>4, <1>6, <1>7, <2>1
<1>9. CASE div_busy
  <2>1. DivLeft = W - work.count
    BY <1>5, <1>9 DEF DivLeft
  <2>2. (div_busy' /\ work'.count = work.count + 1) \/ ~div_busy'
    <3>1. Iterate \/ Finish
      BY <1>9 DEF Divider, DivIdle, DivByZero, DivOverflow, DivBegin, Rest, div_busy
    <3>2. CASE Iterate
      BY <3>2, <1>9 DEF Iterate, div_busy, TypeOK
    <3>3. CASE Finish
      BY <3>3 DEF Finish, div_busy
    <3>. QED BY <3>1, <3>2, <3>3
  <2>. QED BY <1>1, <1>3, <1>4, <1>6, <1>7, <2>1, <2>2
<1>10. CASE ~div_start /\ ~div_busy
  <2>1. DivLeft = 0 /\ ~div_stall
    BY <1>10 DEF DivLeft, div_stall
  <2>2. ~div_busy'
    BY <1>10 DEF Divider, DivIdle, DivByZero, DivOverflow, DivBegin, Iterate, Finish,
                 Rest, div_busy
  <2>. QED BY <1>3, <1>6, <1>7, <2>1, <2>2
<1>. QED BY <1>8, <1>9, <1>10

\* For every width: a stall for a unit is over after as many edges as the operation
\* needs, at most W + 1, whatever loads hold EX2, flushes empty it and stops meet it
\* meanwhile.
THEOREM StallsAlwaysShrink == Spec => StallShrinks
<1>1. ASSUME TypeOK, UnitInv, TypeOK', Clock, Stall
      PROVE  StallLeft' < StallLeft
  <2>1. PICK flush \in BOOLEAN, hold \in BOOLEAN :
           /\ Controls(flush) /\ Ex2(flush, hold)
           /\ Multiplier /\ Divider
           /\ cpu_running' \in IF CanPause THEN BOOLEAN ELSE {TRUE}
    BY <1>1 DEF Clock
  <2>2. ~mul_start' /\ ~div_start'
    BY <1>1, <2>1, NoSecondStart
  <2>3. /\ MulLeft \in Nat /\ MulLeft' \in Nat /\ DivLeft \in Nat /\ DivLeft' \in Nat
        /\ MulLeft' <= MulLeft /\ (mul_stall => MulLeft' < MulLeft)
        /\ DivLeft' <= DivLeft /\ (div_stall => DivLeft' < DivLeft)
    BY <1>1, <2>1, <2>2, LeftShrinks
  <2>4. mul_stall \/ div_stall
    BY <1>1 DEF Stall
  <2>5. MulLeft' < MulLeft \/ DivLeft' < DivLeft
    BY <2>3, <2>4
  <2>. QED BY <2>3, <2>5, SumShrinks DEF StallLeft
<1>2. /\ TypeOK /\ UnitInv /\ (TypeOK /\ UnitInv)'
      /\ [Clock]_vars
      => [Stall => StallLeft' < StallLeft]_vars
  BY <1>1
<1>. QED BY <1>2, InvariantHolds, PTL DEF Spec, StallShrinks
=============================================================================
