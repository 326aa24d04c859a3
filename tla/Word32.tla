------------------------------- MODULE Word32 -------------------------------
(***************************************************************************)
(* The 32-bit arithmetic of rtl/alu.sv and of the results the multiplier   *)
(* and the divider return.  A word is the integer it denotes in two's      *)
(* complement; unsigned readings are taken where an operation needs them.  *)
(* Sums go through the two halves of a word, so that no intermediate value *)
(* leaves the range of a machine integer.                                  *)
(***************************************************************************)
EXTENDS Integers, Sequences, Bitwise
LOCAL INSTANCE FiniteSetsExt

Hi(w) == w \div 65536
Lo(w) == w % 65536
SignExtend(n, bits) == ((n + 2 ^ (bits - 1)) % 2 ^ bits) - 2 ^ (bits - 1)
Join(h, l) == SignExtend(h + (l \div 65536), 16) * 65536 + (l % 65536)

\* A word written as two half words, the way a hexadecimal constant reads.
W(h, l) == Join(h, l)

Bit(b) == IF b THEN 1 ELSE 0
Plus(a, b)  == Join(Hi(a) + Hi(b), Lo(a) + Lo(b))
Minus(a, b) == Join(Hi(a) - Hi(b), Lo(a) - Lo(b))
Less(a, b)  == a < b
LessU(a, b) == (a < b) # ((a < 0) # (b < 0))

Halves(Op(_, _), a, b) == Join(Op(Hi(a) % 65536, Hi(b) % 65536), Op(Lo(a), Lo(b)))

\* The product of two unsigned words, byte columns with their carries.
Byte(w, i) ==
  (IF i < 2 THEN Lo(w) ELSE Hi(w) % 65536) \div (IF i \in {0, 2} THEN 1 ELSE 256) % 256
Column(a, b, k) ==
  FoldSet(LAMBDA i, sum : sum + Byte(a, i) * Byte(b, k - i), 0,
          {i \in 0..3 : k - i \in 0..3})
ProductU(a, b) ==
  LET c[k \in 0..7] == Column(a, b, k) + (IF k = 0 THEN 0 ELSE c[k - 1] \div 256)
      Part(k) == Join((c[k + 3] % 256) * 256 + (c[k + 2] % 256),
                      (c[k + 1] % 256) * 256 + (c[k] % 256))
  IN [high |-> Part(4), low |-> Part(0)]

HalfU(w) == IF w < 0 THEN ((w \div 2) + 2 ^ 30) + 2 ^ 30 ELSE w \div 2
ShiftLeft(a, n)  == ProductU(a, IF n = 31 THEN W(32768, 0) ELSE 2 ^ n).low
ShiftRight(a, n) == IF n = 0 THEN a ELSE HalfU(a) \div 2 ^ (n - 1)
\* Mutant: an arithmetic shift fills with zeros.
ShiftArithZeros(a, n) == ShiftRight(a, n)
ShiftArith(a, n) == IF n = 31 THEN (IF a < 0 THEN -1 ELSE 0) ELSE a \div 2 ^ n

Signed(a, b) == IF a < 0 THEN b ELSE 0
High(a, b)   == Minus(Minus(ProductU(a, b).high, Signed(a, b)), Signed(b, a))
HighSU(a, b) == Minus(ProductU(a, b).high, Signed(a, b))

\* Unsigned quotient; a divisor with the top bit set goes in at most once.
QuotientU(a, b) ==
  IF b < 0 THEN Bit(~LessU(a, b))
  ELSE IF a >= 0 THEN a \div b
  ELSE LET q == Plus(HalfU(a) \div b, HalfU(a) \div b)
           r == Minus(a, ProductU(q, b).low)
       IN Plus(q, Bit(~LessU(r, b)))
Negate(a) == Minus(0, a)
Magnitude(a) == IF a < 0 THEN Negate(a) ELSE a
Quotient(a, b) ==
  LET q == QuotientU(Magnitude(a), Magnitude(b))
  IN IF (a < 0) # (b < 0) THEN Negate(q) ELSE q
Remainder(a, b, q) == Minus(a, ProductU(q, b).low)

Alu(fn, a, b) ==
  CASE fn = "add"  -> Plus(a, b)
    [] fn = "sub"  -> Minus(a, b)
    [] fn = "and"  -> Halves(&, a, b)
    [] fn = "or"   -> Halves(|, a, b)
    [] fn = "xor"  -> Halves(^^, a, b)
    [] fn = "sll"  -> ShiftLeft(a, b % 32)
    [] fn = "srl"  -> ShiftRight(a, b % 32)
    [] fn = "sra"  -> ShiftArith(a, b % 32)
    [] fn = "slt"  -> Bit(Less(a, b))
    [] fn = "sltu" -> Bit(LessU(a, b))
    [] fn = "mul"    -> ProductU(a, b).low
    [] fn = "mulh"   -> High(a, b)
    [] fn = "mulhsu" -> HighSU(a, b)
    [] fn = "mulhu"  -> ProductU(a, b).high
    [] fn = "div"  -> IF b = 0 THEN -1 ELSE Quotient(a, b)
    [] fn = "divu" -> IF b = 0 THEN -1 ELSE QuotientU(a, b)
    [] fn = "rem"  -> IF b = 0 THEN a ELSE Remainder(a, b, Quotient(a, b))
    [] fn = "remu" -> IF b = 0 THEN a ELSE Remainder(a, b, QuotientU(a, b))

\* The branch condition of funct3.
Taken(fn, a, b) ==
  CASE fn = "eq"  -> a = b
    [] fn = "ne"  -> a # b
    [] fn = "lt"  -> Less(a, b)
    [] fn = "ge"  -> ~Less(a, b)
    [] fn = "ltu" -> LessU(a, b)
    [] fn = "geu" -> ~LessU(a, b)
=============================================================================
