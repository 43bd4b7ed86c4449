------------------------------ MODULE SoftFloat ------------------------------
(***************************************************************************)
(* The software floating point linked into programs (runtime/softfloat),   *)
(* on the bits of a number: a sign, an exponent and a fraction.  It is     *)
(* rounded to nearest, ties to even, the only mode the runtime uses, and   *)
(* without its exception flags, which nobody reads.                        *)
(*                                                                         *)
(* The widths are parameters.  Significands are computed in a word that    *)
(* has GuardBits below the fraction and two bits above it, which is also   *)
(* the width of the integers.                                              *)
(***************************************************************************)
EXTENDS Integers, FiniteSetsExt

CONSTANTS ExpBits, FracBits,   \* 8 and 23, or 11 and 52
          GuardBits            \* 7, or 10

G == GuardBits
Word == FracBits + GuardBits + 2
MaxExp == 2 ^ ExpBits - 1
Bias == 2 ^ (ExpBits - 1) - 1
Hidden == 2 ^ FracBits
SignBit == 2 ^ (ExpBits + FracBits)
Infinity == MaxExp * Hidden
DefaultNaN == SignBit + Infinity + Hidden \div 2

SignOf(x) == x \div SignBit
Magnitude(x) == x % SignBit
ExpOf(x) == Magnitude(x) \div Hidden
FracOf(x) == x % Hidden
Pack(sign, exp, sig) == sign * SignBit + exp * Hidden + sig

IsNaN(x) == Magnitude(x) > Infinity
IsInf(x) == Magnitude(x) = Infinity
Signaling(x) == IsNaN(x) /\ FracOf(x) < Hidden \div 2
Quiet(x) == IF Signaling(x) THEN x + Hidden \div 2 ELSE x
PropagateNaN(a, b) == IF IsNaN(a) THEN Quiet(a) ELSE Quiet(b)
BothZero(a, b) == Magnitude(a) = 0 /\ Magnitude(b) = 0

Eq(a, b) == ~IsNaN(a) /\ ~IsNaN(b) /\ (a = b \/ BothZero(a, b))
LtQuiet(a, b) ==
  /\ ~IsNaN(a) /\ ~IsNaN(b)
  /\ IF SignOf(a) # SignOf(b) THEN SignOf(a) = 1 /\ ~BothZero(a, b)
     ELSE a # b /\ (SignOf(a) = 1) # (a < b)
LeQuiet(a, b) ==
  /\ ~IsNaN(a) /\ ~IsNaN(b)
  /\ IF SignOf(a) # SignOf(b) THEN SignOf(a) = 1 \/ BothZero(a, b)
     ELSE a = b \/ (SignOf(a) = 1) # (a < b)

-----------------------------------------------------------------------------
\* Bits shifted out are kept as the lowest bit.
ShiftRightJam(a, n) ==
  LET unit == 2 ^ Min({n, 2 * Word})
      q == a \div unit
  IN IF a % unit # 0 /\ q % 2 = 0 THEN q + 1 ELSE q

LeadingZeros(word, sig) == Max({n \in 0 .. word : sig < 2 ^ (word - n)})

\* The guard bits decide, and a tie goes to the even number.
RoundedSig(sig) ==
  LET half == 2 ^ (G - 1)
      up == (sig + half) \div 2 ^ G
  IN IF sig % 2 ^ G = half THEN up - (up % 2) ELSE up

\* A fraction that carries into the exponent is added to it.
RoundPack(sign, exp, sig) ==
  LET half == 2 ^ (G - 1)
      rounded == RoundedSig(IF exp < 0 THEN ShiftRightJam(sig, -exp) ELSE sig)
  IN IF exp > MaxExp - 2 \/ (exp = MaxExp - 2 /\ sig + half >= 2 ^ (Word - 1))
     THEN Pack(sign, MaxExp, 0)
     ELSE Pack(sign, IF exp < 0 \/ rounded = 0 THEN 0 ELSE exp, rounded)

\* The leading bit has one place or the next.
RoundSum(sign, exp, sig) ==
  LET short == IF sig < 2 ^ (Word - 2) THEN 1 ELSE 0
  IN RoundPack(sign, exp - short, sig * 2 ^ short)

NormRoundPack(sign, exp, sig) ==
  LET dist == LeadingZeros(Word, sig) - 1
      e == exp - dist
  IN IF dist >= G /\ e \in 0 .. MaxExp - 3 THEN Pack(sign, IF sig = 0 THEN 0 ELSE e, sig * 2 ^ (dist - G))
     ELSE RoundPack(sign, e, sig * 2 ^ dist)

\* The exponent and significand of a finite number that is not 0.
Normal(x) ==
  LET dist == LeadingZeros(Word, FracOf(x)) - (Word - FracBits - 1)
  IN IF ExpOf(x) = 0 THEN [exp |-> 1 - dist, sig |-> FracOf(x) * 2 ^ dist]
     ELSE [exp |-> ExpOf(x), sig |-> FracOf(x) + Hidden]

-----------------------------------------------------------------------------
\* Significand of one operand among the guard bits; subnormals have no hidden bit.
Widened(x, guard) ==
  IF ExpOf(x) = 0 THEN 2 * FracOf(x) * 2 ^ guard ELSE (FracOf(x) + Hidden) * 2 ^ guard

AddMags(a, b) ==
  LET diff == ExpOf(a) - ExpOf(b)
      s == SignOf(a)
      same == 2 * Hidden + FracOf(a) + FracOf(b)
      high == IF diff < 0 THEN b ELSE a
      low == IF diff < 0 THEN a ELSE b
      far == IF diff < 0 THEN -diff ELSE diff
      sum == Widened(high, G - 1) + ShiftRightJam(Widened(low, G - 1), far)
  IN IF IsNaN(a) \/ IsNaN(b) THEN PropagateNaN(a, b)
     ELSE IF ExpOf(high) = MaxExp THEN Pack(s, MaxExp, 0)
     ELSE IF diff = 0 THEN IF ExpOf(a) = 0 THEN a + FracOf(b)
                           ELSE IF same % 2 = 0 /\ ExpOf(a) < MaxExp - 1 THEN Pack(s, ExpOf(a), same \div 2)
                           ELSE RoundPack(s, ExpOf(a), same * 2 ^ (G - 1))
     ELSE RoundSum(s, ExpOf(high), sum)

SubMags(a, b) ==
  LET diff == ExpOf(a) - ExpOf(b)
      sigs == FracOf(a) - FracOf(b)
      s == IF diff < 0 \/ (diff = 0 /\ sigs < 0) THEN 1 - SignOf(a) ELSE SignOf(a)
      rest == IF sigs < 0 THEN -sigs ELSE sigs
      exp == IF ExpOf(a) = 0 THEN 0 ELSE ExpOf(a) - 1
      dist == LeadingZeros(Word, rest) - (Word - FracBits - 1)
      high == IF diff < 0 THEN b ELSE a
      low == IF diff < 0 THEN a ELSE b
      far == IF diff < 0 THEN -diff ELSE diff
  IN IF IsNaN(a) \/ IsNaN(b) THEN PropagateNaN(a, b)
     ELSE IF IsInf(a) /\ IsInf(b) THEN DefaultNaN
     ELSE IF ExpOf(high) = MaxExp THEN Pack(s, MaxExp, 0)
     ELSE IF diff = 0 THEN IF sigs = 0 THEN 0
                           ELSE IF exp < dist THEN Pack(s, 0, rest * 2 ^ exp)
                           ELSE Pack(s, exp - dist, rest * 2 ^ dist)
     ELSE NormRoundPack(s, ExpOf(high) - 1, Widened(high, G) - ShiftRightJam(Widened(low, G), far))

Add(a, b) == IF SignOf(a) # SignOf(b) THEN SubMags(a, b) ELSE AddMags(a, b)
Sub(a, b) == IF SignOf(a) # SignOf(b) THEN AddMags(a, b) ELSE SubMags(a, b)

Mul(a, b) ==
  LET s == IF SignOf(a) # SignOf(b) THEN 1 ELSE 0
      zero == Magnitude(a) = 0 \/ Magnitude(b) = 0
      product == ShiftRightJam(Normal(a).sig * 2 ^ G * (Normal(b).sig * 2 ^ (G + 1)), Word)
      exp == Normal(a).exp + Normal(b).exp - Bias
  IN IF IsNaN(a) \/ IsNaN(b) THEN PropagateNaN(a, b)
     ELSE IF IsInf(a) \/ IsInf(b) THEN IF zero THEN DefaultNaN ELSE Pack(s, MaxExp, 0)
     ELSE IF zero THEN Pack(s, 0, 0)
     ELSE RoundSum(s, exp, product)

\* A difference of two words loses leading bits.
RoundDifference(sign, exp, size) ==
  LET dist == LeadingZeros(2 * Word, size) - 1
  IN RoundPack(sign, exp - dist,
               IF dist < Word THEN ShiftRightJam(size, Word - dist) ELSE size * 2 ^ (dist - Word))

\* A product in two words, and a sum that is rounded once.
FusedSum(product, exp, s, c) ==
  LET negative == SignOf(c)
      sigC == Normal(c).sig * 2 ^ (G - 1)
      expC == Normal(c).exp
      diff == exp - expC
      sum == IF diff <= 0 THEN sigC + ShiftRightJam(product, Word - diff)
             ELSE ShiftRightJam(product + ShiftRightJam(sigC * 2 ^ Word, diff), Word)
      expSum == IF diff <= 0 THEN expC ELSE exp
      rest == IF diff < 0 THEN sigC * 2 ^ Word - ShiftRightJam(product, -diff)
              ELSE product - ShiftRightJam(sigC * 2 ^ Word, diff)
  IN IF Magnitude(c) = 0 THEN RoundPack(s, exp - 1, ShiftRightJam(product, Word - 1))
     ELSE IF s = negative THEN RoundSum(s, expSum, sum)
     ELSE IF rest = 0 THEN 0
     ELSE RoundDifference(IF diff < 0 \/ rest < 0 THEN negative ELSE s, expSum,
                          IF rest < 0 THEN -rest ELSE rest)

MulAdd(a, b, c) ==
  LET s == IF SignOf(a) # SignOf(b) THEN 1 ELSE 0
      zero == Magnitude(a) = 0 \/ Magnitude(b) = 0
      product == Normal(a).sig * 2 ^ G * (Normal(b).sig * 2 ^ G)
      short == IF product < 2 ^ (2 * Word - 3) THEN 1 ELSE 0
      exp == Normal(a).exp + Normal(b).exp - Bias + 1
  IN IF IsNaN(a) \/ IsNaN(b) THEN PropagateNaN(PropagateNaN(a, b), c)
     ELSE IF IsInf(a) \/ IsInf(b)
     THEN IF zero THEN PropagateNaN(DefaultNaN, c)
          ELSE IF IsNaN(c) THEN PropagateNaN(Pack(s, MaxExp, 0), c)
          ELSE IF IsInf(c) /\ s # SignOf(c) THEN PropagateNaN(DefaultNaN, c)
          ELSE Pack(s, MaxExp, 0)
     ELSE IF IsNaN(c) THEN PropagateNaN(0, c)
     ELSE IF IsInf(c) THEN c
     ELSE IF zero THEN IF Magnitude(c) = 0 /\ s # SignOf(c) THEN 0 ELSE c
     ELSE FusedSum(product * 2 ^ short, exp - short, s, c)

\* The nearer of the two remainders beside 0; of two as near, that of the even
\* quotient.
Nearer(sign, exp, under, divisor, odd) ==
  LET over == divisor - under
      keep == under < over \/ (under = over /\ ~odd)
  IN NormRoundPack(IF keep THEN sign ELSE 1 - sign, exp, IF keep THEN under ELSE over)

\* The IEEE remainder.  The quotient comes in pieces from a reciprocal that is
\* a little too small, and what it misses is subtracted; together that is the
\* quotient.
Rem(a, b) ==
  LET diff == Normal(a).exp - Normal(b).exp
      divisor == Normal(b).sig * 2 ^ (G - 1)
      shifted == IF diff < 0 THEN Normal(a).sig * 2 ^ (G - 2) ELSE Normal(a).sig * 2 ^ (G - 1 + diff)
  IN IF IsNaN(a) \/ IsNaN(b) THEN PropagateNaN(a, b)
     ELSE IF IsInf(a) \/ Magnitude(b) = 0 THEN DefaultNaN
     ELSE IF IsInf(b) \/ Magnitude(a) = 0 \/ diff < -1 THEN a
     ELSE Nearer(SignOf(a), Normal(b).exp, shifted % divisor, divisor, (shifted \div divisor) % 2 = 1)

-----------------------------------------------------------------------------
RoundToInt(x, mode) ==
  LET one == Pack(0, Bias, 0)
      sign == SignOf(x) * SignBit
      last == 2 ^ (Bias + FracBits - ExpOf(x))
      half == x + last \div 2
      raised == CASE mode = "maxMag" -> half
                  [] mode = "even" -> IF half % last = 0 THEN half - (half % (2 * last)) ELSE half
                  [] mode = "min" -> IF SignOf(x) = 1 THEN x + last - 1 ELSE x
                  [] mode = "max" -> IF SignOf(x) = 0 THEN x + last - 1 ELSE x
                  [] mode = "minMag" -> x
  IN IF ExpOf(x) < Bias
     THEN IF \/ Magnitude(x) = 0
             \/ mode = "minMag"
             \/ mode = "maxMag" /\ ExpOf(x) < Bias - 1
             \/ mode = "even" /\ (FracOf(x) = 0 \/ ExpOf(x) < Bias - 1)
             \/ mode = "min" /\ sign = 0
             \/ mode = "max" /\ sign # 0
          THEN sign ELSE sign + one
     ELSE IF ExpOf(x) >= Bias + FracBits THEN Quiet(x)
     ELSE raised - (raised % last)

\* Integers of a word: what does not fit is the least number, or all ones.
MostNegative == 2 ^ (Word - 1)
ToInt(x, signed) ==
  LET dist == Bias + Word - 1 - ExpOf(x)
      z == ((FracOf(x) + Hidden) * 2 ^ (Word - FracBits - 1)) \div 2 ^ dist
      negative == SignOf(x) = 1
  IN IF dist >= Word THEN 0
     ELSE IF signed THEN IF dist <= 0 THEN MostNegative ELSE IF negative THEN (2 ^ Word - z) % 2 ^ Word ELSE z
     ELSE IF negative \/ dist < 0 THEN 2 ^ Word - 1 ELSE z

FromInt(n, signed) ==
  LET negative == n >= MostNegative
  IN IF n = 0 THEN 0
     ELSE IF negative /\ ~signed THEN RoundPack(0, Bias + Word - 2, ShiftRightJam(n, 1))
     ELSE IF n = MostNegative THEN Pack(1, Bias + Word - 1, 0)
     ELSE NormRoundPack(IF negative THEN 1 ELSE 0, Bias + Word - 3, IF negative THEN 2 ^ Word - n ELSE n)
=============================================================================
