------------------------------- MODULE Floats --------------------------------
(***************************************************************************)
(* What float operations become (float_lower.cpp, runtime/softfloat/       *)
(* runtime.c): operations on the bits of the numbers, and calls of the     *)
(* linked software floating point.  A Boolean is 0 or 1.                   *)
(***************************************************************************)
EXTENDS SoftFloat

Bool(p) == IF p THEN 1 ELSE 0
Not(b) == 1 - b
And(p, q) == p * q
Or(p, q) == IF p + q > 0 THEN 1 ELSE 0
Choose(condition, yes, no) == IF condition = 1 THEN yes ELSE no

\* Bits of two numbers with the same magnitude, or with different signs.
SignsWith(minimum, a, b) ==
  Magnitude(a) + SignBit * (IF minimum THEN Or(SignOf(a), SignOf(b)) ELSE And(SignOf(a), SignOf(b)))

\* __sclr_f32_isnan, _eq, _lt, _le
NaN(a) == Bool(IsNaN(a))
Equal(a, b) == Bool(Eq(a, b))
Lt(a, b) == Bool(LtQuiet(a, b))
Le(a, b) == Bool(LeQuiet(a, b))

\* Mutant: the nearest quotient, which rounds up half of the time.
RemNearest(a, b) == Rem(a, b)

\* __sclr_f32_rem: a remainder with the wrong sign is one divisor away.
Corrected(r, a, b) ==
  IF Magnitude(r) = 0 THEN SignOf(a) * SignBit
  ELSE IF ~IsNaN(r) /\ SignOf(r) # SignOf(a) THEN Add(r, Magnitude(b) + SignOf(a) * SignBit)
  ELSE r
RemTruncated(a, b) == Corrected(Rem(a, b), a, b)

\* comparison
Unordered(a, b) == Or(NaN(a), NaN(b))
Comparison(predicate, a, b) ==
  CASE predicate = "false" -> 0 [] predicate = "true" -> 1
    [] predicate = "oeq" -> Equal(a, b)
    [] predicate = "olt" -> Lt(a, b) [] predicate = "ole" -> Le(a, b)
    [] predicate = "ogt" -> Lt(b, a) [] predicate = "oge" -> Le(b, a)
    [] predicate = "uno" -> Unordered(a, b) [] predicate = "ord" -> Not(Unordered(a, b))
    [] predicate = "une" -> Not(Equal(a, b))
    [] predicate = "ugt" -> Not(Le(a, b)) [] predicate = "uge" -> Not(Lt(a, b))
    [] predicate = "ult" -> Not(Le(b, a)) [] predicate = "ule" -> Not(Lt(b, a))
    [] predicate = "ueq" -> Or(Equal(a, b), Unordered(a, b))
    [] predicate = "one" -> And(Not(Equal(a, b)), Not(Unordered(a, b)))

\* minmax
Minima == {"minnum", "minimum", "minimumnum"}
Maxima == {"maxnum", "maximum", "maximumnum"}
QNaN == Infinity + Hidden \div 2

MinMax(op, a, b) ==
  LET minimum == op \in Minima
      less == Lt(a, b)
      unequal == IF minimum THEN Choose(less, a, b) ELSE Choose(less, b, a)
      tied == IF Magnitude(a) = Magnitude(b) THEN SignsWith(minimum, a, b) ELSE a
      numeric == Choose(Equal(a, b), tied, unequal)
  IN IF op \in {"minimum", "maximum"} THEN Choose(Or(NaN(a), NaN(b)), QNaN, numeric)
     ELSE Choose(NaN(a), Choose(NaN(b), QNaN, b), Choose(NaN(b), a, numeric))

\* scalar: conversions go through a word, wider than the type or as wide.
ToFloat(op, n, bits) ==
  LET signed == op = "sitofp"
  IN FromInt(IF signed /\ n >= 2 ^ (bits - 1) THEN n + 2 ^ Word - 2 ^ bits ELSE n, signed)

Modes == [ceil |-> "max", floor |-> "min", trunc |-> "minMag", round |-> "maxMag", roundeven |-> "even",
          rint |-> "even", nearbyint |-> "even"]
Arithmetic == {"fadd", "fsub", "fmul", "frem"}

\* bits is the width of an integer operand or result.
Scalar(op, bits, predicate, a, b, c) ==
  CASE op \in {"sitofp", "uitofp"} -> ToFloat(op, a, bits)
    [] op \in {"fptosi", "fptoui"} -> ToInt(a, op = "fptosi") % 2 ^ bits
    [] op = "fneg" -> Magnitude(a) + SignBit * (1 - SignOf(a))
    [] op = "fabs" -> Magnitude(a)
    [] op = "copysign" -> Magnitude(a) + SignBit * SignOf(b)
    [] op \in DOMAIN Modes -> RoundToInt(a, Modes[op])
    [] op = "fcmp" -> Comparison(predicate, a, b)
    [] op \in Minima \cup Maxima -> MinMax(op, a, b)
    [] op = "fadd" -> Add(a, b) [] op = "fsub" -> Sub(a, b)
    [] op = "fmul" -> Mul(a, b) [] op = "fma" -> MulAdd(a, b, c)
    [] op = "frem" -> RemTruncated(a, b)
=============================================================================
