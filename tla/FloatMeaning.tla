---------------------------- MODULE FloatMeaning -----------------------------
(***************************************************************************)
(* What LLVM's float operations mean: exact numbers, rounded once to the   *)
(* nearest, ties to even.  Numbers are counted in units of the smallest    *)
(* subnormal.  Where several results are right, any NaN for a NaN among    *)
(* them, the meaning is their set.                                         *)
(***************************************************************************)
EXTENDS SoftFloat

Unit == 2 ^ (Bias - 1 + FracBits)
Patterns == 0 .. 2 * SignBit - 1
NaNs == {x \in Patterns : IsNaN(x)}
Exactly(magnitude) ==
  IF ExpOf(magnitude) = 0 THEN magnitude ELSE (FracOf(magnitude) + Hidden) * 2 ^ (ExpOf(magnitude) - 1)
Number(x) == IF SignOf(x) = 1 THEN -Exactly(Magnitude(x)) ELSE Exactly(Magnitude(x))
Size(n) == IF n < 0 THEN -n ELSE n

\* The magnitude nearest to n/d.  Beyond the last number lies the one that
\* would be next, which is infinity.
Nearest(n, d) ==
  LET low == Max({m \in 0 .. Infinity - 1 : d * Exactly(m) <= n})
      below == n - d * Exactly(low)
      above == d * Exactly(low + 1) - n
  IN IF below < above \/ (below = above /\ low % 2 = 0) THEN low ELSE low + 1

Signed(negative, magnitude) == magnitude + IF negative THEN SignBit ELSE 0
Rounded(n, d) == Signed(n < 0, Nearest(Size(n), d))

\* A sum that is 0 is +0, unless both are -0.
Sum(a, b) ==
  IF IsNaN(a) \/ IsNaN(b) \/ (IsInf(a) /\ IsInf(b) /\ SignOf(a) # SignOf(b)) THEN NaNs
  ELSE IF IsInf(a) THEN {a} ELSE IF IsInf(b) THEN {b}
  ELSE IF Number(a) + Number(b) = 0 THEN {Signed(a = b /\ a = SignBit, 0)}
  ELSE {Rounded(Number(a) + Number(b), 1)}

Negated(x) == (x + SignBit) % (2 * SignBit)

Product(a, b) ==
  LET negative == SignOf(a) # SignOf(b)
  IN IF IsNaN(a) \/ IsNaN(b) \/ (IsInf(a) /\ Magnitude(b) = 0) \/ (IsInf(b) /\ Magnitude(a) = 0) THEN NaNs
     ELSE IF IsInf(a) \/ IsInf(b) THEN {Signed(negative, Infinity)}
     ELSE {Signed(negative, Nearest(Size(Number(a)) * Size(Number(b)), Unit))}

\* a * b + c, rounded once.
Fused(a, b, c) ==
  LET product == Number(a) * Number(b)
      negative == SignOf(a) # SignOf(b)
  IN IF \/ IsNaN(a) \/ IsNaN(b) \/ IsNaN(c)
        \/ (IsInf(a) /\ Magnitude(b) = 0) \/ (IsInf(b) /\ Magnitude(a) = 0)
        \/ (IsInf(a) \/ IsInf(b)) /\ IsInf(c) /\ negative # (SignOf(c) = 1)
     THEN NaNs
     ELSE IF IsInf(a) \/ IsInf(b) THEN {Signed(negative, Infinity)} ELSE IF IsInf(c) THEN {c}
     ELSE IF product + Number(c) * Unit = 0
     THEN {Signed(product = 0 /\ negative /\ SignOf(c) = 1, 0)}
     ELSE {Rounded(product + Number(c) * Unit, Unit)}

\* fmod: the quotient is cut off, the result has the dividend's sign.
Remainder(a, b) ==
  IF IsNaN(a) \/ IsNaN(b) \/ IsInf(a) \/ Magnitude(b) = 0 THEN NaNs
  ELSE IF IsInf(b) THEN {a}
  ELSE {Signed(SignOf(a) = 1, Nearest(Size(Number(a)) % Size(Number(b)), 1))}

Relations(predicate) ==
  CASE predicate = "false" -> {} [] predicate = "true" -> {"less", "equal", "greater", "unordered"}
    [] predicate = "oeq" -> {"equal"} [] predicate = "one" -> {"less", "greater"}
    [] predicate = "olt" -> {"less"} [] predicate = "ole" -> {"less", "equal"}
    [] predicate = "ogt" -> {"greater"} [] predicate = "oge" -> {"greater", "equal"}
    [] predicate = "ord" -> {"less", "equal", "greater"} [] predicate = "uno" -> {"unordered"}
    [] predicate = "ueq" -> {"equal", "unordered"} [] predicate = "une" -> {"less", "greater", "unordered"}
    [] predicate = "ult" -> {"less", "unordered"} [] predicate = "ule" -> {"less", "equal", "unordered"}
    [] predicate = "ugt" -> {"greater", "unordered"} [] predicate = "uge" -> {"greater", "equal", "unordered"}
Relation(a, b) ==
  IF IsNaN(a) \/ IsNaN(b) THEN "unordered"
  ELSE IF Number(a) < Number(b) THEN "less" ELSE IF Number(a) = Number(b) THEN "equal" ELSE "greater"

\* Of two zeros minnum and maxnum may give either; the others order them.  For
\* minnum and maxnum a signaling NaN may be a NaN or count as quiet.
Extreme(op, a, b) ==
  LET low == op \in {"minnum", "minimum", "minimumnum"}
      before(x, y) == Number(x) < Number(y) \/ (Number(x) = Number(y) /\ SignOf(x) >= SignOf(y))
      first == IF before(a, b) = low THEN a ELSE b
      zeros == Magnitude(a) = 0 /\ Magnitude(b) = 0
  IN IF IsNaN(a) \/ IsNaN(b)
     THEN (IF op \in {"minimum", "maximum"} \/ (IsNaN(a) /\ IsNaN(b)) THEN NaNs ELSE {IF IsNaN(a) THEN b ELSE a})
            \cup (IF op \in {"minnum", "maxnum"} /\ (Signaling(a) \/ Signaling(b)) THEN NaNs ELSE {})
     ELSE IF zeros THEN IF op \in {"minnum", "maxnum"} THEN {a, b}
                        ELSE {Signed(IF low THEN SignOf(a) + SignOf(b) > 0 ELSE SignOf(a) + SignOf(b) = 2, 0)}
     ELSE {first}

\* The integer a number is rounded to; its sign stays.
Whole(op, n) ==
  LET q == Size(n) \div Unit
      r == 2 * (Size(n) % Unit)
      up == CASE op = "trunc" -> FALSE
              [] op = "floor" -> n < 0 /\ r > 0
              [] op = "ceil" -> n > 0 /\ r > 0
              [] op = "round" -> r >= Unit
              [] OTHER -> r > Unit \/ (r = Unit /\ q % 2 = 1)
  IN IF up THEN q + 1 ELSE q
Integral(op, a) ==
  IF IsNaN(a) THEN NaNs ELSE IF IsInf(a) THEN {a}
  ELSE {Signed(SignOf(a) = 1, Nearest(Whole(op, Number(a)) * Unit, 1))}

\* The integers of a width; what does not fit is poison.
Converted(op, a, bits) ==
  LET n == IF Number(a) < 0 THEN -Whole("trunc", Number(a)) ELSE Whole("trunc", Number(a))
      least == IF op = "fptosi" THEN -(2 ^ (bits - 1)) ELSE 0
      most == IF op = "fptosi" THEN 2 ^ (bits - 1) - 1 ELSE 2 ^ bits - 1
  IN IF IsNaN(a) \/ IsInf(a) \/ n < least \/ n > most THEN 0 .. 2 ^ bits - 1 ELSE {n % 2 ^ bits}
FromInteger(op, n, bits) ==
  LET value == IF op = "sitofp" /\ n >= 2 ^ (bits - 1) THEN n - 2 ^ bits ELSE n
  IN {Rounded(value * Unit, 1)}

\* The results an operation may have.
Results(op, bits, predicate, a, b, c) ==
  CASE op = "fadd" -> Sum(a, b)
    [] op = "fsub" -> IF IsNaN(b) THEN NaNs ELSE Sum(a, Negated(b))
    [] op = "fmul" -> Product(a, b)
    [] op = "fma" -> Fused(a, b, c)
    [] op = "frem" -> Remainder(a, b)
    [] op = "fcmp" -> {IF Relation(a, b) \in Relations(predicate) THEN 1 ELSE 0}
    [] op = "fneg" -> {Negated(a)} [] op = "fabs" -> {Magnitude(a)}
    [] op = "copysign" -> {Signed(SignOf(b) = 1, Magnitude(a))}
    [] op \in {"fptosi", "fptoui"} -> Converted(op, a, bits)
    [] op \in {"sitofp", "uitofp"} -> FromInteger(op, a, bits)
    [] op \in {"minnum", "maxnum", "minimum", "maximum", "minimumnum", "maximumnum"} -> Extreme(op, a, b)
    [] OTHER -> Integral(op, a)
=============================================================================
