------------------------------ MODULE Meaning -------------------------------
(***************************************************************************)
(* What LLVM's integer, vector and aggregate operations mean: numbers,     *)
(* lanes and fields, never bytes with carries.  Where LLVM leaves a result *)
(* open it is what the tests state: division by zero, shifts by the width  *)
(* or more and lanes that do not exist give 0.                             *)
(*                                                                         *)
(* An instruction c has an operation, the width of its operands (bits), a  *)
(* number of lanes (0: no vector), and what the operation adds.            *)
(***************************************************************************)
EXTENDS Numeric

Binary == {"add", "sub", "mul", "and", "or", "xor", "shl", "lshr", "ashr",
           "udiv", "urem", "sdiv", "srem"}
Predicates == {"eq", "ne", "ult", "ule", "ugt", "uge", "slt", "sle", "sgt", "sge"}
Casts == {"trunc", "zext", "sext"}
ThreeWay == {"scmp", "ucmp"}

Number(a) == FoldRight(LAMBDA byte, n : n * B + byte, a, 0)
Encode(n, bits) == [i \in 1 .. ByteCount(bits) |-> ((n % 2 ^ bits) \div B ^ (i - 1)) % B]
AsSigned(n, bits) == IF n < 2 ^ (bits - 1) THEN n ELSE n - 2 ^ bits
Magnitude(n) == IF n < 0 THEN -n ELSE n
Truncated(x, y) == IF (x < 0) = (y < 0) THEN Magnitude(x) \div Magnitude(y)
                   ELSE -(Magnitude(x) \div Magnitude(y))
Larger(p, q) == IF p > q THEN p ELSE q
Smaller(p, q) == IF p < q THEN p ELSE q
Clamp(n, low, high) == Smaller(Larger(n, low), high)

BitsOf(n, bits) == [i \in 1 .. bits |-> (n \div 2 ^ (i - 1)) % 2]
FromBits(s) == FoldRight(LAMBDA bit, n : 2 * n + bit, s, 0)
LowZeros(s) == CHOOSE n \in 0 .. Len(s) : /\ \A i \in 1 .. n : s[i] = 0
                                          /\ n < Len(s) => s[n + 1] = 1

Exact(op, x, y) == CASE op = "add" -> x + y [] op = "sub" -> x - y [] op = "mul" -> x * y

Holds(predicate, x, y, sx, sy) ==
  CASE predicate = "eq" -> x = y [] predicate = "ne" -> x # y
    [] predicate = "ult" -> x < y [] predicate = "ule" -> x <= y
    [] predicate = "ugt" -> x > y [] predicate = "uge" -> x >= y
    [] predicate = "slt" -> sx < sy [] predicate = "sle" -> sx <= sy
    [] predicate = "sgt" -> sx > sy [] predicate = "sge" -> sx >= sy

\* A shift of x, or of its signed value, by n places.
Shifted(op, x, sx, n, bits) ==
  IF n >= bits THEN 0
  ELSE CASE op = "shl" -> x * 2 ^ n [] op = "lshr" -> x \div 2 ^ n [] op = "ashr" -> sx \div 2 ^ n

Order(x, y) == IF x < y THEN -1 ELSE IF x > y THEN 1 ELSE 0

\* The exact result of arithmetic with overflow, and the range it has to fit.
ExactOf(c, x, y) ==
  IF c.signed THEN Exact(c.dir, AsSigned(x, c.bits), AsSigned(y, c.bits)) ELSE Exact(c.dir, x, y)
Least(c) == IF c.signed THEN -(2 ^ (c.bits - 1)) ELSE 0
Greatest(c) == IF c.signed THEN 2 ^ (c.bits - 1) - 1 ELSE 2 ^ c.bits - 1

\* The width of a result, or of a lane of it.
ResultBits(c) ==
  IF c.op \in Predicates THEN 1 ELSE IF c.op \in Casts \cup ThreeWay THEN c.to ELSE c.bits

\* One number from numbers below 2 ^ c.bits; to be taken modulo its width.
Scalar(c, x, y, z) ==
  LET bits == c.bits
      sx == AsSigned(x, bits)
      sy == AsSigned(y, bits)
      xs == BitsOf(x, bits)
  IN CASE c.op \in {"add", "sub", "mul"} -> Exact(c.op, x, y)
       [] c.op = "and" -> x & y [] c.op = "or" -> x | y [] c.op = "xor" -> x ^^ y
       [] c.op \in {"shl", "lshr", "ashr"} -> Shifted(c.op, x, sx, y, bits)
       [] c.op = "udiv" -> IF y = 0 THEN 0 ELSE x \div y
       [] c.op = "urem" -> IF y = 0 THEN 0 ELSE x % y
       [] c.op = "sdiv" -> IF y = 0 THEN 0 ELSE Truncated(sx, sy)
       [] c.op = "srem" -> IF y = 0 THEN 0 ELSE sx - sy * Truncated(sx, sy)
       [] c.op \in Predicates -> IF Holds(c.op, x, y, sx, sy) THEN 1 ELSE 0
       [] c.op \in {"trunc", "zext"} -> x
       [] c.op = "sext" -> sx
       [] c.op = "ctpop" -> FoldRight(LAMBDA bit, n : bit + n, xs, 0)
       [] c.op = "ctlz" -> LowZeros(Reverse(xs))
       [] c.op = "cttz" -> LowZeros(xs)
       [] c.op = "bswap" -> Number(Reverse(Encode(x, bits)))
       [] c.op = "bitreverse" -> FromBits(Reverse(xs))
       [] c.op = "abs" -> Magnitude(sx)
       [] c.op = "smax" -> Larger(sx, sy) [] c.op = "smin" -> Smaller(sx, sy)
       [] c.op = "umax" -> Larger(x, y)   [] c.op = "umin" -> Smaller(x, y)
       [] c.op = "fshl" -> (((x * 2 ^ bits) + y) * 2 ^ (z % bits)) \div 2 ^ bits
       [] c.op = "fshr" -> ((x * 2 ^ bits) + y) \div 2 ^ (z % bits)
       [] c.op = "sat" -> Clamp(ExactOf(c, x, y), Least(c), Greatest(c))
       [] c.op = "scmp" -> Order(sx, sy) [] c.op = "ucmp" -> Order(x, y)
       [] c.op \in {"freeze", "bitcast"} -> x

-----------------------------------------------------------------------------
\* Vectors are sequences of lanes, the first lane in the lowest bits.
Lanes(a, count, width) == [k \in 1 .. count |-> (Number(a) \div 2 ^ ((k - 1) * width)) % 2 ^ width]
Vector(lanes, width) ==
  Encode(FoldRight(LAMBDA lane, n : n * 2 ^ width + (lane % 2 ^ width), lanes, 0), Len(lanes) * width)

Lanewise(c, o) ==
  LET x == Lanes(o[1], c.lanes, c.bits)
      y == Lanes(o[2], c.lanes, c.bits)
      z == Lanes(o[3], c.lanes, c.bits)
  IN Vector([k \in 1 .. c.lanes |-> Scalar(c, x[k], y[k], z[k])], ResultBits(c))

\* The flag of each lane that its exact result did not fit.
Overflows(c, x, y) == ExactOf(c, x, y) # Clamp(ExactOf(c, x, y), Least(c), Greatest(c))

Select(c, o) ==
  IF c.lanes = 0 THEN IF o[1][1] % 2 = 1 THEN o[2] ELSE o[3]
  ELSE LET chosen == Lanes(o[1], c.lanes, 1)
           x == Lanes(o[2], c.lanes, c.bits)
           y == Lanes(o[3], c.lanes, c.bits)
       IN Vector([k \in 1 .. c.lanes |-> IF chosen[k] = 1 THEN x[k] ELSE y[k]], c.bits)

Extract(c, o) ==
  LET index == Number(o[2])
  IN Encode(IF index < c.lanes THEN Lanes(o[1], c.lanes, c.bits)[index + 1] ELSE 0, c.bits)

Insert(c, o) ==
  LET index == Number(o[3])
      lanes == Lanes(o[1], c.lanes, c.bits)
  IN IF index < c.lanes THEN Vector([lanes EXCEPT ![index + 1] = Number(o[2])], c.bits)
     ELSE [j \in Indices(o[1]) |-> 0]

\* Lane -1 of the mask may be anything; the code makes it 0.
Shuffle(c, o) ==
  LET all == Lanes(o[1], c.lanes, c.bits) \o Lanes(o[2], c.lanes, c.bits)
  IN Vector([k \in Indices(c.mask) |-> IF c.mask[k] < 0 THEN 0 ELSE all[c.mask[k] + 1]], c.bits)

Reduce(c, o) ==
  LET x == Lanes(o[1], c.lanes, c.bits)
      one == [c EXCEPT !.op = c.dir]
  IN Encode(FoldLeft(LAMBDA n, lane : Scalar(one, n % 2 ^ c.bits, lane, 0), x[1], Tail(x)), c.bits)

\* A pointer moves within its index bits; the bits above them stay.
Gep(c, o) ==
  LET base == Number(o[1]) % 2 ^ c.bits
      moved(n, step) ==
        n + step.stride * (IF step.arg = 0 THEN 1
                           ELSE AsSigned(Number(o[step.arg]) % 2 ^ step.bits, step.bits))
      low == FoldLeft(moved, base, c.steps) % 2 ^ c.index
  IN Encode((base \div 2 ^ c.index) * 2 ^ c.index + low, c.bits)

\* The bytes an instruction leaves in its result's slot.
Meaning(c, o) ==
  CASE c.op = "select" -> Select(c, o)
    [] c.op = "extractelement" -> Extract(c, o)
    [] c.op = "insertelement" -> Insert(c, o)
    [] c.op = "shufflevector" -> Shuffle(c, o)
    [] c.op = "reduce" -> Reduce(c, o)
    [] c.op = "gep" -> Gep(c, o)
    [] c.op = "extractvalue" -> Encode(Number(SubSeq(o[1], c.at + 1, c.at + ByteCount(c.to))), c.to)
    [] c.op = "insertvalue" -> [j \in Indices(o[1]) |->
                                  IF j \in c.at + 1 .. c.at + Len(o[2]) THEN o[2][j - c.at] ELSE o[1][j]]
    [] c.op = "overflow" ->
         LET x == Number(o[1]) % 2 ^ c.bits
             y == Number(o[2]) % 2 ^ c.bits
             value == Encode(ExactOf(c, x, y), c.bits)
         IN [j \in 1 .. c.size |-> IF j <= Len(value) THEN value[j]
                                   ELSE IF j = c.at + 1 /\ Overflows(c, x, y) THEN 1 ELSE 0]
    [] OTHER -> IF c.lanes > 0 THEN Lanewise(c, o)
                ELSE Encode(Scalar(c, Number(o[1]) % 2 ^ c.bits, Number(o[2]) % 2 ^ c.bits,
                                   Number(o[3]) % 2 ^ c.bits), ResultBits(c))
=============================================================================
