------------------------------ MODULE Numeric ------------------------------
(***************************************************************************)
(* The integer algorithms the compiler emits (numeric.cpp): an integer of  *)
(* any width is a sequence of bytes, least significant first, of which the *)
(* last may be partial.  Scratch computes each step in a number that holds *)
(* it exactly; what is checked is the order of the carries, the masks of   *)
(* the partial byte and the signs.                                         *)
(*                                                                         *)
(* A byte has ByteBits bits, so that small ones show every carry.          *)
(***************************************************************************)
EXTENDS Integers, Sequences, SequencesExt, Bitwise

CONSTANT ByteBits     \* 8
ASSUME ByteBitsAssumption == ByteBits \in Nat \ {0}

B == 2 ^ ByteBits
ByteCount(bits) == (bits - 1) \div ByteBits + 1
TopBits(bits) == ((bits - 1) % ByteBits) + 1
TopModulus(bits) == 2 ^ TopBits(bits)
Indices(a) == 1 .. Len(a)

Zero(bits) == [i \in 1 .. ByteCount(bits) |-> 0]

Normalize(a, bits) == Append(Front(a), Last(a) % TopModulus(bits))

\* Operands may be longer than their type, and their top byte is not trusted.
Snapshot(a, bits) == Normalize(SubSeq(a, 1, ByteCount(bits)), bits)

Sign(a, bits) == Last(a) \div (TopModulus(bits) \div 2)
IsZero(a) == \A i \in Indices(a) : a[i] = 0

\* The more significant bytes are looked at first.
Less(a, b) ==
  \E i \in Indices(a) : a[i] < b[i] /\ \A j \in Indices(a) : j > i => a[j] = b[j]

\* The digits with each carry (or borrow) taken along to the next byte.
Ripple(digits, carryIn) ==
  LET carry[i \in 0 .. Len(digits)] ==
        IF i = 0 THEN carryIn ELSE (digits[i] + carry[i - 1]) \div B
  IN [i \in Indices(digits) |-> (digits[i] + carry[i - 1]) % B]

Add(bits, a, b) == Normalize(Ripple([i \in Indices(a) |-> a[i] + b[i]], 0), bits)
Sub(bits, a, b) == Normalize(Ripple([i \in Indices(a) |-> a[i] - b[i]], 0), bits)
Negate(a, bits) == Normalize(Ripple([i \in Indices(a) |-> B - 1 - a[i]], 1), bits)

Product(bits, a, b) ==
  LET row(out, i) == Ripple([k \in Indices(a) |->
                               out[k] + IF k >= i THEN a[i] * b[k - i + 1] ELSE 0], 0)
  IN Normalize(FoldLeft(row, Zero(bits), [i \in Indices(a) |-> i]), bits)

ShiftLeft(a, bits) == Normalize(Ripple([i \in Indices(a) |-> 2 * a[i]], 0), bits)
ShiftRight(a, bits, fill) ==
  [i \in Indices(a) |->
     IF i = Len(a) THEN a[i] \div 2 + fill * (TopModulus(bits) \div 2)
     ELSE (a[i] + B * (a[i + 1] % 2)) \div 2]

Times(n, f(_), a) ==
  LET steps[i \in 0 .. n] == IF i = 0 THEN a ELSE f(steps[i - 1]) IN steps[n]

\* The amount stops growing once it reaches the width; overshifts give zero.
ShiftAmount(b, bits) ==
  FoldRight(LAMBDA byte, n : IF n < bits THEN n * B + byte ELSE n, b, 0)

Shift(bits, a, b, op) ==
  LET amount == ShiftAmount(b, bits)
      fill == IF op = "ashr" THEN Sign(a, bits) ELSE 0
      one(x) == IF op = "shl" THEN ShiftLeft(x, bits) ELSE ShiftRight(x, bits, fill)
  IN IF amount < bits THEN Times(amount, one, a) ELSE Zero(bits)

\* Restoring division: the bits of a move into the remainder, which has a byte
\* more than the divisor, and the quotient's bits take their place in a.
Quotient(bits, a, divisor) ==
  LET wide == (Len(a) + 1) * ByteBits
      d == Append(divisor, 0)
      subtract(shifted, grown) ==
        IF Less(grown, d) THEN [a |-> shifted, rem |-> grown]
        ELSE [a |-> [shifted EXCEPT ![1] = @ + 1], rem |-> Sub(wide, grown, d)]
      step(q) == subtract(ShiftLeft(q.a, bits), [ShiftLeft(q.rem, wide) EXCEPT ![1] = @ + Sign(q.a, bits)])
      parts(q) == [quotient |-> q.a, remainder |-> Normalize(Front(q.rem), bits)]
  IN IF IsZero(divisor) THEN [quotient |-> Zero(bits), remainder |-> Zero(bits)]
     ELSE parts(Times(bits, step, [a |-> a, rem |-> Zero(wide)]))

\* abs of the least value is itself, read as its magnitude.
Abs(a, bits) == IF Sign(a, bits) = 1 THEN Negate(a, bits) ELSE a

\* divrem: magnitudes are divided; the quotient's sign is the product of the
\* signs, the remainder's that of the dividend.
DivRem(bits, a, b, signed) ==
  LET withSigns(q) ==
        [quotient |-> IF Sign(a, bits) # Sign(b, bits) THEN Negate(q.quotient, bits) ELSE q.quotient,
         remainder |-> IF Sign(a, bits) = 1 THEN Negate(q.remainder, bits) ELSE q.remainder]
  IN IF signed THEN withSigns(Quotient(bits, Abs(a, bits), Abs(b, bits))) ELSE Quotient(bits, a, b)

\* __numeric_and, __numeric_or, __numeric_xor: the tables' entries.
Table(op, x, y) == CASE op = "and" -> x & y [] op = "or" -> x | y [] op = "xor" -> x ^^ y

Bytewise(op, a, b, bits) == Normalize([i \in Indices(a) |-> Table(op, a[i], b[i])], bits)

DivisionParts == [udiv |-> "quotient", sdiv |-> "quotient", urem |-> "remainder", srem |-> "remainder"]

Compute(op, bits, a, b) ==
  CASE op = "add" -> Add(bits, a, b)
    [] op = "sub" -> Sub(bits, a, b)
    [] op = "mul" -> Product(bits, a, b)
    [] op \in {"and", "or", "xor"} -> Bytewise(op, a, b, bits)
    [] op \in {"shl", "lshr", "ashr"} -> Shift(bits, a, b, op)
    [] op \in DOMAIN DivisionParts -> DivRem(bits, a, b, op \in {"sdiv", "srem"})[DivisionParts[op]]

\* Widening fills the rest of the partial byte and the new bytes with the sign.
Resize(from, to, in, signed) ==
  LET fill == IF signed /\ to > from THEN Sign(in, from) ELSE 0
      out == [i \in 1 .. ByteCount(to) |->
                IF i < Len(in) THEN in[i]
                ELSE IF i = Len(in) THEN in[i] + fill * (B - TopModulus(from))
                ELSE fill * (B - 1)]
  IN Normalize(out, to)

\* A count as an integer of the width.
SmallResult(bits, n) ==
  Normalize([i \in 1 .. ByteCount(bits) |-> (n \div B ^ (i - 1)) % B], bits)

\* less, or the signs decide.
SignedLess(a, b, bits) ==
  \/ Sign(a, bits) > Sign(b, bits)
  \/ Sign(a, bits) = Sign(b, bits) /\ Less(a, b)

Compare(predicate, bits, a, b) ==
  CASE predicate = "eq" -> a = b
    [] predicate = "ne" -> a # b
    [] predicate = "ult" -> Less(a, b)
    [] predicate = "ule" -> Less(a, b) \/ a = b
    [] predicate = "ugt" -> Less(b, a)
    [] predicate = "uge" -> Less(b, a) \/ a = b
    [] predicate = "slt" -> SignedLess(a, b, bits)
    [] predicate = "sle" -> SignedLess(a, b, bits) \/ a = b
    [] predicate = "sgt" -> SignedLess(b, a, bits)
    [] predicate = "sge" -> SignedLess(b, a, bits) \/ a = b

Boolean(condition) == <<IF condition THEN 1 ELSE 0>>

-----------------------------------------------------------------------------
(* intrinsic *)
\* __numeric_popcount, _reverse, _clz, _ctz: the tables' entries for a byte.
Bit(x, i) == (x \div 2 ^ i) % 2
Places == 0 .. ByteBits - 1
PopCount(x) == FoldLeft(LAMBDA n, i : n + Bit(x, i - 1), 0, [i \in 1 .. ByteBits |-> i])
Reversed(x) == FoldLeft(LAMBDA n, i : 2 * n + Bit(x, i - 1), 0, [i \in 1 .. ByteBits |-> i])
ClzOf(x) == CHOOSE n \in 0 .. ByteBits : /\ \A i \in Places : i >= ByteBits - n => Bit(x, i) = 0
                                         /\ n < ByteBits => Bit(x, ByteBits - 1 - n) = 1
CtzOf(x) == CHOOSE n \in 0 .. ByteBits : /\ \A i \in Places : i < n => Bit(x, i) = 0
                                         /\ n < ByteBits => Bit(x, n) = 1

CtPop(bits, a) == SmallResult(bits, FoldLeft(LAMBDA n, x : n + PopCount(x), 0, a))

\* Bytes of zeros are counted by their width until one is not zero.
ByteWidth(a, i, bits) == IF i = Len(a) THEN TopBits(bits) ELSE ByteBits
CtLz(bits, a) ==
  LET look(s, i) == IF s.found THEN s
                    ELSE IF a[i] = 0 THEN [s EXCEPT !.n = @ + ByteWidth(a, i, bits)]
                    ELSE [n |-> s.n + ClzOf(a[i]) - (ByteBits - ByteWidth(a, i, bits)), found |-> TRUE]
  IN SmallResult(bits, FoldLeft(look, [n |-> 0, found |-> FALSE], Reverse([i \in Indices(a) |-> i])).n)
CtTz(bits, a) ==
  LET look(s, i) == IF s.found THEN s
                    ELSE IF a[i] = 0 THEN [s EXCEPT !.n = @ + ByteWidth(a, i, bits)]
                    ELSE [n |-> s.n + CtzOf(a[i]), found |-> TRUE]
  IN SmallResult(bits, FoldLeft(look, [n |-> 0, found |-> FALSE], [i \in Indices(a) |-> i]).n)

BSwap(a) == Reverse(a)
BitReverse(bits, a) ==
  LET whole == Len(a) * ByteBits
      right(x) == ShiftRight(x, whole, 0)
  IN Normalize(Times(whole - bits, right, [i \in Indices(a) |-> Reversed(a[Len(a) + 1 - i])]), bits)

\* The two operands move together, one bit at a time.
FunnelShift(bits, a, b, c, left) ==
  LET amount == FoldRight(LAMBDA byte, n : (n * B + byte) % bits, c, 0)
      half == TopModulus(bits) \div 2
      one(p) == IF left
                THEN <<[ShiftLeft(p[1], bits) EXCEPT ![1] = @ + Sign(p[2], bits)], ShiftLeft(p[2], bits)>>
                ELSE <<ShiftRight(p[1], bits, 0),
                       [ShiftRight(p[2], bits, 0) EXCEPT ![Len(b)] = @ + half * (p[1][1] % 2)]>>
      last == Times(amount, one, <<a, b>>)
  IN IF left THEN last[1] ELSE last[2]

MinMax(bits, a, b, signed, max) ==
  LET less == IF signed THEN SignedLess(a, b, bits) ELSE Less(a, b)
  IN IF less # max THEN a ELSE b

\* The bound a saturating operation stops at: the sign of the first operand
\* tells which when they are signed.
Bound(bits, a, arithmetic, signed) ==
  LET n == ByteCount(bits)
      Filled(top, rest) == [i \in 1 .. n |-> IF i = n THEN top ELSE rest]
  IN IF ~signed THEN IF arithmetic = "sub" THEN Zero(bits) ELSE Filled(TopModulus(bits) - 1, B - 1)
     ELSE IF Sign(a, bits) = 1 THEN Filled(TopModulus(bits) \div 2, 0)
     ELSE Filled(TopModulus(bits) \div 2 - 1, B - 1)

\* Computed wide enough to be exact; what does not survive the way back did
\* overflow.
Checked(bits, a, b, arithmetic, signed) ==
  LET wide == IF arithmetic = "mul" THEN 2 * bits ELSE bits + 1
      narrowed(exact, result) ==
        [result |-> result, overflowed |-> exact # Resize(bits, wide, result, signed)]
      checked(exact) == narrowed(exact, Resize(wide, bits, exact, FALSE))
  IN checked(Compute(arithmetic, wide, Resize(bits, wide, a, signed), Resize(bits, wide, b, signed)))

WithOverflow(checked) == checked.result \o Boolean(checked.overflowed)
Saturating(bits, a, checked, arithmetic, signed) ==
  IF checked.overflowed THEN Bound(bits, a, arithmetic, signed) ELSE checked.result
=============================================================================
