------------------------------ MODULE Constants ------------------------------
(***************************************************************************)
(* The compiler's own arithmetic on constants (constants.cpp): the bytes   *)
(* of initialisers and of instructions whose operands are all constant.    *)
(* It is written apart from the helpers of the running program, bit by bit *)
(* where those go byte by byte, and has to agree with them.                *)
(***************************************************************************)
EXTENDS Numeric

BitOf(bytes, n) == Bit(bytes[n \div ByteBits + 1], n % ByteBits)

\* The bytes with these bits, the lowest first.
Assembled(bits) ==
  [i \in 1 .. ByteCount(Len(bits)) |->
     FoldLeft(LAMBDA n, p : LET at == (i - 1) * ByteBits + p
                            IN IF at > Len(bits) THEN n ELSE n + bits[at] * 2 ^ (p - 1),
              0, [p \in 1 .. ByteBits |-> p])]

\* bytes.resize, then normalize.
Sized(bytes, bits) ==
  Normalize([i \in 1 .. ByteCount(bits) |-> IF i <= Len(bytes) THEN bytes[i] ELSE 0], bits)

ExtractBits(bytes, offset, bits) ==
  IF offset % ByteBits = 0 /\ bits % ByteBits = 0
  THEN SubSeq(bytes, offset \div ByteBits + 1, (offset + bits) \div ByteBits)
  ELSE Assembled([i \in 1 .. bits |-> BitOf(bytes, offset + i - 1)])

InsertBits(destination, source, offset, bits) ==
  IF offset % ByteBits = 0 /\ bits % ByteBits = 0
  THEN LET first == offset \div ByteBits
       IN [i \in Indices(destination) |->
             IF i \in first + 1 .. first + bits \div ByteBits THEN source[i - first] ELSE destination[i]]
  ELSE Assembled([n \in 1 .. Len(destination) * ByteBits |->
                    IF n \in offset + 1 .. offset + bits THEN BitOf(source, n - 1 - offset)
                    ELSE BitOf(destination, n - 1)])

Literal(value, bits) ==
  Normalize([i \in 1 .. ByteCount(bits) |-> (value \div B ^ (i - 1)) % B], bits)

Cast(op, from, to, in) ==
  LET bytes == Sized(in, from)
      negative == op = "sext" /\ to > from /\ BitOf(bytes, from - 1) = 1
      filled == IF negative /\ from % ByteBits # 0
                THEN [bytes EXCEPT ![Len(bytes)] = @ + B - TopModulus(from)] ELSE bytes
  IN Normalize([i \in 1 .. ByteCount(to) |->
                  IF i <= Len(filled) THEN filled[i] ELSE IF negative THEN B - 1 ELSE 0], to)

\* Subtraction adds the complement and one.
AddSub(bits, a, b, subtract) ==
  Normalize(Ripple([i \in Indices(a) |-> a[i] + IF subtract THEN B - 1 - b[i] ELSE b[i]],
                   IF subtract THEN 1 ELSE 0), bits)

Negated(bits, a) == AddSub(bits, [i \in Indices(a) |-> 0], a, TRUE)

Relation(a, b) == IF Less(a, b) THEN -1 ELSE IF Less(b, a) THEN 1 ELSE 0

Compares(predicate, bits, x, y) ==
  LET a == Sized(x, bits)
      b == Sized(y, bits)
      sa == BitOf(a, bits - 1)
      sb == BitOf(b, bits - 1)
      relation == IF predicate \in {"slt", "sle", "sgt", "sge"} /\ sa # sb
                  THEN IF sa = 1 THEN -1 ELSE 1 ELSE Relation(a, b)
  IN CASE predicate = "eq" -> relation = 0 [] predicate = "ne" -> relation # 0
       [] predicate \in {"ult", "slt"} -> relation < 0 [] predicate \in {"ule", "sle"} -> relation <= 0
       [] predicate \in {"ugt", "sgt"} -> relation > 0 [] predicate \in {"uge", "sge"} -> relation >= 0

\* The limit stands for every value that reaches it.
BoundedIndex(bytes, limit) ==
  FoldRight(LAMBDA byte, v : IF v >= limit \/ v * B + byte >= limit THEN limit ELSE v * B + byte, bytes, 0)

\* Bits of a enter the remainder from the top; the bit that leaves it counts.
Divide(bits, a, divisor) ==
  LET one == [i \in Indices(divisor) |-> IF i = 1 THEN 1 ELSE 0]
      none == Zero(bits)
      step(s, i) ==
        LET taken == Ripple([k \in Indices(a) |-> 2 * s.rem[k]], BitOf(a, i - 1))
            leaves == s.rem[Len(a)] >= B \div 2
        IN IF leaves \/ ~Less(taken, divisor)
           THEN [quo |-> InsertBits(s.quo, <<1>>, i - 1, 1),
                 rem |-> AddSub(Len(a) * ByteBits, taken, divisor, TRUE)]
           ELSE [s EXCEPT !.rem = taken]
      normal(s) == [quo |-> Normalize(s.quo, bits), rem |-> Normalize(s.rem, bits)]
  IN IF IsZero(divisor) THEN [quo |-> none, rem |-> none]
     ELSE IF Less(a, divisor) THEN [quo |-> none, rem |-> a]
     ELSE IF divisor = one THEN [quo |-> a, rem |-> none]
     ELSE normal(FoldRight(LAMBDA i, s : step(s, i), [i \in 1 .. bits |-> i], [quo |-> none, rem |-> none]))

\* Rows of the schoolbook product; bytes of a that are zero have none.
Multiply(bits, a, b) ==
  LET row(out, i) == IF a[i] = 0 THEN out
                     ELSE Ripple([k \in Indices(a) |-> out[k] + IF k >= i THEN a[i] * b[k - i + 1] ELSE 0], 0)
  IN Normalize(FoldLeft(row, Zero(bits), [i \in Indices(a) |-> i]), bits)

ShiftBits(op, bits, a, amount) ==
  LET sign == IF op = "ashr" THEN BitOf(a, bits - 1) ELSE 0
      bit(i) == IF op = "shl" THEN IF i >= amount THEN BitOf(a, i - amount) ELSE 0
                ELSE IF i + amount < bits THEN BitOf(a, i + amount) ELSE sign
  IN IF amount >= bits THEN Zero(bits) ELSE Assembled([i \in 1 .. bits |-> bit(i - 1)])

\* Magnitudes are divided; the signs come back afterwards.
SignedDivide(op, bits, a, b) ==
  LET sa == op \in {"sdiv", "srem"} /\ BitOf(a, bits - 1) = 1
      sb == op \in {"sdiv", "srem"} /\ BitOf(b, bits - 1) = 1
      quotient == op \in {"udiv", "sdiv"}
      signed(negative, n) == IF negative THEN Negated(bits, n) ELSE n
  IN signed(IF quotient THEN sa # sb ELSE sa,
            Divide(bits, signed(sa, a), signed(sb, b))[IF quotient THEN "quo" ELSE "rem"])

Binary(op, bits, x, y) ==
  LET a == Sized(x, bits)
      b == Sized(y, bits)
  IN CASE op \in {"add", "sub"} -> AddSub(bits, a, b, op = "sub")
       [] op \in {"and", "or", "xor"} -> [i \in Indices(a) |-> Table(op, a[i], b[i])]
       [] op = "mul" -> Multiply(bits, a, b)
       [] op \in {"shl", "lshr", "ashr"} -> ShiftBits(op, bits, a, BoundedIndex(b, bits))
       [] op \in {"udiv", "urem", "sdiv", "srem"} -> SignedDivide(op, bits, a, b)

-----------------------------------------------------------------------------
(* Evaluator: the operands o of an expression c are values already.         *)
Comparisons == {"eq", "ne", "ult", "ule", "ugt", "uge", "slt", "sle", "sgt", "sge"}
Zeros(n) == [j \in 1 .. n |-> 0]
NoLanes(c, lanes) == Zeros(ByteCount(lanes * c.bits))

\* The width of a result, or of a lane of it.
Destination(c) == IF c.op \in Comparisons THEN 1 ELSE IF c.op \in {"trunc", "zext", "sext"} THEN c.to ELSE c.bits

\* Each lane is computed from the operands' lanes and put in its place.
Elementwise(c, o) ==
  LET width == Destination(c)
      lane(v, k) == ExtractBits(v, (k - 1) * c.bits, c.bits)
      scalar(k) ==
        IF c.op \in {"trunc", "zext", "sext"} THEN Cast(c.op, c.bits, width, lane(o[1], k))
        ELSE IF c.op \in Comparisons THEN Boolean(Compares(c.op, c.bits, lane(o[1], k), lane(o[2], k)))
        ELSE Binary(c.op, c.bits, lane(o[1], k), lane(o[2], k))
  IN FoldLeft(LAMBDA r, k : InsertBits(r, scalar(k), (k - 1) * width, width),
              Zeros(ByteCount(c.lanes * width)), [k \in 1 .. c.lanes |-> k])

SelectLanes(c, o) ==
  FoldLeft(LAMBDA r, k : InsertBits(r, ExtractBits(IF BitOf(o[1], k - 1) = 1 THEN o[2] ELSE o[3],
                                                   (k - 1) * c.bits, c.bits), (k - 1) * c.bits, c.bits),
           NoLanes(c, c.lanes), [k \in 1 .. c.lanes |-> k])

ShuffleLanes(c, o) ==
  LET from(index) == ExtractBits(IF index < c.lanes THEN o[1] ELSE o[2], (index % c.lanes) * c.bits, c.bits)
      put(r, k) == IF c.mask[k] < 0 THEN r ELSE InsertBits(r, from(c.mask[k]), (k - 1) * c.bits, c.bits)
  IN FoldLeft(put, NoLanes(c, Len(c.mask)), [k \in Indices(c.mask) |-> k])

\* The sum is kept to the index bits and put into the pointer's low bits.
Gep(c, o) ==
  LET delta(step) ==
        IF step.arg = 0 THEN Literal(step.stride, c.index)
        ELSE Binary("mul", c.index,
                    Cast(IF step.bits > c.index THEN "trunc" ELSE "sext", step.bits, c.index, o[step.arg]),
                    Literal(step.stride, c.index))
      sum == FoldLeft(LAMBDA s, step : Binary("add", c.index, s, delta(step)),
                      Cast("trunc", c.bits, c.index, o[1]), c.steps)
  IN InsertBits(o[1], sum, 0, c.index)

Operation(c, o) ==
  LET index == BoundedIndex(o[IF c.op = "extractelement" THEN 2 ELSE 3], c.lanes)
  IN CASE c.op = "gep" -> Gep(c, o)
       [] c.op \in {"freeze", "bitcast"} -> o[1]
       [] c.op = "select" -> IF c.lanes > 0 THEN SelectLanes(c, o) ELSE IF o[1][1] # 0 THEN o[2] ELSE o[3]
       [] c.op = "extractvalue" -> SubSeq(o[1], c.at + 1, c.at + ByteCount(c.to))
       [] c.op = "insertvalue" -> [j \in Indices(o[1]) |->
                                     IF j \in c.at + 1 .. c.at + Len(o[2]) THEN o[2][j - c.at] ELSE o[1][j]]
       [] c.op = "extractelement" -> IF index >= c.lanes THEN NoLanes(c, 1)
                                     ELSE ExtractBits(o[1], index * c.bits, c.bits)
       [] c.op = "insertelement" -> IF index >= c.lanes THEN NoLanes(c, c.lanes)
                                    ELSE InsertBits(o[1], o[2], index * c.bits, c.bits)
       [] c.op = "shufflevector" -> ShuffleLanes(c, o)
       [] c.lanes > 0 -> Elementwise(c, o)
       [] c.op \in {"trunc", "zext", "sext"} -> Cast(c.op, c.bits, c.to, o[1])
       [] c.op \in Comparisons -> Boolean(Compares(c.op, c.bits, o[1], o[2]))
       [] OTHER -> Binary(c.op, c.bits, o[1], o[2])

\* Elements of a vector lie side by side, bit by bit; fields and elements of an
\* array at their offsets, with zeros between them.
Aggregate(c, o) ==
  IF c.lanes > 0
  THEN FoldLeft(LAMBDA r, k : InsertBits(r, o[k], (k - 1) * c.bits, c.bits),
                Zeros(ByteCount(c.lanes * c.bits)), [k \in 1 .. c.lanes |-> k])
  ELSE FoldLeft(LAMBDA r, k : [j \in Indices(r) |-> IF j \in c.offsets[k] + 1 .. c.offsets[k] + Len(o[k])
                                                   THEN o[k][j - c.offsets[k]] ELSE r[j]],
                Zeros(c.size), [k \in Indices(c.offsets) |-> k])

\* The address of a symbol, with the addend's bytes added from the lowest up.
Resolve(c) ==
  LET byte(n, i) == (n \div B ^ (i - 1)) % B
  IN Ripple([i \in 1 .. c.size |-> byte(c.at, i) + byte(c.addend, i)], 0)

\* value: what an expression, an aggregate or a symbol comes to.
Value(c, o) ==
  CASE c.op = "aggregate" -> Aggregate(c, o)
    [] c.op = "symbol" -> Resolve(c)
    [] OTHER -> Operation(c, o)
=============================================================================
