----------------------------- MODULE SlotNumeric -----------------------------
(***************************************************************************)
(* The integer helpers a function calls (slot_numeric.cpp): the operands'  *)
(* slots are read, everything is computed from what was read, and only     *)
(* then is the destination written.  Result is what a helper computes.     *)
(***************************************************************************)
EXTENDS Meaning

Signed(op) == op \in {"smax", "smin"}

\* Whole bytes move by index, the rest of the amount within and between them;
\* the bytes that come in are filled with the sign.
ShiftConstant(op, bits, amount, a) ==
  IF amount >= bits THEN Zero(bits)
  ELSE LET fill == IF op = "ashr" THEN Sign(a, bits) ELSE 0
           in == [a EXCEPT ![Len(a)] = @ + fill * (B - TopModulus(bits))]
           whole == amount \div ByteBits
           rest == 2 ^ (amount % ByteBits)
           byte(i) == IF i < 1 THEN 0 ELSE IF i > Len(a) THEN fill * (B - 1) ELSE in[i]
       IN Normalize([i \in Indices(a) |->
            IF op = "shl"
            THEN ((byte(i - whole) * rest) % B) + (byte(i - whole - 1) * rest) \div B
            ELSE byte(i + whole) \div rest + (byte(i + whole + 1) % rest) * (B \div rest)], bits)

\* SlotNumeric::binary, compare, cast, intrinsic: the bytes to be written.
Result(c, o) ==
  LET bits == c.bits
      a == Snapshot(o[1], bits)
      b == Snapshot(o[2], bits)
  IN CASE c.op \in Binary -> Compute(c.op, bits, a, b)
       [] c.op \in Predicates -> Boolean(Compare(c.op, bits, a, b))
       [] c.op \in Casts -> Resize(bits, c.to, a, c.op = "sext")
       [] c.op = "ctpop" -> CtPop(bits, a)
       [] c.op = "ctlz" -> CtLz(bits, a)
       [] c.op = "cttz" -> CtTz(bits, a)
       [] c.op = "bswap" -> BSwap(a)
       [] c.op = "bitreverse" -> BitReverse(bits, a)
       [] c.op = "abs" -> Abs(a, bits)
       [] c.op \in {"smax", "smin", "umax", "umin"} ->
            MinMax(bits, a, b, Signed(c.op), c.op \in {"smax", "umax"})
       [] c.op \in {"fshl", "fshr"} -> FunnelShift(bits, a, b, Snapshot(o[3], bits), c.op = "fshl")
       [] c.op = "overflow" -> WithOverflow(Checked(bits, a, b, c.dir, c.signed))
       [] c.op = "sat" -> Saturating(bits, a, Checked(bits, a, b, c.dir, c.signed), c.dir, c.signed)
=============================================================================
