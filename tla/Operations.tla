----------------------------- MODULE Operations ------------------------------
(***************************************************************************)
(* The operations the program computes from snapshots of its operands      *)
(* (backend.cpp operation, intrinsic): vectors lane by lane, pointers step *)
(* by step, and what has no helper of its own.  A lane is taken out of     *)
(* the vector's bytes, given to the scalar algorithm, and added into the   *)
(* bytes of the result.                                                    *)
(***************************************************************************)
EXTENDS SlotNumeric

\* element: bits that do not fill bytes are gathered one by one.
Element(v, k, width) ==
  LET bytes == width \div ByteBits
      bit(n) == Bit(v[n \div ByteBits + 1], n % ByteBits)
      place(i, p) == (i - 1) * ByteBits + p
  IN IF width % ByteBits = 0 THEN SubSeq(v, k * bytes + 1, (k + 1) * bytes)
     ELSE [i \in 1 .. ByteCount(width) |->
             FoldLeft(LAMBDA n, p : n + IF place(i, p - 1) < width
                                        THEN bit(k * width + place(i, p - 1)) * 2 ^ (p - 1) ELSE 0,
                      0, [p \in 1 .. ByteBits |-> p])]

\* pack: the bits are added to a target that is 0 there.
Pack(target, value, offset, bits) ==
  LET first == offset \div ByteBits
      bit(n) == Bit(value[n \div ByteBits + 1], n % ByteBits)
      here(i) == {n \in 0 .. bits - 1 : (offset + n) \div ByteBits = i - 1}
  IN IF offset % ByteBits = 0 /\ bits % ByteBits = 0
     THEN [i \in Indices(target) |->
             target[i] + IF i \in first + 1 .. first + bits \div ByteBits THEN value[i - first] ELSE 0]
     ELSE [i \in Indices(target) |->
             target[i] + FoldSet(LAMBDA n, sum : sum + bit(n) * 2 ^ ((offset + n) % ByteBits), 0, here(i))]

\* Lanes, given as a sequence, packed side by side.
Packed(lanes, width) ==
  FoldLeft(LAMBDA r, k : Pack(r, lanes[k], (k - 1) * width, width),
           Zero(Len(lanes) * width), [k \in Indices(lanes) |-> k])

LaneOf(c, v, k) == Element(v, k - 1, c.bits)

\* llvm.scmp, llvm.ucmp: less spreads over all bytes, greater is one.
ThreeWayCompare(c, o) ==
  LET a == Snapshot(o[1], c.bits)
      b == Snapshot(o[2], c.bits)
      less == Boolean(Compare(IF c.op = "scmp" THEN "slt" ELSE "ult", c.bits, a, b))[1]
      greater == Boolean(Compare(IF c.op = "scmp" THEN "sgt" ELSE "ugt", c.bits, a, b))[1]
  IN Normalize([i \in 1 .. ByteCount(c.to) |-> less * (B - 1) + IF i = 1 THEN greater ELSE 0], c.to)

VectorResult(c, o) ==
  LET lane(k) == <<LaneOf(c, o[1], k), LaneOf(c, o[2], k), LaneOf(c, o[3], k)>>
  IN Packed([k \in 1 .. c.lanes |-> IF c.op \in ThreeWay THEN ThreeWayCompare(c, lane(k)) ELSE Result(c, lane(k))],
            ResultBits(c))

SelectResult(c, o) ==
  IF c.lanes = 0 THEN IF o[1][1] # 0 THEN o[2] ELSE o[3]
  ELSE Packed([k \in 1 .. c.lanes |-> IF Element(o[1], k - 1, 1)[1] # 0 THEN LaneOf(c, o[2], k)
                                      ELSE LaneOf(c, o[3], k)], c.bits)

\* vector_index: an index that does not fit an address chooses no lane.
VectorIndex(bytes, count, most) ==
  IF \A i \in Indices(bytes) : i > most => bytes[i] = 0
  THEN FoldRight(LAMBDA byte, v : v * B + byte, SubSeq(bytes, 1, Smaller(most, Len(bytes))), 0) ELSE count

Indexed(c, o, most) ==
  LET extract == c.op = "extractelement"
      index == VectorIndex(o[IF extract THEN 2 ELSE 3], c.lanes, most)
  IN IF index >= c.lanes THEN Zero(IF extract THEN c.bits ELSE c.lanes * c.bits)
     ELSE IF extract THEN LaneOf(c, o[1], index + 1)
     ELSE Packed([k \in 1 .. c.lanes |-> IF k = index + 1 THEN o[2] ELSE LaneOf(c, o[1], k)], c.bits)

ShuffleResult(c, o) ==
  Packed([k \in Indices(c.mask) |->
            IF c.mask[k] < 0 THEN Zero(c.bits)
            ELSE Element(IF c.mask[k] < c.lanes THEN o[1] ELSE o[2], c.mask[k] % c.lanes, c.bits)], c.bits)

\* llvm.vector.reduce: the lanes in order, by the operation's own helper.
ReduceResult(c, o) ==
  FoldLeft(LAMBDA r, k : Result([c EXCEPT !.op = c.dir], <<r, LaneOf(c, o[1], k), r>>),
           LaneOf(c, o[1], 1), [k \in 1 .. c.lanes - 1 |-> k + 1])

\* gep: strides that are powers of two shift; the pointer's bits above the
\* index width stay.
GepDelta(c, o, step) ==
  LET given == o[step.arg]
      x == IF step.bits = c.index THEN Snapshot(given, c.index)
           ELSE Resize(step.bits, c.index, Snapshot(given, step.bits), step.bits < c.index)
      places == CHOOSE n \in 0 .. step.stride : 2 ^ n = step.stride
  IN IF step.arg = 0 THEN Encode(step.stride, c.index)
     ELSE IF step.stride = 1 THEN x
     ELSE IF \E n \in 0 .. step.stride : 2 ^ n = step.stride
          THEN Shift(c.index, x, Encode(places, c.index), "shl")
     ELSE Product(c.index, x, Encode(step.stride, c.index))

GepResult(c, o) ==
  LET base == o[1]
      sum == FoldLeft(LAMBDA s, step : Add(c.index, s, GepDelta(c, o, step)),
                      Resize(c.bits, c.index, Snapshot(base, c.bits), FALSE), c.steps)
      rest == TopModulus(c.index)
  IN [i \in Indices(base) |->
        IF i * ByteBits <= c.index THEN sum[i]
        ELSE IF (i - 1) * ByteBits >= c.index THEN base[i]
        ELSE sum[i] + (base[i] \div rest) * rest]

\* operation and intrinsic: the bytes of a value the program computes.
Computed(c, o, most) ==
  CASE c.op \in {"freeze", "bitcast"} -> o[1]
    [] c.op = "select" -> SelectResult(c, o)
    [] c.op = "extractvalue" -> SubSeq(o[1], c.at + 1, c.at + ByteCount(c.to))
    [] c.op = "insertvalue" -> [j \in Indices(o[1]) |->
                                  IF j \in c.at + 1 .. c.at + Len(o[2]) THEN o[2][j - c.at] ELSE o[1][j]]
    [] c.op \in {"extractelement", "insertelement"} -> Indexed(c, o, most)
    [] c.op = "shufflevector" -> ShuffleResult(c, o)
    [] c.op = "reduce" -> ReduceResult(c, o)
    [] c.op = "gep" -> GepResult(c, o)
    [] c.lanes > 0 -> VectorResult(c, o)
    [] c.op \in ThreeWay -> ThreeWayCompare(c, o)
=============================================================================
