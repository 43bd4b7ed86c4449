----------------------------- MODULE Instruction -----------------------------
(***************************************************************************)
(* One instruction of a function, from what the compiler makes of it to    *)
(* the last byte it writes (backend.cpp instruction, invoke).  The same    *)
(* instruction may be computed by the compiler, reduced to a copy, a fill  *)
(* or a shift, given to a helper, or done by a shared operation: whatever  *)
(* was chosen, the slot must hold what LLVM means, and nothing else may    *)
(* change.                                                                 *)
(*                                                                         *)
(* An operand is a slot; a constant has its bytes in a slot of its own in  *)
(* the constant pool.  Memory is __scl_memory, of bytes with ByteBits bits.*)
(***************************************************************************)
EXTENDS Operations, SlotMemory

CONSTANTS ExpBits, FracBits, GuardBits,   \* of a float
          Memories,         \* the contents of __scl_memory
          Instructions(_)   \* the instructions met with these contents

ASSUME FormatAssumption ==
  /\ ExpBits \in Nat /\ FracBits \in Nat \ {0} /\ GuardBits \in Nat \ {0, 1}
  /\ FracBits + GuardBits + 2 <= 2 ^ (ExpBits - 1)   \* every integer is finite

VARIABLES memory, before,   \* __scl_memory, and as the instruction found it
          instr,            \* the instruction
          moves, done,      \* the bytes it moves, and how many it has moved
          phase             \* "idle", "moving", "done" or "trap"

instructionVars == <<memory, before, instr, moves, done, phase>>

Folding == INSTANCE Constants
Floating == INSTANCE Floats
Ieee == INSTANCE FloatMeaning

-----------------------------------------------------------------------------
IsConst(x) == x.const # <<>>
Operand(m, x) == IF IsConst(x) THEN x.const ELSE Slot(m, x.slot, x.size)
Operands(m, c) == [k \in Indices(c.args) |-> Operand(m, c.args[k])]

\* The pool holds the constants from the start.
WithPool(m, c) ==
  [a \in DOMAIN m |->
     LET here == {k \in Indices(c.args) : IsConst(c.args[k])
                    /\ a \in c.args[k].slot .. c.args[k].slot + Len(c.args[k].const) - 1}
     IN IF here = {} THEN m[a]
        ELSE LET k == CHOOSE k \in here : TRUE IN c.args[k].const[a - c.args[k].slot + 1]]

Foldable == Binary \cup Predicates \cup Casts
              \cup {"gep", "bitcast", "freeze", "select", "extractvalue", "insertvalue",
                    "extractelement", "insertelement", "shufflevector"}
Data == {"aggregate", "symbol"}       \* initialisers

AllConst(c) == \A k \in Indices(c.args) : IsConst(c.args[k])
Equals(x, n) == x.const # <<>> /\ x.const = [i \in Indices(x.const) |-> IF i = 1 THEN n ELSE 0]

\* slot_copy.
SlotCopy(m, d, x, n) == IF d = x.slot THEN <<>> ELSE Copy(m, d, x.slot, n)

\* The amount of a shift stops at the width.
Amount(bytes, bits) == FoldRight(LAMBDA byte, n : Smaller(bits, n * B + byte), bytes, 0)

Ones(bytes) == {n \in 0 .. Len(bytes) * ByteBits - 1 : Bit(bytes[n \div ByteBits + 1], n % ByteBits) = 1}
PowerOfTwo(x) == IsConst(x) /\ Cardinality(Ones(x.const)) = 1

Shifts(m, c, op, x, amount) ==
  Puts(c.dst, ShiftConstant(op, c.bits, amount, Snapshot(Operand(m, x), c.bits)))

\* A binary operation on scalars: a neutral operand leaves a copy, a product
\* with 0 a fill, a constant amount or a power of two a shift by a constant.
KeepsLeft(c) ==
  \/ Equals(c.args[2], 0) /\ c.op \in {"add", "sub", "or", "xor", "shl", "lshr", "ashr"}
  \/ Equals(c.args[2], 1) /\ c.op = "mul"

\* Mutant: x - 0 is x, and so is 0 - x.
KeepsRightAlways(c) ==
  \/ Equals(c.args[1], 0) /\ c.op \in {"add", "sub", "or", "xor"}
  \/ Equals(c.args[1], 1) /\ c.op = "mul"

KeepsRight(c) ==
  \/ Equals(c.args[1], 0) /\ c.op \in {"add", "or", "xor"}
  \/ Equals(c.args[1], 1) /\ c.op = "mul"

Vanishes(c) == c.op = "mul" /\ \E k \in 1 .. 2 : Equals(c.args[k], 0)

ShiftsByConstant(c) ==
  \/ c.op \in {"shl", "lshr", "ashr"} /\ IsConst(c.args[2])
  \/ c.op = "mul" /\ \E k \in 1 .. 2 : PowerOfTwo(c.args[k])

Simple(c) ==
  /\ c.op \in Binary /\ c.lanes = 0
  /\ KeepsLeft(c) \/ KeepsRight(c) \/ Vanishes(c) \/ ShiftsByConstant(c)

SimpleMoves(m, c) ==
  LET n == ByteCount(c.bits)
      place(x) == CHOOSE p \in Ones(x.const) : TRUE
      power == IF PowerOfTwo(c.args[1]) THEN 1 ELSE 2
  IN IF KeepsLeft(c) THEN SlotCopy(m, c.dst, c.args[1], n)
     ELSE IF KeepsRight(c) THEN SlotCopy(m, c.dst, c.args[2], n)
     ELSE IF Vanishes(c) THEN Fill(c.dst, 0, n)
     ELSE IF c.op = "mul" THEN Shifts(m, c, "shl", c.args[3 - power], place(c.args[power]))
     ELSE Shifts(m, c, c.op, c.args[1], Amount(c.args[2].const, c.bits))

\* How many bits the result has altogether.
TotalBits(c) ==
  CASE c.op \in {"extractelement", "reduce"} -> c.bits
    [] c.op = "extractvalue" -> c.to
    [] c.op = "shufflevector" -> Len(c.mask) * c.bits
    [] OTHER -> Larger(c.lanes, 1) * ResultBits(c)

Canonical(c, bytes) ==
  IF c.op \in {"insertvalue", "gep"} THEN bytes ELSE Normalize(bytes, TotalBits(c))

Fitted(c, value) ==
  IF c.op \in Data \cup {"insertvalue"} THEN value ELSE Folding!Sized(value, TotalBits(c))
Fold(c) == Fitted(c, Folding!Value(c, [k \in Indices(c.args) |-> c.args[k].const]))

\* share_instruction: the constant steps of a pointer are added up by the
\* compiler; without others the pointer is a copy.
FixedStep(c, step) == step.arg = 0 \/ IsConst(c.args[step.arg])
Fixed(c) ==
  Number(Folding!Gep([c EXCEPT !.steps = SelectSeq(@, LAMBDA step : FixedStep(c, step))],
                     [k \in Indices(c.args) |-> IF k = 1 THEN Zero(c.bits) ELSE c.args[k].const]))
WithFixed(c, fixed) ==
  SelectSeq(c.steps, LAMBDA step : ~FixedStep(c, step))
    \o IF fixed = 0 THEN <<>> ELSE <<[arg |-> 0, bits |-> c.index, stride |-> fixed]>>
Dynamic(c) == IF c.op = "gep" THEN [c EXCEPT !.steps = WithFixed(c, Fixed(c))] ELSE c

SharedOf(m, c) ==
  IF c.op = "gep" /\ c.steps = <<>> THEN SlotCopy(m, c.dst, c.args[1], ByteCount(c.bits))
  ELSE Puts(c.dst, Canonical(c, Computed(c, Operands(m, c), AddressBytes)))
SharedMoves(m, c) == SharedOf(m, Dynamic(c))

\* The flag of an overflow has its place in the struct, and padding around it.
Padding(m, c) ==
  LET bytes == ByteCount(c.bits)
  IN (IF c.at = bytes THEN <<>>
      ELSE <<Carry(c.dst + c.at, c.dst + bytes)>> \o Fill(c.dst + bytes, 0, c.at - bytes))
       \o Fill(c.dst + c.at + 1, 0, c.size - c.at - 1)

HelperMoves(m, c) ==
  Puts(c.dst, Result(c, Operands(m, c))) \o IF c.op = "overflow" THEN Padding(m, c) ELSE <<>>

\* lower_floating: a vector is taken apart, and put together from its results.
FloatLane(c, o) ==
  Encode(Floating!Scalar(c.dir, IF c.dir \in {"fptosi", "fptoui"} THEN c.to ELSE c.bits, c.predicate,
                         Number(o[1]), Number(o[2]), Number(o[3])), c.to)
FloatMoves(m, c) ==
  LET o == Operands(m, c)
      lanes == IF c.lanes = 0 THEN <<o>>
               ELSE [k \in 1 .. c.lanes |-> <<LaneOf(c, o[1], k), LaneOf(c, o[2], k), LaneOf(c, o[3], k)>>]
  IN Puts(c.dst, Packed([k \in Indices(lanes) |-> FloatLane(c, lanes[k])], c.to))

-----------------------------------------------------------------------------
(* Memory.  A trap takes the place of the moves that do not happen.         *)
Trap == [to |-> -1, from |-> None, value |-> 0, mod |-> 1]
Guarded(bad, access) == IF bad THEN <<Trap>> ELSE access

Uniform(x) == IsConst(x) /\ \A i \in Indices(x.const) : x.const[i] = x.const[1]

LoadMoves(m, c) ==
  LET n == ByteCount(c.bits)
      p == c.args[1].slot
  IN Guarded(BadPointer(m, p, n), Load(m, c.dst, p, n, c.bits))

\* A constant of equal bytes is a fill.
StoreMoves(m, c) ==
  LET n == ByteCount(c.bits)
      x == c.args[1]
      p == c.args[2].slot
  IN IF Uniform(x) THEN Guarded(BadMemset(m, p, n), Memset(m, p, x.const[1], n))
     ELSE Guarded(BadPointer(m, p, n), Store(m, p, x.slot, n, c.bits))

\* memmove_slot, memset_slot: the count is a slot, too.
CountedMoves(m, c) ==
  LET count == c.args[3]
      n == Decode(m, count.slot, count.size)
      p == c.args[1].slot
      q == c.args[2].slot
  IN IF Exceeds(m, count.slot, count.size) THEN <<Trap>>
     ELSE IF c.op = "memset" THEN Guarded(BadMemset(m, p, n), Memset(m, p, m[q], n))
     ELSE Guarded(BadMemmove(m, p, q, n), Memmove(m, p, q, n))

\* Masked accesses, lane by lane: a lane that is masked off is not looked at.
\* What is loaded is written when all lanes are there.
MaskedLanes(c, mask) == SelectSeq([k \in 1 .. c.lanes |-> k], LAMBDA k : Element(mask, k - 1, 1)[1] # 0)

MaskedMoves(m, c) ==
  LET n == ByteCount(c.bits)
      pointers == Operand(m, c.args[1])
      mask == Operand(m, c.args[2])
      values == Operand(m, c.args[3])
      wide == PointerBytes * ByteBits
      pointer(k) == IF c.dir = "each" THEN Element(pointers, k - 1, wide)
                    ELSE Add(wide, pointers, Encode((k - 1) * n, wide))
      bad(k) == BadPointer([i \in 0 .. PointerBytes - 1 |-> pointer(k)[i + 1]], 0, n)
      address(k) == Pointer([i \in 0 .. PointerBytes - 1 |-> pointer(k)[i + 1]], 0)
      lanes == MaskedLanes(c, mask)
      loaded == [i \in Indices(values) |->
                   LET k == (i - 1) \div n + 1 IN
                   IF k \in ToSet(lanes) THEN m[address(k) + ((i - 1) % n)] ELSE values[i]]
      store(k) == Guarded(bad(k), Puts(address(k), LaneOf(c, values, k)))
  IN IF c.op = "masked_load"
     THEN Guarded(\E k \in ToSet(lanes) : bad(k), Puts(c.dst, loaded))
     ELSE FlattenSeq([j \in Indices(lanes) |-> store(lanes[j])])

\* atomicrmw: the old value is the result.
Complemented(c, bytes) ==
  IF c.dir = "nand" THEN Bytewise("xor", bytes, [i \in Indices(bytes) |-> B - 1], c.bits) ELSE bytes
Updated(c, old, operand) ==
  IF c.dir = "xchg" THEN operand
  ELSE Complemented(c, Result([c EXCEPT !.op = IF c.dir = "nand" THEN "and" ELSE c.dir],
                              <<old, operand, operand>>))

AtomicMoves(m, c) ==
  LET n == ByteCount(c.bits)
      p == c.args[1].slot
      old == Slot(m, Pointer(m, p), n)
      operand == Operand(m, c.args[2])
      same == Compare("eq", c.bits, Snapshot(old, c.bits), Snapshot(operand, c.bits))
  IN Guarded(BadPointer(m, p, n),
       IF c.op = "atomicrmw"
       THEN Puts(Pointer(m, p), Updated(c, old, operand)) \o Puts(c.dst, Normalize(old, c.bits))
       ELSE (IF same THEN Puts(Pointer(m, p), Operand(m, c.args[3])) ELSE <<>>)
              \o Puts(c.dst, [i \in 1 .. c.size |-> IF i <= n THEN old[i]
                                                    ELSE IF i = c.at + 1 THEN Boolean(same)[1] ELSE 0]))

\* instruction, invoke: which way an instruction goes.
Helpers == Binary \cup Predicates \cup Casts \cup
           {"overflow", "ctpop", "ctlz", "cttz", "bswap", "bitreverse", "abs", "smax", "smin", "umax", "umin",
            "fshl", "fshr", "sat"}
MemoryOps == {"load", "store", "memmove", "memset", "masked_load", "masked_store", "atomicrmw", "cmpxchg"}

Moves(m, c) ==
  CASE c.op = "load" -> LoadMoves(m, c)
    [] c.op = "store" -> StoreMoves(m, c)
    [] c.op \in {"memmove", "memset"} -> CountedMoves(m, c)
    [] c.op \in {"masked_load", "masked_store"} -> MaskedMoves(m, c)
    [] c.op \in {"atomicrmw", "cmpxchg"} -> AtomicMoves(m, c)
    [] c.op \in Data \/ (c.op \in Foldable /\ AllConst(c)) -> Puts(c.dst, Fold(c))
    [] Simple(c) -> SimpleMoves(m, c)
    [] c.op \in Casts /\ c.lanes = 0 /\ c.to = c.bits -> SlotCopy(m, c.dst, c.args[1], ByteCount(c.bits))
    [] c.op \in {"bitcast", "freeze"} -> SlotCopy(m, c.dst, c.args[1], c.args[1].size)
    [] c.op = "extractvalue" /\ c.to % ByteBits = 0 ->
         SlotCopy(m, c.dst, [c.args[1] EXCEPT !.slot = @ + c.at], ByteCount(c.to))
    [] c.op = "float" -> FloatMoves(m, c)
    [] c.op \in Helpers /\ c.lanes = 0 -> HelperMoves(m, c)
    [] OTHER -> SharedMoves(m, c)

-----------------------------------------------------------------------------
InstructionInit ==
  /\ memory \in Memories
  /\ before = memory
  /\ instr = <<>> /\ moves = <<>> /\ done = 0
  /\ phase = "idle"

Execute ==
  /\ phase = "idle"
  /\ \E c \in Instructions(memory) :
       /\ instr' = c
       /\ memory' = WithPool(memory, c) /\ before' = memory'
       /\ moves' = Moves(memory', c)
       /\ phase' = IF moves' = <<>> THEN "done" ELSE "moving"
  /\ done' = 0

\* One block after the other: replace item of __scl_memory.
MoveByte ==
  /\ phase = "moving"
  /\ moves[done + 1] # Trap
  /\ memory' = Moved(memory, moves[done + 1])
  /\ done' = done + 1
  /\ phase' = IF done' = Len(moves) THEN "done" ELSE "moving"
  /\ UNCHANGED <<before, instr, moves>>

\* trap: the status is set and everything stops.
Stop ==
  /\ phase = "moving"
  /\ moves[done + 1] = Trap
  /\ phase' = "trap"
  /\ UNCHANGED <<memory, before, instr, moves, done>>

InstructionNext == Execute \/ MoveByte \/ Stop

-----------------------------------------------------------------------------
\* Memory with these bytes at this address.
Over(m, a, bytes) ==
  [x \in DOMAIN m |-> IF x \in a .. a + Len(bytes) - 1 THEN bytes[x - a + 1] ELSE m[x]]

\* What a constant or an instruction is worth for the operands it finds.
Fields(c, o) ==
  [j \in 1 .. c.size |->
     IF \E k \in Indices(c.offsets) : j \in c.offsets[k] + 1 .. c.offsets[k] + Len(o[k])
     THEN LET k == CHOOSE k \in Indices(c.offsets) : j \in c.offsets[k] + 1 .. c.offsets[k] + Len(o[k])
          IN o[k][j - c.offsets[k]]
     ELSE 0]

ValueOf(m, c) ==
  LET o == Operands(m, c)
  IN CASE c.op = "aggregate" -> IF c.lanes > 0 THEN Vector([k \in Indices(o) |-> Number(o[k])], c.bits)
                                ELSE Fields(c, o)
       [] c.op = "symbol" -> Encode(c.at + c.addend, c.size * ByteBits)
       [] OTHER -> Meaning(c, o)

\* When a value instruction is over, its slot holds what the operation means
\* for the numbers its operands were when it began, wherever they lie and
\* whichever way the compiler took, and no other byte has changed
\* (backend.cpp:746-810, slot_numeric.cpp:61, constants.cpp).
ValuesMean ==
  phase = "done" /\ instr.op \notin MemoryOps \cup {"float"} =>
    memory = Over(before, instr.dst, ValueOf(before, instr))

\* A float operation leaves a result that LLVM allows in every lane: exact
\* arithmetic rounded once, the comparison asked for with unordered NaNs, the
\* remainder of the truncated quotient, the right zero; and no other byte has
\* changed (float_lower.cpp:112, runtime.c:62, the soft-float sources).
FloatsMean ==
  phase = "done" /\ instr.op = "float" =>
    LET count == Larger(instr.lanes, 1)
        o == Operands(before, instr)
        out == Slot(memory, instr.dst, ByteCount(count * instr.to))
        lane(x, width) == Lanes(x, count, width)
    IN /\ memory = Over(before, instr.dst, out)
       /\ Number(out) < 2 ^ (count * instr.to)
       /\ \A k \in 1 .. count :
            lane(out, instr.to)[k] \in
              Ieee!Results(instr.dir, IF instr.dir \in {"fptosi", "fptoui"} THEN instr.to ELSE instr.bits,
                           instr.predicate, lane(o[1], instr.bits)[k], lane(o[2], instr.bits)[k],
                           lane(o[3], instr.bits)[k])

\* Every instruction that has a value computes it.
ComputesMeaning == ValuesMean /\ FloatsMean

-----------------------------------------------------------------------------
\* An access is legal when every byte of it is the program's.
Legal(a, n) == n = 0 \/ (DataStart <= a /\ a + n - 1 <= MemorySize)

\* The accesses of an instruction in their order: an address and, when they are
\* written, the bytes.
LaneAddress(m, c, k) ==
  LET wide == 2 ^ (PointerBytes * ByteBits)
      pointers == Number(Operand(m, c.args[1]))
  IN IF c.dir = "each" THEN (pointers \div wide ^ (k - 1)) % wide
     ELSE (pointers + (k - 1) * ByteCount(c.bits)) % wide

On(m, c) == SelectSeq([k \in 1 .. c.lanes |-> k],
                      LAMBDA k : Lanes(Operand(m, c.args[2]), c.lanes, 1)[k] = 1)

Accesses(m, c) ==
  LET at(k) == Number(Operand(m, c.args[k]))
      given == Operand(m, c.args[Len(c.args)])
      n == ByteCount(c.bits)
  IN CASE c.op = "load" -> <<[a |-> at(1), n |-> n]>>
       [] c.op = "store" -> <<[a |-> at(2), n |-> n]>>
       [] c.op = "memset" -> <<[a |-> at(1), n |-> at(3)]>>
       [] c.op = "memmove" -> <<[a |-> at(1), n |-> at(3)], [a |-> at(2), n |-> at(3)]>>
       [] c.op \in {"atomicrmw", "cmpxchg"} -> <<[a |-> at(1), n |-> n]>>
       [] OTHER -> [j \in Indices(On(m, c)) |-> [a |-> LaneAddress(m, c, On(m, c)[j]), n |-> n]]

Traps(m, c) == \E access \in Range(Accesses(m, c)) : ~Legal(access.a, access.n)

\* The scatter of the lanes that are on, up to the first that may not be.
Scattered(m, c) ==
  LET n == ByteCount(c.bits)
      put(s, k) == LET a == LaneAddress(m, c, k)
                   IN IF s.trap \/ ~Legal(a, n) THEN [s EXCEPT !.trap = TRUE]
                      ELSE [s EXCEPT !.m = Over(@, a, Encode(Lanes(Operand(m, c.args[3]), c.lanes, c.bits)[k], c.bits))]
  IN FoldLeft(put, [m |-> m, trap |-> FALSE], On(m, c)).m

\* The memory a legal access leaves.
Effected(m, c, a) ==
  LET n == ByteCount(c.bits)
      old == Slot(m, a[1].a, n)
      value(k) == Number(Operand(m, c.args[k])) % 2 ^ c.bits
      one(op) == Scalar([c EXCEPT !.op = op], Number(old) % 2 ^ c.bits, value(2), 0)
      same == Number(old) % 2 ^ c.bits = value(2)
  IN CASE c.op = "load" -> Over(m, c.dst, Encode(Number(old), c.bits))
       [] c.op = "store" -> Over(m, a[1].a, Encode(value(1), c.bits))
       [] c.op = "memset" -> Over(m, a[1].a, [i \in 1 .. a[1].n |-> m[c.args[2].slot]])
       [] c.op = "memmove" -> IF a[1].n = 0 THEN m ELSE Over(m, a[1].a, Slot(m, a[2].a, a[2].n))
       [] c.op = "atomicrmw" ->
            Over(Over(m, a[1].a, Encode(CASE c.dir = "xchg" -> value(2)
                                          [] c.dir = "nand" -> -1 - one("and")
                                          [] OTHER -> one(c.dir), c.bits)),
                 c.dst, Encode(Number(old), c.bits))
       [] c.op = "cmpxchg" ->
            Over(IF same THEN Over(m, a[1].a, Encode(value(3), c.bits)) ELSE m, c.dst,
                 [i \in 1 .. c.size |-> IF i <= n THEN old[i] ELSE IF i = c.at + 1 /\ same THEN 1 ELSE 0])
       [] c.op = "masked_load" ->
            Over(m, c.dst, [i \in 1 .. c.lanes * n |->
              LET k == (i - 1) \div n + 1
              IN IF k \in ToSet(On(m, c)) THEN m[LaneAddress(m, c, k) + ((i - 1) % n)]
                 ELSE Operand(m, c.args[3])[i]])
       [] c.op = "masked_store" -> Scattered(m, c)
Effect(m, c) == Effected(m, c, Accesses(m, c))

\* An access moves all its bytes as they were before it, also onto themselves;
\* one that leaves the program's memory by a byte, or whose pointer or length
\* has more bytes than an address, moves none and ends the program
\* (slot_memory.cpp:74, 219-280; backend.cpp 219, 525-548, 852-870).
MovesWhole ==
  /\ phase = "done" /\ instr.op \in MemoryOps =>
       ~Traps(before, instr) /\ memory = Effect(before, instr)
  /\ phase = "trap" =>
       /\ Traps(before, instr)
       /\ memory = IF instr.op = "masked_store" THEN Scattered(before, instr) ELSE before
=============================================================================
