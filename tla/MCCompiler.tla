----------------------------- MODULE MCCompiler ------------------------------
(* Bytes of two bits, addresses of two bytes, pointers of three.  Operands    *)
(* lie at 2, 4 and 3, so that the third overlaps both; constants at 7, 10, 13. *)
(* A program is pruned, or an instruction is lowered, or a template, or the   *)
(* blocks of a project are built: main.cpp does one after the other, and they *)
(* share no state.                                                            *)
EXTENDS Instruction, Pruning, MCBlocks

\* An instruction repeats its last operand in the places it does not need.
Op(op, bits, dst, args) ==
  [op |-> op, bits |-> bits, to |-> bits, dir |-> "-", predicate |-> "-", signed |-> FALSE, dst |-> dst,
   lanes |-> 0, at |-> 0, size |-> 0, mask |-> <<>>, steps |-> <<>>, index |-> 0,
   offsets |-> <<>>, addend |-> 0, args |-> args]
Ref(slot, bits) == [slot |-> slot, size |-> ByteCount(bits), bits |-> bits, const |-> <<>>]
Const(slot, n, bits) == [slot |-> slot, size |-> ByteCount(bits), bits |-> bits, const |-> Encode(n, bits)]
Casted(c, widths) ==
  {[c EXCEPT !.op = "trunc", !.to = to] : to \in widths \cap 1 .. c.bits - 1}
  \cup {[c EXCEPT !.op = op, !.to = to] : op \in {"zext", "sext"}, to \in widths \ (1 .. c.bits)}

\* Every operation of a width on slots, and shifts by every constant.
HelperCalls(bits, dst) ==
  LET args == <<Ref(2, bits), Ref(4, bits), Ref(3, bits)>>
      calls == {Op(op, bits, dst, args) : op \in
                  Binary \cup Predicates \cup {"ctpop", "ctlz", "cttz", "bitreverse", "abs", "smax", "smin",
                                               "umax", "umin", "fshl", "fshr"}}
  IN calls
     \cup (IF bits % (2 * ByteBits) = 0 THEN {Op("bswap", bits, dst, args)} ELSE {})
     \cup Casted(Op("trunc", bits, dst, args), 1 .. 5)
     \cup {[Op("overflow", bits, dst, args) EXCEPT !.signed = s, !.dir = d, !.at = ByteCount(bits),
                                                   !.size = ByteCount(bits) + 1] :
             s \in BOOLEAN, d \in {"add", "sub", "mul"}}
     \cup {[Op("sat", bits, dst, args) EXCEPT !.signed = s, !.dir = d] : s \in BOOLEAN, d \in {"add", "sub"}}
     \cup {[Op(op, bits, dst, args) EXCEPT !.to = 2] : op \in ThreeWay}

\* Every binary operation with a constant on one side that may be special.
HalfConstant(bits, dst) ==
  {Op("freeze", bits, dst, <<Ref(2, bits), Ref(2, bits), Ref(2, bits)>>)}
  \cup {Op(op, bits, dst, <<x, y, y>>) : op \in Binary \cup {"ult", "sle"},
     x \in {Ref(2, bits)}, y \in {Const(7, n, bits) : n \in {0, 1, 2 ^ (bits - 1), 2 ^ bits - 1}}}
  \cup {Op(op, bits, dst, <<Ref(2, bits), Const(7, n, bits), Const(7, n, bits)>>) :
          op \in {"shl", "lshr", "ashr"}, n \in 0 .. 2 ^ bits - 1}
  \cup {Op(op, bits, dst, <<y, x, x>>) : op \in Binary \cup {"ult", "sle"},
     x \in {Ref(2, bits)}, y \in {Const(7, n, bits) : n \in {0, 1, 2 ^ (bits - 1), 2 ^ bits - 1}}}

\* A slot holds a number of its width: moves and lanes trust its top byte.
Fitting(m, calls) ==
  {c \in calls : \A k \in Indices(c.args) : Number(Operand(m, c.args[k])) < 2 ^ (c.args[k].bits)}

\* What the compiler folds: every operation on every pair of numbers.
Folded(bits) ==
  {Op(op, bits, 1, <<Const(7, x, bits), Const(10, y, bits), Const(10, y, bits)>>) :
     op \in Binary \cup Predicates, x \in 0 .. 2 ^ bits - 1, y \in 0 .. 2 ^ bits - 1}
  \cup UNION {Casted(Op("trunc", bits, 1, <<Const(7, x, bits), Const(7, x, bits), Const(7, x, bits)>>), 1 .. 5) :
                x \in 0 .. 2 ^ bits - 1}

-----------------------------------------------------------------------------
\* Vectors, of numbers that fill bytes or do not, constant or not.
Vectored(c, args) == [c EXCEPT !.args = args]
VectorOps(lanes, bits, xs, ys, is) ==
  LET c == [Op("add", bits, 1, <<>>) EXCEPT !.lanes = lanes]
  IN {[c EXCEPT !.op = op, !.args = <<x, y, y>>] :
        op \in {"add", "sub", "lshr", "sdiv", "ult", "sgt"}, x \in xs, y \in ys}
     \cup UNION {{[d EXCEPT !.args = <<x, x, x>>] : d \in Casted(c, {1, 2, 3})} : x \in xs}
     \cup {[c EXCEPT !.op = "select", !.args = <<[i EXCEPT !.size = ByteCount(lanes), !.bits = ByteBits * ByteCount(lanes)], x, y>>] :
             x \in xs, y \in ys, i \in is}
     \cup {[c EXCEPT !.op = "extractelement", !.args = <<x, i, i>>] : x \in xs, i \in is}
     \cup {[c EXCEPT !.op = "insertelement", !.args = <<x, [y EXCEPT !.size = ByteCount(bits), !.bits = bits,
              !.const = IF @ = <<>> THEN <<>> ELSE Encode(@[1], bits)], i>>] : x \in xs, y \in ys, i \in is}
     \cup {[c EXCEPT !.op = "shufflevector", !.args = <<x, y, y>>, !.mask = m] :
             x \in xs, y \in ys, m \in {<<0>>, <<1, -1, 2>>, <<3, 0>>}}
RunningVectorOps(lanes, bits, xs, ys) ==
  LET c == [Op("add", bits, 1, <<>>) EXCEPT !.lanes = lanes]
  IN {[c EXCEPT !.op = "reduce", !.dir = d, !.args = <<x, x, x>>] : x \in xs, d \in {"add", "mul", "xor", "smax"}}
     \cup {[c EXCEPT !.op = op, !.args = <<x, y, y>>] : op \in {"umin", "ctlz", "abs"}, x \in xs, y \in ys}
     \cup {[c EXCEPT !.op = op, !.to = 3, !.args = <<x, y, y>>] : op \in ThreeWay, x \in xs, y \in ys}

VectorShapes == {<<2, 2>>, <<3, 1>>, <<2, 3>>, <<3, 3>>}
Mixed(lanes, bits) == {Ref(2, lanes * bits), Const(7, 45, lanes * bits)}
Other(lanes, bits) == {Ref(4, lanes * bits), Const(10, 6, lanes * bits)}
Choice == {Ref(3, 2), Ref(3, 6)}
            \cup {Const(13, n, 5) : n \in {0, 1, 2, 3, 16}}
VectorCalls ==
  UNION {VectorOps(s[1], s[2], Mixed(s[1], s[2]), Other(s[1], s[2]), Choice)
           \cup RunningVectorOps(s[1], s[2], Mixed(s[1], s[2]), Other(s[1], s[2])) : s \in VectorShapes}

\* Scalars and structs.
AggregateCalls ==
  {Op("select", 3, 1, <<i, x, y>>) :
     i \in {Ref(3, 1), Const(13, 0, 1), Const(13, 1, 1)},
     x \in {Ref(2, 3), Const(7, 5, 3)}, y \in {Ref(4, 3), Const(10, 2, 3)}}
  \cup {[Op("extractvalue", 8, 1, <<x, x, x>>) EXCEPT !.at = at, !.to = to] :
          x \in {Ref(2, 8), Const(7, 114, 8)}, at \in 0 .. 2, to \in 1 .. 4}
  \cup {[Op("insertvalue", 8, 1, <<x, y, y>>) EXCEPT !.at = at] :
          x \in {Ref(2, 8), Const(7, 114, 8)}, y \in {Ref(3, 3), Const(13, 5, 3)}, at \in 0 .. 2}
  \cup {[Op("overflow", 3, 1, <<Ref(2, 3), Ref(4, 3), Ref(4, 3)>>) EXCEPT
           !.dir = "add", !.signed = s, !.at = at, !.size = size] :
          s \in BOOLEAN, at \in {2, 3}, size \in {4, 5}}
  \cup {[Op("aggregate", bits, 1, <<Const(7, x, bits), Const(9, y, bits), Const(11, 5, bits)>>) EXCEPT !.lanes = 3] :
          bits \in 1 .. 3, x \in 0 .. 7, y \in 0 .. 7}
  \cup {[Op("aggregate", 1, 1, <<Const(7, x, 3), Const(9, y, 1), Const(10, 6, 4)>>) EXCEPT
           !.offsets = <<0, 2, 4>>, !.size = 6] : x \in 0 .. 7, y \in 0 .. 1}
  \cup {[Op("symbol", 1, 1, <<>>) EXCEPT !.at = at, !.addend = addend, !.size = size] :
          at \in {0, 7, 15}, addend \in {0, 1, 9, 63}, size \in 2 .. 3}

\* Pointers with some of their bits for the index.
Step(arg, bits, stride) == [arg |-> arg, bits |-> bits, stride |-> stride]
PointerCalls ==
  {[Op("gep", 6, 1, <<p, i, j>>) EXCEPT !.index = index, !.steps = steps] :
     index \in {3, 4, 6}, p \in {Ref(2, 6), Const(7, 61, 6)},
     i \in {Ref(4, 3)} \cup {Const(10, n, 3) : n \in {0, 3, 7}},
     j \in {Ref(3, 5), Const(13, 30, 5)},
     steps \in {<<>>, <<Step(0, 3, 5)>>, <<Step(2, 3, 1), Step(0, 3, 2)>>, <<Step(2, 3, 4)>>,
                <<Step(2, 3, 3), Step(3, 5, 2)>>, <<Step(3, 5, 1), Step(2, 3, 3)>>}}

-----------------------------------------------------------------------------
\* Accesses through every pointer, also ones that do not fit an address.
Pointers == 0 .. 17 \cup {63}
Pointing(slot, p) == Const(slot, p, 6)
MemoryCalls ==
  {Op("load", bits, dst, <<p, p, p>>) :
     bits \in {1, 2, 3, 4, 6, 7}, dst \in {1, 3}, p \in {Pointing(7, n) : n \in Pointers}}
  \cup {Op("store", bits, 1, <<x, p, p>>) :
          bits \in {1, 2, 3, 4, 6, 7}, p \in {Pointing(7, n) : n \in Pointers},
          x \in {Ref(2, 8)}}
  \cup {Op("store", bits, 1, <<Const(10, n, bits), p, p>>) :
          bits \in {3, 6}, p \in {Pointing(7, n) : n \in Pointers}, n \in {0, 5, 63}}
  \cup {Op("memmove", 6, 1, <<d, s, n>>) :
          d \in {Pointing(7, k) : k \in Pointers}, s \in {Pointing(10, k) : k \in Pointers},
          n \in {Pointing(13, k) : k \in {0, 1, 3, 5, 16}}}
  \cup {Op("memset", 6, 1, <<d, Ref(2, 2), n>>) :
          d \in {Pointing(7, k) : k \in Pointers}, n \in {Pointing(13, k) : k \in {0, 1, 4, 16}}}
  \cup {[Op(op, bits, 1, <<p, Const(13, mask, 2), Ref(2, 2 * bits)>>)
           EXCEPT !.lanes = 2] :
          op \in {"masked_load", "masked_store"}, bits \in {2, 4},
          p \in {Pointing(7, n) : n \in Pointers}, mask \in 0 .. 3}
  \cup {[Op(op, 2, 1, <<Const(7, p + 64 * q, 12), Const(13, mask, 2), Ref(2, 4)>>)
           EXCEPT !.lanes = 2, !.dir = "each"] :
          op \in {"masked_load", "masked_store"}, p \in Pointers, q \in {0, 3, 4, 15, 16}, mask \in 0 .. 3}
  \cup {[Op("atomicrmw", 2 * n, 1, <<p, x[n], x[n]>>) EXCEPT !.dir = d] :
          n \in 1 .. 2, p \in {Pointing(7, k) : k \in Pointers},
          x \in {[n \in 1 .. 2 |-> Ref(3, 2 * n)], [n \in 1 .. 2 |-> Const(10, 3, 2 * n)]},
          d \in {"xchg", "add", "sub", "and", "nand", "or", "xor", "smax", "umin"}}
  \cup {[Op("cmpxchg", bits, 1, <<p, Ref(3, bits), IF fixed THEN Const(10, 3, bits) ELSE Ref(4, bits)>>)
           EXCEPT !.at = bits \div ByteBits + 1, !.size = bits \div ByteBits + 2] :
          bits \in {2, 4}, p \in {Pointing(7, n) : n \in Pointers}, fixed \in BOOLEAN}

-----------------------------------------------------------------------------
\* Floats of eight bits: one number in memory, others constants among the
\* numbers where something changes.  Products stay below 2^31.
Float(dir, args) == [Op("float", 8, 1, args) EXCEPT !.dir = dir]
FloatAt(slot, x) == Const(slot, x, 8)
Edges == {0, 1, 9, 52, 56, 60, 119, 120, 121, 125, 128, 180, 184, 247, 248, 254}
Mildly(a, b) == Ieee!ExpOf(a) + Ieee!ExpOf(b) < 23 \/ Ieee!ExpOf(a) = 15 \/ Ieee!ExpOf(b) = 15
Predicated == {"false", "true", "oeq", "one", "olt", "ole", "ogt", "oge", "ord", "uno",
               "ueq", "une", "ult", "ule", "ugt", "uge"}
FloatCalls(m) ==
  LET x == Ref(1, 8)
      y(n) == FloatAt(5, n)
      given == Number(Operand(m, x))
  IN {Float(dir, <<x, x, x>>) : dir \in {"fneg", "fabs"} \cup DOMAIN Floating!Modes}
     \cup {[Float(dir, <<x, x, x>>) EXCEPT !.to = bits] : dir \in {"fptosi", "fptoui"}, bits \in {1, 3, 4, 7, 8}}
     \cup {[Float(dir, <<Ref(1, bits), Ref(1, bits), Ref(1, bits)>>) EXCEPT !.bits = bits, !.to = 8] :
              dir \in {"sitofp", "uitofp"}, bits \in {1, 3, 4, 7, 8}}
     \cup {Float(dir, <<x, y(n), y(n)>>) : dir \in {"fadd", "fsub", "frem", "copysign"}, n \in Edges}
     \cup {Float(dir, <<y(n), x, x>>) : dir \in {"fsub", "frem"}, n \in Edges}
     \cup {Float(dir, <<x, y(n), y(n)>>) : dir \in Floating!Minima \cup Floating!Maxima, n \in Edges}
     \cup {[Float("fcmp", <<x, y(n), y(n)>>) EXCEPT !.predicate = p, !.to = 1] : p \in Predicated, n \in Edges}
     \cup {Float("fmul", <<x, y(n), y(n)>>) : n \in {n \in Edges : Mildly(given, n)}}
     \cup (IF given % 3 # 0 THEN {}
           ELSE {Float("fma", <<FloatAt(9, p[1]), y(p[2]), x>>) :
                   p \in {p \in Edges \X Edges : p[2] > 50 /\ Mildly(p[1], p[2])}})
     \cup {[Float(dir, <<Ref(1, 16), Ref(3, 16), Ref(3, 16)>>) EXCEPT !.lanes = 2] : dir \in {"fneg", "fadd", "maximum"}}
     \cup {[Float("fcmp", <<Ref(1, 16), Ref(3, 16), Ref(3, 16)>>) EXCEPT !.lanes = 2, !.predicate = p, !.to = 1] :
              p \in {"olt", "une"}}

-----------------------------------------------------------------------------
Cells(n, values) ==
  {[a \in 1 .. 15 |-> IF a \in 2 .. n + 1 THEN m[a - 1] ELSE 0] : m \in [1 .. n -> values]}

\* One and two bytes with every content, on both operands, beside and across
\* them; three bytes with some; a few for the rest.
Narrow == Cells(4, 0 .. 3)
Wide == Cells(5, {0, 1, 3})
Few == {[a \in 1 .. 15 |-> IF a \in 2 .. 6 THEN s[a - 1] ELSE IF a = 1 THEN 1 ELSE 0] :
          s \in {<<1, 2, 3, 0, 2>>, <<3, 1, 2, 1, 3>>, <<0, 3, 0, 3, 1>>, <<2, 0, 1, 2, 0>>}}
FloatMemories == {[a \in 1 .. 15 |-> IF a <= 4 THEN Encode(x, 8)[a] ELSE IF a = 15 THEN 1 ELSE 0] : x \in 0 .. 255}
MCMemories == Narrow \cup Wide \cup Few \cup FloatMemories

CopyCalls == UNION {HalfConstant(bits, dst) : bits \in 2 .. 3, dst \in 2 .. 3}
NarrowCalls == UNION {HelperCalls(bits, dst) : bits \in 1 .. 2, dst \in {2, 4}}
               \cup UNION {HelperCalls(bits, dst) : bits \in 3 .. 4, dst \in 1 .. 4}
WideCalls == HelperCalls(5, 3)
FewCalls == VectorCalls \cup AggregateCalls \cup PointerCalls \cup MemoryCalls
MCInstructions(m) ==
  IF m[15] = 1 THEN Fitting(m, FloatCalls(m))
  ELSE IF m[1] = 1 THEN Fitting(m, FewCalls)
  ELSE (IF m[6] = 0 THEN NarrowCalls \cup Fitting(m, CopyCalls) ELSE {})
       \cup (IF \A a \in 2 .. 6 : m[a] # 2 THEN WideCalls ELSE {})
       \cup (IF \A a \in 2 .. 6 : m[a] = 0 THEN UNION {Folded(bits) : bits \in 1 .. 4} \cup Folded(5) ELSE {})

-----------------------------------------------------------------------------
\* Calls, aliases, constructors, tables of functions, indirect calls, and float
\* operations in what is called or only pointed at.
MCPrograms ==
  {[callees |-> [x \in Symbols |-> CASE x = "main" -> m [] x = "f" -> f [] x = "rt" -> {"norm"} [] OTHER -> {}],
    addresses |-> [x \in Symbols |-> CASE x = "main" -> am [] x = "data" -> ad [] x = "alias" -> {"g"}
                                       [] x = "ctors" -> {"h"} [] x = "h" -> ah [] OTHER -> {}],
    indirect |-> i,
    floats |-> [x \in Functions |-> IF x \in fl THEN {"rt"} ELSE {}],
    pinned |-> pin] :
   m \in {{}, {"f"}, {"alias"}}, f \in {{}, {"g"}}, am \in {{}, {"data"}, {"f"}},
   ad \in {{"alias"}, {"g"}, {"g", "h"}}, ah \in {{}, {"data"}}, i \in {{}, {"main"}, {"g"}, {"f", "h"}},
   fl \in {{}, {"g"}, {"h"}}, pin \in {{}, {"ctors"}}}

VARIABLE part   \* "prune", "lower", "template" or "build"; the others stand still

compilerVars == <<part, pruningVars, instructionVars, assemblyVars, buildVars>>
OneProgram == program = (CHOOSE p \in Programs : TRUE)
OneMemory == memory = (CHOOSE m \in Memories : TRUE)
OneTemplate == AssemblyStarts(CHOOSE a \in Templates : TRUE)
OneProject == BuildStarts(CHOOSE p \in Projects : TRUE)
CompilerInit ==
  \/ part = "prune" /\ OneMemory /\ OneTemplate /\ OneProject /\ PruningInit /\ InstructionInit
  \/ part = "lower" /\ OneProgram /\ OneTemplate /\ OneProject /\ PruningInit /\ InstructionInit
  \/ part = "template" /\ OneProgram /\ OneMemory /\ OneProject /\ PruningInit /\ InstructionInit
     /\ AssemblyInit
  \/ part = "build" /\ OneProgram /\ OneMemory /\ OneTemplate /\ PruningInit /\ InstructionInit
     /\ BuildInit

PruneNext == part = "prune" /\ PruningNext /\ UNCHANGED <<part, instructionVars, assemblyVars, buildVars>>
LowerNext == part = "lower" /\ InstructionNext /\ UNCHANGED <<part, pruningVars, assemblyVars, buildVars>>
TemplateNext == part = "template" /\ AssemblyNext /\ UNCHANGED <<part, pruningVars, instructionVars, buildVars>>
BuildNext == part = "build" /\ BuildStep /\ UNCHANGED <<part, pruningVars, instructionVars, assemblyVars>>
CompilerSpec == CompilerInit /\ [][PruneNext \/ LowerNext \/ TemplateNext \/ BuildNext]_compilerVars
=============================================================================
