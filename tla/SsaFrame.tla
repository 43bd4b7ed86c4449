------------------------------ MODULE SsaFrame ------------------------------
(***************************************************************************)
(* A compiled function body: Compiler::layout gives every SSA value a slot *)
(* of the frame - values that only rename another one share its slot -     *)
(* and emit_function runs one block after the other from a dispatch tree   *)
(* over the pc in the frame.  The copies on an edge are those of PhiEdge.  *)
(*                                                                         *)
(* Units of 8 bytes; the constant is the one unit of the pool, at -1.      *)
(***************************************************************************)
EXTENDS PhiEdge

CONSTANTS Bodies,     \* the functions compiled
          Bit,        \* what one unit of an op's result may be
          Constant    \* the value of the constant operand

VARIABLES prog, slots, block, phase, result

edgeVars == <<plan, todo, source, local, temporary, outgoing_size, frame_size,
              target, start, status>>
frameVars == <<prog, slots, block, phase, result, edgeVars, mem>>

ConstantSlot == -1

-----------------------------------------------------------------------------
(* What LLVM guarantees of a function.                                     *)

\* A path from block 1 leaves S only by way of d.
Closed(succ, S, d) ==
  /\ d # 1 => 1 \in S
  /\ \A b \in S : \A i \in 1 .. Len(succ[b]) : succ[b][i] \in S \cup {d}

\* The blocks every path from block 1 to b passes, for each b of a graph.
Dominators(succ) ==
  [b \in 1 .. Len(succ) |->
     {d \in 1 .. Len(succ) : \E S \in SUBSET ((1 .. Len(succ)) \ {d}) : Closed(succ, S, d) /\ b \notin S}]

\* A graph all of whose blocks can be reached, and that does not return to block 1.
GraphOK(p) ==
  LET blocks == 1 .. Len(p.succ)
  IN /\ Len(p.succ) > 0 /\ p.succ \in Seq(Seq(blocks \ {1}))
     /\ p.dom = Dominators(p.succ)
     /\ \A S \in SUBSET blocks : Closed(p.succ, S, 0) => S = blocks

\* u is computed whenever v is, and before.
Earlier(p, u, v) == p.block[u] \in p.dom[p.block[v]] /\ (p.block[u] = p.block[v] => u < v)

\* An operand is available at the end of block b, and of the size expected there.
Provided(p, operand, b, size) ==
  IF operand = 0 THEN size = 1
  ELSE operand \in 1 .. Len(p.kind) /\ p.block[operand] \in p.dom[b] /\ p.size[operand] = size

BodyOK(p) ==
  LET blocks == 1 .. Len(p.succ)
      values == 1 .. Len(p.kind)
  IN /\ p.kind \in Seq({"op", "view", "part", "phi"})
     /\ p.block \in [values -> blocks] /\ p.size \in [values -> 1 .. 2]
     /\ \A v \in values :
          /\ p.kind[v] \in {"view", "part"} =>
               p.from[v] \in values /\ Earlier(p, p.from[v], v)
          /\ p.kind[v] = "view" => p.off[v] = 0 /\ p.size[p.from[v]] = p.size[v]
          /\ p.kind[v] = "part" => p.off[v] \in 0 .. p.size[p.from[v]] - 1 /\ p.size[v] = 1
          /\ p.kind[v] = "phi" =>
               /\ p.block[v] # 1
               /\ DOMAIN p.incoming[v] = {b \in blocks : \E i \in 1 .. Len(p.succ[b]) : p.succ[b][i] = p.block[v]}
               /\ \A b \in DOMAIN p.incoming[v] : Provided(p, p.incoming[v][b], b, p.size[v])
     /\ p.ret # 0 => p.ret \in values
     /\ \A b \in blocks : p.succ[b] = <<>> /\ p.ret # 0 => p.block[p.ret] \in p.dom[b]

\* The first pass of layout: a slot for every value, one after the other.
RawSlot(p) ==
  LET raw[v \in 1 .. Len(p.kind)] == IF v = 1 THEN PcBytes ELSE raw[v - 1] + p.size[v - 1]
  IN raw

ASSUME BodiesAssumption ==
  /\ Pool > 0 /\ PcBytes = 1 /\ Bit \subseteq Value /\ {Constant, 0} \subseteq Value
  /\ \A p \in Bodies :
       /\ GraphOK(p) /\ BodyOK(p)
       /\ 1 .. Len(p.succ) \subseteq Value
       /\ \A v \in 1 .. Len(p.kind) : RawSlot(p)[v] + p.size[v] <= Outgoing

Values == 1 .. Len(prog.kind)

-----------------------------------------------------------------------------

NoView == [from |-> 0, off |-> 0]

\* Mutant: extractvalue shares the start of the aggregate.
InstructionViewsAtStart(p) ==
  [v \in 1 .. Len(p.kind) |->
     IF p.kind[v] \in {"view", "part"} THEN [from |-> p.from[v], off |-> 0] ELSE NoView]

\* Instructions that are their operand, or a part of it.
InstructionViews(p) ==
  [v \in 1 .. Len(p.kind) |->
     IF p.kind[v] \in {"view", "part"} THEN [from |-> p.from[v], off |-> p.off[v]] ELSE NoView]

\* Mutant: only the first incoming value is looked at.
SameSourceFirst(p, v) ==
  p.kind[v] = "phi" /\ \E b \in DOMAIN p.incoming[v] : p.incoming[v][b] > 0

\* A phi all of whose incoming values are one SSA value ...
SameSource(p, v) ==
  /\ p.kind[v] = "phi"
  /\ \E s \in 1 .. Len(p.kind) : \A b \in DOMAIN p.incoming[v] : p.incoming[v][b] = s
SourceOf(p, v) == CHOOSE s \in 1 .. Len(p.kind) : \E b \in DOMAIN p.incoming[v] : p.incoming[v][b] = s

\* ... is a view of it, unless following views from it leads back to the phi.
LeadsBack(p, views, s, v) ==
  LET cursor[n \in 0..Len(p.kind)] ==
        IF n = 0 THEN s
        ELSE IF cursor[n - 1] = 0 THEN 0 ELSE views[cursor[n - 1]].from
  IN \E n \in DOMAIN cursor : cursor[n] = v

Views(p) ==
  LET after[v \in 0 .. Len(p.kind)] ==
        IF v = 0 THEN InstructionViews(p)
        ELSE LET views == after[v - 1]
             IN IF SameSource(p, v) /\ ~LeadsBack(p, views, SourceOf(p, v), v)
                THEN [views EXCEPT ![v] = [from |-> SourceOf(p, v), off |-> 0]] ELSE views
  IN after[Len(p.kind)]

\* resolve_view: the slot of a view is the one it finally leads to.
Slot(p) ==
  LET views == Views(p)
      raw == RawSlot(p)
      slot[v \in 1 .. Len(p.kind)] ==
        IF views[v].from = 0 THEN raw[v] ELSE slot[views[v].from] + views[v].off
  IN slot

OperandSlot(operand) == IF operand = 0 THEN ConstantSlot ELSE slots[operand]

-----------------------------------------------------------------------------
FrameInit ==
  /\ prog \in Bodies
  /\ slots = Slot(prog)
  /\ block = 1
  /\ phase = "loop"
  /\ result = <<>>
  /\ mem = [a \in Addr |-> CASE a = ConstantSlot -> Constant [] a = 0 -> 1 [] OTHER -> 0]
  /\ plan = <<>> /\ todo = {} /\ source = <<>> /\ local = <<>>
  /\ temporary = 0 /\ outgoing_size = 0 /\ frame_size = Outgoing + Align
  /\ target = 1 /\ start = mem /\ status = "branched"

Ranges == {r \in (1 .. Len(prog.succ)) \X (1 .. Len(prog.succ)) : r[1] <= r[2]}

\* Mutant: an index equal to the middle goes right.
BlockTreeOff(pc) ==
  LET tree[r \in Ranges] ==
        LET mid == (r[1] + r[2]) \div 2
        IN IF r[1] = r[2] THEN r[1]
           ELSE IF pc < mid THEN tree[<<r[1], mid>>] ELSE tree[<<mid + 1, r[2]>>]
  IN tree[<<1, Len(prog.succ)>>]

\* block_tree: binary search for the block with index pc.
BlockTree(pc) ==
  LET tree[r \in Ranges] ==
        LET mid == (r[1] + r[2]) \div 2
        IN IF r[1] = r[2] THEN r[1]
           ELSE IF pc <= mid THEN tree[<<r[1], mid>>] ELSE tree[<<mid + 1, r[2]>>]
  IN tree[<<1, Len(prog.succ)>>]

\* One turn of the dispatch loop: the body runs until the pc is 0.
Dispatch ==
  /\ phase = "loop"
  /\ mem[0] # 0
  /\ block' = BlockTree(mem[0])
  /\ phase' = "entry"
  /\ UNCHANGED <<prog, slots, result, edgeVars, mem>>

\* What one instruction leaves in memory; the view of a slot copies nothing.
Effect(outs, m, v) ==
  IF prog.kind[v] = "op"
  THEN [a \in Addr |-> IF slots[v] <= a /\ a < slots[v] + prog.size[v]
                         THEN outs[v][a - slots[v]] ELSE m[a]]
  ELSE Copy(m, slots[v], slots[prog.from[v]] + prog.off[v], prog.size[v])

Outcomes(b) ==
  LET ops == {v \in Values : prog.block[v] = b /\ prog.kind[v] = "op"}
  IN [ops -> [0..1 -> Bit]]

\* Memory after the instructions of block b, one after the other.
RunBlock(b, outs) ==
  LET after[v \in 0 .. Len(prog.kind)] ==
        IF v = 0 THEN mem
        ELSE IF prog.block[v] = b /\ prog.kind[v] # "phi" THEN Effect(outs, after[v - 1], v) ELSE after[v - 1]
  IN after[Len(prog.kind)]

\* The instructions of a block, up to its terminator.
Execute ==
  /\ phase = "entry"
  /\ \E outs \in Outcomes(block) : mem' = RunBlock(block, outs)
  /\ phase' = "executed"
  /\ UNCHANGED <<prog, slots, block, result, edgeVars>>

MoveOf(v) ==
  LET operand == prog.incoming[v][block]
  IN [dst |-> slots[v], src |-> OperandSlot(operand), bytes |-> prog.size[v], local |-> operand # 0]

\* The list edge builds: the phis of t whose source is another slot.
Moves(t) ==
  LET list[v \in 0 .. Len(prog.kind)] ==
        IF v = 0 THEN <<>>
        ELSE IF prog.block[v] = t /\ prog.kind[v] = "phi" /\ MoveOf(v).src # MoveOf(v).dst
             THEN Append(list[v - 1], MoveOf(v)) ELSE list[v - 1]
  IN list[Len(prog.kind)]

\* A branch enters the edge to one of its targets.
TakeEdge ==
  /\ phase = "executed"
  /\ \E i \in 1..Len(prog.succ[block]) :
       LET t == prog.succ[block][i] IN
       /\ plan' = Moves(t)
       /\ todo' = DOMAIN plan'
       /\ source' = [j \in DOMAIN plan' |-> plan'[j].src]
       /\ local' = [j \in DOMAIN plan' |-> plan'[j].local]
       /\ target' = t
  /\ temporary' = 0 /\ outgoing_size' = 0 /\ frame_size' = Outgoing + Align
  /\ start' = mem /\ status' = "copying"
  /\ phase' = "edge"
  /\ UNCHANGED <<prog, slots, block, result, mem>>

\* Mutant: the copies run in source order, each straight from its slot.
CopyPhiNaive ==
  /\ phase = "edge" /\ status = "copying"
  /\ \E i \in todo :
       /\ IsFront(i)
       /\ mem' = Copy(mem, plan[i].dst, plan[i].src, plan[i].bytes)
       /\ todo' = todo \ {i}
  /\ UNCHANGED <<plan, source, local, temporary, outgoing_size, frame_size,
                 target, start, status, prog, slots, block, phase, result>>

\* One copy of the edge, or one saved source.
CopyPhi == /\ phase = "edge"
           /\ EmitCopy \/ BreakCycle
           /\ UNCHANGED <<prog, slots, block, phase, result>>

Jump == /\ phase = "edge"
        /\ Branch
        /\ phase' = "loop"
        /\ UNCHANGED <<prog, slots, block, result>>

\* ret: the result is copied out and the pc cleared.
Return ==
  /\ phase = "executed"
  /\ prog.succ[block] = <<>>
  /\ result' = LET n == IF prog.ret = 0 THEN 1 ELSE prog.size[prog.ret]
               IN [k \in 0 .. n - 1 |-> mem[OperandSlot(prog.ret) + k]]
  /\ mem' = [mem EXCEPT ![0] = 0]
  /\ phase' = "loop"
  /\ UNCHANGED <<prog, slots, block, edgeVars>>

FrameNext == Dispatch \/ Execute \/ TakeEdge \/ CopyPhi \/ Jump \/ Return

FrameSpec == FrameInit /\ [][FrameNext]_frameVars

-----------------------------------------------------------------------------
FrameOK ==
  /\ slots \in [Values -> PcBytes .. Outgoing - 1]
  /\ block \in 1..Len(prog.succ)
  /\ phase \in {"loop", "entry", "executed", "edge"}
  /\ mem \in [Addr -> Value]
  /\ mem[0] \in 0..Len(prog.succ)

\* Every list of moves edge builds from this layout is one PhiEdge's theorems
\* cover: slots inside the frame, no two targets that share a byte.
PlansLegal == FrameOK /\ LegalPlan(plan)

\* The frame implements SSA: at every point the slot of each value that is
\* available there holds that value, phis change together, and the function
\* returns what it should, although views and trivial phis share slots that
\* loops overwrite (layout, edge, emit_function).
AtBlock == IF phase = "loop" /\ mem[0] # 0 THEN mem[0] ELSE block
Stage == CASE phase = "loop" -> IF mem[0] = 0 THEN "returned" ELSE "entered"
           [] phase = "entry" -> "entered"
           [] OTHER -> "executed"
\* What dominance makes available there.
Available ==
  {v \in Values : prog.block[v] \in prog.dom[AtBlock]
                 /\ (Stage = "entered" /\ prog.block[v] = AtBlock => prog.kind[v] = "phi")}
AbstractEnv ==
  LET memory == IF phase = "edge" THEN start ELSE mem
  IN IF Stage = "returned" THEN <<>>
     ELSE [v \in Available |-> [k \in 0 .. prog.size[v] - 1 |-> memory[slots[v] + k]]]

Ssa == INSTANCE SsaMachine WITH block <- AtBlock, stage <- Stage, env <- AbstractEnv
ImplementsSsa == Ssa!Spec
=============================================================================
