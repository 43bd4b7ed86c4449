------------------------------ MODULE PhiEdge ------------------------------
(***************************************************************************)
(* The copies Compiler::edge (backend.cpp) puts on one control-flow edge.  *)
(*                                                                         *)
(* LLVM gives the phis of a block their values simultaneously.  The        *)
(* backend keeps every SSA value in a slot of the frame and can only emit  *)
(* one slot copy after another, so it orders the copies, and breaks a      *)
(* cycle by saving one source in the outgoing-argument area.               *)
(*                                                                         *)
(* The compiler decides the order from the offsets alone, so emitting a    *)
(* copy and executing it are one step here.  Addresses are relative to     *)
(* the frame: the constant pool lies below it (negative), the resumption   *)
(* pc in its first PcBytes, then the slots, then from Outgoing on the      *)
(* outgoing area.                                                          *)
(***************************************************************************)
EXTENDS Integers, Sequences, FiniteSets

CONSTANTS
  Pool,       \* bytes of constant pool below the frame
  PcBytes,    \* bytes of the resumption pc (4)
  Outgoing,   \* current->outgoing: where the outgoing area starts
  Align,      \* frame alignment (16)
  Capacity,   \* options.memory_size
  Value,      \* contents of a byte
  Memories,   \* initial memories
  Targets,    \* ids of the blocks an edge may lead to
  Plans       \* the move lists built from the phis of a target block

Addr == -Pool .. Capacity - 1

\* Struct Move; the order of a plan is the order of the phis.
Move == [dst : Addr, src : Addr, bytes : Nat, local : BOOLEAN]

\* Mutant: only slots that start together overlap.
OverlapsAtStartOnly(a, an, b, bn) == a = b

Overlaps(a, an, b, bn) == a < b + bn /\ b < a + an

\* One phi: a slot of its own, read from a value slot or from the pool.
LegalMove(m) ==
  /\ m \in Move
  /\ m.bytes > 0
  /\ PcBytes <= m.dst /\ m.dst + m.bytes <= Outgoing
  /\ IF m.local THEN PcBytes <= m.src /\ m.src + m.bytes <= Outgoing
                ELSE m.src + m.bytes <= 0

\* What one copy reads and the slot another writes: a part of it, or nothing.
Within(m, to) == to.dst <= m.src /\ m.src + m.bytes <= to.dst + to.bytes

\* Two phis of one block never share a slot; a value has a slot, or a part of one.
LegalPlan(p) ==
  /\ p \in Seq(Move)
  /\ \A i \in 1..Len(p) : LegalMove(p[i])
  /\ \A i, j \in 1..Len(p) :
       /\ i # j => ~Overlaps(p[i].dst, p[i].bytes, p[j].dst, p[j].bytes)
       /\ p[j].local => Within(p[j], p[i]) \/ ~Overlaps(p[i].dst, p[i].bytes, p[j].src, p[j].bytes)

ASSUME LayoutAssumption ==
  /\ Pool \in Nat /\ PcBytes \in Nat \ {0} /\ Outgoing \in Nat
  /\ Align \in Nat \ {0} /\ Capacity \in Nat
  /\ PcBytes <= Outgoing /\ Outgoing + Align <= Capacity
  /\ Targets \subseteq Value
  /\ Memories \subseteq [Addr -> Value]
  /\ \A p \in Plans : LegalPlan(p)

VARIABLES
  plan,       \* the copies as first built
  todo,       \* indices of the copies not yet emitted
  source,     \* current source offset of each copy
  local,      \* whether that source is in the frame
  temporary,  \* temporary_bytes
  outgoing_size,
  frame_size,
  mem,        \* memory after the emitted copies
  target,     \* id of the block the edge leads to
  start,      \* memory on entry to the edge (history)
  status      \* "copying", "branched" or "error"

vars == <<plan, todo, source, local, temporary, outgoing_size, frame_size,
          mem, target, start, status>>

AlignUp(n) == ((n + Align - 1) \div Align) * Align

Larger(a, b) == IF a > b THEN a ELSE b

\* The frame with so many temporary bytes.
FrameSize(bytes) == AlignUp(Outgoing + Larger(outgoing_size, bytes))

\* slot_copy: the destination is written only after the source was read.
Copy(m, dst, src, n) ==
  [a \in Addr |-> IF dst <= a /\ a < dst + n THEN m[src + (a - dst)] ELSE m[a]]

\* source_offset: the pool is not part of the frame, its copies record 0.
SourceOffset(j) == IF local[j] THEN source[j] ELSE 0

\* j still reads the slot that i would overwrite.
Reads(j, i) ==
  local[j] /\ Overlaps(plan[i].dst, plan[i].bytes, SourceOffset(j), plan[j].bytes)

Blocked(i) == \E j \in todo \ {i} : Reads(j, i)

\* The copy the scan finds: the first one whose target nobody still needs.
Ready(i) == /\ i \in todo /\ ~Blocked(i)
            /\ \A j \in todo : j < i => Blocked(j)

Stuck == todo # {} /\ \A i \in todo : Blocked(i)

IsFront(i) == i \in todo /\ \A j \in todo : i <= j

\* A copy whose source and destination are the same slot is not listed.
Listed(p) == {i \in 1..Len(p) : p[i].src # p[i].dst}

Init ==
  /\ plan \in Plans
  /\ todo = Listed(plan)
  /\ source = [i \in 1..Len(plan) |-> plan[i].src]
  /\ local = [i \in 1..Len(plan) |-> plan[i].local]
  /\ temporary = 0
  /\ outgoing_size = 0
  /\ frame_size = Outgoing + Align
  /\ target \in Targets
  /\ start \in Memories
  /\ mem = start
  /\ status = "copying"

\* Mutant: the emitted copy is not erased.
EmitCopyKept ==
  /\ status = "copying"
  /\ \E i \in todo : /\ Ready(i)
                    /\ mem' = Copy(mem, plan[i].dst, source[i], plan[i].bytes)
  /\ UNCHANGED <<plan, todo, source, local, temporary, outgoing_size,
                 frame_size, target, start, status>>

\* The first unblocked copy is emitted and erased from the list.
EmitCopy ==
  /\ status = "copying"
  /\ \E i \in todo :
       /\ Ready(i)
       /\ mem' = Copy(mem, plan[i].dst, source[i], plan[i].bytes)
       /\ todo' = todo \ {i}
  /\ UNCHANGED <<plan, source, local, temporary, outgoing_size, frame_size,
                 target, start, status>>

\* Saves the source of copy i in the outgoing area.
SaveSource(i) ==
  /\ mem' = Copy(mem, Outgoing + temporary, source[i], plan[i].bytes)
  /\ source' = [source EXCEPT ![i] = Outgoing + temporary]
  /\ local' = [local EXCEPT ![i] = TRUE]
  /\ temporary' = temporary + plan[i].bytes
  /\ outgoing_size' = Larger(outgoing_size, temporary + plan[i].bytes)
  /\ frame_size' = FrameSize(temporary + plan[i].bytes)
  /\ UNCHANGED <<plan, todo, target, start, status>>

GiveUp == /\ status' = "error"
          /\ UNCHANGED <<plan, todo, source, local, temporary, outgoing_size,
                         frame_size, mem, target, start>>

\* Mutants: no capacity check; a blocked front copy is saved though another
\* copy could go first.
BreakCycleUnchecked ==
  status = "copying" /\ Stuck /\ \E i \in todo : IsFront(i) /\ SaveSource(i)
BreakCycleEagerly ==
  status = "copying" /\ \E i \in todo : IsFront(i) /\ Blocked(i) /\ SaveSource(i)

\* Every copy is blocked: the front one gets its source saved first.
BreakCycle ==
  /\ status = "copying"
  /\ Stuck
  /\ \E i \in todo :
       /\ IsFront(i)
       /\ IF FrameSize(temporary + plan[i].bytes) > Capacity
          THEN GiveUp ELSE SaveSource(i)

\* Mutant: one byte more than the pc is written.
BranchOverrun ==
  /\ status = "copying"
  /\ todo = {}
  /\ mem' = [a \in Addr |-> IF 0 <= a /\ a <= PcBytes THEN target ELSE mem[a]]
  /\ status' = "branched"
  /\ UNCHANGED <<plan, todo, source, local, temporary, outgoing_size,
                 frame_size, target, start>>

\* The list is empty: the pc is set to the target block.
Branch ==
  /\ status = "copying"
  /\ todo = {}
  /\ mem' = [a \in Addr |-> IF 0 <= a /\ a < PcBytes THEN target ELSE mem[a]]
  /\ status' = "branched"
  /\ UNCHANGED <<plan, todo, source, local, temporary, outgoing_size,
                 frame_size, target, start>>

Next == EmitCopy \/ BreakCycle \/ Branch

\* The compiler's loop runs until the list is empty.
Spec == Init /\ [][Next]_vars /\ WF_vars(Next)

-----------------------------------------------------------------------------
TypeOK ==
  /\ LegalPlan(plan)
  /\ todo \subseteq 1..Len(plan)
  /\ source \in [1..Len(plan) -> Addr]
  /\ local \in [1..Len(plan) -> BOOLEAN]
  /\ temporary \in Nat /\ outgoing_size \in Nat /\ frame_size \in Nat
  /\ mem \in [Addr -> Value]
  /\ target \in Value
  /\ start \in [Addr -> Value]
  /\ status \in {"copying", "branched", "error"}

\* When the edge is taken, every phi holds what its incoming value was before
\* any copy ran (edge: the lost-copy and the swap problem of phi lowering).
Simultaneous ==
  status = "branched" =>
    \A i \in 1..Len(plan) : \A k \in 0 .. plan[i].bytes - 1 :
      mem[plan[i].dst + k] = start[plan[i].src + k]

IsTarget(a) ==
  \E i \in 1..Len(plan) : plan[i].dst <= a /\ a < plan[i].dst + plan[i].bytes

\* No other slot, and nothing in the constant pool, changes on an edge, and of
\* the outgoing area only the bytes counted in temporary_bytes.
Untouched ==
  /\ \A a \in Addr :
       a < Outgoing /\ ~IsTarget(a) /\ ~(0 <= a /\ a < PcBytes) => mem[a] = start[a]
  /\ \A a \in Addr : a >= Outgoing + temporary => mem[a] = start[a]

\* The temporaries lie in the frame the function will reserve, which fits the
\* memory: a callee's frame starts below them.
Reserved == Outgoing + temporary <= frame_size /\ frame_size <= Capacity

\* "Break only a real dependency cycle": from the front of a stuck list, going
\* from each copy to the ones whose source its target holds leads back.
Needs(j, i) ==
  \E a \in Addr : /\ plan[i].dst <= a /\ a < plan[i].dst + plan[i].bytes
                  /\ source[j] <= a /\ a < source[j] + plan[j].bytes

OnlyRealCycles ==
  Stuck =>
    \A f \in todo : IsFront(f) =>
      LET reached[n \in 0..Cardinality(todo)] ==
            IF n = 0 THEN {f}
            ELSE {j \in todo : \E i \in reached[n - 1] : j # i /\ Needs(j, i)}
      IN \E n \in 1..Cardinality(todo) : f \in reached[n]

Bytes(p, S) ==
  LET sum[n \in 0..Len(p)] == IF n = 0 THEN 0 ELSE sum[n - 1] + (IF n \in S THEN p[n].bytes ELSE 0)
  IN sum[Len(p)]

\* A cycle costs one temporary and has at least two members: the saved bytes
\* never exceed half of the bytes the edge moves within the frame.
TemporariesBounded ==
  2 * temporary <= Bytes(plan, {i \in Listed(plan) : plan[i].local})

\* A cycle is broken where there is one, and breaking it stays cheap.
BrokenFrugally == TypeOK /\ OnlyRealCycles /\ TemporariesBounded

\* The loop ends (saving one source always lets some copy be emitted, so no cycle
\* is broken for ever): the branch is taken unless the frame outgrows the memory.
Terminates == <>(status \in {"branched", "error"})
=============================================================================
