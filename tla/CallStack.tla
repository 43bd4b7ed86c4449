----------------------------- MODULE CallStack -----------------------------
(***************************************************************************)
(* Calls in the compiled program (backend.cpp emit_function, invoke,       *)
(* tail_tree; slot_memory.cpp frame_enter, frame_leave, stack_restore).    *)
(*                                                                         *)
(* Frames are carved from __scl_sp downwards, allocas and byval copies     *)
(* below the frame, arguments are packed into the caller's outgoing area.  *)
(* A musttail call leaves its arguments in one static area, ends its own   *)
(* frame, and the entry procedure runs the target in its place.  Scratch   *)
(* keeps the parameters (frame, args, result) of each custom block.        *)
(*                                                                         *)
(* One unit per value.  A frame holds the pc, the argument's slot, the     *)
(* slot of the last call's result and one unit of outgoing arguments; that *)
(* of a byval function has one more slot.                                  *)
(***************************************************************************)
EXTENDS Integers, Sequences, FiniteSets, SequencesExt

CONSTANTS Functions,  \* the addresses of the functions, ascending
          Main,       \* the one the boot script calls
          ByVal, Variadic, Data,
          Pointers,   \* function addresses an indirect call may use
          MemTop,     \* where the stack starts
          MaxCells    \* allocas of one activation (bound of the model)

Fns == ToSet(Functions)
\* Static memory: tail_args (an argument and a byval copy), boot_args,
\* boot_result; the heap starts behind it.
TailArgs == 0
TailCopy == 1
BootArgs == 2
BootResult == 3
Heap == 4
Addr == 0 .. MemTop - 1

\* layout: offsets in every frame.
ArgSlot == 1
ResSlot == 2
Outgoing == 3
FrameSize(f) == IF f \in ByVal THEN 5 ELSE 4

\* A function is at no null address.  The one argument is either byval or read
\* again by va_arg; and there is room for main's frame.
ASSUME StackAssumption ==
  /\ Functions \in Seq(Nat \ {0})
  /\ \A i, j \in 1..Len(Functions) : i < j => Functions[i] < Functions[j]
  /\ Main \in Fns \ ByVal /\ ByVal \subseteq Fns \ Variadic /\ Pointers \subseteq Nat
  /\ MemTop \in Nat /\ Heap + FrameSize(Main) <= MemTop /\ Data \subseteq Nat
  /\ MaxCells \in Nat

VARIABLES mem,
          sp,         \* __scl_sp
          tail_id,    \* __scl_tail_id
          calls,      \* the running bodies, innermost last
          pending,    \* result parameter of the entry procedure that is ending
          phase       \* "run", "left", "done", or the text of a trap

vars == <<mem, sp, tail_id, calls, pending, phase>>

Top == Last(calls)

Trap(why) == phase' = why /\ UNCHANGED <<mem, sp, tail_id, calls, pending>>

\* dispatch_tree, tail_tree: the function at that address, 0 if there is none.
Ranges == (1..Len(Functions)) \X (1..Len(Functions))
Dispatch(id) ==
  LET tree[r \in Ranges] ==
        LET mid == (r[1] + r[2]) \div 2 IN
        IF r[1] = r[2] THEN IF id = Functions[r[1]] THEN id ELSE 0
        ELSE IF id <= Functions[mid] THEN tree[<<r[1], mid>>] ELSE tree[<<mid + 1, r[2]>>]
  IN tree[<<1, Len(Functions)>>]

\* An entry procedure, or one turn of the tail loop, up to the first block:
\* frame_enter, the pc, and the parameters copied out of the argument area.
Enter(f, args, result, m, under) ==
  LET frame == sp - FrameSize(f)
      copy == frame - 1
      new == [fn |-> f, frame |-> frame, args |-> args, result |-> result,
              defined |-> FALSE, cells |-> IF f \in ByVal THEN <<copy>> ELSE <<>>, saved |-> 0]
      opened == [m EXCEPT ![frame] = 1]
  IN IF frame < Heap \/ (f \in ByVal /\ copy < Heap) THEN Trap("exhausted")
     ELSE /\ mem' = IF f \in ByVal
                    THEN [opened EXCEPT ![copy] = opened[opened[args]], ![frame + ArgSlot] = copy]
                    ELSE [opened EXCEPT ![frame + ArgSlot] = opened[args]]
          /\ sp' = IF f \in ByVal THEN copy ELSE frame
          /\ calls' = Append(under, new)
          /\ phase' = "run" /\ tail_id' = 0 /\ UNCHANGED pending

\* The boot script calls main.
Init ==
  \E d \in Data :
    LET frame == MemTop - FrameSize(Main) IN
    /\ mem = [a \in Addr |-> IF a \in {BootArgs, frame + ArgSlot} THEN d
                             ELSE IF a = frame THEN 1 ELSE 0]
    /\ sp = frame
    /\ tail_id = 0
    /\ calls = <<[fn |-> Main, frame |-> frame, args |-> BootArgs, result |-> BootResult,
                  defined |-> FALSE, cells |-> <<>>, saved |-> 0]>>
    /\ pending = 0
    /\ phase = "run"

\* The slots and objects whose contents the running function can use.
Sources(c) ==
  {mem[x] : x \in ToSet(c.cells)} \cup Data
    \cup (IF c.defined THEN {mem[c.frame + ResSlot]} ELSE {})
    \cup (IF c.fn \in ByVal THEN {} ELSE {mem[c.frame + ArgSlot]})

\* What is passed to f: a value, or the address of an object for byval.
Arguments(f) == IF f \in ByVal THEN ToSet(Top.cells) ELSE Sources(Top)

\* marshal_call: pack the argument, then enter the function.
Call ==
  /\ phase = "run"
  /\ \E f \in Fns \cup Pointers :
       LET callee == Dispatch(f) IN
       IF callee = 0 THEN Trap("invalid pointer")
       ELSE \E v \in Arguments(callee) :
              Enter(callee, Top.frame + Outgoing, Top.frame + ResSlot,
                    [mem EXCEPT ![Top.frame + Outgoing] = v],
                    Append(Front(calls), [Top EXCEPT !.saved = sp]))

\* An alloca of one unit, stored to at once.
Alloca ==
  /\ phase = "run"
  /\ Len(Top.cells) < MaxCells
  /\ IF sp - 1 < Heap THEN Trap("exhausted")
     ELSE /\ sp' = sp - 1
          /\ \E d \in Data : mem' = [mem EXCEPT ![sp - 1] = d]
          /\ calls' = Append(Front(calls), [Top EXCEPT !.cells = Append(@, sp - 1)])
          /\ UNCHANGED <<tail_id, pending, phase>>

Store ==
  /\ phase = "run"
  /\ \E a \in ToSet(Top.cells), v \in Sources(Top) : mem' = [mem EXCEPT ![a] = v]
  /\ UNCHANGED <<sp, tail_id, calls, pending, phase>>

\* llvm.stackrestore to a pointer saved before some of the allocas.
StackRestore ==
  /\ phase = "run"
  /\ \E n \in 0..Len(Top.cells) :
       LET p == IF n = 0 THEN Top.frame ELSE Top.cells[n] IN
       /\ Top.fn \in ByVal => n > 0
       /\ IF p < sp \/ p > Top.frame THEN Trap("invalid stack restore")
          ELSE /\ sp' = p
               /\ calls' = Append(Front(calls), [Top EXCEPT !.cells = SubSeq(@, 1, n)])
               /\ UNCHANGED <<mem, tail_id, pending, phase>>

\* The comparisons of a switch (or the temporaries of an edge) overwrite the
\* outgoing area; here a comparison that holds.
UseOutgoing ==
  /\ phase = "run"
  /\ mem' = [mem EXCEPT ![Top.frame + Outgoing] = 1]
  /\ UNCHANGED <<sp, tail_id, calls, pending, phase>>

\* va_arg: the arguments are read again where the caller left them.
VaArg ==
  /\ phase = "run"
  /\ Top.fn \in Variadic
  /\ mem' = [mem EXCEPT ![Top.frame + ResSlot] = mem[Top.args]]
  /\ calls' = Append(Front(calls), [Top EXCEPT !.defined = TRUE])
  /\ UNCHANGED <<sp, tail_id, pending, phase>>

\* Mutant: the stack pointer is not reset to the frame.
LeaveKeepingAllocas == sp' = sp + FrameSize(Top.fn)

\* The body ends: the stack pointer goes back to the frame, frame_leave.
Leave == sp' = Top.frame + FrameSize(Top.fn)

\* The result slot of the caller now holds a value.
Delivered(below) ==
  IF below = <<>> THEN <<>>
  ELSE Append(Front(below), [Last(below) EXCEPT !.defined = TRUE])

Ret ==
  /\ phase = "run"
  /\ \E v \in Sources(Top) : mem' = [mem EXCEPT ![Top.result] = v, ![Top.frame] = 0]
  /\ Leave
  /\ calls' = Delivered(Front(calls))
  /\ pending' = Top.result
  /\ phase' = "left"
  /\ UNCHANGED tail_id

\* Mutant: a byval argument is passed on by address.
TailArgumentsByAddress(f, v) == [mem EXCEPT ![TailArgs] = v, ![Top.frame] = 0]

\* The arguments of a musttail call, and the pc cleared.
TailArguments(f, v) ==
  IF f \in ByVal
  THEN [mem EXCEPT ![TailCopy] = mem[v], ![TailArgs] = TailCopy, ![Top.frame] = 0]
  ELSE [mem EXCEPT ![TailArgs] = v, ![Top.frame] = 0]

MustTail ==
  /\ phase = "run"
  /\ \E f \in Fns \ Variadic : \E v \in Arguments(f) :
       /\ mem' = TailArguments(f, v)
       /\ tail_id' = f
  /\ Leave
  /\ calls' = Front(calls)
  /\ pending' = Top.result
  /\ phase' = "left"

\* __scl_tail_step: the target takes the place of the caller.
TailStep ==
  /\ phase = "left" /\ tail_id # 0
  /\ LET f == Dispatch(tail_id) IN
     IF f = 0 THEN Trap("invalid pointer") ELSE Enter(f, TailArgs, pending, mem, calls)

\* No tail call is left: the entry procedure returns to its caller.
Finish ==
  /\ phase = "left" /\ tail_id = 0
  /\ phase' = IF calls = <<>> THEN "done" ELSE "run"
  /\ UNCHANGED <<mem, sp, tail_id, calls, pending>>

Next == Call \/ Alloca \/ Store \/ StackRestore \/ UseOutgoing \/ VaArg \/ Ret
        \/ MustTail \/ TailStep \/ Finish

Spec == Init /\ [][Next]_vars

-----------------------------------------------------------------------------
TypeOK ==
  /\ mem \in [Addr -> Nat]
  /\ sp \in Heap .. MemTop
  /\ tail_id \in {0} \cup Fns
  /\ pending \in Addr
  /\ phase \in {"run", "left", "done", "exhausted", "invalid pointer"}

\* Every frame and every object of a function lies below everything its callers
\* own and above the stack pointer, so no two share a byte (frame_enter, alloca,
\* byval copies).
Owned(c) == (c.frame .. c.frame + FrameSize(c.fn) - 1) \cup ToSet(c.cells)
StackOrdered ==
  /\ \A i, j \in DOMAIN calls :
       i < j => \A a \in Owned(calls[i]), b \in Owned(calls[j]) : b < a
  /\ \A i \in DOMAIN calls :
       /\ \A a \in Owned(calls[i]) : sp <= a
       /\ Cardinality(Owned(calls[i])) = FrameSize(calls[i].fn) + Len(calls[i].cells)

\* When a call is over the caller finds the stack pointer where it was, however
\* many functions took each other's place by musttail (emit_function, tail_tree).
SpRestored ==
  phase = "left" => sp = IF calls = <<>> THEN MemTop ELSE Last(calls).saved

\* Calls, tail calls and their returns nest on the stack without overlapping.
StackDisciplined == TypeOK /\ StackOrdered /\ SpRestored

\* Arguments, results and objects behave as in Activations: what a function
\* passes is what its callee sees, through the shared tail_args too; a caller's
\* values and objects survive its calls; va_arg still finds the arguments.
ActivationOf(c, m) ==
  [fn |-> c.fn,
   arg |-> IF c.fn \in ByVal THEN -1 ELSE m[c.frame + ArgSlot],
   res |-> IF c.defined THEN m[c.frame + ResSlot] ELSE -1,
   cells |-> [k \in DOMAIN c.cells |-> m[c.cells[k]]]]
StackView == [i \in DOMAIN calls |-> ActivationOf(calls[i], mem)]
TailView ==
  IF tail_id = 0 THEN [fn |-> 0, arg |-> 0]
  ELSE [fn |-> tail_id,
        arg |-> IF tail_id \in ByVal THEN mem[mem[TailArgs]] ELSE mem[TailArgs]]
OutcomeView == CASE phase \in {"run", "left"} -> IF calls = <<>> /\ tail_id = 0 THEN "done" ELSE "run"
                 [] OTHER -> phase
Act == INSTANCE Activations WITH stack <- StackView, tail <- TailView, outcome <- OutcomeView
ImplementsCalls == Act!Spec
=============================================================================
