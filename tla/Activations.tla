---------------------------- MODULE Activations ----------------------------
(***************************************************************************)
(* What calling a function means, without a stack pointer: the abstract    *)
(* side of CallStack.  An activation has an argument, the result of its    *)
(* last call and the objects it allocated; a byval argument is an object   *)
(* of the callee from the start.  A musttail call ends its activation      *)
(* before the next one begins.  Whatever needs stack may be refused.       *)
(***************************************************************************)
EXTENDS Integers, Sequences, SequencesExt

CONSTANTS Functions,  \* their addresses, in ascending order
          Main,       \* the one a program starts with
          ByVal,      \* those with a byval parameter
          Variadic,   \* those that read their arguments again later
          Data,
          Pointers    \* what else is called as if it were a function

VARIABLES stack,      \* activations, the running one last
          tail,       \* the call a musttail has asked for
          outcome     \* "run", "done", "exhausted", "invalid pointer"

actVars == <<stack, tail, outcome>>

None == [fn |-> 0, arg |-> 0]
Undefined == -1
Fns == ToSet(Functions)
Top == Last(stack)

Activation(f, arg) ==
  IF f \in ByVal THEN [fn |-> f, arg |-> Undefined, res |-> Undefined, cells |-> <<arg>>]
                 ELSE [fn |-> f, arg |-> arg, res |-> Undefined, cells |-> <<>>]

\* The values the running function can name.
Readable(c) == Data \cup ({c.arg, c.res} \ {Undefined}) \cup ToSet(c.cells)

Init == /\ \E d \in Data : stack = <<Activation(Main, d)>>
        /\ tail = None
        /\ outcome = "run"

Running == outcome = "run" /\ stack # <<>> /\ tail = None

\* What f may be called with: a value, or the contents of an object for byval.
Passed(f) == IF f \in ByVal THEN ToSet(Top.cells) ELSE Readable(Top)

Call == /\ Running
        /\ UNCHANGED <<tail, outcome>>
        /\ stack' \in UNION {{Append(stack, Activation(f, d)) : d \in Passed(f)} : f \in Fns}

\* The running activation changes into one of these.
Become(activations) == /\ Running
                       /\ UNCHANGED <<tail, outcome>>
                       /\ stack' \in {Append(Front(stack), c) : c \in activations}

Alloca == Become({[Top EXCEPT !.cells = Append(@, d)] : d \in Data})
Store == Become({[Top EXCEPT !.cells[i] = d] : i \in DOMAIN Top.cells, d \in Readable(Top)})
Restore == Become({[Top EXCEPT !.cells = SubSeq(@, 1, n)] :
                     n \in (IF Top.fn \in ByVal THEN 1 ELSE 0) .. Len(Top.cells)})
VaArg == Running /\ Top.fn \in Variadic /\ Become({[Top EXCEPT !.res = Top.arg]})

\* The caller receives the value; the outermost return ends the program.
Return ==
  /\ Running
  /\ outcome' = IF Len(stack) = 1 THEN "done" ELSE "run"
  /\ UNCHANGED tail
  /\ LET below == Front(stack) IN
     IF below = <<>> THEN stack' = <<>>
     ELSE stack' \in {Append(Front(below), [Last(below) EXCEPT !.res = d]) : d \in Readable(Top)}

MustTail ==
  /\ Running
  /\ UNCHANGED outcome
  /\ tail' \in UNION {{[fn |-> f, arg |-> d] : d \in Passed(f)} : f \in Fns \ Variadic}
  /\ stack' = Front(stack)

BeginTail ==
  /\ outcome = "run" /\ tail # None
  /\ stack' = Append(stack, Activation(tail.fn, tail.arg))
  /\ tail' = None
  /\ UNCHANGED outcome

Refuse == /\ outcome = "run"
          /\ outcome' = "exhausted"
          /\ UNCHANGED <<stack, tail>>

CallUnknown == /\ Running
               /\ Pointers \ Fns # {}
               /\ outcome' = "invalid pointer"
               /\ UNCHANGED <<stack, tail>>

Next == Call \/ Alloca \/ Store \/ Restore \/ VaArg \/ Return \/ MustTail \/ BeginTail \/ Refuse \/ CallUnknown
Spec == Init /\ [][Next]_actVars
=============================================================================
