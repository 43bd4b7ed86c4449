----------------------------- MODULE SsaMachine -----------------------------
(***************************************************************************)
(* What LLVM promises a function in SSA form, and nothing of how the       *)
(* backend stores its values: the abstract side of SsaFrame.               *)
(*                                                                         *)
(* A program is a control-flow graph and a list of values in the order of  *)
(* the source; value v lives in prog.block[v].  An "op" computes anything, *)
(* a "view" is its operand (bitcast, freeze, gep by zero), a "part" one    *)
(* unit of it (extractvalue), a "phi" what the edge taken brings.  Operand *)
(* 0 is a constant.                                                        *)
(* prog.dom[b] are the dominators of block b.                              *)
(***************************************************************************)
EXTENDS Integers, Sequences, FiniteSets

CONSTANTS Bodies,     \* the functions run
          Bit,        \* what one unit of an op's result may be
          Constant    \* the value of the constant operand

VARIABLES prog, block, stage, env, result

ssaVars == <<prog, block, stage, env, result>>

Values == 1 .. Len(prog.kind)

PhisOf(b) == {v \in Values : prog.block[v] = b /\ prog.kind[v] = "phi"}
Entered(b) ==
  {v \in Values : prog.block[v] \in prog.dom[b] \ {b}} \cup PhisOf(b)
Executed(b) == {v \in Values : prog.block[v] \in prog.dom[b]}

\* What an operand is worth where the values in e are available.
Worth(e, operand) == IF operand = 0 THEN [k \in {0} |-> Constant] ELSE e[operand]

Init ==
  /\ prog \in Bodies
  /\ block = 1
  /\ stage = "entered"
  /\ env = [v \in PhisOf(1) |-> <<>>]
  /\ result = <<>>

\* What the operations of a block may compute.
Outcomes(b) ==
  LET ops == {v \in Values : prog.block[v] = b /\ prog.kind[v] = "op"}
  IN [ops -> [0..1 -> Bit]]

\* e are the values available after block b when its operations compute outs.
Run(b, outs, e) ==
  e = [v \in Executed(b) |->
        IF v \in DOMAIN env THEN env[v]
        ELSE CASE prog.kind[v] = "op" -> [k \in 0 .. prog.size[v] - 1 |-> outs[v][k]]
               [] prog.kind[v] = "view" -> e[prog.from[v]]
               [] prog.kind[v] = "part" -> [k \in {0} |-> e[prog.from[v]][prog.off[v]]]]

\* The block's instructions run in order; earlier values keep theirs.
Execute ==
  /\ stage = "entered"
  /\ stage' = "executed"
  /\ \E outs \in Outcomes(block) : Run(block, outs, env')
  /\ UNCHANGED <<prog, block, result>>

\* All phis of the target take their values at once.
Take ==
  /\ stage = "executed"
  /\ \E i \in 1..Len(prog.succ[block]) :
       LET t == prog.succ[block][i] IN
       /\ env' = [v \in Entered(t) |-> IF v \in PhisOf(t)
                                       THEN Worth(env, prog.incoming[v][block])
                                       ELSE env[v]]
       /\ block' = t
  /\ stage' = "entered"
  /\ UNCHANGED <<prog, result>>

Return ==
  /\ stage = "executed"
  /\ prog.succ[block] = <<>>
  /\ stage' = "returned"
  /\ result' = Worth(env, prog.ret)
  /\ env' = <<>>
  /\ UNCHANGED <<prog, block>>

Next == Execute \/ Take \/ Return
Spec == Init /\ [][Next]_ssaVars
=============================================================================
