----------------------------- MODULE MCSsaFrame -----------------------------
(***************************************************************************)
(* A loop 1 -> 2, 2 -> {3, 4}, 3 -> 2 with two phis in the header, over    *)
(* every choice of what they take from the back edge.                      *)
(*   Scalars: 1 a, 2 b in block 1; 3 p, 4 q phis of block 2; 5 w in the    *)
(*   body (a computation, a view of p or q, or a phi of the single         *)
(*   predecessor); 6 u = view of w; 7 r phi of the exit block.             *)
(*   Aggregates: 1 A of two units, 2 a; 3 Q of two units, 4 s phis; 5 e    *)
(*   and 6 f parts of Q; 7 W in the body; 8 r phi of the exit.             *)
(***************************************************************************)
EXTENDS SsaFrame

LoopCfg == <<<<2>>, <<3, 4>>, <<2>>, <<>>>>
LoopDom == <<{1}, {1, 2}, {1, 2, 3}, {1, 2, 4}>>
None == [b \in {} |-> 0]

Scalars ==
  {[succ |-> LoopCfg, dom |-> LoopDom, ret |-> 7,
    kind |-> <<"op", "op", "phi", "phi", w[1], "view", "phi">>,
    block |-> <<1, 1, 2, 2, 3, 3, 4>>,
    size |-> <<1, 1, 1, 1, 1, 1, 1>>,
    from |-> <<0, 0, 0, 0, w[2], 5, 0>>,
    off |-> <<0, 0, 0, 0, 0, 0, 0>>,
    incoming |-> <<None, None,
                   [b \in {1, 3} |-> IF b = 1 THEN 1 ELSE p],
                   [b \in {1, 3} |-> IF b = 1 THEN q1 ELSE q],
                   [b \in {2} |-> w[2]], None,
                   [b \in {2} |-> r]>>] :
   w \in {<<"op", 0>>, <<"view", 3>>, <<"view", 4>>, <<"phi", 3>>, <<"phi", 4>>},
   p \in {0, 1, 4, 5, 6}, q1 \in {0, 1, 2}, q \in {1, 2, 3, 5, 6}, r \in {3, 4}}

Aggregates ==
  {[succ |-> LoopCfg, dom |-> LoopDom, ret |-> 8,
    kind |-> <<"op", "op", "phi", "phi", "part", "part", w[1], "phi">>,
    block |-> <<1, 1, 2, 2, 2, x, 3, 4>>,
    size |-> <<2, 1, 2, 1, 1, 1, 2, n>>,
    from |-> <<0, 0, 0, 0, 3, 3, w[2], 0>>,
    off |-> <<0, 0, 0, 0, 0, 1, 0, 0>>,
    incoming |-> <<None, None,
                   [b \in {1, 3} |-> IF b = 1 THEN 1 ELSE Q],
                   [b \in {1, 3} |-> IF b = 1 THEN 2 ELSE s],
                   None, None, [b \in {2} |-> w[2]],
                   [b \in {2} |-> IF n = 2 THEN 3 ELSE r]>>] :
   w \in {<<"op", 0>>, <<"view", 3>>, <<"phi", 3>>}, x \in {2, 3},
   Q \in {1, 3, 7}, s \in {2, 4, 5, 6}, n \in {1, 2}, r \in {4, 5}}

MCBodies == Scalars \cup Aggregates
MCValue == 0 .. 4
=============================================================================
