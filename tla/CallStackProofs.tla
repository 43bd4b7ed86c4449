--------------------------- MODULE CallStackProofs --------------------------
(***************************************************************************)
(* For every table of functions, any values and any memory: calls and tail *)
(* calls nest on the stack, and do what Activations says calls mean.       *)
(***************************************************************************)
EXTENDS CallStack, WellOrder, SequenceTheorems, FiniteSetTheorems, TLAPS

LEMMA Parameters ==
  /\ Functions \in Seq(Nat \ {0}) /\ Len(Functions) \in Nat \ {0}
  /\ Fns \subseteq Nat \ {0} /\ Main \in Fns /\ Main \notin ByVal /\ ByVal \subseteq Fns
  /\ \A f \in ByVal : f \notin Variadic
  /\ Pointers \subseteq Nat /\ MemTop \in Nat /\ Heap + FrameSize(Main) <= MemTop /\ Data \subseteq Nat
<1>1. Functions \in Seq(Nat \ {0}) /\ Len(Functions) \in Nat
  BY StackAssumption, LenProperties
<1>2. Fns \subseteq Nat \ {0} /\ DOMAIN Functions = 1..Len(Functions)
  BY <1>1, ElementOfSeq, LenProperties DEF Fns, ToSet
<1>3. Len(Functions) # 0
  <2> SUFFICES ASSUME Len(Functions) = 0 PROVE FALSE
    OBVIOUS
  <2>1. DOMAIN Functions = {}
    BY <1>2
  <2> QED BY <2>1, StackAssumption DEF Fns, ToSet
<1> QED BY <1>1, <1>2, <1>3, StackAssumption

-----------------------------------------------------------------------------
(* The search tree of __scl_dispatch and __scl_tail_step.                  *)

N == Len(Functions)

Branch(tree, id) ==
  [r \in Ranges |->
     IF r[1] = r[2] THEN IF id = Functions[r[1]] THEN id ELSE 0
     ELSE IF id <= Functions[(r[1] + r[2]) \div 2] THEN tree[<<r[1], (r[1] + r[2]) \div 2>>]
          ELSE tree[<<((r[1] + r[2]) \div 2) + 1, r[2]>>]]

\* What the tree finds in a range.
Within(f, l, id) == IF \E i \in f..l : Functions[i] = id THEN id ELSE 0

LEMMA Ascending ==
  ASSUME NEW i \in 1..N, NEW j \in 1..N
  PROVE  /\ Functions[i] \in Nat \ {0}
         /\ i < j => Functions[i] < Functions[j]
         /\ i <= j => Functions[i] <= Functions[j]
<1>1. Functions[i] \in Nat \ {0} /\ Functions[j] \in Nat \ {0}
  BY Parameters, ElementOfSeq DEF N
<1>2. i < j => Functions[i] < Functions[j]
  BY StackAssumption DEF N
<1>3. i <= j => i = j \/ i < j
  BY Parameters DEF N
<1> QED BY <1>1, <1>2, <1>3

\* Both halves of a range are smaller, and the middle decides between them.
LEMMA Halves ==
  ASSUME NEW f \in 1..N, NEW l \in 1..N, f < l, NEW id \in Nat
  PROVE  LET m == (f + l) \div 2 IN
         /\ m \in 1..N /\ m + 1 \in 1..N /\ f <= m /\ m < l /\ f <= m + 1 /\ m + 1 <= l
         /\ Within(f, l, id) = IF id <= Functions[m] THEN Within(f, m, id) ELSE Within(m + 1, l, id)
<1> DEFINE m == (f + l) \div 2
<1>1. m \in Int /\ f <= m /\ m < l /\ N \in Nat /\ f \in Nat /\ l \in Nat /\ 1 <= f /\ l <= N
  BY Parameters DEF N
<1> HIDE DEF m
<1>2. m \in 1..N /\ m + 1 \in 1..N /\ f <= m + 1 /\ m + 1 <= l
  BY <1>1
<1>3. CASE id <= Functions[m]
  <2>1. ASSUME NEW i \in f..l, Functions[i] = id PROVE i \in f..m
    <3>1. i \in 1..N /\ i \in Int
      BY <1>1
    <3>2. ~(m < i)
      BY <1>2, <1>3, <2>1, <3>1, Ascending
    <3> QED BY <1>1, <2>1, <3>1, <3>2
  <2>2. \A i \in f..m : i \in f..l
    BY <1>1
  <2> QED BY <1>1, <1>2, <1>3, <2>1, <2>2 DEF Within, m
<1>4. CASE ~(id <= Functions[m])
  <2>1. ASSUME NEW i \in f..l, Functions[i] = id PROVE i \in m + 1 .. l
    <3>1. i \in 1..N /\ i \in Int
      BY <1>1
    <3>2. ~(i <= m)
      BY <1>2, <1>4, <2>1, <3>1, Ascending
    <3> QED BY <1>1, <2>1, <3>1, <3>2
  <2>2. \A i \in m + 1 .. l : i \in f..l
    BY <1>1
  <2> QED BY <1>1, <1>2, <1>4, <2>1, <2>2 DEF Within, m
<1> QED BY <1>3, <1>4

\* There is such a tree, and any such tree finds what is in a range.
LEMMA TreeExists == ASSUME NEW id \in Nat PROVE \E tree : tree = Branch(tree, id)
<1> DEFINE g == [r \in Ranges |-> IF r[1] <= r[2] THEN Within(r[1], r[2], id) ELSE 0]
<1>1. ASSUME NEW r \in Ranges PROVE g[r] = Branch(g, id)[r]
  <2> DEFINE f == r[1]
             l == r[2]
             m == (f + l) \div 2
  <2>1. f \in 1..N /\ l \in 1..N /\ f \in Nat /\ l \in Nat
    BY <1>1 DEF Ranges, N
  <2>2. g[r] = IF f <= l THEN Within(f, l, id) ELSE 0
    OBVIOUS
  <2>3. Branch(g, id)[r] = IF f = l THEN IF id = Functions[f] THEN id ELSE 0
                           ELSE IF id <= Functions[m] THEN g[<<f, m>>] ELSE g[<<m + 1, l>>]
    BY DEF Branch
  <2>4. \A a, b \in 1..N : g[<<a, b>>] = IF a <= b THEN Within(a, b, id) ELSE 0
    BY DEF Ranges, N
  <2> HIDE DEF g, f, l
  <2>5. CASE f = l
    <3>1. Within(f, l, id) = IF Functions[f] = id THEN id ELSE 0
      BY <2>1, <2>5 DEF Within
    <3> QED BY <2>1, <2>2, <2>3, <2>5, <3>1
  <2>6. CASE f < l
    <3>1. /\ m \in 1..N /\ m + 1 \in 1..N /\ f <= m /\ m + 1 <= l
          /\ Within(f, l, id) = IF id <= Functions[m] THEN Within(f, m, id) ELSE Within(m + 1, l, id)
      BY <2>1, <2>6, Halves
    <3>2. f # l /\ f <= l
      BY <2>1, <2>6
    <3> HIDE DEF m
    <3> QED BY <2>1, <2>2, <2>3, <2>4, <3>1, <3>2
  <2>7. CASE l < f
    <3>0. N \in Nat /\ 1 <= l /\ f <= N
      BY <2>1, Parameters DEF N
    <3>1. m \in 1..N /\ m + 1 \in 1..N /\ ~(f <= m) /\ ~(m + 1 <= l) /\ ~(f <= l) /\ f # l
      BY <2>1, <2>7, <3>0
    <3> HIDE DEF m
    <3> QED BY <2>1, <2>2, <2>3, <2>4, <3>1
  <2> QED BY <2>1, <2>5, <2>6, <2>7
<1>2. g = Branch(g, id)
  <2>1. DOMAIN g = Ranges /\ DOMAIN Branch(g, id) = Ranges /\ Branch(g, id) = [r \in Ranges |-> Branch(g, id)[r]]
    BY DEF Branch
  <2> QED BY <1>1, <2>1
<1> QED BY <1>2

LEMMA TreeFinds ==
  ASSUME NEW id \in Nat, NEW tree, tree = Branch(tree, id)
  PROVE  \A f, l \in 1..N : f <= l => tree[<<f, l>>] = Within(f, l, id)
<1> DEFINE Wrong(n) == \E f, l \in 1..N : f <= l /\ l - f = n /\ tree[<<f, l>>] # Within(f, l, id)
           W == {n \in Nat : Wrong(n)}
<1>1. SUFFICES ASSUME W # {} PROVE FALSE
  <2> SUFFICES ASSUME NEW f \in 1..N, NEW l \in 1..N, f <= l, tree[<<f, l>>] # Within(f, l, id) PROVE W # {}
    BY <1>1
  <2>1. l - f \in Nat
    BY Parameters DEF N
  <2> QED BY <2>1
<1>2. PICK n \in W : \A k \in W : n <= k
  <2>1. W \in SUBSET Nat
    OBVIOUS
  <2> HIDE DEF W
  <2> QED BY <1>1, <2>1, LeastElement
<1>3. PICK f \in 1..N, l \in 1..N : f <= l /\ l - f = n /\ tree[<<f, l>>] # Within(f, l, id)
  BY <1>2
<1>4. f \in Nat /\ l \in Nat /\ n \in Nat
  BY <1>2, Parameters DEF N
<1>5. ASSUME NEW a \in 1..N, NEW b \in 1..N, a <= b, b - a < n PROVE tree[<<a, b>>] = Within(a, b, id)
  <2>1. b - a \in Nat
    BY <1>5, Parameters DEF N
  <2>2. b - a \notin W
    <3> HIDE DEF W
    <3> QED BY <1>2, <1>4, <1>5, <2>1
  <2> QED BY <1>5, <2>1, <2>2
<1> HIDE DEF W
<1> DEFINE m == (f + l) \div 2
<1>6. tree[<<f, l>>] = IF f = l THEN IF id = Functions[f] THEN id ELSE 0
                       ELSE IF id <= Functions[m] THEN tree[<<f, m>>] ELSE tree[<<m + 1, l>>]
  <2>1. <<f, l>> \in Ranges /\ <<f, l>>[1] = f /\ <<f, l>>[2] = l
    BY DEF Ranges, N
  <2>2. tree[<<f, l>>] = Branch(tree, id)[<<f, l>>]
    OBVIOUS
  <2> QED BY <2>1, <2>2 DEF Branch
<1>7. CASE f = l
  <2>1. Within(f, l, id) = IF Functions[f] = id THEN id ELSE 0
    BY <1>4, <1>7 DEF Within
  <2> QED BY <1>3, <1>6, <1>7, <2>1
<1>8. CASE f < l
  <2>1. /\ m \in 1..N /\ m + 1 \in 1..N /\ f <= m /\ m < l /\ m + 1 <= l
        /\ Within(f, l, id) = IF id <= Functions[m] THEN Within(f, m, id) ELSE Within(m + 1, l, id)
    BY <1>8, Halves
  <2> HIDE DEF m
  <2>2. m \in Nat /\ m - f < n /\ l - (m + 1) < n
    BY <1>3, <1>4, <2>1
  <2>3. tree[<<f, m>>] = Within(f, m, id) /\ tree[<<m + 1, l>>] = Within(m + 1, l, id)
    BY <1>5, <2>1, <2>2
  <2>4. f # l
    BY <1>4, <1>8
  <2> QED BY <1>3, <1>6, <2>1, <2>3, <2>4
<1> QED BY <1>3, <1>4, <1>7, <1>8

\* The tree finds the function at an address and nothing else, for a table of
\* any length (dispatch_tree, tail_tree).
THEOREM DispatchFinds == \A id \in Nat : Dispatch(id) = IF id \in Fns THEN id ELSE 0
<1> SUFFICES ASSUME NEW id \in Nat PROVE Dispatch(id) = IF id \in Fns THEN id ELSE 0
  OBVIOUS
<1> DEFINE tree == CHOOSE t : t = Branch(t, id)
<1>1. Dispatch(id) = tree[<<1, N>>]
  BY DEF Dispatch, Branch, N
<1>2. tree = Branch(tree, id)
  BY TreeExists
<1> HIDE DEF tree
<1>3. 1 \in 1..N /\ N \in 1..N /\ 1 <= N
  BY Parameters DEF N
<1>4. tree[<<1, N>>] = Within(1, N, id)
  BY <1>2, <1>3, TreeFinds
<1>5. id \in Fns <=> \E i \in 1..N : Functions[i] = id
  BY Parameters, LenProperties DEF Fns, ToSet, N
<1> QED BY <1>1, <1>4, <1>5 DEF Within

-----------------------------------------------------------------------------
(* The inductive invariant, of the calls cs, the bottom one first, and the *)
(* memory m.                                                               *)

CallRec == [fn : Fns, frame : Addr, args : Addr, result : Addr, defined : BOOLEAN,
            cells : Seq(Addr), saved : 0..MemTop]

\* A call's part of the stack: from its last object up to the end of its frame.
Low(c) == IF c.cells = <<>> THEN c.frame ELSE c.cells[Len(c.cells)]
Ceiling(c) == c.frame + FrameSize(c.fn)

Framed(c) ==
  /\ c \in CallRec
  /\ Heap <= Low(c) /\ Low(c) <= c.frame /\ Ceiling(c) <= MemTop
  /\ \A k \in 1..Len(c.cells) : Low(c) <= c.cells[k] /\ c.cells[k] < c.frame
  /\ \A k, l \in 1..Len(c.cells) : k < l => c.cells[l] < c.cells[k]
  /\ c.fn \in ByVal => c.cells # <<>>

\* Where the next call's frame ends, its result goes and its arguments are.
Floor(cs) == IF cs = <<>> THEN MemTop ELSE Low(cs[Len(cs)])
ResultOf(cs) == IF cs = <<>> THEN BootResult ELSE cs[Len(cs)].frame + ResSlot
ArgsOf(cs) == IF cs = <<>> THEN BootArgs ELSE cs[Len(cs)].frame + Outgoing

\* A call among those below it; only variadic functions read their arguments again.
Fits(c, floor, result, args, m) ==
  /\ Framed(c)
  /\ Ceiling(c) = floor /\ c.result = result
  /\ c.fn \in Variadic => c.args = args /\ m[args] = m[c.frame + ArgSlot]

Sound(cs, m) ==
  /\ cs \in Seq(CallRec)
  /\ \A i \in 1..Len(cs) :
       IF i = 1 THEN Fits(cs[i], MemTop, BootResult, BootArgs, m)
       ELSE Fits(cs[i], Low(cs[i - 1]), cs[i - 1].frame + ResSlot, cs[i - 1].frame + Outgoing, m)
  /\ \A i, j \in 1..Len(cs) : i < j => Ceiling(cs[j]) <= Low(cs[i])

\* A call that waits has noted where its part of the stack begins.
Settled(cs, n) == \A i \in 1..n : cs[i].saved = Low(cs[i])

Phases == {"run", "left", "done", "exhausted", "invalid pointer"}

Control ==
  /\ phase \in Phases
  /\ phase = "run" => calls # <<>> /\ tail_id = 0
  /\ phase = "left" => pending = ResultOf(calls) /\ Settled(calls, Len(calls))
  /\ tail_id \in {0} \cup (Fns \ Variadic) /\ pending \in Addr
  /\ tail_id \in ByVal => mem[TailArgs] = TailCopy

CallInv ==
  /\ mem \in [Addr -> Nat]
  /\ Sound(calls, mem) /\ sp = Floor(calls) /\ Settled(calls, Len(calls) - 1)
  /\ Control

-----------------------------------------------------------------------------
(* Stacks as a bottom part and a top.                                      *)

LEMMA Pushed ==
  ASSUME NEW S, NEW s \in Seq(S), NEW e \in S
  PROVE  /\ Append(s, e) \in Seq(S) /\ Append(s, e) # <<>> /\ Len(s) \in Nat
         /\ Len(Append(s, e)) = Len(s) + 1 /\ Append(s, e)[Len(s) + 1] = e
         /\ \A i \in 1..Len(s) : Append(s, e)[i] = s[i]
         /\ Front(Append(s, e)) = s /\ Last(Append(s, e)) = e
<1> DEFINE t == Append(s, e)
<1>1. /\ t \in Seq(S) /\ Len(s) \in Nat /\ Len(t) = Len(s) + 1
      /\ \A i \in 1..Len(s) : t[i] = s[i]
      /\ t[Len(s) + 1] = e
  BY AppendProperties, LenProperties
<1>2. t # <<>>
  BY <1>1, EmptySeq
<1> HIDE DEF t
<1>3. Front(t) = s
  <2> DEFINE u == SubSeq(t, 1, Len(t) - 1)
  <2>1. Len(t) - 1 = Len(s) /\ \A i \in 1..Len(s) : t[i] \in S
    BY <1>1, ElementOfSeq
  <2>2. u \in Seq(S) /\ Len(u) = Len(s) /\ \A i \in 1..Len(s) : u[i] = t[i]
    BY <1>1, <2>1, SubSeqProperties
  <2>3. Front(t) = u
    BY DEF Front
  <2> HIDE DEF u
  <2>4. u = s
    BY <1>1, <2>2, SeqEqual
  <2> QED BY <2>3, <2>4
<1>4. Last(t) = e
  BY <1>1 DEF Last
<1> QED BY <1>1, <1>2, <1>3, <1>4 DEF t

LEMMA Peeled ==
  ASSUME NEW S, NEW s \in Seq(S), s # <<>>
  PROVE  /\ Front(s) \in Seq(S) /\ Last(s) \in S /\ s = Append(Front(s), Last(s))
         /\ Len(s) \in Nat \ {0} /\ Len(Front(s)) = Len(s) - 1 /\ Last(s) = s[Len(s)]
         /\ \A i \in 1..Len(s) - 1 : Front(s)[i] = s[i]
<1>1. Len(s) \in Nat \ {0}
  BY EmptySeq
<1>2. Last(s) = s[Len(s)] /\ Last(s) \in S
  BY <1>1, ElementOfSeq DEF Last
<1>3. \A i \in 1..Len(s) - 1 : s[i] \in S
  BY <1>1, ElementOfSeq
<1>4. /\ Front(s) \in Seq(S) /\ Len(Front(s)) = Len(s) - 1
      /\ \A i \in 1..Len(s) - 1 : Front(s)[i] = s[i]
  <2> DEFINE n == Len(s) - 1
             u == SubSeq(s, 1, n)
  <2>1. n \in Nat /\ \A i \in 1..n : s[i] \in S
    BY <1>1, <1>3
  <2> HIDE DEF n
  <2>2. /\ u \in Seq(S) /\ Len(u) = IF 1 <= n THEN n - 1 + 1 ELSE 0
        /\ \A i \in 1 .. n - 1 + 1 : u[i] = s[1 + i - 1]
    BY <2>1, SubSeqProperties
  <2>3. Front(s) = u
    BY DEF Front, n
  <2> HIDE DEF u
  <2>4. u \in Seq(S) /\ Len(u) = n /\ \A i \in 1..n : u[i] = s[i]
    BY <2>1, <2>2
  <2> QED BY <2>3, <2>4 DEF n
<1>5. s = Append(Front(s), Last(s))
  <2> DEFINE f == Front(s)
             u == Append(f, Last(s))
  <2> HIDE DEF f
  <2>1. u \in Seq(S) /\ Len(u) = Len(f) + 1 /\ (\A i \in 1..Len(f) : u[i] = f[i]) /\ u[Len(f) + 1] = Last(s)
    BY <1>2, <1>4, AppendProperties DEF f
  <2> HIDE DEF u
  <2>2. \A i \in 1..Len(s) : s[i] = u[i]
    BY <1>1, <1>2, <1>4, <2>1 DEF f
  <2>3. s = u
    BY <1>1, <1>4, <2>1, <2>2, SeqEqual DEF f
  <2> QED BY <2>3 DEF u, f
<1> QED BY <1>1, <1>2, <1>4, <1>5

\* What a call's part of the stack covers.
LEMMA Spanned ==
  ASSUME NEW c, Framed(c)
  PROVE  /\ c \in CallRec /\ Low(c) \in Nat /\ Heap <= Low(c) /\ Low(c) <= c.frame
         /\ c.frame \in Nat /\ FrameSize(c.fn) \in {4, 5} /\ Ceiling(c) \in Nat /\ c.frame + 4 <= Ceiling(c)
         /\ Ceiling(c) <= MemTop /\ Low(c) \in Addr /\ c.frame \in Addr /\ c.frame + ArgSlot \in Addr
         /\ c.frame + ResSlot \in Addr /\ c.frame + Outgoing \in Addr
<1>1. c \in CallRec /\ Heap <= Low(c) /\ Low(c) <= c.frame /\ Ceiling(c) <= MemTop
  BY DEF Framed
<1>2. c.frame \in Addr /\ c.cells \in Seq(Addr)
  BY <1>1 DEF CallRec
<1>3. c.frame \in Nat /\ FrameSize(c.fn) \in {4, 5} /\ MemTop \in Nat
  BY <1>2, Parameters DEF Addr, FrameSize
<1>4. Low(c) \in Addr
  <2>1. CASE c.cells = <<>>
    BY <1>2, <2>1 DEF Low
  <2>2. CASE c.cells # <<>>
    <3>1. Len(c.cells) \in Nat \ {0}
      BY <1>2, <2>2, EmptySeq
    <3>2. c.cells[Len(c.cells)] \in Addr
      BY <1>2, <3>1, ElementOfSeq
    <3> QED BY <2>2, <3>2 DEF Low
  <2> QED BY <2>1, <2>2
<1>5. Low(c) \in Nat
  BY <1>3, <1>4 DEF Addr
<1>6. Ceiling(c) \in Nat /\ c.frame + 4 <= Ceiling(c)
  BY <1>3 DEF Ceiling
<1>7. c.frame + ArgSlot \in Addr /\ c.frame + ResSlot \in Addr /\ c.frame + Outgoing \in Addr
  BY <1>1, <1>3, <1>6 DEF Addr, ArgSlot, ResSlot, Outgoing
<1> QED BY <1>1, <1>2, <1>3, <1>4, <1>5, <1>6, <1>7

\* Everything below the next frame is free, and static memory is below that.
LEMMA Grounded ==
  ASSUME NEW b, NEW m, Sound(b, m)
  PROVE  /\ b \in Seq(CallRec) /\ Len(b) \in Nat /\ (b = <<>> <=> Len(b) = 0)
         /\ Floor(b) \in Nat /\ Heap <= Floor(b) /\ Floor(b) <= MemTop
         /\ ResultOf(b) \in Addr /\ ArgsOf(b) \in Addr
         /\ ResultOf(b) >= Floor(b) \/ ResultOf(b) = BootResult
         /\ ArgsOf(b) >= Floor(b) \/ ArgsOf(b) = BootArgs
         /\ ArgsOf(b) # ResultOf(b)
         /\ \A i \in 1..Len(b) : Framed(b[i]) /\ Floor(b) <= Low(b[i])
<1>1. b \in Seq(CallRec) /\ Len(b) \in Nat /\ (b = <<>> <=> Len(b) = 0)
  BY LenProperties, EmptySeq DEF Sound
<1>2. \A i \in 1..Len(b) : Framed(b[i])
  BY DEF Sound, Fits
<1>3. MemTop \in Nat /\ Heap <= MemTop
  BY Parameters DEF Heap, FrameSize
<1>4. CASE b = <<>>
  <2>1. Floor(b) = MemTop /\ ResultOf(b) = BootResult /\ ArgsOf(b) = BootArgs
    BY <1>4 DEF Floor, ResultOf, ArgsOf
  <2>2. 1..Len(b) = {}
    BY <1>1, <1>4
  <2>3. BootResult \in Addr /\ BootArgs \in Addr /\ BootArgs # BootResult /\ Heap \in Nat
    BY <1>3 DEF Addr, BootResult, BootArgs, Heap
  <2> QED BY <1>1, <1>3, <2>1, <2>2, <2>3
<1>5. CASE b # <<>>
  <2> DEFINE n == Len(b)
             c == b[n]
  <2>1. n \in Nat \ {0} /\ n \in 1..n
    BY <1>1, <1>5
  <2>2. Floor(b) = Low(c) /\ ResultOf(b) = c.frame + ResSlot /\ ArgsOf(b) = c.frame + Outgoing
    BY <1>5 DEF Floor, ResultOf, ArgsOf
  <2>3. Framed(c)
    BY <1>2, <2>1
  <2> HIDE DEF c
  <2>4. /\ Low(c) \in Nat /\ Heap <= Low(c) /\ Low(c) <= c.frame /\ c.frame \in Nat /\ c.frame + 4 <= Ceiling(c)
        /\ Ceiling(c) \in Nat /\ Ceiling(c) <= MemTop /\ c.frame + ResSlot \in Addr /\ c.frame + Outgoing \in Addr
    BY <2>3, Spanned
  <2>5. ASSUME NEW i \in 1..n PROVE Low(c) <= Low(b[i])
    <3>1. CASE i = n
      BY <2>4, <3>1 DEF c
    <3>2. CASE i # n
      <4>1. i < n
        BY <2>1, <3>2
      <4>2. Ceiling(c) <= Low(b[i])
        BY <2>1, <4>1 DEF Sound, c
      <4>3. Low(b[i]) \in Nat
        BY <1>2, Spanned
      <4> QED BY <2>4, <4>2, <4>3
    <3> QED BY <3>1, <3>2
  <2>6. /\ c.frame + ResSlot >= Low(c) /\ c.frame + Outgoing >= Low(c) /\ c.frame + ResSlot # c.frame + Outgoing
        /\ Low(c) <= MemTop
    BY <1>3, <2>4 DEF ResSlot, Outgoing
  <2> QED BY <1>1, <1>2, <2>2, <2>4, <2>5, <2>6
<1> QED BY <1>4, <1>5

\* The stack without its top is one, and the top fits on it.
LEMMA Uncovered ==
  ASSUME NEW b \in Seq(CallRec), NEW t \in CallRec, NEW m, Sound(Append(b, t), m)
  PROVE  Sound(b, m) /\ Fits(t, Floor(b), ResultOf(b), ArgsOf(b), m)
<1> DEFINE s == Append(b, t)
           n == Len(b)
<1>1. /\ s \in Seq(CallRec) /\ n \in Nat /\ Len(s) = n + 1 /\ s[n + 1] = t /\ \A i \in 1..n : s[i] = b[i]
  BY Pushed
<1>2. n = 0 <=> b = <<>>
  BY EmptySeq
<1>3. Sound(s, m)
  OBVIOUS
<1> HIDE DEF s
<1>4. \A i \in 1..Len(s) :
        IF i = 1 THEN Fits(s[i], MemTop, BootResult, BootArgs, m)
        ELSE Fits(s[i], Low(s[i - 1]), s[i - 1].frame + ResSlot, s[i - 1].frame + Outgoing, m)
  BY <1>3 DEF Sound
<1>5. \A i, j \in 1..Len(s) : i < j => Ceiling(s[j]) <= Low(s[i])
  BY <1>3 DEF Sound
<1>6. ASSUME NEW i \in 1..n
      PROVE  IF i = 1 THEN Fits(b[i], MemTop, BootResult, BootArgs, m)
             ELSE Fits(b[i], Low(b[i - 1]), b[i - 1].frame + ResSlot, b[i - 1].frame + Outgoing, m)
  <2>1. i \in 1..Len(s) /\ s[i] = b[i]
    BY <1>1
  <2>2. i # 1 => i - 1 \in 1..n
    BY <1>1
  <2>3. i # 1 => s[i - 1] = b[i - 1]
    BY <1>1, <2>2
  <2> QED BY <1>4, <2>1, <2>3
<1>7. ASSUME NEW i \in 1..n, NEW j \in 1..n, i < j PROVE Ceiling(b[j]) <= Low(b[i])
  <2>1. i \in 1..Len(s) /\ j \in 1..Len(s) /\ s[i] = b[i] /\ s[j] = b[j]
    BY <1>1
  <2> QED BY <1>5, <1>7, <2>1
<1>8. Sound(b, m)
  BY <1>6, <1>7 DEF Sound
<1>9. Fits(t, Floor(b), ResultOf(b), ArgsOf(b), m)
  <2>1. n + 1 \in 1..Len(s) /\ (n # 0 => n + 1 - 1 \in 1..n /\ n + 1 # 1 /\ n + 1 - 1 = n)
    BY <1>1
  <2>2. CASE n = 0
    <3>1. b = <<>>
      BY <1>2, <2>2
    <3>2. Floor(b) = MemTop /\ ResultOf(b) = BootResult /\ ArgsOf(b) = BootArgs
      BY <3>1 DEF Floor, ResultOf, ArgsOf
    <3>3. Fits(s[n + 1], MemTop, BootResult, BootArgs, m)
      BY <1>4, <2>1, <2>2
    <3> QED BY <1>1, <3>2, <3>3
  <2>3. CASE n # 0
    <3>1. Floor(b) = Low(b[n]) /\ ResultOf(b) = b[n].frame + ResSlot /\ ArgsOf(b) = b[n].frame + Outgoing
      BY <1>2, <2>3 DEF Floor, ResultOf, ArgsOf
    <3>2. s[n] = b[n]
      BY <1>1, <2>1, <2>3
    <3>3. Fits(s[n + 1], Low(s[n]), s[n].frame + ResSlot, s[n].frame + Outgoing, m)
      BY <1>4, <2>1, <2>3
    <3> QED BY <1>1, <3>1, <3>2, <3>3
  <2> QED BY <2>2, <2>3
<1> QED BY <1>8, <1>9

LEMMA Covered ==
  ASSUME NEW b, NEW t, NEW m, Sound(b, m), Fits(t, Floor(b), ResultOf(b), ArgsOf(b), m)
  PROVE  Sound(Append(b, t), m)
<1> DEFINE s == Append(b, t)
           n == Len(b)
<1>0. b \in Seq(CallRec) /\ t \in CallRec /\ Framed(t) /\ Ceiling(t) = Floor(b)
  BY DEF Sound, Fits, Framed
<1>1. /\ s \in Seq(CallRec) /\ n \in Nat /\ Len(s) = n + 1 /\ s[n + 1] = t /\ \A i \in 1..n : s[i] = b[i]
  BY <1>0, Pushed
<1>2. n = 0 <=> b = <<>>
  BY <1>0, EmptySeq
<1> HIDE DEF s
<1>3. ASSUME NEW i \in 1..Len(s)
      PROVE  IF i = 1 THEN Fits(s[i], MemTop, BootResult, BootArgs, m)
             ELSE Fits(s[i], Low(s[i - 1]), s[i - 1].frame + ResSlot, s[i - 1].frame + Outgoing, m)
  <2>1. CASE i \in 1..n
    <3>1. s[i] = b[i]
      BY <1>1, <2>1
    <3>2. i # 1 => i - 1 \in 1..n
      BY <1>1, <2>1
    <3>3. i # 1 => s[i - 1] = b[i - 1]
      BY <1>1, <3>2
    <3>4. IF i = 1 THEN Fits(b[i], MemTop, BootResult, BootArgs, m)
          ELSE Fits(b[i], Low(b[i - 1]), b[i - 1].frame + ResSlot, b[i - 1].frame + Outgoing, m)
      BY <2>1 DEF Sound
    <3> QED BY <3>1, <3>3, <3>4
  <2>2. CASE i = n + 1
    <3>1. s[i] = t
      BY <1>1, <2>2
    <3>2. CASE n = 0
      <4>1. i = 1 /\ b = <<>>
        BY <1>2, <2>2, <3>2
      <4> QED BY <3>1, <4>1 DEF Floor, ResultOf, ArgsOf
    <3>3. CASE n # 0
      <4>1. i # 1 /\ i - 1 = n /\ n \in 1..n /\ b # <<>>
        BY <1>1, <1>2, <2>2, <3>3
      <4>2. s[i - 1] = b[n]
        BY <1>1, <4>1
      <4> QED BY <3>1, <4>1, <4>2 DEF Floor, ResultOf, ArgsOf
    <3> QED BY <3>2, <3>3
  <2> QED BY <1>1, <2>1, <2>2
<1>4. ASSUME NEW i \in 1..Len(s), NEW j \in 1..Len(s), i < j PROVE Ceiling(s[j]) <= Low(s[i])
  <2>1. i \in 1..n /\ s[i] = b[i] /\ (j \in 1..n \/ j = n + 1)
    BY <1>1, <1>4
  <2>2. CASE j \in 1..n
    <3>1. s[j] = b[j]
      BY <1>1, <2>2
    <3> QED BY <1>4, <2>1, <2>2, <3>1 DEF Sound
  <2>3. CASE j = n + 1
    <3>1. s[j] = t
      BY <1>1, <2>3
    <3>2. Floor(b) <= Low(b[i])
      BY <2>1, Grounded
    <3> QED BY <1>0, <2>1, <3>1, <3>2
  <2> QED BY <2>1, <2>2, <2>3
<1> QED BY <1>1, <1>3, <1>4 DEF Sound

\* What is written below the next frame concerns no call.
LEMMA Untouched ==
  ASSUME NEW b, NEW m, NEW m2, Sound(b, m),
         \A a \in Addr : a >= Floor(b) \/ a = BootArgs => m2[a] = m[a]
  PROVE  Sound(b, m2)
<1>1. /\ b \in Seq(CallRec) /\ Len(b) \in Nat /\ Floor(b) \in Nat
      /\ \A i \in 1..Len(b) : Framed(b[i]) /\ Floor(b) <= Low(b[i])
  BY Grounded
<1>2. ASSUME NEW i \in 1..Len(b) PROVE m2[b[i].frame + ArgSlot] = m[b[i].frame + ArgSlot]
  <2>1. Framed(b[i]) /\ Floor(b) <= Low(b[i])
    BY <1>1
  <2>2. b[i].frame + ArgSlot \in Addr /\ Low(b[i]) <= b[i].frame /\ b[i].frame \in Nat /\ Low(b[i]) \in Nat
    BY <2>1, Spanned
  <2>3. b[i].frame + ArgSlot >= Floor(b)
    BY <1>1, <2>1, <2>2 DEF ArgSlot
  <2> QED BY <2>2, <2>3
<1>3. m2[BootArgs] = m[BootArgs]
  <2>1. BootArgs \in Addr
    BY Parameters DEF Addr, BootArgs, Heap, FrameSize
  <2> QED BY <2>1
<1>4. ASSUME NEW i \in 1..Len(b)
      PROVE  IF i = 1 THEN Fits(b[i], MemTop, BootResult, BootArgs, m2)
             ELSE Fits(b[i], Low(b[i - 1]), b[i - 1].frame + ResSlot, b[i - 1].frame + Outgoing, m2)
  <2>1. IF i = 1 THEN Fits(b[i], MemTop, BootResult, BootArgs, m)
        ELSE Fits(b[i], Low(b[i - 1]), b[i - 1].frame + ResSlot, b[i - 1].frame + Outgoing, m)
    BY DEF Sound
  <2>2. CASE i = 1
    BY <1>2, <1>3, <2>1, <2>2 DEF Fits
  <2>3. CASE i # 1
    <3> DEFINE u == b[i - 1]
    <3>1. i - 1 \in 1..Len(b)
      BY <1>1, <2>3
    <3>2. Framed(u) /\ Floor(b) <= Low(u)
      BY <1>1, <3>1
    <3> HIDE DEF u
    <3>3. u.frame + Outgoing \in Addr /\ Low(u) <= u.frame /\ u.frame \in Nat /\ Low(u) \in Nat
      BY <3>2, Spanned
    <3>4. u.frame + Outgoing >= Floor(b)
      BY <1>1, <3>2, <3>3 DEF Outgoing
    <3>5. m2[u.frame + Outgoing] = m[u.frame + Outgoing]
      BY <3>3, <3>4
    <3> QED BY <1>2, <2>1, <2>3, <3>5 DEF Fits, u
  <2> QED BY <2>2, <2>3
<1> QED BY <1>1, <1>4 DEF Sound

\* A call on top of settled ones.
LEMMA Topped ==
  ASSUME NEW b, NEW t, NEW m, Sound(b, m), Fits(t, Floor(b), ResultOf(b), ArgsOf(b), m), Settled(b, Len(b))
  PROVE  LET s == Append(b, t) IN
         /\ Sound(s, m) /\ s # <<>> /\ Floor(s) = Low(t) /\ Settled(s, Len(s) - 1)
         /\ ResultOf(s) = t.frame + ResSlot /\ ArgsOf(s) = t.frame + Outgoing
         /\ t.saved = Low(t) => Settled(s, Len(s))
<1> DEFINE s == Append(b, t)
<1>1. b \in Seq(CallRec) /\ t \in CallRec
  BY DEF Sound, Fits, Framed
<1>2. /\ s \in Seq(CallRec) /\ s # <<>> /\ Len(b) \in Nat /\ Len(s) = Len(b) + 1 /\ s[Len(s)] = t
      /\ \A i \in 1..Len(b) : s[i] = b[i]
  BY <1>1, Pushed
<1>3. Sound(s, m)
  BY Covered
<1> HIDE DEF s
<1>4. Floor(s) = Low(t) /\ ResultOf(s) = t.frame + ResSlot /\ ArgsOf(s) = t.frame + Outgoing
  BY <1>2 DEF Floor, ResultOf, ArgsOf
<1>5. Settled(s, Len(s) - 1)
  <2>1. Len(s) - 1 = Len(b)
    BY <1>2
  <2> QED BY <1>2, <2>1 DEF Settled
<1>6. t.saved = Low(t) => Settled(s, Len(s))
  <2>1. \A i \in 1..Len(s) : i \in 1..Len(b) \/ i = Len(s)
    BY <1>2
  <2> QED BY <1>2, <2>1 DEF Settled
<1> QED BY <1>2, <1>3, <1>4, <1>5, <1>6 DEF s

\* The running function and what lies under it.
LEMMA Standing ==
  ASSUME CallInv, calls # <<>>
  PROVE  /\ calls = Append(Front(calls), Top) /\ Sound(Front(calls), mem) /\ Framed(Top)
         /\ Fits(Top, Floor(Front(calls)), ResultOf(Front(calls)), ArgsOf(Front(calls)), mem)
         /\ sp = Low(Top) /\ Settled(Front(calls), Len(Front(calls))) /\ mem \in [Addr -> Nat]
         /\ Floor(Front(calls)) \in Nat /\ Heap <= Floor(Front(calls)) /\ Ceiling(Top) = Floor(Front(calls))
         /\ Top \in CallRec /\ Front(calls) \in Seq(CallRec)
         /\ phase = "left" => Top.saved = Low(Top)
<1>1. calls \in Seq(CallRec) /\ Sound(calls, mem) /\ mem \in [Addr -> Nat] /\ sp = Floor(calls)
  BY DEF CallInv, Sound
<1>2. /\ Front(calls) \in Seq(CallRec) /\ Top \in CallRec /\ calls = Append(Front(calls), Top)
      /\ Len(calls) \in Nat \ {0} /\ Len(Front(calls)) = Len(calls) - 1 /\ Top = calls[Len(calls)]
      /\ \A i \in 1..Len(calls) - 1 : Front(calls)[i] = calls[i]
  BY <1>1, Peeled DEF Top
<1>3. Sound(Append(Front(calls), Top), mem)
  BY <1>1, <1>2
<1>4. Sound(Front(calls), mem) /\ Fits(Top, Floor(Front(calls)), ResultOf(Front(calls)), ArgsOf(Front(calls)), mem)
  BY <1>2, <1>3, Uncovered
<1>5. sp = Low(Top)
  BY <1>1, <1>2 DEF Floor
<1>6. Settled(Front(calls), Len(Front(calls)))
  <2>1. Settled(calls, Len(calls) - 1)
    BY DEF CallInv
  <2> QED BY <1>2, <2>1 DEF Settled
<1>7. Floor(Front(calls)) \in Nat /\ Heap <= Floor(Front(calls))
  BY <1>4, Grounded
<1>8. Framed(Top) /\ Ceiling(Top) = Floor(Front(calls))
  BY <1>4 DEF Fits
<1>9. phase = "left" => Top.saved = Low(Top)
  <2>1. Len(calls) \in 1..Len(calls)
    BY <1>2
  <2> QED BY <1>2, <2>1 DEF CallInv, Control, Settled
<1> QED BY <1>1, <1>2, <1>4, <1>5, <1>6, <1>7, <1>8, <1>9

\* A trap changes nothing that lies on the stack.
LEMMA Trapped ==
  ASSUME CallInv, Trap("exhausted") \/ Trap("invalid pointer")
  PROVE  CallInv'
<1>1. UNCHANGED <<mem, sp, tail_id, calls, pending>> /\ phase' \in {"exhausted", "invalid pointer"}
  BY DEF Trap
<1>2. Sound(calls', mem') /\ sp' = Floor(calls') /\ Settled(calls', Len(calls') - 1) /\ mem' \in [Addr -> Nat]
  BY <1>1 DEF CallInv
<1>3. Control'
  BY <1>1 DEF CallInv, Control, Phases
<1> QED BY <1>2, <1>3 DEF CallInv

\* The frame an entry procedure carves, and the argument it copies there.
Carve(f, under) == Floor(under) - FrameSize(f)
CopyIn(f, args, under, m) ==
  LET frame == Carve(f, under)
      copy == frame - 1
      opened == [m EXCEPT ![frame] = 1]
  IN IF f \in ByVal THEN [opened EXCEPT ![copy] = opened[opened[args]], ![frame + ArgSlot] = copy]
     ELSE [opened EXCEPT ![frame + ArgSlot] = opened[args]]
Body(f, args, under) ==
  [fn |-> f, frame |-> Carve(f, under), args |-> args, result |-> ResultOf(under), defined |-> FALSE,
   cells |-> IF f \in ByVal THEN <<Carve(f, under) - 1>> ELSE <<>>, saved |-> 0]

LEMMA CarvedBare ==
  ASSUME NEW f \in Fns, NEW args \in Addr, NEW under, NEW m \in [Addr -> Nat], Sound(under, m),
         f \notin ByVal, f \in Variadic => args = ArgsOf(under), Carve(f, under) >= Heap,
         args >= Floor(under) \/ args < Heap
  PROVE  /\ CopyIn(f, args, under, m) \in [Addr -> Nat]
         /\ Sound(under, CopyIn(f, args, under, m))
         /\ Fits(Body(f, args, under), Floor(under), ResultOf(under), ArgsOf(under), CopyIn(f, args, under, m))
         /\ Low(Body(f, args, under)) = Carve(f, under)
         /\ CopyIn(f, args, under, m)[Carve(f, under) + ArgSlot] = m[args]
         /\ \A a \in Addr : a >= Floor(under) \/ a < Heap => CopyIn(f, args, under, m)[a] = m[a]
<1> DEFINE frame == Carve(f, under)
           opened == [m EXCEPT ![frame] = 1]
           m2 == CopyIn(f, args, under, m)
           new == Body(f, args, under)
           floor == Floor(under)
           size == FrameSize(f)
<1>1. /\ floor \in Nat /\ floor <= MemTop /\ ResultOf(under) \in Addr /\ MemTop \in Nat
      /\ ArgsOf(under) >= floor \/ ArgsOf(under) = BootArgs
  BY Grounded, Parameters
<1>2. size = 4 /\ frame = floor - size /\ frame >= Heap /\ args \in Nat
  BY DEF FrameSize, Carve, Addr
<1>3. m2 = [opened EXCEPT ![frame + ArgSlot] = opened[args]]
  BY DEF CopyIn
<1>4. new = [fn |-> f, frame |-> frame, args |-> args, result |-> ResultOf(under), defined |-> FALSE,
             cells |-> <<>>, saved |-> 0]
  BY DEF Body
<1> HIDE DEF frame, m2, new, floor, size
<1>5. /\ frame \in Nat /\ frame \in Addr /\ frame + ArgSlot \in Addr /\ frame + 4 = floor
      /\ frame + ArgSlot \in Nat /\ frame # frame + ArgSlot
  BY <1>1, <1>2 DEF Addr, ArgSlot, Heap
<1>6. opened \in [Addr -> Nat] /\ \A a \in Addr : a # frame => opened[a] = m[a]
  BY <1>5
<1> HIDE DEF opened
<1>7. opened[args] \in Nat
  BY <1>6
<1>8. m2 \in [Addr -> Nat] /\ \A a \in Addr : a # frame /\ a # frame + ArgSlot => m2[a] = m[a]
  BY <1>3, <1>5, <1>6, <1>7
<1>9. \A a \in Addr : a >= floor \/ a < Heap => a # frame /\ a # frame + ArgSlot
  BY <1>1, <1>2, <1>5 DEF Addr, ArgSlot, Heap
<1>10. BootArgs < Heap
  BY DEF BootArgs, Heap
<1>11. \A a \in Addr : a >= floor \/ a < Heap => m2[a] = m[a]
  BY <1>8, <1>9
<1>12. Sound(under, m2)
  <2>1. \A a \in Addr : a >= Floor(under) \/ a = BootArgs => m2[a] = m[a]
    BY <1>10, <1>11 DEF floor
  <2> QED BY <2>1, Untouched
<1>13. new.cells = <<>> /\ new.frame = frame /\ new.fn = f /\ new.args = args /\ new.result = ResultOf(under)
  BY <1>4
<1>14. new \in CallRec
  <2>1. <<>> \in Seq(Addr) /\ 0 \in 0..MemTop /\ FALSE \in BOOLEAN
    BY <1>1, EmptySeq
  <2> QED BY <1>1, <1>4, <1>5, <2>1 DEF CallRec
<1>15. Low(new) = frame /\ Ceiling(new) = floor
  BY <1>1, <1>2, <1>13 DEF Low, Ceiling, size
<1>16. Framed(new)
  <2>1. Len(new.cells) = 0
    BY <1>13, EmptySeq
  <2> QED BY <1>1, <1>2, <1>5, <1>13, <1>14, <1>15, <2>1 DEF Framed
<1>17. m2[args] = m[args] /\ m2[frame + ArgSlot] = m[args]
  <2>1. args >= floor \/ args < Heap
    BY DEF floor
  <2>2. args # frame /\ m2[args] = m[args]
    BY <1>9, <1>11, <2>1
  <2>3. m2[frame + ArgSlot] = opened[args]
    BY <1>3, <1>5, <1>6
  <2> QED BY <1>6, <2>2, <2>3
<1>18. Fits(new, floor, ResultOf(under), ArgsOf(under), m2)
  BY <1>13, <1>15, <1>16, <1>17 DEF Fits
<1> QED BY <1>8, <1>11, <1>12, <1>15, <1>17, <1>18 DEF m2, new, frame, floor

LEMMA CarvedCopy ==
  ASSUME NEW f \in ByVal, NEW args \in Addr, NEW under, NEW m \in [Addr -> Nat], Sound(under, m),
         args >= Floor(under) \/ args < Heap, m[args] \in Addr, m[args] >= Floor(under) \/ m[args] < Heap,
         Carve(f, under) - 1 >= Heap
  PROVE  /\ CopyIn(f, args, under, m) \in [Addr -> Nat]
         /\ Sound(under, CopyIn(f, args, under, m))
         /\ Fits(Body(f, args, under), Floor(under), ResultOf(under), ArgsOf(under), CopyIn(f, args, under, m))
         /\ Low(Body(f, args, under)) = Carve(f, under) - 1
         /\ CopyIn(f, args, under, m)[Carve(f, under) - 1] = m[m[args]]
         /\ \A a \in Addr : a >= Floor(under) \/ a < Heap => CopyIn(f, args, under, m)[a] = m[a]
<1> DEFINE frame == Carve(f, under)
           copy == frame - 1
           opened == [m EXCEPT ![frame] = 1]
           m2 == CopyIn(f, args, under, m)
           new == Body(f, args, under)
           floor == Floor(under)
           size == FrameSize(f)
<1>1. floor \in Nat /\ floor <= MemTop /\ ResultOf(under) \in Addr /\ MemTop \in Nat
  BY Grounded, Parameters
<1>2. size = 5 /\ frame = floor - size /\ copy >= Heap /\ f \in Fns /\ f \notin Variadic
  BY Parameters DEF FrameSize, Carve
<1>3. m2 = [opened EXCEPT ![copy] = opened[opened[args]], ![frame + ArgSlot] = copy]
  BY DEF CopyIn
<1>4. new = [fn |-> f, frame |-> frame, args |-> args, result |-> ResultOf(under), defined |-> FALSE,
             cells |-> <<copy>>, saved |-> 0]
  BY DEF Body
<1>5. /\ frame \in Nat /\ copy = frame - 1
      /\ args >= floor \/ args < Heap
      /\ m[args] >= floor \/ m[args] < Heap
  BY <1>1, <1>2 DEF Heap
<1> HIDE DEF m2, new, floor, size, copy
<1>6. /\ frame \in Addr /\ copy \in Addr /\ copy \in Nat /\ frame + ArgSlot \in Addr /\ frame + 5 = floor
      /\ frame # frame + ArgSlot /\ copy # frame + ArgSlot /\ copy # frame
  <2> HIDE DEF frame
  <2> QED BY <1>1, <1>2, <1>5 DEF Addr, ArgSlot, Heap
<1> HIDE DEF frame
<1>7. opened \in [Addr -> Nat] /\ \A a \in Addr : a # frame => opened[a] = m[a]
  BY <1>6
<1> HIDE DEF opened
<1>8. \A a \in Addr : a >= floor \/ a < Heap => a # frame /\ a # frame + ArgSlot /\ a # copy
  BY <1>1, <1>2, <1>5, <1>6 DEF Addr, ArgSlot, Heap
<1>9. opened[args] = m[args] /\ opened[m[args]] = m[m[args]]
  <2>1. args # frame /\ m[args] # frame
    BY <1>5, <1>8
  <2> QED BY <1>7, <2>1
<1>10. m[m[args]] \in Nat
  OBVIOUS
<1>11. m2 = [opened EXCEPT ![copy] = m[m[args]], ![frame + ArgSlot] = copy]
  BY <1>3, <1>9
<1>12. /\ m2 \in [Addr -> Nat] /\ m2[copy] = m[m[args]]
       /\ \A a \in Addr : a # frame /\ a # copy /\ a # frame + ArgSlot => m2[a] = m[a]
  BY <1>6, <1>7, <1>10, <1>11
<1>13. \A a \in Addr : a >= floor \/ a < Heap => m2[a] = m[a]
  BY <1>8, <1>12
<1>14. Sound(under, m2)
  <2>1. \A a \in Addr : a >= Floor(under) \/ a = BootArgs => m2[a] = m[a]
    BY <1>13 DEF floor, BootArgs, Heap
  <2> QED BY <2>1, Untouched
<1>15. new.cells = <<copy>> /\ new.frame = frame /\ new.fn = f /\ new.args = args /\ new.result = ResultOf(under)
  BY <1>4
<1>16. <<copy>> \in Seq(Addr) /\ Len(<<copy>>) = 1 /\ <<copy>>[1] = copy /\ <<copy>> # <<>>
  BY <1>6
<1>17. new \in CallRec
  <2>1. 0 \in 0..MemTop /\ FALSE \in BOOLEAN
    BY <1>1
  <2> QED BY <1>1, <1>2, <1>4, <1>6, <1>16, <2>1 DEF CallRec
<1>18. Low(new) = copy /\ Ceiling(new) = floor
  BY <1>1, <1>2, <1>5, <1>15, <1>16 DEF Low, Ceiling, size
<1>19. Framed(new)
  <2>1. \A k \in 1..Len(new.cells) : k = 1
    BY <1>15, <1>16
  <2>2. Heap <= copy /\ copy <= frame /\ floor <= MemTop /\ copy < frame
    BY <1>1, <1>2, <1>5
  <2>3. /\ \A k \in 1..Len(new.cells) : Low(new) <= new.cells[k] /\ new.cells[k] < new.frame
        /\ \A k, l \in 1..Len(new.cells) : k < l => new.cells[l] < new.cells[k]
    BY <1>15, <1>16, <1>18, <2>1, <2>2, <1>6
  <2> QED BY <1>15, <1>16, <1>17, <1>18, <2>2, <2>3 DEF Framed
<1>20. Fits(new, floor, ResultOf(under), ArgsOf(under), m2)
  BY <1>2, <1>15, <1>18, <1>19 DEF Fits
<1> QED BY <1>12, <1>13, <1>14, <1>18, <1>20 DEF m2, new, frame, copy, floor

-----------------------------------------------------------------------------
(* The steps.                                                              *)

LEMMA SomeCall == ASSUME CallInv, phase = "run" PROVE calls # <<>> /\ tail_id = 0 /\ pending \in Addr
BY DEF CallInv, Control

\* What a write leaves alone if it is below the callers' part and not the argument's slot.
LEMMA Written ==
  ASSUME NEW b, NEW t, NEW m, NEW m2, Sound(b, m), Fits(t, Floor(b), ResultOf(b), ArgsOf(b), m),
         \A a \in Addr : a >= Floor(b) \/ a = BootArgs \/ a = t.frame + ArgSlot => m2[a] = m[a]
  PROVE  Sound(b, m2) /\ Fits(t, Floor(b), ResultOf(b), ArgsOf(b), m2)
<1>1. Sound(b, m2)
  BY Untouched
<1>2. t.frame + ArgSlot \in Addr /\ ArgsOf(b) \in Addr /\ (ArgsOf(b) >= Floor(b) \/ ArgsOf(b) = BootArgs)
  BY Grounded, Spanned DEF Fits
<1>3. m2[t.frame + ArgSlot] = m[t.frame + ArgSlot] /\ m2[ArgsOf(b)] = m[ArgsOf(b)]
  BY <1>2
<1> QED BY <1>1, <1>3 DEF Fits

\* A call that differs in nothing that counts here.
LEMMA Same ==
  ASSUME NEW t, NEW u \in CallRec, NEW floor, NEW result, NEW args, NEW m, Fits(t, floor, result, args, m),
         u.fn = t.fn, u.frame = t.frame, u.cells = t.cells, u.args = t.args, u.result = t.result
  PROVE  Fits(u, floor, result, args, m) /\ Low(u) = Low(t)
<1>1. Low(u) = Low(t) /\ Ceiling(u) = Ceiling(t)
  BY DEF Low, Ceiling
<1>2. Framed(u)
  BY <1>1 DEF Fits, Framed
<1> QED BY <1>1, <1>2 DEF Fits

LEMMA WithFields ==
  ASSUME NEW t \in CallRec
  PROVE  /\ \A c \in Seq(Addr) : LET u == [t EXCEPT !.cells = c] IN
              /\ u \in CallRec /\ u.fn = t.fn /\ u.frame = t.frame /\ u.args = t.args /\ u.result = t.result
              /\ u.cells = c /\ u.defined = t.defined
         /\ \A n \in 0..MemTop : LET u == [t EXCEPT !.saved = n] IN
              /\ u \in CallRec /\ u.fn = t.fn /\ u.frame = t.frame /\ u.args = t.args /\ u.result = t.result
              /\ u.cells = t.cells /\ u.defined = t.defined /\ u.saved = n
         /\ LET u == [t EXCEPT !.defined = TRUE] IN
              /\ u \in CallRec /\ u.fn = t.fn /\ u.frame = t.frame /\ u.args = t.args /\ u.result = t.result
              /\ u.cells = t.cells /\ u.defined /\ u.saved = t.saved
BY DEF CallRec

\* The running function goes on.
LEMMA GoesOn ==
  ASSUME NEW b, NEW u, Sound(b, mem'), Fits(u, Floor(b), ResultOf(b), ArgsOf(b), mem'), Settled(b, Len(b)),
         calls' = Append(b, u), sp' = Low(u), mem' \in [Addr -> Nat],
         phase' = "run", tail_id' = 0, pending' \in Addr
  PROVE  CallInv'
<1>1. LET s == Append(b, u) IN
      Sound(s, mem') /\ s # <<>> /\ Floor(s) = Low(u) /\ Settled(s, Len(s) - 1)
  BY Topped
<1>2. Sound(calls', mem') /\ calls' # <<>> /\ sp' = Floor(calls') /\ Settled(calls', Len(calls') - 1)
  BY <1>1
<1>3. 0 \notin ByVal /\ "run" # "left"
  BY Parameters
<1>4. Control'
  BY <1>2, <1>3 DEF Control, Phases
<1> QED BY <1>2, <1>4 DEF CallInv

\* What the running function can name.
LEMMA Named ==
  ASSUME CallInv, calls # <<>>
  PROVE  /\ Sources(Top) \subseteq Nat
         /\ \A a \in ToSet(Top.cells) : a \in Addr /\ a \in Nat /\ Low(Top) <= a /\ a < Top.frame
         /\ \A f \in Fns : Arguments(f) \subseteq Nat
<1>1. Framed(Top) /\ Top \in CallRec /\ mem \in [Addr -> Nat]
  BY Standing
<1>2. Top.cells \in Seq(Addr)
  BY <1>1 DEF CallRec
<1>3. ASSUME NEW a \in ToSet(Top.cells) PROVE a \in Addr /\ a \in Nat /\ Low(Top) <= a /\ a < Top.frame
  <2>1. PICK k \in 1..Len(Top.cells) : a = Top.cells[k]
    BY <1>2, LenProperties DEF ToSet
  <2>2. a \in Addr
    BY <1>2, <2>1, ElementOfSeq
  <2> QED BY <1>1, <2>1, <2>2, Parameters DEF Framed, Addr
<1>4. Top.frame + ArgSlot \in Addr /\ Top.frame + ResSlot \in Addr
  BY <1>1, Spanned
<1>5. Sources(Top) \subseteq Nat
  <2>1. \A a \in Addr : mem[a] \in Nat
    BY <1>1
  <2>2. {mem[x] : x \in ToSet(Top.cells)} \subseteq Nat
    BY <1>3, <2>1
  <2>3. Data \subseteq Nat
    BY Parameters
  <2> QED BY <1>4, <2>1, <2>2, <2>3 DEF Sources
<1> QED BY <1>3, <1>5 DEF Arguments

LEMMA AllocaKeeps == ASSUME CallInv, Alloca PROVE CallInv'
<1>0. phase = "run" /\ calls # <<>> /\ tail_id = 0 /\ pending \in Addr
  BY SomeCall DEF Alloca
<1> DEFINE b == Front(calls)
           t == Top
<1>1. /\ Sound(b, mem) /\ Fits(t, Floor(b), ResultOf(b), ArgsOf(b), mem) /\ sp = Low(t) /\ Settled(b, Len(b))
      /\ mem \in [Addr -> Nat] /\ Framed(t) /\ Floor(b) \in Nat /\ Ceiling(t) = Floor(b) /\ t \in CallRec
  BY <1>0, Standing
<1>2. CASE sp - 1 < Heap
  BY <1>2, Trapped DEF Alloca
<1>3. CASE ~(sp - 1 < Heap)
  <2> DEFINE a == sp - 1
             u == [t EXCEPT !.cells = Append(@, a)]
  <2>1. PICK d \in Data : mem' = [mem EXCEPT ![a] = d]
    BY <1>3 DEF Alloca
  <2>2. sp' = a /\ calls' = Append(b, u) /\ tail_id' = 0 /\ pending' = pending /\ phase' = "run"
    BY <1>0, <1>3 DEF Alloca
  <2>3. /\ Low(t) \in Nat /\ Low(t) <= t.frame /\ t.frame \in Nat /\ t.frame + 4 <= Ceiling(t)
        /\ Low(t) \in Addr /\ Ceiling(t) <= MemTop /\ MemTop \in Nat
    BY <1>1, Spanned, Parameters
  <2>4. a \in Nat /\ a \in Addr /\ a < Low(t) /\ Heap <= a /\ a < t.frame
    BY <1>1, <1>3, <2>3 DEF Addr, Heap
  <2> HIDE DEF a
  <2>5. d \in Nat
    BY Parameters
  <2>6. mem' \in [Addr -> Nat] /\ \A x \in Addr : x # a => mem'[x] = mem[x]
    BY <1>1, <2>1, <2>4, <2>5
  <2>7. \A x \in Addr : x >= Floor(b) \/ x = BootArgs \/ x = t.frame + ArgSlot => mem'[x] = mem[x]
    BY <1>1, <2>3, <2>4, <2>6 DEF ArgSlot, BootArgs, Heap
  <2>8. Sound(b, mem') /\ Fits(t, Floor(b), ResultOf(b), ArgsOf(b), mem')
    BY <1>1, <2>7, Written
  <2>9. t.cells \in Seq(Addr)
    BY <1>1 DEF CallRec
  <2>10. /\ u.fn = t.fn /\ u.frame = t.frame /\ u.args = t.args /\ u.result = t.result
         /\ u.cells = Append(t.cells, a) /\ u \in CallRec
    <3>1. Append(t.cells, a) \in Seq(Addr)
      BY <2>4, <2>9, AppendProperties
    <3> QED BY <1>1, <3>1, WithFields
  <2> DEFINE n == Len(t.cells)
  <2>11. /\ n \in Nat /\ Len(u.cells) = n + 1 /\ u.cells[n + 1] = a /\ u.cells # <<>>
         /\ \A k \in 1..n : u.cells[k] = t.cells[k] /\ t.cells[k] \in Nat
    <3>1. \A k \in 1..n : t.cells[k] \in Nat
      BY <2>9, ElementOfSeq, Parameters DEF Addr
    <3> QED BY <2>4, <2>9, <2>10, <3>1, Pushed
  <2> HIDE DEF u, n
  <2>12. Low(u) = a /\ Ceiling(u) = Ceiling(t)
    BY <2>10, <2>11 DEF Low, Ceiling
  <2>13. \A k \in 1..n : Low(t) <= t.cells[k] /\ t.cells[k] < t.frame
    BY <1>1 DEF Framed, n
  <2>14. \A k, l \in 1..n : k < l => t.cells[l] < t.cells[k]
    BY <1>1 DEF Framed, n
  <2>15. \A k \in 1..Len(u.cells) : k \in 1..n \/ k = n + 1
    BY <2>11
  <2>16. \A k \in 1..Len(u.cells) : a <= u.cells[k] /\ u.cells[k] < u.frame
    BY <2>3, <2>4, <2>10, <2>11, <2>13, <2>15
  <2>17. ASSUME NEW k \in 1..Len(u.cells), NEW l \in 1..Len(u.cells), k < l PROVE u.cells[l] < u.cells[k]
    <3>1. k \in 1..n
      BY <2>11, <2>17
    <3>2. CASE l \in 1..n
      BY <2>11, <2>14, <2>17, <3>1, <3>2
    <3>3. CASE l = n + 1
      BY <2>3, <2>4, <2>11, <2>13, <3>1, <3>3
    <3> QED BY <2>15, <3>2, <3>3
  <2>18. Framed(u)
    <3>1. Heap <= Low(u) /\ Low(u) <= u.frame /\ Ceiling(u) <= MemTop
      BY <2>3, <2>4, <2>10, <2>12
    <3>2. \A k \in 1..Len(u.cells) : Low(u) <= u.cells[k] /\ u.cells[k] < u.frame
      BY <2>12, <2>16
    <3> QED BY <2>10, <2>11, <2>17, <3>1, <3>2 DEF Framed
  <2>19. Fits(u, Floor(b), ResultOf(b), ArgsOf(b), mem')
    BY <2>8, <2>10, <2>12, <2>18 DEF Fits
  <2> QED BY <1>0, <1>1, <2>2, <2>6, <2>8, <2>12, <2>19, GoesOn
<1> QED BY <1>2, <1>3

LEMMA StoreKeeps == ASSUME CallInv, Store PROVE CallInv'
<1>0. phase = "run" /\ calls # <<>> /\ tail_id = 0 /\ pending \in Addr
  BY SomeCall DEF Store
<1> DEFINE b == Front(calls)
           t == Top
<1>1. /\ Sound(b, mem) /\ Fits(t, Floor(b), ResultOf(b), ArgsOf(b), mem) /\ sp = Low(t) /\ Settled(b, Len(b))
      /\ mem \in [Addr -> Nat] /\ Framed(t) /\ Floor(b) \in Nat /\ Ceiling(t) = Floor(b) /\ calls = Append(b, t)
  BY <1>0, Standing
<1>2. PICK a \in ToSet(t.cells), v \in Sources(t) : mem' = [mem EXCEPT ![a] = v]
  BY DEF Store
<1>3. v \in Nat /\ a \in Nat /\ a \in Addr /\ Low(t) <= a /\ a < t.frame
  BY <1>0, Named
<1>4. Low(t) \in Nat /\ Heap <= Low(t) /\ t.frame \in Nat /\ t.frame + 4 <= Ceiling(t)
  BY <1>1, Spanned
<1>5. mem' \in [Addr -> Nat] /\ \A x \in Addr : x # a => mem'[x] = mem[x]
  BY <1>1, <1>2, <1>3
<1>6. \A x \in Addr : x >= Floor(b) \/ x = BootArgs \/ x = t.frame + ArgSlot => mem'[x] = mem[x]
  BY <1>1, <1>3, <1>4, <1>5 DEF ArgSlot, BootArgs, Heap
<1>7. Sound(b, mem') /\ Fits(t, Floor(b), ResultOf(b), ArgsOf(b), mem')
  BY <1>1, <1>6, Written
<1>8. calls' = Append(b, t) /\ sp' = Low(t) /\ phase' = "run" /\ tail_id' = 0 /\ pending' \in Addr
  BY <1>0, <1>1 DEF Store
<1> QED BY <1>1, <1>5, <1>7, <1>8, GoesOn

LEMMA UseOutgoingKeeps == ASSUME CallInv, UseOutgoing PROVE CallInv'
<1>0. phase = "run" /\ calls # <<>> /\ tail_id = 0 /\ pending \in Addr
  BY SomeCall DEF UseOutgoing
<1> DEFINE b == Front(calls)
           t == Top
           a == t.frame + Outgoing
<1>1. /\ Sound(b, mem) /\ Fits(t, Floor(b), ResultOf(b), ArgsOf(b), mem) /\ sp = Low(t) /\ Settled(b, Len(b))
      /\ mem \in [Addr -> Nat] /\ Framed(t) /\ Floor(b) \in Nat /\ Ceiling(t) = Floor(b) /\ calls = Append(b, t)
  BY <1>0, Standing
<1>2. mem' = [mem EXCEPT ![a] = 1]
  BY DEF UseOutgoing
<1>3. /\ Low(t) \in Nat /\ Heap <= Low(t) /\ Low(t) <= t.frame /\ t.frame \in Nat /\ t.frame + 4 <= Ceiling(t)
      /\ a \in Addr
  BY <1>1, Spanned
<1>4. mem' \in [Addr -> Nat] /\ \A x \in Addr : x # a => mem'[x] = mem[x]
  BY <1>1, <1>2, <1>3
<1>5. \A x \in Addr : x >= Floor(b) \/ x = BootArgs \/ x = t.frame + ArgSlot => mem'[x] = mem[x]
  BY <1>1, <1>3, <1>4 DEF ArgSlot, Outgoing, BootArgs, Heap
<1>6. Sound(b, mem') /\ Fits(t, Floor(b), ResultOf(b), ArgsOf(b), mem')
  BY <1>1, <1>5, Written
<1>7. calls' = Append(b, t) /\ sp' = Low(t) /\ phase' = "run" /\ tail_id' = 0 /\ pending' \in Addr
  BY <1>0, <1>1 DEF UseOutgoing
<1> QED BY <1>1, <1>4, <1>6, <1>7, GoesOn

LEMMA VaArgKeeps == ASSUME CallInv, VaArg PROVE CallInv'
<1>0. phase = "run" /\ calls # <<>> /\ tail_id = 0 /\ pending \in Addr
  BY SomeCall DEF VaArg
<1> DEFINE b == Front(calls)
           t == Top
           a == t.frame + ResSlot
           u == [t EXCEPT !.defined = TRUE]
<1>1. /\ Sound(b, mem) /\ Fits(t, Floor(b), ResultOf(b), ArgsOf(b), mem) /\ sp = Low(t) /\ Settled(b, Len(b))
      /\ mem \in [Addr -> Nat] /\ Framed(t) /\ Floor(b) \in Nat /\ Ceiling(t) = Floor(b) /\ t \in CallRec
  BY <1>0, Standing
<1>2. mem' = [mem EXCEPT ![a] = mem[t.args]]
  BY DEF VaArg
<1>3. /\ Low(t) \in Nat /\ Heap <= Low(t) /\ Low(t) <= t.frame /\ t.frame \in Nat /\ t.frame + 4 <= Ceiling(t)
      /\ a \in Addr
  BY <1>1, Spanned
<1>4. mem[t.args] \in Nat
  BY <1>1 DEF CallRec
<1>5. mem' \in [Addr -> Nat] /\ \A x \in Addr : x # a => mem'[x] = mem[x]
  BY <1>1, <1>2, <1>3, <1>4
<1>6. \A x \in Addr : x >= Floor(b) \/ x = BootArgs \/ x = t.frame + ArgSlot => mem'[x] = mem[x]
  BY <1>1, <1>3, <1>5 DEF ArgSlot, ResSlot, BootArgs, Heap
<1>7. Sound(b, mem') /\ Fits(t, Floor(b), ResultOf(b), ArgsOf(b), mem')
  BY <1>1, <1>6, Written
<1>8. /\ u \in CallRec /\ u.fn = t.fn /\ u.frame = t.frame /\ u.args = t.args /\ u.result = t.result
      /\ u.cells = t.cells
  BY <1>1, WithFields
<1>9. calls' = Append(b, u) /\ sp' = sp /\ phase' = "run" /\ tail_id' = 0 /\ pending' \in Addr
  BY <1>0 DEF VaArg
<1> HIDE DEF u
<1>10. Fits(u, Floor(b), ResultOf(b), ArgsOf(b), mem') /\ Low(u) = Low(t)
  BY <1>7, <1>8, Same
<1> QED BY <1>1, <1>5, <1>7, <1>9, <1>10, GoesOn

LEMMA StackRestoreKeeps == ASSUME CallInv, StackRestore PROVE CallInv'
<1>0. phase = "run" /\ calls # <<>> /\ tail_id = 0 /\ pending \in Addr
  BY SomeCall DEF StackRestore
<1> DEFINE b == Front(calls)
           t == Top
<1>1. /\ Sound(b, mem) /\ Fits(t, Floor(b), ResultOf(b), ArgsOf(b), mem) /\ sp = Low(t) /\ Settled(b, Len(b))
      /\ mem \in [Addr -> Nat] /\ Framed(t) /\ Floor(b) \in Nat /\ Ceiling(t) = Floor(b) /\ t \in CallRec
  BY <1>0, Standing
<1>2. t.cells \in Seq(Addr) /\ Len(t.cells) \in Nat
  BY <1>1, LenProperties DEF CallRec
<1> DEFINE P(n) == IF n = 0 THEN t.frame ELSE t.cells[n]
           C(n) == SubSeq(t.cells, 1, n)
<1>3. PICK n \in {k \in 0..Len(t.cells) : t.fn \in ByVal => k > 0} :
        IF P(n) < sp \/ P(n) > t.frame THEN Trap("invalid stack restore")
        ELSE /\ sp' = P(n)
             /\ calls' = Append(b, [t EXCEPT !.cells = C(n)])
             /\ UNCHANGED <<mem, tail_id, pending, phase>>
  BY DEF StackRestore
<1>4. /\ Low(t) \in Nat /\ Heap <= Low(t) /\ Low(t) <= t.frame /\ t.frame \in Nat /\ t.frame + 4 <= Ceiling(t)
  BY <1>1, Spanned
<1>5. \A k \in 1..Len(t.cells) : Low(t) <= t.cells[k] /\ t.cells[k] < t.frame /\ t.cells[k] \in Nat /\ t.cells[k] \in Addr
  <2>1. \A k \in 1..Len(t.cells) : t.cells[k] \in Addr /\ t.cells[k] \in Nat
    BY <1>2, ElementOfSeq, Parameters DEF Addr
  <2> QED BY <1>1, <2>1 DEF Framed
<1>6. n \in Nat /\ n <= Len(t.cells) /\ (n # 0 => n \in 1..Len(t.cells)) /\ (t.fn \in ByVal => n # 0)
  BY <1>2
<1>7. P(n) \in Nat /\ Low(t) <= P(n) /\ P(n) <= t.frame /\ (n # 0 => P(n) = t.cells[n])
  BY <1>4, <1>5, <1>6
<1> HIDE DEF P
<1>8. sp' = P(n) /\ calls' = Append(b, [t EXCEPT !.cells = C(n)]) /\ UNCHANGED <<mem, tail_id, pending, phase>>
  <2>1. ~(P(n) < sp \/ P(n) > t.frame)
    BY <1>1, <1>4, <1>7
  <2> QED BY <1>3, <2>1
<1>9. C(n) \in Seq(Addr) /\ Len(C(n)) = n /\ \A k \in 1..n : C(n)[k] = t.cells[k]
  <2>1. n \in Int /\ 1 \in Int /\ \A k \in 1..n : t.cells[k] \in Addr
    BY <1>5, <1>6
  <2>2. /\ C(n) \in Seq(Addr) /\ Len(C(n)) = IF 1 <= n THEN n - 1 + 1 ELSE 0
        /\ \A k \in 1 .. n - 1 + 1 : C(n)[k] = t.cells[1 + k - 1]
    BY <2>1, SubSeqProperties
  <2> HIDE DEF C
  <2> QED BY <1>6, <2>2
<1> HIDE DEF C
<1> DEFINE u == [t EXCEPT !.cells = C(n)]
<1>10. /\ u \in CallRec /\ u.fn = t.fn /\ u.frame = t.frame /\ u.args = t.args /\ u.result = t.result
       /\ u.cells = C(n)
  BY <1>1, <1>9, WithFields
<1>11. calls' = Append(b, u)
  BY <1>8
<1> HIDE DEF u
<1>12. n = 0 <=> C(n) = <<>>
  BY <1>6, <1>9, EmptySeq
<1>13. Low(u) = P(n) /\ Ceiling(u) = Ceiling(t)
  <2>1. CASE n = 0
    BY <1>10, <1>12, <2>1 DEF Low, Ceiling, P
  <2>2. CASE n # 0
    <3>1. C(n)[n] = t.cells[n]
      BY <1>6, <1>9, <2>2
    <3> QED BY <1>7, <1>9, <1>10, <1>12, <2>2, <3>1 DEF Low, Ceiling
  <2> QED BY <2>1, <2>2
<1>14. Framed(u)
  <2>1. \A k \in 1..n : k \in 1..Len(t.cells)
    BY <1>2, <1>6
  <2>2. ASSUME NEW k \in 1..n, NEW l \in 1..n, k < l PROVE u.cells[l] < u.cells[k]
    BY <1>1, <1>9, <1>10, <2>1, <2>2 DEF Framed
  <2>3. ASSUME NEW k \in 1..n PROVE P(n) <= u.cells[k] /\ u.cells[k] < u.frame
    <3>1. u.cells[k] = t.cells[k] /\ k \in 1..Len(t.cells) /\ n # 0 /\ n \in 1..Len(t.cells)
      BY <1>6, <1>9, <1>10, <2>1
    <3>2. k = n \/ k < n
      BY <1>6
    <3>3. P(n) <= t.cells[k]
      <4>1. CASE k = n
        BY <1>5, <1>7, <3>1, <4>1
      <4>2. CASE k < n
        <5>1. t.cells[n] < t.cells[k]
          BY <1>1, <3>1, <4>2 DEF Framed
        <5> QED BY <1>5, <1>7, <3>1, <5>1
      <4> QED BY <3>2, <4>1, <4>2
    <3> QED BY <1>5, <1>10, <3>1, <3>3
  <2>4. Heap <= Low(u) /\ Low(u) <= u.frame /\ Ceiling(u) <= MemTop
    BY <1>1, <1>4, <1>7, <1>10, <1>13, Spanned DEF Heap
  <2>5. u.fn \in ByVal => u.cells # <<>>
    BY <1>6, <1>10, <1>12
  <2>6. Len(u.cells) = n
    BY <1>9, <1>10
  <2> QED BY <1>10, <1>13, <2>2, <2>3, <2>4, <2>5, <2>6 DEF Framed
<1>15. Fits(u, Floor(b), ResultOf(b), ArgsOf(b), mem)
  BY <1>1, <1>10, <1>13, <1>14 DEF Fits
<1> QED
  <2>1. mem' = mem /\ phase' = "run" /\ tail_id' = 0 /\ pending' \in Addr
    BY <1>0, <1>8
  <2>2. Sound(b, mem') /\ Fits(u, Floor(b), ResultOf(b), ArgsOf(b), mem')
    BY <1>1, <1>15, <2>1
  <2> QED BY <1>1, <1>8, <1>11, <1>13, <2>1, <2>2, GoesOn

\* An entry procedure traps or carves its frame.
LEMMA EnterIs ==
  ASSUME NEW f \in Fns, NEW args, NEW under, NEW m, sp = Floor(under),
         Enter(f, args, ResultOf(under), m, under)
  PROVE  \/ Trap("exhausted")
         \/ /\ Carve(f, under) \in Int => Carve(f, under) >= Heap /\ (f \in ByVal => Carve(f, under) - 1 >= Heap)
            /\ mem' = CopyIn(f, args, under, m) /\ calls' = Append(under, Body(f, args, under))
            /\ sp' = IF f \in ByVal THEN Carve(f, under) - 1 ELSE Carve(f, under)
            /\ phase' = "run" /\ tail_id' = 0 /\ pending' = pending
<1> DEFINE frame == Carve(f, under)
<1>1. frame = sp - FrameSize(f)
  BY DEF Carve
<1>2. CASE frame < Heap \/ (f \in ByVal /\ frame - 1 < Heap)
  BY <1>1, <1>2 DEF Enter
<1>3. CASE ~(frame < Heap \/ (f \in ByVal /\ frame - 1 < Heap))
  <2>1. /\ mem' = CopyIn(f, args, under, m) /\ calls' = Append(under, Body(f, args, under))
        /\ sp' = IF f \in ByVal THEN frame - 1 ELSE frame
        /\ phase' = "run" /\ tail_id' = 0 /\ pending' = pending
    BY <1>1, <1>3 DEF Enter, CopyIn, Body
  <2>2. frame \in Int => frame >= Heap /\ (f \in ByVal => frame - 1 >= Heap)
    <3> HIDE DEF frame
    <3> QED BY <1>3 DEF Heap
  <2> QED BY <2>1, <2>2
<1> QED BY <1>2, <1>3

LEMMA EnterKeeps ==
  ASSUME CallInv, NEW f \in Fns, NEW args \in Addr, NEW under, NEW m \in [Addr -> Nat], Sound(under, m),
         Settled(under, Len(under)), sp = Floor(under), args >= Floor(under) \/ args < Heap,
         f \in Variadic => args = ArgsOf(under),
         f \in ByVal => m[args] \in Addr /\ (m[args] >= Floor(under) \/ m[args] < Heap),
         Enter(f, args, ResultOf(under), m, under)
  PROVE  CallInv'
<1>1. CASE Trap("exhausted")
  BY <1>1, Trapped
<1>2. CASE ~Trap("exhausted")
  <2> DEFINE frame == Carve(f, under)
             new == Body(f, args, under)
             m2 == CopyIn(f, args, under, m)
  <2>0. frame \in Int
    BY Grounded DEF Carve, FrameSize
  <2>1. /\ frame >= Heap /\ (f \in ByVal => frame - 1 >= Heap)
        /\ mem' = m2 /\ calls' = Append(under, new)
        /\ sp' = IF f \in ByVal THEN frame - 1 ELSE frame
        /\ phase' = "run" /\ tail_id' = 0 /\ pending' = pending
    BY <1>2, <2>0, EnterIs
  <2>2. /\ m2 \in [Addr -> Nat] /\ Sound(under, m2) /\ Fits(new, Floor(under), ResultOf(under), ArgsOf(under), m2)
        /\ Low(new) = IF f \in ByVal THEN frame - 1 ELSE frame
    <3>1. CASE f \in ByVal
      BY <2>1, <3>1, CarvedCopy
    <3>2. CASE f \notin ByVal
      BY <2>1, <3>2, CarvedBare
    <3> QED BY <3>1, <3>2
  <2>3. pending' \in Addr
    BY <2>1 DEF CallInv, Control
  <2> HIDE DEF frame, new, m2
  <2> QED BY <2>1, <2>2, <2>3, GoesOn
<1> QED BY <1>1, <1>2

\* The callee's argument packed into the caller's outgoing area.
LEMMA Packed ==
  ASSUME CallInv, phase = "run", NEW v \in Nat
  PROVE  LET under == Append(Front(calls), [Top EXCEPT !.saved = sp])
             m == [mem EXCEPT ![Top.frame + Outgoing] = v]
             args == Top.frame + Outgoing
         IN /\ m \in [Addr -> Nat] /\ Sound(under, m) /\ Settled(under, Len(under)) /\ sp = Floor(under)
            /\ args \in Addr /\ args >= Floor(under) /\ ArgsOf(under) = args /\ m[args] = v
            /\ ResultOf(under) = Top.frame + ResSlot
<1> DEFINE b == Front(calls)
           t == Top
           u == [t EXCEPT !.saved = sp]
           args == t.frame + Outgoing
           m == [mem EXCEPT ![args] = v]
<1>1. /\ Sound(b, mem) /\ Fits(t, Floor(b), ResultOf(b), ArgsOf(b), mem) /\ sp = Low(t) /\ Settled(b, Len(b))
      /\ mem \in [Addr -> Nat] /\ Framed(t) /\ Floor(b) \in Nat /\ Ceiling(t) = Floor(b) /\ t \in CallRec
  BY SomeCall, Standing
<1>2. /\ Low(t) \in Nat /\ Heap <= Low(t) /\ Low(t) <= t.frame /\ t.frame \in Nat /\ t.frame + 4 <= Ceiling(t)
      /\ Ceiling(t) <= MemTop /\ MemTop \in Nat /\ args \in Addr
  BY <1>1, Spanned, Parameters
<1>3. m \in [Addr -> Nat] /\ m[args] = v /\ \A x \in Addr : x # args => m[x] = mem[x]
  BY <1>1, <1>2
<1> HIDE DEF m
<1>4. \A x \in Addr : x >= Floor(b) \/ x = BootArgs \/ x = t.frame + ArgSlot => m[x] = mem[x]
  BY <1>1, <1>2, <1>3 DEF ArgSlot, Outgoing, BootArgs, Heap
<1>5. Sound(b, m) /\ Fits(t, Floor(b), ResultOf(b), ArgsOf(b), m)
  BY <1>1, <1>4, Written
<1>6. sp \in 0..MemTop
  BY <1>1, <1>2
<1>7. /\ u \in CallRec /\ u.fn = t.fn /\ u.frame = t.frame /\ u.args = t.args /\ u.result = t.result
      /\ u.cells = t.cells /\ u.saved = sp
  BY <1>1, <1>6, WithFields
<1> HIDE DEF u
<1>8. Fits(u, Floor(b), ResultOf(b), ArgsOf(b), m) /\ Low(u) = Low(t)
  BY <1>5, <1>7, Same
<1> DEFINE s == Append(b, u)
<1>9. /\ Sound(s, m) /\ Floor(s) = Low(u) /\ ResultOf(s) = u.frame + ResSlot /\ ArgsOf(s) = u.frame + Outgoing
      /\ u.saved = Low(u) => Settled(s, Len(s))
  BY <1>1, <1>5, <1>8, Topped
<1>10. args >= Low(t)
  BY <1>2 DEF Outgoing
<1> HIDE DEF s
<1> QED BY <1>1, <1>2, <1>3, <1>7, <1>8, <1>9, <1>10 DEF s, u, m

LEMMA CallKeeps == ASSUME CallInv, Call PROVE CallInv'
<1>0. phase = "run" /\ calls # <<>>
  BY SomeCall DEF Call
<1>1. PICK f \in Fns \cup Pointers :
        IF Dispatch(f) = 0 THEN Trap("invalid pointer")
        ELSE \E v \in Arguments(Dispatch(f)) :
               Enter(Dispatch(f), Top.frame + Outgoing, Top.frame + ResSlot,
                     [mem EXCEPT ![Top.frame + Outgoing] = v], Append(Front(calls), [Top EXCEPT !.saved = sp]))
  BY DEF Call
<1>2. CASE Dispatch(f) = 0
  BY <1>1, <1>2, Trapped
<1>3. CASE Dispatch(f) # 0
  <2> DEFINE under == Append(Front(calls), [Top EXCEPT !.saved = sp])
             args == Top.frame + Outgoing
  <2>1. f \in Fns /\ Dispatch(f) = f
    BY <1>3, DispatchFinds, Parameters
  <2>2. PICK v \in Arguments(f) : Enter(f, args, Top.frame + ResSlot, [mem EXCEPT ![args] = v], under)
    BY <1>1, <1>3, <2>1
  <2> DEFINE m == [mem EXCEPT ![args] = v]
  <2>3. v \in Nat /\ (f \in ByVal => v \in Addr /\ v >= Low(Top))
    <3>1. v \in Nat
      BY <1>0, <2>1, Named
    <3>2. f \in ByVal => v \in ToSet(Top.cells)
      BY DEF Arguments
    <3>3. f \in ByVal => v \in Addr /\ Low(Top) <= v
      BY <1>0, <3>2, Named
    <3>4. Low(Top) \in Nat
      BY <1>0, Standing, Spanned
    <3> QED BY <3>1, <3>3, <3>4
  <2>4. /\ m \in [Addr -> Nat] /\ Sound(under, m) /\ Settled(under, Len(under)) /\ sp = Floor(under)
        /\ args \in Addr /\ args >= Floor(under) /\ ArgsOf(under) = args /\ m[args] = v
        /\ ResultOf(under) = Top.frame + ResSlot
    BY <1>0, <2>3, Packed
  <2>5. sp = Low(Top)
    BY <1>0, Standing
  <2>6. Enter(f, args, ResultOf(under), m, under)
    BY <2>2, <2>4
  <2> HIDE DEF m, under, args
  <2>7. f \in ByVal => m[args] \in Addr /\ (m[args] >= Floor(under) \/ m[args] < Heap)
    BY <2>3, <2>4, <2>5
  <2> QED BY <2>1, <2>4, <2>6, <2>7, EnterKeeps
<1> QED BY <1>2, <1>3

LEMMA TailStepKeeps == ASSUME CallInv, TailStep PROVE CallInv'
<1>1. phase = "left" /\ tail_id # 0
  BY DEF TailStep
<1>2. /\ tail_id \in Fns /\ tail_id \notin Variadic /\ (tail_id \in ByVal => mem[TailArgs] = TailCopy)
      /\ pending = ResultOf(calls) /\ Settled(calls, Len(calls)) /\ Sound(calls, mem) /\ sp = Floor(calls)
      /\ mem \in [Addr -> Nat]
  BY <1>1 DEF CallInv, Control
<1>3. Dispatch(tail_id) = tail_id
  BY <1>2, DispatchFinds, Parameters
<1>4. Enter(tail_id, TailArgs, ResultOf(calls), mem, calls)
  BY <1>1, <1>2, <1>3 DEF TailStep
<1>5. TailArgs \in Addr /\ TailArgs < Heap /\ TailCopy \in Addr /\ TailCopy < Heap
  BY Parameters DEF Addr, TailArgs, TailCopy, Heap, FrameSize
<1> QED BY <1>2, <1>4, <1>5, EnterKeeps

LEMMA FinishKeeps == ASSUME CallInv, Finish PROVE CallInv'
<1>1. /\ phase = "left" /\ tail_id = 0 /\ UNCHANGED <<mem, sp, tail_id, calls, pending>>
      /\ phase' = IF calls = <<>> THEN "done" ELSE "run"
  BY DEF Finish
<1>2. Control'
  BY <1>1 DEF CallInv, Control, Phases
<1>3. Sound(calls', mem') /\ sp' = Floor(calls') /\ Settled(calls', Len(calls') - 1) /\ mem' \in [Addr -> Nat]
  BY <1>1 DEF CallInv
<1> QED BY <1>2, <1>3 DEF CallInv

\* A body has ended, and its frame with it.
LEMMA Left ==
  ASSUME Sound(calls', mem'), Settled(calls', Len(calls')), sp' = Floor(calls'), mem' \in [Addr -> Nat],
         pending' = ResultOf(calls'), phase' = "left", tail_id' \in {0} \cup (Fns \ Variadic),
         tail_id' \in ByVal => mem'[TailArgs] = TailCopy
  PROVE  CallInv'
<1>1. Settled(calls', Len(calls') - 1)
  <2>1. Len(calls') \in Nat
    BY Grounded
  <2>2. \A i \in 1..Len(calls') - 1 : i \in 1..Len(calls')
    BY <2>1
  <2> QED BY <2>2 DEF Settled
<1>2. pending' \in Addr
  BY Grounded
<1>3. Control'
  BY <1>2 DEF Control, Phases
<1> QED BY <1>1, <1>3 DEF CallInv

LEMMA MustTailKeeps == ASSUME CallInv, MustTail PROVE CallInv'
<1>0. phase = "run" /\ calls # <<>>
  BY SomeCall DEF MustTail
<1> DEFINE b == Front(calls)
           t == Top
<1>1. /\ Sound(b, mem) /\ Fits(t, Floor(b), ResultOf(b), ArgsOf(b), mem) /\ sp = Low(t) /\ Settled(b, Len(b))
      /\ mem \in [Addr -> Nat] /\ Framed(t) /\ Floor(b) \in Nat /\ Ceiling(t) = Floor(b)
  BY <1>0, Standing
<1>2. PICK f \in Fns \ Variadic : \E v \in Arguments(f) : mem' = TailArguments(f, v) /\ tail_id' = f
  BY DEF MustTail
<1>3. PICK v \in Arguments(f) : mem' = TailArguments(f, v) /\ tail_id' = f
  BY <1>2
<1>4. /\ Low(t) \in Nat /\ Heap <= Low(t) /\ Low(t) <= t.frame /\ t.frame \in Nat /\ t.frame + 4 <= Ceiling(t)
      /\ t.frame \in Addr
  BY <1>1, Spanned
<1>5. TailArgs \in Addr /\ TailCopy \in Addr /\ TailCopy \in Nat /\ t.frame # TailArgs /\ TailArgs # TailCopy
  BY <1>4, Parameters DEF Addr, TailArgs, TailCopy, Heap, FrameSize
<1>6. /\ mem' \in [Addr -> Nat] /\ \A x \in Addr : x \notin {TailArgs, TailCopy, t.frame} => mem'[x] = mem[x]
      /\ f \in ByVal => mem'[TailArgs] = TailCopy
  <2>1. CASE f \in ByVal
    <3>1. v \in ToSet(t.cells)
      BY <2>1 DEF Arguments
    <3>2. v \in Addr
      BY <1>0, <3>1, Named
    <3>3. mem[v] \in Nat
      BY <1>1, <3>2
    <3>4. mem' = [mem EXCEPT ![TailCopy] = mem[v], ![TailArgs] = TailCopy, ![t.frame] = 0]
      BY <1>3, <2>1 DEF TailArguments
    <3> QED BY <1>1, <1>4, <1>5, <3>3, <3>4
  <2>2. CASE f \notin ByVal
    <3>1. v \in Nat
      BY <1>0, Named
    <3>2. mem' = [mem EXCEPT ![TailArgs] = v, ![t.frame] = 0]
      BY <1>3, <2>2 DEF TailArguments
    <3> QED BY <1>1, <1>4, <1>5, <2>2, <3>1, <3>2
  <2> QED BY <2>1, <2>2
<1>7. \A x \in Addr : x >= Floor(b) \/ x = BootArgs => mem'[x] = mem[x]
  BY <1>1, <1>4, <1>6 DEF TailArgs, TailCopy, BootArgs, Heap
<1>8. Sound(b, mem')
  BY <1>1, <1>7, Untouched
<1>9. calls' = b /\ sp' = Floor(b) /\ pending' = ResultOf(b) /\ phase' = "left"
  BY <1>1 DEF MustTail, Leave, Ceiling, Fits
<1>10. /\ Sound(calls', mem') /\ Settled(calls', Len(calls')) /\ sp' = Floor(calls') /\ pending' = ResultOf(calls')
  BY <1>1, <1>8, <1>9
<1>11. tail_id' \in {0} \cup (Fns \ Variadic) /\ (tail_id' \in ByVal => mem'[TailArgs] = TailCopy)
  BY <1>3, <1>6
<1> QED BY <1>6, <1>9, <1>10, <1>11, Left

\* The caller's result slot is written after its frame is again the last one.
LEMMA RetWrites ==
  ASSUME CallInv, Ret
  PROVE  /\ phase = "run" /\ calls # <<>> /\ tail_id = 0 /\ Top.frame \in Addr
         /\ ResultOf(Front(calls)) \in Addr /\ Top.frame # ResultOf(Front(calls)) /\ Top.result = ResultOf(Front(calls))
         /\ \E v \in Sources(Top) :
              /\ mem' = [mem EXCEPT ![ResultOf(Front(calls))] = v, ![Top.frame] = 0]
              /\ mem'[ResultOf(Front(calls))] = v
         /\ mem' \in [Addr -> Nat]
         /\ \A x \in Addr : x # ResultOf(Front(calls)) /\ x # Top.frame => mem'[x] = mem[x]
         /\ Heap <= Top.frame /\ Top.frame < Floor(Front(calls)) /\ sp' = Floor(Front(calls))
<1>0. phase = "run" /\ calls # <<>> /\ tail_id = 0
  BY SomeCall DEF Ret
<1> DEFINE b == Front(calls)
           t == Top
           r == ResultOf(b)
<1>1. /\ Sound(b, mem) /\ Fits(t, Floor(b), ResultOf(b), ArgsOf(b), mem) /\ mem \in [Addr -> Nat] /\ Framed(t)
      /\ Floor(b) \in Nat /\ Ceiling(t) = Floor(b)
  BY <1>0, Standing
<1>2. /\ Low(t) \in Nat /\ Heap <= Low(t) /\ Low(t) <= t.frame /\ t.frame \in Nat /\ t.frame + 4 <= Ceiling(t)
      /\ t.frame \in Addr
  BY <1>1, Spanned
<1>3. t.result = r /\ r \in Addr /\ (r >= Floor(b) \/ r = BootResult)
  BY <1>1, Grounded DEF Fits
<1>4. t.frame # r /\ Heap <= t.frame /\ t.frame < Floor(b)
  BY <1>1, <1>2, <1>3 DEF BootResult, Heap
<1>5. PICK v \in Sources(t) : mem' = [mem EXCEPT ![t.result] = v, ![t.frame] = 0]
  BY DEF Ret
<1>6. v \in Nat
  BY <1>0, Named
<1>7. mem' = [mem EXCEPT ![r] = v, ![t.frame] = 0]
  BY <1>3, <1>5
<1> HIDE DEF r, t
<1>8. /\ mem' \in [Addr -> Nat] /\ mem'[r] = v /\ \A x \in Addr : x # r /\ x # t.frame => mem'[x] = mem[x]
  BY <1>1, <1>2, <1>3, <1>4, <1>6, <1>7
<1>9. sp' = Floor(b)
  BY <1>1 DEF Ret, Leave, Ceiling, t
<1> QED BY <1>0, <1>2, <1>3, <1>4, <1>7, <1>8, <1>9 DEF t, r

LEMMA RetKeeps == ASSUME CallInv, Ret PROVE CallInv'
<1> DEFINE b == Front(calls)
           r == ResultOf(b)
           q == Top.frame
<1>1. /\ phase = "run" /\ calls # <<>> /\ tail_id = 0 /\ q \in Addr /\ r \in Addr /\ Top.result = r
      /\ mem' \in [Addr -> Nat] /\ \A x \in Addr : x # r /\ x # q => mem'[x] = mem[x]
      /\ Heap <= q /\ q < Floor(b) /\ sp' = Floor(b)
  BY RetWrites
<1>2. Sound(b, mem) /\ Settled(b, Len(b)) /\ mem \in [Addr -> Nat] /\ Floor(b) \in Nat /\ b \in Seq(CallRec)
  BY <1>1, Standing
<1>3. calls' = Delivered(b) /\ pending' = r /\ phase' = "left" /\ tail_id' = 0
  BY <1>1 DEF Ret
<1>4. tail_id' \in {0} \cup (Fns \ Variadic) /\ (tail_id' \in ByVal => mem'[TailArgs] = TailCopy)
  BY <1>3, Parameters
<1> HIDE DEF r, q
<1>5. CASE b = <<>>
  <2>1. calls' = b /\ r = BootResult
    BY <1>3, <1>5 DEF Delivered, r, ResultOf
  <2>2. \A x \in Addr : x >= Floor(b) \/ x = BootArgs => mem'[x] = mem[x]
    BY <1>1, <1>2, <2>1, Grounded DEF BootResult, BootArgs, Heap, Addr
  <2>3. Sound(b, mem')
    BY <1>2, <2>2, Untouched
  <2>4. Sound(calls', mem') /\ Settled(calls', Len(calls')) /\ sp' = Floor(calls') /\ pending' = ResultOf(calls')
    BY <1>1, <1>2, <1>3, <2>1, <2>3 DEF r
  <2> QED BY <1>1, <1>3, <1>4, <2>4, Left
<1>6. CASE b # <<>>
  <2> DEFINE bb == Front(b)
             c == Last(b)
             u == [c EXCEPT !.defined = TRUE]
  <2>1. /\ bb \in Seq(CallRec) /\ c \in CallRec /\ b = Append(bb, c) /\ Len(b) \in Nat \ {0} /\ Len(bb) = Len(b) - 1
        /\ c = b[Len(b)] /\ \A i \in 1..Len(b) - 1 : bb[i] = b[i]
    BY <1>2, <1>6, Peeled
  <2>2. Floor(b) = Low(c) /\ r = c.frame + ResSlot
    BY <1>6, <2>1 DEF Floor, ResultOf, r
  <2>3. Sound(bb, mem) /\ Fits(c, Floor(bb), ResultOf(bb), ArgsOf(bb), mem)
    <3>1. Sound(Append(bb, c), mem)
      BY <1>2, <2>1
    <3> QED BY <2>1, <3>1, Uncovered
  <2>4. /\ Low(c) \in Nat /\ Heap <= Low(c) /\ Low(c) <= c.frame /\ c.frame \in Nat /\ c.frame + 4 <= Ceiling(c)
        /\ Ceiling(c) = Floor(bb) /\ Floor(bb) \in Nat
    BY <2>3, Spanned, Grounded DEF Fits
  <2>5. \A x \in Addr : x >= Floor(bb) \/ x = BootArgs \/ x = c.frame + ArgSlot => x # r /\ x # q
    BY <1>1, <2>2, <2>4 DEF Addr, ArgSlot, ResSlot, BootArgs, Heap
  <2>6. \A x \in Addr : x >= Floor(bb) \/ x = BootArgs \/ x = c.frame + ArgSlot => mem'[x] = mem[x]
    BY <1>1, <2>5
  <2>7. Sound(bb, mem') /\ Fits(c, Floor(bb), ResultOf(bb), ArgsOf(bb), mem')
    BY <2>3, <2>6, Written
  <2>8. /\ u \in CallRec /\ u.fn = c.fn /\ u.frame = c.frame /\ u.args = c.args /\ u.result = c.result
        /\ u.cells = c.cells /\ u.saved = c.saved
    BY <2>1, WithFields
  <2>9. calls' = Append(bb, u)
    BY <1>3, <1>6 DEF Delivered
  <2> HIDE DEF u, c, bb
  <2>10. Fits(u, Floor(bb), ResultOf(bb), ArgsOf(bb), mem') /\ Low(u) = Low(c)
    BY <2>7, <2>8, Same
  <2>11. c.saved = Low(c) /\ Settled(bb, Len(bb))
    <3>1. Len(b) \in 1..Len(b) /\ \A i \in 1..Len(bb) : i \in 1..Len(b) - 1 /\ i \in 1..Len(b)
      BY <2>1
    <3> QED BY <1>2, <2>1, <3>1 DEF Settled
  <2> DEFINE s == Append(bb, u)
  <2>12. /\ Sound(s, mem') /\ Floor(s) = Low(u) /\ ResultOf(s) = u.frame + ResSlot
         /\ u.saved = Low(u) => Settled(s, Len(s))
    BY <2>7, <2>10, <2>11, Topped
  <2> HIDE DEF s
  <2>13. calls' = s
    BY <2>9 DEF s
  <2>14. Sound(calls', mem') /\ Settled(calls', Len(calls')) /\ sp' = Floor(calls') /\ pending' = ResultOf(calls')
    BY <1>1, <1>3, <2>2, <2>8, <2>10, <2>11, <2>12, <2>13
  <2> QED BY <1>1, <1>3, <1>4, <2>14, Left
<1> QED BY <1>5, <1>6

\* The boot script's call of main.
LEMMA InitOK == Init => CallInv
<1> SUFFICES ASSUME Init PROVE CallInv
  OBVIOUS
<1> DEFINE frame == MemTop - FrameSize(Main)
           c == [fn |-> Main, frame |-> frame, args |-> BootArgs, result |-> BootResult,
                 defined |-> FALSE, cells |-> <<>>, saved |-> 0]
<1>1. PICK d \in Data :
        /\ mem = [a \in Addr |-> IF a \in {BootArgs, frame + ArgSlot} THEN d ELSE IF a = frame THEN 1 ELSE 0]
        /\ sp = frame /\ tail_id = 0 /\ calls = <<c>> /\ pending = 0 /\ phase = "run"
  BY DEF Init
<1>2. /\ Main \in Fns /\ Main \notin ByVal /\ d \in Nat /\ MemTop \in Nat /\ FrameSize(Main) = 4
      /\ Heap + FrameSize(Main) <= MemTop
  BY Parameters DEF FrameSize
<1>3. /\ frame \in Nat /\ frame >= Heap /\ frame + 4 = MemTop /\ frame \in Addr /\ frame + ArgSlot \in Addr
      /\ BootArgs \in Addr /\ BootResult \in Addr /\ 0 \in Addr /\ frame # BootArgs /\ frame # frame + ArgSlot
  BY <1>2 DEF Addr, ArgSlot, BootArgs, BootResult, Heap
<1> HIDE DEF frame
<1>4. mem \in [Addr -> Nat] /\ mem[BootArgs] = d /\ mem[frame + ArgSlot] = d
  BY <1>1, <1>2, <1>3
<1>5. c.cells = <<>> /\ c.frame = frame /\ c.fn = Main /\ c.args = BootArgs /\ c.result = BootResult
  OBVIOUS
<1>6. c \in CallRec
  <2>1. <<>> \in Seq(Addr) /\ 0 \in 0..MemTop /\ FALSE \in BOOLEAN
    BY <1>2, EmptySeq
  <2> QED BY <1>2, <1>3, <2>1 DEF CallRec
<1> HIDE DEF c
<1>7. Low(c) = frame /\ Ceiling(c) = MemTop
  BY <1>2, <1>3, <1>5 DEF Low, Ceiling
<1>8. Framed(c)
  <2>1. Len(c.cells) = 0
    BY <1>5, EmptySeq
  <2> QED BY <1>2, <1>3, <1>5, <1>6, <1>7, <2>1 DEF Framed
<1>9. Fits(c, MemTop, BootResult, BootArgs, mem)
  BY <1>4, <1>5, <1>7, <1>8 DEF Fits
<1>10. <<c>> \in Seq(CallRec) /\ Len(<<c>>) = 1 /\ <<c>>[1] = c /\ <<c>> # <<>>
  BY <1>6
<1>11. Sound(<<c>>, mem)
  <2>1. \A i \in 1..1 : i = 1
    OBVIOUS
  <2> QED BY <1>9, <1>10, <2>1 DEF Sound
<1>12. Floor(<<c>>) = frame /\ Settled(<<c>>, Len(<<c>>) - 1)
  BY <1>7, <1>10 DEF Floor, Settled
<1>13. Control
  BY <1>1, <1>3, <1>10, Parameters DEF Control, Phases
<1> QED BY <1>1, <1>4, <1>11, <1>12, <1>13 DEF CallInv

THEOREM CallInvariant == Spec => []CallInv
<1>1. ASSUME CallInv, [Next]_vars PROVE CallInv'
  <2>1. CASE UNCHANGED vars
    <3>1. UNCHANGED <<mem, sp, tail_id, calls, pending, phase>>
      BY <2>1 DEF vars
    <3>2. Control'
      BY <1>1, <3>1 DEF CallInv, Control
    <3> QED BY <1>1, <3>1, <3>2 DEF CallInv
  <2> QED BY <1>1, <2>1, CallKeeps, AllocaKeeps, StoreKeeps, StackRestoreKeeps, UseOutgoingKeeps, VaArgKeeps,
             RetKeeps, MustTailKeeps, TailStepKeeps, FinishKeeps DEF Next
<1> QED BY <1>1, InitOK, PTL DEF Spec

-----------------------------------------------------------------------------
(* What the invariant says of the stack.                                   *)

LEMMA OwnedSpan ==
  ASSUME NEW c, Framed(c)
  PROVE  /\ \A a \in Owned(c) : a \in Nat /\ Low(c) <= a /\ a < Ceiling(c)
         /\ Cardinality(Owned(c)) = FrameSize(c.fn) + Len(c.cells)
<1> DEFINE n == Len(c.cells)
           frame == c.frame .. c.frame + FrameSize(c.fn) - 1
           objects == ToSet(c.cells)
<1>1. /\ c \in CallRec /\ Low(c) \in Nat /\ Low(c) <= c.frame /\ c.frame \in Nat /\ FrameSize(c.fn) \in {4, 5}
      /\ Ceiling(c) = c.frame + FrameSize(c.fn)
  BY Spanned DEF Ceiling
<1>2. c.cells \in Seq(Addr) /\ n \in Nat /\ c.cells \in [1..n -> Addr] /\ DOMAIN c.cells = 1..n
  <2>1. c.cells \in Seq(Addr)
    BY <1>1 DEF CallRec
  <2> QED BY <2>1, LenProperties
<1>3. \A k \in 1..n : Low(c) <= c.cells[k] /\ c.cells[k] < c.frame /\ c.cells[k] \in Nat
  BY <1>2, Parameters DEF Framed, Addr
<1>4. objects = {c.cells[k] : k \in 1..n}
  BY <1>2 DEF ToSet
<1>5. \A a \in frame : a \in Nat /\ c.frame <= a /\ a < Ceiling(c)
  BY <1>1
<1>6. \A a \in objects : a \in Nat /\ Low(c) <= a /\ a < c.frame
  BY <1>3, <1>4
<1>7. \A a \in Owned(c) : a \in frame \/ a \in objects
  BY DEF Owned
<1>8. \A a \in Owned(c) : a \in Nat /\ Low(c) <= a /\ a < Ceiling(c)
  <2> HIDE DEF frame, objects
  <2> QED BY <1>1, <1>5, <1>6, <1>7
<1>9. IsFiniteSet(objects) /\ Cardinality(objects) = n
  <2>1. \A k, l \in 1..n : k # l => c.cells[k] # c.cells[l]
    <3>1. ASSUME NEW k \in 1..n, NEW l \in 1..n, k < l PROVE c.cells[k] # c.cells[l]
      BY <1>3, <3>1 DEF Framed
    <3>2. ASSUME NEW k \in 1..n, NEW l \in 1..n, k # l PROVE k < l \/ l < k
      BY <1>2, <3>2
    <3> QED BY <3>1, <3>2
  <2>2. c.cells \in Bijection(1..n, objects)
    BY <1>2, <1>4, <2>1 DEF Bijection, Injection, Surjection, IsInjective
  <2>3. ExistsBijection(1..n, objects)
    BY <2>2 DEF ExistsBijection
  <2>4. IsFiniteSet(1..n) /\ Cardinality(1..n) = n
    BY <1>2, FS_Interval
  <2> QED BY <2>3, <2>4, FS_Bijection
<1>10. IsFiniteSet(frame) /\ Cardinality(frame) = FrameSize(c.fn)
  <2> DEFINE e == c.frame + FrameSize(c.fn) - 1
  <2>1. c.frame \in Int /\ e \in Int /\ c.frame <= e /\ e - c.frame + 1 = FrameSize(c.fn)
    BY <1>1
  <2> HIDE DEF e
  <2>2. IsFiniteSet(c.frame..e) /\ Cardinality(c.frame..e) = IF c.frame > e THEN 0 ELSE e - c.frame + 1
    BY <2>1, FS_Interval
  <2> QED BY <2>1, <2>2 DEF e
<1>11. frame \cap objects = {}
  <2> HIDE DEF frame, objects
  <2>1. \A a \in frame : a \notin objects
    BY <1>1, <1>5, <1>6
  <2> QED BY <2>1
<1>12. Cardinality(frame \cup objects) = FrameSize(c.fn) + n
  <2> HIDE DEF frame, objects, n
  <2>1. Cardinality(frame \cup objects) = Cardinality(frame) + Cardinality(objects) - Cardinality(frame \cap objects)
    BY <1>9, <1>10, FS_Union
  <2>2. Cardinality(frame \cap objects) = 0
    BY <1>11, FS_EmptySet
  <2>3. Cardinality(frame \cup objects) = FrameSize(c.fn) + n - 0
    BY <1>9, <1>10, <2>1, <2>2
  <2>4. FrameSize(c.fn) + n - 0 = FrameSize(c.fn) + n
    BY <1>1, <1>2
  <2> QED BY <2>3, <2>4
<1> QED BY <1>8, <1>12 DEF Owned

\* For any table of functions, any memory and any depth: every call's frame and
\* objects lie below its callers' and above the stack pointer, no two share a
\* unit, and a call that is over leaves the stack pointer where its caller had it
\* (frame_enter, frame_leave, alloca, the entry procedures' tail loop).
THEOREM StackNests == Spec => []StackDisciplined
<1>1. ASSUME CallInv PROVE StackDisciplined
  <2>1. /\ Sound(calls, mem) /\ sp = Floor(calls) /\ mem \in [Addr -> Nat] /\ Control
    BY <1>1 DEF CallInv
  <2>2. /\ calls \in Seq(CallRec) /\ Floor(calls) \in Nat /\ Heap <= Floor(calls) /\ Floor(calls) <= MemTop
        /\ \A i \in 1..Len(calls) : Framed(calls[i]) /\ Floor(calls) <= Low(calls[i])
        /\ DOMAIN calls = 1..Len(calls)
    BY <2>1, Grounded, LenProperties
  <2>3. TypeOK
    <3>1. sp \in Heap..MemTop
      BY <2>1, <2>2, Parameters DEF Heap
    <3> QED BY <2>1, <3>1 DEF TypeOK, Control, Phases
  <2>4. ASSUME NEW i \in DOMAIN calls, NEW j \in DOMAIN calls, i < j, NEW a \in Owned(calls[i]), NEW b \in Owned(calls[j])
        PROVE  b < a
    <3>1. Framed(calls[i]) /\ Framed(calls[j])
      BY <2>2
    <3>2. a \in Nat /\ Low(calls[i]) <= a /\ b \in Nat /\ b < Ceiling(calls[j])
      BY <3>1, OwnedSpan
    <3>3. Ceiling(calls[j]) <= Low(calls[i])
      BY <2>1, <2>2, <2>4 DEF Sound
    <3>4. Low(calls[i]) \in Nat /\ Ceiling(calls[j]) \in Nat
      BY <3>1, Spanned
    <3> QED BY <3>2, <3>3, <3>4
  <2>5. ASSUME NEW i \in DOMAIN calls
        PROVE  /\ \A a \in Owned(calls[i]) : sp <= a
               /\ Cardinality(Owned(calls[i])) = FrameSize(calls[i].fn) + Len(calls[i].cells)
    <3>1. Framed(calls[i]) /\ Floor(calls) <= Low(calls[i])
      BY <2>2
    <3>2. Low(calls[i]) \in Nat
      BY <3>1, Spanned
    <3>3. \A a \in Owned(calls[i]) : a \in Nat /\ Low(calls[i]) <= a
      BY <3>1, OwnedSpan
    <3>4. Cardinality(Owned(calls[i])) = FrameSize(calls[i].fn) + Len(calls[i].cells)
      BY <3>1, OwnedSpan
    <3> QED BY <2>1, <2>2, <3>1, <3>2, <3>3, <3>4
  <2>6. StackOrdered
    BY <2>4, <2>5 DEF StackOrdered
  <2>7. SpRestored
    <3>1. CASE calls = <<>>
      BY <2>1, <3>1 DEF SpRestored, Floor
    <3>2. CASE calls # <<>>
      BY <1>1, <3>2, Standing DEF SpRestored, Top
    <3> QED BY <3>1, <3>2
  <2> QED BY <2>3, <2>6, <2>7 DEF StackDisciplined
<1> QED BY <1>1, CallInvariant, PTL

-----------------------------------------------------------------------------
(* What a stack means (Activations): arguments, results and objects.       *)

View(cs, m) == [i \in DOMAIN cs |-> ActivationOf(cs[i], m)]
Cells(c, m) == [k \in DOMAIN c.cells |-> m[c.cells[k]]]
Meanings(m) == {ActivationOf(c, m) : c \in CallRec}

LEMMA CellsView ==
  ASSUME NEW c \in CallRec, NEW m \in [Addr -> Nat]
  PROVE  /\ Cells(c, m) \in Seq(Nat) /\ Len(c.cells) \in Nat /\ Len(Cells(c, m)) = Len(c.cells)
         /\ \A k \in 1..Len(c.cells) : Cells(c, m)[k] = m[c.cells[k]] /\ c.cells[k] \in Addr
         /\ DOMAIN Cells(c, m) = 1..Len(c.cells)
         /\ ToSet(Cells(c, m)) = {m[x] : x \in ToSet(c.cells)}
<1> DEFINE n == Len(c.cells)
<1>1. c.cells \in Seq(Addr)
  BY DEF CallRec
<1>2. n \in Nat /\ DOMAIN c.cells = 1..n /\ \A k \in 1..n : c.cells[k] \in Addr
  BY <1>1, LenProperties, ElementOfSeq
<1> HIDE DEF n
<1>3. Cells(c, m) = [k \in 1..n |-> m[c.cells[k]]]
  BY <1>2 DEF Cells
<1>4. Cells(c, m) \in [1..n -> Nat]
  BY <1>2, <1>3
<1>5. Cells(c, m) \in Seq(Nat) /\ Len(Cells(c, m)) = n
  BY <1>2, <1>4
<1>6. ToSet(Cells(c, m)) = {m[x] : x \in ToSet(c.cells)}
  BY <1>2, <1>3 DEF ToSet
<1> QED BY <1>2, <1>3, <1>5, <1>6 DEF n

\* Two memories that agree on what a call owns give it the same meaning.
LEMMA SameMeaning ==
  ASSUME NEW c \in CallRec, NEW u \in CallRec, NEW m, NEW m2, u.fn = c.fn, u.frame = c.frame, u.cells = c.cells,
         u.defined = c.defined, m2[c.frame + ArgSlot] = m[c.frame + ArgSlot],
         m2[c.frame + ResSlot] = m[c.frame + ResSlot],
         \A k \in DOMAIN c.cells : m2[c.cells[k]] = m[c.cells[k]]
  PROVE  ActivationOf(u, m2) = ActivationOf(c, m)
<1>1. [k \in DOMAIN u.cells |-> m2[u.cells[k]]] = [k \in DOMAIN c.cells |-> m[c.cells[k]]]
  OBVIOUS
<1> QED BY <1>1 DEF ActivationOf

LEMMA SameView ==
  ASSUME NEW b, NEW m, NEW m2, Sound(b, m), \A a \in Addr : a >= Floor(b) => m2[a] = m[a]
  PROVE  View(b, m2) = View(b, m)
<1>1. /\ b \in Seq(CallRec) /\ DOMAIN b = 1..Len(b) /\ Floor(b) \in Nat
      /\ \A i \in 1..Len(b) : Framed(b[i]) /\ Floor(b) <= Low(b[i])
  BY Grounded, LenProperties
<1>2. ASSUME NEW i \in DOMAIN b PROVE ActivationOf(b[i], m2) = ActivationOf(b[i], m)
  <2> DEFINE c == b[i]
  <2>1. Framed(c) /\ Floor(b) <= Low(c) /\ c \in CallRec
    BY <1>1 DEF Framed
  <2> HIDE DEF c
  <2>2. /\ Low(c) \in Nat /\ Low(c) <= c.frame /\ c.frame \in Nat /\ c.frame + ArgSlot \in Addr
        /\ c.frame + ResSlot \in Addr
    BY <2>1, Spanned
  <2>3. c.frame + ArgSlot >= Floor(b) /\ c.frame + ResSlot >= Floor(b)
    BY <1>1, <2>1, <2>2 DEF ArgSlot, ResSlot
  <2>4. ASSUME NEW k \in DOMAIN c.cells PROVE m2[c.cells[k]] = m[c.cells[k]]
    <3>1. c.cells \in Seq(Addr)
      BY <2>1 DEF CallRec
    <3>2. k \in 1..Len(c.cells) /\ c.cells[k] \in Addr
      BY <3>1, LenProperties, ElementOfSeq
    <3>3. Low(c) <= c.cells[k] /\ c.cells[k] \in Nat
      BY <2>1, <3>2, Parameters DEF Framed, Addr
    <3> QED BY <1>1, <2>1, <2>2, <3>2, <3>3
  <2>5. m2[c.frame + ArgSlot] = m[c.frame + ArgSlot] /\ m2[c.frame + ResSlot] = m[c.frame + ResSlot]
    BY <2>2, <2>3
  <2>6. ActivationOf(c, m2) = ActivationOf(c, m)
    BY <2>1, <2>4, <2>5, SameMeaning
  <2> QED BY <2>6 DEF c
<1> QED BY <1>2 DEF View

LEMMA ViewOfPushed ==
  ASSUME NEW b \in Seq(CallRec), NEW t \in CallRec, NEW m
  PROVE  /\ View(b, m) \in Seq(Meanings(m)) /\ ActivationOf(t, m) \in Meanings(m) /\ Len(View(b, m)) = Len(b)
         /\ View(Append(b, t), m) = Append(View(b, m), ActivationOf(t, m))
<1>1. ASSUME NEW s \in Seq(CallRec)
      PROVE  /\ View(s, m) \in Seq(Meanings(m)) /\ Len(View(s, m)) = Len(s)
             /\ \A i \in 1..Len(s) : View(s, m)[i] = ActivationOf(s[i], m)
  <2>1. Len(s) \in Nat /\ DOMAIN s = 1..Len(s) /\ \A i \in 1..Len(s) : s[i] \in CallRec
    BY LenProperties, ElementOfSeq
  <2>2. View(s, m) \in [1..Len(s) -> Meanings(m)]
    BY <2>1 DEF View, Meanings
  <2>3. View(s, m) \in Seq(Meanings(m)) /\ Len(View(s, m)) = Len(s)
    <3> HIDE DEF View, Meanings
    <3> QED BY <2>1, <2>2
  <2> QED BY <2>1, <2>3 DEF View
<1>2. ActivationOf(t, m) \in Meanings(m)
  BY DEF Meanings
<1> DEFINE s == Append(b, t)
           u == Append(View(b, m), ActivationOf(t, m))
<1>3. /\ s \in Seq(CallRec) /\ Len(b) \in Nat /\ Len(s) = Len(b) + 1 /\ s[Len(b) + 1] = t
      /\ \A i \in 1..Len(b) : s[i] = b[i]
  BY Pushed
<1>4. /\ View(b, m) \in Seq(Meanings(m)) /\ Len(View(b, m)) = Len(b)
      /\ \A i \in 1..Len(b) : View(b, m)[i] = ActivationOf(b[i], m)
  BY <1>1
<1>5. /\ u \in Seq(Meanings(m)) /\ Len(u) = Len(b) + 1 /\ u[Len(b) + 1] = ActivationOf(t, m)
      /\ \A i \in 1..Len(b) : u[i] = View(b, m)[i]
  <2> DEFINE w == View(b, m)
  <2> HIDE DEF w
  <2>1. /\ Append(w, ActivationOf(t, m)) \in Seq(Meanings(m)) /\ Len(Append(w, ActivationOf(t, m))) = Len(w) + 1
        /\ Append(w, ActivationOf(t, m))[Len(w) + 1] = ActivationOf(t, m)
        /\ \A i \in 1..Len(w) : Append(w, ActivationOf(t, m))[i] = w[i]
    BY <1>2, <1>4, Pushed DEF w
  <2> QED BY <1>4, <2>1 DEF w
<1> HIDE DEF s, u
<1>6. /\ View(s, m) \in Seq(Meanings(m)) /\ Len(View(s, m)) = Len(s)
      /\ \A i \in 1..Len(s) : View(s, m)[i] = ActivationOf(s[i], m)
  BY <1>1, <1>3
<1>7. \A i \in 1..Len(s) : i \in 1..Len(b) \/ i = Len(b) + 1
  BY <1>3
<1>8. \A i \in 1..Len(s) : View(s, m)[i] = u[i]
  BY <1>3, <1>4, <1>5, <1>6, <1>7
<1>9. View(s, m) = u
  BY <1>3, <1>5, <1>6, <1>8, SeqEqual
<1> QED BY <1>2, <1>4, <1>9 DEF s, u

LEMMA StackViewIs == StackView = View(calls, mem)
BY DEF StackView, View

LEMMA SameOperators ==
  /\ \A s : Act!Last(s) = Last(s) /\ Act!Front(s) = Front(s) /\ Act!ToSet(s) = ToSet(s)
  /\ Act!Fns = Fns
BY DEF Act!Last, Last, Act!Front, Front, Act!ToSet, ToSet, Act!Fns, Fns

LEMMA OutcomeIs ==
  /\ phase \in {"run", "left"} => OutcomeView = IF calls = <<>> /\ tail_id = 0 THEN "done" ELSE "run"
  /\ phase \notin {"run", "left"} => OutcomeView = phase
BY DEF OutcomeView

\* The running function is the running activation.
LEMMA Runs ==
  ASSUME CallInv, phase = "run"
  PROVE  LET V == View(Front(calls), mem)
             T == ActivationOf(Top, mem)
         IN /\ StackView = Append(V, T) /\ StackView # <<>> /\ Act!Top = T
            /\ V \in Seq(Meanings(mem)) /\ T \in Meanings(mem) /\ Len(V) = Len(Front(calls))
            /\ Act!Running /\ TailView = Act!None /\ OutcomeView = "run" /\ Act!Front(StackView) = V
<1> DEFINE b == Front(calls)
           V == View(b, mem)
           T == ActivationOf(Top, mem)
<1>1. calls # <<>> /\ tail_id = 0
  BY SomeCall
<1>2. calls = Append(b, Top) /\ b \in Seq(CallRec) /\ Top \in CallRec
  BY <1>1, Standing
<1>3. /\ V \in Seq(Meanings(mem)) /\ T \in Meanings(mem) /\ Len(V) = Len(b) /\ View(Append(b, Top), mem) = Append(V, T)
  BY <1>2, ViewOfPushed
<1>4. StackView = Append(V, T)
  BY <1>2, <1>3, StackViewIs
<1> HIDE DEF b, V, T
<1>5. Append(V, T) # <<>> /\ Last(Append(V, T)) = T /\ Front(Append(V, T)) = V
  BY <1>3, Pushed
<1>6. Act!Top = T /\ Act!Front(StackView) = V
  BY <1>4, <1>5, SameOperators DEF Act!Top
<1>7. TailView = Act!None
  BY <1>1 DEF TailView, Act!None
<1>8. OutcomeView = "run"
  BY <1>1, OutcomeIs
<1>9. Act!Running
  BY <1>4, <1>5, <1>7, <1>8 DEF Act!Running
<1> QED BY <1>3, <1>4, <1>5, <1>6, <1>7, <1>8, <1>9 DEF b, V, T

\* What it can name, and pass, is what the activation can.
LEMMA Reads ==
  ASSUME CallInv, phase = "run"
  PROVE  LET T == ActivationOf(Top, mem) IN
         /\ Sources(Top) \subseteq Act!Readable(T) /\ T.cells = Cells(Top, mem)
         /\ \A f \in Fns : \A v \in Arguments(f) :
              (IF f \in ByVal THEN mem[v] ELSE v) \in Act!Passed(f) /\ v \in Nat /\ (f \in ByVal => v \in ToSet(Top.cells))
<1> DEFINE T == ActivationOf(Top, mem)
<1>0. calls # <<>>
  BY SomeCall
<1>1. Top \in CallRec /\ mem \in [Addr -> Nat] /\ Framed(Top)
  BY <1>0, Standing
<1>2. Top.frame + ArgSlot \in Addr /\ Top.frame + ResSlot \in Addr
  BY <1>1, Spanned
<1>3. ToSet(Cells(Top, mem)) = {mem[x] : x \in ToSet(Top.cells)}
  BY <1>1, CellsView
<1>4. /\ T.cells = Cells(Top, mem)
      /\ T.arg = IF Top.fn \in ByVal THEN -1 ELSE mem[Top.frame + ArgSlot]
      /\ T.res = IF Top.defined THEN mem[Top.frame + ResSlot] ELSE -1
  BY DEF ActivationOf, Cells
<1>5. mem[Top.frame + ArgSlot] # -1 /\ mem[Top.frame + ResSlot] # -1
  BY <1>1, <1>2
<1> HIDE DEF T
<1>6. Act!Readable(T) = Data \cup ({T.arg, T.res} \ {-1}) \cup {mem[x] : x \in ToSet(Top.cells)}
  BY <1>3, <1>4, SameOperators DEF Act!Readable, Act!Undefined
<1>7. Sources(Top) \subseteq Act!Readable(T)
  BY <1>4, <1>5, <1>6 DEF Sources
<1>8. Act!Top = T
  BY Runs DEF T
<1>9. ASSUME NEW f \in Fns, NEW v \in Arguments(f)
      PROVE  (IF f \in ByVal THEN mem[v] ELSE v) \in Act!Passed(f) /\ v \in Nat /\ (f \in ByVal => v \in ToSet(Top.cells))
  <2>1. v \in Nat
    BY <1>0, Named
  <2>2. CASE f \in ByVal
    <3>1. v \in ToSet(Top.cells)
      BY <2>2 DEF Arguments
    <3>2. Act!Passed(f) = {mem[x] : x \in ToSet(Top.cells)}
      BY <1>3, <1>4, <1>8, <2>2, SameOperators DEF Act!Passed
    <3> QED BY <2>1, <2>2, <3>1, <3>2
  <2>3. CASE f \notin ByVal
    <3>1. v \in Sources(Top)
      BY <2>3 DEF Arguments
    <3>2. Act!Passed(f) = Act!Readable(T)
      BY <1>8, <2>3 DEF Act!Passed
    <3> QED BY <1>7, <2>1, <2>3, <3>1, <3>2
  <2> QED BY <2>2, <2>3
<1> QED BY <1>4, <1>7, <1>9 DEF T

\* The running activation changes and no other.
LEMMA Becomes ==
  ASSUME CallInv, phase = "run", NEW u \in CallRec, calls' = Append(Front(calls), u),
         View(Front(calls), mem') = View(Front(calls), mem), phase' = "run", tail_id' = 0,
         NEW S, ActivationOf(u, mem') \in S
  PROVE  Act!Become(S)
<1> DEFINE b == Front(calls)
           V == View(b, mem)
<1>1. b \in Seq(CallRec)
  BY SomeCall, Standing
<1>2. StackView' = View(calls', mem')
  BY DEF StackView, View
<1>3. StackView' = Append(V, ActivationOf(u, mem'))
  BY <1>1, <1>2, ViewOfPushed
<1>4. Act!Running /\ TailView = Act!None /\ OutcomeView = "run" /\ Act!Front(StackView) = V
  BY Runs
<1>5. TailView' = Act!None
  BY DEF TailView, Act!None
<1>6. calls' # <<>>
  BY <1>1, Pushed
<1>7. OutcomeView' = "run"
  BY <1>6 DEF OutcomeView
<1> QED BY <1>3, <1>4, <1>5, <1>7 DEF Act!Become

LEMMA Stutters == ASSUME StackView' = StackView, TailView' = TailView, OutcomeView' = OutcomeView PROVE UNCHANGED Act!actVars
BY DEF Act!actVars

LEMMA Refuses ==
  ASSUME Trap("exhausted"), OutcomeView = "run"
  PROVE  Act!Refuse
<1>1. UNCHANGED <<mem, tail_id, calls>> /\ phase' = "exhausted"
  BY DEF Trap
<1>2. StackView' = StackView
  BY <1>1 DEF StackView, ActivationOf
<1>3. TailView' = TailView
  BY <1>1 DEF TailView
<1>4. OutcomeView' = "exhausted"
  BY <1>1 DEF OutcomeView
<1> QED BY <1>2, <1>3, <1>4 DEF Act!Refuse

\* What the top function writes below its caller's part changes no other meaning.
LEMMA OthersSame ==
  ASSUME CallInv, phase = "run", \A x \in Addr : x >= Ceiling(Top) => mem'[x] = mem[x]
  PROVE  View(Front(calls), mem') = View(Front(calls), mem)
BY SomeCall, Standing, SameView

LEMMA OtherField ==
  ASSUME NEW f, NEW a, NEW r, NEW c, NEW x
  PROVE  LET T == [fn |-> f, arg |-> a, res |-> r, cells |-> c] IN
         /\ [T EXCEPT !.cells = x] = [fn |-> f, arg |-> a, res |-> r, cells |-> x]
         /\ [T EXCEPT !.res = x] = [fn |-> f, arg |-> a, res |-> x, cells |-> c]
OBVIOUS

\* A call whose objects alone, or whose last result alone, mean something else.
LEMMA OtherCells ==
  ASSUME NEW c, NEW u, NEW m, NEW m2, u.fn = c.fn, u.frame = c.frame, u.defined = c.defined,
         m2[c.frame + ArgSlot] = m[c.frame + ArgSlot], m2[c.frame + ResSlot] = m[c.frame + ResSlot]
  PROVE  ActivationOf(u, m2) = [ActivationOf(c, m) EXCEPT !.cells = Cells(u, m2)]
<1> DEFINE f == c.fn
           a == IF c.fn \in ByVal THEN -1 ELSE m[c.frame + ArgSlot]
           r == IF c.defined THEN m[c.frame + ResSlot] ELSE -1
<1>1. ActivationOf(c, m) = [fn |-> f, arg |-> a, res |-> r, cells |-> Cells(c, m)]
  BY DEF ActivationOf, Cells
<1>2. ActivationOf(u, m2) = [fn |-> f, arg |-> a, res |-> r, cells |-> Cells(u, m2)]
  BY DEF ActivationOf, Cells
<1> HIDE DEF f, a, r
<1> QED BY <1>1, <1>2, OtherField

LEMMA OtherResult ==
  ASSUME NEW c, NEW u, NEW m, NEW m2, u.fn = c.fn, u.frame = c.frame, u.defined,
         m2[c.frame + ArgSlot] = m[c.frame + ArgSlot], Cells(u, m2) = Cells(c, m)
  PROVE  ActivationOf(u, m2) = [ActivationOf(c, m) EXCEPT !.res = m2[c.frame + ResSlot]]
<1> DEFINE f == c.fn
           a == IF c.fn \in ByVal THEN -1 ELSE m[c.frame + ArgSlot]
           r == IF c.defined THEN m[c.frame + ResSlot] ELSE -1
           x == m2[c.frame + ResSlot]
<1>1. ActivationOf(c, m) = [fn |-> f, arg |-> a, res |-> r, cells |-> Cells(c, m)]
  BY DEF ActivationOf, Cells
<1>2. ActivationOf(u, m2) = [fn |-> f, arg |-> a, res |-> x, cells |-> Cells(c, m)]
  BY DEF ActivationOf, Cells
<1> HIDE DEF f, a, r, x
<1>3. ActivationOf(u, m2) = [ActivationOf(c, m) EXCEPT !.res = x]
  BY <1>1, <1>2, OtherField
<1> QED BY <1>3 DEF x

LEMMA AllocaMeans == ASSUME CallInv, Alloca PROVE Act!Alloca \/ Act!Refuse
<1>0. phase = "run" /\ calls # <<>> /\ tail_id = 0
  BY SomeCall DEF Alloca
<1> DEFINE b == Front(calls)
           t == Top
           T == ActivationOf(t, mem)
<1>1. /\ mem \in [Addr -> Nat] /\ Framed(t) /\ t \in CallRec /\ sp = Low(t)
  BY <1>0, Standing
<1>2. CASE sp - 1 < Heap
  BY <1>0, <1>2, Runs, Refuses DEF Alloca
<1>3. CASE ~(sp - 1 < Heap)
  <2> DEFINE a == sp - 1
             u == [t EXCEPT !.cells = Append(@, a)]
  <2>1. PICK d \in Data : mem' = [mem EXCEPT ![a] = d]
    BY <1>3 DEF Alloca
  <2>2. sp' = a /\ calls' = Append(b, u) /\ tail_id' = 0 /\ phase' = "run"
    BY <1>0, <1>3 DEF Alloca
  <2>3. /\ Low(t) \in Nat /\ Low(t) <= t.frame /\ t.frame \in Nat /\ t.frame + 4 <= Ceiling(t)
        /\ Ceiling(t) \in Nat /\ Low(t) \in Addr /\ t.frame + ArgSlot \in Addr /\ t.frame + ResSlot \in Addr
        /\ MemTop \in Nat
    BY <1>1, Spanned, Parameters
  <2>4. a \in Nat /\ a \in Addr /\ a < Low(t)
    BY <1>1, <1>3, <2>3 DEF Addr, Heap
  <2> HIDE DEF a
  <2>5. d \in Nat
    BY Parameters
  <2>6. mem' \in [Addr -> Nat] /\ mem'[a] = d /\ \A x \in Addr : x # a => mem'[x] = mem[x]
    BY <1>1, <2>1, <2>4, <2>5
  <2>7. View(b, mem') = View(b, mem)
    <3>1. \A x \in Addr : x >= Ceiling(t) => mem'[x] = mem[x]
      BY <2>3, <2>4, <2>6 DEF Addr
    <3> QED BY <1>0, <3>1, OthersSame
  <2>8. t.cells \in Seq(Addr)
    BY <1>1 DEF CallRec
  <2>9. /\ u \in CallRec /\ u.fn = t.fn /\ u.frame = t.frame /\ u.cells = Append(t.cells, a) /\ u.defined = t.defined
    <3>1. Append(t.cells, a) \in Seq(Addr)
      BY <2>4, <2>8, AppendProperties
    <3> QED BY <1>1, <3>1, WithFields
  <2> HIDE DEF u
  <2> DEFINE n == Len(t.cells)
  <2>10. /\ n \in Nat /\ Cells(t, mem) \in Seq(Nat) /\ Len(Cells(t, mem)) = n
         /\ \A k \in 1..n : Cells(t, mem)[k] = mem[t.cells[k]] /\ t.cells[k] \in Addr
    BY <1>1, CellsView
  <2>11. Cells(u, mem') = Append(Cells(t, mem), d)
    <3> DEFINE C == Cells(u, mem')
               D == Append(Cells(t, mem), d)
    <3>1. /\ Len(u.cells) = n + 1 /\ u.cells[n + 1] = a /\ \A k \in 1..n : u.cells[k] = t.cells[k]
      BY <2>4, <2>8, <2>9, Pushed
    <3>2. C \in Seq(Nat) /\ Len(C) = n + 1 /\ \A k \in 1..n + 1 : C[k] = mem'[u.cells[k]]
      BY <2>6, <2>9, <3>1, CellsView
    <3>3. D \in Seq(Nat) /\ Len(D) = n + 1 /\ D[n + 1] = d /\ \A k \in 1..n : D[k] = mem[t.cells[k]]
      <4> DEFINE e == Cells(t, mem)
      <4>1. e \in Seq(Nat) /\ Len(e) = n /\ \A k \in 1..n : e[k] = mem[t.cells[k]]
        BY <2>10
      <4> HIDE DEF e
      <4>2. /\ Append(e, d) \in Seq(Nat) /\ Len(Append(e, d)) = n + 1 /\ Append(e, d)[n + 1] = d
            /\ \A k \in 1..n : Append(e, d)[k] = e[k]
        BY <2>5, <4>1, Pushed
      <4> QED BY <4>1, <4>2 DEF e
    <3>4. \A k \in 1..n : t.cells[k] # a
      <4>1. \A k \in 1..n : Low(t) <= t.cells[k] /\ t.cells[k] \in Nat
        BY <1>1, <2>10, Parameters DEF Framed, Addr
      <4> QED BY <2>3, <2>4, <4>1
    <3> HIDE DEF C, D, n
    <3>5. ASSUME NEW k \in 1..n + 1 PROVE C[k] = D[k]
      <4>1. k \in 1..n \/ k = n + 1
        BY <2>10
      <4>2. CASE k \in 1..n
        <5>1. C[k] = mem'[u.cells[k]] /\ u.cells[k] = t.cells[k]
          BY <3>1, <3>2, <4>2
        <5>2. mem'[t.cells[k]] = mem[t.cells[k]]
          BY <2>6, <2>10, <3>4, <4>2
        <5> QED BY <3>3, <4>2, <5>1, <5>2
      <4>3. CASE k = n + 1
        BY <2>6, <3>1, <3>2, <3>3, <4>3
      <4> QED BY <4>1, <4>2, <4>3
    <3>6. C = D
      BY <3>2, <3>3, <3>5, SeqEqual
    <3> QED BY <3>6 DEF C, D
  <2>12. mem'[t.frame + ArgSlot] = mem[t.frame + ArgSlot] /\ mem'[t.frame + ResSlot] = mem[t.frame + ResSlot]
    BY <2>3, <2>4, <2>6 DEF ArgSlot, ResSlot
  <2>13. ActivationOf(u, mem') = [T EXCEPT !.cells = Append(@, d)]
    <3>1. ActivationOf(u, mem') = [T EXCEPT !.cells = Cells(u, mem')]
      BY <2>9, <2>12, OtherCells
    <3>2. T.cells = Cells(t, mem)
      BY DEF ActivationOf, Cells
    <3> HIDE DEF T
    <3> QED BY <2>11, <3>1, <3>2
  <2>14. Act!Become({[T EXCEPT !.cells = Append(@, x)] : x \in Data})
    <3> HIDE DEF T
    <3>1. ActivationOf(u, mem') \in {[T EXCEPT !.cells = Append(@, x)] : x \in Data}
      BY <2>13
    <3> QED BY <1>0, <2>2, <2>7, <2>9, <3>1, Becomes
  <2>15. Act!Top = T
    BY <1>0, Runs
  <2> QED BY <2>14, <2>15 DEF Act!Alloca
<1> QED BY <1>2, <1>3

LEMMA StoreMeans == ASSUME CallInv, Store PROVE Act!Store
<1>0. phase = "run" /\ calls # <<>> /\ tail_id = 0
  BY SomeCall DEF Store
<1> DEFINE b == Front(calls)
           t == Top
           T == ActivationOf(t, mem)
           n == Len(t.cells)
<1>1. /\ mem \in [Addr -> Nat] /\ Framed(t) /\ t \in CallRec /\ calls = Append(b, t)
  BY <1>0, Standing
<1>2. PICK a \in ToSet(t.cells), v \in Sources(t) : mem' = [mem EXCEPT ![a] = v]
  BY DEF Store
<1>3. v \in Nat /\ a \in Nat /\ a \in Addr /\ Low(t) <= a /\ a < t.frame
  BY <1>0, Named
<1>4. /\ Low(t) \in Nat /\ t.frame \in Nat /\ t.frame + 4 <= Ceiling(t) /\ Ceiling(t) \in Nat
      /\ t.frame + ArgSlot \in Addr /\ t.frame + ResSlot \in Addr
  BY <1>1, Spanned
<1>5. mem' \in [Addr -> Nat] /\ mem'[a] = v /\ \A x \in Addr : x # a => mem'[x] = mem[x]
  BY <1>1, <1>2, <1>3
<1>6. View(b, mem') = View(b, mem)
  <2>1. \A x \in Addr : x >= Ceiling(t) => mem'[x] = mem[x]
    BY <1>3, <1>4, <1>5 DEF Addr
  <2> QED BY <1>0, <2>1, OthersSame
<1>7. /\ n \in Nat /\ t.cells \in Seq(Addr) /\ DOMAIN t.cells = 1..n /\ (\A k \in 1..n : t.cells[k] \in Addr)
      /\ DOMAIN Cells(t, mem) = 1..n
  <2>1. t.cells \in Seq(Addr)
    BY <1>1 DEF CallRec
  <2> QED BY <1>1, <2>1, LenProperties, ElementOfSeq, CellsView
<1>8. PICK i \in 1..n : a = t.cells[i]
  BY <1>7 DEF ToSet
<1>9. \A k \in 1..n : k # i => t.cells[k] # a
  <2>1. ASSUME NEW k \in 1..n, k # i PROVE t.cells[k] # a
    <3>1. k < i \/ i < k
      BY <1>7, <2>1
    <3>2. t.cells[k] \in Nat /\ t.cells[i] \in Nat
      BY <1>7, Parameters DEF Addr
    <3>3. t.cells[i] < t.cells[k] \/ t.cells[k] < t.cells[i]
      BY <1>1, <3>1 DEF Framed
    <3> QED BY <1>8, <3>2, <3>3
  <2> QED BY <2>1
<1>10. Cells(t, mem') = [Cells(t, mem) EXCEPT ![i] = v]
  <2>1. Cells(t, mem') = [k \in 1..n |-> mem'[t.cells[k]]] /\ Cells(t, mem) = [k \in 1..n |-> mem[t.cells[k]]]
    BY <1>7 DEF Cells
  <2>2. ASSUME NEW k \in 1..n PROVE mem'[t.cells[k]] = IF k = i THEN v ELSE mem[t.cells[k]]
    <3>1. k # i => mem'[t.cells[k]] = mem[t.cells[k]]
      BY <1>5, <1>7, <1>9
    <3> QED BY <1>5, <1>8, <3>1
  <2>3. Cells(t, mem') = [k \in 1..n |-> IF k = i THEN v ELSE mem[t.cells[k]]]
    BY <2>1, <2>2
  <2> HIDE DEF n, t
  <2> QED BY <2>1, <2>3
<1>11. ActivationOf(t, mem') = [T EXCEPT !.cells[i] = v]
  <2> DEFINE f == t.fn
             x == IF t.fn \in ByVal THEN -1 ELSE mem[t.frame + ArgSlot]
             r == IF t.defined THEN mem[t.frame + ResSlot] ELSE -1
  <2>1. mem'[t.frame + ArgSlot] = mem[t.frame + ArgSlot] /\ mem'[t.frame + ResSlot] = mem[t.frame + ResSlot]
    BY <1>3, <1>4, <1>5 DEF ArgSlot, ResSlot
  <2>2. T = [fn |-> f, arg |-> x, res |-> r, cells |-> Cells(t, mem)]
    BY DEF ActivationOf, Cells
  <2>3. ActivationOf(t, mem') = [fn |-> f, arg |-> x, res |-> r, cells |-> Cells(t, mem')]
    BY <2>1 DEF ActivationOf, Cells
  <2> DEFINE c == Cells(t, mem)
             c2 == Cells(t, mem')
             U == ActivationOf(t, mem')
  <2>4. c2 = [c EXCEPT ![i] = v]
    BY <1>10
  <2> HIDE DEF T, f, x, r, c, c2, U
  <2>5. T = [fn |-> f, arg |-> x, res |-> r, cells |-> c] /\ U = [fn |-> f, arg |-> x, res |-> r, cells |-> c2]
    BY <2>2, <2>3 DEF c, c2, U
  <2>6. [T EXCEPT !.cells[i] = v] = [fn |-> f, arg |-> x, res |-> r, cells |-> [c EXCEPT ![i] = v]]
    <3>1. [[fn |-> f, arg |-> x, res |-> r, cells |-> c] EXCEPT !.cells[i] = v]
            = [fn |-> f, arg |-> x, res |-> r, cells |-> [c EXCEPT ![i] = v]]
      OBVIOUS
    <3> QED BY <2>5, <3>1
  <2>7. U = [T EXCEPT !.cells[i] = v]
    BY <2>4, <2>5, <2>6
  <2> QED BY <2>7 DEF U
<1>12. v \in Act!Readable(T) /\ Act!Top = T /\ i \in DOMAIN T.cells
  <2>1. T.cells = Cells(t, mem) /\ Sources(t) \subseteq Act!Readable(T)
    BY <1>0, Reads
  <2> QED BY <1>0, <1>7, <2>1, Runs
<1>13. calls' = Append(b, t) /\ phase' = "run" /\ tail_id' = 0
  BY <1>0, <1>1 DEF Store
<1> HIDE DEF T
<1>14. Act!Become({[T EXCEPT !.cells[k] = d] : k \in DOMAIN T.cells, d \in Act!Readable(T)})
  <2>1. ActivationOf(t, mem') \in {[T EXCEPT !.cells[k] = d] : k \in DOMAIN T.cells, d \in Act!Readable(T)}
    <3> DEFINE E(k, d) == [T EXCEPT !.cells[k] = d]
    <3>1. ActivationOf(t, mem') = E(i, v)
      BY <1>11
    <3> HIDE DEF E
    <3>2. E(i, v) \in {E(k, d) : k \in DOMAIN T.cells, d \in Act!Readable(T)}
      BY <1>12
    <3>3. ActivationOf(t, mem') \in {E(k, d) : k \in DOMAIN T.cells, d \in Act!Readable(T)}
      BY <3>1, <3>2
    <3> QED BY <3>3 DEF E
  <2> QED BY <1>0, <1>1, <1>6, <1>13, <2>1, Becomes
<1> QED BY <1>12, <1>14 DEF Act!Store

LEMMA UseOutgoingMeans == ASSUME CallInv, UseOutgoing PROVE UNCHANGED Act!actVars
<1>0. phase = "run" /\ calls # <<>> /\ tail_id = 0
  BY SomeCall DEF UseOutgoing
<1> DEFINE b == Front(calls)
           t == Top
           a == t.frame + Outgoing
<1>1. /\ mem \in [Addr -> Nat] /\ Framed(t) /\ t \in CallRec /\ calls = Append(b, t) /\ b \in Seq(CallRec)
  BY <1>0, Standing
<1>2. mem' = [mem EXCEPT ![a] = 1] /\ calls' = calls /\ phase' = phase /\ tail_id' = tail_id
  BY DEF UseOutgoing
<1>3. /\ Low(t) \in Nat /\ t.frame \in Nat /\ t.frame + 4 <= Ceiling(t) /\ Ceiling(t) \in Nat
      /\ t.frame + ArgSlot \in Addr /\ t.frame + ResSlot \in Addr /\ a \in Addr
  BY <1>1, Spanned
<1>4. \A x \in Addr : x # a => mem'[x] = mem[x]
  BY <1>1, <1>2, <1>3
<1>5. View(b, mem') = View(b, mem)
  <2>1. \A x \in Addr : x >= Ceiling(t) => mem'[x] = mem[x]
    BY <1>3, <1>4 DEF Addr, Outgoing
  <2> QED BY <1>0, <2>1, OthersSame
<1>6. ActivationOf(t, mem') = ActivationOf(t, mem)
  <2>1. mem'[t.frame + ArgSlot] = mem[t.frame + ArgSlot] /\ mem'[t.frame + ResSlot] = mem[t.frame + ResSlot]
    BY <1>3, <1>4 DEF ArgSlot, ResSlot, Outgoing
  <2>2. ASSUME NEW k \in DOMAIN t.cells PROVE mem'[t.cells[k]] = mem[t.cells[k]]
    <3>1. t.cells[k] \in ToSet(t.cells)
      BY DEF ToSet
    <3>2. t.cells[k] \in Addr /\ t.cells[k] \in Nat /\ t.cells[k] < t.frame
      BY <1>0, <3>1, Named
    <3> QED BY <1>3, <1>4, <3>2 DEF Outgoing
  <2> QED BY <1>1, <2>1, <2>2, SameMeaning
<1>7. StackView' = StackView
  <2>1. View(calls, mem') = View(calls, mem)
    BY <1>1, <1>5, <1>6, ViewOfPushed
  <2>2. StackView' = View(calls', mem')
    BY DEF StackView, View
  <2> QED BY <1>2, <2>1, <2>2, StackViewIs
<1>8. TailView' = TailView
  BY <1>0, <1>2 DEF TailView
<1>9. OutcomeView' = OutcomeView
  BY <1>2 DEF OutcomeView
<1> QED BY <1>7, <1>8, <1>9, Stutters

LEMMA VaArgMeans == ASSUME CallInv, VaArg PROVE Act!VaArg
<1>0. phase = "run" /\ calls # <<>> /\ tail_id = 0
  BY SomeCall DEF VaArg
<1> DEFINE b == Front(calls)
           t == Top
           T == ActivationOf(t, mem)
           a == t.frame + ResSlot
           u == [t EXCEPT !.defined = TRUE]
<1>1. /\ mem \in [Addr -> Nat] /\ Framed(t) /\ t \in CallRec
      /\ Fits(t, Floor(b), ResultOf(b), ArgsOf(b), mem)
  BY <1>0, Standing
<1>2. t.fn \in Variadic /\ t.fn \notin ByVal
  BY Parameters DEF VaArg
<1>3. mem[t.args] = mem[t.frame + ArgSlot]
  BY <1>1, <1>2 DEF Fits
<1>4. mem' = [mem EXCEPT ![a] = mem[t.args]] /\ calls' = Append(b, u) /\ phase' = "run" /\ tail_id' = 0
  BY <1>0 DEF VaArg
<1>5. /\ Low(t) \in Nat /\ t.frame \in Nat /\ t.frame + 4 <= Ceiling(t) /\ Ceiling(t) \in Nat
      /\ t.frame + ArgSlot \in Addr /\ a \in Addr
  BY <1>1, Spanned
<1>6. mem'[a] = mem[t.frame + ArgSlot] /\ \A x \in Addr : x # a => mem'[x] = mem[x]
  BY <1>1, <1>3, <1>4, <1>5
<1>7. View(b, mem') = View(b, mem)
  <2>1. \A x \in Addr : x >= Ceiling(t) => mem'[x] = mem[x]
    BY <1>5, <1>6 DEF Addr, ResSlot
  <2> QED BY <1>0, <2>1, OthersSame
<1>8. u \in CallRec /\ u.fn = t.fn /\ u.frame = t.frame /\ u.cells = t.cells /\ u.defined
  BY <1>1, WithFields
<1> HIDE DEF u
<1>9. Cells(u, mem') = Cells(t, mem)
  <2>1. ASSUME NEW k \in DOMAIN t.cells PROVE mem'[t.cells[k]] = mem[t.cells[k]]
    <3>1. t.cells[k] \in ToSet(t.cells)
      BY DEF ToSet
    <3>2. t.cells[k] \in Addr /\ t.cells[k] \in Nat /\ t.cells[k] < t.frame
      BY <1>0, <3>1, Named
    <3> QED BY <1>5, <1>6, <3>2 DEF ResSlot
  <2> QED BY <1>8, <2>1 DEF Cells
<1>10. mem'[t.frame + ArgSlot] = mem[t.frame + ArgSlot]
  BY <1>5, <1>6 DEF ArgSlot, ResSlot
<1>11. ActivationOf(u, mem') = [T EXCEPT !.res = mem'[a]]
  BY <1>8, <1>9, <1>10, OtherResult
<1>12. T.fn = t.fn /\ T.arg = mem[t.frame + ArgSlot]
  BY <1>2 DEF ActivationOf
<1>13. Act!Top = T /\ Act!Running
  BY <1>0, Runs
<1> HIDE DEF T
<1>14. Act!Become({[T EXCEPT !.res = T.arg]})
  <2>1. ActivationOf(u, mem') \in {[T EXCEPT !.res = T.arg]}
    BY <1>6, <1>11, <1>12
  <2> QED BY <1>0, <1>4, <1>7, <1>8, <2>1, Becomes
<1> QED BY <1>2, <1>12, <1>13, <1>14 DEF Act!VaArg

LEMMA StackRestoreMeans == ASSUME CallInv, StackRestore PROVE Act!Restore
<1>0. phase = "run" /\ calls # <<>> /\ tail_id = 0
  BY SomeCall DEF StackRestore
<1> DEFINE b == Front(calls)
           t == Top
           T == ActivationOf(t, mem)
<1>1. mem \in [Addr -> Nat] /\ Framed(t) /\ t \in CallRec /\ sp = Low(t)
  BY <1>0, Standing
<1>2. t.cells \in Seq(Addr) /\ Len(t.cells) \in Nat
  BY <1>1, LenProperties DEF CallRec
<1> DEFINE P(n) == IF n = 0 THEN t.frame ELSE t.cells[n]
           C(n) == SubSeq(t.cells, 1, n)
<1>3. PICK n \in {k \in 0..Len(t.cells) : t.fn \in ByVal => k > 0} :
        IF P(n) < sp \/ P(n) > t.frame THEN Trap("invalid stack restore")
        ELSE /\ sp' = P(n)
             /\ calls' = Append(b, [t EXCEPT !.cells = C(n)])
             /\ UNCHANGED <<mem, tail_id, pending, phase>>
  BY DEF StackRestore
<1>4. Low(t) \in Nat /\ Low(t) <= t.frame /\ t.frame \in Nat
  BY <1>1, Spanned
<1>5. \A k \in 1..Len(t.cells) : t.cells[k] \in Addr /\ t.cells[k] \in Nat /\ Low(t) <= t.cells[k] /\ t.cells[k] < t.frame
  <2>1. \A k \in 1..Len(t.cells) : t.cells[k] \in Addr /\ t.cells[k] \in Nat
    BY <1>2, ElementOfSeq, Parameters DEF Addr
  <2> QED BY <1>1, <2>1 DEF Framed
<1>6. n \in Nat /\ n <= Len(t.cells) /\ (n # 0 => n \in 1..Len(t.cells)) /\ (t.fn \in ByVal => n # 0)
  BY <1>2
<1>7. P(n) \in Nat /\ Low(t) <= P(n) /\ P(n) <= t.frame
  BY <1>4, <1>5, <1>6
<1> HIDE DEF P
<1>8. calls' = Append(b, [t EXCEPT !.cells = C(n)]) /\ UNCHANGED <<mem, tail_id, pending, phase>>
  <2>1. ~(P(n) < sp \/ P(n) > t.frame)
    BY <1>1, <1>4, <1>7
  <2> QED BY <1>3, <2>1
<1>9. C(n) \in Seq(Addr) /\ Len(C(n)) = n /\ \A k \in 1..n : C(n)[k] = t.cells[k]
  <2>1. n \in Int /\ 1 \in Int /\ \A k \in 1..n : t.cells[k] \in Addr
    BY <1>5, <1>6
  <2>2. /\ C(n) \in Seq(Addr) /\ Len(C(n)) = IF 1 <= n THEN n - 1 + 1 ELSE 0
        /\ \A k \in 1 .. n - 1 + 1 : C(n)[k] = t.cells[1 + k - 1]
    BY <2>1, SubSeqProperties
  <2> HIDE DEF C
  <2> QED BY <1>6, <2>2
<1> HIDE DEF C
<1> DEFINE u == [t EXCEPT !.cells = C(n)]
           M == Cells(t, mem)
           D == SubSeq(M, 1, n)
<1>10. u \in CallRec /\ u.fn = t.fn /\ u.frame = t.frame /\ u.cells = C(n) /\ u.defined = t.defined
  BY <1>1, <1>9, WithFields
<1>11. calls' = Append(b, u)
  BY <1>8
<1> HIDE DEF u
<1>12. M \in Seq(Nat) /\ Len(M) = Len(t.cells) /\ \A k \in 1..Len(t.cells) : M[k] = mem[t.cells[k]]
  BY <1>1, CellsView
<1> HIDE DEF M
<1>13. D \in Seq(Nat) /\ Len(D) = n /\ \A k \in 1..n : D[k] = M[k]
  <2>1. n \in Int /\ 1 \in Int /\ \A k \in 1..n : M[k] \in Nat
    BY <1>1, <1>5, <1>6, <1>12
  <2>2. /\ D \in Seq(Nat) /\ Len(D) = IF 1 <= n THEN n - 1 + 1 ELSE 0
        /\ \A k \in 1 .. n - 1 + 1 : D[k] = M[1 + k - 1]
    BY <2>1, SubSeqProperties
  <2> HIDE DEF D
  <2> QED BY <1>6, <2>2
<1> HIDE DEF D
<1>14. Cells(u, mem) = D
  <2> DEFINE E == Cells(u, mem)
  <2>1. E \in Seq(Nat) /\ Len(E) = n /\ \A k \in 1..n : E[k] = mem[u.cells[k]]
    <3>1. Len(u.cells) = n /\ u \in CallRec /\ mem \in [Addr -> Nat]
      BY <1>1, <1>9, <1>10
    <3>2. /\ E \in Seq(Nat) /\ Len(E) = Len(u.cells)
          /\ \A k \in 1..Len(u.cells) : E[k] = mem[u.cells[k]]
      BY <3>1, CellsView
    <3> HIDE DEF E
    <3> QED BY <3>1, <3>2
  <2> HIDE DEF E
  <2>2. ASSUME NEW k \in 1..n PROVE E[k] = D[k]
    <3>1. k \in 1..Len(t.cells)
      BY <1>2, <1>6
    <3>2. u.cells[k] = t.cells[k]
      BY <1>9, <1>10
    <3>3. M[k] = mem[t.cells[k]] /\ D[k] = M[k]
      BY <1>12, <1>13, <3>1
    <3>4. E[k] = mem[u.cells[k]]
      BY <2>1
    <3> QED BY <3>2, <3>3, <3>4
  <2>3. E = D
    BY <1>13, <2>1, <2>2, SeqEqual
  <2> QED BY <2>3 DEF E
<1>15. ActivationOf(u, mem) = [T EXCEPT !.cells = Cells(u, mem)]
  BY <1>10, OtherCells
<1>16. Act!Top = T /\ T.cells = M /\ T.fn = t.fn
  <2>1. T.fn = t.fn
    BY DEF ActivationOf
  <2> QED BY <1>0, <2>1, Runs, Reads DEF M
<1> HIDE DEF T
<1> DEFINE low == IF T.fn \in ByVal THEN 1 ELSE 0
<1>17. n \in low..Len(T.cells)
  <2>1. CASE t.fn \in ByVal
    BY <1>2, <1>6, <1>12, <1>16, <2>1
  <2>2. CASE t.fn \notin ByVal
    BY <1>2, <1>6, <1>12, <1>16, <2>2
  <2> QED BY <2>1, <2>2
<1>18. mem' = mem /\ phase' = "run" /\ tail_id' = 0
  BY <1>0, <1>8
<1> HIDE DEF low
<1>19. ActivationOf(u, mem') \in {[T EXCEPT !.cells = SubSeq(@, 1, k)] : k \in low..Len(T.cells)}
  <2> DEFINE E(k) == [T EXCEPT !.cells = SubSeq(@, 1, k)]
  <2>1. ActivationOf(u, mem') = [T EXCEPT !.cells = D]
    BY <1>14, <1>15, <1>18
  <2>2. E(n) = [T EXCEPT !.cells = D]
    BY <1>16 DEF D
  <2> HIDE DEF E
  <2>3. E(n) \in {E(k) : k \in low..Len(T.cells)}
    BY <1>17
  <2>4. ActivationOf(u, mem') \in {E(k) : k \in low..Len(T.cells)}
    BY <2>1, <2>2, <2>3
  <2> QED BY <2>4 DEF E
<1>20. View(b, mem') = View(b, mem)
  BY <1>18
<1>21. Act!Become({[T EXCEPT !.cells = SubSeq(@, 1, k)] : k \in low..Len(T.cells)})
  BY <1>0, <1>10, <1>11, <1>18, <1>19, <1>20, Becomes
<1> QED BY <1>16, <1>21 DEF Act!Restore, low

LEMMA MustTailMeans == ASSUME CallInv, MustTail PROVE Act!MustTail
<1>0. phase = "run" /\ calls # <<>> /\ tail_id = 0
  BY SomeCall DEF MustTail
<1> DEFINE b == Front(calls)
           t == Top
<1>1. /\ Sound(b, mem) /\ mem \in [Addr -> Nat] /\ Framed(t) /\ Floor(b) \in Nat /\ Ceiling(t) = Floor(b)
  BY <1>0, Standing
<1>2. PICK f \in Fns \ Variadic : \E v \in Arguments(f) : mem' = TailArguments(f, v) /\ tail_id' = f
  BY DEF MustTail
<1>3. PICK v \in Arguments(f) : mem' = TailArguments(f, v) /\ tail_id' = f
  BY <1>2
<1>4. /\ Low(t) \in Nat /\ Heap <= Low(t) /\ Low(t) <= t.frame /\ t.frame \in Nat /\ t.frame + 4 <= Ceiling(t)
      /\ t.frame \in Addr
  BY <1>1, Spanned
<1>5. TailArgs \in Addr /\ TailCopy \in Addr /\ TailCopy \in Nat /\ t.frame # TailArgs /\ t.frame # TailCopy /\ TailArgs # TailCopy
  BY <1>4, Parameters DEF Addr, TailArgs, TailCopy, Heap, FrameSize
<1>6. (IF f \in ByVal THEN mem[v] ELSE v) \in Act!Passed(f) /\ v \in Nat /\ (f \in ByVal => v \in ToSet(t.cells))
  BY <1>0, Reads
<1> DEFINE d == IF f \in ByVal THEN mem[v] ELSE v
<1>7. /\ \A x \in Addr : x \notin {TailArgs, TailCopy, t.frame} => mem'[x] = mem[x]
      /\ IF f \in ByVal THEN mem'[mem'[TailArgs]] = d ELSE mem'[TailArgs] = d
  <2>1. CASE f \in ByVal
    <3>1. mem' = [mem EXCEPT ![TailCopy] = mem[v], ![TailArgs] = TailCopy, ![t.frame] = 0]
      BY <1>3, <2>1 DEF TailArguments
    <3>2. mem'[TailArgs] = TailCopy /\ mem'[TailCopy] = mem[v]
      BY <1>1, <1>4, <1>5, <3>1
    <3> QED BY <1>1, <1>4, <1>5, <2>1, <3>1, <3>2
  <2>2. CASE f \notin ByVal
    <3>1. mem' = [mem EXCEPT ![TailArgs] = v, ![t.frame] = 0]
      BY <1>3, <2>2 DEF TailArguments
    <3> QED BY <1>1, <1>4, <1>5, <2>2, <3>1
  <2> QED BY <2>1, <2>2
<1>8. View(b, mem') = View(b, mem)
  <2>1. \A x \in Addr : x >= Ceiling(t) => mem'[x] = mem[x]
    BY <1>1, <1>4, <1>7 DEF Addr, TailArgs, TailCopy, Heap
  <2> QED BY <1>0, <2>1, OthersSame
<1>9. calls' = b /\ phase' = "left" /\ tail_id' = f /\ f \in Fns /\ f # 0
  BY <1>3, Parameters DEF MustTail
<1>10. StackView' = View(b, mem)
  <2>1. StackView' = View(calls', mem')
    BY DEF StackView, View
  <2> QED BY <1>8, <1>9, <2>1
<1>11. TailView' = [fn |-> f, arg |-> d]
  <2>1. TailView' = [fn |-> tail_id', arg |-> IF tail_id' \in ByVal THEN mem'[mem'[TailArgs]] ELSE mem'[TailArgs]]
    BY <1>9 DEF TailView
  <2>2. (IF f \in ByVal THEN mem'[mem'[TailArgs]] ELSE mem'[TailArgs]) = d
    BY <1>7
  <2> HIDE DEF d
  <2> QED BY <1>9, <2>1, <2>2
<1>12. OutcomeView' = "run"
  BY <1>9 DEF OutcomeView
<1>13. Act!Running /\ OutcomeView = "run" /\ Act!Front(StackView) = View(b, mem)
  BY <1>0, Runs
<1>14. d \in Act!Passed(f) /\ f \in Act!Fns \ Variadic
  BY <1>6, <1>9, SameOperators
<1> HIDE DEF d
<1>15. TailView' \in UNION {{[fn |-> g, arg |-> e] : e \in Act!Passed(g)} : g \in Act!Fns \ Variadic}
  <2>1. TailView' \in {[fn |-> f, arg |-> e] : e \in Act!Passed(f)}
    BY <1>11, <1>14
  <2> QED BY <1>14, <2>1
<1> QED BY <1>10, <1>12, <1>13, <1>15 DEF Act!MustTail

LEMMA FinishMeans == ASSUME CallInv, Finish PROVE UNCHANGED Act!actVars
<1>1. /\ phase = "left" /\ tail_id = 0 /\ UNCHANGED <<mem, tail_id, calls>>
      /\ phase' = IF calls = <<>> THEN "done" ELSE "run"
  BY DEF Finish
<1>2. StackView' = StackView
  BY <1>1 DEF StackView, ActivationOf
<1>3. TailView' = TailView
  BY <1>1 DEF TailView
<1>4. OutcomeView' = OutcomeView
  <2>1. OutcomeView = IF calls = <<>> THEN "done" ELSE "run"
    BY <1>1, OutcomeIs
  <2>2. CASE calls = <<>>
    <3>1. phase' = "done"
      BY <1>1, <2>2
    <3>2. OutcomeView' = "done"
      BY <3>1 DEF OutcomeView
    <3> QED BY <2>1, <2>2, <3>2
  <2>3. CASE calls # <<>>
    <3>1. phase' = "run" /\ calls' # <<>>
      BY <1>1, <2>3
    <3>2. OutcomeView' = "run"
      BY <3>1 DEF OutcomeView
    <3> QED BY <2>1, <2>3, <3>2
  <2> QED BY <2>2, <2>3
<1> QED BY <1>2, <1>3, <1>4, Stutters

LEMMA RetMeans == ASSUME CallInv, Ret PROVE Act!Return
<1> DEFINE b == Front(calls)
           r == ResultOf(b)
           q == Top.frame
           T == ActivationOf(Top, mem)
           V == View(b, mem)
<1>1. /\ phase = "run" /\ calls # <<>> /\ tail_id = 0 /\ q \in Addr /\ r \in Addr
      /\ mem' \in [Addr -> Nat] /\ \A x \in Addr : x # r /\ x # q => mem'[x] = mem[x]
      /\ Heap <= q /\ q < Floor(b)
      /\ mem'[r] \in Sources(Top)
  BY RetWrites
<1>2. Sound(b, mem) /\ mem \in [Addr -> Nat] /\ Floor(b) \in Nat /\ b \in Seq(CallRec)
  BY <1>1, Standing
<1>3. calls' = Delivered(b) /\ phase' = "left" /\ tail_id' = 0
  BY <1>1 DEF Ret
<1>4. /\ V \in Seq(Meanings(mem)) /\ Len(V) = Len(b) /\ Act!Running /\ OutcomeView = "run" /\ TailView = Act!None
      /\ Act!Front(StackView) = V /\ StackView = Append(V, T) /\ T \in Meanings(mem) /\ Act!Top = T
  BY <1>1, Runs
<1>5. mem'[r] \in Act!Readable(T)
  BY <1>1, Reads
<1>6. TailView' = TailView
  BY <1>3, <1>4 DEF TailView, Act!None
<1>7. StackView' = View(calls', mem')
  BY DEF StackView, View
<1>8. OutcomeView' = IF calls' = <<>> THEN "done" ELSE "run"
  BY <1>3 DEF OutcomeView
<1>9. Len(b) \in Nat /\ Len(StackView) = Len(b) + 1 /\ (b = <<>> <=> Len(b) = 0) /\ (V = <<>> <=> Len(V) = 0)
  <2> HIDE DEF V, T
  <2>1. Len(Append(V, T)) = Len(V) + 1
    BY <1>4, Pushed
  <2> QED BY <1>2, <1>4, <2>1, LenProperties, EmptySeq
<1> HIDE DEF r, q, T, V
<1>10. CASE b = <<>>
  <2>1. calls' = <<>> /\ V = <<>> /\ Len(StackView) = 1
    BY <1>3, <1>4, <1>9, <1>10 DEF Delivered
  <2>2. StackView' = <<>>
    <3>1. View(<<>>, mem') = <<>>
      BY DEF View
    <3> QED BY <1>7, <2>1, <3>1
  <2> QED BY <1>4, <1>6, <1>8, <2>1, <2>2 DEF Act!Return
<1>11. CASE b # <<>>
  <2> DEFINE bb == Front(b)
             c == Last(b)
             u == [c EXCEPT !.defined = TRUE]
             W == View(bb, mem)
             M == ActivationOf(c, mem)
  <2>1. bb \in Seq(CallRec) /\ c \in CallRec /\ b = Append(bb, c) /\ c = b[Len(b)]
    BY <1>2, <1>11, Peeled
  <2>2. Floor(b) = Low(c) /\ r = c.frame + ResSlot
    BY <1>11, <2>1 DEF Floor, ResultOf, r
  <2>3. Sound(bb, mem) /\ Fits(c, Floor(bb), ResultOf(bb), ArgsOf(bb), mem)
    <3>1. Sound(Append(bb, c), mem)
      BY <1>2, <2>1
    <3> QED BY <2>1, <3>1, Uncovered
  <2>4. /\ Framed(c) /\ Low(c) \in Nat /\ Low(c) <= c.frame /\ c.frame \in Nat /\ c.frame + 4 <= Ceiling(c)
        /\ Ceiling(c) = Floor(bb) /\ Floor(bb) \in Nat /\ c.frame + ArgSlot \in Addr
    BY <2>3, Spanned, Grounded DEF Fits
  <2>5. u \in CallRec /\ u.fn = c.fn /\ u.frame = c.frame /\ u.cells = c.cells /\ u.defined
    BY <2>1, WithFields
  <2>6. calls' = Append(bb, u)
    BY <1>3, <1>11 DEF Delivered
  <2> HIDE DEF u, c, bb
  <2>7. View(bb, mem') = W
    <3>1. \A x \in Addr : x >= Floor(bb) => x # r /\ x # q
      BY <1>1, <2>2, <2>4 DEF Addr, ResSlot
    <3>2. \A x \in Addr : x >= Floor(bb) => mem'[x] = mem[x]
      BY <1>1, <3>1
    <3> QED BY <2>3, <3>2, SameView
  <2>8. Cells(u, mem') = Cells(c, mem)
    <3>1. ASSUME NEW k \in DOMAIN c.cells PROVE mem'[c.cells[k]] = mem[c.cells[k]]
      <4>1. c.cells \in Seq(Addr)
        BY <2>1 DEF CallRec
      <4>2. k \in 1..Len(c.cells) /\ c.cells[k] \in Addr
        BY <4>1, LenProperties, ElementOfSeq
      <4>3. Low(c) <= c.cells[k] /\ c.cells[k] < c.frame /\ c.cells[k] \in Nat
        BY <2>4, <4>2, Parameters DEF Framed, Addr
      <4>4. c.cells[k] # r /\ c.cells[k] # q
        BY <1>1, <2>2, <2>4, <4>3 DEF ResSlot, Addr
      <4> QED BY <1>1, <4>2, <4>4
    <3> QED BY <2>5, <3>1 DEF Cells
  <2>9. mem'[c.frame + ArgSlot] = mem[c.frame + ArgSlot]
    <3>1. c.frame + ArgSlot # r /\ c.frame + ArgSlot # q
      BY <1>1, <2>2, <2>4 DEF ArgSlot, ResSlot, Addr
    <3> QED BY <1>1, <2>4, <3>1
  <2>10. ActivationOf(u, mem') = [M EXCEPT !.res = mem'[r]]
    BY <2>2, <2>5, <2>8, <2>9, OtherResult
  <2>11. StackView' = Append(W, ActivationOf(u, mem'))
    BY <1>7, <2>1, <2>5, <2>6, <2>7, ViewOfPushed
  <2>12. Act!Front(V) = W /\ Act!Last(V) = M
    <3>1. V = Append(W, M) /\ W \in Seq(Meanings(mem)) /\ M \in Meanings(mem)
      BY <2>1, ViewOfPushed DEF V
    <3> HIDE DEF W, M
    <3>2. Front(Append(W, M)) = W /\ Last(Append(W, M)) = M
      BY <3>1, Pushed
    <3> QED BY <3>1, <3>2, SameOperators
  <2>13. V # <<>> /\ Len(StackView) # 1 /\ calls' # <<>>
    <3>1. calls' # <<>>
      BY <2>1, <2>5, <2>6, Pushed
    <3> QED BY <1>4, <1>9, <1>11, <3>1
  <2> HIDE DEF W, M
  <2>14. StackView' \in {Append(Act!Front(V), [Act!Last(V) EXCEPT !.res = d]) : d \in Act!Readable(T)}
    BY <1>5, <2>10, <2>11, <2>12
  <2>15. OutcomeView' = "run"
    BY <1>8, <2>13
  <2> QED BY <1>4, <1>6, <2>13, <2>14, <2>15 DEF Act!Return
<1> QED BY <1>10, <1>11

\* What the callee finds in its new frame is what was passed.
LEMMA EnterMeans ==
  ASSUME NEW f \in Fns, NEW args \in Addr, NEW under, NEW m \in [Addr -> Nat], Sound(under, m),
         sp = Floor(under), args >= Floor(under) \/ args < Heap,
         f \in Variadic => args = ArgsOf(under),
         f \in ByVal => m[args] \in Addr /\ (m[args] >= Floor(under) \/ m[args] < Heap),
         Enter(f, args, ResultOf(under), m, under), ~Trap("exhausted")
  PROVE  /\ StackView' = Append(View(under, m), Act!Activation(f, IF f \in ByVal THEN m[m[args]] ELSE m[args]))
         /\ TailView' = Act!None /\ OutcomeView' = "run"
<1> DEFINE frame == Carve(f, under)
           new == Body(f, args, under)
           m2 == CopyIn(f, args, under, m)
<1>1. frame \in Int
  BY Grounded DEF Carve, FrameSize
<1>2. /\ frame >= Heap /\ (f \in ByVal => frame - 1 >= Heap)
      /\ mem' = m2 /\ calls' = Append(under, new) /\ phase' = "run" /\ tail_id' = 0
  BY <1>1, EnterIs
<1>3. /\ m2 \in [Addr -> Nat] /\ Fits(new, Floor(under), ResultOf(under), ArgsOf(under), m2)
      /\ \A a \in Addr : a >= Floor(under) \/ a < Heap => m2[a] = m[a]
      /\ IF f \in ByVal THEN m2[frame - 1] = m[m[args]] ELSE m2[frame + ArgSlot] = m[args]
  <2>1. CASE f \in ByVal
    BY <1>2, <2>1, CarvedCopy
  <2>2. CASE f \notin ByVal
    BY <1>2, <2>2, CarvedBare
  <2> QED BY <2>1, <2>2
<1>4. new.fn = f /\ new.frame = frame /\ new.defined = FALSE /\ new.cells = IF f \in ByVal THEN <<frame - 1>> ELSE <<>>
  BY DEF Body
<1> HIDE DEF frame, new, m2
<1>5. new \in CallRec /\ under \in Seq(CallRec)
  BY <1>3 DEF Fits, Framed, Sound
<1>6. View(under, m2) = View(under, m)
  BY <1>3, SameView
<1>7. ActivationOf(new, m2) = Act!Activation(f, IF f \in ByVal THEN m[m[args]] ELSE m[args])
  <2>1. ActivationOf(new, m2) = [fn |-> f, arg |-> IF f \in ByVal THEN -1 ELSE m2[frame + ArgSlot], res |-> -1,
                                 cells |-> Cells(new, m2)]
    BY <1>4 DEF ActivationOf, Cells
  <2>2. CASE f \in ByVal
    <3> DEFINE x == m[m[args]]
               C == Cells(new, m2)
    <3>1. x \in Nat
      BY <2>2
    <3>2. C \in Seq(Nat) /\ Len(C) = Len(new.cells) /\ \A k \in 1..Len(new.cells) : C[k] = m2[new.cells[k]]
      BY <1>3, <1>5, CellsView
    <3> HIDE DEF C, x
    <3>3. new.cells = <<frame - 1>> /\ Len(new.cells) = 1 /\ new.cells[1] = frame - 1
      BY <1>4, <2>2
    <3>4. m2[frame - 1] = x
      BY <1>3, <2>2 DEF x
    <3>5. Len(C) = 1 /\ C[1] = x
      BY <3>2, <3>3, <3>4
    <3>6. C = <<x>>
      <4>1. <<x>> \in Seq(Nat) /\ Len(<<x>>) = 1 /\ <<x>>[1] = x /\ \A k \in 1..1 : k = 1
        BY <3>1
      <4> QED BY <3>2, <3>5, <4>1, SeqEqual
    <3>7. ActivationOf(new, m2) = [fn |-> f, arg |-> -1, res |-> -1, cells |-> <<x>>]
      BY <2>1, <2>2, <3>6 DEF C
    <3>8. Act!Activation(f, x) = [fn |-> f, arg |-> -1, res |-> -1, cells |-> <<x>>]
      BY <2>2 DEF Act!Activation, Act!Undefined
    <3> QED BY <2>2, <3>7, <3>8 DEF x
  <2>3. CASE f \notin ByVal
    <3> DEFINE C == Cells(new, m2)
               x == m[args]
    <3>1. C \in Seq(Nat) /\ Len(C) = Len(new.cells)
      BY <1>3, <1>5, CellsView
    <3> HIDE DEF C
    <3>2. C = <<>>
      <4>1. Len(C) = 0
        BY <1>4, <2>3, <3>1, EmptySeq
      <4> QED BY <3>1, <4>1, EmptySeq
    <3> HIDE DEF x
    <3>3. m2[frame + ArgSlot] = x
      BY <1>3, <2>3 DEF x
    <3>4. ActivationOf(new, m2) = [fn |-> f, arg |-> x, res |-> -1, cells |-> <<>>]
      BY <2>1, <2>3, <3>2, <3>3 DEF C
    <3>5. Act!Activation(f, x) = [fn |-> f, arg |-> x, res |-> -1, cells |-> <<>>]
      BY <2>3 DEF Act!Activation, Act!Undefined
    <3> QED BY <2>3, <3>4, <3>5 DEF x
  <2> QED BY <2>2, <2>3
<1>8. StackView' = View(calls', mem')
  BY DEF StackView, View
<1>9. View(Append(under, new), m2) = Append(View(under, m2), ActivationOf(new, m2))
  BY <1>5, ViewOfPushed
<1>10. StackView' = Append(View(under, m), ActivationOf(new, m2))
  BY <1>2, <1>6, <1>8, <1>9
<1>11. TailView' = Act!None
  BY <1>2 DEF TailView, Act!None
<1>12. calls' # <<>>
  BY <1>2, <1>5, Pushed
<1>13. OutcomeView' = "run"
  BY <1>2, <1>12 DEF OutcomeView
<1> QED BY <1>7, <1>10, <1>11, <1>13

LEMMA CallMeans == ASSUME CallInv, Call PROVE Act!Call \/ Act!CallUnknown \/ Act!Refuse
<1>0. phase = "run" /\ calls # <<>>
  BY SomeCall DEF Call
<1> DEFINE b == Front(calls)
           t == Top
           u == [t EXCEPT !.saved = sp]
           under == Append(b, u)
           args == t.frame + Outgoing
<1>1. PICK f \in Fns \cup Pointers :
        IF Dispatch(f) = 0 THEN Trap("invalid pointer")
        ELSE \E v \in Arguments(Dispatch(f)) :
               Enter(Dispatch(f), args, t.frame + ResSlot, [mem EXCEPT ![args] = v], under)
  BY DEF Call
<1>2. /\ StackView = Append(View(b, mem), ActivationOf(t, mem)) /\ Act!Running /\ TailView = Act!None
      /\ OutcomeView = "run"
  BY <1>0, Runs
<1>3. CASE Dispatch(f) = 0
  <2>1. f \notin Fns
    BY <1>3, DispatchFinds, Parameters
  <2>2. Pointers \ Act!Fns # {}
    BY <2>1, SameOperators
  <2>3. UNCHANGED <<mem, tail_id, calls>> /\ phase' = "invalid pointer"
    BY <1>1, <1>3 DEF Trap
  <2>4. StackView' = StackView /\ TailView' = TailView
    BY <2>3 DEF StackView, ActivationOf, TailView
  <2>5. OutcomeView' = "invalid pointer"
    BY <2>3 DEF OutcomeView
  <2> QED BY <1>2, <2>2, <2>4, <2>5 DEF Act!CallUnknown
<1>4. CASE Dispatch(f) # 0
  <2>1. f \in Fns /\ Dispatch(f) = f
    BY <1>4, DispatchFinds, Parameters
  <2>2. PICK v \in Arguments(f) : Enter(f, args, t.frame + ResSlot, [mem EXCEPT ![args] = v], under)
    BY <1>1, <1>4, <2>1
  <2> DEFINE m == [mem EXCEPT ![args] = v]
             d == IF f \in ByVal THEN mem[v] ELSE v
  <2>3. CASE Trap("exhausted")
    BY <1>2, <2>3, Refuses
  <2>4. CASE ~Trap("exhausted")
    <3>1. d \in Act!Passed(f) /\ v \in Nat /\ (f \in ByVal => v \in ToSet(t.cells))
      BY <1>0, <2>1, Reads
    <3>2. /\ m \in [Addr -> Nat] /\ Sound(under, m) /\ sp = Floor(under)
          /\ args \in Addr /\ args >= Floor(under) /\ ArgsOf(under) = args /\ m[args] = v
          /\ ResultOf(under) = t.frame + ResSlot
      BY <1>0, <3>1, Packed
    <3>3. /\ Sound(b, mem) /\ mem \in [Addr -> Nat] /\ Framed(t) /\ Floor(b) \in Nat /\ Ceiling(t) = Floor(b)
          /\ t \in CallRec /\ b \in Seq(CallRec) /\ sp = Low(t)
      BY <1>0, Standing
    <3>4. /\ Low(t) \in Nat /\ Low(t) <= t.frame /\ t.frame \in Nat /\ t.frame + 4 <= Ceiling(t) /\ Ceiling(t) <= MemTop
          /\ MemTop \in Nat /\ t.frame + ArgSlot \in Addr /\ t.frame + ResSlot \in Addr
      BY <3>3, Spanned, Parameters
    <3>5. \A x \in ToSet(t.cells) : x \in Addr /\ x \in Nat /\ Low(t) <= x /\ x < t.frame
      BY <1>0, Named
    <3>6. \A x \in Addr : x # args => m[x] = mem[x]
      OBVIOUS
    <3>7. /\ f \in ByVal => m[args] \in Addr /\ (m[args] >= Floor(under) \/ m[args] < Heap)
          /\ f \in ByVal => m[m[args]] = mem[v]
      <4> SUFFICES ASSUME f \in ByVal
                   PROVE  m[args] \in Addr /\ (m[args] >= Floor(under) \/ m[args] < Heap) /\ m[m[args]] = mem[v]
        OBVIOUS
      <4> HIDE DEF m
      <4>1. v \in Addr /\ v \in Nat /\ Low(t) <= v /\ v < t.frame
        BY <3>1, <3>5
      <4>2. v # args
        BY <3>4, <4>1 DEF Outgoing
      <4> QED BY <3>2, <3>3, <3>4, <3>6, <4>1, <4>2
    <3>8. Enter(f, args, ResultOf(under), m, under)
      BY <2>2, <3>2
    <3> HIDE DEF m
    <3>9. u \in CallRec /\ u.fn = t.fn /\ u.frame = t.frame /\ u.cells = t.cells /\ u.defined = t.defined
      <4>1. sp \in 0..MemTop
        BY <3>3, <3>4
      <4> QED BY <3>3, <4>1, WithFields
    <3> HIDE DEF u
    <3>10. View(b, m) = View(b, mem)
      <4>1. \A x \in Addr : x >= Floor(b) => m[x] = mem[x]
        BY <3>3, <3>4, <3>6 DEF Addr, Outgoing
      <4> QED BY <3>3, <4>1, SameView
    <3>11. ActivationOf(u, m) = ActivationOf(t, mem)
      <4>1. m[t.frame + ArgSlot] = mem[t.frame + ArgSlot] /\ m[t.frame + ResSlot] = mem[t.frame + ResSlot]
        BY <3>4, <3>6 DEF ArgSlot, ResSlot, Outgoing
      <4>2. ASSUME NEW k \in DOMAIN t.cells PROVE m[t.cells[k]] = mem[t.cells[k]]
        <5>1. t.cells[k] \in ToSet(t.cells)
          BY DEF ToSet
        <5>2. t.cells[k] \in Addr /\ t.cells[k] \in Nat /\ t.cells[k] < t.frame
          BY <3>5, <5>1
        <5> QED BY <3>4, <3>6, <5>2 DEF Outgoing
      <4> QED BY <3>3, <3>9, <4>1, <4>2, SameMeaning
    <3>12. View(under, m) = StackView
      BY <1>2, <3>3, <3>9, <3>10, <3>11, ViewOfPushed
    <3> HIDE DEF under, args
    <3>13. (IF f \in ByVal THEN m[m[args]] ELSE m[args]) = d
      BY <3>2, <3>7
    <3>14. /\ StackView' = Append(View(under, m), Act!Activation(f, IF f \in ByVal THEN m[m[args]] ELSE m[args]))
           /\ TailView' = Act!None /\ OutcomeView' = "run"
      BY <2>1, <2>4, <3>2, <3>7, <3>8, EnterMeans
    <3> HIDE DEF d
    <3>15. StackView' = Append(StackView, Act!Activation(f, d))
      BY <3>12, <3>13, <3>14
    <3>16. StackView' \in UNION {{Append(StackView, Act!Activation(g, e)) : e \in Act!Passed(g)} : g \in Act!Fns}
      <4>1. StackView' \in {Append(StackView, Act!Activation(f, e)) : e \in Act!Passed(f)}
        BY <3>1, <3>15
      <4> QED BY <2>1, <4>1, SameOperators
    <3> QED BY <1>2, <3>14, <3>16 DEF Act!Call
  <2> QED BY <2>3, <2>4
<1> QED BY <1>3, <1>4

LEMMA TailStepMeans == ASSUME CallInv, TailStep PROVE Act!BeginTail \/ Act!Refuse
<1>1. phase = "left" /\ tail_id # 0
  BY DEF TailStep
<1>2. /\ tail_id \in Fns /\ tail_id \notin Variadic /\ (tail_id \in ByVal => mem[TailArgs] = TailCopy)
      /\ pending = ResultOf(calls) /\ Sound(calls, mem) /\ sp = Floor(calls) /\ mem \in [Addr -> Nat]
  BY <1>1 DEF CallInv, Control
<1>3. Dispatch(tail_id) = tail_id
  BY <1>2, DispatchFinds, Parameters
<1>4. Enter(tail_id, TailArgs, ResultOf(calls), mem, calls)
  BY <1>1, <1>2, <1>3 DEF TailStep
<1>5. TailArgs \in Addr /\ TailArgs < Heap /\ TailCopy \in Addr /\ TailCopy < Heap
  BY Parameters DEF Addr, TailArgs, TailCopy, Heap, FrameSize
<1>6. OutcomeView = "run"
  BY <1>1, OutcomeIs
<1> DEFINE d == IF tail_id \in ByVal THEN mem[mem[TailArgs]] ELSE mem[TailArgs]
<1>7. TailView = [fn |-> tail_id, arg |-> d]
  BY <1>1 DEF TailView
<1>8. CASE Trap("exhausted")
  BY <1>6, <1>8, Refuses
<1>9. CASE ~Trap("exhausted")
  <2>1. /\ StackView' = Append(View(calls, mem), Act!Activation(tail_id, d))
        /\ TailView' = Act!None /\ OutcomeView' = "run"
    BY <1>2, <1>4, <1>5, <1>9, EnterMeans
  <2> HIDE DEF d
  <2>2. TailView.fn = tail_id /\ TailView.arg = d /\ TailView # Act!None
    <3>1. TailView.fn = tail_id /\ TailView.arg = d
      BY <1>7
    <3>2. Act!None.fn = 0
      BY DEF Act!None
    <3> QED BY <1>1, <3>1, <3>2
  <2> QED BY <1>6, <2>1, <2>2, StackViewIs DEF Act!BeginTail
<1> QED BY <1>8, <1>9

LEMMA InitMeans == Init => Act!Init
<1> SUFFICES ASSUME Init PROVE Act!Init
  OBVIOUS
<1> DEFINE frame == MemTop - FrameSize(Main)
           c == [fn |-> Main, frame |-> frame, args |-> BootArgs, result |-> BootResult,
                 defined |-> FALSE, cells |-> <<>>, saved |-> 0]
<1>1. PICK d \in Data :
        /\ mem = [a \in Addr |-> IF a \in {BootArgs, frame + ArgSlot} THEN d ELSE IF a = frame THEN 1 ELSE 0]
        /\ tail_id = 0 /\ calls = <<c>> /\ phase = "run"
  BY DEF Init
<1>2. CallInv
  BY InitOK
<1>3. calls # <<>> /\ Top \in CallRec /\ Front(calls) \in Seq(CallRec) /\ mem \in [Addr -> Nat] /\ Framed(Top)
  BY <1>1, <1>2, SomeCall, Standing
<1>4. Top = c /\ Len(Front(calls)) = 0 /\ Front(calls) = <<>>
  <2>1. calls \in Seq(CallRec) /\ Len(calls) = 1 /\ calls[1] = c
    BY <1>1, <1>2 DEF CallInv, Sound
  <2> HIDE DEF c
  <2>2. Len(Front(calls)) = Len(calls) - 1 /\ Top = calls[Len(calls)]
    BY <1>3, <2>1, Peeled DEF Top
  <2>3. Front(calls) = <<>>
    BY <1>3, <2>1, <2>2, EmptySeq
  <2> QED BY <2>1, <2>2, <2>3
<1> DEFINE T == ActivationOf(Top, mem)
           V == View(Front(calls), mem)
<1>5. /\ StackView = Append(V, T) /\ V \in Seq(Meanings(mem)) /\ T \in Meanings(mem) /\ Len(V) = Len(Front(calls))
      /\ TailView = Act!None /\ OutcomeView = "run"
  BY <1>1, <1>2, Runs
<1>6. mem[frame + ArgSlot] = d /\ Main \notin ByVal
  <2>1. frame + ArgSlot \in Addr
    BY <1>3, <1>4, Spanned
  <2> QED BY <1>1, <2>1, Parameters
<1>7. T = Act!Activation(Main, d)
  <2>1. Cells(Top, mem) = <<>>
    <3>1. Cells(Top, mem) \in Seq(Nat) /\ Len(Cells(Top, mem)) = Len(Top.cells)
      BY <1>3, CellsView
    <3>2. Len(Top.cells) = 0
      BY <1>4, EmptySeq
    <3> QED BY <3>1, <3>2, EmptySeq
  <2>2. T = [fn |-> Main, arg |-> mem[frame + ArgSlot], res |-> -1, cells |-> Cells(Top, mem)]
    BY <1>4, <1>6 DEF ActivationOf, Cells
  <2>3. Act!Activation(Main, d) = [fn |-> Main, arg |-> d, res |-> -1, cells |-> <<>>]
    BY <1>6 DEF Act!Activation, Act!Undefined
  <2> QED BY <1>6, <2>1, <2>2, <2>3
<1> HIDE DEF T, V, c, frame
<1>8. StackView = <<T>>
  <2>1. V = <<>>
    BY <1>4, <1>5, EmptySeq
  <2> QED BY <1>5, <2>1
<1> QED BY <1>5, <1>7, <1>8 DEF Act!Init

\* Calls, returns, tail calls, byval copies, allocas and va_arg do what
\* Activations says they mean, whatever the table of functions, the data and the
\* depth: what is passed is what the callee sees, through the shared tail_args
\* too, and nothing a caller holds is disturbed by what it calls (emit_function,
\* invoke, emit_call, tail_tree).
THEOREM CallsMeanActivations == Spec => ImplementsCalls
<1>1. ASSUME CallInv, [Next]_vars PROVE Act!Next \/ UNCHANGED Act!actVars
  <2>1. CASE UNCHANGED vars
    BY <2>1, Stutters DEF vars, StackView, ActivationOf, TailView, OutcomeView
  <2>2. CASE Call
    BY <1>1, <2>2, CallMeans DEF Act!Next
  <2>3. CASE Alloca
    BY <1>1, <2>3, AllocaMeans DEF Act!Next
  <2>4. CASE Store
    BY <1>1, <2>4, StoreMeans DEF Act!Next
  <2>5. CASE StackRestore
    BY <1>1, <2>5, StackRestoreMeans DEF Act!Next
  <2>6. CASE UseOutgoing
    BY <1>1, <2>6, UseOutgoingMeans
  <2>7. CASE VaArg
    BY <1>1, <2>7, VaArgMeans DEF Act!Next
  <2>8. CASE Ret
    BY <1>1, <2>8, RetMeans DEF Act!Next
  <2>9. CASE MustTail
    BY <1>1, <2>9, MustTailMeans DEF Act!Next
  <2>10. CASE TailStep
    BY <1>1, <2>10, TailStepMeans DEF Act!Next
  <2>11. CASE Finish
    BY <1>1, <2>11, FinishMeans
  <2> QED BY <1>1, <2>1, <2>2, <2>3, <2>4, <2>5, <2>6, <2>7, <2>8, <2>9, <2>10, <2>11 DEF Next
<1>2. CallInv /\ [Next]_vars => [Act!Next]_Act!actVars
  BY <1>1
<1> QED BY <1>2, InitMeans, CallInvariant, PTL DEF Spec, ImplementsCalls, Act!Spec
=============================================================================
