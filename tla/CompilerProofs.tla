--------------------------- MODULE CompilerProofs ---------------------------
(***************************************************************************)
(* Four parts of the compiler.                                             *)
(*                                                                         *)
(* Edges: for every legal list of copies, every memory and every layout,   *)
(* the copies of an edge act as one simultaneous assignment and leave the  *)
(* rest of the frame and the constant pool alone.  Simultaneous speaks     *)
(* only of the end.  It is inductive once we say what a pending copy       *)
(* relies on: its source is either the slot it had in the plan or a        *)
(* temporary of its own (SourcesPlaced), and that source still holds what  *)
(* it held when the edge was entered (PendingIntact).                      *)
(* Cycles are counted: each saved copy has a partner of its own            *)
(* (FrugalInv), and where all copies are blocked they form circles.        *)
(*                                                                         *)
(* Pruning: a pruned program is whole, and pruned for good, whatever it    *)
(* consists of.  A complete set has the roots, what its members refer to,  *)
(* and, with an indirect call, all the addresses that were shown.  What a  *)
(* pass finds is in every complete set; when it ends it is one itself.     *)
(*                                                                         *)
(* Bodies: the frame of a function, its slots, its edges and its dispatch  *)
(* loop together implement its SSA form.  Dominance orders the values; a   *)
(* view leads to an earlier value, so every value has a root and what is   *)
(* written when one value is computed holds no other that is available     *)
(* (SlotsApart).  Every list of copies is then legal, the edge is one      *)
(* assignment to the phis, and each step of the frame is one of SsaMachine *)
(* or none.                                                                *)
(*                                                                         *)
(* Templates: what the analysis of $0 accepts never uses a value that was  *)
(* not assigned.  While a template runs, each list that is left has what   *)
(* was known where it begins; that holds, or the list that runs before it  *)
(* is sure to assign $0 (FlowOf).                                          *)
(***************************************************************************)
EXTENDS SsaFrame, Pruning, Assembly, WellOrder, FiniteSetTheorems, TLAPS


SourcesPlaced ==
  \A i \in todo :
    \/ source[i] = plan[i].src /\ local[i] = plan[i].local
    \/ /\ local[i] = TRUE
       /\ Outgoing <= source[i]
       /\ source[i] + plan[i].bytes <= Outgoing + temporary

FrameHolds == Reserved /\ temporary <= outgoing_size

PendingIntact ==
  \A i \in todo : \A k \in 0 .. plan[i].bytes - 1 :
    mem[source[i] + k] = start[plan[i].src + k]

Arrived ==
  \A i \in (1..Len(plan)) \ todo : \A k \in 0 .. plan[i].bytes - 1 :
    mem[plan[i].dst + k] = start[plan[i].src + k]

Inv == /\ TypeOK /\ SourcesPlaced /\ FrameHolds
       /\ PendingIntact /\ Arrived /\ Untouched
       /\ status = "branched" => todo = {}

-----------------------------------------------------------------------------
LEMMA Numbers ==
  /\ Pool \in Nat /\ PcBytes \in Nat /\ Outgoing \in Nat /\ Capacity \in Nat
  /\ PcBytes > 0 /\ PcBytes <= Outgoing /\ Outgoing < Capacity
BY LayoutAssumption

LEMMA Addresses ==
  /\ \A a \in Addr : a \in Int /\ -Pool <= a /\ a < Capacity
  /\ \A a \in Int : -Pool <= a /\ a < Capacity => a \in Addr
BY Numbers DEF Addr

\* The bytes of a slot that lies in memory.
LEMMA Bytewise ==
  ASSUME NEW s \in Int, NEW n \in Nat, NEW k \in 0..n-1, -Pool <= s, s + n <= Capacity
  PROVE  s + k \in Addr /\ s + k \in Int /\ s <= s + k /\ s + k < s + n
<1>1. k \in Int /\ 0 <= k /\ k < n
  OBVIOUS
<1>2. s + k \in Int /\ s <= s + k /\ s + k < s + n
  BY <1>1
<1>3. -Pool <= s + k /\ s + k < Capacity
  BY <1>2, Numbers
<1> QED BY <1>2, <1>3, Addresses

LEMMA AlignUpBound ==
  ASSUME NEW n \in Nat
  PROVE  AlignUp(n) \in Nat /\ n <= AlignUp(n)
<1>1. \A m \in Nat : m < (m \div Align) * Align + Align /\ (m \div Align) * Align \in Nat
  BY LayoutAssumption, SMTT(30)
<1>2. n + Align - 1 \in Nat
  BY LayoutAssumption
<1> QED BY <1>1, <1>2, LayoutAssumption DEF AlignUp

\* What a legal plan gives us about one copy, in the form the steps use it.
LEMMA PlanFacts ==
  ASSUME LegalPlan(plan), NEW i \in 1..Len(plan)
  PROVE  /\ plan[i].dst \in Int /\ plan[i].src \in Int /\ plan[i].bytes \in Nat
         /\ plan[i].local \in BOOLEAN
         /\ plan[i].bytes > 0
         /\ PcBytes <= plan[i].dst /\ plan[i].dst + plan[i].bytes <= Outgoing
         /\ -Pool <= plan[i].src
         /\ plan[i].local => PcBytes <= plan[i].src /\ plan[i].src + plan[i].bytes <= Outgoing
         /\ ~plan[i].local => plan[i].src + plan[i].bytes <= 0
<1>1. LegalMove(plan[i])
  BY DEF LegalPlan
<1>2. plan[i] \in Move
  BY <1>1 DEF LegalMove
<1>3. plan[i].dst \in Addr /\ plan[i].src \in Addr /\ plan[i].bytes \in Nat
      /\ plan[i].local \in BOOLEAN
  BY <1>2 DEF Move
<1> QED BY <1>1, <1>3, LayoutAssumption DEF LegalMove, Addr

LEMMA CopyRead ==
  ASSUME NEW m \in [Addr -> Value], NEW dst \in Int, NEW src \in Int, NEW n \in Nat,
         -Pool <= src, src + n <= Capacity
  PROVE  /\ Copy(m, dst, src, n) \in [Addr -> Value]
         /\ \A a \in Addr : a < dst \/ dst + n <= a => Copy(m, dst, src, n)[a] = m[a]
         /\ \A k \in 0..n-1 : dst + k \in Addr => Copy(m, dst, src, n)[dst + k] = m[src + k]
<1>1. \A a \in Addr : dst <= a /\ a < dst + n => src + (a - dst) \in Addr
  BY LayoutAssumption DEF Addr
<1>2. Copy(m, dst, src, n) \in [Addr -> Value]
  BY <1>1 DEF Copy
<1>3. \A a \in Addr : a < dst \/ dst + n <= a => Copy(m, dst, src, n)[a] = m[a]
  BY LayoutAssumption DEF Copy, Addr
<1>4. ASSUME NEW k \in 0..n-1, dst + k \in Addr
      PROVE  Copy(m, dst, src, n)[dst + k] = m[src + k]
  <2>1. src + ((dst + k) - dst) = src + k
    OBVIOUS
  <2> QED BY <1>4, <2>1 DEF Copy
<1> QED BY <1>2, <1>3, <1>4

LEMMA InitInv == Init => Inv
<1> SUFFICES ASSUME Init PROVE Inv
  OBVIOUS
<1>1. LegalPlan(plan) /\ start \in [Addr -> Value] /\ mem = start
  BY LayoutAssumption DEF Init
<1>2. \A i \in 1..Len(plan) : plan[i].src \in Addr /\ plan[i].local \in BOOLEAN
  <2> TAKE i \in 1..Len(plan)
  <2>1. plan[i] \in Move
    BY <1>1 DEF LegalPlan, LegalMove
  <2> QED BY <2>1 DEF Move
<1>3. TypeOK
  BY <1>1, <1>2, LayoutAssumption DEF Init, TypeOK, Listed
<1>4. SourcesPlaced
  BY DEF Init, SourcesPlaced, Listed
<1>5. FrameHolds
  BY LayoutAssumption DEF Init, FrameHolds, Reserved
<1>6. PendingIntact
  BY <1>1 DEF Init, PendingIntact, Listed
<1>7. Arrived
  BY <1>1 DEF Init, Arrived, Listed
<1>8. Untouched
  BY <1>1 DEF Untouched
<1> QED BY <1>3, <1>4, <1>5, <1>6, <1>7, <1>8 DEF Inv, Init

\* Where the sources of pending copies lie.
LEMMA SourceFacts ==
  ASSUME Inv, NEW i \in todo
  PROVE  /\ i \in 1..Len(plan) /\ source[i] \in Int
         /\ -Pool <= source[i]
         /\ source[i] + plan[i].bytes <= Outgoing + temporary
         /\ source[i] + plan[i].bytes <= Capacity
         /\ ~local[i] => source[i] + plan[i].bytes <= 0
<1>1. i \in 1..Len(plan) /\ LegalPlan(plan) /\ temporary \in Nat
  BY DEF Inv, TypeOK
<1>2. /\ plan[i].src \in Int /\ plan[i].bytes \in Nat
      /\ -Pool <= plan[i].src
      /\ plan[i].local => plan[i].src + plan[i].bytes <= Outgoing
      /\ ~plan[i].local => plan[i].src + plan[i].bytes <= 0
  BY <1>1, PlanFacts
<1>3. source[i] \in Int /\ -Pool <= source[i]
  BY <1>1, Numbers, Addresses DEF Inv, TypeOK
<1>4. Outgoing + temporary <= Capacity
  BY <1>1, Numbers DEF Inv, TypeOK, FrameHolds, Reserved
<1>5. CASE source[i] = plan[i].src /\ local[i] = plan[i].local
  <2>1. local[i] \in BOOLEAN
    BY <1>1 DEF Inv, TypeOK
  <2> QED BY <1>1, <1>2, <1>3, <1>4, <1>5, <2>1, Numbers
<1>6. CASE /\ local[i] = TRUE
           /\ Outgoing <= source[i]
           /\ source[i] + plan[i].bytes <= Outgoing + temporary
  BY <1>1, <1>2, <1>3, <1>4, <1>6, Numbers
<1> QED BY <1>5, <1>6 DEF Inv, SourcesPlaced

LEMMA EmitPreserves == Inv /\ EmitCopy => Inv'
<1> SUFFICES ASSUME Inv, EmitCopy PROVE Inv'
  OBVIOUS
<1>0. PICK i \in todo : /\ Ready(i)
                        /\ mem' = Copy(mem, plan[i].dst, source[i], plan[i].bytes)
                        /\ todo' = todo \ {i}
  BY DEF EmitCopy
<1>u. UNCHANGED <<plan, source, local, temporary, outgoing_size, frame_size, target, start, status>>
      /\ status = "copying"
  BY DEF EmitCopy
<1>t. LegalPlan(plan) /\ todo \subseteq 1..Len(plan) /\ mem \in [Addr -> Value]
  BY DEF Inv, TypeOK
<1>p. \A j \in 1..Len(plan) :
         /\ plan[j].dst \in Int /\ plan[j].src \in Int /\ plan[j].bytes \in Nat
         /\ plan[j].bytes > 0
         /\ PcBytes <= plan[j].dst /\ plan[j].dst + plan[j].bytes <= Outgoing
  BY <1>t, PlanFacts
<1>s. \A j \in todo : /\ source[j] \in Int /\ -Pool <= source[j]
                      /\ source[j] + plan[j].bytes <= Capacity
                      /\ ~local[j] => source[j] + plan[j].bytes <= 0
  BY SourceFacts
<1>1. /\ mem' \in [Addr -> Value]
      /\ \A a \in Addr : a < plan[i].dst \/ plan[i].dst + plan[i].bytes <= a => mem'[a] = mem[a]
      /\ \A k \in 0..plan[i].bytes - 1 :
           plan[i].dst + k \in Addr => mem'[plan[i].dst + k] = mem[source[i] + k]
  <2>1. i \in 1..Len(plan)
    BY <1>t
  <2>2. /\ plan[i].dst \in Int /\ plan[i].bytes \in Nat /\ source[i] \in Int
        /\ -Pool <= source[i] /\ source[i] + plan[i].bytes <= Capacity
    BY <1>p, <1>s, <2>1
  <2>3. mem' = Copy(mem, plan[i].dst, source[i], plan[i].bytes)
    BY <1>0
  <2>4. mem' \in [Addr -> Value]
    BY <1>t, <2>2, <2>3, CopyRead
  <2>5. \A a \in Addr : a < plan[i].dst \/ plan[i].dst + plan[i].bytes <= a => mem'[a] = mem[a]
    BY <1>t, <2>2, <2>3, CopyRead
  <2>6. \A k \in 0..plan[i].bytes - 1 :
          plan[i].dst + k \in Addr => mem'[plan[i].dst + k] = mem[source[i] + k]
    BY SMTT(60), <1>t, <2>2, <2>3, CopyRead
  <2> QED BY <2>4, <2>5, <2>6
<1>2. TypeOK'
  BY <1>0, <1>1, <1>u DEF Inv, TypeOK
<1>3. SourcesPlaced' /\ FrameHolds'
  BY <1>0, <1>u DEF Inv, SourcesPlaced, FrameHolds, Reserved
<1>4. PendingIntact'
  <2> SUFFICES ASSUME NEW j \in todo \ {i}, NEW k \in 0..plan[j].bytes - 1
               PROVE  mem'[source[j] + k] = start[plan[j].src + k]
    BY <1>0, <1>u DEF PendingIntact
  <2>1. mem[source[j] + k] = start[plan[j].src + k]
    BY DEF Inv, PendingIntact
  <2>2. i \in 1..Len(plan) /\ j \in 1..Len(plan)
    BY <1>t
  <2>3. source[j] + k \in Addr
    <3>1. /\ source[j] \in Int /\ -Pool <= source[j] /\ plan[j].bytes \in Nat
          /\ source[j] + plan[j].bytes <= Capacity
      BY <1>s, <1>p, <2>2
    <3> QED BY <3>1, Bytewise
  <2>4. source[j] + k < plan[i].dst \/ plan[i].dst + plan[i].bytes <= source[j] + k
    <3>1. CASE local[j]
      <4>1. ~Overlaps(plan[i].dst, plan[i].bytes, source[j], plan[j].bytes)
        BY <1>0, <3>1 DEF Ready, Blocked, Reads, SourceOffset
      <4> QED BY SMTT(60), <4>1, <1>s, <1>p, <2>2 DEF Overlaps
    <3>2. CASE ~local[j]
      <4>1. source[j] + plan[j].bytes <= 0 /\ source[j] \in Int
        BY <3>2, <1>s
      <4>2. PcBytes <= plan[i].dst /\ plan[i].dst \in Int /\ plan[j].bytes \in Nat
        BY <1>p, <2>2
      <4> QED BY <4>1, <4>2, Numbers
    <3> QED BY <3>1, <3>2
  <2> QED BY <1>1, <2>1, <2>3, <2>4
<1>5. Arrived'
  <2> SUFFICES ASSUME NEW j \in (1..Len(plan)) \ (todo \ {i}), NEW k \in 0..plan[j].bytes - 1
               PROVE  mem'[plan[j].dst + k] = start[plan[j].src + k]
    BY <1>0, <1>u DEF Arrived
  <2>1. i \in 1..Len(plan)
    BY <1>t
  <2>2. plan[j].dst + k \in Addr
    <3>1. /\ plan[j].dst \in Int /\ plan[j].bytes \in Nat
          /\ -Pool <= plan[j].dst /\ plan[j].dst + plan[j].bytes <= Capacity
      BY SMTT(60), <1>p, Numbers
    <3> QED BY <3>1, Bytewise
  <2>3. CASE j = i
    BY <1>1, <2>2, <2>3 DEF Inv, PendingIntact
  <2>4. CASE j # i
    <3>1. ~Overlaps(plan[i].dst, plan[i].bytes, plan[j].dst, plan[j].bytes)
      BY <1>t, <2>1, <2>4 DEF LegalPlan
    <3>2. plan[j].dst + k < plan[i].dst \/ plan[i].dst + plan[i].bytes <= plan[j].dst + k
      BY SMTT(60), <3>1, <1>p, <2>1 DEF Overlaps
    <3>3. mem[plan[j].dst + k] = start[plan[j].src + k]
      BY <2>4 DEF Inv, Arrived
    <3> QED BY <1>1, <2>2, <3>2, <3>3
  <2> QED BY <2>3, <2>4
<1>6. Untouched'
  <2>1. i \in 1..Len(plan)
    BY <1>t
  <2>2. ASSUME NEW a \in Addr, a < Outgoing, ~IsTarget(a), ~(0 <= a /\ a < PcBytes)
        PROVE  mem'[a] = start[a]
    <3>1. a < plan[i].dst \/ plan[i].dst + plan[i].bytes <= a
      <4>1. ~(plan[i].dst <= a /\ a < plan[i].dst + plan[i].bytes)
        BY <2>1, <2>2 DEF IsTarget
      <4> QED BY <4>1, <1>p, <2>1, Numbers, Addresses
    <3> QED BY <1>1, <2>2, <3>1 DEF Inv, Untouched
  <2>3. ASSUME NEW a \in Addr, a >= Outgoing + temporary PROVE mem'[a] = start[a]
    <3>1. plan[i].dst + plan[i].bytes <= a
      BY SMTT(60), <1>p, <2>1, <2>3, Numbers, Addresses DEF Inv, TypeOK
    <3> QED BY <1>1, <2>3, <3>1 DEF Inv, Untouched
  <2> QED BY <2>2, <2>3, <1>u DEF Untouched, IsTarget
<1> QED BY <1>2, <1>3, <1>4, <1>5, <1>6, <1>u DEF Inv

LEMMA BreakPreserves == Inv /\ BreakCycle => Inv'
<1> SUFFICES ASSUME Inv, BreakCycle PROVE Inv'
  OBVIOUS
<1>u. UNCHANGED <<plan, todo, start>> /\ target' = target /\ status = "copying"
  BY DEF BreakCycle, GiveUp, SaveSource
<1>t. /\ LegalPlan(plan) /\ todo \subseteq 1..Len(plan) /\ mem \in [Addr -> Value]
      /\ source \in [1..Len(plan) -> Addr] /\ local \in [1..Len(plan) -> BOOLEAN]
      /\ temporary \in Nat /\ outgoing_size \in Nat /\ frame_size \in Nat
      /\ start \in [Addr -> Value] /\ target \in Value
  BY DEF Inv, TypeOK
<1>a. CASE /\ status' = "error"
           /\ UNCHANGED <<source, local, temporary, outgoing_size, frame_size, mem>>
  BY <1>a, <1>u DEF Inv, TypeOK, SourcesPlaced, FrameHolds, Reserved, PendingIntact, Arrived,
                    Untouched, IsTarget
<1>b. ASSUME NEW i \in todo, NEW total, NEW size, NEW frame,
             total = temporary + plan[i].bytes,
             size = Larger(outgoing_size, total),
             frame = AlignUp(Outgoing + size),
             ~(frame > Capacity),
             mem' = Copy(mem, Outgoing + temporary, source[i], plan[i].bytes),
             source' = [source EXCEPT ![i] = Outgoing + temporary],
             local' = [local EXCEPT ![i] = TRUE],
             temporary' = total, outgoing_size' = size, frame_size' = frame,
             status' = status
      PROVE  Inv'
  <2>p. \A j \in 1..Len(plan) :
           /\ plan[j].dst \in Int /\ plan[j].src \in Int /\ plan[j].bytes \in Nat
           /\ plan[j].bytes > 0
           /\ PcBytes <= plan[j].dst /\ plan[j].dst + plan[j].bytes <= Outgoing
    BY <1>t, PlanFacts
  <2>s. \A j \in todo : /\ source[j] \in Int /\ -Pool <= source[j]
                        /\ source[j] + plan[j].bytes <= Outgoing + temporary
                        /\ source[j] + plan[j].bytes <= Capacity
    BY SourceFacts
  <2>i. i \in 1..Len(plan) /\ plan[i].bytes \in Nat /\ plan[i].bytes > 0
    BY <1>t, <2>p
  <2>1. /\ total \in Nat /\ size \in Nat /\ frame \in Nat
        /\ total <= size /\ temporary < total
        /\ Outgoing + total <= frame /\ frame <= Capacity
    <3>1. total \in Nat /\ size \in Nat /\ total <= size /\ temporary < total
      BY <1>b, <1>t, <2>i DEF Larger
    <3>2. Outgoing + size \in Nat
      BY <3>1, Numbers
    <3>3. AlignUp(Outgoing + size) \in Nat /\ Outgoing + size <= AlignUp(Outgoing + size)
      BY <3>2, AlignUpBound
    <3>4. frame \in Nat /\ Outgoing + size <= frame
      BY <3>3, <1>b
    <3> QED BY <1>b, <3>1, <3>4, Numbers
  <2>2. /\ mem' \in [Addr -> Value]
        /\ \A a \in Addr : a < Outgoing + temporary \/ Outgoing + total <= a => mem'[a] = mem[a]
        /\ \A k \in 0..plan[i].bytes - 1 : mem'[Outgoing + temporary + k] = mem[source[i] + k]
    <3>1. Outgoing + temporary \in Int /\ (Outgoing + temporary) + plan[i].bytes = Outgoing + total
      BY <1>b, <1>t, <2>i, Numbers
    <3>2. \A k \in 0..plan[i].bytes - 1 : Outgoing + temporary + k \in Addr
      <4> TAKE k \in 0..plan[i].bytes - 1
      <4>1. Outgoing + temporary + k < Outgoing + total
        BY SMTT(60), <1>b, <1>t, <2>i, Numbers
      <4> QED BY <4>1, <1>t, <2>1, <2>i, Numbers, Addresses
    <3>3. source[i] \in Int /\ -Pool <= source[i] /\ source[i] + plan[i].bytes <= Capacity
      BY <2>s
    <3>c. mem' = Copy(mem, Outgoing + temporary, source[i], plan[i].bytes)
      BY <1>b
    <3>4. \A a \in Addr : a < Outgoing + temporary \/ Outgoing + temporary + plan[i].bytes <= a
             => mem'[a] = mem[a]
      BY SMTT(60), <3>c, <1>t, <2>i, <3>1, <3>3, CopyRead
    <3>5. mem' \in [Addr -> Value]
      BY <3>c, <1>t, <2>i, <3>1, <3>3, CopyRead
    <3>6. \A k \in 0..plan[i].bytes - 1 : mem'[Outgoing + temporary + k] = mem[source[i] + k]
      <4> TAKE k \in 0..plan[i].bytes - 1
      <4>1. Outgoing + temporary + k \in Addr
        BY <3>2
      <4>2. \A n \in 0..plan[i].bytes - 1 : Outgoing + temporary + n \in Addr =>
              Copy(mem, Outgoing + temporary, source[i], plan[i].bytes)[Outgoing + temporary + n]
                = mem[source[i] + n]
        BY SMTT(60), <1>t, <2>i, <3>1, <3>3, CopyRead
      <4> QED BY <1>b, <4>1, <4>2
    <3> QED BY <3>1, <3>4, <3>5, <3>6
  <2>3. TypeOK'
    <3>1. Outgoing + temporary \in Addr
      BY <1>t, <2>1, Numbers, Addresses
    <3>2. source' \in [1..Len(plan) -> Addr] /\ local' \in [1..Len(plan) -> BOOLEAN]
      BY <1>b, <1>t, <3>1
    <3>3. target' \in Value /\ start' \in [Addr -> Value] /\ LegalPlan(plan)'
      BY <1>u, <1>t
    <3>4. todo' \subseteq (1..Len(plan))' /\ source' \in [1..Len(plan) -> Addr]'
          /\ local' \in [1..Len(plan) -> BOOLEAN]'
      BY <1>u, <1>t, <3>2
    <3>5. temporary' \in Nat /\ outgoing_size' \in Nat /\ frame_size' \in Nat
      BY <1>b, <2>1
    <3>6. status' = "copying"
      BY <1>b, <1>u
    <3> QED BY <2>2, <3>3, <3>4, <3>5, <3>6 DEF TypeOK
  <2>4. SourcesPlaced'
    <3> SUFFICES ASSUME NEW j \in todo
                 PROVE  \/ source'[j] = plan[j].src /\ local'[j] = plan[j].local
                        \/ /\ local'[j] = TRUE
                           /\ Outgoing <= source'[j]
                           /\ source'[j] + plan[j].bytes <= Outgoing + total
      BY <1>b, <1>u DEF SourcesPlaced
    <3>1. CASE j = i
      <4>1. source'[j] = Outgoing + temporary /\ local'[j] = TRUE
        BY <1>b, <1>t, <3>1
      <4>2. Outgoing <= Outgoing + temporary
            /\ Outgoing + temporary + plan[j].bytes <= Outgoing + total
        BY <1>b, <1>t, <2>i, <3>1, Numbers
      <4> QED BY <4>1, <4>2
    <3>2. CASE j # i
      <4>1. source'[j] = source[j] /\ local'[j] = local[j]
        BY <1>b, <1>t, <3>2
      <4>2. source[j] + plan[j].bytes <= Outgoing + total
        <5>1. source[j] + plan[j].bytes <= Outgoing + temporary /\ source[j] \in Int
              /\ plan[j].bytes \in Nat
          BY <2>s, <2>p, <1>t
        <5> QED BY SMTT(60), <5>1, <2>1, <1>t, Numbers
      <4> QED BY <4>1, <4>2 DEF Inv, SourcesPlaced
    <3> QED BY <3>1, <3>2
  <2>5. PendingIntact'
    <3> SUFFICES ASSUME NEW j \in todo, NEW k \in 0..plan[j].bytes - 1
                 PROVE  mem'[source'[j] + k] = start[plan[j].src + k]
      BY <1>u DEF PendingIntact
    <3>1. mem[source[j] + k] = start[plan[j].src + k]
      BY DEF Inv, PendingIntact
    <3>2. CASE j = i
      <4>1. source'[j] = Outgoing + temporary
        BY <1>b, <1>t, <3>2
      <4> QED BY <2>2, <3>1, <3>2, <4>1
    <3>3. CASE j # i
      <4>1. source'[j] = source[j]
        BY <1>b, <1>t, <3>3
      <4>2. /\ source[j] \in Int /\ -Pool <= source[j] /\ plan[j].bytes \in Nat
            /\ source[j] + plan[j].bytes <= Outgoing + temporary
            /\ source[j] + plan[j].bytes <= Capacity
        BY <1>t, <2>p, <2>s
      <4>3. source[j] + k \in Addr /\ source[j] + k \in Int
            /\ source[j] + k < source[j] + plan[j].bytes
        BY <4>2, Bytewise
      <4>4. source[j] + k < Outgoing + temporary
        BY SMTT(60), <4>2, <4>3, <1>t, Numbers
      <4> QED BY <4>1, <4>3, <4>4, <2>2, <3>1
    <3> QED BY <3>2, <3>3
  <2>6. Arrived'
    <3> SUFFICES ASSUME NEW j \in (1..Len(plan)) \ todo, NEW k \in 0..plan[j].bytes - 1
                 PROVE  mem'[plan[j].dst + k] = start[plan[j].src + k]
      BY <1>u DEF Arrived
    <3>1. plan[j].dst \in Int /\ plan[j].bytes \in Nat /\ PcBytes <= plan[j].dst
          /\ plan[j].dst + plan[j].bytes <= Outgoing
      BY <2>p
    <3>2. plan[j].dst + k \in Addr /\ plan[j].dst + k < Outgoing + temporary
      <4>1. -Pool <= plan[j].dst /\ plan[j].dst + plan[j].bytes <= Capacity
        BY <3>1, Numbers
      <4>2. plan[j].dst + k \in Addr /\ plan[j].dst + k \in Int
            /\ plan[j].dst + k < plan[j].dst + plan[j].bytes
        BY <3>1, <4>1, Bytewise
      <4> QED BY <1>t, <3>1, <4>2, Numbers
    <3> QED BY <2>2, <3>2 DEF Inv, Arrived
  <2>7. Untouched'
    <3>1. ASSUME NEW a \in Addr, a < Outgoing, ~IsTarget(a), ~(0 <= a /\ a < PcBytes)
          PROVE  mem'[a] = start[a]
      <4>1. a < Outgoing + temporary
        BY <1>t, <3>1, Numbers, Addresses
      <4> QED BY <2>2, <3>1, <4>1 DEF Inv, Untouched
    <3>2. ASSUME NEW a \in Addr, a >= Outgoing + total PROVE mem'[a] = start[a]
      <4>1. a >= Outgoing + temporary /\ Outgoing + total <= a
        BY <1>t, <2>1, <3>2, Numbers, Addresses
      <4> QED BY <2>2, <4>1 DEF Inv, Untouched
    <3> QED BY <3>1, <3>2, <1>b, <1>u DEF Untouched, IsTarget
  <2>8. FrameHolds'
    BY <1>b, <2>1 DEF FrameHolds, Reserved
  <2> QED BY <2>3, <2>4, <2>5, <2>6, <2>7, <2>8, <1>b, <1>u DEF Inv
<1> QED BY <1>a, <1>b DEF BreakCycle, GiveUp, SaveSource, FrameSize

LEMMA BranchPreserves == Inv /\ Branch => Inv'
<1> SUFFICES ASSUME Inv, Branch PROVE Inv'
  OBVIOUS
<1>u. /\ UNCHANGED <<plan, todo, source, local, temporary, outgoing_size, frame_size, target, start>>
      /\ todo = {} /\ status' = "branched"
  BY DEF Branch
<1>t. LegalPlan(plan) /\ mem \in [Addr -> Value] /\ temporary \in Nat /\ target \in Value
  BY DEF Inv, TypeOK
<1>1. /\ mem' \in [Addr -> Value]
      /\ \A a \in Addr : ~(0 <= a /\ a < PcBytes) => mem'[a] = mem[a]
  BY <1>t, LayoutAssumption DEF Branch
<1>2. TypeOK'
  BY <1>u, <1>1 DEF Inv, TypeOK
<1>3. SourcesPlaced' /\ FrameHolds' /\ PendingIntact'
  BY <1>u DEF Inv, SourcesPlaced, FrameHolds, Reserved, PendingIntact
<1>4. Arrived'
  <2> SUFFICES ASSUME NEW j \in 1..Len(plan), NEW k \in 0..plan[j].bytes - 1
               PROVE  mem'[plan[j].dst + k] = start[plan[j].src + k]
    BY <1>u DEF Arrived
  <2>1. plan[j].dst \in Int /\ plan[j].bytes \in Nat /\ PcBytes <= plan[j].dst
        /\ plan[j].dst + plan[j].bytes <= Outgoing
    BY <1>t, PlanFacts
  <2>2. /\ plan[j].dst + k \in Addr /\ plan[j].dst + k \in Int
        /\ plan[j].dst <= plan[j].dst + k
    <3>1. -Pool <= plan[j].dst /\ plan[j].dst + plan[j].bytes <= Capacity
      BY <2>1, Numbers
    <3> QED BY <2>1, <3>1, Bytewise
  <2>3. ~(plan[j].dst + k < PcBytes)
    BY <2>1, <2>2, Numbers
  <2> QED BY <1>1, <1>u, <2>2, <2>3 DEF Inv, Arrived
<1>5. Untouched'
  <2>1. ASSUME NEW a \in Addr, a < Outgoing, ~IsTarget(a), ~(0 <= a /\ a < PcBytes)
        PROVE  mem'[a] = start[a]
    BY <1>1, <2>1 DEF Inv, Untouched
  <2>2. ASSUME NEW a \in Addr, a >= Outgoing + temporary PROVE mem'[a] = start[a]
    <3>1. ~(a < PcBytes)
      BY <1>t, <2>2, Numbers, Addresses
    <3> QED BY <1>1, <2>2, <3>1 DEF Inv, Untouched
  <2> QED BY <1>u, <2>1, <2>2 DEF Untouched, IsTarget
<1> QED BY <1>2, <1>3, <1>4, <1>5, <1>u DEF Inv

-----------------------------------------------------------------------------
LEMMA Inductive == Inv /\ [Next]_vars => Inv'
<1> SUFFICES ASSUME Inv, [Next]_vars PROVE Inv'
  OBVIOUS
<1>1. CASE EmitCopy
  BY <1>1, EmitPreserves
<1>2. CASE BreakCycle
  BY <1>2, BreakPreserves
<1>3. CASE Branch
  BY <1>3, BranchPreserves
<1>4. CASE UNCHANGED vars
  <2>1. TypeOK'
    BY <1>4 DEF vars, Inv, TypeOK
  <2>2. SourcesPlaced'
    BY <1>4 DEF vars, Inv, SourcesPlaced
  <2>5. FrameHolds'
    BY <1>4 DEF vars, Inv, FrameHolds, Reserved
  <2>6. (status = "branched" => todo = {})'
    BY <1>4 DEF vars, Inv
  <2>3. PendingIntact' /\ Arrived'
    BY <1>4 DEF vars, Inv, PendingIntact, Arrived
  <2>4. Untouched'
    BY <1>4 DEF vars, Inv, Untouched, IsTarget
  <2> QED BY <2>1, <2>2, <2>3, <2>4, <2>5, <2>6 DEF Inv
<1> QED BY <1>1, <1>2, <1>3, <1>4 DEF Next

LEMMA InvAlways == Spec => []Inv
<1> QED BY InitInv, Inductive, PTL DEF Spec

\* edge keeps its lists and the frame well-formed.
THEOREM TypeCorrect == Spec => []TypeOK
<1>1. Inv => TypeOK
  BY DEF Inv
<1> QED BY <1>1, InvAlways, PTL

\* The copies edge emits, in the order it emits them, give every phi the value
\* LLVM's simultaneous assignment gives it.
THEOREM PhisSimultaneous == Spec => []Simultaneous
<1>1. Inv => Simultaneous
  BY DEF Inv, Simultaneous, Arrived, TypeOK
<1> QED BY <1>1, InvAlways, PTL

\* An edge changes no slot that is not a phi of its target.
THEOREM OtherSlotsUntouched == Spec => []Untouched
<1>1. Inv => Untouched
  BY DEF Inv
<1> QED BY <1>1, InvAlways, PTL

\* The temporaries of edge are inside the frame, and the frame in memory.
THEOREM TemporariesReserved == Spec => []Reserved
<1>1. Inv => Reserved
  BY DEF Inv, FrameHolds
<1> QED BY <1>1, InvAlways, PTL
-----------------------------------------------------------------------------
(* Cycles.  Nothing is lost in a cycle: where each copy is blocked by one,  *)
(* each blocks one, and only one, since what it reads lies in one slot.     *)
Held(j, i) == plan[j].local /\ Overlaps(plan[i].dst, plan[i].bytes, plan[j].src, plan[j].bytes)
Original(i) == source[i] = plan[i].src /\ local[i] = plan[i].local
Saved == {i \in 1..Len(plan) : source[i] >= Outgoing}
Partners(g) == {i \in 1..Len(plan) : i # g /\ Held(g, i)}
Paired == Saved \cup UNION {Partners(g) : g \in Saved}
Movable == {i \in Listed(plan) : plan[i].local}

\* Each saved copy has a partner of its own, whose target no other pending copy reads.
FrugalInv ==
  /\ todo \subseteq Listed(plan)
  /\ \A i \in 1..Len(plan) : Original(i) \/ i \in Saved
  /\ Paired \subseteq Movable
  /\ \A g \in Saved, i \in 1..Len(plan), j \in todo : Held(g, i) /\ Held(j, i) => j = g
  /\ 2 * temporary <= Bytes(plan, Paired)

Weighed(p) == Len(p) \in Nat /\ \A i \in 1..Len(p) : p[i].bytes \in Nat
Adds(p, S, a) ==
  /\ a \in [0..Len(p) -> Nat] /\ a[0] = 0 /\ Bytes(p, S) = a[Len(p)]
  /\ \A k \in 1..Len(p) : a[k] = a[k - 1] + (IF k \in S THEN p[k].bytes ELSE 0)

LEMMA BytesSum ==
  ASSUME NEW p, Weighed(p), NEW S
  PROVE  \E a : Adds(p, S, a)
<1> DEFINE N == Len(p)
           Unfolded(f) == [n \in 0..N |-> IF n = 0 THEN 0 ELSE f[n - 1] + (IF n \in S THEN p[n].bytes ELSE 0)]
           w == [k \in 1..N |-> IF k \in S THEN p[k].bytes ELSE 0]
           G == [v \in 1..N |-> [s \in Nat |-> s + w[v]]]
           a == CHOOSE f : f = Unfolded(f)
<1>0. N \in Nat /\ \A i \in 1..N : p[i].bytes \in Nat
  BY DEF Weighed
<1>1. Bytes(p, S) = a[N]
  BY DEF Bytes
<1>2. w \in [1..N -> Nat]
  BY <1>0
<1>3. G \in [1..N -> [Nat -> Nat]]
  <2> HIDE DEF w
  <2> QED BY <1>2
<1>4. PICK g \in [0..N -> Nat] : SolvesCounted(g, N, 0, G)
  <2>1. Counted(N, Nat, 0, G)
    <3> HIDE DEF G
    <3> QED BY <1>0, <1>3 DEF Counted
  <2> HIDE DEF G
  <2> QED BY <1>0, <2>1, CountedSolved
<1>5. \A n \in 0..N : g[n] = IF n = 0 THEN 0 ELSE g[n - 1] + w[n]
  <2> TAKE n \in 0..N
  <2>1. g[n] = IF n = 0 THEN 0 ELSE G[n][g[n - 1]]
    BY <1>4 DEF SolvesCounted
  <2>2. n # 0 => n \in 1..N /\ n - 1 \in 0..N
    OBVIOUS
  <2>3. n # 0 => G[n][g[n - 1]] = g[n - 1] + w[n]
    <3> HIDE DEF w
    <3> QED BY <2>2
  <2> QED BY <2>1, <2>3
<1>6. g = Unfolded(g)
  <2>1. \A n \in 0..N : n # 0 => w[n] = IF n \in S THEN p[n].bytes ELSE 0
    OBVIOUS
  <2>2. \A n \in 0..N : g[n] = Unfolded(g)[n]
    <3> HIDE DEF w
    <3> QED BY <1>5, <2>1
  <2>3. Unfolded(g) = [n \in 0..N |-> Unfolded(g)[n]] /\ g = [n \in 0..N |-> g[n]]
    OBVIOUS
  <2> HIDE DEF Unfolded
  <2> QED BY <2>2, <2>3
<1>7. a = Unfolded(a)
  <2> HIDE DEF Unfolded
  <2> QED BY <1>6
<1>8. \A n \in 0..N : a[n] = IF n = 0 THEN 0 ELSE a[n - 1] + (IF n \in S THEN p[n].bytes ELSE 0)
  <2>1. \A n \in 0..N : Unfolded(a)[n] = IF n = 0 THEN 0 ELSE a[n - 1] + (IF n \in S THEN p[n].bytes ELSE 0)
    <3> HIDE DEF a
    <3> QED OBVIOUS
  <2> HIDE DEF Unfolded, a
  <2> QED BY <1>7, <2>1
<1> DEFINE T == {n \in 0..N : a[n] \in Nat}
<1>9. \A k \in 1..N : k - 1 \in 0..N /\ k \in 0..N /\ k # 0
  BY <1>0
<1> HIDE DEF Unfolded, a, w, G
<1>10. \A n \in 0..N : n \in T
  <2>1. 0 \in T
    BY <1>8
  <2>2. ASSUME NEW k \in 1..N, k - 1 \in T PROVE k \in T
    <3>1. a[k] = a[k - 1] + (IF k \in S THEN p[k].bytes ELSE 0) /\ p[k].bytes \in Nat
      BY <1>0, <1>8, <1>9
    <3> QED BY <1>9, <2>2, <3>1
  <2> HIDE DEF T
  <2> QED BY <1>0, <2>1, <2>2, CountedInduction
<1>11. a \in [0..N -> Nat]
  <2>1. a = [n \in 0..N |-> a[n]]
    <3>1. Unfolded(a) = [n \in 0..N |-> Unfolded(a)[n]]
      BY DEF Unfolded
    <3> QED BY <1>7, <3>1
  <2>2. \A n \in 0..N : a[n] \in Nat
    BY <1>10
  <2> QED BY <2>1, <2>2
<1>12. \A k \in 1..N : a[k] = a[k - 1] + (IF k \in S THEN p[k].bytes ELSE 0)
  BY <1>8, <1>9
<1>13. a[0] = 0
  BY <1>8
<1> QED BY <1>1, <1>11, <1>12, <1>13 DEF Adds

LEMMA BytesMore ==
  ASSUME NEW p, Weighed(p), NEW S, NEW T, S \subseteq T
  PROVE  Bytes(p, S) \in Nat /\ Bytes(p, T) \in Nat /\ Bytes(p, S) <= Bytes(p, T)
<1>1. PICK a : Adds(p, S, a)
  BY BytesSum
<1>2. PICK b : Adds(p, T, b)
  BY BytesSum
<1> DEFINE D == {k \in 0..Len(p) : a[k] <= b[k]}
<1>3. 0 \in D /\ Len(p) \in Nat /\ Len(p) \in 0..Len(p)
  BY <1>1, <1>2 DEF Adds, Weighed
<1>4. ASSUME NEW k \in 1..Len(p), k - 1 \in D PROVE k \in D
  <2>1. a[k] = a[k - 1] + (IF k \in S THEN p[k].bytes ELSE 0) /\ b[k] = b[k - 1] + (IF k \in T THEN p[k].bytes ELSE 0)
    BY <1>1, <1>2 DEF Adds
  <2>2. k \in 0..Len(p) /\ k - 1 \in 0..Len(p) /\ p[k].bytes \in Nat /\ a[k - 1] <= b[k - 1]
    BY <1>4 DEF Weighed
  <2>3. a[k - 1] \in Nat /\ b[k - 1] \in Nat
    BY <1>1, <1>2, <2>2 DEF Adds
  <2> QED BY <2>1, <2>2, <2>3
<1>5. Len(p) \in D
  <2> HIDE DEF D
  <2> QED BY <1>3, <1>4, CountedInduction
<1>6. a[Len(p)] \in Nat /\ b[Len(p)] \in Nat /\ a[Len(p)] <= b[Len(p)]
  BY <1>1, <1>2, <1>3, <1>5 DEF Adds
<1> QED BY <1>1, <1>2, <1>6 DEF Adds

LEMMA BytesWith ==
  ASSUME NEW p, Weighed(p), NEW S, NEW x \in 1..Len(p), x \notin S
  PROVE  Bytes(p, S \cup {x}) = Bytes(p, S) + p[x].bytes
<1> DEFINE T == S \cup {x}
<1>1. PICK a : Adds(p, S, a)
  BY BytesSum
<1>2. PICK b : Adds(p, T, b)
  BY BytesSum
<1>t. x \in T /\ \A k : k # x => (k \in T <=> k \in S)
  OBVIOUS
<1> HIDE DEF T
<1> DEFINE D == {k \in 0..Len(p) : b[k] = IF x <= k THEN a[k] + p[x].bytes ELSE a[k]}
<1>3. 0 \in D /\ Len(p) \in Nat /\ Len(p) \in 0..Len(p)
  BY <1>1, <1>2 DEF Adds, Weighed
<1>4. ASSUME NEW k \in 1..Len(p), k - 1 \in D PROVE k \in D
  <2>1. a[k] = a[k - 1] + (IF k \in S THEN p[k].bytes ELSE 0) /\ b[k] = b[k - 1] + (IF k \in T THEN p[k].bytes ELSE 0)
    BY <1>1, <1>2 DEF Adds
  <2>2. k \in 0..Len(p) /\ k - 1 \in 0..Len(p) /\ p[k].bytes \in Nat /\ p[x].bytes \in Nat
    BY DEF Weighed
  <2>3. a[k - 1] \in Nat /\ b[k - 1] = IF x <= k - 1 THEN a[k - 1] + p[x].bytes ELSE a[k - 1]
    BY <1>1, <1>4, <2>2 DEF Adds
  <2>4. CASE k = x
    <3>1. ~(x <= k - 1) /\ x <= k
      BY <2>4
    <3>2. b[k] = a[k] + p[x].bytes
      BY <1>t, <2>1, <2>2, <2>3, <2>4, <3>1
    <3> QED BY <2>2, <3>1, <3>2
  <2>5. CASE k # x
    <3>1. (x <= k - 1) <=> (x <= k)
      BY <2>5
    <3>2. k \in T <=> k \in S
      BY <1>t, <2>5
    <3>3. b[k] = IF x <= k THEN a[k] + p[x].bytes ELSE a[k]
      BY <2>1, <2>2, <2>3, <3>1, <3>2
    <3> QED BY <2>2, <3>3
  <2> QED BY <2>4, <2>5
<1>5. Len(p) \in D
  <2> HIDE DEF D
  <2> QED BY <1>3, <1>4, CountedInduction
<1>6. b[Len(p)] = a[Len(p)] + p[x].bytes
  BY <1>5
<1> QED BY <1>1, <1>2, <1>6 DEF T, Adds

\* A copy reads one slot only.
LEMMA ReadsOne ==
  ASSUME LegalPlan(plan), NEW i \in 1..Len(plan), NEW j \in 1..Len(plan), Held(j, i)
  PROVE  /\ plan[j].bytes <= plan[i].bytes
         /\ \A k \in 1..Len(plan) : Held(j, k) => k = i
<1>1. \A k \in 1..Len(plan) :
        /\ plan[k].dst \in Int /\ plan[k].src \in Int /\ plan[k].bytes \in Nat /\ plan[k].bytes > 0
        /\ Held(j, k) => plan[k].dst <= plan[j].src /\ plan[j].src + plan[j].bytes <= plan[k].dst + plan[k].bytes
  BY PlanFacts DEF LegalPlan, Held, Within
<1>2. plan[i].dst <= plan[j].src /\ plan[j].src + plan[j].bytes <= plan[i].dst + plan[i].bytes
  BY <1>1
<1>3. ASSUME NEW k \in 1..Len(plan), Held(j, k), k # i PROVE FALSE
  <2>1. plan[k].dst <= plan[j].src /\ plan[j].src + plan[j].bytes <= plan[k].dst + plan[k].bytes
    BY <1>1, <1>3
  <2>2. ~Overlaps(plan[i].dst, plan[i].bytes, plan[k].dst, plan[k].bytes)
    BY <1>3 DEF LegalPlan
  <2>3. /\ plan[i].dst \in Int /\ plan[i].bytes \in Nat /\ plan[k].dst \in Int /\ plan[k].bytes \in Nat
        /\ plan[j].src \in Int /\ plan[j].bytes \in Nat /\ plan[j].bytes > 0
    BY <1>1
  <2>4. plan[i].dst + plan[i].bytes <= plan[k].dst \/ plan[k].dst + plan[k].bytes <= plan[i].dst
    BY <2>2, <2>3 DEF Overlaps
  <2> DEFINE di == plan[i].dst
             ni == plan[i].bytes
             dk == plan[k].dst
             nk == plan[k].bytes
             sj == plan[j].src
             nj == plan[j].bytes
  <2>5. /\ di \in Int /\ ni \in Nat /\ dk \in Int /\ nk \in Nat /\ sj \in Int /\ nj \in Nat /\ nj > 0
        /\ di <= sj /\ sj + nj <= di + ni /\ dk <= sj /\ sj + nj <= dk + nk
        /\ (di + ni <= dk \/ dk + nk <= di)
    BY <1>2, <2>1, <2>3, <2>4
  <2> HIDE DEF di, ni, dk, nk, sj, nj
  <2> QED BY <2>5
<1> QED BY <1>1, <1>2, <1>3

\* Only a source that was never saved is read in a slot.
LEMMA ReadsHeld ==
  ASSUME Inv, FrugalInv, NEW i \in todo, NEW j \in todo, Reads(j, i)
  PROVE  Held(j, i) /\ j \notin Saved /\ source[j] = plan[j].src /\ local[j] = plan[j].local
<1>1. /\ LegalPlan(plan) /\ i \in 1..Len(plan) /\ j \in 1..Len(plan) /\ source[j] \in Int
      /\ Outgoing \in Nat
  BY SourceFacts, Numbers DEF Inv, TypeOK
<1>2. /\ plan[i].dst \in Int /\ plan[i].bytes \in Nat /\ plan[i].dst + plan[i].bytes <= Outgoing
      /\ plan[j].bytes \in Nat
  BY <1>1, PlanFacts
<1>3. local[j] /\ source[j] < plan[i].dst + plan[i].bytes
  BY DEF Reads, SourceOffset, Overlaps
<1>4. source[j] < Outgoing
  BY <1>1, <1>2, <1>3
<1>5. j \notin Saved
  BY <1>1, <1>4 DEF Saved
<1>6. source[j] = plan[j].src /\ local[j] = plan[j].local
  BY <1>1, <1>5 DEF FrugalInv, Original
<1>7. Held(j, i)
  BY <1>6 DEF Reads, SourceOffset, Held
<1> QED BY <1>5, <1>6, <1>7

\* Where every copy is blocked, each is blocked by one, another for each.
CycleBy(r) ==
  /\ r \in [todo -> todo]
  /\ \A i \in todo : r[i] # i /\ Reads(r[i], i)
  /\ \A i, j \in todo : r[i] = r[j] => i = j
  /\ \A j \in todo : \E i \in todo : r[i] = j

LEMMA StuckCycles ==
  ASSUME Inv, FrugalInv, Stuck
  PROVE  \E r : CycleBy(r)
<1>1. LegalPlan(plan) /\ todo \subseteq 1..Len(plan) /\ Len(plan) \in Nat
  BY DEF Inv, TypeOK, LegalPlan
<1> DEFINE r == [i \in todo |-> CHOOSE j \in todo \ {i} : Reads(j, i)]
<1>2. \A i \in todo : r[i] \in todo /\ r[i] # i /\ Reads(r[i], i)
  BY DEF Stuck, Blocked
<1>3. r \in [todo -> todo]
  <2>1. \A i \in todo : r[i] \in todo
    BY <1>2
  <2> QED BY <2>1
<1> HIDE DEF r
<1>4. \A i, j \in todo : r[i] = r[j] => i = j
  <2> TAKE i, j \in todo
  <2> HAVE r[i] = r[j]
  <2>1. Held(r[i], i) /\ Held(r[i], j)
    BY <1>2, ReadsHeld
  <2> QED BY <1>1, <1>2, <2>1, ReadsOne
<1>5. \A j \in todo : \E i \in todo : r[i] = j
  <2>1. IsFiniteSet(1..Len(plan))
    BY <1>1, FS_Interval
  <2>2. IsFiniteSet(todo)
    BY <1>1, <2>1, FS_Subset
  <2>3. r \in Injection(todo, todo)
    BY <1>3, <1>4 DEF Injection, IsInjective
  <2>4. r \in Surjection(todo, todo)
    BY <2>2, <2>3, FS_Injection
  <2> QED BY <2>4 DEF Surjection
<1>6. CycleBy(r)
  BY <1>2, <1>3, <1>4, <1>5 DEF CycleBy
<1> QED BY <1>6

\* Going from a copy to the one it is blocked by leads back to it.
Orbit(S, r, w) ==
  /\ IsFiniteSet(S) /\ r \in [S -> S] /\ \A i, j \in S : r[i] = r[j] => i = j
  /\ w \in [0..Cardinality(S) -> S] /\ \A k \in 1..Cardinality(S) : w[k] = r[w[k - 1]]

LEMMA WalkReturns ==
  ASSUME NEW S, NEW r, NEW w, Orbit(S, r, w)
  PROVE  \E n \in 1..Cardinality(S) : w[n] = w[0]
<1> DEFINE N == Cardinality(S)
           Again(m, k) == m + k \in 0..N /\ w[m] = w[m + k]
           T == {m \in Nat : \E k \in 1..N : Again(m, k)}
<1>0. /\ IsFiniteSet(S) /\ r \in [S -> S] /\ \A i, j \in S : r[i] = r[j] => i = j
      /\ w \in [0..N -> S] /\ \A k \in 1..N : w[k] = r[w[k - 1]]
      /\ N \in Nat
  BY FS_CardinalityType DEF Orbit
<1>1. T # {}
  <2>1. IsFiniteSet(0..N) /\ Cardinality(0..N) = N + 1
    BY <1>0, FS_Interval
  <2>2. PICK x \in 0..N, y \in 0..N : x # y /\ w[x] = w[y]
    <3> DEFINE D == 0..N
    <3>1. IsFiniteSet(D) /\ N < Cardinality(D) /\ w \in [D -> S]
      BY <1>0, <2>1
    <3> HIDE DEF D
    <3>2. \E x, y \in D : x # y /\ w[x] = w[y]
      <4> SUFFICES ASSUME \A x, y \in D : w[x] = w[y] => x = y PROVE FALSE
        OBVIOUS
      <4>1. w \in Injection(D, S)
        BY <3>1 DEF Injection, IsInjective
      <4>2. Cardinality(D) <= Cardinality(S)
        BY <1>0, <4>1, FS_Injection
      <4> QED BY <2>1, <3>1, <4>2, <1>0 DEF D
    <3> QED BY <3>2 DEF D
  <2>3. ASSUME NEW a \in 0..N, NEW b \in 0..N, a < b, w[a] = w[b] PROVE T # {}
    <3> DEFINE k == b - a
    <3>1. k \in 1..N /\ a + k = b
      BY <1>0, <2>3
    <3> HIDE DEF k
    <3>2. Again(a, k)
      BY <2>3, <3>1
    <3>3. a \in T
      BY <3>1, <3>2
    <3> QED BY <3>3
  <2>4. x < y \/ y < x
    BY <1>0, <2>2
  <2> QED BY <2>2, <2>3, <2>4
<1>2. PICK m \in T : \A y \in T : m <= y
  BY <1>1, LeastElement
<1>3. m \in Nat /\ \E k \in 1..N : Again(m, k)
  BY <1>2
<1>4. PICK k \in 1..N : Again(m, k)
  BY <1>3
<1>5. m = 0
  <2> SUFFICES ASSUME m # 0 PROVE FALSE
    OBVIOUS
  <2> DEFINE p == m - 1
             q == m + k - 1
  <2>1. p \in Nat /\ p \in 0..N /\ q \in 0..N /\ m \in 1..N /\ m + k \in 1..N /\ p + k = q /\ p < m
    BY <1>0, <1>3, <1>4
  <2>2. w[m] = r[w[p]] /\ w[m + k] = r[w[q]]
    BY <1>0, <2>1
  <2>3. w[p] = w[q]
    <3>1. w[p] \in S /\ w[q] \in S
      BY <1>0, <2>1
    <3>2. r[w[p]] = r[w[q]]
      BY <1>4, <2>2
    <3> QED BY <1>0, <3>1, <3>2
  <2> HIDE DEF q
  <2>4. Again(p, k)
    BY <2>1, <2>3
  <2> HIDE DEF p
  <2>5. p \in T
    BY <1>4, <2>1, <2>4
  <2>6. m <= p
    BY <1>2, <2>5
  <2> QED BY <1>3, <2>1, <2>6
<1>6. 0 + k = k
  BY <1>0
<1> QED BY <1>4, <1>5, <1>6

LEMMA CyclesReal ==
  ASSUME Inv, FrugalInv
  PROVE  OnlyRealCycles
<1> SUFFICES ASSUME Stuck, NEW f \in todo, IsFront(f)
             PROVE  LET reached[n \in 0..Cardinality(todo)] ==
                          IF n = 0 THEN {f}
                          ELSE {j \in todo : \E i \in reached[n - 1] : j # i /\ Needs(j, i)}
                    IN \E n \in 1..Cardinality(todo) : f \in reached[n]
  BY DEF OnlyRealCycles
<1> DEFINE N == Cardinality(todo)
           S == SUBSET todo
           Further(T) == {j \in todo : \E i \in T : j # i /\ Needs(j, i)}
           Unfolded(g) == [n \in 0..N |-> IF n = 0 THEN {f} ELSE Further(g[n - 1])]
           a == CHOOSE g : g = Unfolded(g)
           G == [v \in 1..N |-> [T \in S |-> Further(T)]]
<1>0. IsFiniteSet(todo) /\ N \in Nat /\ todo \subseteq 1..Len(plan)
  <2>1. todo \subseteq 1..Len(plan) /\ Len(plan) \in Nat
    BY DEF Inv, TypeOK, LegalPlan
  <2>2. IsFiniteSet(1..Len(plan))
    BY <2>1, FS_Interval
  <2>3. IsFiniteSet(todo)
    BY <2>1, <2>2, FS_Subset
  <2> QED BY <2>1, <2>3, FS_CardinalityType
<1>1. PICK r : CycleBy(r)
  BY StuckCycles
<1>2. PICK g \in [0..N -> S] : SolvesCounted(g, N, {f}, G)
  <2>1. \A T \in S : Further(T) \in S
    OBVIOUS
  <2>2. G \in [1..N -> [S -> S]]
    <3> HIDE DEF Further, S, N
    <3> QED BY <2>1
  <2> DEFINE s0 == {f}
  <2>3. s0 \in S
    OBVIOUS
  <2> HIDE DEF G, S, N, s0
  <2>4. Counted(N, S, s0, G)
    BY <1>0, <2>2, <2>3 DEF Counted
  <2> QED BY <1>0, <2>4, CountedSolved DEF s0
<1>3. g = Unfolded(g)
  <2>1. ASSUME NEW v \in 0..N PROVE g[v] = Unfolded(g)[v]
    <3>1. v # 0 => v \in 1..N /\ v - 1 \in 0..N
      BY <1>0
    <3>2. v # 0 => G[v][g[v - 1]] = Further(g[v - 1])
      <4> HIDE DEF Further, S, N
      <4> QED BY <3>1
    <3>3. g[v] = IF v = 0 THEN {f} ELSE G[v][g[v - 1]]
      <4> HIDE DEF G, S, N
      <4> QED BY <1>2 DEF SolvesCounted
    <3> HIDE DEF Further, G, S, N
    <3> QED BY <3>2, <3>3
  <2> HIDE DEF Further, S, N
  <2>2. g = [v \in 0..N |-> g[v]] /\ Unfolded(g) = [v \in 0..N |-> Unfolded(g)[v]]
    OBVIOUS
  <2> HIDE DEF Unfolded
  <2> QED BY <2>1, <2>2
<1>4. a = Unfolded(a)
  <2> HIDE DEF Unfolded
  <2> QED BY <1>3
<1>5. a[0] = {f} /\ \A k \in 1..N : a[k] = Further(a[k - 1])
  <2> HIDE DEF a, Further, N
  <2>1. 0 \in 0..N /\ \A k \in 1..N : k \in 0..N /\ k # 0
    BY <1>0
  <2> QED BY <1>4, <2>1
<1> DEFINE R == [v \in 1..N |-> r]
<1>6. r \in [todo -> todo] /\ \A i, j \in todo : r[i] = r[j] => i = j
  BY <1>1 DEF CycleBy
<1>7. PICK w \in [0..N -> todo] : SolvesCounted(w, N, f, R)
  <2> HIDE DEF N
  <2>1. Counted(N, todo, f, R)
    BY <1>0, <1>6 DEF Counted
  <2> HIDE DEF R
  <2> QED BY <1>0, <2>1, CountedSolved
<1>8. w[0] = f /\ \A k \in 1..N : w[k] = r[w[k - 1]]
  <2> HIDE DEF N
  <2>1. 0 \in 0..N /\ \A k \in 1..N : k \in 0..N /\ k # 0
    BY <1>0
  <2> QED BY <1>7, <2>1 DEF SolvesCounted
<1>9. PICK n \in 1..N : w[n] = w[0]
  <2>1. Orbit(todo, r, w)
    BY <1>0, <1>6, <1>7, <1>8 DEF Orbit
  <2> QED BY <2>1, WalkReturns
<1> HIDE DEF N, a, G, R, S, Unfolded
<1>10. \A i \in todo : r[i] \in todo /\ r[i] # i /\ Needs(r[i], i)
  <2> TAKE i \in todo
  <2>1. r[i] \in todo /\ r[i] # i /\ Reads(r[i], i)
    BY <1>1 DEF CycleBy
  <2>2. /\ plan[i].dst \in Int /\ plan[i].bytes \in Nat /\ plan[i].bytes > 0 /\ PcBytes <= plan[i].dst
        /\ plan[i].dst + plan[i].bytes <= Outgoing
    BY <1>0, PlanFacts DEF Inv, TypeOK
  <2>3. source[r[i]] \in Int /\ plan[r[i]].bytes \in Nat /\ plan[r[i]].bytes > 0
    BY <1>0, <2>1, PlanFacts, SourceFacts DEF Inv, TypeOK
  <2> DEFINE at == IF plan[i].dst <= source[r[i]] THEN source[r[i]] ELSE plan[i].dst
  <2>4. plan[i].dst < source[r[i]] + plan[r[i]].bytes /\ source[r[i]] < plan[i].dst + plan[i].bytes
    BY <2>1 DEF Reads, SourceOffset, Overlaps
  <2>5. /\ at \in Int /\ plan[i].dst <= at /\ at < plan[i].dst + plan[i].bytes
        /\ source[r[i]] <= at /\ at < source[r[i]] + plan[r[i]].bytes
    BY <2>2, <2>3, <2>4
  <2> HIDE DEF at
  <2>6. at \in Addr
    BY <2>2, <2>5, Numbers, Addresses
  <2>7. Needs(r[i], i)
    BY <2>5, <2>6 DEF Needs
  <2> QED BY <2>1, <2>7
<1> DEFINE T == {k \in 0..N : w[k] \in a[k]}
<1>11. n \in T
  <2>1. 0 \in T
    BY <1>0, <1>5, <1>8
  <2>2. ASSUME NEW k \in 1..N, k - 1 \in T PROVE k \in T
    <3>1. k \in 0..N /\ k - 1 \in 0..N
      BY <1>0
    <3>2. w[k - 1] \in a[k - 1] /\ w[k - 1] \in todo
      BY <2>2, <3>1
    <3>3. w[k] \in Further(a[k - 1])
      BY <1>8, <1>10, <3>2
    <3> QED BY <1>5, <3>1, <3>3
  <2>3. n \in 0..N
    BY <1>0
  <2> HIDE DEF T
  <2> QED BY <1>0, <2>1, <2>2, <2>3, CountedInduction
<1>12. f \in a[n]
  BY <1>8, <1>9, <1>11
<1> QED BY <1>12 DEF a, Unfolded, N

LEMMA PlanWeighed ==
  ASSUME LegalPlan(plan)
  PROVE  Weighed(plan)
<1>1. Len(plan) \in Nat
  BY DEF LegalPlan
<1> QED BY <1>1, PlanFacts DEF Weighed

LEMMA FrugalInit ==
  ASSUME Init
  PROVE  FrugalInv
<1>1. Inv
  BY InitInv
<1>2. LegalPlan(plan) /\ temporary = 0 /\ Outgoing \in Nat
  BY <1>1, Numbers DEF Inv, TypeOK, Init
<1>3. \A i \in 1..Len(plan) : Original(i)
  BY DEF Init, Original
<1>4. Saved = {}
  <2>1. ASSUME NEW i \in 1..Len(plan) PROVE ~(source[i] >= Outgoing)
    <3>1. /\ plan[i].src \in Int /\ plan[i].bytes \in Nat /\ plan[i].bytes > 0 /\ plan[i].local \in BOOLEAN
          /\ plan[i].local => plan[i].src + plan[i].bytes <= Outgoing
          /\ ~plan[i].local => plan[i].src + plan[i].bytes <= 0
      BY <1>2, PlanFacts
    <3>2. source[i] = plan[i].src
      BY <1>3 DEF Original
    <3> QED BY <1>2, <3>1, <3>2
  <2> QED BY <2>1 DEF Saved
<1>5. Paired = {}
  BY <1>4 DEF Paired
<1>6. Bytes(plan, Paired) \in Nat
  BY <1>2, PlanWeighed, BytesMore
<1>7. todo \subseteq Listed(plan)
  BY DEF Init
<1> QED BY <1>2, <1>3, <1>4, <1>5, <1>6, <1>7 DEF FrugalInv

\* Copying and branching save nothing.
LEMMA FrugalStays ==
  ASSUME FrugalInv, UNCHANGED <<plan, source, local, temporary>>, todo' \subseteq todo
  PROVE  FrugalInv'
<1>1. \A i, j : Held(j, i)' <=> Held(j, i)
  BY DEF Held
<1>2. Saved' = Saved /\ Movable' = Movable
  BY DEF Saved, Movable
<1>3. \A g : Partners(g)' = Partners(g)
  BY <1>1 DEF Partners
<1>4. Paired' = Paired
  BY <1>2, <1>3 DEF Paired
<1>5. \A i : Original(i)' <=> Original(i)
  BY DEF Original
<1>6. (\A g \in Saved, i \in 1..Len(plan), j \in todo : Held(g, i) /\ Held(j, i) => j = g)'
  BY <1>1, <1>2 DEF FrugalInv
<1> QED BY <1>2, <1>4, <1>5, <1>6 DEF FrugalInv

\* Where all are blocked, a copy blocks one other, and neither was a pair before.
LEMMA StuckPairs ==
  ASSUME Inv, FrugalInv, Stuck, NEW f \in todo
  PROVE  \E p \in todo : /\ p # f /\ Held(f, p) /\ f \in Movable /\ p \in Movable
                         /\ f \notin Paired /\ p \notin Paired
                         /\ source[f] = plan[f].src
                         /\ \A j \in todo : Held(j, p) => j = f
<1>1. PICK r : CycleBy(r)
  BY StuckCycles
<1>2. LegalPlan(plan) /\ todo \subseteq 1..Len(plan) /\ todo \subseteq Listed(plan)
  BY DEF Inv, TypeOK, FrugalInv
<1>3. \A i \in todo : r[i] \in todo /\ r[i] # i /\ Reads(r[i], i)
  BY <1>1 DEF CycleBy
<1>4. \A i \in todo : /\ Held(r[i], i) /\ r[i] \notin Saved /\ source[r[i]] = plan[r[i]].src
  BY <1>3, ReadsHeld
<1>5. \A j \in todo : \E i \in todo : r[i] = j
  BY <1>1 DEF CycleBy
<1>6. \A j \in todo : j \notin Saved /\ source[j] = plan[j].src /\ plan[j].local /\ j \in Movable
  BY <1>2, <1>4, <1>5 DEF Movable, Held
<1>7. \A j \in todo : j \notin Paired
  <2> TAKE j \in todo
  <2> SUFFICES ASSUME j \in Paired PROVE FALSE
    OBVIOUS
  <2>1. PICK g \in Saved : j # g /\ Held(g, j)
    BY <1>6 DEF Paired, Partners
  <2>2. r[j] = g
    BY <1>2, <1>3, <1>4, <2>1 DEF FrugalInv
  <2> QED BY <1>4, <2>2
<1>8. PICK p \in todo : r[p] = f
  BY <1>5
<1>9. p # f /\ Held(f, p)
  BY <1>3, <1>4, <1>8
<1>10. ASSUME NEW j \in todo, Held(j, p) PROVE j = f
  <2>1. PICK k \in todo : r[k] = j
    BY <1>5
  <2>2. Held(j, k)
    BY <1>4, <2>1
  <2>3. k = p
    BY <1>2, <1>10, <2>2, ReadsOne
  <2> QED BY <1>8, <2>1, <2>3
<1> QED BY <1>6, <1>7, <1>9, <1>10

LEMMA BreakFrugal ==
  ASSUME Inv, FrugalInv, BreakCycle
  PROVE  FrugalInv'
<1>1. PICK f \in todo : IF FrameSize(temporary + plan[f].bytes) > Capacity THEN GiveUp ELSE SaveSource(f)
  BY DEF BreakCycle
<1>2. CASE GiveUp
  BY <1>2, FrugalStays DEF GiveUp
<1>3. CASE SaveSource(f)
  <2>1. PICK p \in todo : /\ p # f /\ Held(f, p) /\ f \in Movable /\ p \in Movable
                          /\ f \notin Paired /\ p \notin Paired
                          /\ source[f] = plan[f].src
                          /\ \A j \in todo : Held(j, p) => j = f
    BY StuckPairs DEF BreakCycle
  <2>2. /\ source' = [source EXCEPT ![f] = Outgoing + temporary] /\ local' = [local EXCEPT ![f] = TRUE]
        /\ temporary' = temporary + plan[f].bytes /\ plan' = plan /\ todo' = todo
    BY <1>3 DEF SaveSource
  <2>3. /\ LegalPlan(plan) /\ f \in 1..Len(plan) /\ p \in 1..Len(plan) /\ temporary \in Nat /\ Outgoing \in Nat
        /\ DOMAIN source = 1..Len(plan) /\ DOMAIN local = 1..Len(plan)
        /\ \A i \in 1..Len(plan) : plan[i].bytes \in Nat
    BY Numbers, PlanFacts DEF Inv, TypeOK
  <2>4. Saved' = Saved \cup {f}
    <3>1. Outgoing + temporary >= Outgoing
      BY <2>3
    <3>2. \A i \in 1..Len(plan) : source'[i] = IF i = f THEN Outgoing + temporary ELSE source[i]
      BY <2>2, <2>3
    <3> QED BY <2>2, <2>3, <3>1, <3>2 DEF Saved
  <2>5. \A i, j : Held(j, i)' <=> Held(j, i)
    BY <2>2 DEF Held
  <2>6. \A g : Partners(g)' = Partners(g)
    BY <2>2, <2>5 DEF Partners
  <2>7. Partners(f) = {p}
    BY <2>1, <2>3, ReadsOne DEF Partners
  <2>8. Paired' = (Paired \cup {f}) \cup {p}
    BY <2>4, <2>6, <2>7 DEF Paired
  <2>9. Movable' = Movable
    BY <2>2 DEF Movable
  <2>10. \A i \in 1..Len(plan) : Original(i)' \/ i \in Saved'
    <3> TAKE i \in 1..Len(plan)
    <3>1. CASE i = f
      BY <2>4, <3>1
    <3>2. CASE i # f
      <4>1. source'[i] = source[i] /\ local'[i] = local[i]
        BY <2>2, <2>3, <3>2
      <4>2. Original(i) \/ i \in Saved
        BY DEF FrugalInv
      <4> QED BY <2>2, <2>4, <4>1, <4>2 DEF Original
    <3> QED BY <3>1, <3>2
  <2>11. \A g \in Saved', i \in 1..Len(plan), j \in todo : Held(g, i) /\ Held(j, i) => j = g
    <3> TAKE g \in Saved', i \in 1..Len(plan), j \in todo
    <3> HAVE Held(g, i) /\ Held(j, i)
    <3>1. CASE g = f
      <4>1. i = p
        BY <2>1, <2>3, <3>1, ReadsOne
      <4> QED BY <2>1, <3>1, <4>1
    <3>2. CASE g # f
      <4>1. g \in Saved
        BY <2>4, <3>2
      <4> QED BY <4>1 DEF FrugalInv
    <3> QED BY <3>1, <3>2
  <2>12. 2 * temporary' <= Bytes(plan, (Paired \cup {f}) \cup {p})
    <3> DEFINE old == Bytes(plan, Paired)
               mid == Bytes(plan, Paired \cup {f})
               new == Bytes(plan, (Paired \cup {f}) \cup {p})
               nf == plan[f].bytes
               np == plan[p].bytes
    <3>1. Weighed(plan)
      BY <2>3, PlanWeighed
    <3>2. mid = old + nf
      BY <2>1, <2>3, <3>1, BytesWith
    <3>3. new = mid + np
      <4>1. p \notin Paired \cup {f}
        BY <2>1
      <4> QED BY <2>3, <3>1, <4>1, BytesWith
    <3>4. old \in Nat
      BY <3>1, BytesMore
    <3>5. nf \in Nat /\ np \in Nat /\ nf <= np
      BY <2>1, <2>3, ReadsOne
    <3>6. 2 * temporary <= old /\ temporary' = temporary + nf
      BY <2>2 DEF FrugalInv
    <3> HIDE DEF old, mid, new, nf, np
    <3>7. 2 * temporary' <= new
      BY <2>3, <3>2, <3>3, <3>4, <3>5, <3>6
    <3> QED BY <3>7 DEF new
  <2>13. (todo \subseteq Listed(plan))' /\ Paired' \subseteq Movable'
    BY <2>1, <2>2, <2>8, <2>9 DEF FrugalInv
  <2>14. (\A g \in Saved, i \in 1..Len(plan), j \in todo : Held(g, i) /\ Held(j, i) => j = g)'
    BY <2>2, <2>5, <2>11
  <2>15. (2 * temporary <= Bytes(plan, Paired))'
    BY <2>2, <2>8, <2>12
  <2>16. (\A i \in 1..Len(plan) : Original(i) \/ i \in Saved)'
    BY <2>2, <2>10
  <2> QED BY <2>13, <2>14, <2>15, <2>16 DEF FrugalInv
<1> QED BY <1>1, <1>2, <1>3

\* A copy is saved only where a cycle is, and one for each cycle: the saved bytes
\* are at most half of what the edge moves within the frame (edge).
THEOREM CyclesBrokenFrugally == Spec => []BrokenFrugally
<1>1. Inv /\ FrugalInv /\ [Next]_vars => FrugalInv'
  <2> SUFFICES ASSUME Inv, FrugalInv, [Next]_vars PROVE FrugalInv'
    OBVIOUS
  <2>1. CASE EmitCopy
    BY <2>1, FrugalStays DEF EmitCopy
  <2>2. CASE Branch
    BY <2>2, FrugalStays DEF Branch
  <2>3. CASE UNCHANGED vars
    BY <2>3, FrugalStays DEF vars
  <2> QED BY <2>1, <2>2, <2>3, BreakFrugal DEF Next
<1>2. Inv /\ FrugalInv => BrokenFrugally
  <2> SUFFICES ASSUME Inv, FrugalInv PROVE BrokenFrugally
    OBVIOUS
  <2>1. TypeOK /\ OnlyRealCycles
    BY CyclesReal DEF Inv
  <2>2. Weighed(plan) /\ temporary \in Nat /\ Paired \subseteq Movable
    BY PlanWeighed DEF Inv, TypeOK, FrugalInv
  <2>3. Bytes(plan, Paired) <= Bytes(plan, Movable) /\ Bytes(plan, Paired) \in Nat /\ Bytes(plan, Movable) \in Nat
    BY <2>2, BytesMore
  <2>4. 2 * temporary <= Bytes(plan, Movable)
    <3> DEFINE x == Bytes(plan, Paired)
               y == Bytes(plan, Movable)
    <3>1. 2 * temporary <= x /\ x <= y /\ x \in Nat /\ y \in Nat
      BY <2>3 DEF FrugalInv
    <3> HIDE DEF x, y
    <3>2. 2 * temporary <= y
      BY <2>2, <3>1
    <3> QED BY <3>2 DEF y
  <2> QED BY <2>1, <2>4 DEF BrokenFrugally, TemporariesBounded, Movable
<1>3. Init => FrugalInv
  BY FrugalInit
<1> QED BY <1>1, <1>2, <1>3, InvAlways, PTL DEF Spec

-----------------------------------------------------------------------------
(* Pruning.                                                                *)


Refs(x) == program.callees[x] \cup program.addresses[x]
Indirect(defs) == defs \cap program.indirect # {}

\* The definitions that are read, and the addresses these show.
Whole(dependencies) == IF dependencies = {} THEN Symbols \ Runtime ELSE Symbols
Shown(dependencies) == UNION {program.addresses[x] : x \in Whole(dependencies)} \cap Callable

Complete(defs, dependencies) ==
  /\ defs \subseteq Whole(dependencies)
  /\ Roots(dependencies) \cap Whole(dependencies) \subseteq defs
  /\ \A x \in defs : Refs(x) \cap Whole(dependencies) \subseteq defs
  /\ Indirect(defs) => Shown(dependencies) \cap Whole(dependencies) \subseteq defs

Least(defs) ==
  \A other \in SUBSET Symbols : Complete(other, entries) => defs \subseteq other

\* What the passes over the worklist have established.
PassInv ==
  /\ live \subseteq module /\ pending \subseteq live
  /\ Least(live)
  /\ Roots(entries) \cap module \subseteq live
  /\ \A x \in live \ pending : Refs(x) \cap module \subseteq live
  /\ Indirect(live \ pending) => indirect
  /\ indirect => AddressTaken \cap module \subseteq live

ReadInv == module = Whole(entries)
PruneInv ==
  /\ Complete(module, entries) /\ Least(module)
  /\ Indirect(module) => Shown(entries) \cap Whole(entries) \subseteq retained

\* The entries of the runtime are those of a complete program without it.
EntriesInv ==
  entries # {} =>
    \E defs \in SUBSET Symbols : Complete(defs, {}) /\ Dependencies(defs) = entries

RunInv ==
  /\ Main \in module /\ program.pinned \subseteq module
  /\ \A x \in module : Refs(x) \subseteq module
  /\ \A f \in module \cap Functions : program.floats[f] \subseteq module
  /\ entered \subseteq module /\ held \subseteq module

IInv ==
  /\ program \in Programs
  /\ stage \in {"idle", "read", "prune", "run"}
  /\ entries \subseteq Runtime
  /\ stage \in {"read", "prune"} => PassInv /\ EntriesInv
  /\ stage = "idle" => entries = {}
  /\ stage = "read" => ReadInv
  /\ stage = "prune" => PruneInv
  /\ stage = "run" => RunInv

-----------------------------------------------------------------------------
\* What is known of a program.
LEMMA ProgramFacts ==
  ASSUME program \in Programs
  PROVE  /\ Main \in Symbols \ Runtime /\ program.pinned \subseteq Symbols \ Runtime
         /\ Runtime \subseteq Symbols
         /\ program.indirect \subseteq Symbols \ Runtime
         /\ \A x \in Symbols : Refs(x) \subseteq Symbols
         /\ \A x \in Runtime : Refs(x) \subseteq Runtime
         /\ \A x \in Symbols \ Runtime : Refs(x) \cap Runtime = {}
         /\ \A f \in Functions : program.floats[f] \subseteq Runtime
         /\ \A f \in Runtime : program.floats[f] = {}
<1>1. /\ program.callees \in [Symbols -> SUBSET Callable]
      /\ program.addresses \in [Symbols -> SUBSET Symbols]
      /\ program.indirect \subseteq Functions \ Runtime
      /\ program.floats \in [Functions -> SUBSET Runtime]
      /\ program.pinned \subseteq Globals \ Runtime
      /\ \A x \in Symbols : LET refs == program.callees[x] \cup program.addresses[x] IN
            IF x \in Runtime THEN refs \subseteq Runtime ELSE refs \cap Runtime = {}
      /\ \A f \in Runtime : program.floats[f] = {}
      /\ Runtime \subseteq Functions /\ Main \in Functions \ Runtime
  BY ProgramAssumption
<1>2. Callable \subseteq Symbols /\ Functions \subseteq Symbols /\ Globals \subseteq Symbols
  BY DEF Callable, Symbols
<1>3. Runtime \subseteq Symbols
  BY <1>1, <1>2
<1>4. \A x \in Symbols : Refs(x) \subseteq Symbols
  BY <1>1, <1>2 DEF Refs
<1>5. /\ \A x \in Runtime : Refs(x) \subseteq Runtime
      /\ \A x \in Symbols \ Runtime : Refs(x) \cap Runtime = {}
  BY <1>1, <1>3 DEF Refs
<1>6. \A f \in Functions : program.floats[f] \subseteq Runtime
  BY <1>1
<1> QED
  BY <1>1, <1>2, <1>3, <1>4, <1>5, <1>6

\* What is read is closed.
LEMMA WholeFacts ==
  ASSUME NEW d, program \in Programs
  PROVE  /\ Whole(d) \subseteq Symbols
         /\ Main \in Whole(d) /\ program.pinned \subseteq Whole(d)
         /\ \A x \in Whole(d) : Refs(x) \subseteq Whole(d)
<1>1. CASE d = {}
  <2>1. Whole(d) = Symbols \ Runtime
    BY <1>1 DEF Whole
  <2> QED
    BY <2>1, ProgramFacts
<1>2. CASE d # {}
  <2>1. Whole(d) = Symbols
    BY <1>2 DEF Whole
  <2> QED
    BY <2>1, ProgramFacts
<1> QED
  BY <1>1, <1>2

\* A complete set is closed: nothing it refers to was left unread.
LEMMA CompleteClosed ==
  ASSUME NEW d, NEW defs, program \in Programs, Complete(defs, d)
  PROVE  /\ \A x \in defs : Refs(x) \subseteq defs
         /\ Main \in defs /\ program.pinned \subseteq defs
         /\ d \cap Whole(d) \subseteq defs
<1>1. \A x \in defs : Refs(x) \subseteq Whole(d)
  BY WholeFacts DEF Complete
<1> QED
  BY <1>1, WholeFacts DEF Complete, Roots

\* When the program is read, what is taken for shown is what is shown.
LEMMA TakenIsShown ==
  ASSUME stage = "read", ReadInv
  PROVE  AddressTaken = Shown(entries)
  BY DEF AddressTaken, Shown, ReadInv

-----------------------------------------------------------------------------
\* A visit keeps to what every complete set has.
LEMMA VisitKeepsPass ==
  ASSUME program \in Programs, stage \in {"read", "prune"}, PassInv,
         stage = "read" => ReadInv, stage = "prune" => PruneInv, Visit
  PROVE  PassInv'
<1> PICK name \in pending :
      LET found == ~indirect /\ name \in program.indirect
          marked == (program.callees[name] \cup program.addresses[name]
                       \cup IF found THEN AddressTaken ELSE {}) \cap module
      IN /\ live' = live \cup marked
         /\ pending' = (pending \ {name}) \cup (marked \ live)
         /\ indirect' = (indirect \/ found)
         /\ UNCHANGED <<program, stage, module, entries, retained, run>>
  BY DEF Visit
<1> DEFINE found == ~indirect /\ name \in program.indirect
           marked == (Refs(name) \cup IF found THEN AddressTaken ELSE {}) \cap module
<1>1. /\ live' = live \cup marked
      /\ pending' = (pending \ {name}) \cup (marked \ live)
      /\ indirect' = (indirect \/ found)
  BY DEF Refs
<1>2. UNCHANGED <<program, stage, module, entries, retained>>
  OBVIOUS
<1>3. /\ AddressTaken' = AddressTaken /\ Roots(entries)' = Roots(entries)
      /\ \A x : Refs(x)' = Refs(x)
      /\ \A defs, d : Complete(defs, d)' <=> Complete(defs, d)
  BY <1>2 DEF AddressTaken, Roots, Refs, Complete, Whole, Shown, Indirect
<1>4. name \in live /\ pending \subseteq live /\ live \subseteq module
  BY DEF PassInv
<1>5. ASSUME NEW other \in SUBSET Symbols, Complete(other, entries)
      PROVE  marked \subseteq other
  <2>1. live \subseteq other
    BY <1>5 DEF PassInv, Least
  <2>2. CASE stage = "prune"
    BY <2>2, <1>5 DEF PruneInv, Least
  <2>3. CASE stage = "read"
    <3>1. module = Whole(entries) /\ AddressTaken = Shown(entries)
      BY <2>3, TakenIsShown DEF ReadInv
    <3>2. Refs(name) \cap module \subseteq other
      BY <3>1, <2>1, <1>4, <1>5 DEF Complete
    <3>3. found => AddressTaken \cap module \subseteq other
      BY <3>1, <2>1, <1>4, <1>5 DEF Complete, Indirect
    <3> QED
      BY <3>2, <3>3
  <2> QED
    BY <2>2, <2>3
<1>6. live' \subseteq module' /\ pending' \subseteq live'
  BY <1>1, <1>2, <1>4
<1>7. Least(live)'
  <2>1. \A other \in SUBSET Symbols : Complete(other, entries) => live \cup marked \subseteq other
    BY <1>5 DEF PassInv, Least
  <2> QED
    BY <2>1, <1>1, <1>2, <1>3 DEF Least
<1>8. Roots(entries)' \cap module' \subseteq live'
  BY <1>1, <1>2, <1>3 DEF PassInv
<1>9. live' \ pending' \subseteq (live \ pending) \cup {name}
  BY <1>1
<1>10. \A x \in live' \ pending' : Refs(x)' \cap module' \subseteq live'
  <2> HIDE DEF found
  <2>1. Refs(name) \cap module \subseteq marked
    OBVIOUS
  <2> QED
    BY <2>1, <1>1, <1>2, <1>3, <1>9 DEF PassInv
<1>11. Indirect(live \ pending)' => indirect'
  <2>1. Indirect(live \ pending) => indirect
    BY DEF PassInv
  <2>2. SUFFICES ASSUME (live' \ pending') \cap program.indirect # {}
                 PROVE  indirect'
    BY <1>2 DEF Indirect
  <2> QED
    BY <2>1, <2>2, <1>1, <1>9 DEF Indirect
<1>12. indirect' => AddressTaken' \cap module' \subseteq live'
  <2>1. indirect => AddressTaken \cap module \subseteq live
    BY DEF PassInv
  <2>2. found => AddressTaken \cap module \subseteq marked
    OBVIOUS
  <2> QED
    BY <2>1, <2>2, <1>1, <1>2, <1>3
<1> QED
  BY <1>6, <1>7, <1>8, <1>10, <1>11, <1>12 DEF PassInv

\* A pass begins with roots, which every complete set has.
LEMMA BeginEstablishesPass ==
  ASSUME NEW defs, NEW d, NEW name, Begin(name, defs, d), UNCHANGED program,
         \A other \in SUBSET Symbols : Complete(other, d) => Roots(d) \cap defs \subseteq other
  PROVE  PassInv'
<1>1. /\ module' = defs /\ entries' = d /\ live' = Roots(d) \cap defs
      /\ pending' = live' /\ indirect' = FALSE
  BY DEF Begin
<1>2. Roots(entries)' = Roots(d) /\ \A other : Complete(other, entries)' <=> Complete(other, d)
  BY <1>1 DEF Roots, Complete, Whole, Shown, Indirect, Refs
<1>3. Least(live)'
  BY <1>1, <1>2 DEF Least
<1>4. live' \ pending' = {}
  BY <1>1
<1> QED
  BY <1>1, <1>2, <1>3, <1>4 DEF PassInv, Indirect

\* At its end a pass has found a complete set.
LEMMA FinishedComplete ==
  ASSUME program \in Programs, stage \in {"read", "prune"}, PassInv, pending = {},
         stage = "read" => ReadInv, stage = "prune" => PruneInv
  PROVE  Complete(live, entries)
<1>1. /\ live \subseteq module /\ Roots(entries) \cap module \subseteq live
      /\ \A x \in live : Refs(x) \cap module \subseteq live
      /\ Indirect(live) => AddressTaken \cap module \subseteq live
  BY DEF PassInv, Indirect
<1>2. CASE stage = "read"
  BY <1>1, <1>2, TakenIsShown DEF Complete, ReadInv
<1>3. CASE stage = "prune"
  <2>1. Complete(module, entries)
    BY <1>3 DEF PruneInv
  <2>2. live \subseteq Whole(entries) /\ Roots(entries) \cap Whole(entries) \subseteq live
    BY <2>1, <1>1 DEF Complete
  <2>3. \A x \in live : Refs(x) \cap Whole(entries) \subseteq live
    BY <2>1, <1>1 DEF Complete
  <2>4. Indirect(live) => Shown(entries) \cap Whole(entries) \subseteq live
    <3>1. SUFFICES ASSUME Indirect(live)
                   PROVE  Shown(entries) \cap Whole(entries) \subseteq live
      OBVIOUS
    <3>2. Indirect(module)
      BY <3>1, <1>1 DEF Indirect
    <3>3. /\ Shown(entries) \cap Whole(entries) \subseteq retained
          /\ Shown(entries) \cap Whole(entries) \subseteq module
      BY <3>2, <2>1, <1>3 DEF PruneInv, Complete
    <3>4. retained \cap module \subseteq AddressTaken
      BY <1>3 DEF AddressTaken
    <3> QED
      BY <3>1, <3>3, <3>4, <1>1
  <2> QED
    BY <2>2, <2>3, <2>4 DEF Complete
<1> QED
  BY <1>2, <1>3

\* Reading again with the runtime adds the runtime at most.
LEMMA WithRuntimeComplete ==
  ASSUME program \in Programs, entries # {}, entries \subseteq Runtime,
         NEW defs \in SUBSET Symbols, Complete(defs, {})
  PROVE  Complete(defs \cup Runtime, entries)
<1>1. Whole(entries) = Symbols /\ Whole({}) = Symbols \ Runtime
  BY DEF Whole
<1>2. /\ \A x \in defs : Refs(x) \subseteq defs
      /\ Main \in defs /\ program.pinned \subseteq defs
  BY CompleteClosed
<1>3. defs \cup Runtime \subseteq Symbols /\ Roots(entries) \subseteq defs \cup Runtime
  BY <1>2, ProgramFacts DEF Roots
<1>4. \A x \in defs \cup Runtime : Refs(x) \subseteq defs \cup Runtime
  BY <1>2, ProgramFacts
<1>5. Indirect(defs \cup Runtime) => Indirect(defs)
  BY ProgramFacts DEF Indirect
<1>6. Indirect(defs) => Shown({}) \subseteq defs
  <2>1. \A x \in Symbols \ Runtime : program.addresses[x] \subseteq Symbols \ Runtime
    BY ProgramFacts DEF Refs
  <2>2. Shown({}) \subseteq Whole({})
    BY <2>1, <1>1 DEF Shown
  <2> QED
    BY <2>2 DEF Complete
<1>7. Shown(entries) \subseteq Shown({}) \cup Runtime
  <2>1. \A x \in Runtime : program.addresses[x] \subseteq Runtime
    BY ProgramFacts DEF Refs
  <2> QED
    BY <2>1, <1>1 DEF Shown
<1> QED
  BY <1>1, <1>3, <1>4, <1>5, <1>6, <1>7 DEF Complete

-----------------------------------------------------------------------------
\* Nothing has been read.
LEMMA InitIInv == PruningInit => IInv
BY DEF PruningInit, IInv

\* Reading starts a pass over all there is.
LEMMA ReadStep ==
  ASSUME IInv, Read
  PROVE  IInv'
<1>1. /\ Begin("read", Symbols \ Runtime, {}) /\ UNCHANGED program
      /\ stage' = "read" /\ module' = Symbols \ Runtime /\ entries' = {}
  BY DEF Read, Begin
<1>2. Whole({}) = Symbols \ Runtime
  BY DEF Whole
<1>3. \A other \in SUBSET Symbols : Complete(other, {}) => Roots({}) \cap Whole({}) \subseteq other
  BY DEF Complete
<1>4. PassInv'
  BY <1>1, <1>2, <1>3, BeginEstablishesPass
<1>5. ReadInv' /\ EntriesInv'
  BY <1>1 DEF ReadInv, EntriesInv, Whole
<1> QED
  BY <1>1, <1>4, <1>5 DEF IInv

\* A visit changes the pass alone.
LEMMA VisitStep ==
  ASSUME IInv, Visit
  PROVE  IInv'
<1>1. UNCHANGED <<program, stage, module, entries, retained, run>>
  BY DEF Visit
<1>2. CASE stage \in {"read", "prune"}
  <2>1. PassInv'
    BY <1>2, VisitKeepsPass DEF IInv
  <2>2. \A defs, d : Complete(defs, d)' <=> Complete(defs, d)
    BY <1>1 DEF Complete, Whole, Shown, Roots, Refs, Indirect
  <2>4. EntriesInv'
    BY <1>1, <1>2, <2>2 DEF IInv, EntriesInv, Dependencies
  <2>5. stage = "read" => ReadInv'
    BY <1>1 DEF IInv, ReadInv, Whole
  <2>6. stage = "prune" => PruneInv'
    <3> SUFFICES ASSUME stage = "prune", PruneInv PROVE PruneInv'
      BY DEF IInv
    <3>1. Complete(module, entries)' /\ Least(module)'
      <4>1. Complete(module, entries)'
        BY <1>1 DEF PruneInv, Complete, Whole, Shown, Roots, Refs, Indirect
      <4>2. Least(module)'
        BY <1>1 DEF PruneInv, Least, Complete, Whole, Shown, Roots, Refs, Indirect
      <4> QED
        BY <4>1, <4>2
    <3>2. (Indirect(module) => Shown(entries) \cap Whole(entries) \subseteq retained)'
      BY <1>1 DEF PruneInv, Indirect, Shown, Whole
    <3> QED
      BY <3>1, <3>2 DEF PruneInv
  <2> QED
    BY <1>1, <1>2, <2>1, <2>4, <2>5, <2>6 DEF IInv
<1>3. CASE stage = "idle"
  BY <1>1, <1>3 DEF IInv
<1>4. CASE stage = "run"
  BY <1>1, <1>4 DEF IInv, RunInv, Refs, run
<1> QED
  BY <1>2, <1>3, <1>4 DEF IInv

\* What was found is complete, and the least that is.
LEMMA PruneStep ==
  ASSUME IInv, Prune
  PROVE  IInv'
<1>1. /\ stage = "read" /\ pending = {} /\ Begin("prune", live, entries)
      /\ retained' = Retained \cap live /\ UNCHANGED program
      /\ stage' = "prune" /\ module' = live /\ entries' = entries
  BY DEF Prune, Begin, Finished
<1>2. PassInv /\ ReadInv /\ Complete(live, entries) /\ Least(live)
  BY <1>1, FinishedComplete DEF IInv, PassInv
<1>3. \A other \in SUBSET Symbols : Complete(other, entries) => Roots(entries) \cap live \subseteq other
  BY <1>2 DEF Least
<1>4. PassInv'
  BY <1>1, <1>3, BeginEstablishesPass
<1>5. \A defs, d : Complete(defs, d)' <=> Complete(defs, d)
  BY <1>1 DEF Complete, Whole, Shown, Roots, Refs, Indirect
<1>6. Complete(module, entries)' /\ Least(module)'
  <2>1. Complete(module, entries)'
    BY <1>1, <1>2 DEF Complete, Whole, Shown, Roots, Refs, Indirect
  <2>2. Least(module)'
    BY <1>1, <1>2 DEF Least, Complete, Whole, Shown, Roots, Refs, Indirect
  <2> QED
    BY <2>1, <2>2
<1>7. (Indirect(module) => Shown(entries) \cap Whole(entries) \subseteq retained)'
  <2>1. Indirect(live) => indirect
    BY <1>1, <1>2 DEF PassInv, Indirect
  <2>2. Indirect(live) => Shown(entries) \cap Whole(entries) \subseteq live
    BY <1>2 DEF Complete
  <2>3. AddressTaken = Shown(entries)
    BY <1>1, <1>2, TakenIsShown
  <2>4. Indirect(live) => Shown(entries) \cap Whole(entries) \subseteq Retained \cap live
    BY <2>1, <2>2, <2>3 DEF Retained
  <2> QED
    BY <1>1, <2>4 DEF Indirect, Shown, Whole
<1>8. EntriesInv'
  BY <1>1, <1>5 DEF IInv, EntriesInv, Dependencies
<1> QED
  BY <1>1, <1>4, <1>6, <1>7, <1>8 DEF IInv, PruneInv

\* The runtime is linked for a complete program.
LEMMA LinkStep ==
  ASSUME IInv, Link
  PROVE  IInv'
<1>1. /\ stage = "prune" /\ pending = {} /\ entries = {} /\ Dependencies(live) # {}
      /\ Begin("read", Symbols, Dependencies(live)) /\ UNCHANGED program
      /\ stage' = "read" /\ module' = Symbols /\ entries' = Dependencies(live)
  BY DEF Link, Begin, Finished
<1>2. Complete(live, {})
  BY <1>1, FinishedComplete DEF IInv
<1>3. Whole(Dependencies(live)) = Symbols /\ live \in SUBSET Symbols
  BY <1>1, <1>2, WholeFacts DEF Whole, Complete, IInv
<1>4. PassInv'
  <2>1. \A other \in SUBSET Symbols :
          Complete(other, Dependencies(live)) => Roots(Dependencies(live)) \cap Symbols \subseteq other
    BY <1>3 DEF Complete
  <2> HIDE DEF Dependencies
  <2> QED
    BY <1>1, <2>1, BeginEstablishesPass
<1>5. \A defs, d : Complete(defs, d)' <=> Complete(defs, d)
  BY <1>1 DEF Complete, Whole, Shown, Roots, Refs, Indirect
<1>6. EntriesInv'
  <2>1. \A defs : Dependencies(defs)' = Dependencies(defs)
    BY <1>1 DEF Dependencies
  <2>2. \A defs : Complete(defs, {})' <=> Complete(defs, {})
    BY <1>5
  <2> QED
    BY <1>1, <1>2, <1>3, <2>1, <2>2 DEF EntriesInv
<1>7. ReadInv'
  BY <1>1, <1>3 DEF ReadInv, Whole
<1>8. Dependencies(live) \subseteq Runtime
  BY ProgramFacts DEF Dependencies, IInv
<1> QED
  BY <1>1, <1>4, <1>6, <1>7, <1>8 DEF IInv

\* What is compiled has what its float operations will call: it is the program
\* they were looked for in, and the runtime.
LEMMA CompileStep ==
  ASSUME IInv, Compile
  PROVE  IInv'
<1>1. /\ stage = "prune" /\ pending = {} /\ (entries # {} \/ Dependencies(live) = {})
      /\ stage' = "run" /\ module' = live /\ entered' = {Main} /\ held' = program.pinned
      /\ UNCHANGED <<program, entries>>
  BY DEF Compile, Finished
<1>2. Complete(live, entries) /\ Least(live) /\ program \in Programs /\ entries \subseteq Runtime
  BY <1>1, FinishedComplete DEF IInv, PassInv
<1>3. /\ \A x \in live : Refs(x) \subseteq live
      /\ Main \in live /\ program.pinned \subseteq live
      /\ entries \cap Whole(entries) \subseteq live
  BY <1>2, CompleteClosed
<1>4. ASSUME NEW f \in live \cap Functions
      PROVE  program.floats[f] \subseteq live
  <2>1. CASE entries = {}
    BY <1>1, <2>1, <1>4 DEF Dependencies
  <2>2. CASE entries # {}
    <3>1. PICK defs \in SUBSET Symbols : Complete(defs, {}) /\ Dependencies(defs) = entries
      BY <2>2, <1>1 DEF IInv, EntriesInv
    <3>2. Complete(defs \cup Runtime, entries)
      BY <3>1, <2>2, <1>2, WithRuntimeComplete
    <3>3. live \subseteq defs \cup Runtime
      BY <3>2, <1>2, ProgramFacts DEF Least
    <3>4. entries \subseteq live
      <4>1. Whole(entries) = Symbols
        BY <2>2 DEF Whole
      <4> QED
        BY <4>1, <1>2, <1>3, ProgramFacts
    <3>5. CASE f \in Runtime
      BY <3>5, <1>2, ProgramFacts
    <3>6. CASE f \in defs
      BY <3>6, <3>1, <3>4, <1>4 DEF Dependencies
    <3> QED
      BY <3>3, <3>5, <3>6, <1>4
  <2> QED
    BY <2>1, <2>2
<1>5. RunInv'
  BY <1>1, <1>3, <1>4 DEF RunInv, Refs
<1> QED
  BY <1>1, <1>2, <1>5 DEF IInv

\* A run stays among what is complete.
LEMMA RunStep ==
  ASSUME IInv, Enter \/ StartUp \/ Learn
  PROVE  IInv'
<1>1. /\ stage = "run" /\ RunInv
      /\ UNCHANGED <<program, stage, module, entries>>
  BY DEF IInv, Enter, StartUp, Learn
<1>2. entered' \cup held' \subseteq module
  <2>1. CASE Enter
    <3>1. PICK x \in entered : \E y \in Enters(x) \ entered : entered' = entered \cup {y}
      BY <2>1 DEF Enter
    <3>2. Enters(x) \subseteq module
      <4>1. x \in module /\ Refs(x) \subseteq module
        BY <1>1 DEF RunInv
      <4>2. x \in Functions => program.floats[x] \subseteq module
        BY <4>1, <1>1 DEF RunInv
      <4> QED
        BY <4>1, <4>2, <1>1 DEF Enters, Refs, RunInv
    <3> QED
      BY <2>1, <3>1, <3>2, <1>1 DEF Enter, RunInv
  <2>2. CASE StartUp
    BY <2>2, <1>1 DEF StartUp, RunInv, Refs
  <2>3. CASE Learn
    BY <2>3, <1>1 DEF Learn, RunInv, Refs
  <2> QED
    BY <2>1, <2>2, <2>3
<1>3. RunInv'
  BY <1>1, <1>2 DEF RunInv, Refs
<1> QED
  BY <1>1, <1>3 DEF IInv

\* Nothing changes.
LEMMA StutterStep ==
  ASSUME IInv, UNCHANGED pruningVars
  PROVE  IInv'
<1>1. UNCHANGED <<program, stage, module, entries, retained, live, pending, indirect, entered, held>>
  BY DEF pruningVars, pass, run
<1>2. PassInv <=> PassInv'
  <2>1. Least(live) <=> Least(live)'
    BY <1>1 DEF Least, Complete, Whole, Shown, Roots, Refs, Indirect
  <2>2. (AddressTaken' = AddressTaken) /\ (\A x : Refs(x)' = Refs(x)) /\ Roots(entries)' = Roots(entries)
    BY <1>1 DEF AddressTaken, Refs, Roots
  <2> QED
    BY <1>1, <2>1, <2>2 DEF PassInv, Indirect
<1>3. \A defs, d : Complete(defs, d)' <=> Complete(defs, d)
  BY <1>1 DEF Complete, Whole, Shown, Roots, Refs, Indirect
<1>4. EntriesInv <=> EntriesInv'
  BY <1>1, <1>3 DEF EntriesInv, Dependencies
<1>5. (ReadInv <=> ReadInv') /\ (RunInv <=> RunInv')
  BY <1>1 DEF ReadInv, RunInv, Whole, Refs
<1>6. PruneInv <=> PruneInv'
  <2>1. Complete(module, entries) <=> Complete(module, entries)'
    BY <1>1 DEF Complete, Whole, Shown, Roots, Refs, Indirect
  <2>2. Least(module) <=> Least(module)'
    BY <1>1 DEF Least, Complete, Whole, Shown, Roots, Refs, Indirect
  <2> QED
    BY <1>1, <2>1, <2>2 DEF PruneInv, Indirect, Shown, Whole
<1> QED
  BY <1>1, <1>2, <1>4, <1>5, <1>6 DEF IInv

\* Pruning keeps its inductive invariant.
THEOREM Invariance == PruningSpec => []IInv
<1>1. PruningInit => IInv
  BY InitIInv
<1>2. IInv /\ [PruningNext]_pruningVars => IInv'
  BY ReadStep, VisitStep, PruneStep, LinkStep, CompileStep, RunStep, StutterStep DEF PruningNext
<1> QED
  BY <1>1, <1>2, PTL DEF PruningSpec

\* Whatever the program consists of, whichever way its run takes: what the run
\* comes to has been compiled (main.cpp:70-85, prune.cpp:96-157).
THEOREM NothingMissing == PruningSpec => []RunsWhole
<1>1. IInv => RunsWhole
  BY DEF IInv, RunInv, RunsWhole
<1> QED
  BY <1>1, Invariance, PTL

\* Pruning what was pruned removes nothing, whatever the order of the worklist
\* (prune.cpp:96-157).
THEOREM Idempotent == PruningSpec => []PrunesOnce
<1>1. IInv => PrunesOnce
  <2> SUFFICES ASSUME IInv, stage = "prune", pending = {} PROVE live = module
    BY DEF PrunesOnce, Finished
  <2>1. Complete(live, entries)
    BY FinishedComplete DEF IInv
  <2>2. live \in SUBSET Symbols /\ live \subseteq module /\ Least(module)
    BY <2>1, WholeFacts DEF Complete, IInv, PassInv, PruneInv
  <2> QED
    BY <2>1, <2>2 DEF Least
<1> QED
  BY <1>1, Invariance, PTL
-----------------------------------------------------------------------------
(* The frame of a function.                                                *)

\* Dominance.
Dominates(p, d, b) == d \in p.dom[b]

LEMMA GraphFacts ==
  ASSUME NEW p \in Bodies
  PROVE  /\ Len(p.succ) \in Nat \ {0}
         /\ \A b \in 1 .. Len(p.succ) : \A i \in 1 .. Len(p.succ[b]) : p.succ[b][i] \in 2 .. Len(p.succ)
         /\ \A S \in SUBSET (1 .. Len(p.succ)) : Closed(p.succ, S, 0) => S = 1 .. Len(p.succ)
         /\ \A b \in 1 .. Len(p.succ) : p.dom[b] \subseteq 1 .. Len(p.succ)
         /\ \A d, b \in 1 .. Len(p.succ) :
              Dominates(p, d, b) <=> \E S \in SUBSET ((1 .. Len(p.succ)) \ {d}) : Closed(p.succ, S, d) /\ b \notin S
<1>1. GraphOK(p)
  BY BodiesAssumption
<1>2. /\ Len(p.succ) > 0 /\ p.succ \in Seq(Seq((1 .. Len(p.succ)) \ {1}))
      /\ p.dom = Dominators(p.succ)
      /\ \A S \in SUBSET (1 .. Len(p.succ)) : Closed(p.succ, S, 0) => S = 1 .. Len(p.succ)
  BY <1>1 DEF GraphOK
<1> DEFINE n == Len(p.succ)
<1>3. n \in Nat \ {0}
  BY <1>2
<1>4. \A b \in 1 .. n : \A i \in 1 .. Len(p.succ[b]) : p.succ[b][i] \in 2 .. n
  <2> TAKE b \in 1 .. n
  <2>1. p.succ[b] \in Seq((1 .. n) \ {1})
    BY <1>2
  <2>2. \A i \in 1 .. Len(p.succ[b]) : p.succ[b][i] \in (1 .. n) \ {1}
    BY <2>1
  <2> QED BY <1>3, <2>2
<1>5. \A b \in 1 .. n : p.dom[b] = {d \in 1 .. n : \E S \in SUBSET ((1 .. n) \ {d}) : Closed(p.succ, S, d) /\ b \notin S}
  BY <1>2 DEF Dominators
<1> QED BY <1>2, <1>3, <1>4, <1>5 DEF Dominates

LEMMA DominatesItself ==
  ASSUME NEW p \in Bodies, NEW b \in 1 .. Len(p.succ)
  PROVE  Dominates(p, b, b)
<1> DEFINE S0 == (1 .. Len(p.succ)) \ {b}
<1>a. Len(p.succ) \in Nat \ {0} /\ \A x \in 1 .. Len(p.succ) : \A i \in 1 .. Len(p.succ[x]) : p.succ[x][i] \in 2 .. Len(p.succ)
  BY GraphFacts
<1>0. 1 \in 1 .. Len(p.succ) /\ \A x \in 1 .. Len(p.succ) : \A i \in 1 .. Len(p.succ[x]) : p.succ[x][i] \in 1 .. Len(p.succ)
  BY <1>a
<1>1. Closed(p.succ, S0, b)
  BY <1>0 DEF Closed
<1>2. S0 \in SUBSET ((1 .. Len(p.succ)) \ {b}) /\ b \notin S0
  OBVIOUS
<1>3. Dominates(p, b, b) <=> \E S \in SUBSET ((1 .. Len(p.succ)) \ {b}) : Closed(p.succ, S, b) /\ b \notin S
  BY GraphFacts
<1> HIDE DEF S0
<1> QED BY <1>1, <1>2, <1>3

\* The first block is dominated by itself only.
LEMMA EntryDominated ==
  ASSUME NEW p \in Bodies, NEW d \in 1 .. Len(p.succ), Dominates(p, d, 1)
  PROVE  d = 1
BY GraphFacts DEF Closed

\* What dominates a block and is another dominates all it is entered from.
LEMMA DominatesBefore ==
  ASSUME NEW p \in Bodies, NEW b \in 1 .. Len(p.succ), NEW i \in 1 .. Len(p.succ[b]),
         NEW d \in 1 .. Len(p.succ), Dominates(p, d, p.succ[b][i]), d # p.succ[b][i]
  PROVE  Dominates(p, d, b)
<1>0. p.succ[b][i] \in 2 .. Len(p.succ) /\ Len(p.succ) \in Nat
  BY GraphFacts
<1>1. p.succ[b][i] \in 1 .. Len(p.succ)
  BY <1>0
<1>2. PICK S \in SUBSET ((1 .. Len(p.succ)) \ {d}) : Closed(p.succ, S, d) /\ p.succ[b][i] \notin S
  BY <1>1, GraphFacts
<1>3. b \notin S
  BY <1>2 DEF Closed
<1> QED BY <1>2, <1>3, GraphFacts

LEMMA DominatesTransitive ==
  ASSUME NEW p \in Bodies, NEW a \in 1 .. Len(p.succ), NEW b \in 1 .. Len(p.succ), NEW c \in 1 .. Len(p.succ),
         Dominates(p, a, b), Dominates(p, b, c)
  PROVE  Dominates(p, a, c)
<1>1. PICK S \in SUBSET ((1 .. Len(p.succ)) \ {a}) : Closed(p.succ, S, a) /\ b \notin S
  BY GraphFacts
<1>2. PICK U \in SUBSET ((1 .. Len(p.succ)) \ {b}) : Closed(p.succ, U, b) /\ c \notin U
  BY GraphFacts
<1>3. Closed(p.succ, S \cap U, a)
  <2>1. a # 1 => 1 \in S \cap U
    BY <1>1, <1>2 DEF Closed
  <2>2. ASSUME NEW x \in S \cap U, NEW i \in 1 .. Len(p.succ[x]), p.succ[x][i] # a PROVE p.succ[x][i] \in S \cap U
    <3>1. p.succ[x][i] \in S
      BY <1>1, <2>2 DEF Closed
    <3>2. p.succ[x][i] # b
      BY <1>1, <3>1
    <3> QED BY <1>2, <3>1, <3>2 DEF Closed
  <2> QED BY <2>1, <2>2 DEF Closed
<1>4. S \cap U \in SUBSET ((1 .. Len(p.succ)) \ {a}) /\ c \notin S \cap U
  BY <1>1, <1>2
<1> QED BY <1>3, <1>4, GraphFacts

\* No block that can be reached and another dominate each other.
LEMMA DominatesOneWay ==
  ASSUME NEW p \in Bodies, NEW a \in 1 .. Len(p.succ), NEW b \in 1 .. Len(p.succ),
         Dominates(p, a, b), Dominates(p, b, a)
  PROVE  a = b
<1> SUFFICES ASSUME a # b PROVE FALSE
  OBVIOUS
<1>1. PICK S \in SUBSET ((1 .. Len(p.succ)) \ {a}) : Closed(p.succ, S, a) /\ b \notin S
  BY GraphFacts
<1>2. PICK U \in SUBSET ((1 .. Len(p.succ)) \ {b}) : Closed(p.succ, U, b) /\ a \notin U
  BY GraphFacts
<1>3. a # 1 /\ b # 1
  BY EntryDominated
<1>4. 1 \in S \cap U
  BY <1>1, <1>2, <1>3 DEF Closed
<1>5. ASSUME NEW x \in S \cap U, NEW i \in 1 .. Len(p.succ[x]) PROVE p.succ[x][i] \in S \cap U
  <2>1. p.succ[x][i] \in S \cup {a} /\ p.succ[x][i] \in U \cup {b}
    BY <1>1, <1>2 DEF Closed
  <2> QED BY <1>1, <1>2, <2>1
<1>6. Closed(p.succ, S \cap U, 0)
  BY <1>4, <1>5 DEF Closed
<1>7. S \cap U \in SUBSET (1 .. Len(p.succ)) /\ a \notin S \cap U
  BY <1>1
<1> QED BY <1>6, <1>7, GraphFacts

\* A block other than the first is entered from somewhere, and what dominates all
\* it is entered from dominates it, from before.
LEMMA DominatesAfter ==
  ASSUME NEW p \in Bodies, NEW d \in 1 .. Len(p.succ), NEW t \in 2 .. Len(p.succ),
         \A b \in 1 .. Len(p.succ) : \A i \in 1 .. Len(p.succ[b]) : p.succ[b][i] = t => Dominates(p, d, b)
  PROVE  /\ Dominates(p, d, t) /\ d # t
         /\ \E b \in 1 .. Len(p.succ) : \E i \in 1 .. Len(p.succ[b]) : p.succ[b][i] = t
<1> DEFINE n == Len(p.succ)
<1>0. n \in Nat /\ t \in 1 .. n /\ t # 1 /\ 1 \in 1 .. n
  BY GraphFacts
<1>s. \A x \in 1 .. n : \A i \in 1 .. Len(p.succ[x]) : p.succ[x][i] \in 1 .. n
  <2>1. \A x \in 1 .. n : \A i \in 1 .. Len(p.succ[x]) : p.succ[x][i] \in 2 .. n
    BY GraphFacts
  <2> QED BY <1>0, <2>1
<1>1. \E b \in 1 .. n : \E i \in 1 .. Len(p.succ[b]) : p.succ[b][i] = t
  <2>1. SUFFICES ASSUME \A b \in 1 .. n : \A i \in 1 .. Len(p.succ[b]) : p.succ[b][i] # t PROVE FALSE
    OBVIOUS
  <2>2. Closed(p.succ, (1 .. n) \ {t}, 0)
    BY <1>0, <1>s, <2>1 DEF Closed
  <2>3. (1 .. n) \ {t} = 1 .. n
    BY <2>2, GraphFacts
  <2> QED BY <1>0, <2>3
<1>2. d # t
  <2>1. SUFFICES ASSUME d = t PROVE FALSE
    OBVIOUS
  <2> DEFINE S == {x \in 1 .. n : ~Dominates(p, t, x)}
  <2>2. 1 \in S
    BY <1>0, EntryDominated
  <2>3. ASSUME NEW x \in S, NEW i \in 1 .. Len(p.succ[x]) PROVE p.succ[x][i] \in S
    <3>1. p.succ[x][i] # t /\ p.succ[x][i] \in 1 .. n
      BY <1>s, <2>1
    <3>2. ~Dominates(p, t, p.succ[x][i])
      BY <1>0, <3>1, DominatesBefore
    <3> QED BY <3>1, <3>2
  <2>4. Closed(p.succ, S, 0)
    BY <2>2, <2>3 DEF Closed
  <2>5. S = 1 .. n
    BY <2>4, GraphFacts
  <2> QED BY <1>0, <2>5, DominatesItself
<1>3. Dominates(p, d, t)
  <2> DEFINE S == {x \in (1 .. n) \ {d, t} : ~Dominates(p, d, x)}
  <2>1. d # 1 => 1 \in S
    BY <1>0, EntryDominated
  <2>2. ASSUME NEW x \in S, NEW i \in 1 .. Len(p.succ[x]), p.succ[x][i] # d PROVE p.succ[x][i] \in S
    <3>1. p.succ[x][i] # t /\ p.succ[x][i] \in 1 .. n
      BY <1>s
    <3>2. ~Dominates(p, d, p.succ[x][i])
      BY <2>2, <3>1, DominatesBefore
    <3> QED BY <2>2, <3>1, <3>2
  <2>3. Closed(p.succ, S, d)
    BY <2>1, <2>2 DEF Closed
  <2>4. S \in SUBSET ((1 .. n) \ {d}) /\ t \notin S
    OBVIOUS
  <2> HIDE DEF S
  <2> QED BY <1>0, <2>3, <2>4, GraphFacts
<1> QED BY <1>1, <1>2, <1>3
-----------------------------------------------------------------------------
\* What a legal body gives about its values.
LEMMA BodyFacts ==
  ASSUME NEW p \in Bodies
  PROVE  /\ Len(p.kind) \in Nat
         /\ \A v \in 1 .. Len(p.kind) : p.block[v] \in 1 .. Len(p.succ) /\ p.size[v] \in {1, 2}
         /\ \A v \in 1 .. Len(p.kind) : p.kind[v] \in {"op", "view", "part", "phi"}
         /\ \A v \in 1 .. Len(p.kind) : p.kind[v] \in {"view", "part"} =>
              p.from[v] \in 1 .. Len(p.kind) /\ Earlier(p, p.from[v], v)
         /\ \A v \in 1 .. Len(p.kind) : p.kind[v] = "view" => p.off[v] = 0 /\ p.size[p.from[v]] = p.size[v]
         /\ \A v \in 1 .. Len(p.kind) : p.kind[v] = "part" => p.off[v] \in 0 .. p.size[p.from[v]] - 1 /\ p.size[v] = 1
         /\ \A v \in 1 .. Len(p.kind) : p.kind[v] = "phi" =>
              /\ p.block[v] # 1
              /\ DOMAIN p.incoming[v] = {b \in 1 .. Len(p.succ) : \E i \in 1 .. Len(p.succ[b]) : p.succ[b][i] = p.block[v]}
              /\ \A b \in DOMAIN p.incoming[v] : Provided(p, p.incoming[v][b], b, p.size[v])
         /\ p.ret # 0 => p.ret \in 1 .. Len(p.kind)
         /\ \A b \in 1 .. Len(p.succ) : p.succ[b] = <<>> /\ p.ret # 0 => p.block[p.ret] \in p.dom[b]
<1>1. BodyOK(p)
  BY BodiesAssumption
<1>2. p.kind \in Seq({"op", "view", "part", "phi"})
  BY <1>1 DEF BodyOK
<1>3. Len(p.kind) \in Nat /\ \A v \in 1 .. Len(p.kind) : p.kind[v] \in {"op", "view", "part", "phi"}
  BY <1>2
<1>4. p.block \in [1 .. Len(p.kind) -> 1 .. Len(p.succ)] /\ p.size \in [1 .. Len(p.kind) -> 1 .. 2]
  BY <1>1 DEF BodyOK
<1>5. \A v \in 1 .. Len(p.kind) : p.block[v] \in 1 .. Len(p.succ) /\ p.size[v] \in {1, 2}
  BY <1>4
<1>6. /\ \A v \in 1 .. Len(p.kind) : p.kind[v] \in {"view", "part"} =>
           p.from[v] \in 1 .. Len(p.kind) /\ Earlier(p, p.from[v], v)
      /\ \A v \in 1 .. Len(p.kind) : p.kind[v] = "view" => p.off[v] = 0 /\ p.size[p.from[v]] = p.size[v]
      /\ \A v \in 1 .. Len(p.kind) : p.kind[v] = "part" => p.off[v] \in 0 .. p.size[p.from[v]] - 1 /\ p.size[v] = 1
  BY <1>1 DEF BodyOK
<1>7. \A v \in 1 .. Len(p.kind) : p.kind[v] = "phi" =>
        /\ p.block[v] # 1
        /\ DOMAIN p.incoming[v] = {b \in 1 .. Len(p.succ) : \E i \in 1 .. Len(p.succ[b]) : p.succ[b][i] = p.block[v]}
        /\ \A b \in DOMAIN p.incoming[v] : Provided(p, p.incoming[v][b], b, p.size[v])
  BY <1>1 DEF BodyOK
<1>8. /\ p.ret # 0 => p.ret \in 1 .. Len(p.kind)
      /\ \A b \in 1 .. Len(p.succ) : p.succ[b] = <<>> /\ p.ret # 0 => p.block[p.ret] \in p.dom[b]
  BY <1>1 DEF BodyOK
<1> QED BY <1>3, <1>5, <1>6, <1>7, <1>8

\* Dominators first, then the order of the source.
Rank(p, v) == Cardinality(p.dom[p.block[v]]) * (Len(p.kind) + 1) + v
HighRank(p) == Len(p.succ) * (Len(p.kind) + 1) + Len(p.kind)

LEMMA HighRankNat ==
  ASSUME NEW p \in Bodies
  PROVE  HighRank(p) \in Nat
<1>1. Len(p.succ) \in Nat /\ Len(p.kind) \in Nat
  BY GraphFacts, BodyFacts
<1>2. \A x, y \in Nat : x * y \in Nat
  OBVIOUS
<1> DEFINE n == Len(p.succ)
           m == Len(p.kind) + 1
<1>3. m \in Nat
  BY <1>1
<1>4. n * m \in Nat
  <2> HIDE DEF m
  <2> QED BY <1>1, <1>2, <1>3
<1>5. HighRank(p) = n * m + Len(p.kind)
  BY DEF HighRank
<1> HIDE DEF n, m
<1> QED BY <1>1, <1>4, <1>5

LEMMA RankBounded ==
  ASSUME NEW p \in Bodies, NEW v \in 1 .. Len(p.kind)
  PROVE  /\ Rank(p, v) \in 0 .. HighRank(p) /\ HighRank(p) \in Nat
         /\ Cardinality(p.dom[p.block[v]]) \in Nat /\ IsFiniteSet(p.dom[p.block[v]])
<1> DEFINE n == Len(p.succ)
           m == Len(p.kind) + 1
           c == Cardinality(p.dom[p.block[v]])
<1>1. n \in Nat /\ p.block[v] \in 1 .. n /\ Len(p.kind) \in Nat
  BY GraphFacts, BodyFacts
<1>2. p.dom[p.block[v]] \subseteq 1 .. n
  BY <1>1, GraphFacts
<1>3. IsFiniteSet(1 .. n) /\ Cardinality(1 .. n) = n
  <2>1. 1 \in Int /\ n \in Int
    BY <1>1
  <2>2. Cardinality(1 .. n) = IF 1 > n THEN 0 ELSE n - 1 + 1
    BY <2>1, FS_Interval
  <2>3. IsFiniteSet(1 .. n)
    BY <2>1, FS_Interval
  <2>4. ~(1 > n) => n - 1 + 1 = n
    BY <1>1
  <2>5. 1 > n => n = 0
    BY <1>1
  <2> HIDE DEF n
  <2> QED BY <2>2, <2>3, <2>4, <2>5
<1>4. IsFiniteSet(p.dom[p.block[v]]) /\ c <= n
  BY <1>2, <1>3, FS_Subset
<1>5. c \in Nat
  BY <1>4, FS_CardinalityType
<1>6. \A a, b, k \in Nat : a <= b => a * k <= b * k /\ a * k \in Nat /\ b * k \in Nat
  OBVIOUS
<1>7. c * m <= n * m /\ c * m \in Nat /\ n * m \in Nat
  <2> HIDE DEF c
  <2>1. m \in Nat
    BY <1>1
  <2> HIDE DEF m, n
  <2> QED BY <1>1, <1>4, <1>5, <1>6, <2>1
<1>8. Rank(p, v) = c * m + v /\ HighRank(p) = n * m + Len(p.kind)
  BY DEF Rank, HighRank
<1>9. v \in Nat /\ v <= Len(p.kind)
  BY <1>1
<1>10. c * m + v \in 0 .. n * m + Len(p.kind) /\ n * m + Len(p.kind) \in Nat
  <2> HIDE DEF c, m, n
  <2> QED BY <1>1, <1>7, <1>9
<1> QED BY <1>4, <1>5, <1>8, <1>10

LEMMA RankFalls ==
  ASSUME NEW p \in Bodies, NEW u \in 1 .. Len(p.kind), NEW v \in 1 .. Len(p.kind), Earlier(p, u, v)
  PROVE  Rank(p, u) < Rank(p, v)
<1> DEFINE a == p.block[u]
           b == p.block[v]
           c == Cardinality(p.dom[a])
           d == Cardinality(p.dom[b])
           m == Len(p.kind) + 1
<1>1. a \in 1 .. Len(p.succ) /\ b \in 1 .. Len(p.succ) /\ Len(p.kind) \in Nat
  BY BodyFacts
<1>2. Dominates(p, a, b) /\ (a = b => u < v)
  BY DEF Earlier, Dominates
<1>3. c \in Nat /\ d \in Nat /\ IsFiniteSet(p.dom[b])
  BY RankBounded
<1>4. Rank(p, u) = c * m + u /\ Rank(p, v) = d * m + v
  BY DEF Rank
<1>5. CASE a = b
  <2>1. u < v /\ c = d
    BY <1>2, <1>5
  <2>2. c * m \in Nat
    <3>1. m \in Nat
      BY <1>1
    <3>2. \A x, y \in Nat : x * y \in Nat
      OBVIOUS
    <3> HIDE DEF c, m
    <3> QED BY <1>3, <3>1, <3>2
  <2>3. u \in Nat /\ v \in Nat
    BY <1>1
  <2> HIDE DEF c, d, m
  <2>4. c * m + u < c * m + v
    BY <2>1, <2>2, <2>3
  <2> QED BY <1>4, <2>1, <2>4
<1>6. CASE a # b
  <2>1. p.dom[a] \subseteq p.dom[b]
    <3>1. p.dom[a] \subseteq 1 .. Len(p.succ)
      BY <1>1, GraphFacts
    <3>2. ASSUME NEW e \in p.dom[a] PROVE e \in p.dom[b]
      <4>1. e \in 1 .. Len(p.succ) /\ Dominates(p, e, a)
        BY <3>1 DEF Dominates
      <4>2. Dominates(p, e, b)
        BY <1>1, <1>2, <4>1, DominatesTransitive
      <4> QED BY <4>2 DEF Dominates
    <3> QED BY <3>2
  <2>2. b \in p.dom[b] /\ b \notin p.dom[a]
    <3>1. Dominates(p, b, b)
      BY <1>1, DominatesItself
    <3>2. ~Dominates(p, b, a)
      BY <1>1, <1>2, <1>6, DominatesOneWay
    <3> QED BY <3>1, <3>2 DEF Dominates
  <2>3. p.dom[a] # p.dom[b]
    BY <2>2
  <2>4. c < d
    BY <1>3, <2>1, <2>3, FS_Subset
  <2>5. u \in Nat /\ v \in Nat /\ u < m /\ m \in Nat
    BY <1>1
  <2>6. \A x, y, z \in Nat : x < y => x * z + z <= y * z /\ x * z \in Nat /\ y * z \in Nat
    <3> TAKE x, y, z \in Nat
    <3> HAVE x < y
    <3>1. PICK w \in Nat : y = x + 1 + w
      <4> WITNESS y - x - 1 \in Nat
      <4> QED OBVIOUS
    <3>2. w * z \in Nat /\ x * z \in Nat /\ y * z \in Nat
      OBVIOUS
    <3>3. y * z = x * z + z + w * z
      BY <3>1
    <3> QED BY <3>2, <3>3
  <2> HIDE DEF c, d, m, a, b
  <2>7. c * m + m <= d * m /\ c * m \in Nat /\ d * m \in Nat
    BY <1>3, <2>4, <2>5, <2>6
  <2> QED BY <1>4, <2>5, <2>7
<1> QED BY <1>5, <1>6

\* Control may pass from b to t.
Passes(p, b, t) == \E i \in 1 .. Len(p.succ[b]) : p.succ[b][i] = t

LEMMA DominatesEntered ==
  ASSUME NEW p \in Bodies, NEW d \in 1 .. Len(p.succ), NEW t \in 2 .. Len(p.succ),
         \A b \in 1 .. Len(p.succ) : Passes(p, b, t) => Dominates(p, d, b)
  PROVE  /\ Dominates(p, d, t) /\ d # t
         /\ \E b \in 1 .. Len(p.succ) : Passes(p, b, t)
<1>1. \A b \in 1 .. Len(p.succ) : \A i \in 1 .. Len(p.succ[b]) : p.succ[b][i] = t => Dominates(p, d, b)
  BY DEF Passes
<1>2. /\ Dominates(p, d, t) /\ d # t
      /\ \E b \in 1 .. Len(p.succ) : \E i \in 1 .. Len(p.succ[b]) : p.succ[b][i] = t
  BY <1>1, DominatesAfter
<1> QED BY <1>2 DEF Passes

\* The one source of a phi dominates its block, from before.
LEMMA PhiSource ==
  ASSUME prog \in Bodies, NEW v \in Values, SameSource(prog, v)
  PROVE  /\ SourceOf(prog, v) \in Values
         /\ Dominates(prog, prog.block[SourceOf(prog, v)], prog.block[v])
         /\ prog.block[SourceOf(prog, v)] # prog.block[v]
         /\ prog.size[SourceOf(prog, v)] = prog.size[v]
         /\ \A b \in DOMAIN prog.incoming[v] : prog.incoming[v][b] = SourceOf(prog, v)
<1> DEFINE p == prog
           t == p.block[v]
           D == DOMAIN p.incoming[v]
           E == {b \in 1 .. Len(p.succ) : \E i \in 1 .. Len(p.succ[b]) : p.succ[b][i] = t}
<1>1. p.kind[v] = "phi" /\ v \in 1 .. Len(p.kind)
  BY DEF SameSource, Values
<1>2. t # 1 /\ D = E /\ \A b \in D : Provided(p, p.incoming[v][b], b, p.size[v])
  BY <1>1, BodyFacts
<1>3. PICK s \in Values : \A b \in D : p.incoming[v][b] = s
  BY DEF SameSource, Values
<1>4. t \in 1 .. Len(p.succ) /\ Len(p.succ) \in Nat
  BY <1>1, BodyFacts, GraphFacts
<1>5. t \in 2 .. Len(p.succ)
  BY <1>2, <1>4
<1>6. s \in 1 .. Len(p.kind) /\ s # 0
  BY BodyFacts DEF Values
<1>7. \A b \in D : p.block[s] \in p.dom[b] /\ p.size[s] = p.size[v]
  BY <1>2, <1>3, <1>6 DEF Provided
<1>8. p.block[s] \in 1 .. Len(p.succ)
  BY <1>6, BodyFacts
<1>9. p \in Bodies
  OBVIOUS
<1>10. \A b \in 1 .. Len(p.succ) : Passes(p, b, t) => Dominates(p, p.block[s], b)
  BY <1>2, <1>7 DEF Dominates, Passes
<1>11. /\ Dominates(p, p.block[s], t) /\ p.block[s] # t
       /\ \E b \in 1 .. Len(p.succ) : Passes(p, b, t)
  BY <1>5, <1>8, <1>10, <1>9, DominatesEntered
<1>12. PICK b \in D : TRUE
  BY <1>2, <1>11 DEF Passes
<1>13. SourceOf(prog, v) = s
  BY <1>3, <1>12 DEF SourceOf
<1> QED BY <1>3, <1>7, <1>11, <1>12, <1>13
-----------------------------------------------------------------------------
\* What holds of v if it holds of all of smaller rank.
Climbs(D, bound, rank, T) ==
  /\ bound \in Nat /\ rank \in [D -> 0 .. bound]
  /\ \A v \in D : (\A u \in D : rank[u] < rank[v] => u \in T) => v \in T

LEMMA RankedInduction ==
  ASSUME NEW D, NEW bound, NEW rank, NEW T, Climbs(D, bound, rank, T)
  PROVE  \A v \in D : v \in T
<1> USE DEF Climbs
<1> DEFINE M == {r \in 0 .. bound : \E v \in D : rank[v] = r /\ v \notin T}
<1>1. SUFFICES ASSUME M # {} PROVE FALSE
  OBVIOUS
<1>2. M \in SUBSET Nat
  OBVIOUS
<1>3. PICK m \in M : \A k \in M : m <= k
  <2> HIDE DEF M
  <2> QED BY <1>1, <1>2, LeastElement
<1>4. PICK v \in D : rank[v] = m /\ v \notin T
  OBVIOUS
<1>5. PICK u \in D : rank[u] < rank[v] /\ u \notin T
  BY <1>4
<1>6. rank[u] \in M /\ rank[u] \in 0 .. bound /\ m \in 0 .. bound
  BY <1>5
<1>7. m <= rank[u] /\ rank[u] < m
  BY <1>3, <1>4, <1>5, <1>6
<1> QED BY <1>6, <1>7

-----------------------------------------------------------------------------
\* What layout makes a view.
ViewEntry == [from : 0 .. Len(prog.kind), off : Nat]

LegalView(w, v) ==
  /\ prog.kind[v] = "op" => w = NoView
  /\ prog.kind[v] \in {"view", "part"} => w = [from |-> prog.from[v], off |-> prog.off[v]]
  /\ prog.kind[v] = "phi" => w = NoView \/ (SameSource(prog, v) /\ w = [from |-> SourceOf(prog, v), off |-> 0])

ViewsAfter(f) ==
  [v \in 0 .. Len(prog.kind) |->
     IF v = 0 THEN InstructionViews(prog)
     ELSE IF SameSource(prog, v) /\ ~LeadsBack(prog, f[v - 1], SourceOf(prog, v), v)
          THEN [f[v - 1] EXCEPT ![v] = [from |-> SourceOf(prog, v), off |-> 0]] ELSE f[v - 1]]

LEMMA InstructionViewsLegal ==
  ASSUME prog \in Bodies
  PROVE  InstructionViews(prog) \in [Values -> ViewEntry] /\ \A v \in Values : LegalView(InstructionViews(prog)[v], v)
<1>0. Len(prog.kind) \in Nat
  BY BodyFacts
<1>1. NoView \in ViewEntry
  BY <1>0 DEF NoView, ViewEntry
<1>2. ASSUME NEW v \in Values PROVE InstructionViews(prog)[v] \in ViewEntry /\ LegalView(InstructionViews(prog)[v], v)
  <2>1. v \in 1 .. Len(prog.kind)
    BY DEF Values
  <2>2. InstructionViews(prog)[v] = IF prog.kind[v] \in {"view", "part"} THEN [from |-> prog.from[v], off |-> prog.off[v]] ELSE NoView
    BY DEF InstructionViews, Values
  <2>3. CASE prog.kind[v] \in {"view", "part"}
    <3>1. prog.from[v] \in 1 .. Len(prog.kind)
      BY <2>1, <2>3, BodyFacts
    <3>2. prog.off[v] \in Nat
      <4>1. CASE prog.kind[v] = "view"
        BY <2>1, <4>1, BodyFacts
      <4>2. CASE prog.kind[v] = "part"
        <5>1. prog.off[v] \in 0 .. prog.size[prog.from[v]] - 1
          BY <2>1, <4>2, BodyFacts
        <5>2. prog.size[prog.from[v]] \in {1, 2}
          BY <3>1, BodyFacts
        <5> QED BY <5>1, <5>2
      <4> QED BY <2>3, <4>1, <4>2
    <3>3. [from |-> prog.from[v], off |-> prog.off[v]] \in ViewEntry
      BY <3>1, <3>2 DEF ViewEntry
    <3> QED BY <2>2, <2>3, <3>3 DEF LegalView
  <2>4. CASE prog.kind[v] \notin {"view", "part"}
    BY <1>1, <2>2, <2>4 DEF LegalView
  <2> QED BY <2>3, <2>4
<1>3. InstructionViews(prog) = [v \in Values |-> InstructionViews(prog)[v]]
  BY DEF InstructionViews, Values
<1> QED BY <1>2, <1>3

LEMMA ViewsLegal ==
  ASSUME prog \in Bodies
  PROVE  Views(prog) \in [Values -> ViewEntry] /\ \A v \in Values : LegalView(Views(prog)[v], v)
<1> DEFINE N == Len(prog.kind)
           S == [Values -> ViewEntry]
           G == [v \in 1 .. N |-> [w \in S |->
                   IF SameSource(prog, v) /\ ~LeadsBack(prog, w, SourceOf(prog, v), v)
                   THEN [w EXCEPT ![v] = [from |-> SourceOf(prog, v), off |-> 0]] ELSE w]]
           a == CHOOSE f : f = ViewsAfter(f)
<1>0. N \in Nat /\ Values = 1 .. N
  BY BodyFacts DEF Values
<1>1. Views(prog) = a[N]
  BY DEF Views, ViewsAfter
<1>2. InstructionViews(prog) \in S
  BY InstructionViewsLegal
<1>3. ASSUME NEW v \in 1 .. N, NEW w \in S, SameSource(prog, v)
      PROVE  [w EXCEPT ![v] = [from |-> SourceOf(prog, v), off |-> 0]] \in S
  <2>1. SourceOf(prog, v) \in Values /\ v \in Values
    BY <1>0, <1>3, PhiSource
  <2>2. [from |-> SourceOf(prog, v), off |-> 0] \in ViewEntry
    BY <1>0, <2>1 DEF ViewEntry
  <2> QED BY <2>1, <2>2
<1>4. G \in [1 .. N -> [S -> S]]
  <2>1. ASSUME NEW v \in 1 .. N, NEW w \in S PROVE G[v][w] \in S
    <3>1. G[v][w] = IF SameSource(prog, v) /\ ~LeadsBack(prog, w, SourceOf(prog, v), v)
                    THEN [w EXCEPT ![v] = [from |-> SourceOf(prog, v), off |-> 0]] ELSE w
      <4> HIDE DEF S
      <4> QED OBVIOUS
    <3> HIDE DEF S, G
    <3> QED BY <1>3, <3>1
  <2>2. \A v \in 1 .. N : G[v] = [w \in S |-> G[v][w]]
    <3> HIDE DEF S
    <3> QED OBVIOUS
  <2>3. \A v \in 1 .. N : G[v] \in [S -> S]
    <3> HIDE DEF S, G
    <3> QED BY <2>1, <2>2
  <2>4. G = [v \in 1 .. N |-> G[v]]
    OBVIOUS
  <2> HIDE DEF S, G
  <2> QED BY <2>3, <2>4
<1>5. Counted(N, S, InstructionViews(prog), G)
  <2> HIDE DEF S, G, N
  <2> QED BY <1>0, <1>2, <1>4 DEF Counted
<1>6. PICK g \in [0 .. N -> S] : SolvesCounted(g, N, InstructionViews(prog), G)
  <2> HIDE DEF S, G, N
  <2> QED BY <1>5, CountedSolved
<1>7. g = ViewsAfter(g)
  <2>1. ASSUME NEW v \in 0 .. N PROVE g[v] = ViewsAfter(g)[v]
    <3>1. v # 0 => v \in 1 .. N /\ v - 1 \in 0 .. N
      BY <1>0
    <3>2. v # 0 => g[v - 1] \in S
      <4> HIDE DEF S, G
      <4> QED BY <3>1
    <3>3. v # 0 => G[v][g[v - 1]] = IF SameSource(prog, v) /\ ~LeadsBack(prog, g[v - 1], SourceOf(prog, v), v)
                    THEN [g[v - 1] EXCEPT ![v] = [from |-> SourceOf(prog, v), off |-> 0]] ELSE g[v - 1]
      <4> HIDE DEF S
      <4> QED BY <3>1, <3>2
    <3> HIDE DEF S, G
    <3>4. g[v] = IF v = 0 THEN InstructionViews(prog) ELSE G[v][g[v - 1]]
      BY <1>6 DEF SolvesCounted
    <3> QED BY <3>3, <3>4 DEF ViewsAfter
  <2>2. ViewsAfter(g) = [v \in 0 .. N |-> ViewsAfter(g)[v]]
    BY DEF ViewsAfter
  <2>3. g = [v \in 0 .. N |-> g[v]]
    <3> HIDE DEF S, G
    <3> QED OBVIOUS
  <2> HIDE DEF S, G, a, N
  <2> QED BY <2>1, <2>2, <2>3
<1>8. a = ViewsAfter(a)
  <2> HIDE DEF S, G
  <2> QED BY <1>7
<1> DEFINE T == {k \in 0 .. N : a[k] \in S /\ \A v \in Values : LegalView(a[k][v], v)}
<1>9. 0 \in T
  <2>1. a[0] = InstructionViews(prog) /\ 0 \in 0 .. N
    <3> HIDE DEF a
    <3> QED BY <1>0, <1>8 DEF ViewsAfter
  <2> HIDE DEF S, a
  <2> QED BY <1>2, <2>1, InstructionViewsLegal
<1>10. ASSUME NEW k \in 1 .. N, k - 1 \in T PROVE k \in T
  <2>1. k \in 0 .. N /\ k # 0 /\ k \in Values
    BY <1>0
  <2>2. a[k] = IF SameSource(prog, k) /\ ~LeadsBack(prog, a[k - 1], SourceOf(prog, k), k)
               THEN [a[k - 1] EXCEPT ![k] = [from |-> SourceOf(prog, k), off |-> 0]] ELSE a[k - 1]
    <3> HIDE DEF a
    <3> QED BY <1>8, <2>1 DEF ViewsAfter
  <2>3. a[k - 1] \in S /\ \A v \in Values : LegalView(a[k - 1][v], v)
    <3> HIDE DEF S, a
    <3> QED BY <1>10
  <2>4. CASE a[k] = a[k - 1]
    <3> HIDE DEF S, a
    <3> QED BY <2>1, <2>3, <2>4
  <2>5. CASE SameSource(prog, k) /\ a[k] = [a[k - 1] EXCEPT ![k] = [from |-> SourceOf(prog, k), off |-> 0]]
    <3>1. a[k] \in S
      <4> HIDE DEF S, a
      <4> QED BY <1>3, <2>3, <2>5
    <3>2. a[k][k] = [from |-> SourceOf(prog, k), off |-> 0] /\ \A v \in Values \ {k} : a[k][v] = a[k - 1][v]
      <4> HIDE DEF a
      <4> QED BY <2>1, <2>3, <2>5
    <3>3. prog.kind[k] = "phi"
      BY <2>5 DEF SameSource
    <3>4. LegalView(a[k][k], k)
      <4> HIDE DEF a
      <4> QED BY <2>5, <3>2, <3>3 DEF LegalView
    <3> HIDE DEF S, a
    <3> QED BY <2>1, <2>3, <3>1, <3>2, <3>4
  <2> HIDE DEF S, a, T
  <2> QED BY <2>2, <2>4, <2>5
<1>11. N \in T
  <2>1. \A k \in 0 .. N : k \in T
    <3> HIDE DEF T, N
    <3> QED BY <1>0, <1>9, <1>10, CountedInduction
  <2> HIDE DEF T
  <2> QED BY <1>0, <2>1
<1> HIDE DEF S, a
<1> QED BY <1>1, <1>11 DEF S

\* A view leads to a value that is computed earlier and is part of it.
LEMMA ViewSource ==
  ASSUME prog \in Bodies, NEW v \in Values, Views(prog)[v].from # 0
  PROVE  /\ Views(prog)[v].from \in Values /\ Views(prog)[v].off \in Nat
         /\ Earlier(prog, Views(prog)[v].from, v)
         /\ Views(prog)[v].off + prog.size[v] <= prog.size[Views(prog)[v].from]
         /\ prog.kind[v] = "phi" => prog.block[Views(prog)[v].from] # prog.block[v]
<1>1. LegalView(Views(prog)[v], v) /\ v \in 1 .. Len(prog.kind) /\ Values = 1 .. Len(prog.kind)
  BY ViewsLegal DEF Values
<1>2. prog.kind[v] \in {"op", "view", "part", "phi"}
  BY <1>1, BodyFacts
<1>3. prog.kind[v] # "op" /\ Views(prog)[v] # NoView
  BY <1>1 DEF LegalView, NoView
<1>4. CASE prog.kind[v] \in {"view", "part"}
  <2>1. Views(prog)[v] = [from |-> prog.from[v], off |-> prog.off[v]]
    BY <1>1, <1>4 DEF LegalView
  <2>2. prog.from[v] \in Values /\ Earlier(prog, prog.from[v], v)
    BY <1>1, <1>4, BodyFacts
  <2>3. prog.size[prog.from[v]] \in {1, 2} /\ prog.size[v] \in {1, 2}
    BY <1>1, <2>2, BodyFacts
  <2>4. prog.off[v] \in Nat /\ prog.off[v] + prog.size[v] <= prog.size[prog.from[v]]
    <3>1. CASE prog.kind[v] = "view"
      <4>1. prog.off[v] = 0 /\ prog.size[prog.from[v]] = prog.size[v]
        BY <1>1, <3>1, BodyFacts
      <4> QED BY <2>3, <4>1
    <3>2. CASE prog.kind[v] = "part"
      <4>1. prog.off[v] \in 0 .. prog.size[prog.from[v]] - 1 /\ prog.size[v] = 1
        BY <1>1, <3>2, BodyFacts
      <4> QED BY <2>3, <4>1
    <3> QED BY <1>4, <3>1, <3>2
  <2> QED BY <1>4, <2>1, <2>2, <2>4
<1>5. CASE prog.kind[v] = "phi"
  <2>1. SameSource(prog, v) /\ Views(prog)[v] = [from |-> SourceOf(prog, v), off |-> 0]
    BY <1>1, <1>3, <1>5 DEF LegalView
  <2>2. /\ SourceOf(prog, v) \in Values
        /\ Dominates(prog, prog.block[SourceOf(prog, v)], prog.block[v])
        /\ prog.block[SourceOf(prog, v)] # prog.block[v]
        /\ prog.size[SourceOf(prog, v)] = prog.size[v]
    BY <2>1, PhiSource
  <2>3. prog.size[v] \in {1, 2}
    BY <1>1, BodyFacts
  <2> QED BY <2>1, <2>2, <2>3 DEF Earlier, Dominates
<1> QED BY <1>2, <1>3, <1>4, <1>5
-----------------------------------------------------------------------------
\* The slots of the first pass follow one another.
RawAfter(p, f) == [v \in 1 .. Len(p.kind) |-> IF v = 1 THEN PcBytes ELSE f[v - 1] + p.size[v - 1]]

LEMMA RawEquation ==
  ASSUME NEW p \in Bodies
  PROVE  \A v \in 1 .. Len(p.kind) :
           RawSlot(p)[v] = IF v = 1 THEN PcBytes ELSE RawSlot(p)[v - 1] + p.size[v - 1]
<1> DEFINE N == Len(p.kind)
           a == CHOOSE f : f = RawAfter(p, f)
           G == [v \in 1 .. N |-> [s \in Nat |-> IF v = 1 THEN PcBytes ELSE s + p.size[v - 1]]]
<1>0. N \in Nat /\ PcBytes \in Nat
  BY BodyFacts, BodiesAssumption
<1>1. RawSlot(p) = a
  BY DEF RawSlot, RawAfter
<1>2. G \in [1 .. N -> [Nat -> Nat]]
  <2>1. ASSUME NEW v \in 1 .. N, NEW s \in Nat PROVE (IF v = 1 THEN PcBytes ELSE s + p.size[v - 1]) \in Nat
    <3>1. v # 1 => v - 1 \in 1 .. N
      BY <1>0
    <3>2. v # 1 => p.size[v - 1] \in {1, 2}
      BY <3>1, BodyFacts
    <3> QED BY <1>0, <3>2
  <2> HIDE DEF N
  <2> QED BY <2>1
<1>3. Counted(N, Nat, PcBytes, G)
  <2> HIDE DEF N, G
  <2> QED BY <1>0, <1>2 DEF Counted
<1>4. PICK g \in [0 .. N -> Nat] : SolvesCounted(g, N, PcBytes, G)
  <2> HIDE DEF N, G
  <2> QED BY <1>3, CountedSolved
<1> DEFINE h == [v \in 1 .. N |-> g[v]]
<1>5. h = RawAfter(p, h)
  <2>1. ASSUME NEW v \in 1 .. N PROVE h[v] = RawAfter(p, h)[v]
    <3>1. v \in 0 .. N /\ v # 0 /\ v - 1 \in 0 .. N /\ (v # 1 => v - 1 \in 1 .. N)
      BY <1>0
    <3>2. g[v] = G[v][g[v - 1]]
      <4> HIDE DEF G, N
      <4> QED BY <1>4, <3>1 DEF SolvesCounted
    <3>3. g[v - 1] \in Nat
      BY <3>1
    <3>4. g[v] = IF v = 1 THEN PcBytes ELSE g[v - 1] + p.size[v - 1]
      BY <3>2, <3>3
    <3> QED BY <3>1, <3>4 DEF RawAfter
  <2>2. RawAfter(p, h) = [v \in 1 .. N |-> RawAfter(p, h)[v]]
    BY DEF RawAfter
  <2>3. h = [v \in 1 .. N |-> h[v]]
    OBVIOUS
  <2> HIDE DEF N, G, h, a
  <2> QED BY <2>1, <2>2, <2>3
<1>6. a = RawAfter(p, a)
  <2> HIDE DEF h
  <2> QED BY <1>5
<1> HIDE DEF a
<1> QED BY <1>1, <1>6 DEF RawAfter

LEMMA RawOrdered ==
  ASSUME NEW p \in Bodies
  PROVE  /\ \A v \in 1 .. Len(p.kind) : RawSlot(p)[v] \in Nat /\ 1 <= RawSlot(p)[v] /\ RawSlot(p)[v] + p.size[v] <= Outgoing
         /\ \A v, w \in 1 .. Len(p.kind) : v < w => RawSlot(p)[v] + p.size[v] <= RawSlot(p)[w]
<1> DEFINE N == Len(p.kind)
           raw == RawSlot(p)
           T == {k \in 0 .. N : \A w \in 1 .. N : w <= k =>
                   /\ raw[w] \in Nat /\ 1 <= raw[w]
                   /\ \A v \in 1 .. N : v < w => raw[v] + p.size[v] <= raw[w]}
<1>0. N \in Nat /\ PcBytes = 1 /\ \A v \in 1 .. N : p.size[v] \in {1, 2}
  BY BodyFacts, BodiesAssumption
<1>1. 0 \in T
  BY <1>0
<1>2. ASSUME NEW k \in 1 .. N, k - 1 \in T PROVE k \in T
  <2>1. \A w \in 1 .. N : w <= k - 1 =>
                   /\ raw[w] \in Nat /\ 1 <= raw[w]
                   /\ \A v \in 1 .. N : v < w => raw[v] + p.size[v] <= raw[w]
    BY <1>2
  <2>2. raw[k] = IF k = 1 THEN PcBytes ELSE raw[k - 1] + p.size[k - 1]
    BY RawEquation
  <2>3. /\ raw[k] \in Nat /\ 1 <= raw[k]
        /\ \A v \in 1 .. N : v < k => raw[v] + p.size[v] <= raw[k]
    <3>1. CASE k = 1
      <4>1. raw[k] = 1
        BY <1>0, <2>2, <3>1
      <4>2. \A v \in 1 .. N : ~(v < k)
        BY <1>0, <3>1
      <4> HIDE DEF raw
      <4> QED BY <4>1, <4>2
    <3>2. CASE k # 1
      <4>1. k - 1 \in 1 .. N /\ k - 1 <= k - 1
        BY <1>0, <3>2
      <4>2. raw[k - 1] \in Nat /\ 1 <= raw[k - 1] /\ p.size[k - 1] \in {1, 2}
        BY <1>0, <2>1, <4>1
      <4>3. raw[k] = raw[k - 1] + p.size[k - 1]
        BY <2>2, <3>2
      <4>4. raw[k] \in Nat /\ 1 <= raw[k] /\ raw[k - 1] <= raw[k]
        <5> HIDE DEF raw
        <5> QED BY <4>2, <4>3
      <4>5. ASSUME NEW v \in 1 .. N, v < k PROVE raw[v] + p.size[v] <= raw[k]
        <5>1. CASE v = k - 1
          BY <4>3, <4>4, <5>1
        <5>2. CASE v # k - 1
          <6>1. v < k - 1 /\ v <= k - 1
            BY <1>0, <4>5, <5>2
          <6>2. raw[v] + p.size[v] <= raw[k - 1]
            BY <2>1, <4>1, <6>1
          <6>3. raw[v] \in Nat /\ p.size[v] \in {1, 2}
            BY <1>0, <2>1, <6>1
          <6> HIDE DEF raw
          <6> QED BY <4>2, <4>4, <6>2, <6>3
        <5> QED BY <5>1, <5>2
      <4> HIDE DEF raw
      <4> QED BY <4>4, <4>5
    <3> QED BY <3>1, <3>2
  <2>4. ASSUME NEW w \in 1 .. N, w <= k
        PROVE  /\ raw[w] \in Nat /\ 1 <= raw[w]
               /\ \A v \in 1 .. N : v < w => raw[v] + p.size[v] <= raw[w]
    <3>1. w = k \/ w <= k - 1
      BY <1>0, <2>4
    <3> HIDE DEF raw, N
    <3> QED BY <2>1, <2>3, <3>1
  <2>5. k \in 0 .. N
    BY <1>0
  <2> HIDE DEF raw, N
  <2> QED BY <2>4, <2>5
<1>3. \A k \in 0 .. N : k \in T
  <2> HIDE DEF T, N
  <2> QED BY <1>0, <1>1, <1>2, CountedInduction
<1>4. N \in T
  <2> HIDE DEF T
  <2> QED BY <1>0, <1>3
<1>5. \A w \in 1 .. N : w <= N
  BY <1>0
<1>6. \A w \in 1 .. N : /\ raw[w] \in Nat /\ 1 <= raw[w]
                        /\ \A v \in 1 .. N : v < w => raw[v] + p.size[v] <= raw[w]
  <2> HIDE DEF raw, N
  <2> QED BY <1>4, <1>5
<1>7. \A v \in 1 .. N : raw[v] + p.size[v] <= Outgoing
  BY BodiesAssumption
<1> HIDE DEF raw
<1> QED BY <1>6, <1>7 DEF raw

-----------------------------------------------------------------------------
\* resolve_view ends, at the slot the views lead to.
SlotAfter(f) ==
  [v \in Values |-> IF Views(prog)[v].from = 0 THEN RawSlot(prog)[v] ELSE f[Views(prog)[v].from] + Views(prog)[v].off]

LEMMA SlotEquation ==
  ASSUME prog \in Bodies
  PROVE  Slot(prog) = SlotAfter(Slot(prog))
<1> DEFINE N == Len(prog.kind)
           a == CHOOSE f : f = SlotAfter(f)
           rank == [v \in Values |-> Rank(prog, v)]
           Ends == {v \in Values : Views(prog)[v].from = 0}
           base == [v \in Values |-> RawSlot(prog)[v]]
           next == [v \in Values |-> IF Views(prog)[v].from = 0 THEN v ELSE Views(prog)[v].from]
           G == [v \in Values |-> [s \in Nat |-> s + Views(prog)[v].off]]
<1>0. N \in Nat /\ Values = 1 .. N
  BY BodyFacts DEF Values
<1>1. Slot(prog) = a
  BY DEF Slot, SlotAfter, Values
<1>2. HighRank(prog) \in Nat /\ rank \in [Values -> 0 .. HighRank(prog)]
  <2>1. \A v \in Values : Rank(prog, v) \in 0 .. HighRank(prog)
    BY <1>0, RankBounded
  <2>2. HighRank(prog) \in Nat
    BY HighRankNat
  <2> QED BY <2>1, <2>2
<1>3. Ends \in SUBSET Values /\ base \in [Values -> Nat]
  BY <1>0, RawOrdered
<1>4. next \in [Values -> Values]
  BY ViewSource
<1>5. G \in [Values -> [Nat -> Nat]]
  <2>1. \A v \in Values : Views(prog)[v].off \in Nat
    BY ViewsLegal DEF ViewEntry
  <2> QED BY <2>1
<1>6. \A v \in Values \ Ends : rank[next[v]] < rank[v]
  <2> TAKE v \in Values \ Ends
  <2>1. v \in Values /\ Views(prog)[v].from # 0
    OBVIOUS
  <2>2. Views(prog)[v].from \in Values /\ Earlier(prog, Views(prog)[v].from, v)
    BY <2>1, ViewSource
  <2>3. Rank(prog, Views(prog)[v].from) < Rank(prog, v)
    BY <1>0, <2>1, <2>2, RankFalls
  <2> QED BY <2>1, <2>2, <2>3
<1>7. Ranked(Values, Nat, HighRank(prog), rank, Ends, base, next, G)
  <2> HIDE DEF rank, Ends, base, next, G
  <2> QED BY <1>2, <1>3, <1>4, <1>5, <1>6 DEF Ranked
<1>8. PICK g \in [Values -> Nat] : SolvesRanked(g, Values, Ends, base, next, G)
  <2> HIDE DEF rank, Ends, base, next, G
  <2> QED BY <1>7, RankedSolved
<1>9. g = SlotAfter(g)
  <2>1. ASSUME NEW v \in Values PROVE g[v] = SlotAfter(g)[v]
    <3>1. g[v] = IF v \in Ends THEN base[v] ELSE G[v][g[next[v]]]
      <4> HIDE DEF rank, Ends, base, next, G
      <4> QED BY <1>8 DEF SolvesRanked
    <3>2. CASE Views(prog)[v].from = 0
      BY <3>1, <3>2 DEF SlotAfter
    <3>3. CASE Views(prog)[v].from # 0
      <4>1. g[Views(prog)[v].from] \in Nat /\ next[v] = Views(prog)[v].from
        BY <3>3, ViewSource
      <4>2. G[v][g[Views(prog)[v].from]] = g[Views(prog)[v].from] + Views(prog)[v].off
        BY <4>1
      <4> QED BY <3>1, <3>3, <4>1, <4>2 DEF SlotAfter
    <3> QED BY <3>2, <3>3
  <2>2. SlotAfter(g) = [v \in Values |-> SlotAfter(g)[v]]
    BY DEF SlotAfter
  <2>3. g = [v \in Values |-> g[v]]
    OBVIOUS
  <2> QED BY <2>1, <2>2, <2>3
<1>10. a = SlotAfter(a)
  BY <1>9
<1> QED BY <1>1, <1>10

\* r is the value in whose slot v lies.
Root(r, v) ==
  /\ r \in Values /\ Views(prog)[r].from = 0
  /\ RawSlot(prog)[r] <= Slot(prog)[v] /\ Slot(prog)[v] + prog.size[v] <= RawSlot(prog)[r] + prog.size[r]
  /\ Dominates(prog, prog.block[r], prog.block[v])
  /\ r = v \/ (prog.kind[v] = "phi" => prog.block[r] # prog.block[v])

LEMMA Rooted ==
  ASSUME prog \in Bodies
  PROVE  /\ Slot(prog) \in [Values -> Nat] /\ \A v \in Values : \E r \in Values : Root(r, v)
         /\ \A v \in Values : Views(prog)[v].from = 0 => Slot(prog)[v] = RawSlot(prog)[v]
         /\ \A v \in Values : Views(prog)[v].from # 0 => Slot(prog)[v] = Slot(prog)[Views(prog)[v].from] + Views(prog)[v].off
<1> DEFINE rank == [v \in Values |-> Rank(prog, v)]
           T == {v \in Values : Slot(prog)[v] \in Nat /\ \E r \in Values : Root(r, v)}
<1>0. Len(prog.kind) \in Nat /\ Values = 1 .. Len(prog.kind)
  BY BodyFacts DEF Values
<1>1. \A v \in Values : prog.block[v] \in 1 .. Len(prog.succ) /\ prog.size[v] \in {1, 2}
  BY <1>0, BodyFacts
<1>2. \A v \in Values : Slot(prog)[v] = IF Views(prog)[v].from = 0 THEN RawSlot(prog)[v] ELSE Slot(prog)[Views(prog)[v].from] + Views(prog)[v].off
  <2>1. \A v \in Values : SlotAfter(Slot(prog))[v] = IF Views(prog)[v].from = 0 THEN RawSlot(prog)[v] ELSE Slot(prog)[Views(prog)[v].from] + Views(prog)[v].off
    BY DEF SlotAfter
  <2> QED BY <2>1, SlotEquation
<1>3. ASSUME NEW v \in Values, \A u \in Values : rank[u] < rank[v] => u \in T PROVE v \in T
  <2>1. CASE Views(prog)[v].from = 0
    <3>1. Slot(prog)[v] = RawSlot(prog)[v] /\ RawSlot(prog)[v] \in Nat
      BY <1>0, <1>2, <2>1, RawOrdered
    <3>2. Dominates(prog, prog.block[v], prog.block[v])
      BY <1>1, DominatesItself
    <3>3. Root(v, v)
      <4>1. prog.size[v] \in Nat
        BY <1>1
      <4> QED BY <2>1, <3>1, <3>2, <4>1 DEF Root
    <3> QED BY <3>1, <3>3
  <2>2. CASE Views(prog)[v].from # 0
    <3> DEFINE u == Views(prog)[v].from
               off == Views(prog)[v].off
    <3>1. u \in Values /\ off \in Nat /\ Earlier(prog, u, v) /\ off + prog.size[v] <= prog.size[u]
      BY <2>2, ViewSource
    <3>2. prog.kind[v] = "phi" => prog.block[u] # prog.block[v]
      BY <2>2, ViewSource
    <3>3. Rank(prog, u) < Rank(prog, v)
      BY <1>0, <3>1, RankFalls
    <3>4. u \in T
      BY <1>3, <3>1, <3>3
    <3>5. PICK r \in Values : Root(r, u)
      BY <3>4
    <3>6. Slot(prog)[u] \in Nat
      BY <3>4
    <3>7. Slot(prog)[v] = Slot(prog)[u] + off
      BY <1>2, <2>2
    <3>8. /\ RawSlot(prog)[r] <= Slot(prog)[u] /\ Slot(prog)[u] + prog.size[u] <= RawSlot(prog)[r] + prog.size[r]
          /\ Dominates(prog, prog.block[r], prog.block[u])
      BY <3>5 DEF Root
    <3>9. RawSlot(prog)[r] \in Nat /\ prog.size[r] \in {1, 2} /\ prog.size[u] \in {1, 2} /\ prog.size[v] \in {1, 2}
      BY <1>0, <1>1, <3>1, RawOrdered
    <3>10. Slot(prog)[v] \in Nat /\ RawSlot(prog)[r] <= Slot(prog)[v] /\ Slot(prog)[v] + prog.size[v] <= RawSlot(prog)[r] + prog.size[r]
      <4> HIDE DEF u, off
      <4> QED BY <3>1, <3>6, <3>7, <3>8, <3>9
    <3>11. Dominates(prog, prog.block[u], prog.block[v])
      BY <3>1 DEF Earlier, Dominates
    <3>12. prog.block[r] \in 1 .. Len(prog.succ) /\ prog.block[u] \in 1 .. Len(prog.succ) /\ prog.block[v] \in 1 .. Len(prog.succ)
      BY <1>1, <3>1
    <3>13. Dominates(prog, prog.block[r], prog.block[v])
      BY <3>8, <3>11, <3>12, DominatesTransitive
    <3>14. prog.kind[v] = "phi" => prog.block[r] # prog.block[v]
      <4>1. SUFFICES ASSUME prog.kind[v] = "phi", prog.block[r] = prog.block[v] PROVE FALSE
        OBVIOUS
      <4>2. Dominates(prog, prog.block[v], prog.block[u])
        BY <3>8, <4>1
      <4>3. prog.block[u] = prog.block[v]
        BY <3>11, <3>12, <4>2, DominatesOneWay
      <4> QED BY <3>2, <4>1, <4>3
    <3>15. Root(r, v)
      BY <3>5, <3>10, <3>13, <3>14 DEF Root
    <3> QED BY <3>10, <3>15
  <2> QED BY <2>1, <2>2
<1>4. HighRank(prog) \in Nat /\ rank \in [Values -> 0 .. HighRank(prog)]
  <2>1. \A v \in Values : Rank(prog, v) \in 0 .. HighRank(prog)
    BY <1>0, RankBounded
  <2>2. HighRank(prog) \in Nat
    BY HighRankNat
  <2> QED BY <2>1, <2>2
<1>5. \A v \in Values : v \in T
  <2>1. Climbs(Values, HighRank(prog), rank, T)
    <3> HIDE DEF rank, T
    <3> QED BY <1>3, <1>4 DEF Climbs
  <2> HIDE DEF rank, T
  <2> QED BY <2>1, RankedInduction
<1>6. Slot(prog) = [v \in Values |-> Slot(prog)[v]]
  <2>1. SlotAfter(Slot(prog)) = [v \in Values |-> SlotAfter(Slot(prog))[v]]
    BY DEF SlotAfter
  <2> QED BY <2>1, SlotEquation
<1> QED BY <1>2, <1>5, <1>6

\* Slots lie behind the pc and below the outgoing area.
LEMMA SlotPlaced ==
  ASSUME prog \in Bodies, NEW v \in Values
  PROVE  /\ Slot(prog)[v] \in Nat /\ 1 <= Slot(prog)[v] /\ Slot(prog)[v] + prog.size[v] <= Outgoing
         /\ prog.size[v] \in {1, 2}
<1>0. Len(prog.kind) \in Nat /\ Values = 1 .. Len(prog.kind)
  BY BodyFacts DEF Values
<1>1. PICK r \in Values : Root(r, v)
  BY Rooted
<1>2. RawSlot(prog)[r] \in Nat /\ 1 <= RawSlot(prog)[r] /\ RawSlot(prog)[r] + prog.size[r] <= Outgoing
  BY <1>0, RawOrdered
<1>3. Slot(prog)[v] \in Nat /\ prog.size[v] \in {1, 2} /\ prog.size[r] \in {1, 2} /\ Outgoing \in Nat
  BY <1>0, Rooted, BodyFacts, LayoutAssumption
<1>4. RawSlot(prog)[r] <= Slot(prog)[v] /\ Slot(prog)[v] + prog.size[v] <= RawSlot(prog)[r] + prog.size[r]
  BY <1>1 DEF Root
<1> QED BY <1>2, <1>3, <1>4

\* What is written when w is computed holds no other value that is available then.
LEMMA SlotsApart ==
  ASSUME prog \in Bodies, NEW v \in Values, NEW w \in Values, v # w, Views(prog)[w].from = 0,
         Dominates(prog, prog.block[v], prog.block[w]),
         prog.block[v] = prog.block[w] => prog.kind[v] = "phi"
  PROVE  Slot(prog)[v] + prog.size[v] <= Slot(prog)[w] \/ Slot(prog)[w] + prog.size[w] <= Slot(prog)[v]
<1>0. Len(prog.kind) \in Nat /\ Values = 1 .. Len(prog.kind)
  BY BodyFacts DEF Values
<1>1. PICK r \in Values : Root(r, v)
  BY Rooted
<1>2. \A u \in Values : prog.block[u] \in 1 .. Len(prog.succ) /\ prog.size[u] \in {1, 2}
  BY <1>0, BodyFacts
<1>3. r # w
  <2>1. SUFFICES ASSUME r = w PROVE FALSE
    OBVIOUS
  <2>2. Dominates(prog, prog.block[w], prog.block[v])
    BY <1>1, <2>1 DEF Root
  <2>3. prog.block[v] = prog.block[w]
    BY <1>2, <2>2, DominatesOneWay
  <2>4. prog.kind[v] = "phi"
    BY <2>3
  <2> QED BY <1>1, <2>1, <2>3, <2>4 DEF Root
<1>4. r < w \/ w < r
  BY <1>0, <1>3
<1>5. RawSlot(prog)[r] + prog.size[r] <= RawSlot(prog)[w] \/ RawSlot(prog)[w] + prog.size[w] <= RawSlot(prog)[r]
  BY <1>0, <1>4, RawOrdered
<1>6. Slot(prog)[w] = RawSlot(prog)[w] /\ Slot(prog)[v] \in Nat /\ RawSlot(prog)[w] \in Nat /\ RawSlot(prog)[r] \in Nat
  BY <1>0, Rooted, RawOrdered
<1>7. RawSlot(prog)[r] <= Slot(prog)[v] /\ Slot(prog)[v] + prog.size[v] <= RawSlot(prog)[r] + prog.size[r]
  BY <1>1 DEF Root
<1>8. prog.size[v] \in {1, 2} /\ prog.size[w] \in {1, 2} /\ prog.size[r] \in {1, 2}
  BY <1>2
<1> QED BY <1>5, <1>6, <1>7, <1>8
-----------------------------------------------------------------------------
\* The dispatch tree finds the block of every pc.
TreeAfter(pc, f) ==
  [r \in Ranges |-> IF r[1] = r[2] THEN r[1]
                    ELSE IF pc <= (r[1] + r[2]) \div 2 THEN f[<<r[1], (r[1] + r[2]) \div 2>>]
                    ELSE f[<<(r[1] + r[2]) \div 2 + 1, r[2]>>]]

LEMMA Halves ==
  ASSUME NEW lo \in Nat, NEW hi \in Nat, lo < hi
  PROVE  (lo + hi) \div 2 \in Nat /\ lo <= (lo + hi) \div 2 /\ (lo + hi) \div 2 < hi
OBVIOUS

LEMMA TreeFinds ==
  ASSUME prog \in Bodies, NEW pc \in 1 .. Len(prog.succ)
  PROVE  BlockTree(pc) = pc
<1> DEFINE L == Len(prog.succ)
           mid(r) == (r[1] + r[2]) \div 2
           a == CHOOSE f : f = TreeAfter(pc, f)
           rank == [r \in Ranges |-> r[2] - r[1]]
           Ends == {r \in Ranges : r[1] = r[2]}
           base == [r \in Ranges |-> r[1]]
           next == [r \in Ranges |-> IF r[1] = r[2] THEN r ELSE IF pc <= mid(r) THEN <<r[1], mid(r)>> ELSE <<mid(r) + 1, r[2]>>]
           G == [r \in Ranges |-> [s \in 1 .. L |-> s]]
<1>0. L \in Nat \ {0}
  BY GraphFacts
<1>1. BlockTree(pc) = a[<<1, L>>]
  BY DEF BlockTree, TreeAfter
<1>2. \A r \in Ranges : r[1] \in 1 .. L /\ r[2] \in 1 .. L /\ r[1] <= r[2] /\ r = <<r[1], r[2]>>
  BY DEF Ranges
<1>3. \A x, y \in 1 .. L : x <= y => <<x, y>> \in Ranges
  BY DEF Ranges
<1>4. ASSUME NEW r \in Ranges, r[1] # r[2]
      PROVE  /\ mid(r) \in Nat /\ r[1] <= mid(r) /\ mid(r) < r[2]
             /\ <<r[1], mid(r)>> \in Ranges /\ <<mid(r) + 1, r[2]>> \in Ranges
  <2>1. r[1] \in Nat /\ r[2] \in Nat /\ r[1] < r[2] /\ r[1] \in 1 .. L /\ r[2] \in 1 .. L
    BY <1>0, <1>2, <1>4
  <2>2. mid(r) \in Nat /\ r[1] <= mid(r) /\ mid(r) < r[2]
    BY <2>1, Halves
  <2>3. mid(r) \in 1 .. L /\ mid(r) + 1 \in 1 .. L /\ mid(r) + 1 <= r[2]
    <3> HIDE DEF mid
    <3> QED BY <1>0, <2>1, <2>2
  <2> HIDE DEF mid
  <2> QED BY <1>3, <2>1, <2>2, <2>3
<1>5. rank \in [Ranges -> 0 .. L]
  <2>1. \A r \in Ranges : r[2] - r[1] \in 0 .. L
    <3> TAKE r \in Ranges
    <3>1. r[1] \in 1 .. L /\ r[2] \in 1 .. L /\ r[1] <= r[2]
      BY <1>2
    <3> QED BY <1>0, <3>1
  <2> HIDE DEF L
  <2> QED BY <2>1
<1>6. Ends \in SUBSET Ranges /\ base \in [Ranges -> 1 .. L] /\ G \in [Ranges -> [1 .. L -> 1 .. L]]
  BY <1>2
<1>7. next \in [Ranges -> Ranges]
  <2> HIDE DEF mid, L
  <2> QED BY <1>4
<1>8. \A r \in Ranges \ Ends : rank[next[r]] < rank[r]
  <2> TAKE r \in Ranges \ Ends
  <2>1. r \in Ranges /\ r[1] # r[2]
    OBVIOUS
  <2>2. mid(r) \in Nat /\ r[1] <= mid(r) /\ mid(r) < r[2] /\ r[1] \in Int /\ r[2] \in Int
    BY <1>2, <1>4, <2>1
  <2>3. next[r] \in Ranges /\ (next[r] = <<r[1], mid(r)>> \/ next[r] = <<mid(r) + 1, r[2]>>)
    <3> HIDE DEF mid
    <3> QED BY <1>4, <2>1
  <2>4. rank[next[r]] = next[r][2] - next[r][1] /\ rank[r] = r[2] - r[1]
    <3> HIDE DEF next, mid
    <3> QED BY <2>1, <2>3
  <2>5. next[r][2] - next[r][1] < r[2] - r[1]
    <3> HIDE DEF next, mid
    <3> QED BY <2>2, <2>3
  <2> HIDE DEF next, rank
  <2> QED BY <2>4, <2>5
<1>9. Ranked(Ranges, 1 .. L, L, rank, Ends, base, next, G)
  <2> HIDE DEF rank, Ends, base, next, G
  <2> QED BY <1>0, <1>5, <1>6, <1>7, <1>8 DEF Ranked
<1>10. PICK g \in [Ranges -> 1 .. L] : SolvesRanked(g, Ranges, Ends, base, next, G)
  <2> HIDE DEF L, rank, Ends, base, next, G
  <2> QED BY <1>9, RankedSolved
<1>11. g = TreeAfter(pc, g)
  <2>1. ASSUME NEW r \in Ranges PROVE g[r] = TreeAfter(pc, g)[r]
    <3>1. g[r] = IF r \in Ends THEN base[r] ELSE G[r][g[next[r]]]
      <4> HIDE DEF L, rank, Ends, base, next, G
      <4> QED BY <1>10 DEF SolvesRanked
    <3>2. next[r] \in Ranges
      <4> HIDE DEF next
      <4> QED BY <1>7
    <3>3. g[next[r]] \in 1 .. L
      <4> HIDE DEF next, L
      <4> QED BY <3>2
    <3>4. G[r][g[next[r]]] = g[next[r]]
      <4> HIDE DEF next, L
      <4> QED BY <3>3
    <3>5. g[r] = IF r[1] = r[2] THEN r[1] ELSE g[next[r]]
      <4> HIDE DEF next, G
      <4> QED BY <3>1, <3>4
    <3> HIDE DEF G, L
    <3> QED BY <3>5 DEF TreeAfter
  <2>2. TreeAfter(pc, g) = [r \in Ranges |-> TreeAfter(pc, g)[r]]
    BY DEF TreeAfter
  <2>3. g = [r \in Ranges |-> g[r]]
    <3> HIDE DEF L
    <3> QED OBVIOUS
  <2> HIDE DEF L, rank, Ends, base, next, G
  <2> QED BY <2>1, <2>2, <2>3
<1>12. a = TreeAfter(pc, a)
  BY <1>11
<1> DEFINE T == {r \in Ranges : r[1] <= pc /\ pc <= r[2] => a[r] = pc}
<1>13. ASSUME NEW r \in Ranges, \A q \in Ranges : rank[q] < rank[r] => q \in T PROVE r \in T
  <2>1. SUFFICES ASSUME r[1] <= pc, pc <= r[2] PROVE a[r] = pc
    OBVIOUS
  <2>2. a[r] = IF r[1] = r[2] THEN r[1]
               ELSE IF pc <= mid(r) THEN a[<<r[1], mid(r)>>] ELSE a[<<mid(r) + 1, r[2]>>]
    <3> HIDE DEF a
    <3> QED BY <1>12 DEF TreeAfter
  <2>3. CASE r[1] = r[2]
    <3>1. r[1] = pc
      BY <1>0, <1>2, <2>1, <2>3
    <3> HIDE DEF a
    <3> QED BY <2>2, <2>3, <3>1
  <2>4. CASE r[1] # r[2]
    <3>1. /\ mid(r) \in Nat /\ r[1] <= mid(r) /\ mid(r) < r[2]
          /\ <<r[1], mid(r)>> \in Ranges /\ <<mid(r) + 1, r[2]>> \in Ranges
      BY <1>4, <2>4
    <3>2. r \in Ranges \ Ends
      BY <2>4
    <3>3. rank[next[r]] < rank[r]
      BY <1>8, <3>2
    <3>4. next[r] \in Ranges
      <4> HIDE DEF next
      <4> QED BY <1>7
    <3>5. next[r] \in T
      <4> HIDE DEF next, rank, T
      <4> QED BY <1>13, <3>3, <3>4
    <3>6. next[r] = IF pc <= mid(r) THEN <<r[1], mid(r)>> ELSE <<mid(r) + 1, r[2]>>
      <4> HIDE DEF mid
      <4> QED BY <2>4
    <3>7. next[r][1] <= pc /\ pc <= next[r][2]
      <4>1. pc \in Nat
        BY <1>0
      <4> HIDE DEF next, mid
      <4> QED BY <2>1, <3>1, <3>6, <4>1
    <3>8. a[next[r]] = pc
      <4> HIDE DEF a, next
      <4> QED BY <3>5, <3>7
    <3> HIDE DEF a, next, mid
    <3> QED BY <2>2, <2>4, <3>6, <3>8
  <2> QED BY <2>3, <2>4
<1>14. \A r \in Ranges : r \in T
  <2>1. L \in Nat
    BY <1>0
  <2>2. Climbs(Ranges, L, rank, T)
    <3> HIDE DEF rank, T, L
    <3> QED BY <1>5, <1>13, <2>1 DEF Climbs
  <2> HIDE DEF rank, T, L
  <2> QED BY <2>2, RankedInduction
<1>15. <<1, L>> \in Ranges /\ 1 <= pc /\ pc <= L
  BY <1>0, <1>3
<1>16. a[<<1, L>>] = pc
  <2>1. <<1, L>> \in T
    <3> HIDE DEF T
    <3> QED BY <1>14, <1>15
  <2> HIDE DEF a
  <2> QED BY <1>15, <2>1
<1> QED BY <1>1, <1>16
-----------------------------------------------------------------------------
\* The list edge builds: each phi of the target whose source is another slot, once.
IsMoved(t, v) == prog.block[v] = t /\ prog.kind[v] = "phi" /\ MoveOf(v).src # MoveOf(v).dst
MoveSet == {MoveOf(v) : v \in Values}

MovesAfter(t, f) ==
  [v \in 0 .. Len(prog.kind) |->
     IF v = 0 THEN <<>>
     ELSE IF prog.block[v] = t /\ prog.kind[v] = "phi" /\ MoveOf(v).src # MoveOf(v).dst
          THEN Append(f[v - 1], MoveOf(v)) ELSE f[v - 1]]

\* idx names the phi of each move of a list, that stops at value k.
Lists(list, t, k, idx) ==
  /\ list \in Seq(MoveSet) /\ idx \in [1 .. Len(list) -> Values]
  /\ \A i \in 1 .. Len(list) : IsMoved(t, idx[i]) /\ idx[i] <= k /\ list[i] = MoveOf(idx[i])
  /\ \A i, j \in 1 .. Len(list) : i # j => idx[i] # idx[j]
  /\ \A v \in Values : v <= k /\ IsMoved(t, v) => \E i \in 1 .. Len(list) : idx[i] = v

LEMMA ListGrows ==
  ASSUME prog \in Bodies, NEW t, NEW k \in 1 .. Len(prog.kind), NEW list, NEW idx,
         Lists(list, t, k - 1, idx), IsMoved(t, k)
  PROVE  \E next \in [1 .. Len(list) + 1 -> Values] : Lists(Append(list, MoveOf(k)), t, k, next)
<1> DEFINE n == Len(list)
           longer == Append(list, MoveOf(k))
           next == [i \in 1 .. n + 1 |-> IF i = n + 1 THEN k ELSE idx[i]]
<1>0. Len(prog.kind) \in Nat /\ Values = 1 .. Len(prog.kind) /\ k \in Values
  BY BodyFacts DEF Values
<1>1. list \in Seq(MoveSet) /\ idx \in [1 .. n -> Values] /\ n \in Nat /\ MoveOf(k) \in MoveSet
  BY <1>0 DEF Lists, MoveSet
<1>2. longer \in Seq(MoveSet) /\ Len(longer) = n + 1 /\ longer[n + 1] = MoveOf(k) /\ \A i \in 1 .. n : longer[i] = list[i]
  BY <1>1
<1>3. next \in [1 .. n + 1 -> Values] /\ next[n + 1] = k /\ \A i \in 1 .. n : next[i] = idx[i]
  BY <1>0, <1>1
<1>4. \A i \in 1 .. n + 1 : i = n + 1 \/ i \in 1 .. n
  BY <1>1
<1>5. \A i \in 1 .. n : IsMoved(t, idx[i]) /\ idx[i] <= k - 1 /\ list[i] = MoveOf(idx[i]) /\ idx[i] \in Values
  BY <1>1 DEF Lists
<1>6. \A i \in 1 .. n : idx[i] <= k /\ idx[i] # k
  <2> TAKE i \in 1 .. n
  <2>1. idx[i] \in Nat /\ idx[i] <= k - 1 /\ k \in Nat
    BY <1>0, <1>5
  <2> QED BY <2>1
<1>7. \A i \in 1 .. n + 1 : IsMoved(t, next[i]) /\ next[i] <= k /\ longer[i] = MoveOf(next[i])
  <2>1. k <= k
    BY <1>0
  <2> HIDE DEF next, longer, n
  <2> QED BY <1>2, <1>3, <1>4, <1>5, <1>6, <2>1
<1>8. \A i, j \in 1 .. n + 1 : i # j => next[i] # next[j]
  <2>1. \A i, j \in 1 .. n : i # j => idx[i] # idx[j]
    BY DEF Lists
  <2> HIDE DEF next, longer, n
  <2> QED BY <1>3, <1>4, <1>6, <2>1
<1>9. \A v \in Values : v <= k /\ IsMoved(t, v) => \E i \in 1 .. n + 1 : next[i] = v
  <2> TAKE v \in Values
  <2> HAVE v <= k /\ IsMoved(t, v)
  <2>1. v = k \/ v <= k - 1
    BY <1>0
  <2>2. CASE v = k
    <3>1. n + 1 \in 1 .. n + 1
      BY <1>1
    <3> HIDE DEF next
    <3> QED BY <1>3, <2>2, <3>1
  <2>3. CASE v <= k - 1
    <3>1. PICK i \in 1 .. n : idx[i] = v
      BY <2>3 DEF Lists
    <3>2. i \in 1 .. n + 1
      BY <1>1
    <3> HIDE DEF next
    <3> QED BY <1>3, <3>1, <3>2
  <2> QED BY <2>1, <2>2, <2>3
<1> HIDE DEF next, longer
<1>10. Lists(longer, t, k, next)
  BY <1>2, <1>3, <1>7, <1>8, <1>9 DEF Lists
<1> QED BY <1>3, <1>10 DEF longer

LEMMA MovesListed ==
  ASSUME prog \in Bodies, NEW t
  PROVE  \E idx \in [1 .. Len(Moves(t)) -> Values] : Lists(Moves(t), t, Len(prog.kind), idx)
<1> DEFINE N == Len(prog.kind)
           S == Seq(MoveSet)
           a == CHOOSE f : f = MovesAfter(t, f)
           G == [v \in 1 .. N |-> [s \in S |-> IF IsMoved(t, v) THEN Append(s, MoveOf(v)) ELSE s]]
<1>0. N \in Nat /\ Values = 1 .. N
  BY BodyFacts DEF Values
<1>1. Moves(t) = a[N]
  BY DEF Moves, MovesAfter
<1>2. \A v \in 1 .. N : \A s \in S : (IF IsMoved(t, v) THEN Append(s, MoveOf(v)) ELSE s) \in S
  <2>1. \A v \in 1 .. N : MoveOf(v) \in MoveSet
    BY <1>0 DEF MoveSet
  <2> QED BY <2>1
<1>3. G \in [1 .. N -> [S -> S]]
  <2> HIDE DEF S, N
  <2> QED BY <1>2
<1>4. <<>> \in S
  OBVIOUS
<1>5. Counted(N, S, <<>>, G)
  <2> HIDE DEF S, N, G
  <2> QED BY <1>0, <1>3, <1>4 DEF Counted
<1>6. PICK g \in [0 .. N -> S] : SolvesCounted(g, N, <<>>, G)
  <2> HIDE DEF S, N, G
  <2> QED BY <1>5, CountedSolved
<1>7. g = MovesAfter(t, g)
  <2>1. ASSUME NEW v \in 0 .. N PROVE g[v] = MovesAfter(t, g)[v]
    <3>1. g[v] = IF v = 0 THEN <<>> ELSE G[v][g[v - 1]]
      <4> HIDE DEF S, G, N
      <4> QED BY <1>6 DEF SolvesCounted
    <3>2. CASE v = 0
      BY <3>1, <3>2 DEF MovesAfter
    <3>3. CASE v # 0
      <4>1. v \in 1 .. N /\ v - 1 \in 0 .. N
        BY <1>0, <3>3
      <4>2. g[v - 1] \in S
        <5> HIDE DEF S, N
        <5> QED BY <4>1
      <4>3. G[v][g[v - 1]] = IF IsMoved(t, v) THEN Append(g[v - 1], MoveOf(v)) ELSE g[v - 1]
        <5> HIDE DEF S, N
        <5> QED BY <4>1, <4>2
      <4>4. MovesAfter(t, g)[v] = IF IsMoved(t, v) THEN Append(g[v - 1], MoveOf(v)) ELSE g[v - 1]
        BY <3>3 DEF MovesAfter, IsMoved
      <4> HIDE DEF S, N, G
      <4> QED BY <3>1, <3>3, <4>3, <4>4
    <3> QED BY <3>2, <3>3
  <2>2. MovesAfter(t, g) = [v \in 0 .. N |-> MovesAfter(t, g)[v]]
    BY DEF MovesAfter
  <2>3. g = [v \in 0 .. N |-> g[v]]
    <3> HIDE DEF S, N
    <3> QED OBVIOUS
  <2> HIDE DEF S, N, G
  <2> QED BY <2>1, <2>2, <2>3
<1>8. a = MovesAfter(t, a)
  BY <1>7
<1> DEFINE T == {k \in 0 .. N : \E idx \in [1 .. Len(a[k]) -> Values] : Lists(a[k], t, k, idx)}
<1>9. 0 \in T
  <2>1. a[0] = <<>>
    <3> HIDE DEF a
    <3> QED BY <1>0, <1>8 DEF MovesAfter
  <2>2. Len(<<>>) = 0 /\ <<>> \in Seq(MoveSet) /\ 1 .. 0 = {}
    OBVIOUS
  <2>3. [i \in {} |-> 1] \in [1 .. 0 -> Values]
    OBVIOUS
  <2>4. \A v \in Values : ~(v <= 0)
    BY <1>0
  <2>5. Lists(<<>>, t, 0, [i \in {} |-> 1])
    BY <2>2, <2>3, <2>4 DEF Lists
  <2>6. 0 \in 0 .. N
    BY <1>0
  <2> HIDE DEF a
  <2> QED BY <2>1, <2>2, <2>3, <2>5, <2>6
<1>10. ASSUME NEW k \in 1 .. N, k - 1 \in T PROVE k \in T
  <2>1. k \in 0 .. N /\ k # 0
    BY <1>0
  <2>2. PICK idx \in [1 .. Len(a[k - 1]) -> Values] : Lists(a[k - 1], t, k - 1, idx)
    <3> HIDE DEF a
    <3> QED BY <1>10
  <2>3. a[k] = IF IsMoved(t, k) THEN Append(a[k - 1], MoveOf(k)) ELSE a[k - 1]
    <3> HIDE DEF a
    <3> QED BY <1>8, <2>1 DEF MovesAfter, IsMoved
  <2>4. CASE IsMoved(t, k)
    <3> DEFINE old == a[k - 1]
    <3>1. \E next \in [1 .. Len(old) + 1 -> Values] : Lists(Append(old, MoveOf(k)), t, k, next)
      <4> HIDE DEF old
      <4> QED BY <2>2, <2>4, ListGrows DEF old
    <3>2. Len(Append(old, MoveOf(k))) = Len(old) + 1
      <4>1. old \in Seq(MoveSet)
        <5> HIDE DEF a
        <5> QED BY <2>2 DEF Lists
      <4> HIDE DEF old
      <4> QED BY <4>1
    <3> HIDE DEF a
    <3> QED BY <2>1, <2>3, <2>4, <3>1, <3>2
  <2>5. CASE ~IsMoved(t, k)
    <3>1. Lists(a[k - 1], t, k, idx)
      <4>1. \A v \in Values : v <= k /\ IsMoved(t, v) => v <= k - 1
        <5> TAKE v \in Values
        <5> HAVE v <= k /\ IsMoved(t, v)
        <5>1. v # k
          BY <2>5
        <5> QED BY <1>0, <5>1
      <4>2. \A v \in Values : v <= k - 1 => v <= k
        BY <1>0
      <4>3. \A i \in 1 .. Len(a[k - 1]) : idx[i] \in Values
        OBVIOUS
      <4> HIDE DEF a
      <4> QED BY <2>2, <4>1, <4>2, <4>3 DEF Lists
    <3> HIDE DEF a
    <3> QED BY <2>1, <2>3, <2>5, <3>1
  <2> QED BY <2>4, <2>5
<1>11. \A k \in 0 .. N : k \in T
  <2> HIDE DEF N, T
  <2> QED BY <1>0, <1>9, <1>10, CountedInduction
<1>12. N \in T
  <2> HIDE DEF T
  <2> QED BY <1>0, <1>11
<1> HIDE DEF a
<1> QED BY <1>1, <1>12

-----------------------------------------------------------------------------
\* Only phis with a slot of their own are moved.
LEMMA MovedIsRoot ==
  ASSUME prog \in Bodies, slots = Slot(prog), NEW v \in Values, block \in 1 .. Len(prog.succ),
         NEW t, Passes(prog, block, t), IsMoved(t, v)
  PROVE  Views(prog)[v].from = 0
<1>1. SUFFICES ASSUME Views(prog)[v].from # 0 PROVE FALSE
  OBVIOUS
<1>2. prog.kind[v] = "phi" /\ prog.block[v] = t /\ v \in 1 .. Len(prog.kind)
  BY DEF IsMoved, Values
<1>3. SameSource(prog, v) /\ Views(prog)[v] = [from |-> SourceOf(prog, v), off |-> 0]
  BY <1>1, <1>2, ViewsLegal DEF LegalView, NoView
<1>4. block \in DOMAIN prog.incoming[v]
  <2>1. \E i \in 1 .. Len(prog.succ[block]) : prog.succ[block][i] = prog.block[v]
    BY <1>2 DEF Passes
  <2>2. DOMAIN prog.incoming[v] =
          {b \in 1 .. Len(prog.succ) : \E i \in 1 .. Len(prog.succ[b]) : prog.succ[b][i] = prog.block[v]}
    BY <1>2, BodyFacts
  <2> QED BY <2>1, <2>2
<1>5. prog.incoming[v][block] = SourceOf(prog, v) /\ SourceOf(prog, v) \in Values
  BY <1>3, <1>4, PhiSource
<1>6. SourceOf(prog, v) # 0
  BY <1>5, BodyFacts DEF Values
<1>7. Slot(prog)[v] = Slot(prog)[SourceOf(prog, v)] + 0 /\ Slot(prog)[SourceOf(prog, v)] \in Nat
  <2>1. Slot(prog)[v] = Slot(prog)[Views(prog)[v].from] + Views(prog)[v].off
    BY <1>1, Rooted
  <2>2. Views(prog)[v].from = SourceOf(prog, v) /\ Views(prog)[v].off = 0
    BY <1>3
  <2>3. Slot(prog) \in [Values -> Nat]
    BY Rooted
  <2> QED BY <1>5, <2>1, <2>2, <2>3
<1>8. MoveOf(v).src = Slot(prog)[SourceOf(prog, v)] /\ MoveOf(v).dst = Slot(prog)[v]
  BY <1>5, <1>6 DEF MoveOf, OperandSlot
<1> QED BY <1>7, <1>8 DEF IsMoved

\* An operand of a phi of the target is where the edge comes from.
LEMMA IncomingProvided ==
  ASSUME prog \in Bodies, NEW v \in Values, NEW b \in 1 .. Len(prog.succ), Passes(prog, b, prog.block[v]),
         prog.kind[v] = "phi"
  PROVE  LET operand == prog.incoming[v][b]
         IN \/ operand = 0 /\ prog.size[v] = 1
            \/ /\ operand \in Values /\ operand # 0
               /\ Dominates(prog, prog.block[operand], b) /\ prog.size[operand] = prog.size[v]
<1>1. v \in 1 .. Len(prog.kind) /\ Len(prog.kind) \in Nat /\ Values = 1 .. Len(prog.kind)
  BY BodyFacts DEF Values
<1>2. b \in DOMAIN prog.incoming[v]
  BY <1>1, BodyFacts DEF Passes
<1>3. Provided(prog, prog.incoming[v][b], b, prog.size[v])
  BY <1>1, <1>2, BodyFacts
<1> QED BY <1>1, <1>3 DEF Provided, Dominates

LEMMA MoveLegal ==
  ASSUME prog \in Bodies, slots = Slot(prog), block \in 1 .. Len(prog.succ), NEW v \in Values,
         prog.kind[v] = "phi", Passes(prog, block, prog.block[v])
  PROVE  LegalMove(MoveOf(v))
<1> DEFINE operand == prog.incoming[v][block]
<1>1. MoveOf(v) = [dst |-> Slot(prog)[v], src |-> OperandSlot(operand), bytes |-> prog.size[v], local |-> operand # 0]
  BY DEF MoveOf
<1>7. /\ MoveOf(v).dst = Slot(prog)[v] /\ MoveOf(v).src = OperandSlot(operand)
      /\ MoveOf(v).bytes = prog.size[v] /\ MoveOf(v).local = (operand # 0)
  BY <1>1
<1>2. /\ Slot(prog)[v] \in Nat /\ 1 <= Slot(prog)[v] /\ Slot(prog)[v] + prog.size[v] <= Outgoing
      /\ prog.size[v] \in {1, 2}
  BY SlotPlaced
<1>3. Pool \in Nat /\ Pool > 0 /\ PcBytes = 1 /\ Outgoing \in Nat /\ Capacity \in Nat /\ Outgoing <= Capacity
  <2>1. Align \in Nat /\ Outgoing + Align <= Capacity
    BY LayoutAssumption
  <2> QED BY <2>1, LayoutAssumption, BodiesAssumption
<1>4. Slot(prog)[v] \in Addr
  BY <1>2, <1>3 DEF Addr
<1>5. CASE operand = 0 /\ prog.size[v] = 1
  <2>1. OperandSlot(operand) = -1
    BY <1>5 DEF OperandSlot, ConstantSlot
  <2>2. -1 \in Addr
    BY <1>3 DEF Addr
  <2> HIDE DEF operand
  <2>3. MoveOf(v) \in Move
    BY <1>1, <1>4, <1>5, <2>1, <2>2 DEF Move
  <2>4. ~MoveOf(v).local
    BY <1>7, <1>5
  <2>5. MoveOf(v).bytes > 0 /\ PcBytes <= MoveOf(v).dst /\ MoveOf(v).dst + MoveOf(v).bytes <= Outgoing
    BY <1>7, <1>2, <1>3
  <2>6. MoveOf(v).src + MoveOf(v).bytes <= 0
    BY <1>7, <1>5, <2>1
  <2> QED BY <2>3, <2>4, <2>5, <2>6 DEF LegalMove
<1>6. CASE operand \in Values /\ operand # 0 /\ prog.size[operand] = prog.size[v]
  <2>1. OperandSlot(operand) = Slot(prog)[operand]
    BY <1>6 DEF OperandSlot
  <2> HIDE DEF operand
  <2>2. Slot(prog)[operand] \in Nat /\ 1 <= Slot(prog)[operand] /\ Slot(prog)[operand] + prog.size[v] <= Outgoing
    BY <1>6, SlotPlaced
  <2>3. Slot(prog)[operand] \in Addr
    BY <1>2, <1>3, <2>2 DEF Addr
  <2>4. MoveOf(v) \in Move
    BY <1>1, <1>2, <1>4, <1>6, <2>1, <2>3 DEF Move
  <2>5. MoveOf(v).local
    BY <1>7, <1>6
  <2>6. MoveOf(v).bytes > 0 /\ PcBytes <= MoveOf(v).dst /\ MoveOf(v).dst + MoveOf(v).bytes <= Outgoing
    BY <1>7, <1>2, <1>3
  <2>7. PcBytes <= MoveOf(v).src /\ MoveOf(v).src + MoveOf(v).bytes <= Outgoing
    BY <1>7, <1>2, <1>3, <2>1, <2>2
  <2> QED BY <2>4, <2>5, <2>6, <2>7 DEF LegalMove
<1> QED BY <1>5, <1>6, IncomingProvided

\* The list of an edge is one PhiEdge covers.
LEMMA MovesLegal ==
  ASSUME prog \in Bodies, slots = Slot(prog), block \in 1 .. Len(prog.succ), NEW t, Passes(prog, block, t)
  PROVE  LegalPlan(Moves(t))
<1> DEFINE list == Moves(t)
<1>0. Len(prog.kind) \in Nat /\ Values = 1 .. Len(prog.kind)
  BY BodyFacts DEF Values
<1>1. PICK idx \in [1 .. Len(list) -> Values] : Lists(list, t, Len(prog.kind), idx)
  BY MovesListed
<1> HIDE DEF list
<1>2. list \in Seq(MoveSet) /\ \A i \in 1 .. Len(list) : IsMoved(t, idx[i]) /\ list[i] = MoveOf(idx[i]) /\ idx[i] \in Values
  BY <1>1 DEF Lists
<1>3. \A i \in 1 .. Len(list) : LegalMove(list[i])
  <2> TAKE i \in 1 .. Len(list)
  <2>1. prog.kind[idx[i]] = "phi" /\ prog.block[idx[i]] = t
    BY <1>2 DEF IsMoved
  <2> QED BY <1>2, <2>1, MoveLegal
<1>4. list \in Seq(Move)
  <2>1. \A i \in 1 .. Len(list) : list[i] \in Move
    BY <1>3 DEF LegalMove
  <2> QED BY <1>2, <2>1
<1>5. ASSUME NEW i \in 1 .. Len(list), NEW j \in 1 .. Len(list), i # j
      PROVE  ~Overlaps(list[i].dst, list[i].bytes, list[j].dst, list[j].bytes)
  <2> DEFINE v == idx[i]
             w == idx[j]
  <2>1. v \in Values /\ w \in Values /\ v # w /\ IsMoved(t, v) /\ IsMoved(t, w)
    BY <1>1, <1>2, <1>5 DEF Lists
  <2>2. /\ list[i].dst = Slot(prog)[v] /\ list[i].bytes = prog.size[v]
        /\ list[j].dst = Slot(prog)[w] /\ list[j].bytes = prog.size[w]
    <3>1. list[i] = MoveOf(v) /\ list[j] = MoveOf(w)
      BY <1>2
    <3>2. \A u \in Values : MoveOf(u).dst = Slot(prog)[u] /\ MoveOf(u).bytes = prog.size[u]
      BY DEF MoveOf
    <3> HIDE DEF v, w
    <3> QED BY <2>1, <3>1, <3>2
  <2> HIDE DEF v, w
  <2>3. Views(prog)[w].from = 0
    BY <2>1, MovedIsRoot
  <2>4. prog.block[v] = prog.block[w] /\ prog.kind[v] = "phi"
    BY <2>1 DEF IsMoved
  <2>5. Dominates(prog, prog.block[v], prog.block[w])
    <3>1. prog.block[v] \in 1 .. Len(prog.succ)
      BY <1>0, <2>1, BodyFacts
    <3> QED BY <2>4, <3>1, DominatesItself
  <2>6. Slot(prog)[v] + prog.size[v] <= Slot(prog)[w] \/ Slot(prog)[w] + prog.size[w] <= Slot(prog)[v]
    BY <2>1, <2>3, <2>4, <2>5, SlotsApart
  <2>7. Slot(prog)[v] \in Nat /\ Slot(prog)[w] \in Nat /\ prog.size[v] \in {1, 2} /\ prog.size[w] \in {1, 2}
    BY <2>1, SlotPlaced
  <2>8. ~Overlaps(Slot(prog)[v], prog.size[v], Slot(prog)[w], prog.size[w])
    BY <2>6, <2>7 DEF Overlaps
  <2> QED BY <2>2, <2>8
<1>6. ASSUME NEW i \in 1 .. Len(list), NEW j \in 1 .. Len(list), list[j].local
      PROVE  Within(list[j], list[i]) \/ ~Overlaps(list[i].dst, list[i].bytes, list[j].src, list[j].bytes)
  <2> DEFINE w == idx[i]
             v == idx[j]
             u == prog.incoming[v][block]
  <2>1. v \in Values /\ w \in Values /\ IsMoved(t, v) /\ IsMoved(t, w)
    BY <1>2
  <2>2. /\ list[i].dst = Slot(prog)[w] /\ list[i].bytes = prog.size[w]
        /\ list[j].src = OperandSlot(u) /\ list[j].bytes = prog.size[v] /\ list[j].local = (u # 0)
    <3>1. list[j] = MoveOf(v) /\ list[i] = MoveOf(w)
      BY <1>2
    <3>2. \A x \in Values : MoveOf(x).dst = Slot(prog)[x] /\ MoveOf(x).bytes = prog.size[x]
      BY DEF MoveOf
    <3>3. MoveOf(v).src = OperandSlot(u) /\ MoveOf(v).local = (u # 0)
      BY DEF MoveOf
    <3> HIDE DEF v, w, u
    <3> QED BY <2>1, <3>1, <3>2, <3>3
  <2>3. u \in Values /\ prog.size[u] = prog.size[v]
    <3>1. prog.kind[v] = "phi" /\ Passes(prog, block, prog.block[v])
      BY <2>1 DEF IsMoved
    <3> HIDE DEF v, w
    <3> QED BY <1>6, <2>1, <2>2, <3>1, IncomingProvided DEF u
  <2> HIDE DEF v, w, u
  <2>4. Views(prog)[w].from = 0
    BY <2>1, MovedIsRoot
  <2>5. PICK r \in Values : Root(r, u)
    BY <2>3, Rooted
  <2>6. RawSlot(prog)[r] <= Slot(prog)[u] /\ Slot(prog)[u] + prog.size[u] <= RawSlot(prog)[r] + prog.size[r]
    BY <2>5 DEF Root
  <2>7. Slot(prog)[w] = RawSlot(prog)[w]
    BY <2>1, <2>4, Rooted
  <2>8. /\ Slot(prog)[u] \in Nat /\ prog.size[u] \in {1, 2} /\ RawSlot(prog)[r] \in Nat /\ prog.size[r] \in {1, 2}
        /\ RawSlot(prog)[w] \in Nat /\ prog.size[w] \in {1, 2}
    BY <1>0, <2>1, <2>3, <2>5, SlotPlaced, RawOrdered
  <2>9. OperandSlot(u) = Slot(prog)[u]
    BY <1>6, <2>2 DEF OperandSlot
  <2>10. CASE r = w
    <3>1. Slot(prog)[w] <= Slot(prog)[u] /\ Slot(prog)[u] + prog.size[v] <= Slot(prog)[w] + prog.size[w]
      BY <2>3, <2>6, <2>7, <2>10
    <3> QED BY <2>2, <2>9, <3>1 DEF Within
  <2>11. CASE r # w
    <3>1. r < w \/ w < r
      BY <1>0, <2>1, <2>5, <2>11
    <3>2. RawSlot(prog)[r] + prog.size[r] <= RawSlot(prog)[w] \/ RawSlot(prog)[w] + prog.size[w] <= RawSlot(prog)[r]
      BY <1>0, <2>1, <2>5, <3>1, RawOrdered
    <3>3. Slot(prog)[u] + prog.size[u] <= RawSlot(prog)[w] \/ RawSlot(prog)[w] + prog.size[w] <= Slot(prog)[u]
      <4> DEFINE su == Slot(prog)[u]
                 nu == prog.size[u]
                 rr == RawSlot(prog)[r]
                 nr == prog.size[r]
                 rw == RawSlot(prog)[w]
                 nw == prog.size[w]
      <4>1. su \in Nat /\ nu \in {1, 2} /\ rr \in Nat /\ nr \in {1, 2} /\ rw \in Nat /\ nw \in {1, 2}
        BY <2>8
      <4>2. rr <= su /\ su + nu <= rr + nr
        BY <2>6
      <4>3. rr + nr <= rw \/ rw + nw <= rr
        BY <3>2
      <4> HIDE DEF su, nu, rr, nr, rw, nw
      <4>4. su + nu <= rw \/ rw + nw <= su
        BY <4>1, <4>2, <4>3
      <4> QED BY <4>4 DEF su, nu, rw, nw
    <3>4. ~Overlaps(RawSlot(prog)[w], prog.size[w], Slot(prog)[u], prog.size[u])
      BY <2>8, <3>3 DEF Overlaps
    <3> QED BY <2>2, <2>3, <2>7, <2>9, <3>4
  <2> QED BY <2>10, <2>11
<1>7. LegalPlan(list)
  BY <1>3, <1>4, <1>5, <1>6 DEF LegalPlan
<1> QED BY <1>7 DEF list
-----------------------------------------------------------------------------
\* What the instructions of a block leave in memory.
IsOp(b, v) == prog.block[v] = b /\ prog.kind[v] = "op"
Holds(v, x) == Slot(prog)[v] <= x /\ x < Slot(prog)[v] + prog.size[v]

LEMMA OpsApart ==
  ASSUME prog \in Bodies, NEW b, NEW v \in Values, NEW w \in Values, v # w, IsOp(b, v), IsOp(b, w)
  PROVE  Slot(prog)[v] + prog.size[v] <= Slot(prog)[w] \/ Slot(prog)[w] + prog.size[w] <= Slot(prog)[v]
<1>0. Len(prog.kind) \in Nat /\ Values = 1 .. Len(prog.kind)
  BY BodyFacts DEF Values
<1>1. Views(prog)[v].from = 0 /\ Views(prog)[w].from = 0
  BY ViewsLegal DEF LegalView, NoView, IsOp
<1>2. Slot(prog)[v] = RawSlot(prog)[v] /\ Slot(prog)[w] = RawSlot(prog)[w]
  BY <1>1, Rooted
<1>3. v < w \/ w < v
  BY <1>0
<1> QED BY <1>0, <1>2, <1>3, RawOrdered

LEMMA EffectFacts ==
  ASSUME prog \in Bodies, slots = Slot(prog), NEW m \in [Addr -> Value], NEW v \in Values, NEW b,
         NEW outs \in Outcomes(b), prog.block[v] = b, prog.kind[v] # "phi"
  PROVE  /\ Effect(outs, m, v) \in [Addr -> Value]
         /\ prog.kind[v] # "op" => Effect(outs, m, v) = m
         /\ prog.kind[v] = "op" => \A x \in Addr : ~Holds(v, x) => Effect(outs, m, v)[x] = m[x]
         /\ prog.kind[v] = "op" => \A k \in 0 .. prog.size[v] - 1 : Effect(outs, m, v)[Slot(prog)[v] + k] = outs[v][k]
<1>0. Len(prog.kind) \in Nat /\ Values = 1 .. Len(prog.kind)
  BY BodyFacts DEF Values
<1>1. /\ Slot(prog)[v] \in Nat /\ 1 <= Slot(prog)[v] /\ Slot(prog)[v] + prog.size[v] <= Outgoing
      /\ prog.size[v] \in {1, 2}
  BY SlotPlaced
<1>2. CASE prog.kind[v] = "op"
  <2>1. Effect(outs, m, v) = [a \in Addr |-> IF Slot(prog)[v] <= a /\ a < Slot(prog)[v] + prog.size[v]
                                             THEN outs[v][a - Slot(prog)[v]] ELSE m[a]]
    BY <1>2 DEF Effect
  <2>2. v \in {u \in Values : prog.block[u] = b /\ prog.kind[u] = "op"}
    BY <1>2
  <2>3. outs[v] \in [0 .. 1 -> Bit]
    BY <2>2 DEF Outcomes
  <2>4. \A k \in 0 .. 1 : outs[v][k] \in Value
    BY <2>3, BodiesAssumption
  <2>5. \A a \in Addr : Slot(prog)[v] <= a /\ a < Slot(prog)[v] + prog.size[v] => a - Slot(prog)[v] \in 0 .. 1
    BY <1>1, LayoutAssumption DEF Addr
  <2>6. Effect(outs, m, v) \in [Addr -> Value]
    BY <2>1, <2>4, <2>5
  <2>7. \A x \in Addr : ~Holds(v, x) => Effect(outs, m, v)[x] = m[x]
    BY <2>1 DEF Holds
  <2>8. ASSUME NEW k \in 0 .. prog.size[v] - 1
        PROVE  Effect(outs, m, v)[Slot(prog)[v] + k] = outs[v][k]
    <3>1. Slot(prog)[v] + k \in Addr
      BY <1>1, LayoutAssumption DEF Addr
    <3>2. Slot(prog)[v] <= Slot(prog)[v] + k /\ Slot(prog)[v] + k < Slot(prog)[v] + prog.size[v] /\ Slot(prog)[v] + k - Slot(prog)[v] = k
      BY <1>1
    <3> DEFINE x == Slot(prog)[v] + k
    <3>3. Effect(outs, m, v)[x] = IF Slot(prog)[v] <= x /\ x < Slot(prog)[v] + prog.size[v] THEN outs[v][x - Slot(prog)[v]] ELSE m[x]
      <4> HIDE DEF x
      <4> QED BY <2>1, <3>1 DEF x
    <3>4. Slot(prog)[v] <= x /\ x < Slot(prog)[v] + prog.size[v] /\ x - Slot(prog)[v] = k
      BY <1>1, <3>2
    <3> HIDE DEF x
    <3>5. Effect(outs, m, v)[x] = outs[v][k]
      BY <3>3, <3>4
    <3> QED BY <3>5 DEF x
  <2> QED BY <1>2, <2>6, <2>7, <2>8
<1>3. CASE prog.kind[v] # "op"
  <2>1. prog.kind[v] \in {"view", "part"}
    BY <1>0, <1>3, BodyFacts
  <2>2. Views(prog)[v] = [from |-> prog.from[v], off |-> prog.off[v]]
    BY <2>1, ViewsLegal DEF LegalView
  <2>3. prog.from[v] \in Values
    BY <1>0, <2>1, BodyFacts
  <2>4. prog.from[v] # 0
    BY <1>0, <2>3
  <2>5. Slot(prog)[v] = Slot(prog)[prog.from[v]] + prog.off[v]
    BY <2>2, <2>4, Rooted
  <2>6. Effect(outs, m, v) = Copy(m, Slot(prog)[v], Slot(prog)[v], prog.size[v])
    BY <1>3, <2>5 DEF Effect
  <2>7. Copy(m, Slot(prog)[v], Slot(prog)[v], prog.size[v]) = m
    <3>1. \A a \in Addr : Slot(prog)[v] + (a - Slot(prog)[v]) = a
      BY <1>1, LayoutAssumption DEF Addr
    <3>2. \A a \in Addr : (IF Slot(prog)[v] <= a /\ a < Slot(prog)[v] + prog.size[v] THEN m[Slot(prog)[v] + (a - Slot(prog)[v])] ELSE m[a]) = m[a]
      BY <3>1
    <3> QED BY <3>2 DEF Copy
  <2> QED BY <1>3, <2>6, <2>7
<1> QED BY <1>2, <1>3

BlockAfter(b, outs, f) ==
  [v \in 0 .. Len(prog.kind) |->
     IF v = 0 THEN mem
     ELSE IF prog.block[v] = b /\ prog.kind[v] # "phi" THEN Effect(outs, f[v - 1], v) ELSE f[v - 1]]

\* Up to value k: its operations left their results, all else is as before.
Ran(b, outs, m, k) ==
  /\ m \in [Addr -> Value]
  /\ \A x \in Addr : (\A v \in Values : v <= k /\ IsOp(b, v) => ~Holds(v, x)) => m[x] = mem[x]
  /\ \A v \in Values : v <= k /\ IsOp(b, v) => \A i \in 0 .. prog.size[v] - 1 : m[Slot(prog)[v] + i] = outs[v][i]

LEMMA RanFurther ==
  ASSUME prog \in Bodies, slots = Slot(prog), NEW b, NEW outs \in Outcomes(b), NEW m, NEW k \in Values,
         Ran(b, outs, m, k - 1), prog.block[k] = b, prog.kind[k] # "phi"
  PROVE  Ran(b, outs, Effect(outs, m, k), k)
<1> DEFINE next == Effect(outs, m, k)
<1>0. Len(prog.kind) \in Nat /\ Values = 1 .. Len(prog.kind)
  BY BodyFacts DEF Values
<1>1. m \in [Addr -> Value]
  BY DEF Ran
<1>2. /\ next \in [Addr -> Value]
      /\ prog.kind[k] # "op" => next = m
      /\ prog.kind[k] = "op" => \A x \in Addr : ~Holds(k, x) => next[x] = m[x]
      /\ prog.kind[k] = "op" => \A i \in 0 .. prog.size[k] - 1 : next[Slot(prog)[k] + i] = outs[k][i]
  BY <1>1, EffectFacts
<1>3. \A v \in Values : v <= k <=> v = k \/ v <= k - 1
  BY <1>0
<1> HIDE DEF next
<1>4. CASE prog.kind[k] # "op"
  <2>1. next = m /\ ~IsOp(b, k)
    BY <1>2, <1>4 DEF IsOp
  <2> QED BY <1>3, <2>1 DEF Ran, next
<1>5. CASE prog.kind[k] = "op"
  <2>1. IsOp(b, k)
    BY <1>5 DEF IsOp
  <2>2. ASSUME NEW x \in Addr, \A v \in Values : v <= k /\ IsOp(b, v) => ~Holds(v, x)
        PROVE  next[x] = mem[x]
    <3>1. ~Holds(k, x) /\ \A v \in Values : v <= k - 1 /\ IsOp(b, v) => ~Holds(v, x)
      BY <1>3, <2>1, <2>2
    <3>2. m[x] = mem[x]
      BY <3>1 DEF Ran
    <3> QED BY <1>2, <1>5, <3>1, <3>2
  <2>3. ASSUME NEW v \in Values, v <= k, IsOp(b, v), NEW i \in 0 .. prog.size[v] - 1
        PROVE  next[Slot(prog)[v] + i] = outs[v][i]
    <3>1. CASE v = k
      BY <1>2, <1>5, <3>1
    <3>2. CASE v # k
      <4>1. v <= k - 1
        BY <1>3, <2>3, <3>2
      <4>2. m[Slot(prog)[v] + i] = outs[v][i]
        BY <2>3, <4>1 DEF Ran
      <4>3. Slot(prog)[v] + prog.size[v] <= Slot(prog)[k] \/ Slot(prog)[k] + prog.size[k] <= Slot(prog)[v]
        BY <2>1, <2>3, <3>2, OpsApart
      <4>4. /\ Slot(prog)[v] \in Nat /\ Slot(prog)[v] + prog.size[v] <= Outgoing /\ prog.size[v] \in {1, 2}
            /\ Slot(prog)[k] \in Nat /\ prog.size[k] \in {1, 2}
        BY SlotPlaced
      <4>5. ~Holds(k, Slot(prog)[v] + i)
        BY <4>3, <4>4 DEF Holds
      <4>6. Slot(prog)[v] + i \in Addr
        BY <4>4, LayoutAssumption DEF Addr
      <4> QED BY <1>2, <1>5, <4>2, <4>5, <4>6
    <3> QED BY <3>1, <3>2
  <2> QED BY <1>2, <2>2, <2>3 DEF Ran, next
<1> QED BY <1>4, <1>5

LEMMA BlockRan ==
  ASSUME prog \in Bodies, slots = Slot(prog), mem \in [Addr -> Value], NEW b, NEW outs \in Outcomes(b)
  PROVE  Ran(b, outs, RunBlock(b, outs), Len(prog.kind))
<1> DEFINE N == Len(prog.kind)
           S == [Addr -> Value]
           Does(v) == prog.block[v] = b /\ prog.kind[v] # "phi"
           a == CHOOSE f : f = BlockAfter(b, outs, f)
           G == [v \in 1 .. N |-> [m \in S |-> IF Does(v) THEN Effect(outs, m, v) ELSE m]]
<1>0. N \in Nat /\ Values = 1 .. N
  BY BodyFacts DEF Values
<1>1. RunBlock(b, outs) = a[N]
  BY DEF RunBlock, BlockAfter
<1>2. \A v \in 1 .. N : \A m \in S : (IF Does(v) THEN Effect(outs, m, v) ELSE m) \in S
  BY <1>0, EffectFacts
<1>3. G \in [1 .. N -> [S -> S]]
  <2> HIDE DEF S, N, Does
  <2> QED BY <1>2
<1>4. Counted(N, S, mem, G)
  <2>1. mem \in S
    OBVIOUS
  <2> HIDE DEF S, N, G
  <2> QED BY <1>0, <1>3, <2>1 DEF Counted
<1>5. PICK g \in [0 .. N -> S] : SolvesCounted(g, N, mem, G)
  <2> HIDE DEF S, N, G
  <2> QED BY <1>4, CountedSolved
<1>6. g = BlockAfter(b, outs, g)
  <2>1. ASSUME NEW v \in 0 .. N PROVE g[v] = BlockAfter(b, outs, g)[v]
    <3>1. g[v] = IF v = 0 THEN mem ELSE G[v][g[v - 1]]
      <4> HIDE DEF S, G, N
      <4> QED BY <1>5 DEF SolvesCounted
    <3>2. CASE v = 0
      BY <3>1, <3>2 DEF BlockAfter
    <3>3. CASE v # 0
      <4>1. v \in 1 .. N /\ v - 1 \in 0 .. N
        BY <1>0, <3>3
      <4>2. g[v - 1] \in S
        <5> HIDE DEF S, N
        <5> QED BY <4>1
      <4>3. G[v][g[v - 1]] = IF Does(v) THEN Effect(outs, g[v - 1], v) ELSE g[v - 1]
        <5> HIDE DEF S, N, Does
        <5> QED BY <4>1, <4>2
      <4>4. BlockAfter(b, outs, g)[v] = IF Does(v) THEN Effect(outs, g[v - 1], v) ELSE g[v - 1]
        BY <3>3 DEF BlockAfter
      <4> HIDE DEF S, N, G, Does
      <4> QED BY <3>1, <3>3, <4>3, <4>4
    <3> QED BY <3>2, <3>3
  <2>2. BlockAfter(b, outs, g) = [v \in 0 .. N |-> BlockAfter(b, outs, g)[v]]
    BY DEF BlockAfter
  <2>3. g = [v \in 0 .. N |-> g[v]]
    <3> HIDE DEF S, N
    <3> QED OBVIOUS
  <2> HIDE DEF S, N, G
  <2> QED BY <2>1, <2>2, <2>3
<1>7. a = BlockAfter(b, outs, a)
  BY <1>6
<1> DEFINE T == {k \in 0 .. N : Ran(b, outs, a[k], k)}
<1>8. 0 \in T
  <2>1. a[0] = mem
    <3> HIDE DEF a
    <3> QED BY <1>0, <1>7 DEF BlockAfter
  <2>2. \A v \in Values : ~(v <= 0)
    BY <1>0
  <2>3. 0 \in 0 .. N
    BY <1>0
  <2>4. Ran(b, outs, mem, 0)
    BY <2>2 DEF Ran
  <2> HIDE DEF a
  <2> QED BY <2>1, <2>3, <2>4
<1>9. ASSUME NEW k \in 1 .. N, k - 1 \in T PROVE k \in T
  <2>1. k \in 0 .. N /\ k # 0 /\ k \in Values
    BY <1>0
  <2>2. Ran(b, outs, a[k - 1], k - 1)
    <3> HIDE DEF a
    <3> QED BY <1>9
  <2>3. a[k] = IF Does(k) THEN Effect(outs, a[k - 1], k) ELSE a[k - 1]
    <3> HIDE DEF a
    <3> QED BY <1>7, <2>1 DEF BlockAfter
  <2>4. CASE Does(k)
    <3>1. Ran(b, outs, Effect(outs, a[k - 1], k), k)
      <4> HIDE DEF a
      <4> QED BY <2>1, <2>2, <2>4, RanFurther
    <3> HIDE DEF a, Does
    <3> QED BY <2>1, <2>3, <2>4, <3>1
  <2>5. CASE ~Does(k)
    <3>1. ~IsOp(b, k)
      BY <2>5 DEF IsOp
    <3>2. \A v \in Values : v <= k <=> v = k \/ v <= k - 1
      BY <1>0
    <3>3. Ran(b, outs, a[k - 1], k)
      <4> HIDE DEF a
      <4> QED BY <2>2, <3>1, <3>2 DEF Ran
    <3> HIDE DEF a, Does
    <3> QED BY <2>1, <2>3, <2>5, <3>3
  <2> QED BY <2>4, <2>5
<1>10. \A k \in 0 .. N : k \in T
  <2> HIDE DEF N, T
  <2> QED BY <1>0, <1>8, <1>9, CountedInduction
<1>11. N \in T
  <2> HIDE DEF T
  <2> QED BY <1>0, <1>10
<1> HIDE DEF a
<1> QED BY <1>1, <1>11
-----------------------------------------------------------------------------
\* Where the incoming value of phi v is at the end of block b.
SourceSlot(p, sl, b, v) == IF p.incoming[v][b] = 0 THEN ConstantSlot ELSE sl[p.incoming[v][b]]

\* The list moves the phis of t, and idx names them.
Carries(p, sl, b, list, t, idx) ==
  /\ idx \in [1 .. Len(list) -> 1 .. Len(p.kind)]
  /\ \A i \in 1 .. Len(list) :
       /\ p.block[idx[i]] = t /\ p.kind[idx[i]] = "phi"
       /\ list[i].dst = sl[idx[i]] /\ list[i].src = SourceSlot(p, sl, b, idx[i]) /\ list[i].src # list[i].dst
       /\ list[i].bytes = p.size[idx[i]]
  /\ \A v \in 1 .. Len(p.kind) : p.block[v] = t /\ p.kind[v] = "phi" /\ SourceSlot(p, sl, b, v) # sl[v] =>
       \E i \in 1 .. Len(list) : idx[i] = v

OnEdge ==
  /\ Inv /\ status # "branched"
  /\ Passes(prog, block, target) /\ target \in 1 .. Len(prog.succ)
  /\ \E idx : Carries(prog, slots, block, plan, target, idx)

FrameInv ==
  /\ prog \in Bodies /\ slots = Slot(prog)
  /\ block \in 1 .. Len(prog.succ) /\ phase \in {"loop", "entry", "executed", "edge"}
  /\ mem \in [Addr -> Value] /\ mem[0] \in 0 .. Len(prog.succ) /\ mem[ConstantSlot] = Constant
  /\ LegalPlan(plan)
  /\ phase = "edge" => OnEdge

LEMMA LowAddresses ==
  /\ ConstantSlot \in Addr /\ 0 \in Addr /\ ConstantSlot = -1
  /\ Outgoing \in Nat /\ PcBytes = 1 /\ Addr \subseteq Int /\ Outgoing > 0 /\ Outgoing < Capacity
BY LayoutAssumption, BodiesAssumption DEF ConstantSlot, Addr

LEMMA FrameInitHolds == FrameInit => FrameInv
<1> SUFFICES ASSUME FrameInit PROVE FrameInv
  OBVIOUS
<1>1. prog \in Bodies /\ slots = Slot(prog) /\ block = 1 /\ phase = "loop" /\ plan = <<>>
  BY DEF FrameInit
<1>2. Len(prog.succ) \in Nat \ {0} /\ 1 .. Len(prog.succ) \subseteq Value /\ {Constant, 0} \subseteq Value
  BY <1>1, GraphFacts, BodiesAssumption
<1>3. 1 \in Value
  BY <1>2
<1>4. mem = [a \in Addr |-> CASE a = ConstantSlot -> Constant [] a = 0 -> 1 [] OTHER -> 0]
  BY DEF FrameInit
<1>5. mem \in [Addr -> Value] /\ mem[0] = 1 /\ mem[ConstantSlot] = Constant
  BY <1>2, <1>3, <1>4, LowAddresses
<1>6. LegalPlan(plan)
  BY <1>1 DEF LegalPlan
<1>7. block \in 1 .. Len(prog.succ) /\ mem[0] \in 0 .. Len(prog.succ)
  BY <1>1, <1>2, <1>5
<1> QED BY <1>1, <1>5, <1>6, <1>7 DEF FrameInv

\* Where the body goes next is an edge out of a block that was entered.
LEMMA DispatchPreserves == FrameInv /\ Dispatch => FrameInv' /\ block' = mem[0]
<1> SUFFICES ASSUME FrameInv, Dispatch PROVE FrameInv' /\ block' = mem[0]
  OBVIOUS
<1>1. prog \in Bodies /\ mem[0] \in 0 .. Len(prog.succ) /\ mem[0] # 0 /\ Len(prog.succ) \in Nat
  BY GraphFacts DEF FrameInv, Dispatch
<1>2. mem[0] \in 1 .. Len(prog.succ)
  BY <1>1
<1>3. block' = mem[0]
  BY <1>1, <1>2, TreeFinds DEF Dispatch
<1>4. prog' = prog /\ slots' = slots /\ mem' = mem /\ plan' = plan /\ phase' = "entry"
  BY DEF Dispatch, edgeVars
<1> QED BY <1>2, <1>3, <1>4 DEF FrameInv

LEMMA ExecutePreserves == FrameInv /\ Execute => FrameInv'
<1> SUFFICES ASSUME FrameInv, Execute PROVE FrameInv'
  OBVIOUS
<1>1. PICK outs \in Outcomes(block) : mem' = RunBlock(block, outs)
  BY DEF Execute
<1>2. prog \in Bodies /\ slots = Slot(prog) /\ mem \in [Addr -> Value]
  BY DEF FrameInv
<1>3. Ran(block, outs, mem', Len(prog.kind))
  BY <1>1, <1>2, BlockRan
<1>4. \A x \in Addr : x < 1 => mem'[x] = mem[x]
  <2> TAKE x \in Addr
  <2> HAVE x < 1
  <2>1. \A v \in Values : Slot(prog)[v] \in Nat /\ 1 <= Slot(prog)[v]
    BY <1>2, SlotPlaced
  <2>2. \A v \in Values : ~Holds(v, x)
    BY <2>1, LowAddresses DEF Holds
  <2> QED BY <1>3, <2>2 DEF Ran
<1>5. mem'[0] = mem[0] /\ mem'[ConstantSlot] = mem[ConstantSlot] /\ mem' \in [Addr -> Value]
  BY <1>3, <1>4, LowAddresses DEF Ran
<1>6. prog' = prog /\ slots' = slots /\ block' = block /\ plan' = plan /\ phase' = "executed"
  BY DEF Execute, edgeVars
<1> QED BY <1>5, <1>6 DEF FrameInv

\* The list of an edge and its phis.
LEMMA MovesCarry ==
  ASSUME prog \in Bodies, NEW t
  PROVE  \E idx : Carries(prog, slots, block, Moves(t), t, idx)
<1>0. Len(prog.kind) \in Nat /\ Values = 1 .. Len(prog.kind)
  BY BodyFacts DEF Values
<1>1. PICK idx \in [1 .. Len(Moves(t)) -> Values] : Lists(Moves(t), t, Len(prog.kind), idx)
  BY MovesListed
<1>2. \A v \in Values : /\ MoveOf(v).dst = slots[v] /\ MoveOf(v).bytes = prog.size[v]
                        /\ MoveOf(v).src = SourceSlot(prog, slots, block, v)
  BY DEF MoveOf, OperandSlot, SourceSlot
<1>3. \A v \in Values : v <= Len(prog.kind)
  BY <1>0
<1> DEFINE list == Moves(t)
<1>4. ASSUME NEW i \in 1 .. Len(list)
      PROVE  /\ prog.block[idx[i]] = t /\ prog.kind[idx[i]] = "phi"
             /\ list[i].dst = slots[idx[i]] /\ list[i].src = SourceSlot(prog, slots, block, idx[i])
             /\ list[i].src # list[i].dst
             /\ list[i].bytes = prog.size[idx[i]]
  <2>1. IsMoved(t, idx[i]) /\ list[i] = MoveOf(idx[i]) /\ idx[i] \in Values
    BY <1>1 DEF Lists
  <2> HIDE DEF list
  <2> QED BY <1>2, <2>1 DEF IsMoved
<1>5. ASSUME NEW v \in Values, prog.block[v] = t, prog.kind[v] = "phi", SourceSlot(prog, slots, block, v) # slots[v]
      PROVE  \E i \in 1 .. Len(list) : idx[i] = v
  <2>1. IsMoved(t, v)
    BY <1>2, <1>5 DEF IsMoved
  <2> QED BY <1>1, <1>3, <2>1 DEF Lists
<1> HIDE DEF list
<1>6. Carries(prog, slots, block, list, t, idx)
  BY <1>0, <1>1, <1>4, <1>5 DEF Carries, list
<1> QED BY <1>6 DEF list

LEMMA TakeEdgePreserves == FrameInv /\ TakeEdge => FrameInv'
<1> SUFFICES ASSUME FrameInv, TakeEdge PROVE FrameInv'
  OBVIOUS
<1>1. PICK i \in 1 .. Len(prog.succ[block]) :
        /\ plan' = Moves(prog.succ[block][i])
        /\ todo' = DOMAIN plan'
        /\ source' = [j \in DOMAIN plan' |-> plan'[j].src]
        /\ local' = [j \in DOMAIN plan' |-> plan'[j].local]
        /\ target' = prog.succ[block][i]
  BY DEF TakeEdge
<1>2. /\ prog' = prog /\ slots' = slots /\ block' = block /\ mem' = mem /\ phase' = "edge"
      /\ temporary' = 0 /\ outgoing_size' = 0 /\ frame_size' = Outgoing + Align
      /\ start' = mem /\ status' = "copying"
  BY DEF TakeEdge
<1>3. prog \in Bodies /\ slots = Slot(prog) /\ block \in 1 .. Len(prog.succ) /\ mem \in [Addr -> Value]
  BY DEF FrameInv
<1>4. Passes(prog, block, target')
  BY <1>1 DEF Passes
<1>5. target' \in 1 .. Len(prog.succ) /\ target' \in Value
  <2>1. prog.succ[block][i] \in 2 .. Len(prog.succ) /\ Len(prog.succ) \in Nat
    BY <1>3, GraphFacts
  <2>2. 1 .. Len(prog.succ) \subseteq Value
    BY <1>3, BodiesAssumption
  <2> QED BY <1>1, <2>1, <2>2
<1>6. LegalPlan(plan')
  BY <1>1, <1>3, <1>4, MovesLegal
<1>7. \E idx : Carries(prog, slots, block, plan', target', idx)
  BY <1>1, <1>3, MovesCarry
<1>8. DOMAIN plan' = 1 .. Len(plan') /\ todo' = 1 .. Len(plan')
  BY <1>1, <1>6 DEF LegalPlan
<1>9. \A j \in 1 .. Len(plan') : plan'[j].src \in Addr /\ plan'[j].local \in BOOLEAN
  <2> TAKE j \in 1 .. Len(plan')
  <2>1. plan'[j] \in Move
    BY <1>6 DEF LegalPlan, LegalMove
  <2> QED BY <2>1 DEF Move
<1>10. TypeOK'
  <2>1. source' \in [1 .. Len(plan') -> Addr] /\ local' \in [1 .. Len(plan') -> BOOLEAN]
    BY <1>1, <1>8, <1>9
  <2>2. frame_size' \in Nat
    BY <1>2, LayoutAssumption
  <2> QED BY <1>2, <1>3, <1>5, <1>6, <1>8, <2>1, <2>2 DEF TypeOK
<1>11. SourcesPlaced'
  BY <1>1, <1>8 DEF SourcesPlaced
<1>12. FrameHolds'
  BY <1>2, LayoutAssumption DEF FrameHolds, Reserved
<1>13. PendingIntact' /\ Arrived'
  BY <1>1, <1>2, <1>8 DEF PendingIntact, Arrived
<1>14. Untouched'
  BY <1>2 DEF Untouched
<1>15. Inv'
  BY <1>2, <1>10, <1>11, <1>12, <1>13, <1>14 DEF Inv
<1>16. OnEdge'
  BY <1>2, <1>4, <1>5, <1>7, <1>15 DEF OnEdge
<1> QED BY <1>2, <1>6, <1>16 DEF FrameInv

\* The copies of an edge leave the constant and the pc alone.
LEMMA EdgeKeepsLow ==
  ASSUME Inv, EmitCopy \/ BreakCycle
  PROVE  /\ \A x \in Addr : x < 1 => mem'[x] = mem[x]
         /\ plan' = plan /\ start' = start /\ target' = target /\ (status' = status \/ status' = "error")
<1>0. Outgoing \in Nat /\ PcBytes = 1 /\ Addr \subseteq Int /\ temporary \in Nat /\ LegalPlan(plan) /\ Outgoing > 0
  BY LowAddresses DEF Inv, TypeOK
<1>1. CASE EmitCopy
  <2>1. PICK i \in todo : mem' = Copy(mem, plan[i].dst, source[i], plan[i].bytes)
    BY <1>1 DEF EmitCopy
  <2>2. i \in 1 .. Len(plan)
    BY DEF Inv, TypeOK
  <2>3. plan[i].dst \in Int /\ PcBytes <= plan[i].dst
    BY <1>0, <2>2, PlanFacts
  <2>4. \A x \in Addr : x < 1 => mem'[x] = mem[x]
    <3> DEFINE to == plan[i].dst
    <3>0. to \in Int /\ 1 <= to
      BY <1>0, <2>3
    <3> HIDE DEF to
    <3>1. \A x \in Addr : x < 1 => ~(to <= x)
      BY <1>0, <3>0
    <3> QED BY <2>1, <3>1 DEF Copy, to
  <2> QED BY <1>1, <2>4 DEF EmitCopy
<1>2. CASE BreakCycle
  <2>1. PICK i \in todo : GiveUp \/ SaveSource(i)
    BY <1>2 DEF BreakCycle
  <2>2. CASE GiveUp
    BY <2>2 DEF GiveUp
  <2>3. CASE SaveSource(i)
    <3>1. mem' = Copy(mem, Outgoing + temporary, source[i], plan[i].bytes)
      BY <2>3 DEF SaveSource
    <3>2. \A x \in Addr : x < 1 => ~(Outgoing + temporary <= x)
      BY <1>0
    <3>3. \A x \in Addr : x < 1 => mem'[x] = mem[x]
      BY <3>1, <3>2 DEF Copy
    <3> QED BY <2>3, <3>3 DEF SaveSource
  <2> QED BY <2>1, <2>2, <2>3
<1> QED BY <1>1, <1>2

LEMMA CopyPhiPreserves == FrameInv /\ CopyPhi => FrameInv'
<1> SUFFICES ASSUME FrameInv, CopyPhi PROVE FrameInv'
  OBVIOUS
<1>1. /\ phase = "edge" /\ (EmitCopy \/ BreakCycle)
      /\ prog' = prog /\ slots' = slots /\ block' = block /\ phase' = phase
  BY DEF CopyPhi
<1>2. OnEdge
  BY <1>1 DEF FrameInv
<1>3. Inv
  BY <1>2 DEF OnEdge
<1>4. Inv'
  BY <1>1, <1>3, EmitPreserves, BreakPreserves
<1>5. /\ \A x \in Addr : x < 1 => mem'[x] = mem[x]
      /\ plan' = plan /\ start' = start /\ target' = target /\ (status' = status \/ status' = "error")
  BY <1>1, <1>3, EdgeKeepsLow
<1>6. mem'[0] = mem[0] /\ mem'[ConstantSlot] = mem[ConstantSlot]
  BY <1>5, LowAddresses
<1>7. mem' \in [Addr -> Value]
  BY <1>4 DEF Inv, TypeOK
<1>8. status' # "branched"
  BY <1>2, <1>5 DEF OnEdge
<1>9. OnEdge'
  BY <1>1, <1>2, <1>4, <1>5, <1>8 DEF OnEdge
<1> QED BY <1>1, <1>5, <1>6, <1>7, <1>9 DEF FrameInv

LEMMA JumpPreserves == FrameInv /\ Jump => FrameInv'
<1> SUFFICES ASSUME FrameInv, Jump PROVE FrameInv'
  OBVIOUS
<1>1. /\ phase = "edge" /\ Branch /\ phase' = "loop"
      /\ prog' = prog /\ slots' = slots /\ block' = block
  BY DEF Jump
<1>2. OnEdge
  BY <1>1 DEF FrameInv
<1>3. mem' = [a \in Addr |-> IF 0 <= a /\ a < PcBytes THEN target ELSE mem[a]] /\ plan' = plan
  BY <1>1 DEF Branch
<1>4. target \in 1 .. Len(prog.succ) /\ target \in Value
  BY <1>2 DEF OnEdge, Inv, TypeOK
<1>5. mem'[0] = target /\ mem'[ConstantSlot] = mem[ConstantSlot]
  BY <1>3, LowAddresses
<1>6. mem' \in [Addr -> Value]
  BY <1>3, <1>4 DEF FrameInv
<1>7. mem'[0] \in 0 .. Len(prog.succ)
  <2>1. Len(prog.succ) \in Nat
    BY GraphFacts DEF FrameInv
  <2> QED BY <1>4, <1>5, <2>1
<1> QED BY <1>1, <1>3, <1>5, <1>6, <1>7 DEF FrameInv

LEMMA ReturnPreserves == FrameInv /\ Return => FrameInv'
<1> SUFFICES ASSUME FrameInv, Return PROVE FrameInv'
  OBVIOUS
<1>1. /\ mem' = [mem EXCEPT ![0] = 0] /\ phase' = "loop"
      /\ prog' = prog /\ slots' = slots /\ block' = block /\ plan' = plan
  BY DEF Return, edgeVars
<1>2. mem \in [Addr -> Value] /\ 0 \in Value /\ Len(prog.succ) \in Nat
  BY BodiesAssumption, GraphFacts DEF FrameInv
<1>3. mem' \in [Addr -> Value] /\ mem'[0] = 0 /\ mem'[ConstantSlot] = mem[ConstantSlot]
  BY <1>1, <1>2, LowAddresses
<1>4. mem'[0] \in 0 .. Len(prog.succ)
  BY <1>2, <1>3
<1> QED BY <1>1, <1>3, <1>4 DEF FrameInv

LEMMA FrameInductive == FrameInv /\ [FrameNext]_frameVars => FrameInv'
<1> SUFFICES ASSUME FrameInv, [FrameNext]_frameVars PROVE FrameInv'
  OBVIOUS
<1>1. CASE UNCHANGED frameVars
  <2>1. /\ prog' = prog /\ slots' = slots /\ block' = block /\ phase' = phase /\ mem' = mem
        /\ plan' = plan /\ target' = target /\ status' = status /\ UNCHANGED vars
    BY <1>1 DEF frameVars, edgeVars, vars
  <2>2. OnEdge => OnEdge'
    <3>1. Inv => Inv'
      BY <2>1, Inductive
    <3> QED BY <2>1, <3>1 DEF OnEdge
  <2> QED BY <2>1, <2>2 DEF FrameInv
<1> QED BY <1>1, DispatchPreserves, ExecutePreserves, TakeEdgePreserves, CopyPhiPreserves, JumpPreserves,
           ReturnPreserves DEF FrameNext

LEMMA FrameAlways == FrameSpec => []FrameInv
<1> QED BY FrameInitHolds, FrameInductive, PTL DEF FrameSpec

\* Every list of moves a branch of a compiled body makes is legal: PhiEdge's
\* theorems cover it (layout, edge).
THEOREM FramePlansLegal == FrameSpec => []PlansLegal
<1>1. FrameInv => PlansLegal
  <2> SUFFICES ASSUME FrameInv PROVE PlansLegal
    OBVIOUS
  <2>1. \A v \in Values : Slot(prog)[v] \in PcBytes .. Outgoing - 1
    <3> TAKE v \in Values
    <3>1. Slot(prog)[v] \in Nat /\ 1 <= Slot(prog)[v] /\ Slot(prog)[v] + prog.size[v] <= Outgoing /\ prog.size[v] \in {1, 2}
      BY SlotPlaced DEF FrameInv
    <3> QED BY <3>1, LowAddresses
  <2>2. Slot(prog) \in [Values -> Nat]
    BY Rooted DEF FrameInv
  <2>3. slots \in [Values -> PcBytes .. Outgoing - 1]
    BY <2>1, <2>2 DEF FrameInv
  <2> QED BY <2>3 DEF FrameInv, PlansLegal, FrameOK
<1> QED BY <1>1, FrameAlways, PTL
-----------------------------------------------------------------------------
\* The values of SSA in the frame: what is available in block b, read from memory.
Avail(p, b, entry) ==
  {v \in 1 .. Len(p.kind) : p.block[v] \in p.dom[b] /\ (entry /\ p.block[v] = b => p.kind[v] = "phi")}
EnvOf(p, sl, b, entry, memory) ==
  [v \in Avail(p, b, entry) |-> [k \in 0 .. p.size[v] - 1 |-> memory[sl[v] + k]]]

LEMMA Viewpoints ==
  /\ phase = "loop" /\ mem[0] # 0 => AtBlock = mem[0] /\ Stage = "entered" /\ AbstractEnv = EnvOf(prog, slots, mem[0], TRUE, mem)
  /\ phase = "loop" /\ mem[0] = 0 => AtBlock = block /\ Stage = "returned" /\ AbstractEnv = <<>>
  /\ phase = "entry" => AtBlock = block /\ Stage = "entered" /\ AbstractEnv = EnvOf(prog, slots, block, TRUE, mem)
  /\ phase = "executed" => AtBlock = block /\ Stage = "executed" /\ AbstractEnv = EnvOf(prog, slots, block, FALSE, mem)
  /\ phase = "edge" => AtBlock = block /\ Stage = "executed" /\ AbstractEnv = EnvOf(prog, slots, block, FALSE, start)
<1>1. CASE phase = "loop" /\ mem[0] # 0
  BY <1>1 DEF AtBlock, Stage, AbstractEnv, Available, Values, EnvOf, Avail
<1>2. CASE phase = "loop" /\ mem[0] = 0
  BY <1>2 DEF AtBlock, Stage, AbstractEnv
<1>3. CASE phase = "entry"
  BY <1>3 DEF AtBlock, Stage, AbstractEnv, Available, Values, EnvOf, Avail
<1>4. CASE phase = "executed"
  BY <1>4 DEF AtBlock, Stage, AbstractEnv, Available, Values, EnvOf, Avail
<1>5. CASE phase = "edge"
  BY <1>5 DEF AtBlock, Stage, AbstractEnv, Available, Values, EnvOf, Avail
<1> QED BY <1>1, <1>2, <1>3, <1>4, <1>5

LEMMA ViewpointsNext ==
  /\ phase' = "loop" /\ mem'[0] # 0 => AtBlock' = mem'[0] /\ Stage' = "entered" /\ AbstractEnv' = EnvOf(prog', slots', mem'[0], TRUE, mem')
  /\ phase' = "loop" /\ mem'[0] = 0 => AtBlock' = block' /\ Stage' = "returned" /\ AbstractEnv' = <<>>
  /\ phase' = "entry" => AtBlock' = block' /\ Stage' = "entered" /\ AbstractEnv' = EnvOf(prog', slots', block', TRUE, mem')
  /\ phase' = "executed" => AtBlock' = block' /\ Stage' = "executed" /\ AbstractEnv' = EnvOf(prog', slots', block', FALSE, mem')
  /\ phase' = "edge" => AtBlock' = block' /\ Stage' = "executed" /\ AbstractEnv' = EnvOf(prog', slots', block', FALSE, start')
<1>1. CASE phase' = "loop" /\ mem'[0] # 0
  BY <1>1 DEF AtBlock, Stage, AbstractEnv, Available, Values, EnvOf, Avail
<1>2. CASE phase' = "loop" /\ mem'[0] = 0
  BY <1>2 DEF AtBlock, Stage, AbstractEnv
<1>3. CASE phase' = "entry"
  BY <1>3 DEF AtBlock, Stage, AbstractEnv, Available, Values, EnvOf, Avail
<1>4. CASE phase' = "executed"
  BY <1>4 DEF AtBlock, Stage, AbstractEnv, Available, Values, EnvOf, Avail
<1>5. CASE phase' = "edge"
  BY <1>5 DEF AtBlock, Stage, AbstractEnv, Available, Values, EnvOf, Avail
<1> QED BY <1>1, <1>2, <1>3, <1>4, <1>5

-----------------------------------------------------------------------------
Computed(outs, f, v) ==
  CASE prog.kind[v] = "op" -> [k \in 0 .. prog.size[v] - 1 |-> outs[v][k]]
    [] prog.kind[v] = "view" -> f[prog.from[v]]
    [] prog.kind[v] = "part" -> [k \in {0} |-> f[prog.from[v]][prog.off[v]]]
RunAfter(b, outs, f) ==
  [v \in {u \in 1 .. Len(prog.kind) : prog.block[u] \in prog.dom[b]} |->
     IF v \in DOMAIN AbstractEnv THEN AbstractEnv[v] ELSE Computed(outs, f, v)]

\* What an instruction of block b needs is available after it.
LEMMA OperandAvailable ==
  ASSUME prog \in Bodies, NEW b \in 1 .. Len(prog.succ), NEW v \in Avail(prog, b, FALSE), v \notin Avail(prog, b, TRUE)
  PROVE  /\ v \in Values /\ prog.block[v] = b /\ prog.kind[v] \in {"op", "view", "part"}
         /\ prog.kind[v] # "op" => /\ prog.from[v] \in Avail(prog, b, FALSE) /\ prog.from[v] \in Values
                                   /\ Rank(prog, prog.from[v]) < Rank(prog, v)
                                   /\ Slot(prog)[v] = Slot(prog)[prog.from[v]] + prog.off[v]
<1>0. Len(prog.kind) \in Nat /\ Values = 1 .. Len(prog.kind)
  BY BodyFacts DEF Values
<1>1. v \in Values /\ prog.block[v] = b /\ prog.kind[v] # "phi"
  BY <1>0 DEF Avail
<1>2. prog.kind[v] \in {"op", "view", "part"}
  BY <1>0, <1>1, BodyFacts
<1>3. ASSUME prog.kind[v] # "op"
      PROVE  /\ prog.from[v] \in Avail(prog, b, FALSE) /\ prog.from[v] \in Values
             /\ Rank(prog, prog.from[v]) < Rank(prog, v)
             /\ Slot(prog)[v] = Slot(prog)[prog.from[v]] + prog.off[v]
  <2>1. prog.kind[v] \in {"view", "part"}
    BY <1>2, <1>3
  <2>2. prog.from[v] \in Values /\ Earlier(prog, prog.from[v], v)
    BY <1>0, <1>1, <2>1, BodyFacts
  <2>3. prog.from[v] \in Avail(prog, b, FALSE)
    BY <1>0, <1>1, <2>2 DEF Avail, Earlier
  <2>4. Rank(prog, prog.from[v]) < Rank(prog, v)
    BY <1>0, <1>1, <2>2, RankFalls
  <2>5. Views(prog)[v] = [from |-> prog.from[v], off |-> prog.off[v]]
    BY <1>1, <2>1, ViewsLegal DEF LegalView
  <2>6. Views(prog)[v].from # 0
    BY <1>0, <2>2, <2>5
  <2>7. Slot(prog)[v] = Slot(prog)[prog.from[v]] + prog.off[v]
    <3>1. Slot(prog)[v] = Slot(prog)[Views(prog)[v].from] + Views(prog)[v].off
      BY <1>1, <2>6, Rooted
    <3>2. Views(prog)[v].from = prog.from[v] /\ Views(prog)[v].off = prog.off[v]
      BY <2>5
    <3> QED BY <3>1, <3>2
  <2> QED BY <2>2, <2>3, <2>4, <2>7
<1> QED BY <1>1, <1>2, <1>3

LEMMA EnvRuns ==
  ASSUME prog \in Bodies, slots = Slot(prog), mem \in [Addr -> Value], NEW b \in 1 .. Len(prog.succ),
         NEW outs \in Outcomes(b), NEW m, Ran(b, outs, m, Len(prog.kind)),
         AbstractEnv = EnvOf(prog, slots, b, TRUE, mem)
  PROVE  EnvOf(prog, slots, b, FALSE, m) = RunAfter(b, outs, EnvOf(prog, slots, b, FALSE, m))
<1> DEFINE E == EnvOf(prog, slots, b, FALSE, m)
           after == Avail(prog, b, FALSE)
           before == Avail(prog, b, TRUE)
           word(v) == [k \in 0 .. prog.size[v] - 1 |-> m[slots[v] + k]]
<1>0. Len(prog.kind) \in Nat /\ Values = 1 .. Len(prog.kind) /\ \A v \in Values : v <= Len(prog.kind)
  BY BodyFacts DEF Values
<1>1. /\ after = {u \in 1 .. Len(prog.kind) : prog.block[u] \in prog.dom[b]}
      /\ after \subseteq Values /\ before \subseteq after
  BY <1>0 DEF Avail
<1>2. DOMAIN AbstractEnv = before /\ \A v \in before : AbstractEnv[v] = [k \in 0 .. prog.size[v] - 1 |-> mem[slots[v] + k]]
  BY DEF EnvOf
<1>3. DOMAIN E = after /\ \A v \in after : E[v] = word(v)
  BY DEF EnvOf
<1>4. ASSUME NEW v \in before PROVE word(v) = AbstractEnv[v]
  <2>1. v \in Values /\ Dominates(prog, prog.block[v], b) /\ (prog.block[v] = b => prog.kind[v] = "phi")
    BY <1>0 DEF Avail, Dominates
  <2>2. /\ Slot(prog)[v] \in Nat /\ 1 <= Slot(prog)[v] /\ Slot(prog)[v] + prog.size[v] <= Outgoing
        /\ prog.size[v] \in {1, 2}
    BY <2>1, SlotPlaced
  <2>3. ASSUME NEW k \in 0 .. prog.size[v] - 1 PROVE m[Slot(prog)[v] + k] = mem[Slot(prog)[v] + k]
    <3>1. Slot(prog)[v] + k \in Addr
      BY <2>2, LayoutAssumption DEF Addr
    <3>2. ASSUME NEW w \in Values, IsOp(b, w) PROVE ~Holds(w, Slot(prog)[v] + k)
      <4>1. Views(prog)[w].from = 0
        BY <3>2, ViewsLegal DEF LegalView, NoView, IsOp
      <4>2. v # w
        BY <2>1, <3>2 DEF IsOp
      <4>3. Slot(prog)[v] + prog.size[v] <= Slot(prog)[w] \/ Slot(prog)[w] + prog.size[w] <= Slot(prog)[v]
        BY <2>1, <3>2, <4>1, <4>2, SlotsApart DEF IsOp
      <4>4. Slot(prog)[w] \in Nat /\ prog.size[w] \in {1, 2}
        BY SlotPlaced
      <4> QED BY <2>2, <4>3, <4>4 DEF Holds
    <3> QED BY <3>1, <3>2 DEF Ran
  <2>4. word(v) = [k \in 0 .. prog.size[v] - 1 |-> mem[slots[v] + k]]
    BY <2>3
  <2> QED BY <1>2, <2>4
<1>5. ASSUME NEW v \in after, v \notin before
      PROVE  word(v) = Computed(outs, E, v)
  <2>1. /\ v \in Values /\ prog.block[v] = b /\ prog.kind[v] \in {"op", "view", "part"}
        /\ prog.kind[v] # "op" => /\ prog.from[v] \in after /\ prog.from[v] \in Values
                                  /\ Slot(prog)[v] = Slot(prog)[prog.from[v]] + prog.off[v]
    BY <1>5, OperandAvailable
  <2>2. CASE prog.kind[v] = "op"
    <3>1. IsOp(b, v) /\ v <= Len(prog.kind)
      BY <1>0, <2>1, <2>2 DEF IsOp
    <3>2. \A k \in 0 .. prog.size[v] - 1 : m[Slot(prog)[v] + k] = outs[v][k]
      BY <2>1, <3>1 DEF Ran
    <3>3. word(v) = [k \in 0 .. prog.size[v] - 1 |-> outs[v][k]]
      BY <3>2
    <3> HIDE DEF word, E
    <3> QED BY <2>2, <3>3 DEF Computed
  <2>3. CASE prog.kind[v] = "view"
    <3>1. prog.from[v] \in after /\ Slot(prog)[v] = Slot(prog)[prog.from[v]] + prog.off[v] /\ prog.from[v] \in Values
      BY <2>1, <2>3
    <3>2. prog.off[v] = 0 /\ prog.size[prog.from[v]] = prog.size[v]
      BY <1>0, <2>1, <2>3, BodyFacts
    <3>3. Slot(prog)[v] = Slot(prog)[prog.from[v]]
      BY <3>1, <3>2, SlotPlaced
    <3>4. word(v) = word(prog.from[v])
      BY <3>2, <3>3
    <3> HIDE DEF word, E
    <3> QED BY <1>3, <2>3, <3>1, <3>4 DEF Computed
  <2>4. CASE prog.kind[v] = "part"
    <3>1. prog.from[v] \in after /\ Slot(prog)[v] = Slot(prog)[prog.from[v]] + prog.off[v] /\ prog.from[v] \in Values
      BY <2>1, <2>4
    <3>2. prog.off[v] \in 0 .. prog.size[prog.from[v]] - 1 /\ prog.size[v] = 1
      BY <1>0, <2>1, <2>4, BodyFacts
    <3>3. 0 .. prog.size[v] - 1 = {0}
      BY <3>2
    <3>4. Slot(prog)[v] \in Nat /\ Slot(prog)[v] + 0 = Slot(prog)[prog.from[v]] + prog.off[v]
      BY <2>1, <3>1, SlotPlaced
    <3>5. word(v) = [k \in {0} |-> m[Slot(prog)[prog.from[v]] + prog.off[v]]]
      BY <3>3, <3>4
    <3>6. word(prog.from[v])[prog.off[v]] = m[Slot(prog)[prog.from[v]] + prog.off[v]]
      BY <3>2
    <3> HIDE DEF word, E
    <3> QED BY <1>3, <2>4, <3>1, <3>5, <3>6 DEF Computed
  <2> HIDE DEF word, E
  <2> QED BY <2>1, <2>2, <2>3, <2>4
<1>6. \A v \in after : E[v] = RunAfter(b, outs, E)[v]
  <2> TAKE v \in after
  <2>1. RunAfter(b, outs, E)[v] =
          IF v \in before THEN AbstractEnv[v] ELSE Computed(outs, E, v)
    <3> HIDE DEF E
    <3> QED BY <1>1, <1>2 DEF RunAfter
  <2> HIDE DEF word, E
  <2> QED BY <1>3, <1>4, <1>5, <2>1
<1>7. E = [v \in after |-> E[v]] /\ RunAfter(b, outs, E) = [v \in after |-> RunAfter(b, outs, E)[v]]
  <2>1. E = [v \in after |-> E[v]]
    BY DEF EnvOf
  <2>2. RunAfter(b, outs, E) = [v \in after |-> RunAfter(b, outs, E)[v]]
    <3> HIDE DEF E
    <3> QED BY <1>1 DEF RunAfter
  <2> QED BY <2>1, <2>2
<1> HIDE DEF E
<1>8. E = RunAfter(b, outs, E)
  BY <1>6, <1>7
<1> QED BY <1>8 DEF E

\* What a block computes in SSA is what its instructions leave in the slots.
LEMMA RunIs ==
  ASSUME prog \in Bodies, slots = Slot(prog), mem \in [Addr -> Value], NEW b \in 1 .. Len(prog.succ),
         NEW outs \in Outcomes(b), NEW m, Ran(b, outs, m, Len(prog.kind)),
         AbstractEnv = EnvOf(prog, slots, b, TRUE, mem)
  PROVE  Ssa!Run(b, outs, EnvOf(prog, slots, b, FALSE, m))
<1> DEFINE E == EnvOf(prog, slots, b, FALSE, m)
<1>1. E = RunAfter(b, outs, E)
  BY EnvRuns
<1> HIDE DEF E
<1>2. Ssa!Run(b, outs, E)
  BY <1>1 DEF Ssa!Run, Ssa!Executed, Ssa!Values, RunAfter, Computed
<1> QED BY <1>2 DEF E

-----------------------------------------------------------------------------
\* The first block has no phis and only itself for a dominator.
LEMMA NothingEntered ==
  ASSUME NEW p \in Bodies
  PROVE  Avail(p, 1, TRUE) = {} /\ \A v \in 1 .. Len(p.kind) : ~(p.block[v] = 1 /\ p.kind[v] = "phi")
<1>1. \A v \in 1 .. Len(p.kind) : p.block[v] \in 1 .. Len(p.succ) /\ (p.kind[v] = "phi" => p.block[v] # 1)
  BY BodyFacts
<1>2. \A v \in 1 .. Len(p.kind) : p.block[v] \in p.dom[1] => p.block[v] = 1
  BY <1>1, EntryDominated DEF Dominates
<1> QED BY <1>1, <1>2 DEF Avail

LEMMA InitRefines == FrameInit => Ssa!Init
<1> SUFFICES ASSUME FrameInit PROVE Ssa!Init
  OBVIOUS
<1>1. FrameInv
  BY FrameInitHolds
<1>2. prog \in Bodies /\ block = 1 /\ phase = "loop" /\ result = <<>>
  BY DEF FrameInit
<1>3. mem[0] = 1
  BY LowAddresses DEF FrameInit
<1>4. AtBlock = 1 /\ Stage = "entered" /\ AbstractEnv = EnvOf(prog, slots, 1, TRUE, mem)
  BY <1>2, <1>3, Viewpoints
<1>5. AbstractEnv = [v \in {} |-> <<>>]
  BY <1>2, <1>4, NothingEntered DEF EnvOf
<1>6. Ssa!PhisOf(1) = {}
  BY <1>2, NothingEntered DEF Ssa!PhisOf, Ssa!Values
<1>7. AbstractEnv = [v \in Ssa!PhisOf(1) |-> <<>>]
  BY <1>5, <1>6
<1> QED BY <1>2, <1>4, <1>7 DEF Ssa!Init

LEMMA DispatchRefines == FrameInv /\ Dispatch => UNCHANGED Ssa!ssaVars
<1> SUFFICES ASSUME FrameInv, Dispatch PROVE UNCHANGED Ssa!ssaVars
  OBVIOUS
<1>1. block' = mem[0]
  BY DispatchPreserves
<1>2. /\ phase = "loop" /\ mem[0] # 0 /\ phase' = "entry"
      /\ prog' = prog /\ slots' = slots /\ mem' = mem /\ result' = result
  BY DEF Dispatch
<1>3. AtBlock' = AtBlock /\ Stage' = Stage /\ AbstractEnv' = AbstractEnv
  BY <1>1, <1>2, Viewpoints, ViewpointsNext
<1> QED BY <1>2, <1>3 DEF Ssa!ssaVars

LEMMA ExecuteRefines == FrameInv /\ Execute => Ssa!Execute
<1> SUFFICES ASSUME FrameInv, Execute PROVE Ssa!Execute
  OBVIOUS
<1>1. PICK outs \in Outcomes(block) : mem' = RunBlock(block, outs)
  BY DEF Execute
<1>2. prog \in Bodies /\ slots = Slot(prog) /\ mem \in [Addr -> Value] /\ block \in 1 .. Len(prog.succ)
  BY DEF FrameInv
<1>3. Ran(block, outs, mem', Len(prog.kind))
  BY <1>1, <1>2, BlockRan
<1>4. /\ phase = "entry" /\ phase' = "executed"
      /\ prog' = prog /\ slots' = slots /\ block' = block /\ result' = result
  BY DEF Execute
<1>5. AtBlock = block /\ Stage = "entered" /\ AbstractEnv = EnvOf(prog, slots, block, TRUE, mem)
  BY <1>4, Viewpoints
<1>6. AtBlock' = block /\ Stage' = "executed" /\ AbstractEnv' = EnvOf(prog, slots, block, FALSE, mem')
  BY <1>4, ViewpointsNext
<1>7. Ssa!Run(block, outs, AbstractEnv')
  BY <1>2, <1>3, <1>5, <1>6, RunIs
<1>8. outs \in Ssa!Outcomes(block)
  BY DEF Outcomes, Ssa!Outcomes, Values, Ssa!Values
<1>9. \E o \in Ssa!Outcomes(AtBlock) : Ssa!Run(AtBlock, o, AbstractEnv')
  BY <1>5, <1>7, <1>8
<1> QED BY <1>4, <1>5, <1>6, <1>9 DEF Ssa!Execute

LEMMA TakeEdgeRefines == FrameInv /\ TakeEdge => UNCHANGED Ssa!ssaVars
<1> SUFFICES ASSUME FrameInv, TakeEdge PROVE UNCHANGED Ssa!ssaVars
  OBVIOUS
<1>1. /\ phase = "executed" /\ phase' = "edge" /\ start' = mem
      /\ prog' = prog /\ slots' = slots /\ block' = block /\ result' = result
  BY DEF TakeEdge
<1>2. AtBlock' = AtBlock /\ Stage' = Stage /\ AbstractEnv' = AbstractEnv
  BY <1>1, Viewpoints, ViewpointsNext
<1> QED BY <1>1, <1>2 DEF Ssa!ssaVars

LEMMA CopyPhiRefines == FrameInv /\ CopyPhi => UNCHANGED Ssa!ssaVars
<1> SUFFICES ASSUME FrameInv, CopyPhi PROVE UNCHANGED Ssa!ssaVars
  OBVIOUS
<1>1. /\ phase = "edge" /\ phase' = "edge" /\ (EmitCopy \/ BreakCycle)
      /\ prog' = prog /\ slots' = slots /\ block' = block /\ result' = result
  BY DEF CopyPhi
<1>2. Inv
  BY <1>1 DEF FrameInv, OnEdge
<1>3. start' = start
  BY <1>1, <1>2, EdgeKeepsLow
<1>4. AtBlock' = AtBlock /\ Stage' = Stage /\ AbstractEnv' = AbstractEnv
  BY <1>1, <1>3, Viewpoints, ViewpointsNext
<1> QED BY <1>1, <1>4 DEF Ssa!ssaVars

LEMMA ReturnRefines == FrameInv /\ Return => Ssa!Return
<1> SUFFICES ASSUME FrameInv, Return PROVE Ssa!Return
  OBVIOUS
<1>1. /\ phase = "executed" /\ prog.succ[block] = <<>> /\ phase' = "loop" /\ mem' = [mem EXCEPT ![0] = 0]
      /\ prog' = prog /\ slots' = slots /\ block' = block
      /\ result' = LET n == IF prog.ret = 0 THEN 1 ELSE prog.size[prog.ret]
                   IN [k \in 0 .. n - 1 |-> mem[OperandSlot(prog.ret) + k]]
  BY DEF Return
<1>2. prog \in Bodies /\ slots = Slot(prog) /\ mem \in [Addr -> Value] /\ block \in 1 .. Len(prog.succ) /\ mem[ConstantSlot] = Constant
  BY DEF FrameInv
<1>3. mem'[0] = 0
  BY <1>1, <1>2, LowAddresses
<1>4. AtBlock = block /\ Stage = "executed" /\ AbstractEnv = EnvOf(prog, slots, block, FALSE, mem)
  BY <1>1, Viewpoints
<1>5. AtBlock' = block /\ Stage' = "returned" /\ AbstractEnv' = <<>>
  BY <1>1, <1>3, ViewpointsNext
<1>6. result' = Ssa!Worth(AbstractEnv, prog.ret)
  <2>1. CASE prog.ret = 0
    <3>1. OperandSlot(prog.ret) = -1 /\ mem[-1] = Constant
      BY <1>2, <2>1, LowAddresses DEF OperandSlot
    <3>2. result' = [k \in 0 .. 0 |-> mem[-1 + k]]
      BY <1>1, <2>1, <3>1
    <3>3. 0 .. 0 = {0} /\ -1 + 0 = -1
      OBVIOUS
    <3>4. result' = [k \in {0} |-> Constant]
      BY <3>1, <3>2, <3>3
    <3> QED BY <2>1, <3>4 DEF Ssa!Worth
  <2>2. CASE prog.ret # 0
    <3>1. prog.ret \in 1 .. Len(prog.kind) /\ prog.block[prog.ret] \in prog.dom[block]
      BY <1>1, <1>2, <2>2, BodyFacts
    <3>2. prog.ret \in Avail(prog, block, FALSE)
      BY <3>1 DEF Avail
    <3>3. AbstractEnv[prog.ret] = [k \in 0 .. prog.size[prog.ret] - 1 |-> mem[slots[prog.ret] + k]]
      BY <1>4, <3>2 DEF EnvOf
    <3>4. result' = [k \in 0 .. prog.size[prog.ret] - 1 |-> mem[slots[prog.ret] + k]]
      BY <1>1, <2>2 DEF OperandSlot
    <3> QED BY <2>2, <3>3, <3>4 DEF Ssa!Worth
  <2> QED BY <2>1, <2>2
<1> QED BY <1>1, <1>4, <1>5, <1>6 DEF Ssa!Return

\* What an edge moves has a slot of its own; everything else stays what it was.
LEMMA EdgeSpares ==
  ASSUME FrameInv, OnEdge, todo = {}, NEW idx, Carries(prog, slots, block, plan, target, idx),
         NEW v \in Values, Dominates(prog, prog.block[v], target), prog.block[v] = target => prog.kind[v] = "phi",
         \A i \in 1 .. Len(plan) : idx[i] # v,
         NEW k \in 0 .. prog.size[v] - 1
  PROVE  mem[slots[v] + k] = start[slots[v] + k]
<1>0. prog \in Bodies /\ slots = Slot(prog) /\ block \in 1 .. Len(prog.succ) /\ Passes(prog, block, target) /\ Inv
  BY DEF FrameInv, OnEdge
<1>1. /\ Slot(prog)[v] \in Nat /\ 1 <= Slot(prog)[v] /\ Slot(prog)[v] + prog.size[v] <= Outgoing
      /\ prog.size[v] \in {1, 2}
  BY <1>0, SlotPlaced
<1> DEFINE x == Slot(prog)[v] + k
<1>2. x \in Addr /\ x \in Nat /\ x < Outgoing /\ ~(0 <= x /\ x < PcBytes) /\ Slot(prog)[v] <= x /\ x < Slot(prog)[v] + prog.size[v]
  BY <1>1, LowAddresses, LayoutAssumption DEF Addr
<1> HIDE DEF x
<1>3. ASSUME NEW i \in 1 .. Len(plan)
      PROVE  ~(plan[i].dst <= x /\ x < plan[i].dst + plan[i].bytes)
  <2> DEFINE w == idx[i]
  <2>1. /\ w \in 1 .. Len(prog.kind) /\ prog.block[w] = target /\ prog.kind[w] = "phi"
        /\ plan[i].dst = slots[w] /\ plan[i].bytes = prog.size[w] /\ SourceSlot(prog, slots, block, w) # slots[w]
    BY DEF Carries
  <2> HIDE DEF w
  <2>2. w \in Values /\ v # w
    BY <2>1 DEF Values, w
  <2>3. IsMoved(target, w)
    BY <2>1 DEF IsMoved, MoveOf, OperandSlot, SourceSlot
  <2>4. Views(prog)[w].from = 0
    BY <1>0, <2>2, <2>3, MovedIsRoot
  <2>5. Slot(prog)[v] + prog.size[v] <= Slot(prog)[w] \/ Slot(prog)[w] + prog.size[w] <= Slot(prog)[v]
    BY <1>0, <2>1, <2>2, <2>4, SlotsApart
  <2>6. Slot(prog)[w] \in Nat /\ prog.size[w] \in {1, 2}
    BY <1>0, <2>2, SlotPlaced
  <2>7. ~(Slot(prog)[w] <= x /\ x < Slot(prog)[w] + prog.size[w])
    BY <1>1, <1>2, <2>5, <2>6
  <2> QED BY <1>0, <2>1, <2>7
<1>4. ~IsTarget(x)
  BY <1>3 DEF IsTarget
<1>5. mem[x] = start[x]
  BY <1>0, <1>2, <1>4 DEF Inv, Untouched
<1> QED BY <1>0, <1>5 DEF x

\* A phi holds what its incoming value held when the edge was entered.
LEMMA PhiArrives ==
  ASSUME FrameInv, OnEdge, todo = {}, NEW v \in Values, prog.block[v] = target, prog.kind[v] = "phi",
         NEW k \in 0 .. prog.size[v] - 1
  PROVE  mem[slots[v] + k] = start[SourceSlot(prog, slots, block, v) + k]
<1>0. prog \in Bodies /\ target \in 1 .. Len(prog.succ) /\ Inv
  BY DEF FrameInv, OnEdge
<1>1. PICK idx : Carries(prog, slots, block, plan, target, idx)
  BY DEF OnEdge
<1>2. v \in 1 .. Len(prog.kind)
  BY DEF Values
<1>3. CASE \E i \in 1 .. Len(plan) : idx[i] = v
  <2>1. PICK i \in 1 .. Len(plan) : idx[i] = v
    BY <1>3
  <2>2. plan[i].dst = slots[v] /\ plan[i].src = SourceSlot(prog, slots, block, v) /\ plan[i].bytes = prog.size[v]
    BY <1>1, <2>1 DEF Carries
  <2>3. mem[plan[i].dst + k] = start[plan[i].src + k]
    BY <1>0, <2>2 DEF Inv, Arrived
  <2> QED BY <2>2, <2>3
<1>4. CASE \A i \in 1 .. Len(plan) : idx[i] # v
  <2>1. SourceSlot(prog, slots, block, v) = slots[v]
    BY <1>1, <1>2, <1>4 DEF Carries
  <2>2. Dominates(prog, prog.block[v], target)
    BY <1>0, DominatesItself
  <2>3. mem[slots[v] + k] = start[slots[v] + k]
    BY <1>1, <1>4, <2>2, EdgeSpares
  <2> QED BY <2>1, <2>3
<1> QED BY <1>3, <1>4

LEMMA ConstantSpared ==
  ASSUME FrameInv, OnEdge
  PROVE  start[ConstantSlot] = Constant
<1>1. Inv /\ LegalPlan(plan) /\ mem[ConstantSlot] = Constant
  BY DEF FrameInv, OnEdge
<1>2. \A i \in 1 .. Len(plan) : plan[i].dst \in Int /\ PcBytes <= plan[i].dst
  BY <1>1, PlanFacts
<1>3. ~IsTarget(ConstantSlot)
  BY <1>2, LowAddresses DEF IsTarget
<1>4. ConstantSlot \in Addr /\ ConstantSlot < Outgoing /\ ~(0 <= ConstantSlot /\ ConstantSlot < PcBytes)
  BY LowAddresses
<1> QED BY <1>1, <1>3, <1>4 DEF Inv, Untouched

\* The edge is SSA's simultaneous assignment.
LEMMA JumpRefines == FrameInv /\ Jump => Ssa!Take
<1> SUFFICES ASSUME FrameInv, Jump PROVE Ssa!Take
  OBVIOUS
<1> DEFINE t == target
           env == AbstractEnv
           now == EnvOf(prog, slots, t, TRUE, mem')
           taken == [v \in Ssa!Entered(t) |-> IF v \in Ssa!PhisOf(t) THEN Ssa!Worth(env, prog.incoming[v][block]) ELSE env[v]]
           word(v) == [k \in 0 .. prog.size[v] - 1 |-> mem'[slots[v] + k]]
<1>1. /\ phase = "edge" /\ Branch /\ phase' = "loop"
      /\ prog' = prog /\ slots' = slots /\ block' = block /\ result' = result
  BY DEF Jump
<1>2. OnEdge
  BY <1>1 DEF FrameInv
<1>3. /\ prog \in Bodies /\ slots = Slot(prog) /\ block \in 1 .. Len(prog.succ) /\ mem \in [Addr -> Value]
      /\ t \in 1 .. Len(prog.succ) /\ Passes(prog, block, t)
  BY <1>2 DEF FrameInv, OnEdge
<1>4. todo = {} /\ mem' = [a \in Addr |-> IF 0 <= a /\ a < PcBytes THEN t ELSE mem[a]]
  BY <1>1 DEF Branch
<1>5. mem'[0] = t /\ t # 0
  <2>1. Len(prog.succ) \in Nat
    BY <1>3, GraphFacts
  <2> QED BY <1>3, <1>4, <2>1, LowAddresses
<1>6. AtBlock = block /\ Stage = "executed" /\ env = EnvOf(prog, slots, block, FALSE, start)
  BY <1>1, Viewpoints
<1>7. AtBlock' = t /\ Stage' = "entered" /\ AbstractEnv' = now
  BY <1>1, <1>5, ViewpointsNext
<1>8. Len(prog.kind) \in Nat /\ Values = 1 .. Len(prog.kind) /\ Ssa!Values = 1 .. Len(prog.kind)
  BY <1>3, BodyFacts DEF Values, Ssa!Values
<1>9. Ssa!PhisOf(t) = {v \in Values : prog.block[v] = t /\ prog.kind[v] = "phi"}
  BY <1>8 DEF Ssa!PhisOf
<1>10. Avail(prog, t, TRUE) = Ssa!Entered(t)
  <2>1. t \in prog.dom[t]
    BY <1>3, DominatesItself DEF Dominates
  <2> QED BY <1>8, <1>9, <2>1 DEF Avail, Ssa!Entered
<1>11. ASSUME NEW v \in Values, NEW k \in 0 .. prog.size[v] - 1
       PROVE  mem'[slots[v] + k] = mem[slots[v] + k]
  <2>1. /\ Slot(prog)[v] \in Nat /\ 1 <= Slot(prog)[v] /\ Slot(prog)[v] + prog.size[v] <= Outgoing
        /\ prog.size[v] \in {1, 2}
    BY <1>3, SlotPlaced
  <2>2. Slot(prog)[v] + k \in Addr /\ ~(0 <= Slot(prog)[v] + k /\ Slot(prog)[v] + k < PcBytes)
    BY <2>1, LowAddresses, LayoutAssumption DEF Addr
  <2> QED BY <1>3, <1>4, <2>2
<1>12. ASSUME NEW v \in Values, prog.block[v] = t, prog.kind[v] = "phi"
       PROVE  word(v) = Ssa!Worth(env, prog.incoming[v][block])
  <2> DEFINE operand == prog.incoming[v][block]
  <2>1. \A k \in 0 .. prog.size[v] - 1 : mem'[slots[v] + k] = start[SourceSlot(prog, slots, block, v) + k]
    BY <1>2, <1>4, <1>11, <1>12, PhiArrives
  <2>2. Passes(prog, block, prog.block[v])
    BY <1>3, <1>12
  <2>3. \/ operand = 0 /\ prog.size[v] = 1
        \/ /\ operand \in Values /\ operand # 0
           /\ Dominates(prog, prog.block[operand], block) /\ prog.size[operand] = prog.size[v]
    BY <1>3, <1>12, <2>2, IncomingProvided
  <2>4. CASE operand = 0 /\ prog.size[v] = 1
    <3>1. SourceSlot(prog, slots, block, v) = -1
      BY <2>4, LowAddresses DEF SourceSlot
    <3>2. 0 .. prog.size[v] - 1 = {0} /\ -1 + 0 = -1
      BY <2>4
    <3>3. start[-1] = Constant
      BY <1>2, ConstantSpared, LowAddresses
    <3>4. \A k \in {0} : mem'[slots[v] + k] = Constant
      BY <2>1, <3>1, <3>2, <3>3
    <3>5. word(v) = [k \in {0} |-> Constant]
      BY <3>2, <3>4
    <3> HIDE DEF word
    <3> QED BY <2>4, <3>5 DEF Ssa!Worth
  <2>5. CASE /\ operand \in Values /\ operand # 0
             /\ Dominates(prog, prog.block[operand], block) /\ prog.size[operand] = prog.size[v]
    <3>1. SourceSlot(prog, slots, block, v) = slots[operand]
      BY <2>5 DEF SourceSlot
    <3>2. operand \in Avail(prog, block, FALSE)
      BY <1>8, <2>5 DEF Avail, Dominates
    <3> HIDE DEF operand
    <3>3. env[operand] = [k \in 0 .. prog.size[v] - 1 |-> start[slots[operand] + k]]
      BY <1>6, <2>5, <3>2 DEF EnvOf
    <3>4. word(v) = [k \in 0 .. prog.size[v] - 1 |-> start[slots[operand] + k]]
      BY <2>1, <3>1
    <3> HIDE DEF word, env
    <3>5. word(v) = Ssa!Worth(env, operand)
      BY <2>5, <3>3, <3>4 DEF Ssa!Worth
    <3> QED BY <3>5 DEF operand
  <2> QED BY <2>3, <2>4, <2>5
<1>13. ASSUME NEW v \in Avail(prog, t, TRUE), v \notin Ssa!PhisOf(t)
       PROVE  word(v) = env[v]
  <2>1. v \in Values /\ Dominates(prog, prog.block[v], t) /\ prog.block[v] # t
    BY <1>8, <1>9, <1>13 DEF Avail, Dominates
  <2>2. PICK idx : Carries(prog, slots, block, plan, target, idx)
    BY <1>2 DEF OnEdge
  <2>3. \A i \in 1 .. Len(plan) : idx[i] # v
    BY <2>1, <2>2 DEF Carries
  <2>4. \A k \in 0 .. prog.size[v] - 1 : mem[slots[v] + k] = start[slots[v] + k]
    BY <1>2, <1>4, <2>1, <2>2, <2>3, EdgeSpares
  <2>5. Dominates(prog, prog.block[v], block)
    <3>1. PICK i \in 1 .. Len(prog.succ[block]) : prog.succ[block][i] = t
      BY <1>3 DEF Passes
    <3>2. prog.block[v] \in 1 .. Len(prog.succ)
      BY <1>3, <1>8, <2>1, BodyFacts
    <3> QED BY <1>3, <2>1, <3>1, <3>2, DominatesBefore
  <2>6. v \in Avail(prog, block, FALSE)
    BY <1>8, <2>1, <2>5 DEF Avail, Dominates
  <2>7. env[v] = [k \in 0 .. prog.size[v] - 1 |-> start[slots[v] + k]]
    BY <1>6, <2>6 DEF EnvOf
  <2>8. word(v) = [k \in 0 .. prog.size[v] - 1 |-> start[slots[v] + k]]
    BY <1>11, <2>1, <2>4
  <2> QED BY <2>7, <2>8
<1>14. now = taken
  <2>1. now = [v \in Avail(prog, t, TRUE) |-> word(v)]
    BY DEF EnvOf
  <2>2. ASSUME NEW v \in Avail(prog, t, TRUE)
        PROVE  word(v) = IF v \in Ssa!PhisOf(t) THEN Ssa!Worth(env, prog.incoming[v][block]) ELSE env[v]
    <3>1. v \in Ssa!PhisOf(t) => v \in Values /\ prog.block[v] = t /\ prog.kind[v] = "phi"
      BY <1>9
    <3> HIDE DEF word, env, t
    <3> QED BY <1>12, <1>13, <3>1
  <2> HIDE DEF word, env, now
  <2> QED BY <1>10, <2>1, <2>2
<1>15. \E i \in 1 .. Len(prog.succ[block]) : prog.succ[block][i] = t
  BY <1>3 DEF Passes
<1>16. AbstractEnv' = taken /\ AtBlock' = t /\ AtBlock = block /\ Stage = "executed" /\ Stage' = "entered"
  BY <1>6, <1>7, <1>14
<1>17. \E i \in 1 .. Len(prog.succ[AtBlock]) : LET u == prog.succ[AtBlock][i] IN
         /\ AbstractEnv' = [v \in Ssa!Entered(u) |-> IF v \in Ssa!PhisOf(u) THEN Ssa!Worth(AbstractEnv, prog.incoming[v][AtBlock])
                                                     ELSE AbstractEnv[v]]
         /\ AtBlock' = u
  <2>1. PICK i \in 1 .. Len(prog.succ[AtBlock]) : prog.succ[AtBlock][i] = t
    BY <1>15, <1>16
  <2> HIDE DEF now, t
  <2> QED BY <1>16, <2>1
<1> HIDE DEF now, t, taken, env
<1> QED BY <1>1, <1>16, <1>17 DEF Ssa!Take

LEMMA StepRefines == FrameInv /\ [FrameNext]_frameVars => [Ssa!Next]_Ssa!ssaVars
<1> SUFFICES ASSUME FrameInv, [FrameNext]_frameVars PROVE [Ssa!Next]_Ssa!ssaVars
  OBVIOUS
<1>1. CASE UNCHANGED frameVars
  <2>1. /\ prog' = prog /\ slots' = slots /\ block' = block /\ phase' = phase /\ result' = result
        /\ mem' = mem /\ start' = start
    BY <1>1 DEF frameVars, edgeVars
  <2>2. phase \in {"loop", "entry", "executed", "edge"}
    BY DEF FrameInv
  <2>3. AtBlock' = AtBlock /\ Stage' = Stage /\ AbstractEnv' = AbstractEnv
    BY <2>1, <2>2, Viewpoints, ViewpointsNext
  <2> QED BY <2>1, <2>3 DEF Ssa!ssaVars
<1>2. CASE Dispatch \/ TakeEdge \/ CopyPhi
  BY <1>2, DispatchRefines, TakeEdgeRefines, CopyPhiRefines
<1>3. CASE Execute
  BY <1>3, ExecuteRefines DEF Ssa!Next
<1>4. CASE Jump
  BY <1>4, JumpRefines DEF Ssa!Next
<1>5. CASE Return
  BY <1>5, ReturnRefines DEF Ssa!Next
<1> QED BY <1>1, <1>2, <1>3, <1>4, <1>5 DEF FrameNext

\* A compiled body is its function: for every body in SSA form, frame size and
\* alignment, what the block loop leaves in the slots at each block is what
\* LLVM's semantics gives the values that are available there, and it returns
\* the same result (layout, emit_function, edge).
THEOREM FrameImplementsSsa == FrameSpec => ImplementsSsa
<1> QED BY FrameAlways, InitRefines, StepRefines, PTL DEF FrameSpec, ImplementsSsa, Ssa!Spec

-----------------------------------------------------------------------------
(* Templates.  Lists of operations are unfolded by depth, and along a list. *)

ParsedOperation(branches) ==
  [op : STRING, assign : BOOLEAN, bare : BOOLEAN, reads : SUBSET Nat, branches : branches]

LEMMA NestingBounded == MaxNesting \in Nat
BY AssemblyAssumption

LEMMA ListsOfDepth ==
  \A d \in 0 .. MaxNesting :
    StatementLists[d] = Seq(ParsedOperation(IF d = 0 THEN {<<>>} ELSE Seq(StatementLists[d - 1])))
<1> DEFINE N == MaxNesting
           Body(f, d) == Seq(ParsedOperation(IF d = 0 THEN {<<>>} ELSE Seq(f[d - 1])))
           All(f) == [d \in 0..N |-> Body(f, d)]
           s == CHOOSE f : f = All(f)
           T == {n \in 0..N : \E f : \A d \in 0..n : f[d] = Body(f, d)}
<1>0. N \in Nat
  BY NestingBounded
<1>1. StatementLists = s
  BY DEF StatementLists, ParsedOperation
<1>2. 0 \in T
  <2> DEFINE f == [d \in 0..0 |-> Body(<<>>, d)]
  <2>1. f[0] = Body(f, 0)
    OBVIOUS
  <2>2. \A d \in 0..0 : f[d] = Body(f, d)
    <3> HIDE DEF f, Body
    <3> QED BY <2>1
  <2> HIDE DEF f, Body
  <2> QED BY <1>0, <2>2
<1>3. ASSUME NEW n \in 1..N, n - 1 \in T PROVE n \in T
  <2>1. PICK f : \A d \in 0 .. n - 1 : f[d] = Body(f, d)
    BY <1>3
  <2> DEFINE g == [d \in 0..n |-> Body(f, d)]
  <2>2. ASSUME NEW d \in 0..n PROVE g[d] = Body(g, d)
    <3>1. d # 0 => d - 1 \in 0 .. n - 1 /\ d - 1 \in 0 .. n
      BY <1>0
    <3>2. d # 0 => f[d - 1] = g[d - 1]
      <4> HIDE DEF Body
      <4> QED BY <2>1, <3>1
    <3>3. Body(f, d) = Body(g, d)
      <4> HIDE DEF g
      <4> QED BY <3>2
    <3>4. g[d] = Body(f, d)
      <4> HIDE DEF Body
      <4> QED OBVIOUS
    <3> QED BY <3>3, <3>4
  <2> HIDE DEF g, Body
  <2> QED BY <2>2
<1>4. N \in T
  <2> HIDE DEF T
  <2>1. \A n \in 0..N : n \in T
    BY <1>0, <1>2, <1>3, CountedInduction
  <2> QED BY <1>0, <2>1
<1>5. PICK f : \A d \in 0..N : f[d] = Body(f, d)
  BY <1>4
<1> DEFINE g == [d \in 0..N |-> f[d]]
<1>6. g = All(g)
  <2>1. \A d \in 0..N : d # 0 => d - 1 \in 0..N
    BY <1>0
  <2>2. ASSUME NEW d \in 0..N PROVE Body(f, d) = Body(g, d)
    <3>1. d # 0 => f[d - 1] = g[d - 1]
      BY <2>1
    <3> HIDE DEF g
    <3> QED BY <3>1
  <2> HIDE DEF Body
  <2> QED BY <1>5, <2>2
<1>7. s = All(s)
  <2> HIDE DEF All, g
  <2> QED BY <1>6
<1>8. \A d \in 0..N : s[d] = Body(s, d)
  <2> HIDE DEF Body, s
  <2>1. \A d \in 0..N : All(s)[d] = Body(s, d)
    OBVIOUS
  <2> HIDE DEF All
  <2> QED BY <1>7, <2>1
<1> HIDE DEF s
<1> QED BY <1>1, <1>8

\* What one operation does to what is known, and a list of them, in turn.
Effected(o, a, known, inner) == Stepped(o, a, known, [j \in DOMAIN o.branches |-> inner[o.branches[j]][known]])
PassesAlong(f, l, a, first, inner) ==
  /\ f \in [0 .. Len(l) -> Knowledge]
  /\ f[0] = first
  /\ \A i \in 1 .. Len(l) : f[i] = Effected(l[i], a, f[i - 1], inner)

LEMMA EffectKnown ==
  ASSUME NEW o, NEW a, NEW known \in Knowledge, NEW inner
  PROVE  Effected(o, a, known, inner) \in Knowledge
BY DEF Effected, Stepped, After, Knowledge

LEMMA SequencedPasses ==
  ASSUME NEW l, Len(l) \in Nat, NEW a, NEW first \in Knowledge, NEW inner
  PROVE  \E f : PassesAlong(f, l, a, first, inner) /\ Sequenced(l, a, first, inner) = f[Len(l)]
<1> DEFINE N == Len(l)
           All(f) == [i \in 0..N |-> IF i = 0 THEN first ELSE Effected(l[i], a, f[i - 1], inner)]
           G == [i \in 1..N |-> [k \in Knowledge |-> Effected(l[i], a, k, inner)]]
           s == CHOOSE f : f = All(f)
<1>1. Sequenced(l, a, first, inner) = s[N]
  BY DEF Sequenced, Effected
<1>2. G \in [1..N -> [Knowledge -> Knowledge]]
  BY EffectKnown
<1>3. PICK g \in [0..N -> Knowledge] : SolvesCounted(g, N, first, G)
  <2> HIDE DEF G
  <2>1. Counted(N, Knowledge, first, G)
    BY <1>2 DEF Counted
  <2> QED BY <2>1, CountedSolved
<1>4. \A i \in 0..N : i # 0 => i - 1 \in 0..N /\ i \in 1..N
  OBVIOUS
<1>5. \A i \in 0..N : g[i] = IF i = 0 THEN first ELSE Effected(l[i], a, g[i - 1], inner)
  <2> TAKE i \in 0..N
  <2>1. g[i] = IF i = 0 THEN first ELSE G[i][g[i - 1]]
    BY <1>3 DEF SolvesCounted
  <2>2. i # 0 => G[i][g[i - 1]] = Effected(l[i], a, g[i - 1], inner)
    BY <1>4
  <2> HIDE DEF G
  <2> QED BY <2>1, <2>2
<1>6. g = All(g)
  <2>1. g = [i \in 0..N |-> g[i]]
    OBVIOUS
  <2> QED BY <1>5, <2>1, Zenon
<1>7. s = All(s)
  <2> HIDE DEF All
  <2> QED BY <1>6
<1> HIDE DEF s, G
<1>8. \A i \in 0..N : s[i] = IF i = 0 THEN first ELSE Effected(l[i], a, s[i - 1], inner)
  <2>1. \A i \in 0..N : All(s)[i] = IF i = 0 THEN first ELSE Effected(l[i], a, s[i - 1], inner)
    OBVIOUS
  <2> HIDE DEF All
  <2> QED BY <1>7, <2>1
<1>9. \A i \in 0..N : s[i] \in Knowledge
  <2> DEFINE T == {i \in 0..N : s[i] \in Knowledge}
  <2>1. 0 \in T
    BY <1>8
  <2>2. ASSUME NEW i \in 1..N, i - 1 \in T PROVE i \in T
    <3>1. s[i] = Effected(l[i], a, s[i - 1], inner) /\ s[i - 1] \in Knowledge
      BY <1>8, <2>2
    <3> QED BY <3>1, EffectKnown
  <2>3. \A i \in 0..N : i \in T
    <3> HIDE DEF T
    <3> QED BY <2>1, <2>2, CountedInduction
  <2> QED BY <2>3
<1>10. s \in [0..N -> Knowledge]
  <2>1. s = [i \in 0..N |-> s[i]]
    <3>1. All(s) = [i \in 0..N |-> All(s)[i]]
      OBVIOUS
    <3> HIDE DEF All
    <3> QED BY <1>7, <3>1
  <2> QED BY <1>9, <2>1
<1>11. PassesAlong(s, l, a, first, inner)
  <2>1. \A i \in 1..N : i \in 0..N /\ i # 0
    OBVIOUS
  <2> QED BY <1>8, <1>10, <2>1 DEF PassesAlong
<1> QED BY <1>1, <1>11

LEMMA PassesAlike ==
  ASSUME NEW l, Len(l) \in Nat, NEW a, NEW first \in Knowledge, NEW inner, NEW f, NEW g,
         PassesAlong(f, l, a, first, inner), PassesAlong(g, l, a, first, inner)
  PROVE  f[Len(l)] = g[Len(l)]
<1> DEFINE N == Len(l)
           T == {i \in 0..N : f[i] = g[i]}
<1>1. 0 \in T
  BY DEF PassesAlong
<1>2. ASSUME NEW i \in 1..N, i - 1 \in T PROVE i \in T
  BY <1>2 DEF PassesAlong
<1>3. \A i \in 0..N : i \in T
  <2> HIDE DEF T
  <2> QED BY <1>1, <1>2, CountedInduction
<1> QED BY <1>3

\* A list is its first operation, then the rest.
LEMMA SequencedRest ==
  ASSUME NEW X, NEW l \in Seq(X), l # <<>>, NEW a, NEW first \in Knowledge, NEW inner
  PROVE  Sequenced(l, a, first, inner) = Sequenced(Tail(l), a, Effected(Head(l), a, first, inner), inner)
<1> DEFINE N == Len(l)
           k == Effected(Head(l), a, first, inner)
           t == Tail(l)
<1>1. N \in Nat /\ N > 0 /\ Len(t) = N - 1 /\ Len(t) \in Nat /\ Head(l) = l[1] /\ k \in Knowledge
      /\ \A i \in 1 .. N - 1 : t[i] = l[i + 1]
  BY EffectKnown
<1> HIDE DEF k, t
<1>2. PICK f : PassesAlong(f, l, a, first, inner) /\ Sequenced(l, a, first, inner) = f[N]
  BY <1>1, SequencedPasses
<1>3. PICK g : PassesAlong(g, t, a, k, inner) /\ Sequenced(t, a, k, inner) = g[N - 1]
  BY <1>1, SequencedPasses
<1> DEFINE h == [i \in 0 .. N - 1 |-> f[i + 1]]
<1>4. PassesAlong(h, t, a, k, inner)
  <2>1. h \in [0 .. N - 1 -> Knowledge]
    BY <1>1, <1>2 DEF PassesAlong
  <2>2. h[0] = k
    <3>1. f[1] = Effected(l[1], a, f[0], inner) /\ f[0] = first /\ h[0] = f[1]
      BY <1>1, <1>2 DEF PassesAlong
    <3> QED BY <1>1, <3>1 DEF k
  <2>3. ASSUME NEW i \in 1 .. N - 1 PROVE h[i] = Effected(t[i], a, h[i - 1], inner)
    <3>1. i + 1 \in 1 .. N /\ i + 1 - 1 = i /\ i - 1 + 1 = i /\ i \in 0 .. N - 1 /\ i - 1 \in 0 .. N - 1
      BY <1>1
    <3>2. f[i + 1] = Effected(l[i + 1], a, f[i], inner)
      BY <1>2, <3>1 DEF PassesAlong
    <3>3. h[i] = f[i + 1] /\ h[i - 1] = f[i] /\ t[i] = l[i + 1]
      BY <1>1, <3>1
    <3> QED BY <3>2, <3>3
  <2> HIDE DEF h
  <2> QED BY <1>1, <2>1, <2>2, <2>3 DEF PassesAlong
<1>5. h[N - 1] = f[N]
  BY <1>1
<1>6. h[N - 1] = g[N - 1]
  <2> HIDE DEF h
  <2> QED BY <1>1, <1>3, <1>4, PassesAlike
<1> QED BY <1>2, <1>3, <1>5, <1>6 DEF k, t

LEMMA SequencedNone ==
  ASSUME NEW a, NEW first \in Knowledge, NEW inner
  PROVE  Sequenced(<<>>, a, first, inner) = first
<1>1. Len(<<>>) = 0
  OBVIOUS
<1>2. PICK f : PassesAlong(f, <<>>, a, first, inner) /\ Sequenced(<<>>, a, first, inner) = f[0]
  BY <1>1, SequencedPasses
<1> QED BY <1>2 DEF PassesAlong

\* What is rejected stays so.
LEMMA SequencedRejected ==
  ASSUME NEW X, NEW l \in Seq(X), NEW a, NEW inner
  PROVE  Sequenced(l, a, "rejected", inner) = "rejected"
<1>1. Len(l) \in Nat /\ "rejected" \in Knowledge
  BY DEF Knowledge
<1>2. PICK f : PassesAlong(f, l, a, "rejected", inner) /\ Sequenced(l, a, "rejected", inner) = f[Len(l)]
  BY <1>1, SequencedPasses
<1> DEFINE N == Len(l)
           T == {i \in 0..N : f[i] = "rejected"}
<1>3. 0 \in T
  BY <1>1, <1>2 DEF PassesAlong
<1>4. ASSUME NEW i \in 1..N, i - 1 \in T PROVE i \in T
  <2>1. f[i] = Effected(l[i], a, f[i - 1], inner) /\ f[i - 1] = "rejected" /\ i \in 0..N
    BY <1>2, <1>4 DEF PassesAlong
  <2> QED BY <2>1 DEF Effected, Stepped
<1>5. \A i \in 0..N : i \in T
  <2> HIDE DEF T
  <2> QED BY <1>1, <1>3, <1>4, CountedInduction
<1> QED BY <1>1, <1>2, <1>5

\* What is known in the branches of a list of some depth.
Inner(a, d) == IF d = 0 THEN <<>> ELSE Known(a)[d - 1]

LEMMA KnownOfDepth ==
  ASSUME NEW a, NEW d \in 0 .. MaxNesting
  PROVE  Known(a)[d] = [l \in StatementLists[d] |-> [k \in Knowledge |-> Sequenced(l, a, k, Inner(a, d))]]
<1> DEFINE N == MaxNesting
           Body(f, n) == [l \in StatementLists[n] |-> [k \in Knowledge |-> Sequenced(l, a, k, IF n = 0 THEN <<>> ELSE f[n - 1])]]
           All(f) == [n \in 0..N |-> Body(f, n)]
           s == CHOOSE f : f = All(f)
           T == {n \in 0..N : \E f : \A i \in 0..n : f[i] = Body(f, i)}
<1>0. N \in Nat
  BY NestingBounded
<1>1. Known(a) = s
  BY DEF Known
<1>2. 0 \in T
  <2> DEFINE f == [n \in 0..0 |-> Body(<<>>, n)]
  <2>1. f[0] = Body(f, 0)
    OBVIOUS
  <2>2. \A i \in 0..0 : f[i] = Body(f, i)
    <3> HIDE DEF f, Body
    <3> QED BY <2>1
  <2> HIDE DEF f, Body
  <2> QED BY <1>0, <2>2
<1>3. ASSUME NEW n \in 1..N, n - 1 \in T PROVE n \in T
  <2>1. PICK f : \A i \in 0 .. n - 1 : f[i] = Body(f, i)
    BY <1>3
  <2> DEFINE g == [i \in 0..n |-> Body(f, i)]
  <2>2. ASSUME NEW i \in 0..n PROVE g[i] = Body(g, i)
    <3>1. i # 0 => i - 1 \in 0 .. n - 1 /\ i - 1 \in 0 .. n
      BY <1>0
    <3>2. i # 0 => f[i - 1] = g[i - 1]
      <4> HIDE DEF Body
      <4> QED BY <2>1, <3>1
    <3>3. Body(f, i) = Body(g, i)
      <4> HIDE DEF g
      <4> QED BY <3>2
    <3>4. g[i] = Body(f, i)
      <4> HIDE DEF Body
      <4> QED OBVIOUS
    <3> QED BY <3>3, <3>4
  <2> HIDE DEF g, Body
  <2> QED BY <2>2
<1>4. N \in T
  <2> HIDE DEF T
  <2>1. \A n \in 0..N : n \in T
    BY <1>0, <1>2, <1>3, CountedInduction
  <2> QED BY <1>0, <2>1
<1>5. PICK f : \A i \in 0..N : f[i] = Body(f, i)
  BY <1>4
<1> DEFINE g == [i \in 0..N |-> f[i]]
<1>6. g = All(g)
  <2>1. \A i \in 0..N : i # 0 => i - 1 \in 0..N
    BY <1>0
  <2>2. ASSUME NEW i \in 0..N PROVE Body(f, i) = Body(g, i)
    <3>1. i # 0 => f[i - 1] = g[i - 1]
      BY <2>1
    <3> HIDE DEF g
    <3> QED BY <3>1
  <2> HIDE DEF Body
  <2> QED BY <1>5, <2>2
<1>7. s = All(s)
  <2> HIDE DEF All, g
  <2> QED BY <1>6
<1>8. s[d] = Body(s, d)
  <2> HIDE DEF Body, s
  <2>1. All(s)[d] = Body(s, d)
    OBVIOUS
  <2> HIDE DEF All
  <2> QED BY <1>7, <2>1
<1> HIDE DEF s
<1> QED BY <1>1, <1>8 DEF Inner

\* What is known at the end of a list.
Ends(a, d, l, k) == Known(a)[d][l][k]

LEMMA EndsSequenced ==
  ASSUME NEW a, NEW d \in 0 .. MaxNesting, NEW l \in StatementLists[d], NEW k \in Knowledge
  PROVE  Ends(a, d, l, k) = Sequenced(l, a, k, Inner(a, d))
<1> DEFINE F == [m \in StatementLists[d] |-> [n \in Knowledge |-> Sequenced(m, a, n, Inner(a, d))]]
<1>1. Known(a)[d] = F
  BY KnownOfDepth
<1>2. F[l][k] = Sequenced(l, a, k, Inner(a, d))
  OBVIOUS
<1> HIDE DEF F
<1> QED BY <1>1, <1>2 DEF Ends

LEMMA NoneEnds ==
  ASSUME NEW a, NEW d \in 0 .. MaxNesting, <<>> \in StatementLists[d], NEW k \in Knowledge
  PROVE  Ends(a, d, <<>>, k) = k
BY EndsSequenced, SequencedNone

\* The lists the branches of an operation are among.
BranchLists(d) == IF d = 0 THEN {} ELSE StatementLists[d - 1]

\* A list of some depth that is accepted from what is known, its first operation
\* and the rest of it.
Accepted(a, d, l, k) == d \in 0 .. MaxNesting /\ l \in StatementLists[d] /\ k \in Knowledge /\ Ends(a, d, l, k) # "rejected"
HeadAndTail(l, o, t) == l # <<>> /\ o = Head(l) /\ t = Tail(l)

\* What follows of the first operation of a list that was accepted.
LEMMA HeadAccepted ==
  ASSUME NEW a, NEW d, NEW l, NEW k, Accepted(a, d, l, k), NEW o, NEW t, HeadAndTail(l, o, t),
         NEW known, known = Effected(o, a, k, Inner(a, d))
  PROVE  /\ k # "rejected" /\ Readable(o, a, k)
         /\ known \in Knowledge /\ known # "rejected"
         /\ t \in StatementLists[d] /\ Ends(a, d, t, known) = Ends(a, d, l, k)
         /\ o.branches \in Seq(BranchLists(d))
<1> DEFINE P == ParsedOperation(IF d = 0 THEN {<<>>} ELSE Seq(StatementLists[d - 1]))
<1>0. /\ d \in 0 .. MaxNesting /\ l \in StatementLists[d] /\ k \in Knowledge /\ Ends(a, d, l, k) # "rejected"
      /\ l # <<>> /\ o = Head(l) /\ t = Tail(l)
  BY DEF Accepted, HeadAndTail
<1>1. StatementLists[d] = Seq(P)
  BY <1>0, ListsOfDepth
<1>2. o \in P /\ t \in Seq(P) /\ l \in Seq(P)
  <2> HIDE DEF P
  <2> QED BY <1>0, <1>1
<1>3. o.branches \in (IF d = 0 THEN {<<>>} ELSE Seq(StatementLists[d - 1]))
  BY <1>2 DEF ParsedOperation
<1>4. o.branches \in Seq(BranchLists(d))
  <2>1. d = 0 => o.branches = <<>>
    BY <1>3
  <2>2. <<>> \in Seq({})
    OBVIOUS
  <2> QED BY <1>3, <2>1, <2>2 DEF BranchLists
<1>5. known \in Knowledge
  BY <1>0, EffectKnown
<1>6. Ends(a, d, l, k) = Sequenced(t, a, known, Inner(a, d))
  <2>1. Sequenced(l, a, k, Inner(a, d)) = Sequenced(t, a, known, Inner(a, d))
    <3> HIDE DEF P
    <3> QED BY <1>0, <1>2, SequencedRest
  <2> QED BY <1>0, <2>1, EndsSequenced
<1> HIDE DEF P
<1>7. Ends(a, d, t, known) = Ends(a, d, l, k)
  BY <1>0, <1>1, <1>2, <1>5, <1>6, EndsSequenced
<1>8. known # "rejected"
  <2> SUFFICES ASSUME known = "rejected" PROVE FALSE
    OBVIOUS
  <2>1. Sequenced(t, a, "rejected", Inner(a, d)) = "rejected"
    BY <1>2, SequencedRejected
  <2> QED BY <1>0, <1>6, <2>1
<1>9. k # "rejected" /\ Readable(o, a, k)
  BY <1>8 DEF Effected, Stepped
<1> QED BY <1>1, <1>2, <1>4, <1>5, <1>7, <1>8, <1>9

-----------------------------------------------------------------------------
(* What the analysis knew, of each list that is left to run, holds of $0.   *)

OpLists == UNION {StatementLists[d] : d \in 0 .. MaxNesting}

\* Each list st[i] was accepted from known[i]; where $0 counts as assigned it is,
\* or the list that runs before this one is sure to assign it.
FlowOf(a, st, out, known, depth) ==
  /\ known \in [1 .. Len(st) -> Knowledge]
  /\ depth \in [1 .. Len(st) -> 0 .. MaxNesting]
  /\ \A i \in 1 .. Len(st) : st[i] \in StatementLists[depth[i]] /\ Ends(a, depth[i], st[i], known[i]) # "rejected"
  /\ out = Unset => \A i \in 1 .. Len(st) : known[i] = "assigned" =>
       i < Len(st) /\ Ends(a, depth[i + 1], st[i + 1], known[i + 1]) = "assigned"
  /\ out = Unset /\ a.output # "none" => 0 < Len(st) /\ Ends(a, depth[1], st[1], known[1]) = "assigned"
Flows(a, st, out) == \E known, depth : FlowOf(a, st, out, known, depth)

LEMMA StackEnds ==
  ASSUME NEW S, NEW st \in Seq(S), st # <<>>
  PROVE  /\ Front(st) \in Seq(S) /\ Len(st) \in Nat /\ Len(st) > 0 /\ Len(Front(st)) = Len(st) - 1
         /\ \A i \in 1 .. Len(st) - 1 : Front(st)[i] = st[i]
         /\ Last(st) = st[Len(st)] /\ Last(st) \in S
<1>1. Len(st) \in Nat /\ Len(st) > 0
  OBVIOUS
<1>2. PICK n \in 0 .. Len(st) : n = Len(st) - 1
  BY SMTT(60), <1>1
<1>3. SubSeq(st, 1, n) \in Seq(S) /\ Len(SubSeq(st, 1, n)) = n /\ \A i \in 1 .. n : SubSeq(st, 1, n)[i] = st[i]
  BY <1>1
<1>4. Last(st) = st[Len(st)] /\ st[Len(st)] \in S
  BY <1>1 DEF Last
<1> QED BY <1>1, <1>2, <1>3, <1>4 DEF Front

LEMMA StackPut ==
  ASSUME NEW S, NEW st \in Seq(S), NEW e \in S
  PROVE  /\ Append(st, e) \in Seq(S) /\ Len(Append(st, e)) = Len(st) + 1 /\ Len(st) \in Nat
         /\ \A i \in 1 .. Len(st) : Append(st, e)[i] = st[i]
         /\ Append(st, e)[Len(st) + 1] = e
OBVIOUS

\* A list is left.
LEMMA FlowReturns ==
  ASSUME NEW a, NEW st \in Seq(OpLists), st # <<>>, NEW out, Flows(a, st, out), Last(st) = <<>>
  PROVE  Flows(a, Front(st), out)
<1> DEFINE n == Len(st)
           r == Front(st)
<1>1. PICK known, depth : FlowOf(a, st, out, known, depth)
  BY DEF Flows
<1>2. /\ n \in Nat /\ n > 0 /\ st[n] = <<>> /\ Len(r) = n - 1
      /\ \A i \in 1 .. n - 1 : r[i] = st[i]
  BY StackEnds
<1>3. Ends(a, depth[n], st[n], known[n]) = known[n]
  BY <1>1, <1>2, NoneEnds DEF FlowOf
<1>4. out = Unset => known[n] # "assigned"
  BY <1>1, <1>2 DEF FlowOf
<1> DEFINE k == [i \in 1 .. n - 1 |-> known[i]]
           d == [i \in 1 .. n - 1 |-> depth[i]]
<1> HIDE DEF r
<1>5. k \in [1 .. n - 1 -> Knowledge] /\ d \in [1 .. n - 1 -> 0 .. MaxNesting]
  BY <1>1, <1>2 DEF FlowOf
<1>6. \A i \in 1 .. n - 1 : k[i] = known[i] /\ d[i] = depth[i] /\ r[i] = st[i] /\ i \in 1 .. n
  BY <1>2
<1> HIDE DEF k, d
<1>7. \A i \in 1 .. n - 1 : r[i] \in StatementLists[d[i]] /\ Ends(a, d[i], r[i], k[i]) # "rejected"
  BY <1>1, <1>6 DEF FlowOf
<1>8. ASSUME out = Unset, NEW i \in 1 .. n - 1, k[i] = "assigned"
      PROVE  i < n - 1 /\ Ends(a, d[i + 1], r[i + 1], k[i + 1]) = "assigned"
  <2>1. Ends(a, depth[i + 1], st[i + 1], known[i + 1]) = "assigned"
    BY <1>1, <1>6, <1>8 DEF FlowOf
  <2>2. i # n - 1
    BY <1>2, <1>3, <1>4, <1>8, <2>1
  <2>3. i < n - 1 /\ i + 1 \in 1 .. n - 1
    BY <1>2, <2>2
  <2> QED BY <1>6, <2>1, <2>3
<1>9. ASSUME out = Unset, a.output # "none" PROVE 0 < n - 1 /\ Ends(a, d[1], r[1], k[1]) = "assigned"
  <2>1. Ends(a, depth[1], st[1], known[1]) = "assigned"
    BY <1>1, <1>9 DEF FlowOf
  <2>2. n # 1
    BY <1>3, <1>4, <1>9, <2>1
  <2>3. 0 < n - 1 /\ 1 \in 1 .. n - 1
    BY <1>2, <2>2
  <2> QED BY <1>6, <2>1, <2>3
<1>10. FlowOf(a, r, out, k, d)
  BY <1>2, <1>5, <1>7, <1>8, <1>9 DEF FlowOf
<1> QED BY <1>10 DEF Flows, r

\* The innermost list goes on after an operation.
LEMMA FlowGoesOn ==
  ASSUME NEW a, NEW st \in Seq(OpLists), st # <<>>, NEW out, NEW known, NEW depth, FlowOf(a, st, out, known, depth),
         NEW r, Len(r) = Len(st), \A i \in 1 .. Len(st) - 1 : r[i] = st[i],
         r[Len(st)] \in StatementLists[depth[Len(st)]],
         NEW later \in Knowledge,
         Ends(a, depth[Len(st)], r[Len(st)], later) = Ends(a, depth[Len(st)], st[Len(st)], known[Len(st)]),
         NEW now, now = Unset => out = Unset /\ later # "assigned"
  PROVE  Flows(a, r, now)
<1> DEFINE n == Len(st)
           k == [known EXCEPT ![n] = later]
<1>1. n \in Nat /\ n > 0 /\ n \in 1 .. n
  BY StackEnds
<1>2. k \in [1 .. n -> Knowledge] /\ k[n] = later /\ \A i \in 1 .. n - 1 : k[i] = known[i]
  BY <1>1 DEF FlowOf
<1> HIDE DEF k
<1>3. \A i \in 1 .. n : i # n => i \in 1 .. n - 1 /\ i + 1 \in 1 .. n
  BY <1>1
<1>4. \A i \in 1 .. n : Ends(a, depth[i], r[i], k[i]) = Ends(a, depth[i], st[i], known[i])
  BY <1>2, <1>3
<1>5. \A i \in 1 .. n : r[i] \in StatementLists[depth[i]] /\ Ends(a, depth[i], r[i], k[i]) # "rejected"
  BY <1>3, <1>4 DEF FlowOf
<1>6. ASSUME now = Unset, NEW i \in 1 .. n, k[i] = "assigned"
      PROVE  i < n /\ Ends(a, depth[i + 1], r[i + 1], k[i + 1]) = "assigned"
  <2>1. i # n
    BY <1>2, <1>6
  <2> QED BY <1>2, <1>3, <1>4, <1>6, <2>1 DEF FlowOf
<1>7. now = Unset /\ a.output # "none" => 0 < n /\ Ends(a, depth[1], r[1], k[1]) = "assigned"
  BY <1>1, <1>4 DEF FlowOf
<1>8. FlowOf(a, r, now, k, depth)
  BY <1>2, <1>5, <1>6, <1>7 DEF FlowOf
<1> QED BY <1>8 DEF Flows

\* A branch is entered; what is left of the list is run afterwards.
LEMMA FlowEnters ==
  ASSUME NEW a, NEW st \in Seq(OpLists), st # <<>>, NEW out, NEW known, NEW depth, FlowOf(a, st, out, known, depth),
         NEW r, Len(r) = Len(st) + 1, \A i \in 1 .. Len(st) - 1 : r[i] = st[i],
         r[Len(st)] \in StatementLists[depth[Len(st)]],
         NEW later \in Knowledge,
         Ends(a, depth[Len(st)], r[Len(st)], later) = Ends(a, depth[Len(st)], st[Len(st)], known[Len(st)]),
         NEW below \in 0 .. MaxNesting, r[Len(st) + 1] \in StatementLists[below],
         Ends(a, below, r[Len(st) + 1], known[Len(st)]) # "rejected",
         out = Unset /\ later = "assigned" => Ends(a, below, r[Len(st) + 1], known[Len(st)]) = "assigned"
  PROVE  Flows(a, r, out)
<1> DEFINE n == Len(st)
           m == n + 1
           k == [i \in 1 .. m |-> IF i < n THEN known[i] ELSE IF i = n THEN later ELSE known[n]]
           d == [i \in 1 .. m |-> IF i <= n THEN depth[i] ELSE below]
<1>1. n \in Nat /\ n > 0 /\ n \in 1 .. n /\ m \in Nat
  BY StackEnds
<1>2. k \in [1 .. m -> Knowledge] /\ d \in [1 .. m -> 0 .. MaxNesting]
  BY <1>1 DEF FlowOf
<1>3. k[n] = later /\ d[n] = depth[n] /\ k[m] = known[n] /\ d[m] = below
      /\ \A i \in 1 .. n - 1 : k[i] = known[i] /\ d[i] = depth[i]
  BY <1>1
<1> HIDE DEF k, d
<1>4. \A i \in 1 .. m : i # m => i \in 1 .. n
  BY <1>1
<1>5. \A i \in 1 .. n : i # n => i \in 1 .. n - 1 /\ i + 1 \in 1 .. n /\ i + 1 # m
  BY <1>1
<1>6. \A i \in 1 .. n : d[i] = depth[i] /\ Ends(a, d[i], r[i], k[i]) = Ends(a, depth[i], st[i], known[i])
  BY <1>3, <1>5
<1>7. \A i \in 1 .. m : r[i] \in StatementLists[d[i]] /\ Ends(a, d[i], r[i], k[i]) # "rejected"
  BY <1>3, <1>4, <1>5, <1>6 DEF FlowOf
<1>8. out = Unset => known[n] # "assigned"
  BY <1>1 DEF FlowOf
<1>9. ASSUME out = Unset, NEW i \in 1 .. m, k[i] = "assigned"
      PROVE  i < m /\ Ends(a, d[i + 1], r[i + 1], k[i + 1]) = "assigned"
  <2>1. i \in 1 .. n /\ i < m
    BY <1>1, <1>3, <1>4, <1>8, <1>9
  <2>2. CASE i = n
    BY <1>3, <1>9, <2>1, <2>2
  <2>3. CASE i # n
    BY <1>3, <1>5, <1>6, <1>9, <2>1, <2>3 DEF FlowOf
  <2> QED BY <2>1, <2>2, <2>3
<1>10. out = Unset /\ a.output # "none" => 0 < m /\ Ends(a, d[1], r[1], k[1]) = "assigned"
  BY <1>1, <1>6 DEF FlowOf
<1>11. FlowOf(a, r, out, k, d)
  BY <1>2, <1>7, <1>9, <1>10 DEF FlowOf
<1> QED BY <1>11 DEF Flows

-----------------------------------------------------------------------------
AssemblyInv ==
  /\ asm.program \in StatementLists[MaxNesting]
  /\ stack \in Seq(OpLists)
  /\ step = "running" => Flows(asm, stack, output)
  /\ NoStaleOutput

LEMMA CompletedList ==
  ASSUME NEW l \in StatementLists[MaxNesting], NEW hasOutput, NEW count
  PROVE  Completed(l, hasOutput, count) \in StatementLists[MaxNesting]
<1> DEFINE B == IF MaxNesting = 0 THEN {<<>>} ELSE Seq(StatementLists[MaxNesting - 1])
           P == ParsedOperation(B)
<1>1. StatementLists[MaxNesting] = Seq(P)
  BY NestingBounded, ListsOfDepth
<1>2. CASE Len(l) # 1
  BY <1>2 DEF Completed
<1>3. CASE Len(l) = 1
  <2> DEFINE o == l[1]
             shift == IF hasOutput THEN 1 ELSE 0
             given == IF o.bare THEN {i + shift : i \in 0 .. count - 1} ELSE o.reads
             assigned == o.assign \/ (~IsCommand(o.op) /\ hasOutput)
             p == [o EXCEPT !.reads = given, !.assign = assigned]
  <2>1. Completed(l, hasOutput, count) = <<p>>
    BY <1>3 DEF Completed
  <2>2. o \in P
    <3>1. l \in Seq(P) /\ l # <<>> /\ Last(l) = o
      BY <1>1, <1>3 DEF Last
    <3> HIDE DEF P, o
    <3> QED BY <3>1, StackEnds
  <2> HIDE DEF o
  <2>3. given \in SUBSET Nat
    <3>1. \A i \in 0 .. count - 1 : i + shift \in Nat
      OBVIOUS
    <3> HIDE DEF shift, B
    <3> QED BY <2>2, <3>1 DEF ParsedOperation
  <2>4. assigned \in BOOLEAN
    <3> HIDE DEF B
    <3> QED BY <2>2 DEF ParsedOperation
  <2> HIDE DEF given, assigned, B
  <2>5. p \in P
    BY <2>2, <2>3, <2>4 DEF ParsedOperation
  <2> HIDE DEF p, P
  <2> QED BY <1>1, <2>1, <2>5
<1> QED BY <1>2, <1>3

LEMMA ListsOf == \A l \in StatementLists[MaxNesting] : l \in OpLists
BY NestingBounded DEF OpLists

LEMMA AssemblyStartsInv == AssemblyInit => AssemblyInv
BY AssemblyAssumption DEF AssemblyInit, AssemblyStarts, AssemblyInv, NoStaleOutput

LEMMA EmitKeeps ==
  ASSUME AssemblyInv, Emit
  PROVE  AssemblyInv'
<1> DEFINE hasOutput == asm.output # "none"
           whole == Completed(asm.program, hasOutput, Len(asm.operands))
<1>1. /\ asm' = asm /\ output' = output /\ misread' = misread /\ step = "emit"
      /\ \/ step' = "rejected" /\ stack' = stack
         \/ /\ step' = "running" /\ stack' = <<whole>>
            /\ Known(asm)[MaxNesting][whole]["unassigned"] \in (IF hasOutput THEN {"assigned"} ELSE {"unassigned"})
  BY DEF Emit
<1>2. whole \in StatementLists[MaxNesting]
  BY CompletedList DEF AssemblyInv
<1> HIDE DEF whole
<1>3. CASE step' = "rejected" /\ stack' = stack
  BY <1>1, <1>3 DEF AssemblyInv, NoStaleOutput
<1>4. CASE /\ step' = "running" /\ stack' = <<whole>>
           /\ Known(asm)[MaxNesting][whole]["unassigned"] \in (IF hasOutput THEN {"assigned"} ELSE {"unassigned"})
  <2> DEFINE known == [i \in 1 .. 1 |-> "unassigned"]
             depth == [i \in 1 .. 1 |-> MaxNesting]
             st == <<whole>>
  <2>1. Len(st) = 1 /\ st[1] = whole /\ st \in Seq(OpLists)
    BY <1>2, ListsOf
  <2>2. known \in [1 .. 1 -> Knowledge] /\ depth \in [1 .. 1 -> 0 .. MaxNesting] /\ known[1] = "unassigned" /\ depth[1] = MaxNesting
    BY NestingBounded DEF Knowledge
  <2> HIDE DEF st, known, depth
  <2>3. \A i \in 1 .. 1 : i = 1
    OBVIOUS
  <2>4. Ends(asm, depth[1], st[1], known[1]) \in (IF hasOutput THEN {"assigned"} ELSE {"unassigned"})
    BY <1>4, <2>1, <2>2 DEF Ends
  <2>5. FlowOf(asm, st, output, known, depth)
    BY <1>2, <2>1, <2>2, <2>3, <2>4 DEF FlowOf
  <2>6. Flows(asm', stack', output')
    BY <1>1, <1>4, <2>5 DEF Flows, st
  <2> QED BY <1>1, <1>4, <2>1, <2>6 DEF AssemblyInv, NoStaleOutput, st
<1> QED BY <1>1, <1>3, <1>4

LEMMA EndKeeps ==
  ASSUME AssemblyInv, EndSequence
  PROVE  AssemblyInv'
<1>1. /\ asm' = asm /\ step' = step /\ output' = output /\ misread' = misread /\ step = "running"
      /\ stack # <<>> /\ Last(stack) = <<>> /\ stack' = Front(stack)
  BY DEF EndSequence
<1>2. stack \in Seq(OpLists) /\ Flows(asm, stack, output)
  BY <1>1 DEF AssemblyInv
<1>3. Flows(asm, Front(stack), output) /\ Front(stack) \in Seq(OpLists)
  BY <1>1, <1>2, FlowReturns, StackEnds
<1> QED BY <1>1, <1>3 DEF AssemblyInv, NoStaleOutput

LEMMA FinishKeeps ==
  ASSUME AssemblyInv, Finish
  PROVE  AssemblyInv'
<1>1. /\ asm' = asm /\ step' = "done" /\ output' = output /\ misread' = misread /\ step = "running"
      /\ stack = <<>> /\ stack' = stack
  BY DEF Finish
<1>2. PICK known, depth : FlowOf(asm, stack, output, known, depth)
  BY <1>1 DEF AssemblyInv, Flows
<1>3. asm.output # "none" => output # Unset
  BY <1>1, <1>2 DEF FlowOf
<1> QED BY <1>1, <1>3 DEF AssemblyInv, NoStaleOutput

\* What is known after a command, and in its branches.
LEMMA CommandAccepted ==
  ASSUME NEW a, NEW d \in 0 .. MaxNesting, NEW o, NEW k \in Knowledge, ~o.assign, Readable(o, a, k),
         o.branches \in Seq(BranchLists(d)),
         NEW later, later = Effected(o, a, k, Inner(a, d)), later # "rejected"
  PROVE  /\ IsCommand(o.op)
         /\ o.op # "control_if_else" => later = k
         /\ \A j \in 1 .. BranchCount(o.op) :
              /\ d - 1 \in 0 .. MaxNesting /\ o.branches[j] \in StatementLists[d - 1]
              /\ Ends(a, d - 1, o.branches[j], k) # "rejected"
              /\ o.op = "control_if_else" => later = k \/ Ends(a, d - 1, o.branches[j], k) = "assigned"
<1> DEFINE B == BranchLists(d)
           ends == [j \in DOMAIN o.branches |-> Inner(a, d)[o.branches[j]][k]]
<1>1. IsCommand(o.op) /\ later = After(o, k, ends)
  BY DEF Effected, Stepped
<1>2. Len(o.branches) = BranchCount(o.op) /\ BranchCount(o.op) \in Nat
  BY DEF Readable, BranchCount
<1>3. DOMAIN ends = 1 .. BranchCount(o.op) /\ \A j \in 1 .. BranchCount(o.op) : o.branches[j] \in B
  <2>1. o.branches \in Seq(B)
    OBVIOUS
  <2> HIDE DEF B
  <2>2. DOMAIN o.branches = 1 .. Len(o.branches) /\ \A j \in 1 .. Len(o.branches) : o.branches[j] \in B
    BY <2>1
  <2> QED BY <1>2, <2>2
<1>4. ASSUME NEW j \in 1 .. BranchCount(o.op)
      PROVE  d # 0 /\ o.branches[j] \in StatementLists[d - 1] /\ ends[j] = Ends(a, d - 1, o.branches[j], k)
  <2>1. o.branches[j] \in B
    BY <1>3
  <2>2. d # 0
    BY <2>1 DEF BranchLists
  <2>3. ends[j] = Inner(a, d)[o.branches[j]][k]
    BY <1>3
  <2> HIDE DEF ends
  <2> QED BY <2>1, <2>2, <2>3 DEF Inner, Ends, BranchLists
<1> HIDE DEF ends
<1>5. \A j \in 1 .. BranchCount(o.op) : ends[j] # "rejected"
  BY <1>1, <1>3 DEF After
<1>6. o.op # "control_if_else" => later = k
  BY <1>1, <1>3, <1>5 DEF After
<1>7. \A j \in 1 .. BranchCount(o.op) : o.op = "control_if_else" => later = k \/ ends[j] = "assigned"
  BY <1>1, <1>3, <1>5 DEF After
<1>8. d # 0 => d - 1 \in 0 .. MaxNesting
  BY NestingBounded
<1> QED BY <1>1, <1>4, <1>5, <1>6, <1>7, <1>8

LEMMA RunKeeps ==
  ASSUME AssemblyInv, Run
  PROVE  AssemblyInv'
<1> DEFINE n == Len(stack)
           l == stack[n]
           o == Head(l)
           following == Following
<1>1. /\ asm' = asm /\ step = "running" /\ stack # <<>> /\ Last(stack) # <<>> /\ misread' = (misread \/ Reads0)
      /\ output' \in (IF ~Statement.assign THEN {output} ELSE IF asm.any THEN Reported ELSE {0})
      /\ step' = IF Statement.op = "control_stop" THEN "stopped" ELSE step
  BY DEF Run
<1>2. stack \in Seq(OpLists) /\ asm.program \in StatementLists[MaxNesting] /\ Flows(asm, stack, output) /\ ~misread
  BY <1>1 DEF AssemblyInv, NoStaleOutput
<1>3. PICK known, depth : FlowOf(asm, stack, output, known, depth)
  BY <1>2 DEF Flows
<1>4. /\ n \in Nat /\ n > 0 /\ n \in 1 .. n /\ Last(stack) = l /\ l \in OpLists /\ l # <<>> /\ Front(stack) \in Seq(OpLists)
      /\ Len(Front(stack)) = n - 1 /\ \A i \in 1 .. n - 1 : Front(stack)[i] = stack[i]
  <2>1. /\ n \in Nat /\ n > 0 /\ Last(stack) = l /\ Last(stack) \in OpLists /\ Front(stack) \in Seq(OpLists)
        /\ Len(Front(stack)) = n - 1 /\ \A i \in 1 .. n - 1 : Front(stack)[i] = stack[i]
    BY <1>1, <1>2, StackEnds
  <2> HIDE DEF n, l
  <2> QED BY <1>1, <2>1
<1> DEFINE d == depth[n]
           k == known[n]
           later == Effected(o, asm, k, Inner(asm, d))
<1>5. /\ d \in 0 .. MaxNesting /\ k \in Knowledge /\ l \in StatementLists[d] /\ Ends(asm, d, l, k) # "rejected"
      /\ output = Unset => k # "assigned"
  BY <1>3, <1>4 DEF FlowOf
<1>6. Statement = o /\ Following = Append(Front(stack), Tail(l))
  BY <1>4 DEF Statement, Following
<1> DEFINE t == Tail(l)
<1> HIDE DEF l, d, k, t, o, later
<1>7. /\ k # "rejected" /\ Readable(o, asm, k) /\ later \in Knowledge /\ later # "rejected"
      /\ t \in StatementLists[d] /\ Ends(asm, d, t, later) = Ends(asm, d, l, k)
      /\ o.branches \in Seq(BranchLists(d))
  <2>1. HeadAndTail(l, o, t)
    BY <1>4 DEF HeadAndTail, o, t
  <2>2. later = Effected(o, asm, k, Inner(asm, d))
    BY DEF later
  <2>3. Accepted(asm, d, l, k)
    BY <1>5 DEF Accepted
  <2> QED BY ONLY <2>1, <2>2, <2>3, HeadAccepted
<1>8. ~misread'
  BY <1>1, <1>2, <1>5, <1>6, <1>7 DEF Reads0, Readable
<1>9. t \in OpLists
  BY <1>5, <1>7 DEF OpLists
<1>10. /\ following \in Seq(OpLists) /\ Len(following) = n /\ following[n] = t
       /\ \A i \in 1 .. n - 1 : following[i] = stack[i]
  <2> DEFINE f == Front(stack)
  <2> HIDE DEF f
  <2>1. Append(f, t) \in Seq(OpLists) /\ Len(Append(f, t)) = Len(f) + 1 /\ Append(f, t)[Len(f) + 1] = t
        /\ \A i \in 1 .. Len(f) : Append(f, t)[i] = f[i]
    BY <1>4, <1>9, StackPut DEF f
  <2> QED BY <1>4, <1>6, <2>1 DEF t, f
<1> HIDE DEF following
<1>11. ASSUME NEW now, now = Unset => output = Unset /\ later # "assigned"
       PROVE  Flows(asm, following, now)
  BY <1>1, <1>2, <1>3, <1>5, <1>7, <1>10, <1>11, FlowGoesOn DEF d, k, l
<1>12. CASE o.assign
  <2>1. stack' = following
    BY <1>6, <1>7, <1>12 DEF Run, Readable, IsCommand, following
  <2>2. output' # Unset
    BY <1>1, <1>6, <1>12, AssemblyAssumption
  <2>3. Flows(asm, following, output')
    BY <1>11, <2>2
  <2> QED BY <1>1, <1>2, <1>8, <1>10, <2>1, <2>3 DEF AssemblyInv, NoStaleOutput
<1>13. CASE ~o.assign
  <2>1. output' = output
    BY <1>1, <1>6, <1>13
  <2>0. later = Effected(o, asm, k, Inner(asm, d))
    BY DEF later
  <2>2. IsCommand(o.op) /\ (o.op # "control_if_else" => later = k)
    BY <1>5, <1>7, <1>13, <2>0, CommandAccepted
  <2>3. ASSUME NEW j \in 1 .. BranchCount(o.op)
        PROVE  /\ d - 1 \in 0 .. MaxNesting /\ o.branches[j] \in StatementLists[d - 1]
               /\ Ends(asm, d - 1, o.branches[j], k) # "rejected"
               /\ o.op = "control_if_else" => later = k \/ Ends(asm, d - 1, o.branches[j], k) = "assigned"
    <3>1. \A i \in 1 .. BranchCount(o.op) :
            /\ d - 1 \in 0 .. MaxNesting /\ o.branches[i] \in StatementLists[d - 1]
            /\ Ends(asm, d - 1, o.branches[i], k) # "rejected"
            /\ o.op = "control_if_else" => later = k \/ Ends(asm, d - 1, o.branches[i], k) = "assigned"
      BY <1>5, <1>7, <1>13, <2>0, CommandAccepted
    <3> QED BY <3>1
  <2>4. ASSUME NEW j \in 1 .. BranchCount(o.op) PROVE o.branches[j] \in OpLists
    BY <2>3 DEF OpLists
  <2>5. o.op # "control_if_else" => Flows(asm, following, output)
    BY <1>5, <1>11, <2>2
  <2>6. ASSUME NEW j \in 1 .. BranchCount(o.op)
        PROVE  Append(following, o.branches[j]) \in Seq(OpLists) /\ Flows(asm, Append(following, o.branches[j]), output)
    <3> DEFINE b == o.branches[j]
               r == Append(following, b)
               below == d - 1
    <3>1. b \in OpLists /\ below \in 0 .. MaxNesting /\ b \in StatementLists[below]
          /\ Ends(asm, below, b, k) # "rejected"
          /\ (o.op = "control_if_else" => later = k \/ Ends(asm, below, b, k) = "assigned")
      BY <2>3, <2>4
    <3> HIDE DEF b, below
    <3>2. r \in Seq(OpLists) /\ Len(r) = n + 1 /\ r[n + 1] = b /\ \A i \in 1 .. n : r[i] = following[i]
      BY <1>10, <3>1, StackPut
    <3> HIDE DEF r
    <3>3. r[n] = t /\ \A i \in 1 .. n - 1 : r[i] = stack[i]
      BY <1>4, <1>10, <3>2
    <3>4. output = Unset /\ later = "assigned" => Ends(asm, below, b, k) = "assigned"
      BY <1>5, <2>2, <3>1
    <3>5. Flows(asm, r, output)
      BY <1>1, <1>2, <1>3, <1>7, <3>1, <3>2, <3>3, <3>4, FlowEnters DEF d, k, l
    <3> QED BY <3>2, <3>5 DEF r, b
  <2>7. ASSUME NEW j \in 1 .. BranchCount(o.op), o.op # "control_if_else"
        PROVE  Append(stack, o.branches[j]) \in Seq(OpLists) /\ Flows(asm, Append(stack, o.branches[j]), output)
    <3> DEFINE b == o.branches[j]
               r == Append(stack, b)
               below == d - 1
    <3>1. b \in OpLists /\ below \in 0 .. MaxNesting /\ b \in StatementLists[below] /\ Ends(asm, below, b, k) # "rejected"
      BY <2>3, <2>4
    <3> HIDE DEF b, below
    <3>2. r \in Seq(OpLists) /\ Len(r) = n + 1 /\ r[n + 1] = b /\ \A i \in 1 .. n : r[i] = stack[i]
      BY <1>2, <3>1, StackPut
    <3> HIDE DEF r
    <3>3. r[n] = l /\ \A i \in 1 .. n - 1 : r[i] = stack[i]
      BY <1>4, <3>2 DEF l
    <3>4. Flows(asm, r, output)
      BY <1>1, <1>2, <1>3, <1>5, <3>1, <3>2, <3>3, FlowEnters DEF d, k, l
    <3> QED BY <3>2, <3>4 DEF r, b
  <2>8. CASE o.op = "control_if"
    <3>1. stack' \in {following, Append(following, o.branches[1])}
      BY <1>6, <2>8 DEF Run, following
    <3>2. 1 \in 1 .. BranchCount(o.op)
      BY <2>8 DEF BranchCount
    <3>3. stack' \in Seq(OpLists) /\ Flows(asm, stack', output)
      BY <1>10, <2>5, <2>6, <2>8, <3>1, <3>2
    <3> QED BY <1>1, <1>2, <1>8, <2>1, <3>3 DEF AssemblyInv, NoStaleOutput
  <2>9. CASE o.op = "control_if_else"
    <3>1. \E j \in 1 .. 2 : stack' = Append(following, o.branches[j])
      BY <1>6, <2>9 DEF Run, following
    <3>2. BranchCount(o.op) = 2
      BY <2>9 DEF BranchCount
    <3>3. stack' \in Seq(OpLists) /\ Flows(asm, stack', output)
      BY <2>6, <3>1, <3>2
    <3> QED BY <1>1, <1>2, <1>8, <2>1, <3>3 DEF AssemblyInv, NoStaleOutput
  <2>10. CASE o.op \in {"control_repeat", "control_repeat_until"}
    <3>1. stack' \in {following, Append(stack, o.branches[1])}
      BY <1>6, <2>10 DEF Run, following
    <3>2. 1 \in 1 .. BranchCount(o.op)
      BY <2>10 DEF BranchCount
    <3>3. stack' \in Seq(OpLists) /\ Flows(asm, stack', output)
      BY <1>10, <2>5, <2>7, <2>10, <3>1, <3>2
    <3> QED BY <1>1, <1>2, <1>8, <2>1, <3>3 DEF AssemblyInv, NoStaleOutput
  <2>11. CASE o.op \in {"data_setvariableto", "control_stop"}
    <3>1. stack' = following
      BY <1>6, <2>11 DEF Run, following
    <3>2. stack' \in Seq(OpLists) /\ Flows(asm, stack', output)
      BY <1>10, <2>5, <2>11, <3>1
    <3> QED BY <1>1, <1>2, <1>8, <2>1, <3>2 DEF AssemblyInv, NoStaleOutput
  <2> QED BY <2>2, <2>8, <2>9, <2>10, <2>11 DEF IsCommand
<1> QED BY <1>12, <1>13

LEMMA AssemblyStepInv ==
  ASSUME AssemblyInv, [AssemblyNext]_assemblyVars
  PROVE  AssemblyInv'
<1>1. CASE Emit
  BY <1>1, EmitKeeps
<1>2. CASE EndSequence
  BY <1>2, EndKeeps
<1>3. CASE Run
  BY <1>3, RunKeeps
<1>4. CASE Finish
  BY <1>4, FinishKeeps
<1>5. CASE UNCHANGED assemblyVars
  BY <1>5 DEF assemblyVars, AssemblyInv, NoStaleOutput
<1> QED BY <1>1, <1>2, <1>3, <1>4, <1>5 DEF AssemblyNext

\* What emit_assembly accepts, with branches nested to any depth and any outcome
\* of conditions and counts, never uses a value of $0 that this execution did
\* not assign (sequence, and the last check of program).
THEOREM OutputAssigned == AssemblySpec => []NoStaleOutput
<1>1. AssemblyInv => NoStaleOutput
  BY DEF AssemblyInv
<1> QED BY <1>1, AssemblyStartsInv, AssemblyStepInv, PTL DEF AssemblySpec
=============================================================================
