--------------------------- MODULE RuntimeProofs ---------------------------
(***************************************************************************)
(* The target's runtime, each part by itself.  For every set of statics    *)
(* and libraries, every capacity of the lists and every depth of the       *)
(* stack: what the exit handlers and the guards of statics promise.  For   *)
(* arrays and strings of every length: the library functions do what they  *)
(* promise, by one inductive invariant per function.  For every size of    *)
(* buffer and request: what the standard streams read and show.  For every *)
(* heap size, alignment, header size and base, and every sequence of calls *)
(* of the allocator: the blocks tile the heap and are what the program was *)
(* promised, and nobody else's bytes are written.                          *)
(***************************************************************************)
EXTENDS Heap, Exit, Library, Streams, WellOrder, SequenceTheorems, TLAPS

-----------------------------------------------------------------------------
(* The sequence operators the runtime's lists are described with.          *)

LEMMA FrontIs ==
  ASSUME NEW S, NEW s \in Seq(S), s # <<>>
  PROVE  /\ Front(s) \in Seq(S) /\ Len(s) \in Nat \ {0} /\ Len(Front(s)) = Len(s) - 1
         /\ \A i \in 1 .. Len(s) - 1 : Front(s)[i] = s[i]
         /\ Last(s) = s[Len(s)] /\ Last(s) \in S
<1>1. Len(s) \in Nat \ {0}
  OBVIOUS
<1>2. PICK n \in 0 .. Len(s) : n = Len(s) - 1
  BY SMTT(60), <1>1
<1>3. SubSeq(s, 1, n) \in Seq(S) /\ Len(SubSeq(s, 1, n)) = n /\ \A i \in 1 .. n : SubSeq(s, 1, n)[i] = s[i]
  BY <1>1
<1>4. Last(s) = s[Len(s)] /\ s[Len(s)] \in S
  BY <1>1 DEF Last
<1> QED BY <1>1, <1>2, <1>3, <1>4 DEF Front

LEMMA AppendIs ==
  ASSUME NEW S, NEW s \in Seq(S), NEW e \in S
  PROVE  /\ Append(s, e) \in Seq(S) /\ Len(Append(s, e)) = Len(s) + 1 /\ Len(s) \in Nat
         /\ \A i \in 1 .. Len(s) : Append(s, e)[i] = s[i]
         /\ Append(s, e)[Len(s) + 1] = e /\ Append(s, e) # <<>> /\ Last(Append(s, e)) = e
BY DEF Last

LEMMA ToSetIs ==
  ASSUME NEW S, NEW s \in Seq(S), NEW x
  PROVE  x \in ToSet(s) <=> \E i \in 1 .. Len(s) : s[i] = x
BY DEF ToSet

LEMMA ToSetAppend ==
  ASSUME NEW S, NEW s \in Seq(S), NEW e \in S
  PROVE  ToSet(Append(s, e)) = ToSet(s) \cup {e}
<1>1. ASSUME NEW x PROVE x \in ToSet(Append(s, e)) <=> x \in ToSet(s) \/ x = e
  <2>1. x \in ToSet(Append(s, e)) <=> \E i \in 1 .. Len(Append(s, e)) : Append(s, e)[i] = x
    <3> DEFINE t == Append(s, e)
    <3>1. t \in Seq(S)
      BY AppendIs
    <3> HIDE DEF t
    <3>2. x \in ToSet(t) <=> \E i \in 1 .. Len(t) : t[i] = x
      BY <3>1, ToSetIs
    <3> QED BY <3>2 DEF t
  <2>2. x \in ToSet(s) <=> \E i \in 1 .. Len(s) : s[i] = x
    BY ToSetIs
  <2> QED BY <2>1, <2>2, AppendIs
<1> QED BY <1>1

LEMMA InjectiveAppend ==
  ASSUME NEW S, NEW s \in Seq(S), NEW e \in S, IsInjective(s), e \notin ToSet(s)
  PROVE  IsInjective(Append(s, e))
<1>1. DOMAIN s = 1 .. Len(s) /\ DOMAIN Append(s, e) = 1 .. Len(s) + 1 /\ Len(s) \in Nat
  BY AppendIs
<1>2. \A i \in 1 .. Len(s) : s[i] # e
  BY ToSetIs
<1>3. \A i, j \in 1 .. Len(s) : s[i] = s[j] => i = j
  BY <1>1 DEF IsInjective
<1>4. \A i, j \in 1 .. Len(s) + 1 : Append(s, e)[i] = Append(s, e)[j] => i = j
  BY <1>1, <1>2, <1>3, AppendIs
<1> QED BY <1>1, <1>4 DEF IsInjective

-----------------------------------------------------------------------------
(* The choices the runtime's loops make exist.                             *)

LEMMA CompactedIs ==
  ASSUME NEW d \in Seq(Entries)
  PROVE  \E n \in 0 .. Len(d) :
           /\ Compacted(d) \in Seq(Entries) /\ Len(Compacted(d)) = n
           /\ \A i \in 1 .. n : Compacted(d)[i] = d[i]
           /\ \A i \in n + 1 .. Len(d) : ~ d[i].active
<1> DEFINE T == {n \in 0 .. Len(d) : \A i \in n + 1 .. Len(d) : ~ d[i].active}
           Kept(n) == (n = 0 \/ d[n].active) /\ \A i \in n + 1 .. Len(d) : ~ d[i].active
<1>1. Len(d) \in Nat
  OBVIOUS
<1>2. Len(d) \in T
  BY <1>1
<1>3. T \in SUBSET Nat /\ T # {}
  BY <1>1, <1>2
<1>4. PICK m \in T : \A k \in T : m <= k
  <2> HIDE DEF T
  <2> QED BY <1>3, LeastElement
<1>5. m \in 0 .. Len(d) /\ \A i \in m + 1 .. Len(d) : ~ d[i].active
  BY <1>4
<1>6. m = 0 \/ d[m].active
  <2> SUFFICES ASSUME m # 0, ~ d[m].active PROVE FALSE
    OBVIOUS
  <2>1. m - 1 \in 0 .. Len(d) /\ ~(m <= m - 1)
    BY <1>1, <1>5
  <2>2. \A i \in (m - 1) + 1 .. Len(d) : i = m \/ i \in m + 1 .. Len(d)
    BY <1>1, <1>5
  <2>3. m - 1 \in T
    BY <1>5, <2>1, <2>2
  <2> QED BY <1>4, <2>1, <2>3
<1>7. Kept(CHOOSE n \in 0 .. Len(d) : Kept(n)) /\ (CHOOSE n \in 0 .. Len(d) : Kept(n)) \in 0 .. Len(d)
  <2>1. Kept(m)
    BY <1>5, <1>6
  <2> HIDE DEF Kept
  <2> QED BY <1>5, <2>1
<1>8. PICK n \in 0 .. Len(d) : Compacted(d) = SubSeq(d, 1, n) /\ Kept(n)
  <2>1. Compacted(d) = SubSeq(d, 1, CHOOSE n \in 0 .. Len(d) : Kept(n))
    BY Zenon DEF Compacted
  <2> HIDE DEF Kept
  <2> QED BY <1>7, <2>1
<1>9. SubSeq(d, 1, n) \in Seq(Entries) /\ Len(SubSeq(d, 1, n)) = n
      /\ \A i \in 1 .. n : SubSeq(d, 1, n)[i] = d[i]
  BY <1>1
<1> QED BY <1>8, <1>9

LEMMA NextHandlerIs ==
  ASSUME destructors \in Seq(Entries), NEW dso, Waiting(dso) # {}
  PROVE  NextHandler(dso) \in Waiting(dso) /\ \A j \in Waiting(dso) : j <= NextHandler(dso)
<1>1. Len(destructors) \in Nat /\ Waiting(dso) \in SUBSET (0 .. Len(destructors))
  BY DEF Waiting
<1>2. \E i \in Waiting(dso) : \A j \in Waiting(dso) : j <= i
  BY <1>1, LargestElement
<1> QED BY <1>2 DEF NextHandler

-----------------------------------------------------------------------------
(* What the lists hold, of the ids accepted and those in L, called so far. *)

ListHolds(d, ids, L) ==
  /\ \A i \in 1 .. Len(d) : d[i].id \in ids /\ (d[i].active => d[i].id \notin L)
  /\ \A i, j \in 1 .. Len(d) : i < j => d[i].id < d[j].id
  /\ \A h \in ids \ L : \E i \in 1 .. Len(d) : d[i].id = h /\ d[i].active

QuickHolds(q, ids, L) ==
  /\ \A i \in 1 .. Len(q) : q[i] \in ids \ L
  /\ \A i, j \in 1 .. Len(q) : q[i] = q[j] => i = j
  /\ \A h \in ids \ L : \E i \in 1 .. Len(q) : q[i] = h

LEMMA CompactedHolds ==
  ASSUME NEW d \in Seq(Entries), NEW ids, NEW L, ListHolds(d, ids, L)
  PROVE  ListHolds(Compacted(d), ids, L) /\ Compacted(d) \in Seq(Entries) /\ Len(Compacted(d)) <= Len(d)
<1>1. PICK n \in 0 .. Len(d) :
        /\ Compacted(d) \in Seq(Entries) /\ Len(Compacted(d)) = n
        /\ \A i \in 1 .. n : Compacted(d)[i] = d[i]
        /\ \A i \in n + 1 .. Len(d) : ~ d[i].active
  BY CompactedIs
<1>2. Len(d) \in Nat
  OBVIOUS
<1>3. \A i \in 1 .. n : i \in 1 .. Len(d)
  BY <1>2
<1> DEFINE c == Compacted(d)
<1>4. Len(c) = n /\ \A i \in 1 .. n : c[i] = d[i]
  BY <1>1
<1> HIDE DEF c
<1>5. ASSUME NEW h \in ids \ L PROVE \E i \in 1 .. n : c[i].id = h /\ c[i].active
  <2>1. PICK i \in 1 .. Len(d) : d[i].id = h /\ d[i].active
    BY DEF ListHolds
  <2>2. i \in 1 .. n
    BY <1>1, <1>2, <2>1
  <2> QED BY <1>4, <2>1, <2>2
<1>6. ListHolds(c, ids, L)
  BY <1>3, <1>4, <1>5 DEF ListHolds
<1> QED BY <1>1, <1>2, <1>6 DEF c

LEMMA AppendHolds ==
  ASSUME NEW d \in Seq(Entries), NEW ids, NEW L, ListHolds(d, ids, L),
         NEW r \in Nat, ids \subseteq 1 .. r, L \subseteq 1 .. r,
         NEW e \in Entries, e.id = r + 1, e.active
  PROVE  ListHolds(Append(d, e), ids \cup {r + 1}, L)
<1> DEFINE a == Append(d, e)
<1>1. Len(a) = Len(d) + 1 /\ Len(d) \in Nat /\ a[Len(d) + 1] = e /\ \A i \in 1 .. Len(d) : a[i] = d[i]
  BY AppendIs
<1> HIDE DEF a
<1>2. \A i \in 1 .. Len(a) : i \in 1 .. Len(d) \/ i = Len(d) + 1
  BY <1>1
<1>3. ASSUME NEW i \in 1 .. Len(d) PROVE i \in 1 .. Len(a) /\ d[i].id \in 1 .. r
  <2>1. i \in 1 .. Len(a)
    BY <1>1
  <2>2. d[i].id \in ids
    BY DEF ListHolds
  <2> QED BY <2>1, <2>2
<1>4. r + 1 \notin L /\ r + 1 \notin 1 .. r
  OBVIOUS
<1>5. ASSUME NEW i \in 1 .. Len(a) PROVE a[i].id \in ids \cup {r + 1} /\ (a[i].active => a[i].id \notin L)
  BY <1>1, <1>2, <1>4 DEF ListHolds
<1>6. ASSUME NEW i \in 1 .. Len(a), NEW j \in 1 .. Len(a), i < j PROVE a[i].id < a[j].id
  <2>1. i \in 1 .. Len(d)
    <3>1. i \in Nat /\ j \in Nat /\ 1 <= i /\ j <= Len(d) + 1 /\ Len(d) \in Nat
      BY <1>1
    <3> QED BY <1>6, <3>1
  <2>2. CASE j \in 1 .. Len(d)
    BY <1>1, <1>6, <2>1, <2>2 DEF ListHolds
  <2>3. CASE j = Len(d) + 1
    <3>1. a[j].id = r + 1 /\ a[i].id \in 1 .. r
      BY <1>1, <1>3, <2>1, <2>3
    <3> QED BY <3>1
  <2> QED BY <1>2, <2>2, <2>3
<1>7. ASSUME NEW h \in (ids \cup {r + 1}) \ L PROVE \E i \in 1 .. Len(a) : a[i].id = h /\ a[i].active
  <2>1. CASE h = r + 1
    <3>1. Len(d) + 1 \in 1 .. Len(a)
      BY <1>1
    <3> QED BY <1>1, <2>1, <3>1
  <2>2. CASE h \in ids
    <3>1. PICK i \in 1 .. Len(d) : d[i].id = h /\ d[i].active
      BY <2>2 DEF ListHolds
    <3> QED BY <1>1, <1>3, <3>1
  <2> QED BY <2>1, <2>2
<1>8. ListHolds(a, ids \cup {r + 1}, L)
  BY <1>5, <1>6, <1>7 DEF ListHolds
<1> QED BY <1>8 DEF a

LEMMA TakenHolds ==
  ASSUME NEW d \in Seq(Entries), NEW ids, NEW L, ListHolds(d, ids, L),
         NEW i \in 1 .. Len(d)
  PROVE  /\ [d EXCEPT ![i].active = FALSE] \in Seq(Entries)
         /\ Len([d EXCEPT ![i].active = FALSE]) = Len(d)
         /\ ListHolds([d EXCEPT ![i].active = FALSE], ids, L \cup {d[i].id})
<1> DEFINE t == [d EXCEPT ![i].active = FALSE]
<1>1. Len(d) \in Nat /\ \A j \in 1 .. Len(d) : d[j] \in Entries
  OBVIOUS
<1>2. [d[i] EXCEPT !.active = FALSE] \in Entries
  BY <1>1 DEF Entries
<1>3. t \in Seq(Entries) /\ Len(t) = Len(d)
  BY <1>1, <1>2
<1>4. t[i].id = d[i].id /\ t[i].active = FALSE /\ \A j \in 1 .. Len(d) : j # i => t[j] = d[j]
  BY <1>1 DEF Entries
<1>5. \A j \in 1 .. Len(d) : t[j].id = d[j].id
  BY <1>4
<1>6. \A j \in 1 .. Len(d) : j # i => d[j].id # d[i].id
  <2>1. ASSUME NEW j \in 1 .. Len(d), j # i PROVE d[j].id # d[i].id
    <3>1. d[j].id \in Nat /\ d[i].id \in Nat /\ (j < i \/ i < j)
      BY <1>1, <2>1 DEF Entries
    <3>2. d[j].id < d[i].id \/ d[i].id < d[j].id
      BY <3>1 DEF ListHolds
    <3> QED BY <3>1, <3>2
  <2> QED BY <2>1
<1> HIDE DEF t
<1>7. \A j \in 1 .. Len(d) : t[j].id \in ids /\ (t[j].active => t[j].id \notin L \cup {d[i].id})
  BY <1>4, <1>5, <1>6 DEF ListHolds
<1>8. \A j, k \in 1 .. Len(d) : j < k => t[j].id < t[k].id
  BY <1>5 DEF ListHolds
<1>9. ASSUME NEW h \in ids \ (L \cup {d[i].id}) PROVE \E j \in 1 .. Len(d) : t[j].id = h /\ t[j].active
  <2>1. PICK j \in 1 .. Len(d) : d[j].id = h /\ d[j].active
    BY DEF ListHolds
  <2>2. j # i
    BY <2>1
  <2> QED BY <1>4, <2>1, <2>2
<1>10. ListHolds(t, ids, L \cup {d[i].id})
  BY <1>3, <1>7, <1>8, <1>9 DEF ListHolds
<1> QED BY <1>3, <1>10 DEF t

LEMMA QuickAppendHolds ==
  ASSUME NEW q \in Seq(Nat), NEW ids, NEW L, QuickHolds(q, ids, L),
         NEW r \in Nat, ids \subseteq 1 .. r, L \subseteq 1 .. r
  PROVE  QuickHolds(Append(q, r + 1), ids \cup {r + 1}, L)
<1> DEFINE a == Append(q, r + 1)
<1>1. Len(a) = Len(q) + 1 /\ Len(q) \in Nat /\ a[Len(q) + 1] = r + 1 /\ \A i \in 1 .. Len(q) : a[i] = q[i]
  BY AppendIs
<1> HIDE DEF a
<1>2. \A i \in 1 .. Len(a) : i \in 1 .. Len(q) \/ i = Len(q) + 1
  BY <1>1
<1>3. \A i \in 1 .. Len(q) : i \in 1 .. Len(a) /\ q[i] \in 1 .. r
  BY <1>1 DEF QuickHolds
<1>4. r + 1 \notin L /\ r + 1 \notin 1 .. r /\ Len(q) + 1 \in 1 .. Len(a)
  BY <1>1
<1>5. \A i \in 1 .. Len(a) : a[i] \in (ids \cup {r + 1}) \ L
  BY <1>1, <1>2, <1>4 DEF QuickHolds
<1>6. ASSUME NEW i \in 1 .. Len(a), NEW j \in 1 .. Len(a), a[i] = a[j] PROVE i = j
  <2>1. CASE i \in 1 .. Len(q) /\ j \in 1 .. Len(q)
    BY <1>1, <1>6, <2>1 DEF QuickHolds
  <2>2. CASE i = Len(q) + 1 /\ j \in 1 .. Len(q)
    BY <1>1, <1>3, <1>4, <1>6, <2>2
  <2>3. CASE j = Len(q) + 1 /\ i \in 1 .. Len(q)
    BY <1>1, <1>3, <1>4, <1>6, <2>3
  <2> QED BY <1>2, <2>1, <2>2, <2>3
<1>7. \A h \in (ids \cup {r + 1}) \ L : \E i \in 1 .. Len(a) : a[i] = h
  BY <1>1, <1>3, <1>4 DEF QuickHolds
<1>8. QuickHolds(a, ids \cup {r + 1}, L)
  BY <1>5, <1>6, <1>7 DEF QuickHolds
<1> QED BY <1>8 DEF a

LEMMA QuickFrontHolds ==
  ASSUME NEW q \in Seq(Nat), NEW ids, NEW L, QuickHolds(q, ids, L), q # <<>>
  PROVE  QuickHolds(Front(q), ids, L \cup {Last(q)}) /\ Last(q) \in ids \ L
<1> DEFINE f == Front(q)
           l == Last(q)
<1>1. Len(q) \in Nat \ {0} /\ Len(f) = Len(q) - 1 /\ l = q[Len(q)] /\ \A i \in 1 .. Len(f) : f[i] = q[i]
  BY FrontIs
<1> HIDE DEF f, l
<1>2. \A i \in 1 .. Len(f) : i \in 1 .. Len(q) /\ i # Len(q)
  BY <1>1
<1>3. Len(q) \in 1 .. Len(q) /\ \A i \in 1 .. Len(q) : i # Len(q) => i \in 1 .. Len(f)
  BY <1>1
<1>4. l \in ids \ L
  BY <1>1, <1>3 DEF QuickHolds
<1>5. QuickHolds(f, ids, L \cup {l})
  BY <1>1, <1>2, <1>3 DEF QuickHolds
<1> QED BY <1>4, <1>5 DEF f, l

-----------------------------------------------------------------------------
(* What a call stack s is, with the guards g.                              *)

Kinds == {"main", "exit", "handler", "static", "finalize", "quick"}
Frames == [kind : Kinds, of : Dsos \cup {NullDso} \cup Statics]
FrameOK(f) == (f.kind = "exit" => f.of = NullDso) /\ (f.kind = "static" => f.of \in Statics)
Guards == [Statics -> {"new", "busy", "done"}]

Nested(s, g) ==
  /\ s \in Seq(Frames) /\ s # <<>>
  /\ s[1].kind \in {"main", "exit"}
  /\ \A i \in 1 .. Len(s) : FrameOK(s[i])
  /\ \A i, j \in 1 .. Len(s) : i # j /\ s[i].kind = "static" => s[i] # s[j]
  /\ \A i \in 1 .. Len(s) : s[i].kind = "static" => g[s[i].of] = "busy"

LEMMA Pushed ==
  ASSUME NEW s, NEW g, Nested(s, g), NEW f \in Frames, FrameOK(f), f.kind # "static"
  PROVE  Nested(Append(s, f), g)
<1> DEFINE a == Append(s, f)
<1>1. s \in Seq(Frames) /\ s # <<>>
  BY DEF Nested
<1>2. /\ a \in Seq(Frames) /\ a # <<>> /\ Len(a) = Len(s) + 1 /\ Len(s) \in Nat /\ a[Len(s) + 1] = f
      /\ \A i \in 1 .. Len(s) : a[i] = s[i]
  BY <1>1, AppendIs
<1>3. 1 \in 1 .. Len(s)
  BY <1>1
<1> HIDE DEF a
<1>4. \A i \in 1 .. Len(a) : i \in 1 .. Len(s) \/ i = Len(s) + 1
  BY <1>2
<1>5. a[1].kind \in {"main", "exit"}
  BY <1>2, <1>3 DEF Nested
<1>6. \A i \in 1 .. Len(a) : FrameOK(a[i])
  BY <1>2, <1>4 DEF Nested
<1>7. ASSUME NEW i \in 1 .. Len(a), NEW j \in 1 .. Len(a), i # j, a[i].kind = "static" PROVE a[i] # a[j]
  BY <1>2, <1>4, <1>7 DEF Nested
<1>8. \A i \in 1 .. Len(a) : a[i].kind = "static" => g[a[i].of] = "busy"
  BY <1>2, <1>4 DEF Nested
<1>9. Nested(a, g)
  BY <1>2, <1>5, <1>6, <1>7, <1>8 DEF Nested
<1> QED BY <1>9 DEF a

LEMMA PushedStatic ==
  ASSUME NEW s, NEW g \in Guards, Nested(s, g), NEW o \in Statics, g[o] # "busy"
  PROVE  Nested(Append(s, Frame("static", o)), [g EXCEPT ![o] = "busy"])
<1> DEFINE f == Frame("static", o)
           a == Append(s, f)
           h == [g EXCEPT ![o] = "busy"]
<1>1. s \in Seq(Frames) /\ s # <<>>
  BY DEF Nested
<1>2. f \in Frames /\ f.kind = "static" /\ f.of = o
  BY DEF Frame, Frames, Kinds
<1>3. h[o] = "busy" /\ \A p \in Statics : p # o => h[p] = g[p]
  BY DEF Guards
<1> HIDE DEF f, h
<1>4. /\ a \in Seq(Frames) /\ a # <<>> /\ Len(a) = Len(s) + 1 /\ Len(s) \in Nat /\ a[Len(s) + 1] = f
      /\ \A i \in 1 .. Len(s) : a[i] = s[i]
  BY <1>1, <1>2, AppendIs
<1>5. 1 \in 1 .. Len(s)
  BY <1>1
<1> HIDE DEF a
<1>6. \A i \in 1 .. Len(a) : i \in 1 .. Len(s) \/ i = Len(s) + 1
  BY <1>4
<1>7. \A i \in 1 .. Len(s) : s[i].kind = "static" => s[i].of \in Statics /\ s[i].of # o
  BY DEF Nested, FrameOK
<1>8. a[1].kind \in {"main", "exit"}
  BY <1>4, <1>5 DEF Nested
<1>9. \A i \in 1 .. Len(a) : FrameOK(a[i])
  BY <1>2, <1>4, <1>6 DEF Nested, FrameOK
<1>10. ASSUME NEW i \in 1 .. Len(a), NEW j \in 1 .. Len(a), i # j, a[i].kind = "static" PROVE a[i] # a[j]
  <2>1. CASE i \in 1 .. Len(s) /\ j \in 1 .. Len(s)
    BY <1>4, <1>10, <2>1 DEF Nested
  <2>2. CASE i = Len(s) + 1 /\ j \in 1 .. Len(s)
    BY <1>2, <1>4, <1>7, <2>2
  <2>3. CASE i \in 1 .. Len(s) /\ j = Len(s) + 1
    BY <1>2, <1>4, <1>7, <1>10, <2>3
  <2> QED BY <1>6, <1>10, <2>1, <2>2, <2>3
<1>11. \A i \in 1 .. Len(a) : a[i].kind = "static" => h[a[i].of] = "busy"
  BY <1>2, <1>3, <1>4, <1>6, <1>7 DEF Nested
<1>12. Nested(a, h)
  BY <1>4, <1>8, <1>9, <1>10, <1>11 DEF Nested
<1> QED BY <1>12 DEF a, f, h

LEMMA Popped ==
  ASSUME NEW s, NEW g, Nested(s, g), Last(s).kind \notin {"main", "exit"}
  PROVE  /\ Nested(Front(s), g)
         /\ Last(s).kind = "static" => /\ Last(s).of \in Statics
                                       /\ \A i \in 1 .. Len(Front(s)) :
                                            Front(s)[i].kind = "static" => Front(s)[i].of # Last(s).of
<1> DEFINE f == Front(s)
           l == Last(s)
<1>1. s \in Seq(Frames) /\ s # <<>>
  BY DEF Nested
<1>2. /\ f \in Seq(Frames) /\ Len(s) \in Nat \ {0} /\ Len(f) = Len(s) - 1 /\ l = s[Len(s)]
      /\ \A i \in 1 .. Len(f) : f[i] = s[i]
  BY <1>1, FrontIs
<1>3. Len(s) # 1
  BY <1>2 DEF Nested
<1>4. f # <<>> /\ 1 \in 1 .. Len(f)
  BY <1>2, <1>3
<1>5. Len(s) \in 1 .. Len(s) /\ \A i \in 1 .. Len(f) : i \in 1 .. Len(s) /\ i # Len(s)
  BY <1>2
<1> HIDE DEF f, l
<1>9. /\ f[1].kind \in {"main", "exit"}
      /\ \A i \in 1 .. Len(f) : FrameOK(f[i]) /\ (f[i].kind = "static" => g[f[i].of] = "busy")
  BY <1>2, <1>4, <1>5 DEF Nested
<1>10. ASSUME NEW i \in 1 .. Len(f), NEW j \in 1 .. Len(f), i # j, f[i].kind = "static" PROVE f[i] # f[j]
  <2>1. f[i] = s[i] /\ f[j] = s[j] /\ i \in 1 .. Len(s) /\ j \in 1 .. Len(s)
    BY <1>2, <1>5
  <2>2. s[i] # s[j]
    BY <1>10, <2>1 DEF Nested
  <2> QED BY <2>1, <2>2
<1>6. Nested(f, g)
  BY <1>2, <1>4, <1>9, <1>10 DEF Nested
<1>7. ASSUME l.kind = "static", NEW i \in 1 .. Len(f), f[i].kind = "static" PROVE f[i].of # l.of
  <2>1. f[i] = s[i] /\ i \in 1 .. Len(s) /\ i # Len(s)
    BY <1>2, <1>5
  <2>2. f[i] \in Frames /\ l \in Frames
    BY <1>1, <1>2, <1>5, <2>1
  <2>3. f[i] # l
    BY <1>2, <1>5, <1>7, <2>1 DEF Nested
  <2> QED BY <1>7, <2>2, <2>3 DEF Frames
<1>8. l.kind = "static" => l.of \in Statics
  BY <1>2, <1>5 DEF Nested, FrameOK
<1> QED BY <1>6, <1>7, <1>8 DEF f, l

LEMMA PoppedStatic ==
  ASSUME NEW s, NEW g \in Guards, Nested(s, g), Last(s).kind = "static"
  PROVE  Nested(Front(s), [g EXCEPT ![Last(s).of] = "done"])
<1> DEFINE f == Front(s)
           o == Last(s).of
           h == [g EXCEPT ![o] = "done"]
<1>1. Nested(f, g) /\ o \in Statics /\ \A i \in 1 .. Len(f) : f[i].kind = "static" => f[i].of # o
  BY Popped
<1>2. \A p \in Statics : p # o => h[p] = g[p]
  BY DEF Guards
<1> HIDE DEF f, o, h
<1>3. \A i \in 1 .. Len(f) : f[i].kind = "static" => h[f[i].of] = "busy"
  BY <1>1, <1>2 DEF Nested, FrameOK
<1>4. Nested(f, h)
  BY <1>1, <1>3 DEF Nested
<1> QED BY <1>4 DEF f, o, h

-----------------------------------------------------------------------------
(* The inductive invariant: the lists, the stack, and what the end means.  *)

Lists ==
  /\ destructors \in Seq(Entries) /\ quick_handlers \in Seq(Nat) /\ log \in Seq(Nat)
  /\ Len(destructors) <= HandlerCapacity /\ Len(quick_handlers) <= HandlerCapacity
  /\ registered \in Nat /\ accepted \subseteq 1 .. registered /\ quick \subseteq 1 .. registered
  /\ accepted \cap quick = {} /\ ToSet(log) \subseteq accepted \cup quick
  /\ ListHolds(destructors, accepted, ToSet(log))
  /\ QuickHolds(quick_handlers, quick, ToSet(log))
  /\ OnceEach

Nesting == guard \in Guards /\ status \in {"running", "done", "error"} /\ Nested(stack, guard)

ExitInv == Lists /\ Nesting /\ ExitRunsAll

LEMMA ListsInit == ExitInit => ExitInv
<1> SUFFICES ASSUME ExitInit PROVE ExitInv
  OBVIOUS
<1>1. ToSet(log) = {} /\ Len(destructors) = 0 /\ Len(quick_handlers) = 0 /\ OnceEach
  BY DEF ExitInit, ToSet, OnceEach, IsInjective
<1>2. Lists
  <2>1. ListHolds(destructors, accepted, ToSet(log)) /\ QuickHolds(quick_handlers, quick, ToSet(log))
    BY <1>1 DEF ExitInit, ListHolds, QuickHolds
  <2>2. HandlerCapacity \in Nat
    BY ExitAssumption
  <2> QED BY <1>1, <2>1, <2>2 DEF ExitInit, Lists
<1>3. Main \in Frames /\ FrameOK(Main) /\ Main.kind = "main"
  BY DEF Main, Frame, Frames, FrameOK, Kinds
<1>4. Nested(stack, guard)
  BY <1>3 DEF ExitInit, Nested
<1>5. Nesting
  BY <1>4 DEF ExitInit, Nesting, Guards
<1>6. ExitRunsAll
  BY DEF ExitInit, ExitRunsAll
<1> QED BY <1>2, <1>5, <1>6 DEF ExitInv

\* Registration gives the new entry an id no list and no call has had.
LEMMA RegistrationKeepsLists ==
  ASSUME Lists, NEW dso \in Dsos \cup {NullDso}, CxaAtexit(dso), UNCHANGED <<quick_handlers, quick, log>>
  PROVE  Lists'
<1> DEFINE c == Compacted(destructors)
           e == [id |-> registered + 1, dso |-> dso, active |-> TRUE]
<1>1. c \in Seq(Entries) /\ Len(c) <= Len(destructors) /\ ListHolds(c, accepted, ToSet(log))
  BY CompactedHolds DEF Lists
<1>2. e \in Entries /\ e.id = registered + 1 /\ e.active
  BY DEF Lists, Entries
<1>3. ToSet(log) \subseteq 1 .. registered /\ accepted \subseteq 1 .. registered /\ registered \in Nat
  BY DEF Lists
<1>4. registered' = registered + 1 /\ 1 .. registered \subseteq 1 .. registered' /\ registered + 1 \in 1 .. registered'
      /\ registered + 1 \notin 1 .. registered
  BY <1>3 DEF CxaAtexit
<1> HIDE DEF c, e
<1>5. ListHolds(Append(c, e), accepted \cup {registered + 1}, ToSet(log))
  BY <1>1, <1>2, <1>3, AppendHolds
<1>6. \/ Len(c) = HandlerCapacity /\ destructors' = c /\ accepted' = accepted
      \/ Len(c) # HandlerCapacity /\ destructors' = Append(c, e) /\ accepted' = accepted \cup {registered + 1}
  BY DEF CxaAtexit, c, e
<1>7. Len(c) \in Nat /\ HandlerCapacity \in Nat /\ Len(Append(c, e)) = Len(c) + 1 /\ Append(c, e) \in Seq(Entries)
  BY <1>1, <1>2, AppendIs, ExitAssumption
<1>8. Len(c) <= HandlerCapacity
  BY <1>1, <1>7 DEF Lists
<1>9. /\ destructors' \in Seq(Entries) /\ Len(destructors') <= HandlerCapacity
      /\ ListHolds(destructors', accepted', ToSet(log)) /\ accepted' \subseteq 1 .. registered'
      /\ accepted' \cap quick = {} /\ accepted \subseteq accepted'
  <2>1. CASE destructors' = c /\ accepted' = accepted
    BY <1>1, <1>4, <1>8, <2>1 DEF Lists
  <2>2. CASE Len(c) # HandlerCapacity /\ destructors' = Append(c, e) /\ accepted' = accepted \cup {registered + 1}
    BY <1>4, <1>5, <1>7, <1>8, <2>2 DEF Lists
  <2> QED BY <1>6, <2>1, <2>2
<1>10. ToSet(log)' = ToSet(log) /\ OnceEach' /\ UNCHANGED <<quick_handlers, quick, log>>
  BY DEF Lists, OnceEach
<1>11. quick' \subseteq 1 .. registered' /\ registered' \in Nat
  BY <1>4, <1>10 DEF Lists
<1>12. accepted' \cap quick' = {} /\ ToSet(log') \subseteq accepted' \cup quick'
  BY <1>9, <1>10 DEF Lists
<1>13. QuickHolds(quick_handlers, quick, ToSet(log))'
  BY <1>10 DEF Lists
<1>14. ListHolds(destructors, accepted, ToSet(log))'
  BY <1>9, <1>10
<1> QED BY <1>9, <1>10, <1>11, <1>12, <1>13, <1>14 DEF Lists

LEMMA QuickRegistrationKeepsLists ==
  ASSUME Lists, AtQuickExit
  PROVE  Lists'
<1>1. ToSet(log) \subseteq 1 .. registered /\ quick \subseteq 1 .. registered /\ registered \in Nat
      /\ QuickHolds(quick_handlers, quick, ToSet(log)) /\ quick_handlers \in Seq(Nat)
  BY DEF Lists
<1>2. registered' = registered + 1 /\ 1 .. registered \subseteq 1 .. registered' /\ registered + 1 \in 1 .. registered'
      /\ registered + 1 \notin 1 .. registered /\ registered + 1 \in Nat
  BY <1>1 DEF AtQuickExit
<1>3. QuickHolds(Append(quick_handlers, registered + 1), quick \cup {registered + 1}, ToSet(log))
  BY <1>1, QuickAppendHolds
<1>4. /\ Append(quick_handlers, registered + 1) \in Seq(Nat) /\ Len(quick_handlers) \in Nat
      /\ Len(Append(quick_handlers, registered + 1)) = Len(quick_handlers) + 1 /\ HandlerCapacity \in Nat
  BY <1>1, <1>2, AppendIs, ExitAssumption
<1>5. /\ quick_handlers' \in Seq(Nat) /\ Len(quick_handlers') <= HandlerCapacity
      /\ QuickHolds(quick_handlers', quick', ToSet(log)) /\ quick' \subseteq 1 .. registered'
      /\ accepted \cap quick' = {} /\ quick \subseteq quick'
  <2>1. CASE UNCHANGED <<quick_handlers, quick>>
    BY <1>1, <1>2, <2>1 DEF Lists
  <2>2. CASE /\ Len(quick_handlers) # HandlerCapacity
             /\ quick_handlers' = Append(quick_handlers, registered + 1) /\ quick' = quick \cup {registered + 1}
    BY <1>2, <1>3, <1>4, <2>2 DEF Lists
  <2> QED BY <2>1, <2>2 DEF AtQuickExit
<1>6. UNCHANGED <<destructors, accepted, log>>
  BY DEF AtQuickExit
<1>7. ToSet(log)' = ToSet(log) /\ OnceEach'
  BY <1>6 DEF Lists, OnceEach
<1> QED BY <1>2, <1>5, <1>6, <1>7 DEF Lists

\* A handler called is no longer in the list it came from.
LEMMA CallKeepsLists ==
  ASSUME Lists, NEW dso, Waiting(dso) # {}, Taken(NextHandler(dso)),
         log' = Append(log, destructors[NextHandler(dso)].id),
         UNCHANGED <<quick_handlers, registered, accepted, quick>>
  PROVE  Lists'
<1> DEFINE i == NextHandler(dso)
           x == destructors[i].id
<1>1. i \in 1 .. Len(destructors) /\ destructors[i].active
  BY NextHandlerIs DEF Lists, Waiting
<1>2. x \in accepted /\ x \notin ToSet(log) /\ x \in Nat
  <2>1. destructors[i] \in Entries
    BY <1>1 DEF Lists
  <2> QED BY <1>1, <2>1 DEF Lists, ListHolds, Entries
<1>3. destructors' = [destructors EXCEPT ![i].active = FALSE]
  BY DEF Taken
<1> HIDE DEF i
<1>4. destructors' \in Seq(Entries) /\ Len(destructors') = Len(destructors)
      /\ ListHolds(destructors', accepted, ToSet(log) \cup {x})
  BY <1>1, <1>3, TakenHolds DEF Lists
<1>5. log' = Append(log, x)
  BY DEF i
<1> HIDE DEF x
<1>6. log' \in Seq(Nat) /\ ToSet(log') = ToSet(log) \cup {x} /\ IsInjective(log')
  <2>1. log \in Seq(Nat) /\ IsInjective(log)
    BY DEF Lists, OnceEach
  <2> QED BY <1>2, <1>5, <2>1, AppendIs, ToSetAppend, InjectiveAppend
<1>7. x \notin quick
  BY <1>2 DEF Lists
<1>8. QuickHolds(quick_handlers, quick, ToSet(log) \cup {x})
  BY <1>7 DEF Lists, QuickHolds
<1>9. ToSet(log)' = ToSet(log) \cup {x} /\ OnceEach'
  BY <1>6 DEF OnceEach
<1> QED BY <1>2, <1>4, <1>6, <1>8, <1>9 DEF Lists

LEMMA QuickCallKeepsLists ==
  ASSUME Lists, quick_handlers # <<>>, quick_handlers' = Front(quick_handlers),
         log' = Append(log, Last(quick_handlers)),
         UNCHANGED <<destructors, registered, accepted, quick>>
  PROVE  Lists'
<1> DEFINE x == Last(quick_handlers)
<1>1. quick_handlers \in Seq(Nat) /\ QuickHolds(quick_handlers, quick, ToSet(log)) /\ HandlerCapacity \in Nat
  BY ExitAssumption DEF Lists
<1>2. QuickHolds(quick_handlers', quick, ToSet(log) \cup {x}) /\ x \in quick \ ToSet(log)
  BY <1>1, QuickFrontHolds
<1>3. x \in Nat /\ quick_handlers' \in Seq(Nat) /\ Len(quick_handlers') = Len(quick_handlers) - 1
      /\ Len(quick_handlers) \in Nat
  BY <1>1, FrontIs
<1>4. log' = Append(log, x)
  OBVIOUS
<1> HIDE DEF x
<1>5. log' \in Seq(Nat) /\ ToSet(log') = ToSet(log) \cup {x} /\ IsInjective(log')
  <2>1. log \in Seq(Nat) /\ IsInjective(log)
    BY DEF Lists, OnceEach
  <2> QED BY <1>2, <1>3, <1>4, <2>1, AppendIs, ToSetAppend, InjectiveAppend
<1>6. x \notin accepted
  BY <1>2 DEF Lists
<1>7. ListHolds(destructors, accepted, ToSet(log) \cup {x})
  BY <1>6 DEF Lists, ListHolds
<1>8. ToSet(log)' = ToSet(log) \cup {x} /\ OnceEach'
  BY <1>5 DEF OnceEach
<1>9. Len(quick_handlers') <= HandlerCapacity
  BY <1>1, <1>3 DEF Lists
<1> QED BY <1>2, <1>3, <1>5, <1>7, <1>8, <1>9 DEF Lists

LEMMA ListsStep ==
  ASSUME Lists, [ExitNext]_exitVars
  PROVE  Lists'
<1>1. ASSUME UNCHANGED <<destructors, quick_handlers, registered, accepted, quick, log>> PROVE Lists'
  BY <1>1 DEF Lists, OnceEach
<1>2. CASE Register
  BY <1>2, RegistrationKeepsLists DEF Register
<1>3. CASE AtQuickExit
  BY <1>3, QuickRegistrationKeepsLists
<1>4. CASE Constructed
  BY <1>4, RegistrationKeepsLists DEF Constructed
<1>5. CASE FinalizeStep
  <2>1. CASE NoneLeft(Top.of)
    BY <1>1, <1>5, <2>1 DEF FinalizeStep
  <2>2. CASE ~ NoneLeft(Top.of)
    BY <1>5, <2>2, CallKeepsLists DEF FinalizeStep
  <2> QED BY <2>1, <2>2
<1>6. CASE QuickStep
  BY <1>1, <1>6, QuickCallKeepsLists DEF QuickStep
<1>7. CASE ReachStatic \/ Finalize \/ Exit \/ MainReturns \/ QuickExit \/ HandlerReturns \/ UNCHANGED exitVars
  BY <1>1, <1>7 DEF ReachStatic, Finalize, Exit, MainReturns, QuickExit, HandlerReturns, exitVars
<1> QED BY <1>2, <1>3, <1>4, <1>5, <1>6, <1>7 DEF ExitNext

LEMMA NestingStep ==
  ASSUME Nesting, [ExitNext]_exitVars
  PROVE  Nesting'
<1>1. stack \in Seq(Frames) /\ stack # <<>> /\ guard \in Guards /\ Nested(stack, guard)
      /\ stack[1].kind \in {"main", "exit"}
  BY DEF Nesting, Nested
<1>2. \A kind \in Kinds \ {"static"} : \A of \in Dsos \cup {NullDso} \cup Statics :
        /\ Frame(kind, of) \in Frames /\ Frame(kind, of).kind = kind
        /\ (kind = "exit" => of = NullDso) => FrameOK(Frame(kind, of))
  BY DEF Frame, Frames, FrameOK
<1>3. Top \in Frames /\ (Top.kind = "exit" => Top.of = NullDso)
  <2>1. Len(stack) \in 1 .. Len(stack) /\ Top = stack[Len(stack)] /\ Top \in Frames
    BY <1>1, FrontIs DEF Top
  <2> QED BY <2>1 DEF Nesting, Nested, FrameOK
<1>4. CASE UNCHANGED <<guard, stack, status>>
  BY <1>4 DEF Nesting
<1>5. CASE Register \/ AtQuickExit \/ UNCHANGED exitVars
  BY <1>4, <1>5 DEF Register, AtQuickExit, exitVars
<1>6. CASE ReachStatic
  <2>1. PICK o \in Statics :
          \/ Acquire(o) = "abort" /\ status' = "error" /\ UNCHANGED <<guard, stack>>
          \/ /\ Acquire(o) = "construct" /\ UNCHANGED status
             /\ guard' = [guard EXCEPT ![o] = "busy"] /\ stack' = Append(stack, Frame("static", o))
    BY <1>6 DEF ReachStatic
  <2>2. CASE status' = "error" /\ UNCHANGED <<guard, stack>>
    BY <2>2 DEF Nesting
  <2>3. CASE /\ Acquire(o) = "construct" /\ UNCHANGED status
             /\ guard' = [guard EXCEPT ![o] = "busy"] /\ stack' = Append(stack, Frame("static", o))
    <3>1. guard[o] # "busy"
      BY <2>3 DEF Acquire
    <3>2. Nested(stack', guard')
      BY <1>1, <2>3, <3>1, PushedStatic
    <3>3. guard' \in Guards
      BY <1>1, <2>3 DEF Guards
    <3> QED BY <2>3, <3>2, <3>3 DEF Nesting
  <2> QED BY <2>1, <2>2, <2>3
<1>7. CASE Constructed
  <2>1. Nested(stack', guard')
    BY <1>1, <1>7, PoppedStatic DEF Constructed, Top
  <2>2. guard' \in Guards /\ UNCHANGED status
    BY <1>1, <1>7 DEF Constructed, Guards
  <2> QED BY <2>1, <2>2 DEF Nesting
<1>8. CASE Finalize
  <2>1. PICK dso \in Dsos \cup {NullDso} : stack' = Append(stack, Frame("finalize", dso))
    BY <1>8 DEF Finalize
  <2>2. Frame("finalize", dso) \in Frames /\ FrameOK(Frame("finalize", dso)) /\ Frame("finalize", dso).kind = "finalize"
    BY <1>2 DEF Kinds
  <2>3. Nested(stack', guard)
    BY <1>1, <2>1, <2>2, Pushed
  <2> QED BY <1>8, <2>3 DEF Nesting, Finalize
<1>9. CASE Exit \/ QuickExit
  <2>1. ASSUME NEW kind \in {"exit", "quick"}, stack' = Append(stack, Frame(kind, NullDso)) PROVE Nested(stack', guard)
    <3>1. Frame(kind, NullDso) \in Frames /\ FrameOK(Frame(kind, NullDso)) /\ Frame(kind, NullDso).kind # "static"
      BY <1>2, <2>1 DEF Kinds
    <3> QED BY <1>1, <2>1, <3>1, Pushed
  <2>2. Nested(stack', guard)
    BY <1>9, <2>1 DEF Exit, Exiting, QuickExit
  <2> QED BY <1>9, <2>2 DEF Nesting, Exit, Exiting, QuickExit
<1>10. CASE MainReturns
  <2> DEFINE f == Front(stack)
             e == Frame("exit", NullDso)
  <2>1. e \in Frames /\ FrameOK(e) /\ e.kind = "exit"
    BY <1>2 DEF Kinds
  <2>2. /\ f \in Seq(Frames) /\ Len(stack) \in Nat \ {0} /\ Len(f) = Len(stack) - 1
        /\ \A i \in 1 .. Len(f) : f[i] = stack[i]
    BY <1>1, FrontIs
  <2>3. stack' = Append(f, e)
    BY <1>10 DEF MainReturns, Replaced
  <2> HIDE DEF f, e
  <2>4. CASE Len(f) = 0
    <3>1. stack' = <<e>>
      BY <2>2, <2>3, <2>4
    <3>2. Nested(stack', guard)
      BY <2>1, <3>1 DEF Nested
    <3> QED BY <1>10, <3>2 DEF Nesting, MainReturns
  <2>5. CASE Len(f) # 0
    <3>1. f # <<>> /\ 1 \in 1 .. Len(f) /\ \A i \in 1 .. Len(f) : i \in 1 .. Len(stack)
      BY <2>2, <2>5
    <3>2. Nested(f, guard)
      BY <1>1, <2>2, <3>1 DEF Nested
    <3>3. Nested(stack', guard)
      BY <2>1, <2>3, <3>2, Pushed
    <3> QED BY <1>10, <3>3 DEF Nesting, MainReturns
  <2> QED BY <2>4, <2>5
<1>11. ASSUME NEW of \in Dsos \cup {NullDso} \cup Statics, stack' = Append(stack, Frame("handler", of))
       PROVE  Nested(stack', guard)
  <2>1. Frame("handler", of) \in Frames /\ FrameOK(Frame("handler", of)) /\ Frame("handler", of).kind = "handler"
    BY <1>2 DEF Kinds
  <2> QED BY <1>1, <1>11, <2>1, Pushed
<1>12. CASE FinalizeStep
  <2>1. Top.of \in Dsos \cup {NullDso} \cup Statics /\ UNCHANGED guard
    BY <1>3, <1>12 DEF Frames, FinalizeStep
  <2>2. CASE stack' = Append(stack, Frame("handler", Top.of)) /\ UNCHANGED status
    <3>1. Nested(stack', guard)
      BY <1>11, <2>1, <2>2
    <3> QED BY <2>1, <2>2, <3>1 DEF Nesting
  <2>3. CASE EndProgram
    BY <2>1, <2>3 DEF EndProgram, Nesting
  <2>4. CASE Top.kind = "finalize" /\ stack' = Front(stack) /\ UNCHANGED status
    <3>1. Nested(stack', guard)
      BY <1>1, <2>4, Popped DEF Top
    <3> QED BY <2>1, <2>4, <3>1 DEF Nesting
  <2> QED BY <1>12, <2>2, <2>3, <2>4 DEF FinalizeStep
<1>13. CASE QuickStep
  <2>1. UNCHANGED guard
    BY <1>13 DEF QuickStep
  <2>2. CASE EndProgram
    BY <2>1, <2>2 DEF EndProgram, Nesting
  <2>3. CASE stack' = Append(stack, Frame("handler", NullDso)) /\ UNCHANGED status
    <3>1. Nested(stack', guard)
      BY <1>11, <2>3
    <3> QED BY <2>1, <2>3, <3>1 DEF Nesting
  <2> QED BY <1>13, <2>2, <2>3 DEF QuickStep
<1>14. CASE HandlerReturns
  <2>1. Nested(stack', guard)
    BY <1>1, <1>14, Popped DEF HandlerReturns, Top
  <2> QED BY <1>14, <2>1 DEF Nesting, HandlerReturns
<1> QED BY <1>5, <1>6, <1>7, <1>8, <1>9, <1>10, <1>12, <1>13, <1>14 DEF ExitNext

\* The program ends only from the two loops, and each only when its list is empty.
LEMMA EndStep ==
  ASSUME Lists, Nesting, ExitRunsAll, [ExitNext]_exitVars
  PROVE  ExitRunsAll'
<1>1. CASE status' # "done"
  BY <1>1 DEF ExitRunsAll
<1>2. CASE UNCHANGED exitVars
  BY <1>2 DEF ExitRunsAll, exitVars, Top
<1>3. ASSUME UNCHANGED status, ExitNext PROVE status' # "done"
  BY <1>3 DEF ExitNext, Register, AtQuickExit, ReachStatic, Constructed, Finalize, Exit, MainReturns, QuickExit,
              FinalizeStep, QuickStep, HandlerReturns, InProgram
<1>4. CASE FinalizeStep /\ EndProgram
  <2>1. Top.kind = "exit" /\ Waiting(Top.of) = {} /\ UNCHANGED <<log, accepted, stack>>
    <3>1. status = "running" /\ status' = "done" /\ UNCHANGED <<accepted, stack>> /\ Top.kind \in {"finalize", "exit"}
      BY <1>4 DEF FinalizeStep, EndProgram
    <3>2. NoneLeft(Top.of)
      BY <1>4, <3>1 DEF FinalizeStep
    <3>3. UNCHANGED log
      BY <1>4, <3>2 DEF FinalizeStep
    <3>4. Top.kind = "exit"
      <4>1. stack \in Seq(Frames) /\ stack # <<>>
        BY DEF Nesting, Nested
      <4>2. Front(stack) # stack
        BY <4>1, FrontIs
      <4> QED BY <1>4, <3>1, <3>2, <4>2 DEF FinalizeStep
    <3> QED BY <3>1, <3>2, <3>3, <3>4 DEF NoneLeft
  <2>2. Top.of = NullDso
    <3>1. stack \in Seq(Frames) /\ stack # <<>>
      BY DEF Nesting, Nested
    <3>2. Len(stack) \in 1 .. Len(stack) /\ Top = stack[Len(stack)]
      <4>1. Len(stack) \in Nat \ {0} /\ Last(stack) = stack[Len(stack)]
        BY <3>1, FrontIs
      <4> QED BY <4>1 DEF Top
    <3> QED BY <2>1, <3>2 DEF Nesting, Nested, FrameOK
  <2>3. \A i \in 1 .. Len(destructors) : ~ destructors[i].active
    BY <2>1, <2>2 DEF Waiting
  <2>4. accepted \subseteq ToSet(log)
    BY <2>3 DEF Lists, ListHolds
  <2>5. Top' = Top /\ ToSet(log)' = ToSet(log) /\ accepted' = accepted
    BY <2>1 DEF Top
  <2> QED BY <2>1, <2>4, <2>5 DEF ExitRunsAll
<1>5. CASE QuickStep /\ EndProgram
  <2>1. Top.kind = "quick" /\ UNCHANGED <<quick, stack>>
    BY <1>5 DEF QuickStep, EndProgram
  <2>2. quick_handlers = <<>> /\ UNCHANGED log
    <3>1. status = "running" /\ status' = "done"
      BY <1>5 DEF QuickStep, EndProgram
    <3> QED BY <1>5, <3>1 DEF QuickStep
  <2>3. Len(quick_handlers) = 0
    BY <2>2
  <2>4. quick \subseteq ToSet(log)
    BY <2>3 DEF Lists, QuickHolds
  <2>5. Top' = Top /\ ToSet(log)' = ToSet(log) /\ quick' = quick
    BY <2>1, <2>2 DEF Top
  <2> QED BY <2>1, <2>4, <2>5 DEF ExitRunsAll
<1>6. ASSUME ExitNext PROVE \/ UNCHANGED status
                            \/ status' = "error"
                            \/ FinalizeStep /\ EndProgram
                            \/ QuickStep /\ EndProgram
  <2>1. CASE FinalizeStep
    BY <2>1 DEF FinalizeStep
  <2>2. CASE QuickStep
    BY <2>2 DEF QuickStep
  <2>3. CASE ~ FinalizeStep /\ ~ QuickStep
    BY <1>6, <2>3 DEF ExitNext, Register, AtQuickExit, ReachStatic, Constructed, Finalize, Exit, Exiting,
                      MainReturns, QuickExit, HandlerReturns
  <2> QED BY <2>1, <2>2, <2>3
<1>7. CASE ExitNext /\ status' = "error"
  BY <1>7, <1>1
<1> QED BY <1>1, <1>2, <1>3, <1>4, <1>5, <1>6, <1>7

\* For every capacity and depth, statics and libraries: what the lists hold,
\* how the calls nest and what has been called when the program ends
\* (__cxa_atexit, __cxa_finalize, exit, quick_exit and the guards of statics).
THEOREM ExitInvariant == ExitSpec => []ExitInv
<1>1. ExitInv /\ [ExitNext]_exitVars => ExitInv'
  BY ListsStep, NestingStep, EndStep DEF ExitInv
<1> QED BY ListsInit, <1>1, PTL DEF ExitSpec

\* Every accepted handler is called once, all of them before the program ends,
\* and a static is not constructed while it is being constructed or again.
THEOREM RunsOnce == ExitSpec => []EachRunsOnce
<1>1. ExitInv => EachRunsOnce
  <2> SUFFICES ASSUME ExitInv PROVE EachRunsOnce
    OBVIOUS
  <2>1. ExitTypeOK
    BY DEF ExitInv, Lists, Nesting, Guards, Nested, ExitTypeOK
  <2>2. OnceEach /\ ExitRunsAll
    BY DEF ExitInv, Lists
  <2>3. ASSUME NEW h \in accepted \ ToSet(log) PROVE h \in {destructors[i].id : i \in Waiting(NullDso)}
    <3>1. PICK i \in 1 .. Len(destructors) : destructors[i].id = h /\ destructors[i].active
      BY DEF ExitInv, Lists, ListHolds
    <3>2. i \in Waiting(NullDso)
      BY <3>1 DEF Waiting
    <3> QED BY <3>1, <3>2
  <2>4. NoneForgotten
    BY <2>3 DEF NoneForgotten
  <2>5. ConstructedOnce
    BY DEF ExitInv, Nesting, Nested, ConstructedOnce
  <2> QED BY <2>1, <2>2, <2>4, <2>5 DEF EachRunsOnce
<1> QED BY <1>1, ExitInvariant, PTL

\* No call overtakes a later registration that the same finalization would
\* call (the search of __cxa_finalize from the end of the list).
THEOREM YoungestFirst == ExitSpec => LatestFirst
<1>1. ASSUME ExitInv, [ExitNext]_exitVars, log' # log, Top.kind # "quick", NEW j \in Waiting(Top.of)
      PROVE  destructors[j].id <= Last(log')
  <2> DEFINE i == NextHandler(Top.of)
  <2>1. log' = Append(log, destructors[i].id) /\ Waiting(Top.of) # {}
    BY <1>1 DEF ExitNext, exitVars, Register, CxaAtexit, AtQuickExit, ReachStatic, Constructed, Finalize, Exit,
                Exiting, MainReturns, QuickExit, FinalizeStep, QuickStep, HandlerReturns
  <2>2. i \in Waiting(Top.of) /\ j <= i
    BY <1>1, <2>1, NextHandlerIs DEF ExitInv, Lists
  <2> HIDE DEF i
  <2>3. i \in 1 .. Len(destructors) /\ j \in 1 .. Len(destructors) /\ i \in Int /\ j \in Int
    BY <2>2 DEF Waiting
  <2>4. destructors[i].id \in Nat /\ destructors[j].id \in Nat
    <3>1. destructors[i] \in Entries /\ destructors[j] \in Entries
      BY <1>1, <2>3 DEF ExitInv, Lists
    <3> QED BY <3>1 DEF Entries
  <2>5. j < i => destructors[j].id < destructors[i].id
    BY <1>1, <2>3 DEF ExitInv, Lists, ListHolds
  <2>6. Last(log') = destructors[i].id
    BY <1>1, <2>1, <2>4, AppendIs DEF ExitInv, Lists
  <2>7. j = i \/ j < i
    BY <2>2, <2>3
  <2> QED BY <2>4, <2>5, <2>6, <2>7
<1>2. ExitInv /\ [ExitNext]_exitVars => [CallsLatest]_exitVars
  BY <1>1 DEF CallsLatest
<1> QED BY <1>2, ExitInvariant, PTL DEF ExitSpec, LatestFirst

-----------------------------------------------------------------------------
\* The root of a heap is its largest element: the least place of a larger one
\* would have a parent that is larger, too.
LEMMA RootIsLargest ==
  ASSUME NEW n \in Nat, NEW a,
         \A i \in 0 .. n - 1 : a[i].key \in Int,
         \A i \in 0 .. n - 1 : \A c \in {i * 2 + 1, i * 2 + 2} : c < n => a[c].key <= a[i].key
  PROVE  \A i \in 0 .. n - 1 : a[i].key <= a[0].key
<1> DEFINE T == {i \in 0 .. n - 1 : a[i].key > a[0].key}
<1>1. SUFFICES ASSUME T # {} PROVE FALSE
  OBVIOUS
<1>2. T \in SUBSET Nat
  OBVIOUS
<1>3. PICK x \in T : \A y \in T : x <= y
  <2> HIDE DEF T
  <2> QED BY <1>1, <1>2, LeastElement
<1>4. x \in 0 .. n - 1 /\ x # 0
  BY <1>3
<1> DEFINE p == (x - 1) \div 2
<1>5. p \in 0 .. n - 1 /\ p < x /\ x \in {p * 2 + 1, p * 2 + 2}
  BY <1>4
<1>6. p \notin T
  BY <1>3, <1>5
<1>7. a[p].key <= a[0].key
  BY <1>5, <1>6
<1>8. a[x].key <= a[p].key
  BY <1>4, <1>5
<1> QED BY <1>3, <1>4, <1>5, <1>7, <1>8

-----------------------------------------------------------------------------
\* memmove: what was moved so far, counted from either side.
MoveInv ==
  function = "memmove" =>
    /\ count \in Nat /\ from \in Nat /\ to \in Nat /\ bytes \in Nat
    /\ from + bytes <= count /\ to + bytes <= count
    /\ start \in Nat /\ end \in Nat /\ start <= end /\ end <= bytes
    /\ array \in [Places -> Int] /\ original \in [Places -> Int]
    /\ Upwards => /\ end = bytes
                  /\ \A i \in Places : array[i] = IF i \in to .. to + start - 1 THEN original[from + (i - to)] ELSE original[i]
    /\ ~Upwards => /\ start = 0
                   /\ \A i \in Places : array[i] = IF i \in to + end .. to + bytes - 1 THEN original[from + (i - to)] ELSE original[i]

\* qsort: a heap in front but for one place, sorted elements behind it that are
\* no smaller.
Children(i) == {i * 2 + 1, i * 2 + 2}

HeapedBut(a) ==
  \A i \in start .. end - 1 : i # root => \A c \in Children(i) : c < end => a[c].key <= a[i].key

\* The elements below the open place are no larger than the one above it.
Bypassed(a) ==
  root # NullPointer =>
    \A p \in start .. end - 1 : root \in Children(p) =>
      \A c \in Children(root) : c < end => a[c].key <= a[p].key

SortedBehind(a) ==
  /\ \A i, j \in Places : i < end /\ end <= j => a[i].key <= a[j].key
  /\ \A i, j \in Places : end <= i /\ i < j => a[i].key <= a[j].key

QsortInv ==
  function = "qsort" =>
    /\ count \in Nat /\ start \in Nat /\ end \in Nat /\ end <= count
    /\ array \in [Places -> Elements] /\ original \in [Places -> Elements]
    /\ root = NullPointer \/ (root \in start .. end - 1)
    /\ start > 0 => end = count
    /\ start <= count \div 2
    /\ end = 0 => count = 0
    /\ HeapedBut(array) /\ Bypassed(array) /\ SortedBehind(array)
    /\ Permuted(array, original, count)

\* bsearch: the key is in the part left, if anywhere.
SearchInv ==
  function = "bsearch" =>
    /\ count \in Nat /\ start \in Nat /\ end \in Nat /\ start + end <= count
    /\ key \in Int
    /\ array \in [Places -> Elements] /\ Ordered(array, count)
    /\ answer # NullPointer => answer \in Places /\ array[answer].key = key
    /\ answer = NullPointer => \A i \in Places : /\ i < start => array[i].key < key
                                                 /\ i >= start + end => array[i].key > key

\* strtok: nothing was written from where it goes on; what it returned stays.
Limit == IF next = NullPointer THEN count ELSE next

TokenKept(t, a, o, n, limit) ==
  IF t.first = NullPointer THEN \A k \in t.from .. n - 2 : o[k] \in t.delimiters
  ELSE /\ t.first \in 0 .. n - 1
       /\ \A k \in t.from .. t.first - 1 : o[k] \in t.delimiters
       /\ \E stop \in 0 .. n - 1 :
            /\ stop > t.first /\ a[stop] = 0 /\ o[stop] \in t.delimiters \cup {0}
            /\ \A k \in t.first .. stop - 1 : a[k] = o[k] /\ o[k] \notin t.delimiters \cup {0}
            /\ stop < limit

Running ==
  /\ start \in Places /\ end \in start .. count - 1
  /\ root = NullPointer \/ root \in start .. end
  /\ \A k \in Places : k >= start => array[k] = original[k]
  /\ root = NullPointer => \A k \in start .. end - 1 : original[k] \in delimiters
  /\ root # NullPointer => /\ \A k \in start .. root - 1 : original[k] \in delimiters
                           /\ original[root] \notin delimiters \cup {0}
                           /\ \A k \in root .. end - 1 : original[k] \notin delimiters \cup {0}
  /\ tokens = <<>> => start = 0
  /\ tokens # <<>> => start = next

Token == [from : Nat, first : Int, delimiters : SUBSET Chars]

TokInv ==
  function = "strtok" =>
    /\ count \in Nat \ {0}
    /\ array \in [Places -> Chars \cup {0}] /\ original \in [Places -> Chars \cup {0}]
    /\ original[count - 1] = 0 /\ \A i \in 0 .. count - 2 : original[i] # 0
    /\ delimiters \in SUBSET Chars
    /\ next = NullPointer \/ next \in 1 .. count - 1
    /\ tokens \in Seq(Token)
    /\ next # NullPointer => \A k \in Places : k >= next => array[k] = original[k]
    /\ tokens = <<>> => array = original /\ next = NullPointer
    /\ busy => Running
    /\ busy /\ tokens # <<>> => next # NullPointer
    /\ \A i \in 1 .. Len(tokens) : TokenKept(tokens[i], array, original, count, Limit)

-----------------------------------------------------------------------------
LEMMA Initially == LibraryInit => MoveInv /\ QsortInv /\ SearchInv /\ TokInv
<1> SUFFICES ASSUME LibraryInit PROVE MoveInv /\ QsortInv /\ SearchInv /\ TokInv
  OBVIOUS
<1> USE LibraryAssumption DEF LibraryInit
<1>1. MoveInv
  BY DEF MoveInv, Places, Upwards
<1>2. QsortInv
  <2> SUFFICES ASSUME function = "qsort" PROVE QsortInv
    BY DEF QsortInv
  <2>1. count \in Nat /\ array \in [Places -> Elements] /\ original = array /\ start = count \div 2 /\ end = count
        /\ root = NullPointer
    OBVIOUS
  <2>2. HeapedBut(array) /\ Bypassed(array) /\ SortedBehind(array)
    BY <2>1 DEF HeapedBut, Bypassed, SortedBehind, Children, Places
  <2>3. Permuted(array, original, count)
    <3> DEFINE p == [i \in 0 .. count - 1 |-> i]
    <3>1. p \in [0 .. count - 1 -> 0 .. count - 1]
      OBVIOUS
    <3>2. /\ \A i, j \in 0 .. count - 1 : p[i] = p[j] => i = j
          /\ \A i \in 0 .. count - 1 : array[i] = original[p[i]]
      BY <2>1
    <3> QED BY <3>1, <3>2 DEF Permuted
  <2> QED BY <2>1, <2>2, <2>3 DEF QsortInv
<1>3. SearchInv
  BY DEF SearchInv, Places, NullPointer
<1>4. TokInv
  BY DEF TokInv, Texts, Places, NullPointer
<1> QED BY <1>1, <1>2, <1>3, <1>4

LEMMA MoveStep == MoveInv /\ [LibraryNext]_libraryVars => MoveInv'
<1> SUFFICES ASSUME MoveInv, [LibraryNext]_libraryVars, function' = "memmove" PROVE MoveInv'
  BY DEF MoveInv
<1>1. CASE MoveUp
  <2> USE <1>1 DEF MoveUp, arguments
  <2>1. /\ count \in Nat /\ from \in Nat /\ to \in Nat /\ bytes \in Nat
        /\ from + bytes <= count /\ to + bytes <= count
        /\ start \in Nat /\ start < bytes /\ end = bytes /\ to < from
        /\ array \in [Places -> Int] /\ original \in [Places -> Int]
    BY DEF MoveInv, Upwards
  <2>2. \A i \in Places : array[i] = IF i \in to .. to + start - 1 THEN original[from + (i - to)] ELSE original[i]
    BY DEF MoveInv
  <2>3. from + start \in Places /\ to + start \in Places /\ array[from + start] = original[from + start]
    BY <2>1, <2>2 DEF Places
  <2>4. ASSUME NEW i \in Places
        PROVE  array'[i] = IF i \in to .. to + (start + 1) - 1 THEN original[from + (i - to)] ELSE original[i]
    <3>1. CASE i = to + start
      <4>1. from + (i - to) = from + start /\ i \in to .. to + (start + 1) - 1
        BY <2>1, <3>1
      <4> QED BY <2>1, <2>3, <3>1, <4>1
    <3>2. CASE i # to + start
      <4>1. array'[i] = array[i] /\ (i \in to .. to + (start + 1) - 1 <=> i \in to .. to + start - 1)
        BY <2>1, <3>2 DEF Places
      <4> QED BY <2>2, <4>1
    <3> QED BY <3>1, <3>2
  <2>5. array' \in [Places -> Int]
    BY <2>1, <2>3
  <2> QED BY <2>1, <2>4, <2>5 DEF MoveInv, Upwards, Places
<1>2. CASE MoveDown
  <2> USE <1>2 DEF MoveDown, arguments
  <2>1. /\ count \in Nat /\ from \in Nat /\ to \in Nat /\ bytes \in Nat
        /\ from + bytes <= count /\ to + bytes <= count
        /\ end \in Nat /\ end <= bytes /\ start = 0 /\ end > 0 /\ to >= from
        /\ array \in [Places -> Int] /\ original \in [Places -> Int]
    BY DEF MoveInv, Upwards
  <2>2. \A i \in Places : array[i] = IF i \in to + end .. to + bytes - 1 THEN original[from + (i - to)] ELSE original[i]
    BY DEF MoveInv
  <2>3. from + (end - 1) \in Places /\ to + (end - 1) \in Places /\ array[from + (end - 1)] = original[from + (end - 1)]
    BY <2>1, <2>2 DEF Places
  <2>4. ASSUME NEW i \in Places
        PROVE  array'[i] = IF i \in to + (end - 1) .. to + bytes - 1 THEN original[from + (i - to)] ELSE original[i]
    <3>1. CASE i = to + (end - 1)
      <4>1. from + (i - to) = from + (end - 1) /\ i \in to + (end - 1) .. to + bytes - 1
        BY <2>1, <3>1
      <4> QED BY <2>1, <2>3, <3>1, <4>1
    <3>2. CASE i # to + (end - 1)
      <4>1. array'[i] = array[i] /\ (i \in to + (end - 1) .. to + bytes - 1 <=> i \in to + end .. to + bytes - 1)
        BY <2>1, <3>2 DEF Places
      <4> QED BY <2>2, <4>1
    <3> QED BY <3>1, <3>2
  <2>5. array' \in [Places -> Int]
    BY <2>1, <2>3
  <2> QED BY <2>1, <2>4, <2>5 DEF MoveInv, Upwards, Places
<1>3. CASE Qsort
  BY <1>3 DEF Qsort, SiftDown, SiftEnds, BuildHeap, TakeLargest, arguments
<1>4. CASE Bsearch
  BY <1>4 DEF Bsearch, SearchHits, SearchRight, SearchLeft, arguments
<1>5. CASE Strtok
  BY <1>5 DEF Strtok, StrTok, SkipDelimiter, NoToken, TokenBegins, TokenGoesOn, TokenCut, LastToken, Returns, arguments
<1>6. CASE UNCHANGED libraryVars
  BY <1>6 DEF libraryVars, arguments, MoveInv, Upwards, Places
<1> QED BY <1>1, <1>2, <1>3, <1>4, <1>5, <1>6 DEF LibraryNext, Memmove

LEMMA SearchStep == SearchInv /\ [LibraryNext]_libraryVars => SearchInv'
<1> SUFFICES ASSUME SearchInv, [LibraryNext]_libraryVars, function' = "bsearch" PROVE SearchInv'
  BY DEF SearchInv
<1>1. CASE Memmove
  BY <1>1 DEF Memmove, MoveUp, MoveDown, arguments
<1>2. CASE Qsort
  BY <1>2 DEF Qsort, SiftDown, SiftEnds, BuildHeap, TakeLargest, arguments
<1>3. CASE SearchHits
  BY <1>3 DEF SearchHits, SearchInv, Item, Half, Places, arguments, Ordered, NullPointer
<1>4. CASE SearchRight
  <2> USE <1>4 DEF SearchRight, SearchInv, arguments
  <2>1. Item \in Places /\ Half \in Nat /\ Half < end /\ Item = start + Half
    BY DEF Item, Half, Places
  <2>2. \A i \in Places : array[i].key \in Int
    BY LibraryAssumption
  <2>3. ASSUME NEW i \in Places, i < Item + 1 PROVE array[i].key < key
    <3>1. CASE i = Item
      BY <2>1, <2>2, <3>1
    <3>2. CASE i < Item
      <4>1. array[i].key <= array[Item].key
        BY <2>1, <3>2 DEF Ordered, Places
      <4> QED BY <2>1, <2>2, <4>1
    <3> QED BY <2>1, <2>3, <3>1, <3>2 DEF Places
  <2>4. start' \in Nat /\ end' \in Nat /\ start' + end' = start + end /\ start' = Item + 1
    BY <2>1
  <2>5. \A i \in Places : /\ i < start' => array[i].key < key
                          /\ i >= start' + end' => array[i].key > key
    BY <2>3, <2>4
  <2> QED BY <2>4, <2>5 DEF Places
<1>5. CASE SearchLeft
  <2> USE <1>5 DEF SearchLeft, SearchInv, arguments
  <2>1. Item \in Places /\ Half \in Nat /\ Half < end /\ Item = start + Half
    BY DEF Item, Half, Places
  <2>2. \A i \in Places : array[i].key \in Int
    BY LibraryAssumption
  <2>3. ASSUME NEW i \in Places, i >= Item PROVE array[i].key > key
    <3>1. CASE i = Item
      BY <2>1, <2>2, <3>1
    <3>2. CASE i > Item
      <4>1. array[Item].key <= array[i].key
        BY <2>1, <3>2 DEF Ordered, Places
      <4> QED BY <2>1, <2>2, <4>1
    <3> QED BY <2>1, <2>3, <3>1, <3>2 DEF Places
  <2>4. \A i \in Places : i >= start + Half => array[i].key > key
    BY <2>1, <2>3
  <2> QED BY <2>1, <2>4 DEF Places
<1>6. CASE Strtok
  BY <1>6 DEF Strtok, StrTok, SkipDelimiter, NoToken, TokenBegins, TokenGoesOn, TokenCut, LastToken, Returns, arguments
<1>7. CASE UNCHANGED libraryVars
  BY <1>7 DEF libraryVars, arguments, SearchInv, Places
<1> QED BY <1>1, <1>2, <1>3, <1>4, <1>5, <1>6, <1>7 DEF LibraryNext, Bsearch

-----------------------------------------------------------------------------
\* Two elements that change places are still the same elements.
LEMMA PermutedSwapped ==
  ASSUME NEW n \in Nat, NEW S, NEW a \in [0 .. n - 1 -> S], NEW b, Permuted(a, b, n),
         NEW i \in 0 .. n - 1, NEW j \in 0 .. n - 1
  PROVE  Permuted([a EXCEPT ![i] = a[j], ![j] = a[i]], b, n)
<1>1. PICK p \in [0 .. n - 1 -> 0 .. n - 1] :
        /\ \A x, y \in 0 .. n - 1 : p[x] = p[y] => x = y
        /\ \A x \in 0 .. n - 1 : a[x] = b[p[x]]
  BY DEF Permuted
<1> DEFINE q == [p EXCEPT ![i] = p[j], ![j] = p[i]]
           c == [a EXCEPT ![i] = a[j], ![j] = a[i]]
<1>2. q \in [0 .. n - 1 -> 0 .. n - 1]
  OBVIOUS
<1>3. \A x \in 0 .. n - 1 : q[x] = IF x = j THEN p[i] ELSE IF x = i THEN p[j] ELSE p[x]
  OBVIOUS
<1>4. \A x \in 0 .. n - 1 : c[x] = IF x = j THEN a[i] ELSE IF x = i THEN a[j] ELSE a[x]
  OBVIOUS
<1>5. \A x, y \in 0 .. n - 1 : q[x] = q[y] => x = y
  BY <1>1, <1>3
<1>6. \A x \in 0 .. n - 1 : c[x] = b[q[x]]
  BY <1>1, <1>3, <1>4
<1> HIDE DEF q, c
<1>7. Permuted(c, b, n)
  BY <1>2, <1>5, <1>6 DEF Permuted
<1> QED BY <1>7 DEF c

\* Every child has one parent, which comes before it.
LEMMA OneParent ==
  ASSUME NEW i \in Nat, NEW j \in Nat, NEW c \in Children(i)
  PROVE  c > i /\ c \in Nat /\ (c \in Children(j) => i = j)
BY DEF Children

\* The child that is sifted up is the larger one.
LEMMA LargerChild ==
  ASSUME QsortInv, function = "qsort", root # NullPointer, root < end \div 2
  PROVE  /\ Child \in Children(root) /\ Child < end /\ Child > root
         /\ \A c \in Children(root) : c < end => array[c].key <= array[Child].key
<1>1. root \in Nat /\ end \in Nat /\ end <= count /\ count \in Nat /\ array \in [Places -> Elements]
  BY DEF QsortInv
<1>2. root * 2 + 1 < end
  BY <1>1
<1>3. \A i \in Nat : i < end => array[i].key \in Int
  BY <1>1, LibraryAssumption DEF Places
<1>4. array[root * 2 + 1].key \in Int
  BY <1>1, <1>2, <1>3
<1>5. CASE root * 2 + 2 < end
  <2>1. array[root * 2 + 2].key \in Int /\ Left = root * 2 + 1 /\ Left + 1 = root * 2 + 2
    BY <1>1, <1>3, <1>5 DEF Left
  <2>2. Child = IF array[root * 2 + 1].key < array[root * 2 + 2].key THEN root * 2 + 2 ELSE root * 2 + 1
    BY <1>5, <2>1 DEF Child
  <2> QED BY <1>1, <1>2, <1>4, <1>5, <2>1, <2>2 DEF Children
<1>6. CASE ~(root * 2 + 2 < end)
  <2>1. Left = root * 2 + 1 /\ Left + 1 = root * 2 + 2
    BY <1>1 DEF Left
  <2>2. Child = root * 2 + 1
    BY <1>6, <2>1 DEF Child
  <2> QED BY <1>1, <1>2, <1>4, <1>6, <2>2 DEF Children
<1> QED BY <1>5, <1>6

LEMMA SiftDownStep == QsortInv /\ SiftDown => QsortInv'
<1> SUFFICES ASSUME QsortInv, SiftDown PROVE QsortInv'
  OBVIOUS
<1>1. /\ function = "qsort" /\ function' = "qsort" /\ UNCHANGED <<count, original, start, end>>
      /\ root # NullPointer /\ root < end \div 2 /\ root' = Child /\ array[root].key < array[Child].key
      /\ array' = [array EXCEPT ![root] = array[Child], ![Child] = array[root]]
  BY DEF SiftDown, Swap, arguments
<1>2. /\ count \in Nat /\ start \in Nat /\ end \in Nat /\ end <= count
      /\ array \in [Places -> Elements] /\ original \in [Places -> Elements]
      /\ root \in start .. end - 1
      /\ HeapedBut(array) /\ Bypassed(array) /\ SortedBehind(array) /\ Permuted(array, original, count)
  BY <1>1 DEF QsortInv
<1>3. /\ Child \in Children(root) /\ Child < end /\ Child > root
      /\ \A c \in Children(root) : c < end => array[c].key <= array[Child].key
  BY <1>1, LargerChild
<1>4. Child \in Nat /\ Child \in Places /\ root \in Places /\ Child \in start .. end - 1
  BY <1>2, <1>3 DEF Children, Places
<1>5. \A i \in Places : array[i].key \in Int
  BY <1>2, LibraryAssumption
<1>6. \A i \in Places : array'[i] = IF i = root THEN array[Child] ELSE IF i = Child THEN array[root] ELSE array[i]
  BY <1>1, <1>2, <1>3, <1>4
<1>7. array' \in [Places -> Elements]
  BY <1>1, <1>2, <1>4
<1>8. Permuted(array', original, count)
  BY <1>1, <1>2, <1>4, PermutedSwapped DEF Places
<1>9. ASSUME NEW i \in start .. end - 1, i # Child, NEW c \in Children(i), c < end
      PROVE  array'[c].key <= array'[i].key
  <2>1. c > i /\ c \in Nat /\ i \in Nat /\ (c \in Children(root) => i = root)
    BY <1>2, <1>9, OneParent
  <2>2. i \in Places /\ c \in Places
    BY <1>2, <1>9, <2>1 DEF Places
  <2>3. CASE i = root
    <3>1. array'[i] = array[Child] /\ c # root
      BY <1>6, <2>1, <2>2, <2>3
    <3>2. CASE c = Child
      <4>1. array'[c] = array[root]
        BY <1>6, <2>2, <3>1, <3>2
      <4> QED BY <1>1, <1>4, <1>5, <3>1, <4>1
    <3>3. CASE c # Child
      BY <1>3, <1>6, <1>9, <2>2, <2>3, <3>1, <3>3
    <3> QED BY <3>2, <3>3
  <2>4. CASE i # root
    <3>1. array'[i] = array[i] /\ c # Child
      BY <1>3, <1>6, <1>9, <2>1, <2>2, <2>4
    <3>2. CASE c = root
      BY <1>1, <1>2, <1>3, <1>6, <1>9, <2>2, <3>1, <3>2 DEF Bypassed
    <3>3. CASE c # root
      BY <1>2, <1>6, <1>9, <2>2, <2>4, <3>1, <3>3 DEF HeapedBut
    <3> QED BY <3>2, <3>3
  <2> QED BY <2>3, <2>4
<1>10. ASSUME NEW p \in start .. end - 1, Child \in Children(p), NEW c \in Children(Child), c < end
       PROVE  array'[c].key <= array'[p].key
  <2>1. p = root /\ c > Child /\ c \in Nat
    BY <1>2, <1>3, <1>4, <1>10, OneParent
  <2>2. c \in Places /\ array'[c] = array[c] /\ array'[p] = array[Child]
    BY <1>2, <1>3, <1>4, <1>6, <1>10, <2>1 DEF Places
  <2>3. array[c].key <= array[Child].key
    BY <1>2, <1>3, <1>4, <1>10 DEF HeapedBut
  <2> QED BY <2>2, <2>3
<1>11. HeapedBut(array)' /\ Bypassed(array)'
  BY <1>1, <1>9, <1>10 DEF HeapedBut, Bypassed, Children
<1>12. SortedBehind(array)'
  <2>1. \A i \in Places : i >= end => array'[i] = array[i]
    BY <1>2, <1>3, <1>4, <1>6 DEF Places
  <2>2. \A i \in Places : i < end => \E k \in Places : k < end /\ array'[i] = array[k]
    BY <1>2, <1>3, <1>4, <1>6
  <2>3. \A i, j \in Places : i < end /\ end <= j => array'[i].key <= array'[j].key
    BY <1>2, <2>1, <2>2 DEF SortedBehind
  <2>4. \A i, j \in Places : end <= i /\ i < j => array'[i].key <= array'[j].key
    BY <1>2, <2>1 DEF SortedBehind, Places
  <2> QED BY <1>1, <2>3, <2>4 DEF SortedBehind, Places
<1> QED BY <1>1, <1>2, <1>3, <1>4, <1>7, <1>8, <1>11, <1>12 DEF QsortInv, Places

LEMMA SiftEndsStep == QsortInv /\ SiftEnds => QsortInv'
<1> SUFFICES ASSUME QsortInv, SiftEnds PROVE QsortInv'
  OBVIOUS
<1>1. /\ function = "qsort" /\ function' = "qsort" /\ UNCHANGED <<count, array, original, start, end>>
      /\ root # NullPointer /\ root' = NullPointer
      /\ root < end \div 2 => array[root].key >= array[Child].key
  BY DEF SiftEnds, arguments
<1>2. /\ count \in Nat /\ start \in Nat /\ end \in Nat /\ end <= count
      /\ array \in [Places -> Elements] /\ root \in start .. end - 1
      /\ HeapedBut(array) /\ SortedBehind(array)
  BY <1>1 DEF QsortInv
<1>3. ASSUME NEW c \in Children(root), c < end PROVE array[c].key <= array[root].key
  <2>1. root < end \div 2 /\ c \in Nat
    BY <1>2, <1>3 DEF Children
  <2>2. array[c].key <= array[Child].key /\ Child < end /\ Child \in Nat
    BY <1>1, <1>2, <1>3, <2>1, LargerChild DEF Children
  <2>3. \A i \in Nat : i < end => array[i].key \in Int
    BY <1>2, LibraryAssumption DEF Places
  <2> QED BY <1>1, <1>2, <1>3, <2>1, <2>2, <2>3
<1>4. HeapedBut(array)' /\ Bypassed(array)'
  BY <1>1, <1>2, <1>3 DEF HeapedBut, Bypassed, Children
<1> QED BY <1>1, <1>2, <1>4 DEF QsortInv, SortedBehind, Places

LEMMA BuildHeapStep == QsortInv /\ BuildHeap => QsortInv'
<1> SUFFICES ASSUME QsortInv, BuildHeap PROVE QsortInv'
  OBVIOUS
<1>1. /\ function = "qsort" /\ function' = "qsort" /\ UNCHANGED <<count, array, original, end>>
      /\ root = NullPointer /\ start > 0 /\ start' = start - 1 /\ root' = start - 1
  BY DEF BuildHeap, arguments
<1>2. /\ count \in Nat /\ start \in Nat /\ end = count /\ start <= count \div 2
      /\ HeapedBut(array) /\ SortedBehind(array)
  BY <1>1 DEF QsortInv
<1>3. \A i \in start' .. end - 1 : i # root' => i \in start .. end - 1 /\ i # root
  BY <1>1, <1>2 DEF NullPointer
<1>4. HeapedBut(array)'
  BY <1>1, <1>2, <1>3 DEF HeapedBut, Children
<1>5. \A p \in start' .. end - 1 : root' \notin Children(p)
  BY <1>1, <1>2 DEF Children
<1>6. Bypassed(array)'
  BY <1>1, <1>5 DEF Bypassed, Children
<1>7. start' \in Nat /\ root' \in start' .. end - 1 /\ start' <= count \div 2
  BY <1>1, <1>2
<1> QED BY <1>1, <1>2, <1>4, <1>6, <1>7 DEF QsortInv, SortedBehind, Places

LEMMA TakeLargestStep == QsortInv /\ TakeLargest => QsortInv'
<1> SUFFICES ASSUME QsortInv, TakeLargest PROVE QsortInv'
  OBVIOUS
<1>1. /\ function = "qsort" /\ function' = "qsort" /\ UNCHANGED <<count, original, start>>
      /\ root = NullPointer /\ start = 0 /\ end > 1 /\ end' = end - 1 /\ root' = 0
      /\ array' = [array EXCEPT ![0] = array[end - 1], ![end - 1] = array[0]]
  BY DEF TakeLargest, Swap, arguments
<1>2. /\ count \in Nat /\ end \in Nat /\ end <= count
      /\ array \in [Places -> Elements] /\ original \in [Places -> Elements]
      /\ HeapedBut(array) /\ SortedBehind(array) /\ Permuted(array, original, count)
  BY <1>1 DEF QsortInv
<1>3. 0 \in Places /\ end - 1 \in Places
  BY <1>1, <1>2 DEF Places
<1>4. \A i \in Places : array[i].key \in Int
  BY <1>2, LibraryAssumption
<1>5. \A i \in 0 .. end - 1 : array[i].key <= array[0].key
  <2>1. \A i \in 0 .. end - 1 : \A c \in {i * 2 + 1, i * 2 + 2} : c < end => array[c].key <= array[i].key
    BY <1>1, <1>2 DEF HeapedBut, Children, NullPointer
  <2>2. \A i \in 0 .. end - 1 : array[i].key \in Int
    BY <1>2, <1>4 DEF Places
  <2> QED BY <1>2, <2>1, <2>2, RootIsLargest
<1>6. \A i \in Places : array'[i] = IF i = end - 1 THEN array[0] ELSE IF i = 0 THEN array[end - 1] ELSE array[i]
  BY <1>1, <1>2, <1>3
<1>7. array' \in [Places -> Elements] /\ Permuted(array', original, count)
  <2>1. array' \in [Places -> Elements]
    BY <1>1, <1>2, <1>3
  <2>2. Permuted(array', original, count)
    BY <1>1, <1>2, <1>3, PermutedSwapped DEF Places
  <2> QED BY <2>1, <2>2
<1>8. HeapedBut(array)'
  <2>1. ASSUME NEW i \in 0 .. end - 2, i # 0, NEW c \in Children(i), c < end - 1
        PROVE  array'[c].key <= array'[i].key
    <3>1. c \in Places /\ i \in Places /\ c # 0 /\ c # end - 1 /\ i # end - 1
      BY <1>1, <1>2, <2>1 DEF Children, Places
    <3>2. array[c].key <= array[i].key
      <4>1. i \in start .. end - 1 /\ i # root /\ c < end
        BY <1>1, <1>2, <2>1, <3>1 DEF NullPointer, Places
      <4> QED BY <1>2, <2>1, <4>1 DEF HeapedBut
    <3> QED BY <1>6, <2>1, <3>1, <3>2
  <2>2. \A i \in start' .. end' - 1 : i # root' => i \in 0 .. end - 2 /\ i # 0
    BY <1>1, <1>2
  <2> QED BY <1>1, <2>1, <2>2 DEF HeapedBut, Children
<1>9. Bypassed(array)'
  BY <1>1, <1>2 DEF Bypassed, Children
<1>10. SortedBehind(array)'
  <2>1. \A i \in Places : i < end => \E k \in 0 .. end - 1 : array'[i] = array[k]
    BY <1>1, <1>2, <1>6 DEF Places
  <2>2. \A i \in Places : i >= end => array'[i] = array[i]
    BY <1>1, <1>2, <1>6 DEF Places
  <2>3. \A k \in 0 .. end - 1 : \A j \in Places : j >= end => array[k].key <= array[j].key
    BY <1>2 DEF SortedBehind, Places
  <2>4. ASSUME NEW i \in Places, NEW j \in Places, i < end - 1, end - 1 <= j
        PROVE  array'[i].key <= array'[j].key
    <3>1. PICK k \in 0 .. end - 1 : array'[i] = array[k]
      BY <1>2, <2>1, <2>4 DEF Places
    <3>2. CASE j = end - 1
      BY <1>5, <1>6, <3>1, <3>2
    <3>3. CASE j >= end
      BY <2>2, <2>3, <3>1, <3>3
    <3> QED BY <1>2, <2>4, <3>2, <3>3 DEF Places
  <2>5. ASSUME NEW i \in Places, NEW j \in Places, end - 1 <= i, i < j
        PROVE  array'[i].key <= array'[j].key
    <3>1. CASE i = end - 1
      BY <1>1, <1>2, <1>6, <2>2, <2>3, <2>5, <3>1 DEF Places
    <3>2. CASE i >= end
      BY <1>2, <2>2, <2>5, <3>2 DEF SortedBehind, Places
    <3> QED BY <1>2, <2>5, <3>1, <3>2 DEF Places
  <2> QED BY <1>1, <2>4, <2>5 DEF SortedBehind, Places
<1> QED BY <1>1, <1>2, <1>7, <1>8, <1>9, <1>10 DEF QsortInv, Places

LEMMA QsortStep == QsortInv /\ [LibraryNext]_libraryVars => QsortInv'
<1> SUFFICES ASSUME QsortInv, [LibraryNext]_libraryVars, function' = "qsort" PROVE QsortInv'
  BY DEF QsortInv
<1>1. CASE Memmove
  BY <1>1 DEF Memmove, MoveUp, MoveDown, arguments
<1>2. CASE Qsort
  BY <1>2, SiftDownStep, SiftEndsStep, BuildHeapStep, TakeLargestStep DEF Qsort
<1>3. CASE Bsearch
  BY <1>3 DEF Bsearch, SearchHits, SearchRight, SearchLeft, arguments
<1>4. CASE Strtok
  BY <1>4 DEF Strtok, StrTok, SkipDelimiter, NoToken, TokenBegins, TokenGoesOn, TokenCut, LastToken, Returns, arguments
<1>5. CASE UNCHANGED libraryVars
  BY <1>5 DEF libraryVars, arguments, QsortInv, HeapedBut, Bypassed, SortedBehind, Places
<1> QED BY <1>1, <1>2, <1>3, <1>4, <1>5 DEF LibraryNext

-----------------------------------------------------------------------------
\* A token stays what it was as long as nothing is written before the limit.
LEMMA Keeps ==
  ASSUME NEW t \in Token, NEW a, NEW b, NEW o, NEW n \in Nat, NEW l \in Int, NEW m \in Int,
         TokenKept(t, a, o, n, l), l <= m, \A k \in 0 .. n - 1 : k < l => b[k] = a[k]
  PROVE  TokenKept(t, b, o, n, m)
<1>1. CASE t.first = NullPointer
  BY <1>1 DEF TokenKept
<1>2. CASE t.first # NullPointer
  <2>1. t.first \in 0 .. n - 1 /\ \A k \in t.from .. t.first - 1 : o[k] \in t.delimiters
    BY <1>2 DEF TokenKept
  <2>2. PICK stop \in 0 .. n - 1 :
          /\ stop > t.first /\ a[stop] = 0 /\ o[stop] \in t.delimiters \cup {0}
          /\ \A k \in t.first .. stop - 1 : a[k] = o[k] /\ o[k] \notin t.delimiters \cup {0}
          /\ stop < l
    BY <1>2 DEF TokenKept
  <2>3. b[stop] = 0 /\ stop < m
    BY <2>2
  <2>4. \A k \in t.first .. stop - 1 : b[k] = o[k] /\ o[k] \notin t.delimiters \cup {0}
    BY <2>1, <2>2
  <2> QED BY <1>2, <2>1, <2>2, <2>3, <2>4 DEF TokenKept
<1> QED BY <1>1, <1>2

\* What is known while strtok runs.
LEMMA WhileBusy ==
  ASSUME TokInv, function = "strtok", busy
  PROVE  /\ count \in Nat \ {0} /\ start \in 0 .. count - 1 /\ end \in start .. count - 1
         /\ array \in [0 .. count - 1 -> Chars \cup {0}] /\ original \in [0 .. count - 1 -> Chars \cup {0}]
         /\ array[end] = original[end] /\ delimiters \in SUBSET Chars
         /\ array[end] = 0 <=> end = count - 1
         /\ array[end] \in delimiters => end + 1 \in start .. count - 1
         /\ tokens # <<>> => next # NullPointer /\ Limit = start /\ start = next
  BY LibraryAssumption DEF TokInv, Running, Places, Limit

\* strtok's answer joins the earlier ones.
LEMMA ReturnStep ==
  ASSUME TokInv, function = "strtok", busy, NEW token \in Int, Returns(token),
         array' \in [Places -> Chars \cup {0}], \A k \in Places : k < end => array'[k] = array[k],
         next' = NullPointer \/ next' \in end + 1 .. count - 1,
         next' # NullPointer => \A k \in Places : k >= next' => array'[k] = original[k],
         TokenKept([from |-> start, first |-> token, delimiters |-> delimiters], array', original, count, Limit')
  PROVE  TokInv'
<1> DEFINE t == [from |-> start, first |-> token, delimiters |-> delimiters]
<1>1. /\ function' = "strtok" /\ UNCHANGED <<count, original, delimiters, start, end, root>>
      /\ busy' = FALSE /\ tokens' = Append(tokens, t)
  BY DEF Returns, arguments
<1>2. /\ count \in Nat \ {0} /\ start \in 0 .. count - 1 /\ end \in start .. count - 1
      /\ delimiters \in SUBSET Chars
      /\ tokens # <<>> => Limit = start
  BY WhileBusy
<1>3. t \in Token
  BY <1>2 DEF Token
<1>4. tokens \in Seq(Token)
  BY DEF TokInv
<1>5. Limit' \in Int /\ end < Limit'
  BY <1>1, <1>2 DEF Limit
<1> HIDE DEF t
<1>6. tokens' \in Seq(Token) /\ tokens' # <<>> /\ Len(tokens') = Len(tokens) + 1
      /\ tokens'[Len(tokens) + 1] = t /\ \A i \in 1 .. Len(tokens) : tokens'[i] = tokens[i]
  BY <1>1, <1>3, <1>4
<1>7. ASSUME NEW i \in 1 .. Len(tokens)
      PROVE  TokenKept(tokens[i], array', original, count, Limit')
  <2>1. tokens # <<>> /\ Limit = start /\ tokens[i] \in Token
    BY <1>2, <1>4
  <2>2. TokenKept(tokens[i], array, original, count, start)
    BY <2>1 DEF TokInv
  <2>3. \A k \in 0 .. count - 1 : k < start => array'[k] = array[k]
    BY <1>2 DEF Places
  <2>4. start <= Limit' /\ start \in Int /\ count \in Nat
    BY <1>2, <1>5
  <2> QED BY <1>5, <2>1, <2>2, <2>3, <2>4, Keeps
<1>8. TokenKept(t, array', original, count, Limit')
  BY DEF t
<1>9. \A i \in 1 .. Len(tokens') : TokenKept(tokens'[i], array', original, count, Limit')
  <2>1. Len(tokens) \in Nat
    BY <1>4
  <2> QED BY <1>6, <1>7, <1>8, <2>1
<1>10. /\ original \in [Places -> Chars \cup {0}] /\ original[count - 1] = 0
       /\ \A i \in 0 .. count - 2 : original[i] # 0
  BY DEF TokInv
<1>11. next' = NullPointer \/ next' \in 1 .. count - 1
  BY <1>2
<1> QED BY <1>1, <1>2, <1>6, <1>9, <1>10, <1>11 DEF TokInv, Places

\* The array and the answers stay as they are.
LEMMA RunStep ==
  ASSUME TokInv, function = "strtok", function' = "strtok", busy',
         UNCHANGED <<count, original, array, next, tokens>>, delimiters' \in SUBSET Chars,
         tokens # <<>> => next # NullPointer, Running'
  PROVE  TokInv'
<1>1. Limit' = Limit
  BY DEF Limit
<1>2. \A i \in 1 .. Len(tokens) : TokenKept(tokens[i], array, original, count, Limit)
  BY DEF TokInv
<1>3. (\A i \in 1 .. Len(tokens) : TokenKept(tokens[i], array, original, count, Limit))'
  BY <1>1, <1>2
<1> QED BY <1>3 DEF TokInv, Places

LEMMA NoneBetween == \A s \in Int : \A k \in s .. s - 1 : FALSE
OBVIOUS

LEMMA StrTokStep == TokInv /\ StrTok => TokInv'
<1> SUFFICES ASSUME TokInv, StrTok PROVE TokInv'
  OBVIOUS
<1>1. /\ function = "strtok" /\ function' = "strtok" /\ UNCHANGED <<count, original, array, next, tokens>>
      /\ tokens = <<>> \/ next # NullPointer
      /\ delimiters' \in SUBSET Chars /\ busy' = TRUE /\ end' = start' /\ root' = NullPointer
      /\ start' = IF tokens = <<>> THEN 0 ELSE next
  BY DEF StrTok, arguments
<1>2. /\ count \in Nat \ {0}
      /\ next = NullPointer \/ next \in 1 .. count - 1
      /\ next # NullPointer => \A k \in Places : k >= next => array[k] = original[k]
      /\ tokens = <<>> => array = original
  BY <1>1 DEF TokInv
<1>3. start' \in 0 .. count - 1
  <2>1. CASE tokens = <<>>
    <3>1. start' = 0
      BY <1>1, <2>1
    <3> QED BY <1>2, <3>1
  <2>2. CASE tokens # <<>>
    <3>1. start' = next /\ next \in 1 .. count - 1
      BY <1>1, <1>2, <2>2
    <3> QED BY <1>2, <3>1
  <2> QED BY <2>1, <2>2
<1>4. Running'
  <2>1. (tokens' = <<>> => start' = 0) /\ (tokens' # <<>> => start' = next')
    BY <1>1
  <2>2. \A k \in Places : k >= start' => array[k] = original[k]
    <3>1. CASE tokens = <<>>
      BY <1>2, <3>1
    <3>2. CASE tokens # <<>>
      BY <1>1, <1>2, <3>2
    <3> QED BY <3>1, <3>2
  <2>3. UNCHANGED <<count, original, array>> /\ end' = start' /\ root' = NullPointer
    BY <1>1
  <2>4. count \in Nat
    BY <1>2
  <2>5. end' \in start' .. count' - 1 /\ \A k \in start' .. end' - 1 : FALSE
    <3>1. start' \in Int /\ start' <= count - 1 /\ end' = start' /\ count' = count
      BY <1>3, <2>3, <2>4
    <3>2. end' \in start' .. count' - 1
      BY <2>4, <3>1
    <3>3. \A k \in start' .. start' - 1 : FALSE
      BY <3>1, NoneBetween
    <3> QED BY <3>1, <3>2, <3>3
  <2>6. \A k \in Places' : k >= start' => array'[k] = original'[k]
    BY <2>2, <2>3 DEF Places
  <2>7. start' \in Places'
    BY <1>3, <2>3 DEF Places
  <2> QED BY <2>1, <2>3, <2>5, <2>6, <2>7 DEF Running
<1> QED BY <1>1, <1>4, RunStep

LEMMA SkipStep == TokInv /\ (SkipDelimiter \/ TokenBegins \/ TokenGoesOn) => TokInv'
<1> SUFFICES ASSUME TokInv, SkipDelimiter \/ TokenBegins \/ TokenGoesOn PROVE TokInv'
  OBVIOUS
<1>1. /\ function = "strtok" /\ function' = "strtok" /\ busy
      /\ UNCHANGED <<count, original, array, next, tokens, delimiters, busy, start>>
  BY DEF SkipDelimiter, TokenBegins, TokenGoesOn, arguments, strtokVars
<1>2. /\ count \in Nat \ {0} /\ start \in 0 .. count - 1 /\ end \in start .. count - 1
      /\ array[end] = original[end] /\ delimiters \in SUBSET Chars
      /\ array[end] = 0 <=> end = count - 1
      /\ array[end] \in delimiters => end + 1 \in start .. count - 1
      /\ tokens # <<>> => next # NullPointer
  BY <1>1, WhileBusy
<1>3. /\ root = NullPointer \/ root \in start .. end
      /\ \A k \in 0 .. count - 1 : k >= start => array[k] = original[k]
      /\ root = NullPointer => \A k \in start .. end - 1 : original[k] \in delimiters
      /\ root # NullPointer => /\ \A k \in start .. root - 1 : original[k] \in delimiters
                               /\ original[root] \notin delimiters \cup {0}
                               /\ \A k \in root .. end - 1 : original[k] \notin delimiters \cup {0}
  BY <1>1 DEF TokInv, Running, Places
<1>began. (tokens' = <<>> => start' = 0) /\ (tokens' # <<>> => start' = next')
  BY <1>1 DEF TokInv, Running
<1>same. UNCHANGED <<count, original, array, delimiters, start>>
  BY <1>1
<1>4. CASE SkipDelimiter
  <2>1. root = NullPointer /\ root' = NullPointer /\ array[end] \in delimiters /\ end' = end + 1
    BY <1>4 DEF SkipDelimiter
  <2>2. \A k \in start .. end' - 1 : original[k] \in delimiters
    BY <1>2, <1>3, <2>1
  <2>3. Running'
    BY <1>2, <1>3, <1>began, <1>same, <2>1, <2>2 DEF Running, Places
  <2> QED BY <1>1, <1>2, <2>3, RunStep
<1>5. CASE TokenBegins
  <2>1. root = NullPointer /\ root' = end /\ array[end] \notin delimiters \cup {0} /\ end' = end
    BY <1>5 DEF TokenBegins
  <2>2. Running'
    BY <1>2, <1>3, <1>began, <1>same, <2>1 DEF Running, Places
  <2> QED BY <1>1, <1>2, <2>2, RunStep
<1>6. CASE TokenGoesOn
  <2>1. root # NullPointer /\ root' = root /\ array[end] \notin delimiters \cup {0} /\ end' = end + 1
    BY <1>6 DEF TokenGoesOn
  <2>2. end' \in start .. count - 1 /\ root \in start .. end
    BY <1>2, <1>3, <2>1
  <2>3. \A k \in root .. end' - 1 : original[k] \notin delimiters \cup {0}
    BY <1>2, <1>3, <2>1, <2>2
  <2>4. Running'
    BY <1>2, <1>3, <1>began, <1>same, <2>1, <2>2, <2>3 DEF Running, Places
  <2> QED BY <1>1, <1>2, <2>4, RunStep
<1> QED BY <1>4, <1>5, <1>6

LEMMA ReturnsStep == TokInv /\ (NoToken \/ TokenCut \/ LastToken) => TokInv'
<1> SUFFICES ASSUME TokInv, NoToken \/ TokenCut \/ LastToken PROVE TokInv'
  OBVIOUS
<1> DEFINE t(first) == [from |-> start, first |-> first, delimiters |-> delimiters]
<1>1. function = "strtok" /\ busy /\ UNCHANGED <<count, original>>
  BY DEF NoToken, TokenCut, LastToken, Returns, arguments
<1>2. /\ count \in Nat \ {0} /\ start \in 0 .. count - 1 /\ end \in start .. count - 1
      /\ array \in [0 .. count - 1 -> Chars \cup {0}] /\ original \in [0 .. count - 1 -> Chars \cup {0}]
      /\ array[end] = original[end] /\ delimiters \in SUBSET Chars
      /\ array[end] = 0 <=> end = count - 1
      /\ array[end] \in delimiters => end + 1 \in start .. count - 1
  BY <1>1, WhileBusy
<1>3. Running /\ NullPointer \in Int
  BY <1>1 DEF TokInv, NullPointer
<1>4. CASE NoToken
  <2>1. root = NullPointer /\ array[end] = 0 /\ next' = NullPointer /\ Returns(NullPointer) /\ UNCHANGED array
    BY <1>4 DEF NoToken
  <2>2. \A k \in start .. count - 2 : original[k] \in delimiters
    BY <1>2, <1>3, <2>1 DEF Running
  <2>3. TokenKept(t(NullPointer), array', original, count, Limit')
    BY <2>2 DEF TokenKept
  <2> QED BY <1>1, <1>2, <1>3, <2>1, <2>3, ReturnStep DEF Places
<1>5. ASSUME root # NullPointer, original[end] \in delimiters \cup {0}, array'[end] = 0,
             \A k \in Places : k < end => array'[k] = array[k], end < Limit'
      PROVE  root \in Int /\ TokenKept(t(root), array', original, count, Limit')
  <2>1. /\ root \in start .. end /\ original[root] \notin delimiters \cup {0}
        /\ \A k \in start .. root - 1 : original[k] \in delimiters
        /\ \A k \in root .. end - 1 : original[k] \notin delimiters \cup {0}
        /\ \A k \in Places : k >= start => array[k] = original[k]
    BY <1>3, <1>5 DEF Running
  <2>2. root # end
    BY <1>5, <2>1
  <2>3. root \in 0 .. count - 1 /\ end \in 0 .. count - 1 /\ end > root
    BY <1>2, <2>1, <2>2
  <2>4. \A k \in root .. end - 1 : array'[k] = original[k]
    BY <1>2, <1>5, <2>1 DEF Places
  <2> QED BY <1>5, <2>1, <2>3, <2>4 DEF TokenKept
<1>6. CASE TokenCut
  <2>1. /\ root # NullPointer /\ array[end] \in delimiters /\ array' = [array EXCEPT ![end] = 0]
        /\ next' = end + 1 /\ Returns(root)
    BY <1>6 DEF TokenCut
  <2>2. /\ array' \in [Places -> Chars \cup {0}] /\ array'[end] = 0
        /\ \A k \in Places : k # end => array'[k] = array[k]
    BY <1>2, <2>1 DEF Places
  <2>3. end + 1 \in start .. count - 1 /\ end < Limit' /\ next' # NullPointer
    BY <1>1, <1>2, <2>1 DEF Limit, NullPointer
  <2>4. \A k \in Places : k >= next' => array'[k] = original[k]
    BY <1>2, <1>3, <2>1, <2>2 DEF Running, Places
  <2>5. root \in Int /\ TokenKept(t(root), array', original, count, Limit')
    BY <1>2, <1>5, <2>1, <2>2, <2>3 DEF Places
  <2>6. next' \in end + 1 .. count - 1
    BY <1>2, <2>1, <2>3
  <2>7. \A k \in Places : k < end => array'[k] = array[k]
    BY <1>2, <2>2 DEF Places
  <2>8. array' \in [Places -> Chars \cup {0}] /\ Returns(root)
    BY <2>1, <2>2
  <2> QED BY <1>1, <2>4, <2>5, <2>6, <2>7, <2>8, ReturnStep
<1>7. CASE LastToken
  <2>1. root # NullPointer /\ array[end] = 0 /\ next' = NullPointer /\ Returns(root) /\ UNCHANGED array
    BY <1>7 DEF LastToken
  <2>2. end < Limit'
    BY <1>1, <1>2, <2>1 DEF Limit
  <2>3. root \in Int /\ TokenKept(t(root), array', original, count, Limit')
    BY <1>2, <1>5, <2>1, <2>2
  <2> QED BY <1>1, <1>2, <2>1, <2>3, ReturnStep DEF Places
<1> QED BY <1>4, <1>6, <1>7

LEMMA TokStep == TokInv /\ [LibraryNext]_libraryVars => TokInv'
<1> SUFFICES ASSUME TokInv, [LibraryNext]_libraryVars, function' = "strtok" PROVE TokInv'
  BY DEF TokInv
<1>1. CASE Memmove
  BY <1>1 DEF Memmove, MoveUp, MoveDown, arguments
<1>2. CASE Qsort
  BY <1>2 DEF Qsort, SiftDown, SiftEnds, BuildHeap, TakeLargest, arguments
<1>3. CASE Bsearch
  BY <1>3 DEF Bsearch, SearchHits, SearchRight, SearchLeft, arguments
<1>4. CASE Strtok
  BY <1>4, StrTokStep, SkipStep, ReturnsStep DEF Strtok
<1>5. CASE UNCHANGED libraryVars
  BY <1>5 DEF libraryVars, arguments, strtokVars, TokInv, Running, Places, Limit
<1> QED BY <1>1, <1>2, <1>3, <1>4, <1>5 DEF LibraryNext

-----------------------------------------------------------------------------
LEMMA TokensKept == TokInv => TokensRight
<1> SUFFICES ASSUME TokInv, function = "strtok", NEW i \in 1 .. Len(tokens) PROVE TokenRight(tokens[i])
  BY DEF TokensRight
<1> QED BY DEF TokInv, TokenKept, TokenRight, Places

LEMMA InvariantsMean == MoveInv /\ QsortInv /\ SearchInv /\ TokInv => LibraryMeans
<1> SUFFICES ASSUME MoveInv, QsortInv, SearchInv, TokInv PROVE LibraryMeans
  OBVIOUS
<1>1. Moved
  BY DEF MoveInv, Moved, Places
<1>2. Sorted
  <2> SUFFICES ASSUME function = "qsort", root = NullPointer, start = 0, end <= 1
               PROVE  Ordered(array, count) /\ Permuted(array, original, count)
    BY DEF Sorted
  <2>1. /\ end \in Nat /\ count \in Nat
        /\ end = 0 => count = 0
        /\ SortedBehind(array) /\ array \in [Places -> Elements] /\ Permuted(array, original, count)
    BY DEF QsortInv
  <2> QED BY <2>1 DEF SortedBehind, Ordered, Places
<1>3. Found
  <2> SUFFICES ASSUME function = "bsearch", answer = NullPointer, end = 0, NEW i \in Places
               PROVE  array[i].key # key
    BY DEF Found, SearchInv
  <2>1. /\ start \in Nat /\ key \in Int /\ i \in Int /\ array[i].key \in Int
        /\ i < start => array[i].key < key
        /\ i >= start + end => array[i].key > key
    BY LibraryAssumption DEF SearchInv, Places
  <2> QED BY <2>1
<1>4. TokensRight
  BY TokensKept
<1> QED BY <1>1, <1>2, <1>3, <1>4 DEF LibraryMeans

\* memmove, qsort, bsearch and strtok keep the C library's promises
\* (runtime.cpp:145, 206, 233, 243), whatever the array, its length, the
\* order of the keys and the delimiters of each call.
THEOREM LibraryCorrect == LibrarySpec => []LibraryMeans
<1> DEFINE LInv == MoveInv /\ QsortInv /\ SearchInv /\ TokInv
<1>1. LibraryInit => LInv
  BY Initially
<1>2. LInv /\ [LibraryNext]_libraryVars => LInv'
  BY MoveStep, QsortStep, SearchStep, TokStep
<1>3. LInv => LibraryMeans
  BY InvariantsMean
<1> QED BY <1>1, <1>2, <1>3, PTL DEF LibrarySpec

-----------------------------------------------------------------------------
(* Streams: bytes that move between the places they wait in.               *)

LEMMA AppendConcat ==
  ASSUME NEW s \in Seq(Nat), NEW e \in Nat
  PROVE  Append(s, e) = s \o <<e>> /\ Append(s, e) \in Seq(Nat)
<1>1. <<e>> \in Seq(Nat) /\ Len(<<e>>) = 1 /\ <<e>>[1] = e
  OBVIOUS
<1>2. /\ Append(s, e) \in Seq(Nat) /\ Len(Append(s, e)) = Len(s) + 1 /\ Len(s) \in Nat
      /\ \A i \in 1 .. Len(s) : Append(s, e)[i] = s[i]
      /\ Append(s, e)[Len(s) + 1] = e
  BY AppendIs
<1> DEFINE a == Append(s, e)
           c == s \o <<e>>
           one == <<e>>
<1>3. /\ c \in Seq(Nat) /\ Len(c) = Len(s) + 1
      /\ \A i \in 1 .. Len(s) + 1 : c[i] = IF i <= Len(s) THEN s[i] ELSE one[i - Len(s)]
  BY <1>1, ConcatProperties
<1> HIDE DEF a, c, one
<1>4. ASSUME NEW i \in 1 .. Len(a) PROVE a[i] = c[i]
  <2>1. i \in 1 .. Len(s) \/ i = Len(s) + 1
    BY <1>2, <1>4 DEF a
  <2>2. one[1] = e
    BY DEF one
  <2> QED BY <1>2, <1>3, <2>1, <2>2 DEF a
<1>5. a = c
  BY <1>2, <1>3, <1>4, SeqEqual DEF a
<1> QED BY <1>2, <1>5 DEF a, c

LEMMA HeadConcat ==
  ASSUME NEW s \in Seq(Nat), s # <<>>
  PROVE  s = <<Head(s)>> \o Tail(s) /\ Head(s) \in Nat /\ Tail(s) \in Seq(Nat) /\ Len(Tail(s)) = Len(s) - 1
<1>1. Len(s) \in Nat \ {0}
  BY EmptySeq
<1>2. Head(s) \in Nat /\ Tail(s) \in Seq(Nat) /\ Len(Tail(s)) = Len(s) - 1 /\ Head(s) = s[1]
  BY HeadTailProperties
<1>3. SubSeq(s, 1, Len(s)) = <<s[1]>> \o SubSeq(s, 2, Len(s))
  BY <1>1, SubSeqRecursiveFirst
<1>4. SubSeq(s, 1, Len(s)) = s /\ Tail(s) = SubSeq(s, 2, Len(s))
  BY SubSeqFull, TailIsSubSeq
<1> QED BY <1>2, <1>3, <1>4

LEMMA FrontConcat ==
  ASSUME NEW s \in Seq(Nat), s # <<>>
  PROVE  s = Front(s) \o <<Last(s)>> /\ Front(s) \in Seq(Nat) /\ Last(s) \in Nat
<1>1. Len(s) \in Nat \ {0}
  BY EmptySeq
<1>2. SubSeq(s, 1, Len(s)) = SubSeq(s, 1, Len(s) - 1) \o <<s[Len(s)]>>
  BY <1>1, SubSeqRecursiveSecond
<1>3. SubSeq(s, 1, Len(s)) = s
  BY SubSeqFull
<1>4. Front(s) \in Seq(Nat) /\ Last(s) \in Nat
  BY FrontIs
<1> QED BY <1>2, <1>3, <1>4 DEF Front, Last

LEMMA Associative ==
  ASSUME NEW s \in Seq(Nat), NEW t \in Seq(Nat), NEW u \in Seq(Nat)
  PROVE  (s \o t) \o u = s \o (t \o u)
OBVIOUS

\* The bytes of a, b, c and d in this order.
Chain(a, b, c, d) == a \o b \o c \o d

\* A byte is read from the front of what waits.
LEMMA ByteMoves ==
  ASSUME NEW a \in Seq(Nat), NEW b \in Seq(Nat), b # <<>>
  PROVE  Append(a, Head(b)) \in Seq(Nat) /\ Append(a, Head(b)) \o Tail(b) = a \o b
<1> DEFINE one == <<Head(b)>>
<1>1. b = one \o Tail(b) /\ Head(b) \in Nat /\ Tail(b) \in Seq(Nat) /\ one \in Seq(Nat)
  BY HeadConcat
<1>2. Append(a, Head(b)) = a \o one /\ Append(a, Head(b)) \in Seq(Nat)
  BY <1>1, AppendConcat
<1> HIDE DEF one
<1>3. (a \o one) \o Tail(b) = a \o (one \o Tail(b))
  <2> DEFINE rest == Tail(b)
  <2>1. rest \in Seq(Nat)
    BY <1>1
  <2> HIDE DEF rest
  <2>2. (a \o one) \o rest = a \o (one \o rest)
    BY <1>1, <2>1, Associative
  <2> QED BY <2>2 DEF rest
<1> QED BY <1>1, <1>2, <1>3

LEMMA TookPushed ==
  ASSUME NEW a \in Seq(Nat), NEW b \in Seq(Nat), NEW c \in Seq(Nat), NEW d \in Seq(Nat), b # <<>>, Len(b) <= 1
  PROVE  Append(a, b[1]) \in Seq(Nat) /\ Chain(Append(a, b[1]), <<>>, c, d) = Chain(a, b, c, d)
<1>1. Tail(b) = <<>> /\ Head(b) = b[1]
  <2>1. Len(Tail(b)) = Len(b) - 1 /\ Tail(b) \in Seq(Nat) /\ Len(b) \in Nat \ {0}
    BY EmptySeq, HeadTailProperties
  <2>2. Len(Tail(b)) = 0
    BY <2>1
  <2>3. Tail(b) = <<>>
    BY <2>1, <2>2, EmptySeq
  <2> QED BY <2>3
<1> DEFINE n == Append(a, b[1])
<1>2. n \in Seq(Nat) /\ n \o <<>> = a \o b
  BY <1>1, ByteMoves
<1> HIDE DEF n
<1>3. n \o <<>> \o c \o d = a \o b \o c \o d
  BY <1>2
<1> QED BY <1>2, <1>3 DEF Chain, n

LEMMA TookBuffered ==
  ASSUME NEW a \in Seq(Nat), NEW c \in Seq(Nat), NEW d \in Seq(Nat), c # <<>>
  PROVE  /\ Append(a, Head(c)) \in Seq(Nat) /\ Tail(c) \in Seq(Nat) /\ Len(Tail(c)) <= Len(c)
         /\ Chain(Append(a, Head(c)), <<>>, Tail(c), d) = Chain(a, <<>>, c, d)
<1> DEFINE n == Append(a, Head(c))
<1>1. n \in Seq(Nat) /\ n \o Tail(c) = a \o c
  BY ByteMoves
<1>2. Tail(c) \in Seq(Nat) /\ Len(Tail(c)) = Len(c) - 1 /\ Len(c) \in Nat
  BY HeadConcat, LenProperties
<1>3. n \o <<>> = n /\ a \o <<>> = a
  BY <1>1, ConcatEmptySeq
<1>4. Chain(n, <<>>, Tail(c), d) = Chain(a, <<>>, c, d)
  BY <1>1, <1>3 DEF Chain
<1>5. Len(Tail(c)) <= Len(c)
  BY <1>2
<1> HIDE DEF n
<1>6. n \in Seq(Nat) /\ Tail(c) \in Seq(Nat) /\ Len(Tail(c)) <= Len(c) /\ Chain(n, <<>>, Tail(c), d) = Chain(a, <<>>, c, d)
  BY <1>1, <1>2, <1>4, <1>5
<1> QED BY <1>6 DEF n

LEMMA Refilled ==
  ASSUME NEW a \in Seq(Nat), NEW d \in Seq(Nat), NEW n \in 0 .. Len(d)
  PROVE  /\ SubSeq(d, 1, n) \in Seq(Nat) /\ Len(SubSeq(d, 1, n)) = n /\ SubSeq(d, n + 1, Len(d)) \in Seq(Nat)
         /\ Chain(a, <<>>, SubSeq(d, 1, n), SubSeq(d, n + 1, Len(d))) = Chain(a, <<>>, <<>>, d)
<1> DEFINE x == SubSeq(d, 1, n)
           y == SubSeq(d, n + 1, Len(d))
<1>0. Len(d) \in Nat /\ n \in Nat
  BY LenProperties
<1>1. x \in Seq(Nat) /\ y \in Seq(Nat) /\ Len(x) = n
  <2>1. \A i \in 1 .. Len(d) : d[i] \in Nat
    BY ElementOfSeq
  <2>2. x \in Seq(Nat) /\ Len(x) = IF 1 <= n THEN n - 1 + 1 ELSE 0
    <3>1. \A i \in 1 .. n : d[i] \in Nat
      BY <1>0, <2>1
    <3> QED BY <1>0, <3>1, SubSeqProperties
  <2>3. y \in Seq(Nat)
    <3>1. \A i \in n + 1 .. Len(d) : d[i] \in Nat
      BY <1>0, <2>1
    <3> QED BY <1>0, <3>1, SubSeqProperties
  <2>4. (IF 1 <= n THEN n - 1 + 1 ELSE 0) = n
    BY <1>0
  <2> QED BY <2>2, <2>3, <2>4
<1>2. x \o y = d
  <2>1. SubSeq(d, 1, n) \o SubSeq(d, n + 1, Len(d)) = SubSeq(d, 1, Len(d))
    <3>1. 1 \in 1 .. Len(d) + 1 /\ n \in 1 - 1 .. Len(d) /\ Len(d) \in n .. Len(d)
      BY <1>0
    <3> QED BY <3>1, ConcatAdjacentSubSeq
  <2> QED BY <2>1, SubSeqFull
<1> HIDE DEF x, y
<1>3. (a \o x) \o y = a \o (x \o y)
  <2>1. x \in Seq(Nat) /\ y \in Seq(Nat)
    BY <1>1
  <2> QED BY <2>1, Associative
<1>4. a \o <<>> = a
  BY ConcatEmptySeq
<1>5. Chain(a, <<>>, x, y) = (a \o x) \o y
  BY <1>4 DEF Chain
<1>6. Chain(a, <<>>, <<>>, d) = a \o d
  BY <1>4 DEF Chain
<1> QED BY <1>1, <1>2, <1>3, <1>5, <1>6 DEF x, y

LEMMA PutBack ==
  ASSUME NEW a \in Seq(Nat), NEW c \in Seq(Nat), NEW d \in Seq(Nat), a # <<>>
  PROVE  /\ Front(a) \in Seq(Nat) /\ <<Last(a)>> \in Seq(Nat) /\ Len(<<Last(a)>>) = 1
         /\ Chain(Front(a), <<Last(a)>>, c, d) = Chain(a, <<>>, c, d)
<1>1. a = Front(a) \o <<Last(a)>> /\ Front(a) \in Seq(Nat) /\ Last(a) \in Nat
  BY FrontConcat
<1>2. a \o <<>> = a
  BY ConcatEmptySeq
<1> DEFINE x == Front(a)
           y == Last(a)
<1> HIDE DEF x, y
<1>3. x \o <<y>> \o c \o d = a \o <<>> \o c \o d
  BY <1>1, <1>2 DEF x, y
<1>4. <<y>> \in Seq(Nat) /\ Len(<<y>>) = 1
  BY <1>1 DEF y
<1> QED BY <1>1, <1>3, <1>4 DEF Chain, x, y

LEMMA LineTaken ==
  ASSUME NEW a \in Seq(Nat), NEW t \in Seq(Nat), NEW d \in Seq(Nat), Chain(a, <<>>, <<>>, <<>>) = t
  PROVE  Chain(a, <<>>, <<>>, d) = t \o d
<1>1. a \o <<>> = a /\ <<>> \in Seq(Nat)
  BY ConcatEmptySeq, EmptySeq
<1> QED BY <1>1 DEF Chain

-----------------------------------------------------------------------------
(* Streams: what is always so of the input.                                *)

NothingLeft == stdin.pushed = <<>> /\ stdin.buffer = <<>> /\ pending = <<>>

Asked(r) == r = Idle \/ (r \in [left : Nat \ {0}, stop : BOOLEAN] /\ \E n \in Requests : r.left \in 1 .. n)

InputTypes ==
  /\ stdin \in [eof : BOOLEAN, error : BOOLEAN, closed : BOOLEAN, pushed : Seq(Nat), buffer : Seq(Nat)]
  /\ Len(stdin.pushed) <= 1 /\ Len(stdin.buffer) <= BufferBytes
  /\ pending \in Seq(Nat) /\ line \in Seq(Nat) /\ typed \in Seq(Nat) /\ got \in Seq(Nat)
  /\ lines \in Nat /\ Asked(request)

\* A read that waits has nothing left to read.
InputInv ==
  /\ InputTypes
  /\ Chain(got, stdin.pushed, stdin.buffer, pending) = typed
  /\ stdin.eof => NothingLeft
  /\ waiting => request # Idle /\ ~stdin.eof /\ NothingLeft

LEMMA InputKept ==
  ASSUME InputInv, UNCHANGED <<stdin, pending, line, typed, got, lines, request, waiting>>
  PROVE  InputInv'
BY DEF InputInv, InputTypes, NothingLeft

\* The reading call takes a byte.
LEMMA ReadsOn ==
  ASSUME NEW c, InputInv, request # Idle, Reads(c)
  PROVE  got' = Append(got, c) /\ Asked(request')
<1>1. request \in [left : Nat \ {0}, stop : BOOLEAN]
  BY DEF InputInv, InputTypes, Asked
<1>2. PICK n \in Requests : request.left \in 1 .. n
  BY DEF InputInv, InputTypes, Asked
<1>3. n \in Nat
  BY StreamsAssumption
<1>4. CASE request' = Idle
  BY <1>4 DEF Reads, Asked
<1>5. CASE request' # Idle
  <2>1. request' = [request EXCEPT !.left = @ - 1] /\ request.left # 1
    BY <1>5 DEF Reads
  <2>2. request.left - 1 \in 1 .. n /\ request.left - 1 \in Nat \ {0}
    BY <1>1, <1>2, <1>3, <2>1
  <2>3. request'.left = request.left - 1 /\ request' \in [left : Nat \ {0}, stop : BOOLEAN]
    BY <1>1, <2>1, <2>2
  <2> QED BY <2>2, <2>3 DEF Reads, Asked
<1> QED BY <1>4, <1>5

LEMMA ReadByteInput == ASSUME InputInv, ReadByte PROVE InputInv'
<1>1. /\ InputTypes /\ request # Idle /\ ~waiting /\ line' = line /\ typed' = typed /\ lines' = lines
      /\ Chain(got, stdin.pushed, stdin.buffer, pending) = typed
      /\ stdin.eof => NothingLeft
  BY DEF InputInv, ReadByte, inputVars, AskLine, Buffered, Refill
<1>2. /\ stdin \in [eof : BOOLEAN, error : BOOLEAN, closed : BOOLEAN, pushed : Seq(Nat), buffer : Seq(Nat)]
      /\ stdin.pushed \in Seq(Nat) /\ stdin.buffer \in Seq(Nat) /\ pending \in Seq(Nat) /\ got \in Seq(Nat)
      /\ Len(stdin.pushed) <= 1 /\ Len(stdin.buffer) <= BufferBytes
  BY <1>1 DEF InputTypes
<1>3. CASE stdin.closed
  <2>1. /\ stdin' = [stdin EXCEPT !.error = TRUE] /\ request' = Idle /\ got' = got
        /\ pending' = pending /\ waiting' = waiting
    BY <1>3 DEF ReadByte, ReadsNothing
  <2>2. /\ stdin' \in [eof : BOOLEAN, error : BOOLEAN, closed : BOOLEAN, pushed : Seq(Nat), buffer : Seq(Nat)]
        /\ stdin'.pushed = stdin.pushed /\ stdin'.buffer = stdin.buffer /\ stdin'.eof = stdin.eof
    BY <1>2, <2>1
  <2> QED BY <1>1, <1>2, <2>1, <2>2 DEF InputInv, InputTypes, NothingLeft, Asked
<1>4. CASE ~stdin.closed /\ stdin.pushed # <<>>
  <2> DEFINE c == stdin.pushed[1]
  <2>1. stdin' = [stdin EXCEPT !.pushed = <<>>] /\ Reads(c) /\ pending' = pending /\ waiting' = waiting
    BY <1>4 DEF ReadByte, TakePushed
  <2>2. Append(got, c) \in Seq(Nat) /\ Chain(Append(got, c), <<>>, stdin.buffer, pending) = typed
    BY <1>1, <1>2, <1>4, TookPushed
  <2>3. got' = Append(got, c) /\ Asked(request')
    BY <1>1, <2>1, ReadsOn
  <2>4. /\ stdin' \in [eof : BOOLEAN, error : BOOLEAN, closed : BOOLEAN, pushed : Seq(Nat), buffer : Seq(Nat)]
        /\ stdin'.pushed = <<>> /\ stdin'.buffer = stdin.buffer /\ stdin'.eof = stdin.eof
    BY <1>2, <2>1, EmptySeq
  <2>5. ~stdin.eof
    BY <1>1, <1>4 DEF NothingLeft
  <2>6. Len(stdin'.pushed) <= 1 /\ Len(stdin'.buffer) <= BufferBytes
    BY <1>2, <2>4, EmptySeq
  <2> HIDE DEF c
  <2> QED BY <1>1, <2>1, <2>2, <2>3, <2>4, <2>5, <2>6 DEF InputInv, InputTypes
<1>5. CASE ~stdin.closed /\ stdin.pushed = <<>> /\ stdin.eof
  BY <1>1, <1>5 DEF ReadByte, ReadsNothing, InputInv, InputTypes, NothingLeft, Asked, TakePushed, Buffered, Refill, AskLine
<1>6. CASE ~stdin.closed /\ stdin.pushed = <<>> /\ ~stdin.eof /\ Buffered
  <2> DEFINE c == Head(stdin.buffer)
  <2>1. /\ stdin.buffer # <<>> /\ stdin' = [stdin EXCEPT !.buffer = Tail(stdin.buffer)] /\ Reads(c)
        /\ pending' = pending /\ waiting' = waiting
    BY <1>6 DEF Buffered, TakeBuffered
  <2>2. /\ Append(got, c) \in Seq(Nat) /\ Tail(stdin.buffer) \in Seq(Nat) /\ Len(Tail(stdin.buffer)) <= Len(stdin.buffer)
        /\ Chain(Append(got, c), <<>>, Tail(stdin.buffer), pending) = typed
    BY <1>1, <1>2, <1>6, <2>1, TookBuffered
  <2>3. got' = Append(got, c) /\ Asked(request')
    BY <1>1, <2>1, ReadsOn
  <2>4. /\ stdin' \in [eof : BOOLEAN, error : BOOLEAN, closed : BOOLEAN, pushed : Seq(Nat), buffer : Seq(Nat)]
        /\ stdin'.pushed = <<>> /\ stdin'.buffer = Tail(stdin.buffer) /\ stdin'.eof = stdin.eof
    BY <1>2, <1>6, <2>1, <2>2
  <2>5. Len(stdin'.pushed) <= 1 /\ Len(stdin'.buffer) <= BufferBytes
    <3>1. Len(Tail(stdin.buffer)) \in Nat /\ Len(stdin.buffer) \in Nat /\ BufferBytes \in Nat
      BY <1>2, <2>2, LenProperties, StreamsAssumption
    <3> QED BY <1>2, <2>2, <2>4, <3>1, EmptySeq
  <2> HIDE DEF c
  <2> QED BY <1>1, <1>6, <2>1, <2>2, <2>3, <2>4, <2>5 DEF InputInv, InputTypes
<1>7. CASE ~stdin.closed /\ stdin.pushed = <<>> /\ ~stdin.eof /\ Refill
  <2> DEFINE n == IF BufferBytes < Len(pending) THEN BufferBytes ELSE Len(pending)
             x == SubSeq(pending, 1, n)
             y == SubSeq(pending, n + 1, Len(pending))
  <2>1. /\ stdin.buffer = <<>> /\ stdin' = [stdin EXCEPT !.buffer = x] /\ pending' = y
        /\ request' = request /\ waiting' = waiting /\ got' = got
    BY <1>7 DEF Refill
  <2>2. n \in 0 .. Len(pending) /\ n <= BufferBytes
    <3>1. BufferBytes \in Nat /\ Len(pending) \in Nat
      BY <1>2, LenProperties, StreamsAssumption
    <3> QED BY <3>1
  <2> HIDE DEF n
  <2>3. x \in Seq(Nat) /\ Len(x) = n /\ y \in Seq(Nat) /\ Chain(got, <<>>, x, y) = Chain(got, <<>>, <<>>, pending)
    BY <1>2, <2>2, Refilled
  <2> HIDE DEF x, y
  <2>4. /\ stdin' \in [eof : BOOLEAN, error : BOOLEAN, closed : BOOLEAN, pushed : Seq(Nat), buffer : Seq(Nat)]
        /\ stdin'.pushed = <<>> /\ stdin'.buffer = x /\ stdin'.eof = stdin.eof
    BY <1>2, <1>7, <2>1, <2>3
  <2>5. Chain(got, <<>>, x, y) = typed
    BY <1>1, <1>7, <2>1, <2>3
  <2>6. Len(stdin'.pushed) <= 1
    BY <2>4, EmptySeq
  <2> QED BY <1>1, <1>7, <2>1, <2>2, <2>3, <2>4, <2>5, <2>6 DEF InputInv, InputTypes
<1>8. CASE ~stdin.closed /\ stdin.pushed = <<>> /\ ~stdin.eof /\ AskLine
  <2>1. stdin.buffer = <<>> /\ pending = <<>> /\ pending' = pending
    BY <1>8 DEF AskLine
  <2>2. got' = got /\ Asked(request') /\ (waiting' => request' # Idle /\ stdin' = stdin)
    BY <1>1, <1>8 DEF AskLine, ReadsNothing, Asked, InputTypes
  <2>3. stdin' = stdin \/ stdin' = [stdin EXCEPT !.eof = TRUE] \/ stdin' = [stdin EXCEPT !.error = TRUE]
    BY <1>8 DEF AskLine
  <2>4. /\ stdin' \in [eof : BOOLEAN, error : BOOLEAN, closed : BOOLEAN, pushed : Seq(Nat), buffer : Seq(Nat)]
        /\ stdin'.pushed = stdin.pushed /\ stdin'.buffer = stdin.buffer
    BY <1>2, <2>3
  <2> QED BY <1>1, <1>8, <2>1, <2>2, <2>4 DEF InputInv, InputTypes, NothingLeft
<1> QED BY <1>3, <1>4, <1>5, <1>6, <1>7, <1>8 DEF ReadByte

LEMMA ReadInput == ASSUME InputInv, Read PROVE InputInv'
<1>1. /\ stdin' = stdin /\ pending' = pending /\ line' = line /\ typed' = typed /\ got' = got /\ lines' = lines
      /\ waiting' = waiting /\ request = Idle
  BY DEF Read, Calls, inputVars, InMain
<1>2. PICK n \in Requests, stop \in BOOLEAN : request' = [left |-> n, stop |-> stop]
  BY DEF Read
<1>3. Asked(request')
  <2>1. n \in Nat \ {0} /\ n \in 1 .. n
    BY StreamsAssumption
  <2> QED BY <1>2, <2>1 DEF Asked
<1> QED BY <1>1, <1>3 DEF InputInv, InputTypes, NothingLeft

LEMMA LineArrivesInput == ASSUME InputInv, LineArrives PROVE InputInv'
<1>1. /\ waiting /\ ~waiting' /\ ~stdin.eof /\ NothingLeft /\ lines' = lines /\ InputTypes
      /\ Chain(got, stdin.pushed, stdin.buffer, pending) = typed
  BY DEF LineArrives, InputInv
<1>2. CASE completed
  <2> DEFINE l == Append(line, Newline)
  <2>1. /\ pending' = l /\ typed' = typed \o l /\ line' = <<>> /\ stdin' = stdin /\ request' = request /\ got' = got
    BY <1>2 DEF LineArrives
  <2>2. l \in Seq(Nat)
    BY <1>1 DEF InputTypes, Newline
  <2> HIDE DEF l
  <2>3. Chain(got, <<>>, <<>>, l) = typed \o l /\ typed \o l \in Seq(Nat)
    BY <1>1, <2>2, LineTaken, ConcatProperties DEF InputTypes, NothingLeft
  <2> QED BY <1>1, <2>1, <2>2, <2>3, EmptySeq DEF InputInv, InputTypes, NothingLeft
<1>3. CASE ~completed
  <2>1. /\ pending' = pending /\ typed' = typed /\ line' = line /\ request' = Idle /\ got' = got
        /\ stdin' = [stdin EXCEPT !.eof = TRUE] \/ stdin' = [stdin EXCEPT !.error = TRUE]
    BY <1>3 DEF LineArrives, ReadsNothing
  <2>2. /\ stdin' \in [eof : BOOLEAN, error : BOOLEAN, closed : BOOLEAN, pushed : Seq(Nat), buffer : Seq(Nat)]
        /\ stdin'.pushed = stdin.pushed /\ stdin'.buffer = stdin.buffer
    BY <1>1, <2>1 DEF InputTypes
  <2> QED BY <1>1, <2>1, <2>2 DEF InputInv, InputTypes, NothingLeft, Asked
<1> QED BY <1>2, <1>3

LEMMA UngetcInput == ASSUME InputInv, Ungetc PROVE InputInv'
<1> DEFINE one == <<Last(got)>>
<1>1. /\ stdin.pushed = <<>> /\ got # <<>> /\ request = Idle /\ got' = Front(got)
      /\ stdin' = [stdin EXCEPT !.eof = FALSE, !.pushed = one]
      /\ pending' = pending /\ line' = line /\ typed' = typed /\ lines' = lines /\ request' = request /\ waiting' = waiting
  BY DEF Ungetc, Calls, InMain, inputVars
<1>2. /\ InputTypes /\ ~waiting /\ Chain(got, <<>>, stdin.buffer, pending) = typed
      /\ stdin \in [eof : BOOLEAN, error : BOOLEAN, closed : BOOLEAN, pushed : Seq(Nat), buffer : Seq(Nat)]
      /\ got \in Seq(Nat) /\ pending \in Seq(Nat) /\ stdin.buffer \in Seq(Nat)
  BY <1>1 DEF InputInv, InputTypes
<1>3. Front(got) \in Seq(Nat) /\ one \in Seq(Nat) /\ Len(one) = 1 /\ Chain(Front(got), one, stdin.buffer, pending) = typed
  BY <1>1, <1>2, PutBack
<1> HIDE DEF one
<1>4. /\ stdin' \in [eof : BOOLEAN, error : BOOLEAN, closed : BOOLEAN, pushed : Seq(Nat), buffer : Seq(Nat)]
      /\ stdin'.pushed = one /\ stdin'.buffer = stdin.buffer /\ ~stdin'.eof
  BY <1>1, <1>2, <1>3
<1>5. InputTypes'
  <2>1. Len(stdin'.pushed) <= 1
    <3>1. Len(one) = 1
      BY <1>3
    <3>2. one \in Seq(Nat) /\ stdin'.pushed = one
      BY <1>3, <1>4
    <3>3. Len(stdin'.pushed) = 1
      BY <3>1, <3>2
    <3> QED BY <3>3
  <2>2. Len(stdin'.buffer) <= BufferBytes
    BY <1>2, <1>4 DEF InputTypes
  <2> QED BY <1>1, <1>2, <1>3, <1>4, <2>1, <2>2 DEF InputTypes
<1>6. Chain(got', stdin'.pushed, stdin'.buffer, pending') = typed'
  BY <1>1, <1>3, <1>4
<1> QED BY <1>1, <1>2, <1>4, <1>5, <1>6 DEF InputInv

LEMMA FlagsInput == ASSUME InputInv, Clearerr \/ CloseStdin PROVE InputInv'
<1>1. /\ stdin' = [stdin EXCEPT !.eof = FALSE, !.error = FALSE] \/ stdin' = [stdin EXCEPT !.closed = TRUE]
      /\ pending' = pending /\ line' = line /\ typed' = typed /\ lines' = lines /\ request' = request /\ waiting' = waiting
      /\ got' = got
  BY DEF Clearerr, CloseStdin, Calls, inputVars
<1>2. /\ stdin' \in [eof : BOOLEAN, error : BOOLEAN, closed : BOOLEAN, pushed : Seq(Nat), buffer : Seq(Nat)]
      /\ stdin'.pushed = stdin.pushed /\ stdin'.buffer = stdin.buffer /\ (stdin'.eof => stdin.eof)
  BY <1>1 DEF InputInv, InputTypes
<1> QED BY <1>1, <1>2 DEF InputInv, InputTypes, NothingLeft

LEMMA ConsoleInput == ASSUME InputInv, Console PROVE InputInv'
<1>1. /\ stdin' = stdin /\ pending' = pending /\ request' = request /\ waiting' = waiting /\ typed' = typed /\ got' = got
  BY DEF Console
<1>2. line' \in Seq(Nat) /\ lines' \in Nat
  <2>1. line \in Seq(Nat) /\ lines \in Nat
    BY DEF InputInv, InputTypes
  <2>2. CASE Enter
    <3>1. PICK n \in 0 .. MaxTyped : line' = [i \in 1 .. n |-> lines * MaxTyped + i]
      BY <2>2 DEF Enter
    <3>2. MaxTyped \in Nat /\ n \in Nat
      BY StreamsAssumption
    <3>3. \A i \in 1 .. n : lines * MaxTyped + i \in Nat
      <4>1. lines * MaxTyped \in Nat
        BY <2>1, <3>2
      <4> DEFINE b == lines * MaxTyped
      <4> HIDE DEF b
      <4>2. \A i \in 1 .. n : b + i \in Nat
        BY <3>2, <4>1 DEF b
      <4> QED BY <4>2 DEF b
    <3>4. line' \in [1 .. n -> Nat]
      BY <3>1, <3>3
    <3>5. line' \in Seq(Nat)
      BY <3>2, <3>4, SeqDef
    <3> QED BY <2>1, <2>2, <3>5 DEF Enter
  <2>3. CASE BeginInput \/ TryRead \/ CancelInput \/ CloseInput \/ ReopenInput
    <3>1. lines' = lines /\ (line' = line \/ line' = <<>>)
      BY <2>3 DEF BeginInput, TryRead, CancelInput, CloseInput, ReopenInput, Cancelled, Calls
    <3> QED BY <2>1, <3>1, EmptySeq
  <2> QED BY <2>2, <2>3 DEF Console
<1> QED BY <1>1, <1>2 DEF InputInv, InputTypes, NothingLeft

LEMMA InputStep == ASSUME InputInv, [StreamsNext]_streamVars PROVE InputInv'
<1>1. CASE ReadByte
  BY <1>1, ReadByteInput
<1>2. CASE Read
  BY <1>2, ReadInput
<1>3. CASE LineArrives
  BY <1>3, LineArrivesInput
<1>4. CASE Ungetc
  BY <1>4, UngetcInput
<1>5. CASE Clearerr \/ CloseStdin
  BY <1>5, FlagsInput
<1>6. CASE Console
  BY <1>6, ConsoleInput
<1>7. CASE FlushCall
  BY <1>7, InputKept DEF FlushCall, Calls, inputVars
<1>8. CASE Fwrite
  BY <1>8, InputKept DEF Fwrite, Calls, Cancelled
<1>9. CASE FlushBegins \/ FlushSkipped
  BY <1>9, InputKept DEF FlushBegins, FlushSkipped, inputVars
<1>10. CASE Poll \/ HandlersReturn
  BY <1>10, InputKept DEF Poll, HandlersReturn, Calls, inputVars
<1>11. CASE Paint
  BY <1>11, InputKept DEF Paint, inputVars
<1>12. CASE ExitCalled \/ LastFlush \/ Stop \/ ExitInHandler
  BY <1>12, InputKept DEF ExitCalled, LastFlush, Stop, ExitInHandler, inputVars
<1>13. CASE UNCHANGED streamVars
  BY <1>13, InputKept DEF streamVars, inputVars
<1> QED BY <1>1, <1>2, <1>3, <1>4, <1>5, <1>6, <1>7, <1>8, <1>9, <1>10, <1>11, <1>12, <1>13 DEF StreamsNext

-----------------------------------------------------------------------------
(* Streams: what is always so of the output.                               *)

AllClean == \A f \in Output : ~files[f].dirty

\* While exit flushes, one stream after the other, nothing else runs but what
\* the polls of these flushes call.
Closing ==
  /\ request = Idle /\ (dispatching => flushing)
  /\ toFlush \in {FflushAll, Fflush("stderr"), <<>>}
  /\ toFlush = Fflush("stderr") /\ ~flushing => ~files["stdout"].dirty
  /\ toFlush = <<>> => ~flushing /\ shown = written

OutputInv ==
  /\ files \in [Output -> [closed : BOOLEAN, dirty : BOOLEAN, mode : Modes]]
  /\ written \in Nat /\ shown \in 0 .. written
  /\ toFlush \in Seq([file : Output, then : {"-", "close"} \cup Modes])
  /\ ending \in {"no", "finalizers", "last flush", "done"}
  /\ \A f \in Output : files[f].closed => ~files[f].dirty
  /\ ~flushing /\ AllClean => shown = written
  /\ ~flushing /\ ending = "done" => shown = written
  /\ flushing => waiting \/ toFlush # <<>>
  /\ waiting => request # Idle
  /\ request # Idle => toFlush = <<>>
  /\ ending = "last flush" => Closing

LEMMA FlushLists ==
  /\ FflushAll \in Seq([file : Output, then : {"-", "close"} \cup Modes]) /\ FflushAll # <<>>
  /\ FflushAll[1] = [file |-> "stdout", then |-> "-"] /\ Tail(FflushAll) = Fflush("stderr")
  /\ \A f \in Output : /\ Fflush(f) \in Seq([file : Output, then : {"-", "close"} \cup Modes]) /\ Fflush(f) # <<>>
                       /\ Fflush(f)[1] = [file |-> f, then |-> "-"] /\ Tail(Fflush(f)) = <<>>
<1> DEFINE T == [file : Output, then : {"-", "close"} \cup Modes]
           a == [file |-> "stdout", then |-> "-"]
           b == [file |-> "stderr", then |-> "-"]
<1>1. a \in T /\ b \in T /\ \A f \in Output : [file |-> f, then |-> "-"] \in T
  BY DEF Output
<1> HIDE DEF T
<1>2. ASSUME NEW c \in T PROVE <<c>> \in Seq(T) /\ <<c>> # <<>> /\ <<c>>[1] = c /\ Len(<<c>>) = 1 /\ Tail(<<c>>) = <<>>
  <2>1. <<c>> \in Seq(T) /\ <<c>> # <<>> /\ <<c>>[1] = c /\ Len(<<c>>) = 1
    OBVIOUS
  <2>2. Tail(<<c>>) \in Seq(T) /\ Len(Tail(<<c>>)) = 0
    BY <2>1, HeadTailProperties
  <2>3. Tail(<<c>>) = <<>>
    BY <2>2, EmptySeq
  <2> QED BY <2>1, <2>3
<1> HIDE DEF a, b
<1>3. FflushAll = <<a>> \o <<b>>
  BY DEF FflushAll, Fflush, a, b
<1>4. <<a>> \o <<b>> \in Seq(T) /\ <<a>> \o <<b>> # <<>> /\ (<<a>> \o <<b>>)[1] = a /\ Tail(<<a>> \o <<b>>) = <<b>>
  <2> DEFINE x == <<a>>
             y == <<b>>
             s == x \o y
  <2>1. x \in Seq(T) /\ y \in Seq(T) /\ Len(x) = 1 /\ Len(y) = 1 /\ x[1] = a /\ y[1] = b
    BY <1>1, <1>2
  <2> HIDE DEF x, y
  <2>2. s \in Seq(T) /\ Len(s) = 2 /\ \A i \in 1 .. 2 : s[i] = IF i <= 1 THEN x[i] ELSE y[i - 1]
    <3>1. x \in Seq(T) /\ y \in Seq(T)
      BY <2>1
    <3>2. /\ s \in Seq(T) /\ Len(s) = Len(x) + Len(y)
          /\ \A i \in 1 .. Len(x) + Len(y) : s[i] = IF i <= Len(x) THEN x[i] ELSE y[i - Len(x)]
      BY <3>1, ConcatProperties
    <3> HIDE DEF s
    <3> QED BY <2>1, <3>2
  <2> HIDE DEF s
  <2>3. s # <<>> /\ s[1] = a /\ s[2] = b
    <3>1. s # <<>>
      BY <2>2, EmptySeq
    <3> QED BY <2>1, <2>2, <3>1
  <2>4. Tail(s) \in Seq(T) /\ Len(Tail(s)) = 1 /\ \A i \in 1 .. Len(Tail(s)) : Tail(s)[i] = s[i + 1]
    BY <2>2, <2>3, HeadTailProperties
  <2>5. Tail(s)[1] = y[1]
    BY <2>1, <2>3, <2>4
  <2>6. Tail(s) = y
    <3> DEFINE t == Tail(s)
    <3>3. t \in Seq(T) /\ Len(t) = 1 /\ t[1] = y[1]
      BY <2>4, <2>5
    <3> HIDE DEF t
    <3>1. t \in Seq(T) /\ Len(t) = Len(y) /\ \A i \in 1 .. Len(t) : t[i] = y[i]
      BY <2>1, <3>3
    <3>2. t = y
      BY <2>1, <3>1, SeqEqual
    <3> QED BY <3>2 DEF t
  <2> QED BY <2>2, <2>3, <2>6 DEF s, x, y
<1>5. Tail(<<a>> \o <<b>>) = Fflush("stderr")
  BY <1>4 DEF Fflush, b
<1>6. FflushAll \in Seq(T) /\ FflushAll # <<>> /\ FflushAll[1] = a /\ Tail(FflushAll) = Fflush("stderr")
  BY <1>3, <1>4, <1>5
<1>7. ASSUME NEW f \in Output
      PROVE  Fflush(f) \in Seq(T) /\ Fflush(f) # <<>> /\ Fflush(f)[1] = [file |-> f, then |-> "-"] /\ Tail(Fflush(f)) = <<>>
  <2> DEFINE c == [file |-> f, then |-> "-"]
  <2>1. c \in T
    BY <1>1
  <2> HIDE DEF c
  <2>2. Fflush(f) = <<c>>
    BY DEF Fflush, c
  <2>3. <<c>> \in Seq(T) /\ <<c>> # <<>> /\ <<c>>[1] = c /\ Tail(<<c>>) = <<>>
    BY <1>2, <2>1
  <2> QED BY <2>2, <2>3 DEF c
<1> QED BY <1>6, <1>7 DEF T, a

LEMMA AfterIs ==
  ASSUME NEW f \in [closed : BOOLEAN, dirty : BOOLEAN, mode : Modes], NEW then \in {"-", "close"} \cup Modes
  PROVE  After(f, then) \in [closed : BOOLEAN, dirty : BOOLEAN, mode : Modes] /\ ~After(f, then).dirty
<1> DEFINE m == IF then \in Modes THEN then ELSE f.mode
           c == f.closed \/ then = "close"
<1>1. After(f, then) = [f EXCEPT !.dirty = FALSE, !.closed = c, !.mode = m]
  BY DEF After
<1>2. m \in Modes /\ c \in BOOLEAN
  OBVIOUS
<1> HIDE DEF m, c
<1> QED BY <1>1, <1>2

LEMMA OutputKept ==
  ASSUME OutputInv, UNCHANGED <<files, written, shown, toFlush, ending, flushing, dispatching, waiting, request>>
  PROVE  OutputInv'
BY DEF OutputInv, AllClean, Closing

\* The reading call changes none of it but whether it waits and is under way.
LEMMA ReadingOutput ==
  ASSUME OutputInv, UNCHANGED <<files, written, shown, toFlush, ending, flushing, dispatching>>,
         request # Idle \/ (toFlush = <<>> /\ ending # "last flush"), waiting' => request' # Idle, flushing => waiting' \/ toFlush # <<>>
  PROVE  OutputInv'
<1>1. toFlush = <<>> /\ ending # "last flush"
  BY DEF OutputInv, Closing
<1> QED BY <1>1 DEF OutputInv, AllClean

LEMMA InputOutput ==
  ASSUME OutputInv, ReadByte \/ Read \/ LineArrives \/ Ungetc \/ Clearerr \/ CloseStdin \/ Console
  PROVE  OutputInv'
<1>1. CASE ReadByte
  <2>1. request # Idle /\ ~waiting /\ ~flushing /\ UNCHANGED <<files, written, shown, toFlush, ending, flushing, dispatching>>
    BY <1>1 DEF ReadByte, paintVars
  <2>2. waiting' => request' # Idle
    BY <1>1, <2>1 DEF ReadByte, Buffered, Refill, AskLine
  <2> QED BY <2>1, <2>2, ReadingOutput
<1>2. CASE Read
  <2>1. /\ toFlush = <<>> /\ ending # "last flush" /\ request = Idle /\ waiting' = waiting
        /\ UNCHANGED <<files, written, shown, toFlush, ending, flushing, dispatching>> /\ ~flushing
    BY <1>2 DEF Read, InMain, paintVars
  <2>2. ~waiting
    BY <2>1 DEF OutputInv
  <2> QED BY <2>1, <2>2, ReadingOutput
<1>3. CASE LineArrives
  <2>1. waiting /\ ~waiting' /\ ~flushing /\ UNCHANGED <<files, written, shown, toFlush, ending, flushing, dispatching>>
    BY <1>3 DEF LineArrives, paintVars
  <2>2. request # Idle
    BY <2>1 DEF OutputInv
  <2> QED BY <2>1, <2>2, ReadingOutput
<1>4. CASE Ungetc \/ Clearerr \/ CloseStdin
  BY <1>4, OutputKept DEF Ungetc, Clearerr, CloseStdin, Calls, paintVars
<1>5. CASE Console
  BY <1>5, OutputKept DEF Console, paintVars
<1> QED BY <1>1, <1>2, <1>3, <1>4, <1>5

\* A call of main, or one of a handler, which does not touch the calls of
\* fflush under way.
LEMMA CallOutput ==
  ASSUME OutputInv, InMain \/ InHandler,
         UNCHANGED <<ending, flushing, dispatching, waiting, request>>,
         files' \in [Output -> [closed : BOOLEAN, dirty : BOOLEAN, mode : Modes]],
         written' \in Nat, shown' \in 0 .. written',
         toFlush' \in Seq([file : Output, then : {"-", "close"} \cup Modes]),
         dispatching => toFlush' = toFlush,
         \A f \in Output : files'[f].closed => ~files'[f].dirty,
         ~flushing /\ AllClean' => shown' = written'
  PROVE  OutputInv'
<1>1. CASE dispatching
  <2>1. toFlush' = toFlush /\ ending # "done"
    BY <1>1 DEF InMain, InHandler
  <2>2. ending = "last flush" => flushing /\ Closing
    BY <1>1 DEF OutputInv, Closing
  <2>3. ending = "last flush" => Closing'
    BY <2>1, <2>2 DEF Closing
  <2> QED BY <2>1, <2>3 DEF OutputInv
<1>2. CASE ~dispatching
  <2>1. ~flushing /\ request = Idle /\ ending \in {"no", "finalizers"}
    BY <1>2 DEF InMain, InHandler
  <2> QED BY <2>1 DEF OutputInv
<1> QED BY <1>1, <1>2

LEMMA FlushCallOutput == ASSUME OutputInv, FlushCall PROVE OutputInv'
<1>1. PICK f \in Output, then \in {"-", "close"} \cup Modes :
        /\ ~files[f].closed
        /\ \/ /\ dispatching /\ files' = [files EXCEPT ![f] = After(files[f], then)]
              /\ FlushedInHandler({f}, written) /\ toFlush' = toFlush
           \/ /\ ~dispatching /\ toFlush' = <<[file |-> f, then |-> then]>> /\ files' = files /\ shown' = shown
  BY DEF FlushCall
<1>2. /\ InMain \/ InHandler
      /\ UNCHANGED <<ending, flushing, dispatching, waiting, request>> /\ written' = written
  BY DEF FlushCall, Calls
<1>3. /\ files \in [Output -> [closed : BOOLEAN, dirty : BOOLEAN, mode : Modes]]
      /\ written \in Nat /\ shown \in 0 .. written
      /\ toFlush \in Seq([file : Output, then : {"-", "close"} \cup Modes])
      /\ \A g \in Output : files[g].closed => ~files[g].dirty
      /\ ~flushing /\ AllClean => shown = written
  BY DEF OutputInv
<1>4. CASE dispatching
  <2> DEFINE a == After(files[f], then)
  <2>1. files' = [files EXCEPT ![f] = a] /\ FlushedInHandler({f}, written) /\ toFlush' = toFlush
    BY <1>1, <1>4
  <2>2. a \in [closed : BOOLEAN, dirty : BOOLEAN, mode : Modes] /\ ~a.dirty
    BY <1>3, AfterIs
  <2> HIDE DEF a
  <2>3. /\ files' \in [Output -> [closed : BOOLEAN, dirty : BOOLEAN, mode : Modes]]
        /\ ~files'[f].dirty /\ \A g \in Output : g # f => files'[g] = files[g]
    BY <1>3, <2>1, <2>2
  <2>4. shown' = written \/ (shown' = shown /\ (flushing \/ ~files[f].dirty))
    BY <1>1, <2>1 DEF FlushedInHandler, NeedsFlush
  <2>5. ~flushing /\ AllClean' => shown' = written
    <3> SUFFICES ASSUME ~flushing, AllClean', shown' = shown, ~files[f].dirty PROVE shown' = written
      BY <2>4
    <3>1. AllClean
      BY <2>3 DEF AllClean
    <3> QED BY <1>3, <3>1
  <2>6. shown' \in 0 .. written' /\ written' \in Nat
    BY <1>2, <1>3, <2>4
  <2>7. \A g \in Output : files'[g].closed => ~files'[g].dirty
    BY <1>3, <2>3
  <2> QED BY <1>2, <1>3, <1>4, <2>1, <2>3, <2>5, <2>6, <2>7, CallOutput
<1>5. CASE ~dispatching
  <2> DEFINE c == [file |-> f, then |-> then]
  <2>1. c \in [file : Output, then : {"-", "close"} \cup Modes]
    OBVIOUS
  <2>2. toFlush' = <<c>> /\ files' = files /\ shown' = shown
    BY <1>1, <1>5
  <2> HIDE DEF c
  <2>3. toFlush' \in Seq([file : Output, then : {"-", "close"} \cup Modes])
    BY <2>1, <2>2
  <2>4. AllClean' <=> AllClean
    BY <2>2 DEF AllClean
  <2> QED BY <1>2, <1>3, <1>5, <2>2, <2>3, <2>4, CallOutput
<1> QED BY <1>4, <1>5

LEMMA FwriteOutput == ASSUME OutputInv, Fwrite PROVE OutputInv'
<1>1. PICK f \in Output, c \in {Newline, 1} :
        /\ ~files[f].closed /\ written' = written + 1
        /\ LET flush == files[f].mode = "none" \/ (files[f].mode = "line" /\ c = Newline) IN
           IF dispatching
           THEN /\ files' = [Marked(f) EXCEPT ![f].dirty = ~flush]
                /\ shown' = IF flush /\ ~flushing THEN written' ELSE shown
                /\ UNCHANGED toFlush
           ELSE /\ files' = Marked(f)
                /\ toFlush' = IF flush THEN Fflush(f) ELSE <<>>
                /\ UNCHANGED shown
  BY DEF Fwrite
<1> DEFINE flush == files[f].mode = "none" \/ (files[f].mode = "line" /\ c = Newline)
<1>2. /\ InMain \/ InHandler
      /\ UNCHANGED <<ending, flushing, dispatching, waiting, request>>
  BY DEF Fwrite, Calls
<1>3. /\ files \in [Output -> [closed : BOOLEAN, dirty : BOOLEAN, mode : Modes]]
      /\ written \in Nat /\ shown \in 0 .. written
      /\ toFlush \in Seq([file : Output, then : {"-", "close"} \cup Modes])
      /\ \A g \in Output : files[g].closed => ~files[g].dirty
  BY DEF OutputInv
<1>4. /\ dispatching => files' = [files EXCEPT ![f] = [files[f] EXCEPT !.dirty = ~flush]]
      /\ ~dispatching => files' = [files EXCEPT ![f] = [files[f] EXCEPT !.dirty = TRUE]]
  BY <1>1, <1>3 DEF Marked
<1>5. /\ dispatching => shown' = (IF flush /\ ~flushing THEN written' ELSE shown) /\ toFlush' = toFlush
      /\ ~dispatching => shown' = shown /\ toFlush' = (IF flush THEN Fflush(f) ELSE <<>>)
  BY <1>1
<1>6. flush \in BOOLEAN
  OBVIOUS
<1> HIDE DEF flush
<1>7. PICK d \in BOOLEAN : files' = [files EXCEPT ![f] = [files[f] EXCEPT !.dirty = d]] /\ (~d => dispatching /\ flush)
  BY <1>4, <1>6
<1>8. /\ files' \in [Output -> [closed : BOOLEAN, dirty : BOOLEAN, mode : Modes]]
      /\ files'[f].dirty = d /\ files'[f].closed = files[f].closed
      /\ \A g \in Output : g # f => files'[g] = files[g]
  BY <1>3, <1>7
<1>9. \A g \in Output : files'[g].closed => ~files'[g].dirty
  BY <1>1, <1>3, <1>8
<1>10. written' \in Nat /\ shown' \in 0 .. written'
  BY <1>1, <1>3, <1>5
<1>11. toFlush' \in Seq([file : Output, then : {"-", "close"} \cup Modes])
  BY <1>3, <1>5, FlushLists, EmptySeq
<1>12. ~flushing /\ AllClean' => shown' = written'
  <2> SUFFICES ASSUME ~flushing, AllClean' PROVE shown' = written'
    OBVIOUS
  <2>1. ~d
    BY <1>8 DEF AllClean
  <2> QED BY <1>5, <1>7, <2>1
<1>13. dispatching => toFlush' = toFlush
  BY <1>5
<1> QED BY <1>2, <1>8, <1>9, <1>10, <1>11, <1>12, <1>13, CallOutput

LEMMA PollOutput == ASSUME OutputInv, FlushBegins \/ Poll \/ HandlersReturn PROVE OutputInv'
<1>1. UNCHANGED <<files, written, shown, toFlush, ending, waiting, request>>
  BY DEF FlushBegins, Poll, HandlersReturn
<1>2. CASE FlushBegins
  <2>1. flushing' /\ dispatching' /\ (waiting \/ toFlush # <<>>) /\ ~flushing
    BY <1>2 DEF FlushBegins
  <2>2. ending = "last flush" => toFlush # <<>>
    BY <2>1 DEF OutputInv, Closing
  <2> QED BY <1>1, <2>1, <2>2 DEF OutputInv, Closing
<1>3. CASE Poll
  <2>1. flushing' = flushing /\ ending # "last flush"
    BY <1>3 DEF Poll, InMain
  <2> QED BY <1>1, <2>1 DEF OutputInv, AllClean
<1>4. CASE HandlersReturn
  <2>1. flushing' = flushing /\ ~dispatching'
    BY <1>4 DEF HandlersReturn
  <2> QED BY <1>1, <2>1 DEF OutputInv, AllClean, Closing
<1> QED BY <1>2, <1>3, <1>4

\* The first call of fflush ends: what it flushed is clean.
LEMMA FlushEnds ==
  ASSUME OutputInv, toFlush # <<>>,
         files' = [files EXCEPT ![toFlush[1].file] = After(files[toFlush[1].file], toFlush[1].then)],
         toFlush' = Tail(toFlush), UNCHANGED <<written, ending, dispatching, waiting, request>>, ~flushing',
         shown' \in 0 .. written, ~dispatching, ending # "done",
         AllClean' => shown' = written, flushing => shown' = written
  PROVE  OutputInv'
<1> DEFINE f == toFlush[1].file
           a == After(files[f], toFlush[1].then)
<1>1. /\ files \in [Output -> [closed : BOOLEAN, dirty : BOOLEAN, mode : Modes]] /\ written \in Nat
      /\ \A g \in Output : files[g].closed => ~files[g].dirty
      /\ ending \in {"no", "finalizers", "last flush", "done"}
      /\ waiting => request # Idle
      /\ request # Idle => toFlush = <<>>
      /\ ending = "last flush" => Closing
  BY DEF OutputInv
<1>2. toFlush[1] \in [file : Output, then : {"-", "close"} \cup Modes] /\ Tail(toFlush) \in Seq([file : Output, then : {"-", "close"} \cup Modes])
  <2> DEFINE T == [file : Output, then : {"-", "close"} \cup Modes]
  <2>1. toFlush \in Seq(T)
    BY DEF OutputInv
  <2> HIDE DEF T
  <2>2. Len(toFlush) \in Nat \ {0}
    BY <2>1, EmptySeq
  <2>3. toFlush[1] \in T
    BY <2>1, <2>2
  <2>4. Tail(toFlush) \in Seq(T)
    BY <2>1, HeadTailProperties
  <2> QED BY <2>3, <2>4 DEF T
<1>3. f \in Output /\ a \in [closed : BOOLEAN, dirty : BOOLEAN, mode : Modes] /\ ~a.dirty
  <2>1. f \in Output /\ toFlush[1].then \in {"-", "close"} \cup Modes
    BY <1>2
  <2>2. files[f] \in [closed : BOOLEAN, dirty : BOOLEAN, mode : Modes]
    BY <1>1, <2>1
  <2> QED BY <2>1, <2>2, AfterIs
<1> HIDE DEF a
<1>4. files' = [files EXCEPT ![f] = a]
  BY DEF a
<1>5. /\ files' \in [Output -> [closed : BOOLEAN, dirty : BOOLEAN, mode : Modes]]
      /\ ~files'[f].dirty /\ \A g \in Output : g # f => files'[g] = files[g]
  <2> HIDE DEF f
  <2> QED BY <1>1, <1>3, <1>4
<1>6. \A g \in Output : files'[g].closed => ~files'[g].dirty
  BY <1>1, <1>5
<1>7. request = Idle /\ ~waiting
  BY <1>1
<1>8. ending = "last flush" => Closing'
  <2> SUFFICES ASSUME ending = "last flush" PROVE Closing'
    OBVIOUS
  <2>1. toFlush \in {FflushAll, Fflush("stderr")} /\ Closing
    BY <1>1 DEF Closing
  <2>2. CASE toFlush = FflushAll
    <3>1. f = "stdout" /\ Tail(toFlush) = Fflush("stderr") /\ Fflush("stderr") # <<>>
      <4>1. FflushAll[1] = [file |-> "stdout", then |-> "-"] /\ Tail(FflushAll) = Fflush("stderr")
        BY FlushLists
      <4>2. Fflush("stderr") # <<>>
        BY FlushLists DEF Output
      <4>3. FflushAll[1].file = "stdout"
        <5> DEFINE c == [file |-> "stdout", then |-> "-"]
        <5>1. FflushAll[1] = c
          BY <4>1
        <5>2. c.file = "stdout"
          OBVIOUS
        <5> HIDE DEF c
        <5> QED BY <5>1, <5>2
      <4> QED BY <2>2, <4>1, <4>2, <4>3
    <3>2. ~files'["stdout"].dirty
      BY <1>5, <3>1
    <3> QED BY <1>7, <3>1, <3>2 DEF Closing
  <2>3. CASE toFlush = Fflush("stderr")
    <3>1. f = "stderr" /\ Tail(toFlush) = <<>>
      <4>1. Fflush("stderr")[1] = [file |-> "stderr", then |-> "-"] /\ Tail(Fflush("stderr")) = <<>>
        BY FlushLists DEF Output
      <4>2. Fflush("stderr")[1].file = "stderr"
        <5> DEFINE c == [file |-> "stderr", then |-> "-"]
        <5>1. Fflush("stderr")[1] = c
          BY <4>1
        <5>2. c.file = "stderr"
          OBVIOUS
        <5> HIDE DEF c
        <5> QED BY <5>1, <5>2
      <4> QED BY <2>3, <4>1, <4>2
    <3>2. shown' = written
      <4>1. flushing \/ ~files["stdout"].dirty
        BY <2>1, <2>3 DEF Closing
      <4>2. CASE ~files["stdout"].dirty
        <5>1. AllClean'
          BY <1>5, <3>1, <4>2 DEF AllClean, Output
        <5> QED BY <5>1
      <4>3. CASE flushing
        BY <4>3
      <4> QED BY <4>1, <4>2, <4>3
    <3>3. <<>> # Fflush("stderr") /\ <<>> # FflushAll
      BY FlushLists DEF Output
    <3> QED BY <1>7, <3>1, <3>2, <3>3 DEF Closing
  <2> QED BY <2>1, <2>2, <2>3
<1> QED BY <1>1, <1>2, <1>5, <1>6, <1>7, <1>8 DEF OutputInv

LEMMA FlushSkippedOutput == ASSUME OutputInv, FlushSkipped, ending # "done" PROVE OutputInv'
<1> DEFINE f == toFlush[1].file
<1>1. /\ toFlush # <<>> /\ ~flushing /\ ~dispatching /\ ~NeedsFlush(f)
      /\ files' = [files EXCEPT ![f] = After(files[f], toFlush[1].then)]
      /\ toFlush' = Tail(toFlush) /\ flushing' = flushing /\ shown' = shown
      /\ UNCHANGED <<written, ending, dispatching, waiting, request>>
  BY DEF FlushSkipped, paintVars
<1>2. /\ files \in [Output -> [closed : BOOLEAN, dirty : BOOLEAN, mode : Modes]] /\ shown \in 0 .. written
      /\ \A g \in Output : files[g].closed => ~files[g].dirty
      /\ AllClean => shown = written
  BY <1>1 DEF OutputInv
<1>3. ~files[f].dirty \/ f \notin Output
  BY <1>1, <1>2 DEF NeedsFlush
<1>4. \A g \in Output : g # f => files'[g] = files[g]
  <2> HIDE DEF f
  <2> QED BY <1>1, <1>2
<1>5. AllClean' => shown' = written
  BY <1>1, <1>2, <1>3, <1>4 DEF AllClean
<1> QED BY <1>1, <1>2, <1>5, FlushEnds

LEMMA PaintOutput == ASSUME OutputInv, Paint, ending # "done" PROVE OutputInv'
<1>1. /\ flushing /\ ~dispatching /\ shown' = written /\ ~flushing'
      /\ UNCHANGED <<written, ending, dispatching, waiting, request>>
  BY DEF Paint
<1>2. written \in Nat /\ shown' \in 0 .. written
  <2>1. written \in Nat
    BY DEF OutputInv
  <2> QED BY <1>1, <2>1
<1>3. CASE waiting
  <2>1. files' = files /\ toFlush' = toFlush
    BY <1>3 DEF Paint
  <2>2. ending # "last flush"
    BY <1>3 DEF OutputInv, Closing
  <2> QED BY <1>1, <1>2, <1>3, <2>1, <2>2 DEF OutputInv
<1>4. CASE ~waiting
  <2>1. /\ files' = [files EXCEPT ![toFlush[1].file] = After(files[toFlush[1].file], toFlush[1].then)]
        /\ toFlush' = Tail(toFlush)
    BY <1>4 DEF Paint
  <2>2. toFlush # <<>>
    BY <1>1, <1>4 DEF OutputInv
  <2> QED BY <1>1, <1>2, <2>1, <2>2, FlushEnds
<1> QED BY <1>3, <1>4

LEMMA ExitOutput ==
  ASSUME OutputInv, ExitCalled \/ LastFlush \/ Stop, ending # "done"
  PROVE  OutputInv'
<1>1. CASE ExitCalled
  <2>1. UNCHANGED <<files, written, shown, toFlush, flushing, dispatching, waiting, request>> /\ ending' = "finalizers"
    BY <1>1 DEF ExitCalled, paintVars
  <2> QED BY <2>1 DEF OutputInv, AllClean
<1>2. CASE LastFlush
  <2>1. /\ UNCHANGED <<files, written, shown, flushing, dispatching, waiting, request>> /\ ending' = "last flush"
        /\ toFlush' = FflushAll /\ ~flushing /\ ~dispatching /\ request = Idle
    BY <1>2 DEF LastFlush, InMain, paintVars
  <2>2. FflushAll # <<>> /\ FflushAll # Fflush("stderr") /\ FflushAll \in Seq([file : Output, then : {"-", "close"} \cup Modes])
    <3>1. Tail(FflushAll) # <<>> /\ Tail(Fflush("stderr")) = <<>>
      BY FlushLists DEF Output
    <3> QED BY <3>1, FlushLists
  <2>3. Closing'
    BY <2>1, <2>2 DEF Closing
  <2> QED BY <2>1, <2>2, <2>3 DEF OutputInv, AllClean
<1>3. CASE Stop
  <2>1. /\ UNCHANGED <<files, written, shown, toFlush, flushing, dispatching, waiting, request>> /\ ending' = "done"
        /\ ending = "last flush" /\ toFlush = <<>>
    BY <1>3 DEF Stop, paintVars
  <2>2. shown = written
    BY <2>1 DEF OutputInv, Closing
  <2> QED BY <2>1, <2>2 DEF OutputInv, AllClean
<1> QED BY <1>1, <1>2, <1>3

LEMMA ExitInHandlerOutput == ASSUME OutputInv, ExitInHandler PROVE OutputInv'
<1>1. /\ UNCHANGED <<written, toFlush, flushing, dispatching, waiting, request>> /\ ending' = "done"
      /\ shown' = IF ~flushing /\ \E f \in Output : NeedsFlush(f) THEN written ELSE shown
      /\ files' = [f \in Output |-> IF NeedsFlush(f) THEN After(files[f], "-") ELSE files[f]]
  BY DEF ExitInHandler, FlushedInHandler
<1>2. /\ files \in [Output -> [closed : BOOLEAN, dirty : BOOLEAN, mode : Modes]] /\ shown \in 0 .. written
      /\ \A g \in Output : files[g].closed => ~files[g].dirty
      /\ ~flushing /\ AllClean => shown = written
      /\ written \in Nat
  BY DEF OutputInv
<1>3. ASSUME NEW f \in Output
      PROVE  files'[f] \in [closed : BOOLEAN, dirty : BOOLEAN, mode : Modes] /\ ~files'[f].dirty
  <2>1. files'[f] = IF NeedsFlush(f) THEN After(files[f], "-") ELSE files[f]
    BY <1>1
  <2>2. files[f] \in [closed : BOOLEAN, dirty : BOOLEAN, mode : Modes]
    BY <1>2
  <2>3. CASE NeedsFlush(f)
    <3>1. files'[f] = After(files[f], "-")
      BY <2>1, <2>3
    <3> QED BY <2>2, <3>1, AfterIs
  <2>4. CASE ~NeedsFlush(f)
    BY <1>2, <2>1, <2>2, <2>4 DEF NeedsFlush
  <2> QED BY <2>3, <2>4
<1>4. ~flushing => shown' = written
  <2>1. CASE \E f \in Output : NeedsFlush(f)
    BY <1>1, <2>1
  <2>2. CASE ~\E f \in Output : NeedsFlush(f)
    <3>1. AllClean
      BY <1>2, <2>2 DEF AllClean, NeedsFlush
    <3> QED BY <1>1, <1>2, <2>2, <3>1
  <2> QED BY <2>1, <2>2
<1>5. files' \in [Output -> [closed : BOOLEAN, dirty : BOOLEAN, mode : Modes]] /\ shown' \in 0 .. written
  <2> DEFINE F == [closed : BOOLEAN, dirty : BOOLEAN, mode : Modes]
  <2>1. \A f \in Output : files'[f] \in F
    BY <1>3
  <2>2. files' = [f \in Output |-> files'[f]]
    BY <1>1
  <2> HIDE DEF F
  <2>3. files' \in [Output -> F]
    BY <2>1, <2>2
  <2>4. shown' \in 0 .. written
    <3>1. shown' = written \/ shown' = shown
      BY <1>1
    <3>2. written \in Nat /\ shown \in 0 .. written
      BY <1>2
    <3> QED BY <3>1, <3>2
  <2> QED BY <2>3, <2>4 DEF F
<1> QED BY <1>1, <1>3, <1>4, <1>5 DEF OutputInv

LEMMA OutputStep == ASSUME OutputInv, [StreamsNext]_streamVars PROVE OutputInv'
<1>1. CASE UNCHANGED streamVars
  BY <1>1, OutputKept DEF streamVars, paintVars
<1>2. CASE StreamsNext
  <2>0. ending # "done"
    BY <1>2 DEF StreamsNext
  <2>1. CASE ReadByte \/ Read \/ LineArrives \/ Ungetc \/ Clearerr \/ CloseStdin \/ Console
    BY <2>1, InputOutput
  <2>2. CASE FlushCall
    BY <2>2, FlushCallOutput
  <2>3. CASE Fwrite
    BY <2>3, FwriteOutput
  <2>4. CASE FlushBegins \/ Poll \/ HandlersReturn
    BY <2>4, PollOutput
  <2>5. CASE FlushSkipped
    BY <2>0, <2>5, FlushSkippedOutput
  <2>6. CASE Paint
    BY <2>0, <2>6, PaintOutput
  <2>7. CASE ExitCalled \/ LastFlush \/ Stop
    BY <2>0, <2>7, ExitOutput
  <2>8. CASE ExitInHandler
    BY <2>8, ExitInHandlerOutput
  <2> QED BY <1>2, <2>1, <2>2, <2>3, <2>4, <2>5, <2>6, <2>7, <2>8 DEF StreamsNext
<1> QED BY <1>1, <1>2

LEMMA StreamsBegin == StreamsInit => InputInv /\ OutputInv
<1> SUFFICES ASSUME StreamsInit PROVE InputInv /\ OutputInv
  OBVIOUS
<1>1. InputInv
  <2>1. /\ stdin = [eof |-> FALSE, error |-> FALSE, closed |-> FALSE, pushed |-> <<>>, buffer |-> <<>>]
        /\ pending = <<>> /\ line = <<>> /\ typed = <<>> /\ got = <<>> /\ lines = 0 /\ request = Idle /\ ~waiting
    BY DEF StreamsInit
  <2> DEFINE none == <<>>
  <2>2. none \in Seq(Nat) /\ Len(none) = 0
    BY EmptySeq
  <2>3. Chain(none, none, none, none) = none
    BY <2>2, ConcatEmptySeq DEF Chain
  <2>4. BufferBytes \in Nat
    BY StreamsAssumption
  <2>5. stdin = [eof |-> FALSE, error |-> FALSE, closed |-> FALSE, pushed |-> none, buffer |-> none]
    BY <2>1
  <2>6. pending = none /\ line = none /\ typed = none /\ got = none
    BY <2>1
  <2> HIDE DEF none
  <2>7. InputTypes
    BY <2>1, <2>2, <2>4, <2>5, <2>6 DEF InputTypes, Asked
  <2> QED BY <2>1, <2>3, <2>5, <2>6, <2>7 DEF InputInv
<1>2. OutputInv
  <2>1. /\ files = [f \in Output |-> [closed |-> FALSE, dirty |-> FALSE, mode |-> IF f = "stderr" THEN "none" ELSE "full"]]
        /\ written = 0 /\ shown = 0 /\ ~flushing /\ ~dispatching /\ request = Idle /\ ~waiting /\ toFlush = <<>> /\ ending = "no"
    BY DEF StreamsInit
  <2>2. files \in [Output -> [closed : BOOLEAN, dirty : BOOLEAN, mode : Modes]] /\ \A f \in Output : ~files[f].closed
    BY <2>1 DEF Modes
  <2> QED BY <2>1, <2>2, EmptySeq DEF OutputInv
<1> QED BY <1>1, <1>2

LEMMA StreamsInvariant == StreamsSpec => [](InputInv /\ OutputInv)
<1>1. InputInv /\ OutputInv /\ [StreamsNext]_streamVars => (InputInv /\ OutputInv)'
  BY InputStep, OutputStep
<1> QED BY <1>1, StreamsBegin, PTL DEF StreamsSpec

LEMMA InputIsFaithful == ASSUME InputInv, OutputInv PROVE InputFaithful
<1>1. /\ InputTypes /\ stdin.pushed \in Seq(Nat) /\ stdin.buffer \in Seq(Nat) /\ got \in Seq(Nat) /\ pending \in Seq(Nat)
      /\ Len(stdin.pushed) <= 1 /\ Chain(got, stdin.pushed, stdin.buffer, pending) = typed /\ typed \in Seq(Nat)
  BY DEF InputInv, InputTypes
<1>2. stdin.pushed \in {<<>>} \cup {<<c>> : c \in ToSet(typed)}
  <2> DEFINE p == stdin.pushed
             b == stdin.buffer
             c == p[1]
             n == Len(got) + 1
  <2>1. CASE p = <<>>
    BY <2>1
  <2>2. CASE p # <<>>
    <3>1. Len(p) = 1 /\ Len(got) \in Nat /\ Len(b) \in Nat /\ Len(pending) \in Nat
      <4>1. Len(p) \in Nat \ {0} /\ Len(p) <= 1
        BY <1>1, <2>2, EmptySeq
      <4>2. Len(p) = 1
        <5> DEFINE length == Len(p)
        <5>1. length \in Nat \ {0} /\ length <= 1
          BY <4>1
        <5> HIDE DEF length
        <5>2. length = 1
          BY <5>1
        <5> QED BY <5>2 DEF length
      <4>3. Len(got) \in Nat /\ Len(b) \in Nat /\ Len(pending) \in Nat
        BY <1>1, LenProperties
      <4> QED BY <4>2, <4>3
    <3>2. p = <<c>>
      <4> DEFINE q == <<c>>
      <4>1. c \in Nat
        BY <1>1, <3>1, ElementOfSeq
      <4>2. q \in Seq(Nat) /\ Len(q) = 1 /\ q[1] = c
        BY <4>1
      <4> HIDE DEF q
      <4>3. \A i \in 1 .. Len(p) : p[i] = q[i]
        BY <3>1, <4>2
      <4> HIDE DEF p
      <4>4. p = q
        BY <1>1, <3>1, <4>2, <4>3, SeqEqual DEF p
      <4> QED BY <4>4 DEF q, p
    <3> HIDE DEF p, b
    <3>3. p \in Seq(Nat) /\ b \in Seq(Nat)
      BY <1>1 DEF p, b
    <3> DEFINE x == got \o p
               y == x \o b
               z == y \o pending
    <3>4. x \in Seq(Nat) /\ Len(x) = n /\ x[n] = c
      <4>1. x \in Seq(Nat) /\ Len(x) = Len(got) + Len(p)
            /\ \A i \in 1 .. Len(got) + Len(p) : x[i] = IF i <= Len(got) THEN got[i] ELSE p[i - Len(got)]
        BY <1>1, <3>3, ConcatProperties
      <4> HIDE DEF x
      <4>2. n \in 1 .. Len(got) + Len(p) /\ ~(n <= Len(got)) /\ n - Len(got) = 1
        BY <3>1
      <4> QED BY <3>1, <4>1, <4>2
    <3> HIDE DEF x
    <3>5. y \in Seq(Nat) /\ Len(y) = n + Len(b) /\ y[n] = c
      <4>1. y \in Seq(Nat) /\ Len(y) = Len(x) + Len(b)
            /\ \A i \in 1 .. Len(x) + Len(b) : y[i] = IF i <= Len(x) THEN x[i] ELSE b[i - Len(x)]
        BY <3>3, <3>4, ConcatProperties
      <4> HIDE DEF y
      <4>2. n \in 1 .. Len(x) + Len(b) /\ n <= Len(x)
        BY <3>1, <3>4
      <4> QED BY <3>4, <4>1, <4>2
    <3> HIDE DEF y
    <3>9. pending \in Seq(Nat)
      BY <1>1
    <3>6. z \in Seq(Nat) /\ n \in 1 .. Len(z) /\ z[n] = c
      <4>1. z \in Seq(Nat) /\ Len(z) = Len(y) + Len(pending)
            /\ \A i \in 1 .. Len(y) + Len(pending) : z[i] = IF i <= Len(y) THEN y[i] ELSE pending[i - Len(y)]
        <5>1. y \in Seq(Nat)
          BY <3>5
        <5> QED BY <3>9, <5>1, ConcatProperties
      <4> HIDE DEF z
      <4>2. n \in 1 .. Len(y) + Len(pending) /\ n <= Len(y)
        BY <3>1, <3>5
      <4> QED BY <3>5, <4>1, <4>2
    <3>7. z = typed
      BY <1>1 DEF Chain, z, y, x, p, b
    <3> HIDE DEF z, n
    <3>8. c \in ToSet(typed)
      BY <1>1, <3>6, <3>7, ToSetIs
    <3> QED BY <3>2, <3>8 DEF p
  <2> QED BY <2>1, <2>2
<1>3. /\ DOMAIN files = Output /\ \A f \in Output : files[f].mode \in Modes
      /\ shown \in 0 .. written /\ ending \in {"no", "finalizers", "last flush", "done"}
  BY DEF OutputInv
<1>4. Len(stdin.buffer) <= BufferBytes /\ (request = Idle \/ \E n \in Requests : request.left \in 1 .. n)
  BY <1>1 DEF InputTypes, Asked
<1>5. stdin.eof => stdin.pushed = <<>> /\ stdin.buffer = <<>> /\ pending = <<>>
  BY DEF InputInv, NothingLeft
<1>6. got \o stdin.pushed \o stdin.buffer \o pending = typed
  BY <1>1 DEF Chain
<1>7. StreamsTypeOK
  BY <1>2, <1>3, <1>4 DEF StreamsTypeOK
<1> QED BY <1>5, <1>6, <1>7 DEF InputFaithful

\* fgetc, fread, fgets and ungetc give the program the typed bytes in order, none
\* lost or doubled, and the end of the input after them (stdio.cpp:17-32,
\* console.cpp:449), for every size of buffer and request, whatever handlers do.
THEOREM StreamsInputFaithful == StreamsSpec => []InputFaithful
BY StreamsInvariant, InputIsFaithful, PTL

\* Outside a flush a clean stream's bytes are on the screen, also of streams that
\* handlers wrote to while another one was flushed, and all bytes are at the end
\* of a program that does not end inside a flush (stdio.cpp:15-31, console.cpp:368).
THEOREM StreamsOutputShown == StreamsSpec => []OutputShown
<1>1. OutputInv => OutputShown
  BY DEF OutputInv, OutputShown, AllClean
<1> QED BY <1>1, StreamsInvariant, PTL

-----------------------------------------------------------------------------
(* Multiples, and rounding up to one.                                      *)

LEMMA Division ==
  ASSUME NEW n \in Int, NEW a \in Nat \ {0}
  PROVE  n \div a \in Int /\ n % a \in Nat /\ n % a < a /\ n = (n \div a) * a + (n % a)
BY SMTT(30)

LEMMA ProductMultiple ==
  ASSUME NEW k \in Int, NEW a \in Nat \ {0}
  PROVE  (k * a) % a = 0
BY SMTT(30)

LEMMA MultipleSum ==
  ASSUME NEW m \in Int, NEW n \in Int, NEW a \in Nat \ {0}, m % a = 0, n % a = 0
  PROVE  (m + n) % a = 0 /\ (m - n) % a = 0
<1> DEFINE k == m \div a
           l == n \div a
<1>1. k \in Int /\ l \in Int /\ m = k * a /\ n = l * a
  BY Division
<1> HIDE DEF k, l
<1>2. m + n = (k + l) * a /\ m - n = (k - l) * a
  BY <1>1
<1>3. ((k + l) * a) % a = 0 /\ ((k - l) * a) % a = 0
  <2>1. k + l \in Int /\ k - l \in Int
    BY <1>1
  <2> QED BY <2>1, ProductMultiple
<1> QED BY <1>2, <1>3

LEMMA MultipleApart ==
  ASSUME NEW m \in Int, NEW n \in Int, NEW a \in Nat \ {0}, m % a = 0, n % a = 0, m < n
  PROVE  m + a <= n
<1> DEFINE k == m \div a
           l == n \div a
<1>1. k \in Int /\ l \in Int /\ m = k * a /\ n = l * a
  BY Division
<1> HIDE DEF k, l
<1>2. k < l
  <2> SUFFICES ASSUME l <= k PROVE FALSE
    BY <1>1
  <2>1. l * a <= k * a
    BY <1>1
  <2> QED BY <1>1, <2>1
<1>3. (k + 1) * a <= l * a /\ (k + 1) * a = k * a + a
  BY <1>1, <1>2
<1> QED BY <1>1, <1>3

LEMMA RoundToIs ==
  ASSUME NEW n \in Nat, NEW a \in Nat \ {0}
  PROVE  RoundTo(n, a) \in Nat /\ n <= RoundTo(n, a) /\ RoundTo(n, a) < n + a /\ RoundTo(n, a) % a = 0
<1> DEFINE q == (n + a - 1) \div a
<1>1. n + a - 1 \in Int /\ q \in Int /\ (n + a - 1) % a \in Nat /\ (n + a - 1) % a < a
      /\ n + a - 1 = q * a + ((n + a - 1) % a)
  BY Division
<1> HIDE DEF q
<1>2. (q * a) % a = 0 /\ q * a \in Int
  BY <1>1, ProductMultiple
<1>3. n <= q * a /\ q * a < n + a
  BY <1>1, <1>2
<1> QED BY <1>2, <1>3 DEF RoundTo, q

LEMMA RoundToLeast ==
  ASSUME NEW n \in Nat, NEW a \in Nat \ {0}, NEW s \in Nat, s % a = 0, n <= s
  PROVE  RoundTo(n, a) <= s
<1>1. RoundTo(n, a) \in Nat /\ RoundTo(n, a) < n + a /\ RoundTo(n, a) % a = 0
  BY RoundToIs
<1>2. s < RoundTo(n, a) => s + a <= RoundTo(n, a)
  BY <1>1, MultipleApart
<1> QED BY <1>1, <1>2

LEMMA RoundToRises ==
  ASSUME NEW m \in Nat, NEW n \in Nat, NEW a \in Nat \ {0}, m <= n
  PROVE  RoundTo(m, a) <= RoundTo(n, a)
<1>1. RoundTo(n, a) \in Nat /\ n <= RoundTo(n, a) /\ RoundTo(n, a) % a = 0
  BY RoundToIs
<1>2. m <= RoundTo(n, a)
  BY <1>1
<1> QED BY <1>1, <1>2, RoundToLeast

LEMMA WithIs ==
  ASSUME NEW f, NEW x, NEW v
  PROVE  /\ DOMAIN With(f, x, v) = DOMAIN f \cup {x} /\ With(f, x, v)[x] = v
         /\ \A y \in DOMAIN f : y # x => With(f, x, v)[y] = f[y]
BY DEF With

-----------------------------------------------------------------------------
(* A tiling of the heap, as a function of its blocks.                      *)

Fields == [span : Nat, requested : Nat, payload : Nat, allocated : BOOLEAN]

Tiles(bs) ==
  /\ 0 \in Heads(bs) /\ Heads(bs) \subseteq Offsets
  /\ \A o \in Heads(bs) :
       /\ bs[o] \in Fields
       /\ o % Alignment = 0
       /\ HeaderBytes + Alignment <= bs[o].span
       /\ o + bs[o].span \in Heads(bs) \cup {HeapBytes}
       /\ \A q \in Heads(bs) : ~(o < q /\ q < o + bs[o].span)

\* No free block right before a free one.
Sealed(bs) ==
  \A o \in Heads(bs) : ~bs[o].allocated /\ o + bs[o].span \in Heads(bs) => bs[o + bs[o].span].allocated

Used(bs) == {o \in Heads(bs) : bs[o].allocated}

LEMMA Parameters ==
  /\ HeapBytes \in Nat /\ Alignment \in Nat \ {0} /\ HeaderBytes \in Nat \ {0} /\ Base \in Nat /\ SizeMax \in Nat
  /\ HeapBytes % Alignment = 0 /\ HeaderBytes % Alignment = 0 /\ HeaderBytes + Alignment <= HeapBytes
  /\ Base % Alignment = 0 /\ HeapBytes <= SizeMax
BY HeapAssumption

LEMMA FreeBlock ==
  ASSUME NEW n \in Nat
  PROVE  LET b == Block(n, 0, 0, FALSE) IN b \in Fields /\ b.span = n /\ b.allocated = FALSE
BY DEF Block, Fields

\* Blocks lie one after the other, and each is a multiple long.
LEMMA TilesApart ==
  ASSUME NEW bs, Tiles(bs), NEW o \in Heads(bs)
  PROVE  /\ o \in Nat /\ bs[o].span \in Nat /\ bs[o].requested \in Nat /\ bs[o].payload \in Nat
         /\ bs[o].allocated \in BOOLEAN /\ o % Alignment = 0
         /\ HeaderBytes + Alignment <= bs[o].span /\ bs[o].span % Alignment = 0
         /\ o + bs[o].span <= HeapBytes
         /\ o + bs[o].span \in Heads(bs) \cup {HeapBytes}
         /\ \A q \in Heads(bs) : q \in Nat /\ (o < q => o + bs[o].span <= q)
<1>1. Heads(bs) \subseteq 0 .. HeapBytes - 1 /\ HeapBytes \in Nat /\ Alignment \in Nat \ {0}
  BY Parameters DEF Tiles, Offsets
<1>2. bs[o] \in Fields /\ o % Alignment = 0
  BY DEF Tiles
<1>3. o \in Nat /\ bs[o].span \in Nat /\ bs[o].requested \in Nat /\ bs[o].payload \in Nat /\ bs[o].allocated \in BOOLEAN
  BY <1>1, <1>2 DEF Fields
<1>4. o + bs[o].span \in Heads(bs) \cup {HeapBytes} /\ HeaderBytes + Alignment <= bs[o].span
  BY DEF Tiles
<1>5. o + bs[o].span <= HeapBytes
  BY <1>1, <1>3, <1>4
<1>6. ASSUME NEW q \in Heads(bs), o < q PROVE o + bs[o].span <= q
  BY <1>1, <1>3, <1>6 DEF Tiles
<1>7. bs[o].span % Alignment = 0
  <2>1. (o + bs[o].span) % Alignment = 0
    BY <1>4, Parameters DEF Tiles
  <2>2. ((o + bs[o].span) - o) % Alignment = 0
    <3> DEFINE m == o + bs[o].span
    <3>1. m \in Int /\ o \in Int /\ m % Alignment = 0
      BY <1>3, <2>1
    <3> HIDE DEF m
    <3>2. (m - o) % Alignment = 0
      BY <1>1, <1>2, <3>1, MultipleSum
    <3> QED BY <3>2 DEF m
  <2>3. (o + bs[o].span) - o = bs[o].span
    BY <1>3
  <2> QED BY <2>2, <2>3
<1> QED BY <1>1, <1>2, <1>3, <1>4, <1>5, <1>6, <1>7

\* Every block but the first has one right before it.
LEMMA Predecessor ==
  ASSUME NEW bs, Tiles(bs), NEW e \in Heads(bs) \cup {HeapBytes}, e # 0
  PROVE  \E p \in Heads(bs) : /\ p < e /\ p + bs[p].span = e
                              /\ \A q \in Heads(bs) : q < e => q <= p
<1> DEFINE T == {q \in Heads(bs) : q < e}
<1>1. Heads(bs) \subseteq 0 .. HeapBytes - 1 /\ HeapBytes \in Nat /\ 0 \in Heads(bs)
  BY Parameters DEF Tiles, Offsets
<1>2. e \in 0 .. HeapBytes /\ 0 < e
  BY <1>1
<1>3. T \in SUBSET (0 .. HeapBytes) /\ 0 \in T
  BY <1>1, <1>2
<1>4. PICK p \in T : \A q \in T : q <= p
  <2> HIDE DEF T
  <2> QED BY <1>1, <1>3, LargestElement
<1>5. p \in Heads(bs) /\ p < e /\ p \in Nat
  BY <1>1, <1>4
<1>6. p + bs[p].span <= e /\ bs[p].span \in Nat /\ bs[p].span > 0 /\ p + bs[p].span \in Heads(bs) \cup {HeapBytes}
  <2>1. /\ bs[p].span \in Nat /\ HeaderBytes + Alignment <= bs[p].span
        /\ p + bs[p].span <= HeapBytes /\ p + bs[p].span \in Heads(bs) \cup {HeapBytes}
        /\ \A q \in Heads(bs) : p < q => p + bs[p].span <= q
    BY <1>5, TilesApart
  <2>2. bs[p].span > 0
    BY <2>1, Parameters
  <2>3. p + bs[p].span <= e
    BY <1>5, <2>1
  <2> QED BY <2>1, <2>2, <2>3
<1>7. ~ (p + bs[p].span < e)
  <2> SUFFICES ASSUME p + bs[p].span < e PROVE FALSE
    OBVIOUS
  <2>1. p + bs[p].span \in T
    BY <1>1, <1>2, <1>5, <1>6
  <2> QED BY <1>4, <1>5, <1>6, <2>1
<1>8. p + bs[p].span = e
  BY <1>2, <1>5, <1>6, <1>7
<1> QED BY <1>4, <1>5, <1>8

LEMMA FirstBlock ==
  ASSUME NEW bs, bs = [o \in {0} |-> Block(HeapBytes, 0, 0, FALSE)]
  PROVE  Tiles(bs) /\ Sealed(bs) /\ Used(bs) = {}
<1>1. Heads(bs) = {0} /\ bs[0] = Block(HeapBytes, 0, 0, FALSE)
  BY DEF Heads
<1>2. bs[0] \in Fields /\ bs[0].span = HeapBytes /\ ~bs[0].allocated
  BY <1>1, FreeBlock, Parameters
<1>3. 0 % Alignment = 0 /\ 0 \in Offsets
  <2>1. 0 * Alignment = 0
    BY Parameters
  <2>2. 0 % Alignment = 0
    BY <2>1, Parameters, ProductMultiple
  <2> QED BY <2>2, Parameters DEF Offsets
<1>4. 0 + HeapBytes = HeapBytes /\ HeapBytes # 0 /\ HeaderBytes + Alignment <= HeapBytes
  BY Parameters
<1>5. Tiles(bs)
  <2>1. ASSUME NEW o \in Heads(bs)
        PROVE  /\ bs[o] \in Fields /\ o % Alignment = 0 /\ HeaderBytes + Alignment <= bs[o].span
               /\ o + bs[o].span \in Heads(bs) \cup {HeapBytes}
               /\ \A q \in Heads(bs) : ~(o < q /\ q < o + bs[o].span)
    <3>1. o = 0 /\ \A q \in Heads(bs) : q = 0
      BY <1>1
    <3>2. o + bs[o].span = HeapBytes
      BY <1>2, <1>4, <3>1
    <3>3. \A q \in Heads(bs) : ~(o < q)
      <4>1. ~(0 < 0)
        OBVIOUS
      <4> QED BY <3>1, <4>1, Zenon
    <3> QED BY <1>2, <1>3, <1>4, <3>1, <3>2, <3>3
  <2> QED BY <1>1, <1>3, <2>1 DEF Tiles
<1>6. Used(bs) = {} /\ Sealed(bs)
  BY <1>1, <1>2, <1>4 DEF Used, Sealed
<1> QED BY <1>5, <1>6

\* The rest that split makes a block of is long enough for one, and nothing is
\* split off a block that is too short: the difference never wraps (split in
\* runtime.cpp takes it in size_t).
LEMMA SplitIs ==
  ASSUME NEW bs, Tiles(bs), NEW o \in Heads(bs), NEW n \in Nat, n <= bs[o].span, HeaderBytes < n
  PROVE  LET s == Split(bs, o, Rounded(n)) IN
         /\ Rounded(n) <= bs[o].span
         /\ Tiles(s) /\ Heads(bs) \subseteq Heads(s)
         /\ \A q \in Heads(bs) : q # o => s[q] = bs[q]
         /\ \A q \in Heads(s) \ Heads(bs) :
              ~s[q].allocated /\ q = o + s[o].span /\ o < q /\ q + s[q].span = o + bs[o].span
         /\ s[o].requested = bs[o].requested /\ s[o].payload = bs[o].payload /\ s[o].allocated = bs[o].allocated
         /\ n <= s[o].span /\ s[o].span <= bs[o].span /\ s[o].span - n < HeaderBytes + 2 * Alignment
         /\ s[o].span # bs[o].span => o + s[o].span \in Heads(s) \ Heads(bs)
<1> DEFINE r == Rounded(n)
           s == Split(bs, o, r)
           b == Block(bs[o].span - r, 0, 0, FALSE)
           c == [bs EXCEPT ![o].span = r]
<1>1. /\ o \in Nat /\ bs[o].span \in Nat /\ bs[o] \in Fields /\ o % Alignment = 0 /\ bs[o].span % Alignment = 0
      /\ o + bs[o].span <= HeapBytes /\ o + bs[o].span \in Heads(bs) \cup {HeapBytes}
      /\ HeaderBytes + Alignment <= bs[o].span
      /\ \A q \in Heads(bs) : q \in Nat /\ (o < q => o + bs[o].span <= q)
  BY TilesApart DEF Tiles
<1>2. r \in Nat /\ n <= r /\ r < n + Alignment /\ r % Alignment = 0 /\ r <= bs[o].span
  BY <1>1, Parameters, RoundToIs, RoundToLeast DEF Rounded
<1>3. HeaderBytes + Alignment <= r
  <2>1. HeaderBytes < r /\ HeaderBytes \in Int /\ r \in Int
    BY <1>2, Parameters
  <2> QED BY <1>2, <2>1, Parameters, MultipleApart
<1> HIDE DEF r
<1>4. CASE bs[o].span - r >= HeaderBytes + Alignment
  <2>1. s = With(c, o + r, b)
    BY <1>4 DEF Split
  <2>2. /\ DOMAIN c = Heads(bs) /\ c[o] = [bs[o] EXCEPT !.span = r]
        /\ \A q \in Heads(bs) : q # o => c[q] = bs[q]
    BY DEF Heads
  <2>3. c[o] \in Fields /\ c[o].span = r /\ c[o].requested = bs[o].requested
        /\ c[o].payload = bs[o].payload /\ c[o].allocated = bs[o].allocated
    BY <1>1, <1>2, <2>2 DEF Fields
  <2>4. b \in Fields /\ b.span = bs[o].span - r /\ b.allocated = FALSE
    <3>1. bs[o].span - r \in Nat
      BY <1>1, <1>2
    <3> QED BY <3>1, FreeBlock
  <2>5. o + r \notin Heads(bs) /\ o < o + r /\ o + r < o + bs[o].span
    BY <1>1, <1>2, <1>3, <1>4, Parameters
  <2> HIDE DEF b, c
  <2>6. /\ Heads(s) = Heads(bs) \cup {o + r} /\ s[o + r] = b /\ s[o] = c[o]
        /\ \A q \in Heads(bs) : q # o => s[q] = bs[q]
    <3>1. /\ Heads(s) = DOMAIN c \cup {o + r} /\ s[o + r] = b
          /\ \A q \in DOMAIN c : q # o + r => s[q] = c[q]
      BY <2>1 DEF Heads, With
    <3> QED BY <2>2, <2>5, <3>1
  <2> HIDE DEF s
  <2>7. o + r \in Offsets /\ (o + r) % Alignment = 0
    <3>1. (o + r) % Alignment = 0
      <4>1. o \in Int /\ r \in Int /\ o % Alignment = 0 /\ r % Alignment = 0 /\ Alignment \in Nat \ {0}
        BY <1>1, <1>2, Parameters
      <4> QED BY <4>1, MultipleSum
    <3>2. o + r \in 0 .. HeapBytes - 1
      BY <1>1, <1>2, <2>5, Parameters
    <3> QED BY <3>1, <3>2 DEF Offsets
  <2>8. ASSUME NEW q \in Heads(s)
        PROVE  /\ s[q] \in Fields /\ q % Alignment = 0
               /\ HeaderBytes + Alignment <= s[q].span
               /\ q + s[q].span \in Heads(s) \cup {HeapBytes}
               /\ \A x \in Heads(s) : ~(q < x /\ x < q + s[q].span)
    <3>1. CASE q = o
      <4>1. s[q].span = r /\ s[q] \in Fields
        BY <2>3, <2>6, <3>1
      <4>2. \A x \in Heads(bs) : x \in Nat /\ (o < x => o + r < x)
        BY <1>1, <1>2, <2>5
      <4>3. q + s[q].span \in Heads(s) /\ \A x \in Heads(s) : ~(q < x /\ x < q + s[q].span)
        BY <1>1, <1>2, <2>6, <3>1, <4>1, <4>2
      <4> QED BY <1>1, <1>3, <3>1, <4>1, <4>3
    <3>2. CASE q = o + r
      <4>1. s[q].span = bs[o].span - r /\ s[q] \in Fields
        BY <2>4, <2>6, <3>2
      <4>2. q + s[q].span = o + bs[o].span
        BY <1>1, <1>2, <3>2, <4>1
      <4>3. \A x \in Heads(bs) : ~(q < x /\ x < q + s[q].span)
        BY <1>1, <2>5, <3>2, <4>2
      <4>4. q + s[q].span \in Heads(s) \cup {HeapBytes} /\ \A x \in Heads(s) : ~(q < x /\ x < q + s[q].span)
        BY <1>1, <2>6, <3>2, <4>2, <4>3
      <4> QED BY <1>4, <2>7, <3>2, <4>1, <4>4
    <3>3. CASE q \in Heads(bs) /\ q # o
      <4>1. s[q] = bs[q] /\ q \in Nat /\ bs[q].span \in Nat
        BY <2>6, <3>3, TilesApart
      <4>2. ~(q < o + r /\ o + r < q + bs[q].span)
        <5>1. q < o => q + bs[q].span <= o
          BY <3>3, TilesApart
        <5>2. o < q => o + bs[o].span <= q
          BY <1>1, <3>3
        <5> QED BY <1>1, <1>2, <2>5, <3>3, <4>1, <5>1, <5>2
      <4>3. /\ bs[q] \in Fields /\ q % Alignment = 0 /\ HeaderBytes + Alignment <= bs[q].span
            /\ q + bs[q].span \in Heads(bs) \cup {HeapBytes}
            /\ \A x \in Heads(bs) : ~(q < x /\ x < q + bs[q].span)
        BY <3>3 DEF Tiles
      <4> QED BY <2>6, <4>1, <4>2, <4>3
    <3> QED BY <2>6, <3>1, <3>2, <3>3
  <2>9. Tiles(s)
    <3>1. 0 \in Heads(s) /\ Heads(s) \subseteq Offsets
      BY <2>6, <2>7 DEF Tiles
    <3> QED BY <2>8, <3>1 DEF Tiles
  <2>10. Heads(s) \ Heads(bs) = {o + r} /\ s[o].span = r
    BY <2>3, <2>5, <2>6
  <2>11. s[o + r].span = bs[o].span - r /\ ~s[o + r].allocated
    BY <2>4, <2>6
  <2>12. (o + r) + s[o + r].span = o + bs[o].span
    BY <1>1, <1>2, <2>11
  <2>13. r - n < HeaderBytes + 2 * Alignment
    BY <1>2, Parameters
  <2>14. /\ \A q \in Heads(s) \ Heads(bs) :
              ~s[q].allocated /\ q = o + s[o].span /\ o < q /\ q + s[q].span = o + bs[o].span
         /\ o + s[o].span \in Heads(s) \ Heads(bs)
    BY <2>5, <2>10, <2>11, <2>12
  <2>15. s[o].requested = bs[o].requested /\ s[o].payload = bs[o].payload /\ s[o].allocated = bs[o].allocated
    BY <2>3, <2>6
  <2>16. n <= s[o].span /\ s[o].span <= bs[o].span /\ s[o].span - n < HeaderBytes + 2 * Alignment
    BY <1>2, <2>10, <2>13
  <2> QED BY <1>2, <2>6, <2>9, <2>14, <2>15, <2>16 DEF s, r
<1>5. CASE ~(bs[o].span - r >= HeaderBytes + Alignment)
  <2>1. s = bs
    BY <1>5 DEF Split
  <2>2. bs[o].span - n < HeaderBytes + 2 * Alignment
    BY <1>1, <1>2, <1>5, Parameters
  <2> QED BY <1>1, <1>2, <2>1, <2>2 DEF r
<1> QED BY <1>4, <1>5

\* coalesce leaves no two free blocks side by side, and the allocated ones alone.
LEMMA CoalesceIs ==
  ASSUME NEW bs, Tiles(bs)
  PROVE  LET c == Coalesce(bs) IN
         /\ Tiles(c) /\ Sealed(c) /\ Heads(c) \subseteq Heads(bs) /\ Used(c) = Used(bs)
         /\ \A o \in Used(bs) : c[o] = bs[o]
<1> DEFINE keep == {o \in Heads(bs) : Survives(bs, o)}
           End(o) == CHOOSE e \in keep \cup {HeapBytes} : e > o /\ \A f \in keep : f > o => e <= f
           c == Coalesce(bs)
<1>1. Heads(bs) \subseteq 0 .. HeapBytes - 1 /\ HeapBytes \in Nat /\ 0 \in Heads(bs)
  BY Parameters DEF Tiles, Offsets
<1>2. keep \subseteq Heads(bs)
  OBVIOUS
<1>3. ASSUME NEW o \in Heads(bs)
      PROVE  End(o) \in keep \cup {HeapBytes} /\ End(o) > o /\ \A f \in keep : f > o => End(o) <= f
  <2> DEFINE T == {e \in keep \cup {HeapBytes} : e > o}
             P(e) == e > o /\ \A f \in keep : f > o => e <= f
  <2>1. T \in SUBSET Nat /\ HeapBytes \in T
    BY <1>1
  <2>2. PICK e \in T : \A f \in T : e <= f
    <3> HIDE DEF T
    <3> QED BY <2>1, LeastElement
  <2>3. e \in keep \cup {HeapBytes} /\ P(e)
    BY <2>2
  <2> HIDE DEF P
  <2>4. (CHOOSE x \in keep \cup {HeapBytes} : P(x)) \in keep \cup {HeapBytes}
        /\ P(CHOOSE x \in keep \cup {HeapBytes} : P(x))
    BY <2>3
  <2> USE DEF P
  <2> QED BY <2>4
<1>4. DOMAIN c = keep /\ \A o \in keep : c[o] = [bs[o] EXCEPT !.span = End(o) - o]
  BY DEF Coalesce
<1>5. ASSUME NEW o \in Heads(bs)
      PROVE  /\ o \in Nat /\ End(o) \in Nat /\ End(o) <= HeapBytes
             /\ bs[o].span \in Nat /\ o + bs[o].span <= End(o) /\ bs[o] \in Fields
             /\ End(o) \in Heads(bs) \cup {HeapBytes}
  <2>1. End(o) \in Heads(bs) \cup {HeapBytes} /\ End(o) > o
    BY <1>2, <1>3
  <2>2. /\ o \in Nat /\ bs[o].span \in Nat /\ o + bs[o].span <= HeapBytes
        /\ \A q \in Heads(bs) : o < q => o + bs[o].span <= q
    BY TilesApart
  <2> HIDE DEF End
  <2>3. End(o) \in 0 .. HeapBytes
    BY <1>1, <2>1
  <2>4. o + bs[o].span <= End(o)
    BY <2>1, <2>2, <2>3
  <2> QED BY <2>1, <2>2, <2>3, <2>4 DEF Tiles
<1>6. ASSUME NEW o \in keep
      PROVE  /\ c[o] \in Fields /\ c[o].span = End(o) - o /\ c[o].allocated = bs[o].allocated
             /\ o + c[o].span = End(o)
  <2>1. c[o] = [bs[o] EXCEPT !.span = End(o) - o] /\ bs[o] \in Fields
    BY <1>4, <1>5
  <2> HIDE DEF End, c
  <2>2. o \in Nat /\ End(o) \in Nat /\ End(o) - o \in Nat
    BY <1>5
  <2>3. c[o] \in Fields /\ c[o].span = End(o) - o /\ c[o].allocated = bs[o].allocated
    BY <2>1, <2>2 DEF Fields
  <2> QED BY <2>2, <2>3
<1>7. Heads(c) = keep
  BY <1>4 DEF Heads
<1>8. ASSUME NEW o \in Heads(bs), NEW p \in Heads(bs), p + bs[p].span = o, NEW q \in Heads(bs), q + bs[q].span = o
      PROVE  p = q
  <2>1. p \in Nat /\ q \in Nat /\ bs[p].span \in Nat /\ bs[q].span \in Nat /\ bs[p].span > 0 /\ bs[q].span > 0
        /\ (p < q => p + bs[p].span <= q) /\ (q < p => q + bs[q].span <= p)
    <3>1. HeaderBytes + Alignment > 0 /\ HeaderBytes + Alignment \in Nat
      BY Parameters
    <3>2. p \in Nat /\ bs[p].span \in Nat /\ HeaderBytes + Alignment <= bs[p].span /\ (p < q => p + bs[p].span <= q)
      BY TilesApart
    <3>3. q \in Nat /\ bs[q].span \in Nat /\ HeaderBytes + Alignment <= bs[q].span /\ (q < p => q + bs[q].span <= p)
      BY TilesApart
    <3> QED BY <3>1, <3>2, <3>3
  <2> QED BY <1>8, <2>1
<1> HIDE DEF keep, End, c
<1>9. ASSUME NEW o \in Used(bs) PROVE o \in keep /\ c[o] = bs[o]
  <2>1. o \in Heads(bs) /\ bs[o].allocated
    BY DEF Used
  <2>2. o \in keep
    BY <2>1 DEF keep, Survives
  <2>3. End(o) = o + bs[o].span
    <3>1. o \in Nat /\ bs[o].span \in Nat /\ o + bs[o].span \in Heads(bs) \cup {HeapBytes} /\ o + bs[o].span > o
      <4>1. HeaderBytes + Alignment > 0 /\ HeaderBytes + Alignment \in Nat
        BY Parameters
      <4>2. o \in Nat /\ bs[o].span \in Nat /\ HeaderBytes + Alignment <= bs[o].span
            /\ o + bs[o].span \in Heads(bs) \cup {HeapBytes}
        BY <2>1, TilesApart
      <4> QED BY <4>1, <4>2
    <3>2. CASE o + bs[o].span \in Heads(bs)
      <4>1. o + bs[o].span \in keep
        BY <1>8, <2>1, <3>2 DEF keep, Survives
      <4>2. End(o) <= o + bs[o].span
        BY <1>3, <2>1, <3>1, <4>1
      <4> QED BY <1>5, <2>1, <3>1, <4>2
    <3>3. CASE o + bs[o].span = HeapBytes
      BY <1>1, <1>5, <2>1, <3>1, <3>3
    <3> QED BY <3>1, <3>2, <3>3
  <2>4. c[o] = [bs[o] EXCEPT !.span = bs[o].span]
    <3>1. End(o) - o = bs[o].span
      BY <1>5, <2>1, <2>3
    <3> QED BY <1>4, <2>2, <3>1
  <2> QED BY <1>5, <2>1, <2>2, <2>4 DEF Fields
<1>10. Tiles(c)
  <2>1. 0 \in keep
    <3>1. ASSUME NEW p \in Heads(bs), p + bs[p].span = 0 PROVE FALSE
      <4>1. HeaderBytes + Alignment > 0 /\ HeaderBytes + Alignment \in Nat
        BY Parameters
      <4>2. p \in Nat /\ bs[p].span \in Nat /\ HeaderBytes + Alignment <= bs[p].span
        BY TilesApart
      <4> QED BY <3>1, <4>1, <4>2
    <3> QED BY <1>1, <3>1 DEF keep, Survives
  <2>2. ASSUME NEW o \in keep
        PROVE  /\ c[o] \in Fields /\ o % Alignment = 0
               /\ HeaderBytes + Alignment <= c[o].span
               /\ o + c[o].span \in keep \cup {HeapBytes}
               /\ \A q \in keep : ~(o < q /\ q < o + c[o].span)
    <3>1. /\ o \in Heads(bs) /\ o % Alignment = 0 /\ bs[o].span \in Nat /\ HeaderBytes + Alignment <= bs[o].span
          /\ o \in Nat
      BY <1>2, TilesApart
    <3>2. c[o] \in Fields /\ c[o].span = End(o) - o /\ o + c[o].span = End(o)
      BY <1>6
    <3>3. End(o) \in Nat /\ o + bs[o].span <= End(o) /\ End(o) \in keep \cup {HeapBytes}
      BY <1>3, <1>5, <3>1
    <3>4. HeaderBytes + Alignment <= c[o].span
      BY <3>1, <3>2, <3>3, Parameters
    <3>5. \A q \in keep : q \in Nat /\ (q > o => End(o) <= q)
      BY <1>1, <1>2, <1>3, <3>1
    <3>6. \A q \in keep : ~(o < q /\ q < o + c[o].span)
      BY <3>1, <3>2, <3>3, <3>5
    <3> QED BY <3>1, <3>2, <3>3, <3>4, <3>6
  <2>3. keep \subseteq Offsets
    BY <1>2 DEF Tiles
  <2> QED BY <1>7, <2>1, <2>2, <2>3 DEF Tiles
<1>11. Sealed(c)
  <2> SUFFICES ASSUME NEW o \in keep, ~c[o].allocated, o + c[o].span \in keep, ~c[o + c[o].span].allocated PROVE FALSE
    BY <1>7 DEF Sealed
  <2> DEFINE e == o + c[o].span
  <2>1. o \in Heads(bs) /\ e \in Heads(bs) /\ ~bs[o].allocated /\ ~bs[e].allocated /\ e = End(o)
    BY <1>2, <1>6
  <2>2. e > o /\ e \in Nat /\ o \in Nat /\ \A f \in keep : f > o => e <= f
    BY <1>3, <1>5, <2>1
  <2>3. e \in keep
    OBVIOUS
  <2> HIDE DEF e
  <2>4. PICK p \in Heads(bs) : p < e /\ p + bs[p].span = e /\ \A q \in Heads(bs) : q < e => q <= p
    BY <2>1, <2>2, Predecessor
  <2>5. p \in Nat /\ o <= p
    BY <1>1, <2>1, <2>2, <2>4
  <2>6. ~ bs[p].allocated
    <3>1. CASE p = o
      BY <2>1, <3>1
    <3>2. CASE p # o
      <4>1. p \notin keep
        BY <2>2, <2>4, <2>5, <3>2
      <4> QED BY <4>1 DEF keep, Survives
    <3> QED BY <3>1, <3>2
  <2> QED BY <2>1, <2>3, <2>4, <2>6 DEF keep, Survives
<1>12. Used(c) = Used(bs)
  <2>1. \A o \in Used(bs) : o \in Heads(c) /\ c[o].allocated
    BY <1>7, <1>9 DEF Used
  <2>2. \A o \in Used(c) : o \in Heads(bs) /\ bs[o].allocated
    BY <1>2, <1>6, <1>7 DEF Used
  <2> QED BY <2>1, <2>2 DEF Used
<1> QED BY <1>2, <1>7, <1>9, <1>10, <1>11, <1>12 DEF c

\* Only a block's header changes, and its span does not.
LEMMA Relabel ==
  ASSUME NEW bs, Tiles(bs), NEW o \in Heads(bs), NEW c, Heads(c) = Heads(bs),
         \A q \in Heads(bs) : q # o => c[q] = bs[q], c[o] \in Fields, c[o].span = bs[o].span
  PROVE  Tiles(c)
<1>1. ASSUME NEW q \in Heads(c)
      PROVE  /\ c[q] \in Fields /\ q % Alignment = 0 /\ HeaderBytes + Alignment <= c[q].span
             /\ q + c[q].span \in Heads(c) \cup {HeapBytes}
             /\ \A x \in Heads(c) : ~(q < x /\ x < q + c[q].span)
  <2>1. c[q] \in Fields /\ c[q].span = bs[q].span
    BY DEF Tiles
  <2> QED BY <2>1 DEF Tiles
<1> QED BY <1>1 DEF Tiles

\* free(): the block is free, and nothing else about the allocated ones changes.
LEMMA FreedIs ==
  ASSUME NEW bs, Tiles(bs), NEW o \in Used(bs)
  PROVE  LET c == Freed(bs, o) IN
         /\ Tiles(c) /\ Sealed(c) /\ Used(c) = Used(bs) \ {o}
         /\ \A q \in Used(bs) \ {o} : c[q] = bs[q]
<1> DEFINE d == [bs EXCEPT ![o].allocated = FALSE]
<1>1. o \in Heads(bs) /\ bs[o] \in Fields
  BY DEF Used, Tiles
<1>2. Heads(d) = Heads(bs) /\ (\A q \in Heads(bs) : q # o => d[q] = bs[q]) /\ d[o] = [bs[o] EXCEPT !.allocated = FALSE]
  BY <1>1 DEF Heads
<1>3. d[o] \in Fields /\ d[o].span = bs[o].span /\ ~d[o].allocated
  BY ZenonT(60), <1>1, <1>2 DEF Fields
<1> HIDE DEF d
<1>4. Tiles(d)
  BY <1>1, <1>2, <1>3, Relabel
<1>5. Used(d) = Used(bs) \ {o}
  BY <1>1, <1>2, <1>3 DEF Used
<1>6. Freed(bs, o) = Coalesce(d)
  BY DEF Freed, d
<1>7. /\ Tiles(Coalesce(d)) /\ Sealed(Coalesce(d)) /\ Used(Coalesce(d)) = Used(d)
      /\ \A q \in Used(d) : Coalesce(d)[q] = d[q]
  BY <1>4, CoalesceIs
<1> QED BY <1>2, <1>5, <1>6, <1>7 DEF Used

\* The payload starts after the header, at an aligned address.
LEMMA PayloadIs ==
  ASSUME NEW o \in Nat, NEW align \in Nat \ {0}
  PROVE  /\ PayloadAt(o, align) \in Nat /\ HeaderBytes <= PayloadAt(o, align)
         /\ (Base + (o + PayloadAt(o, align))) % align = 0
<1> DEFINE n == Base + o + HeaderBytes
           r == RoundTo(n, align)
<1>1. n \in Nat /\ Base \in Nat /\ HeaderBytes \in Nat
  BY Parameters
<1>2. r \in Nat /\ n <= r /\ r % align = 0
  BY <1>1, RoundToIs
<1>3. PayloadAt(o, align) = r - (Base + o)
  BY DEF PayloadAt
<1> HIDE DEF r
<1>4. Base + (o + (r - (Base + o))) = r
  BY <1>1, <1>2
<1>5. r - (Base + o) \in Nat /\ HeaderBytes <= r - (Base + o)
  BY <1>1, <1>2
<1> QED BY <1>2, <1>3, <1>4, <1>5

\* What allocate leaves when a block fits: the block, cut to size.
LEMMA TakeIs ==
  ASSUME NEW bs, Tiles(bs), Sealed(bs), NEW o \in Heads(bs), NEW n \in Nat \ {0}, NEW align \in Nat \ {0},
         Fits(bs, o, n, align)
  PROVE  LET t == Take(bs, o, n, align)  p == PayloadAt(o, align) IN
         /\ Tiles(t) /\ Sealed(t) /\ Used(t) = Used(bs) \cup {o} /\ o \notin Used(bs)
         /\ \A q \in Used(bs) : t[q] = bs[q]
         /\ t[o].payload = p /\ t[o].requested = n /\ p + n <= t[o].span /\ p + n <= bs[o].span
         /\ t[o].span - p - n < HeaderBytes + 2 * Alignment
<1> DEFINE p == PayloadAt(o, align)
           s == Split(bs, o, Rounded(p + n))
           t == Take(bs, o, n, align)
<1>1. o \in Nat /\ bs[o].span \in Nat /\ ~bs[o].allocated /\ o + bs[o].span \in Heads(bs) \cup {HeapBytes}
  BY TilesApart DEF Fits
<1>2. p \in Nat /\ HeaderBytes <= p
  BY <1>1, PayloadIs
<1>3. p + n \in Nat /\ p + n <= bs[o].span /\ HeaderBytes < p + n
  <2>1. p <= bs[o].span /\ n <= bs[o].span - p
    BY DEF Fits
  <2> HIDE DEF p
  <2> QED BY <1>1, <1>2, <2>1, Parameters
<1> HIDE DEF p
<1>4. /\ Tiles(s) /\ Heads(bs) \subseteq Heads(s)
      /\ \A q \in Heads(bs) : q # o => s[q] = bs[q]
      /\ \A q \in Heads(s) \ Heads(bs) :
           ~s[q].allocated /\ q = o + s[o].span /\ o < q /\ q + s[q].span = o + bs[o].span
      /\ p + n <= s[o].span /\ s[o].span - (p + n) < HeaderBytes + 2 * Alignment
      /\ s[o].span # bs[o].span => o + s[o].span \in Heads(s) \ Heads(bs)
  BY <1>3, SplitIs
<1> HIDE DEF s
<1>5. o \in Heads(s) /\ s[o].span \in Nat
  BY <1>4, TilesApart
<1>6. /\ Heads(t) = Heads(s) /\ (\A q \in Heads(s) : q # o => t[q] = s[q])
      /\ t[o] = Block(s[o].span, n, p, TRUE)
  BY <1>5 DEF Take, p, s, Heads
<1>7. /\ t[o] \in Fields /\ t[o].span = s[o].span /\ t[o].requested = n /\ t[o].payload = p
      /\ t[o].allocated
  BY <1>2, <1>5, <1>6 DEF Block, Fields
<1> HIDE DEF t
<1>8. Tiles(t)
  BY <1>4, <1>5, <1>6, <1>7, Relabel
<1>9. Used(t) = Used(bs) \cup {o} /\ o \notin Used(bs) /\ \A q \in Used(bs) : t[q] = bs[q]
  <2>1. ASSUME NEW q \in Used(bs) PROVE q \in Used(t) /\ t[q] = bs[q] /\ q # o
    BY <1>1, <1>4, <1>6 DEF Used
  <2>2. ASSUME NEW q \in Used(t) PROVE q \in Used(bs) \cup {o}
    <3>1. CASE q = o
      BY <3>1
    <3>2. CASE q # o
      <4>1. q \in Heads(s) /\ s[q].allocated
        BY <1>6, <3>2 DEF Used
      <4> QED BY <1>4, <3>2, <4>1 DEF Used
    <3> QED BY <3>1, <3>2
  <2>3. o \in Used(t) /\ o \notin Used(bs)
    BY <1>1, <1>5, <1>6, <1>7 DEF Used
  <2> QED BY <2>1, <2>2, <2>3
<1>10. Sealed(t)
  <2> SUFFICES ASSUME NEW q \in Heads(t), ~t[q].allocated, q + t[q].span \in Heads(t), ~t[q + t[q].span].allocated
               PROVE  FALSE
    BY DEF Sealed
  <2> DEFINE e == q + t[q].span
  <2>1. q \in Heads(s) /\ e \in Heads(s) /\ q # o /\ e # o
    BY <1>6, <1>7
  <2>2. t[q] = s[q] /\ t[e] = s[e]
    BY <1>6, <2>1
  <2>3. e = q + s[q].span
    BY <2>2
  <2>4. ~s[q].allocated /\ ~s[e].allocated
    BY <2>2
  <2> HIDE DEF e
  <2>5. CASE q \in Heads(bs) /\ e \in Heads(bs)
    BY <1>4, <2>1, <2>3, <2>4, <2>5 DEF Sealed
  <2>6. CASE q \notin Heads(bs)
    \* The rest of the block that was split: what follows that block was allocated.
    <3>1. e = o + bs[o].span /\ q = o + s[o].span
      BY <1>4, <2>1, <2>3, <2>6
    <3>2. CASE e \in Heads(bs)
      <4>1. bs[e].allocated
        BY <1>1, <3>1, <3>2 DEF Sealed
      <4> QED BY <1>4, <2>1, <2>4, <3>2, <4>1
    <3>3. CASE e \notin Heads(bs)
      <4>1. e = q
        BY <1>4, <2>1, <2>6, <3>1, <3>3
      <4>2. q \in Nat /\ s[q].span \in Nat /\ HeaderBytes + Alignment <= s[q].span
        BY <1>4, <2>1, TilesApart
      <4> QED BY <2>3, <4>1, <4>2, Parameters
    <3> QED BY <3>2, <3>3
  <2>7. CASE q \in Heads(bs) /\ e \notin Heads(bs)
    <3>1. e = o + s[o].span /\ o < e
      BY <1>4, <2>1, <2>7
    <3>2. q \in Nat /\ s[q].span \in Nat /\ (q < o => q + s[q].span <= o) /\ (o < q => o + s[o].span <= q)
          /\ HeaderBytes + Alignment <= s[q].span
      <4>1. q \in Nat /\ s[q].span \in Nat /\ (q < o => q + s[q].span <= o) /\ HeaderBytes + Alignment <= s[q].span
        BY <1>4, <1>5, <2>1, TilesApart
      <4>2. o < q => o + s[o].span <= q
        BY <1>4, <1>5, <2>1, TilesApart
      <4> QED BY <4>1, <4>2
    <3> QED BY <1>1, <1>5, <2>1, <2>3, <3>1, <3>2, Parameters
  <2> QED BY <2>5, <2>6, <2>7
<1>11. t[o].span - p - n < HeaderBytes + 2 * Alignment
  BY <1>2, <1>4, <1>5, <1>7, Parameters
<1> QED BY <1>3, <1>4, <1>7, <1>8, <1>9, <1>10, <1>11 DEF t, p

\* The outcome of allocate: a block that was free and is large enough, or nothing changed.
LEMMA AllocationIs ==
  ASSUME NEW bs, Tiles(bs), Sealed(bs), NEW size \in Nat, NEW align \in Nat \ {0}
  PROVE  LET r == Allocation(bs, size, align)  n == AtLeastOne(size) IN
         /\ ~r.ok => r.blocks = bs
         /\ r.ok =>
              /\ Tiles(r.blocks) /\ Sealed(r.blocks)
              /\ \E o \in Heads(bs) :
                   /\ o \notin Used(bs) /\ Used(r.blocks) = Used(bs) \cup {o}
                   /\ \A q \in Used(bs) : r.blocks[q] = bs[q]
                   /\ r.blocks[o].requested = n /\ r.pointer = o + r.blocks[o].payload
                   /\ HeaderBytes <= r.blocks[o].payload
                   /\ r.blocks[o].payload + n <= r.blocks[o].span /\ r.blocks[o].payload + n <= bs[o].span
                   /\ r.blocks[o].span - r.blocks[o].payload - n < HeaderBytes + 2 * Alignment
                   /\ (Base + r.pointer) % align = 0
<1> DEFINE n == AtLeastOne(size)
           found == IF n > HeapBytes \/ align > HeapBytes THEN {} ELSE FirstFit(bs, n, align)
           r == Allocation(bs, size, align)
<1>1. n \in Nat \ {0}
  BY DEF AtLeastOne
<1> HIDE DEF n
<1>2. CASE found = {}
  <2>1. r = [ok |-> FALSE, blocks |-> bs, pointer |-> Null]
    BY <1>2 DEF Allocation, n
  <2> QED BY <2>1
<1>3. CASE found # {}
  <2> DEFINE o == CHOOSE o \in found : TRUE
  <2>1. r = [ok |-> TRUE, blocks |-> Take(bs, o, n, align), pointer |-> o + PayloadAt(o, align)]
    BY <1>3 DEF Allocation, n
  <2>2. o \in found
    BY <1>3
  <2>3. o \in FirstFit(bs, n, align)
    BY <2>2
  <2>4. o \in Heads(bs) /\ Fits(bs, o, n, align)
    BY <2>3 DEF FirstFit
  <2> HIDE DEF o
  <2>5. o \in Nat
    BY <2>4, TilesApart
  <2>6. HeaderBytes <= PayloadAt(o, align) /\ (Base + (o + PayloadAt(o, align))) % align = 0
    BY <2>5, PayloadIs
  <2> DEFINE t == Take(bs, o, n, align)
             p == PayloadAt(o, align)
  <2>7. /\ Tiles(t) /\ Sealed(t) /\ Used(t) = Used(bs) \cup {o} /\ o \notin Used(bs)
        /\ \A q \in Used(bs) : t[q] = bs[q]
        /\ t[o].payload = p /\ t[o].requested = n /\ p + n <= t[o].span /\ p + n <= bs[o].span
        /\ t[o].span - p - n < HeaderBytes + 2 * Alignment
    BY <1>1, <2>4, TakeIs
  <2> HIDE DEF t, p
  <2>8. r.ok /\ r.blocks = t /\ r.pointer = o + p
    BY <2>1 DEF t, p
  <2> HIDE DEF r
  <2> QED BY <2>4, <2>6, <2>7, <2>8 DEF p, n, r
<1> QED BY <1>2, <1>3

-----------------------------------------------------------------------------
(* The allocated blocks and what the program was promised.                 *)

Promises == [size : Nat, align : Nat \ {0}, written : Nat, data : Contents \cup {Zero, Junk}]

\* Every allocated block holds one promise, and every promise has its block.
Owned(bs, lv) ==
  /\ \A o \in Used(bs) :
       /\ HeaderBytes <= bs[o].payload
       /\ o + bs[o].payload \in DOMAIN lv
       /\ bs[o].requested = AtLeastOne(lv[o + bs[o].payload].size)
       /\ bs[o].payload + bs[o].requested <= bs[o].span
       /\ bs[o].span - bs[o].payload - bs[o].requested < HeaderBytes + 2 * Alignment
  /\ \A p \in DOMAIN lv : \E o \in Used(bs) : p = o + bs[o].payload

Kept(lv) ==
  \A p \in DOMAIN lv : /\ lv[p] \in Promises /\ lv[p].written <= lv[p].size
                       /\ (Base + p) % lv[p].align = 0

\* Where the payload of an allocated block is: after the header, in the block.
LEMMA Place ==
  ASSUME NEW bs, NEW lv, Tiles(bs), Owned(bs, lv), Kept(lv), NEW o \in Used(bs), NEW p, p = o + bs[o].payload
  PROVE  /\ o \in Heads(bs) /\ p \in Offsets /\ p \in Nat /\ o + HeaderBytes <= p /\ p < o + bs[o].span
         /\ lv[p].size \in Nat /\ lv[p].written \in Nat /\ lv[p].written <= lv[p].size
         /\ lv[p].size <= bs[o].requested /\ p + bs[o].requested <= o + bs[o].span
         /\ o + bs[o].span <= HeapBytes
<1>1. o \in Heads(bs)
  BY DEF Used
<1>2. /\ o \in Nat /\ bs[o].span \in Nat /\ bs[o].requested \in Nat /\ bs[o].payload \in Nat
      /\ o + bs[o].span <= HeapBytes
  BY <1>1, TilesApart
<1>3. lv[p] \in Promises /\ lv[p].written <= lv[p].size
  BY DEF Owned, Kept
<1>4. lv[p].size \in Nat /\ lv[p].written \in Nat
  BY <1>3 DEF Promises
<1>5. /\ HeaderBytes <= bs[o].payload /\ bs[o].requested = AtLeastOne(lv[p].size)
      /\ bs[o].payload + bs[o].requested <= bs[o].span
  BY DEF Owned
<1>6. lv[p].size <= bs[o].requested /\ 0 < bs[o].requested
  BY <1>4, <1>5 DEF AtLeastOne
<1>7. p \in Nat /\ o + HeaderBytes <= p /\ p < o + bs[o].span /\ p + bs[o].requested <= o + bs[o].span
  BY <1>2, <1>5, <1>6, Parameters
<1>8. p \in Offsets
  BY <1>2, <1>7, Parameters DEF Offsets
<1> QED BY <1>1, <1>2, <1>3, <1>4, <1>6, <1>7, <1>8

\* A byte lies in one block only.
LEMMA OneBlock ==
  ASSUME NEW bs, Tiles(bs), NEW o \in Heads(bs), NEW q \in Heads(bs), NEW a \in Nat,
         o <= a, a < o + bs[o].span, q <= a, a < q + bs[q].span
  PROVE  o = q
<1>1. o \in Nat /\ bs[o].span \in Nat /\ (o < q => o + bs[o].span <= q)
  BY TilesApart
<1>2. q \in Nat /\ bs[q].span \in Nat /\ (q < o => q + bs[q].span <= o)
  BY TilesApart
<1> QED BY <1>1, <1>2

\* A pointer is of one block only.
LEMMA OneOwner ==
  ASSUME NEW bs, NEW lv, Tiles(bs), Owned(bs, lv), Kept(lv), NEW o \in Used(bs), NEW q \in Used(bs),
         o + bs[o].payload = q + bs[q].payload
  PROVE  o = q
<1> DEFINE p == o + bs[o].payload
<1>1. o \in Heads(bs) /\ p \in Nat /\ o + HeaderBytes <= p /\ p < o + bs[o].span
  BY Place
<1>2. q \in Heads(bs) /\ q + HeaderBytes <= p /\ p < q + bs[q].span
  BY Place
<1>3. o \in Nat /\ q \in Nat
  BY <1>1, <1>2, TilesApart
<1> HIDE DEF p
<1>4. o <= p /\ q <= p
  BY <1>1, <1>2, <1>3, Parameters
<1> QED BY <1>1, <1>2, <1>4, OneBlock

\* A new promise for a block that was free.
LEMMA Granted ==
  ASSUME NEW bs, NEW cs, NEW lv, Tiles(cs), Owned(bs, lv), Kept(lv), NEW o, o \notin Used(bs),
         Used(cs) = Used(bs) \cup {o}, \A q \in Used(bs) : cs[q] = bs[q],
         NEW v \in Promises, v.written <= v.size, cs[o].requested = AtLeastOne(v.size),
         HeaderBytes <= cs[o].payload, cs[o].payload + cs[o].requested <= cs[o].span,
         cs[o].span - cs[o].payload - cs[o].requested < HeaderBytes + 2 * Alignment,
         NEW p, p = o + cs[o].payload, (Base + p) % v.align = 0
  PROVE  p \notin DOMAIN lv /\ Owned(cs, With(lv, p, v)) /\ Kept(With(lv, p, v))
<1> DEFINE w == With(lv, p, v)
<1>1. DOMAIN w = DOMAIN lv \cup {p} /\ w[p] = v /\ \A q \in DOMAIN lv : q # p => w[q] = lv[q]
  BY DEF With
<1> HIDE DEF w
<1>2. ASSUME NEW q \in Used(bs)
      PROVE  /\ q + cs[q].payload \in DOMAIN lv /\ q + cs[q].payload # p /\ cs[q] = bs[q]
  <2>1. cs[q] = bs[q] /\ q + cs[q].payload \in DOMAIN lv
    BY DEF Owned
  <2>2. q # o /\ q \in Heads(cs) /\ o \in Heads(cs) /\ q \in Used(cs) /\ o \in Used(cs)
    BY DEF Used
  <2>3. /\ q \in Nat /\ o \in Nat /\ cs[q].payload \in Nat /\ cs[o].payload \in Nat
        /\ cs[q].span \in Nat /\ cs[o].span \in Nat /\ cs[o].requested \in Nat /\ cs[q].requested \in Nat
    <3>1. q \in Nat /\ cs[q].payload \in Nat /\ cs[q].span \in Nat /\ cs[q].requested \in Nat
      BY <2>2, TilesApart
    <3>2. o \in Nat /\ cs[o].payload \in Nat /\ cs[o].span \in Nat /\ cs[o].requested \in Nat
      BY <2>2, TilesApart
    <3> QED BY <3>1, <3>2
  <2>4. cs[q].payload + cs[q].requested <= cs[q].span /\ cs[q].requested = AtLeastOne(lv[q + cs[q].payload].size)
    BY <2>1 DEF Owned
  <2>5. v.size \in Nat /\ lv[q + cs[q].payload].size \in Nat
    BY <2>1 DEF Kept, Promises
  <2>6. 0 < cs[q].requested /\ 0 < cs[o].requested
    BY <2>4, <2>5 DEF AtLeastOne
  <2>7. q + cs[q].payload # p
    <3> SUFFICES ASSUME q + cs[q].payload = p PROVE FALSE
      OBVIOUS
    <3>1. p \in Nat /\ q <= p /\ p < q + cs[q].span /\ o <= p /\ p < o + cs[o].span
      BY <2>3, <2>4, <2>6
    <3> QED BY <2>2, <3>1, OneBlock
  <2> QED BY <2>1, <2>7
<1>3. p \notin DOMAIN lv
  BY <1>2 DEF Owned
<1>4. Kept(w)
  BY <1>1, <1>3 DEF Kept
<1>5. ASSUME NEW q \in Used(cs)
      PROVE  /\ HeaderBytes <= cs[q].payload
             /\ q + cs[q].payload \in DOMAIN w
             /\ cs[q].requested = AtLeastOne(w[q + cs[q].payload].size)
             /\ cs[q].payload + cs[q].requested <= cs[q].span
             /\ cs[q].span - cs[q].payload - cs[q].requested < HeaderBytes + 2 * Alignment
  <2>1. CASE q = o
    BY <1>1, <2>1
  <2>2. CASE q \in Used(bs)
    <3>1. /\ HeaderBytes <= bs[q].payload
          /\ bs[q].requested = AtLeastOne(lv[q + bs[q].payload].size)
          /\ bs[q].payload + bs[q].requested <= bs[q].span
          /\ bs[q].span - bs[q].payload - bs[q].requested < HeaderBytes + 2 * Alignment
      BY <2>2 DEF Owned
    <3>2. q + cs[q].payload \in DOMAIN w /\ w[q + cs[q].payload] = lv[q + cs[q].payload] /\ cs[q] = bs[q]
      BY <1>1, <1>2, <2>2
    <3> QED BY <3>1, <3>2
  <2> QED BY <2>1, <2>2
<1>6. ASSUME NEW x \in DOMAIN w PROVE \E q \in Used(cs) : x = q + cs[q].payload
  <2>1. CASE x = p
    BY <2>1
  <2>2. CASE x \in DOMAIN lv
    <3>1. PICK q \in Used(bs) : x = q + bs[q].payload
      BY <2>2 DEF Owned
    <3> QED BY <3>1
  <2> QED BY <1>1, <2>1, <2>2
<1>7. Owned(cs, w)
  BY <1>5, <1>6 DEF Owned
<1> QED BY <1>3, <1>4, <1>7 DEF w

\* A promise goes with its block.
LEMMA Returned ==
  ASSUME NEW bs, NEW cs, NEW lv, Tiles(bs), Owned(bs, lv), Kept(lv), NEW o \in Used(bs), NEW p, p = o + bs[o].payload,
         Used(cs) = Used(bs) \ {o}, \A q \in Used(cs) : cs[q] = bs[q]
  PROVE  LET w == [q \in DOMAIN lv \ {p} |-> lv[q]] IN Owned(cs, w) /\ Kept(w)
<1> DEFINE w == [q \in DOMAIN lv \ {p} |-> lv[q]]
<1>1. DOMAIN w = DOMAIN lv \ {p} /\ \A q \in DOMAIN w : w[q] = lv[q]
  OBVIOUS
<1> HIDE DEF w
<1>2. ASSUME NEW q \in Used(cs)
      PROVE  /\ q \in Used(bs) /\ cs[q] = bs[q] /\ q + bs[q].payload \in DOMAIN lv /\ q + bs[q].payload # p
  <2>1. q \in Used(bs) /\ q # o
    OBVIOUS
  <2>2. q + bs[q].payload # p
    BY <2>1, OneOwner
  <2> QED BY <2>1, <2>2 DEF Owned
<1>3. ASSUME NEW q \in Used(cs)
      PROVE  /\ HeaderBytes <= cs[q].payload
             /\ q + cs[q].payload \in DOMAIN w
             /\ cs[q].requested = AtLeastOne(w[q + cs[q].payload].size)
             /\ cs[q].payload + cs[q].requested <= cs[q].span
             /\ cs[q].span - cs[q].payload - cs[q].requested < HeaderBytes + 2 * Alignment
  <2>1. /\ HeaderBytes <= bs[q].payload
        /\ bs[q].requested = AtLeastOne(lv[q + bs[q].payload].size)
        /\ bs[q].payload + bs[q].requested <= bs[q].span
        /\ bs[q].span - bs[q].payload - bs[q].requested < HeaderBytes + 2 * Alignment
    BY <1>2 DEF Owned
  <2>2. q + bs[q].payload \in DOMAIN w /\ cs[q] = bs[q]
    BY <1>1, <1>2
  <2> QED BY <1>1, <2>1, <2>2
<1>4. ASSUME NEW x \in DOMAIN w PROVE \E q \in Used(cs) : x = q + cs[q].payload
  <2>1. PICK q \in Used(bs) : x = q + bs[q].payload
    BY <1>1 DEF Owned
  <2>2. q \in Used(cs)
    BY <1>1, <2>1
  <2> QED BY <2>1, <2>2
<1>5. Owned(cs, w)
  BY <1>3, <1>4 DEF Owned
<1>6. Kept(w)
  BY <1>1 DEF Kept
<1> QED BY <1>5, <1>6 DEF w

\* Another promise for the same block.
LEMMA Renewed ==
  ASSUME NEW bs, NEW cs, NEW lv, Tiles(bs), Owned(bs, lv), Kept(lv), NEW o \in Used(bs), NEW p, p = o + bs[o].payload,
         Used(cs) = Used(bs), \A q \in Used(bs) : q # o => cs[q] = bs[q],
         cs[o].payload = bs[o].payload,
         NEW v \in Promises, v.written <= v.size, v.align = lv[p].align, cs[o].requested = AtLeastOne(v.size),
         cs[o].payload + cs[o].requested <= cs[o].span,
         cs[o].span - cs[o].payload - cs[o].requested < HeaderBytes + 2 * Alignment
  PROVE  LET w == [lv EXCEPT ![p] = v] IN Owned(cs, w) /\ Kept(w)
<1> DEFINE w == [lv EXCEPT ![p] = v]
<1>1. p \in DOMAIN lv /\ HeaderBytes <= bs[o].payload
  BY DEF Owned
<1>2. DOMAIN w = DOMAIN lv /\ w[p] = v /\ \A q \in DOMAIN lv : q # p => w[q] = lv[q]
  BY <1>1
<1> HIDE DEF w
<1>3. ASSUME NEW q \in Used(cs)
      PROVE  /\ HeaderBytes <= cs[q].payload
             /\ q + cs[q].payload \in DOMAIN w
             /\ cs[q].requested = AtLeastOne(w[q + cs[q].payload].size)
             /\ cs[q].payload + cs[q].requested <= cs[q].span
             /\ cs[q].span - cs[q].payload - cs[q].requested < HeaderBytes + 2 * Alignment
  <2>1. CASE q = o
    BY <1>1, <1>2, <2>1
  <2>2. CASE q # o
    <3>1. /\ HeaderBytes <= bs[q].payload
          /\ q + bs[q].payload \in DOMAIN lv
          /\ bs[q].requested = AtLeastOne(lv[q + bs[q].payload].size)
          /\ bs[q].payload + bs[q].requested <= bs[q].span
          /\ bs[q].span - bs[q].payload - bs[q].requested < HeaderBytes + 2 * Alignment
      BY <2>2 DEF Owned
    <3>2. q + bs[q].payload # p /\ cs[q] = bs[q]
      BY <2>2, OneOwner
    <3>3. w[q + bs[q].payload] = lv[q + bs[q].payload]
      BY <1>2, <3>1, <3>2
    <3> QED BY <1>2, <3>1, <3>2, <3>3
  <2> QED BY <2>1, <2>2
<1>4. ASSUME NEW x \in DOMAIN w PROVE \E q \in Used(cs) : x = q + cs[q].payload
  <2>1. PICK q \in Used(bs) : x = q + bs[q].payload
    BY <1>2 DEF Owned
  <2>2. cs[q].payload = bs[q].payload
    BY <2>1
  <2> QED BY <2>1, <2>2
<1>5. Owned(cs, w)
  BY <1>3, <1>4 DEF Owned
<1>6. Kept(w)
  <2>1. ASSUME NEW q \in DOMAIN w
        PROVE  w[q] \in Promises /\ w[q].written <= w[q].size /\ (Base + q) % w[q].align = 0
    <3>1. lv[q] \in Promises /\ lv[q].written <= lv[q].size /\ (Base + q) % lv[q].align = 0
      BY <1>2 DEF Kept
    <3>2. CASE q = p
      BY <1>2, <3>1, <3>2
    <3>3. CASE q # p
      BY <1>2, <3>1, <3>3
    <3> QED BY <3>2, <3>3
  <2> QED BY <2>1 DEF Kept
<1> QED BY <1>5, <1>6 DEF w

-----------------------------------------------------------------------------
(* The bytes of the heap.                                                  *)

Bytes == Contents \cup {Header, Zero, Junk}

HeadersIn(bs, m) == \A o \in Heads(bs) : \A a \in Spanned(o, HeaderBytes) : m[a] = Header

ContentsIn(lv, m) == \A p \in DOMAIN lv : \A a \in Spanned(p, lv[p].written) : m[a] = lv[p].data

\* A byte of a payload is in no header and in no other payload.
LEMMA PayloadsApart ==
  ASSUME NEW bs, NEW lv, Tiles(bs), Owned(bs, lv), Kept(lv), NEW p \in DOMAIN lv, NEW a \in Spanned(p, lv[p].size)
  PROVE  /\ \A o \in Heads(bs) : a \notin Spanned(o, HeaderBytes)
         /\ \A q \in DOMAIN lv : a \in Spanned(q, lv[q].size) => q = p
<1>1. PICK o \in Used(bs) : p = o + bs[o].payload
  BY DEF Owned
<1>2. /\ o \in Heads(bs) /\ p \in Nat /\ o + HeaderBytes <= p /\ lv[p].size \in Nat
      /\ lv[p].size <= bs[o].requested /\ p + bs[o].requested <= o + bs[o].span
  BY <1>1, Place
<1>3. o \in Nat /\ bs[o].span \in Nat /\ bs[o].requested \in Nat
  BY <1>2, TilesApart
<1>4. a \in Nat /\ p <= a /\ a < p + lv[p].size
  BY Parameters DEF Spanned, Offsets
<1>5. o + HeaderBytes <= a /\ o <= a /\ a < o + bs[o].span
  BY <1>2, <1>3, <1>4, Parameters
<1>6. ASSUME NEW q \in Heads(bs), a \in Spanned(q, HeaderBytes) PROVE FALSE
  <2>1. q \in Nat /\ bs[q].span \in Nat /\ HeaderBytes + Alignment <= bs[q].span
    BY <1>6, TilesApart
  <2>2. q <= a /\ a < q + HeaderBytes
    BY <1>6 DEF Spanned
  <2>3. a < q + bs[q].span
    BY <1>4, <2>1, <2>2, Parameters
  <2>4. q = o
    BY <1>2, <1>4, <1>5, <1>6, <2>2, <2>3, OneBlock
  <2> QED BY <1>3, <1>4, <1>5, <2>2, <2>4, Parameters
<1>7. ASSUME NEW q \in DOMAIN lv, a \in Spanned(q, lv[q].size) PROVE q = p
  <2>1. PICK x \in Used(bs) : q = x + bs[x].payload
    BY <1>7 DEF Owned
  <2>2. /\ x \in Heads(bs) /\ q \in Nat /\ x + HeaderBytes <= q /\ lv[q].size \in Nat
        /\ lv[q].size <= bs[x].requested /\ q + bs[x].requested <= x + bs[x].span
    BY <2>1, Place
  <2>3. x \in Nat /\ bs[x].span \in Nat /\ bs[x].requested \in Nat
    BY <2>2, TilesApart
  <2>4. q <= a /\ a < q + lv[q].size
    BY <1>7 DEF Spanned
  <2>5. x <= a /\ a < x + bs[x].span
    BY <1>4, <2>2, <2>3, <2>4, Parameters
  <2>6. x = o
    BY <1>2, <1>4, <1>5, <2>2, <2>5, OneBlock
  <2> QED BY <1>1, <2>1, <2>6
<1> QED BY <1>6, <1>7

\* What was written lies in the payload.
LEMMA WrittenIn ==
  ASSUME NEW p, NEW n \in Nat, NEW k \in Nat, k <= n, p \in Nat
  PROVE  Spanned(p, k) \subseteq Spanned(p, n)
<1>1. ASSUME NEW a \in Spanned(p, k) PROVE a \in Spanned(p, n)
  <2>1. a \in Nat /\ a \in Offsets /\ p <= a /\ a < p + k
    BY Parameters DEF Spanned, Offsets
  <2>2. a < p + n
    BY <2>1
  <2> QED BY <2>1, <2>2 DEF Spanned
<1> QED BY <1>1

\* Settling forgets neither a header nor what was written.
LEMMA Settled ==
  ASSUME NEW bs, NEW lv, NEW m \in [Offsets -> Bytes], HeadersIn(bs, m), ContentsIn(lv, m)
  PROVE  LET s == Settle(bs, lv, m) IN s \in [Offsets -> Bytes] /\ HeadersIn(bs, s) /\ ContentsIn(lv, s)
<1> DEFINE s == Settle(bs, lv, m)
<1>1. s \in [Offsets -> Bytes]
  BY DEF Settle, Bytes
<1>2. HeadersIn(bs, s)
  <2>1. ASSUME NEW o \in Heads(bs), NEW a \in Spanned(o, HeaderBytes) PROVE s[a] = Header
    <3>1. a \in Offsets /\ m[a] = Header
      BY DEF HeadersIn, Spanned
    <3> QED BY <2>1, <3>1 DEF Settle
  <2> QED BY <2>1 DEF HeadersIn
<1>3. ContentsIn(lv, s)
  <2>1. ASSUME NEW p \in DOMAIN lv, NEW a \in Spanned(p, lv[p].written) PROVE s[a] = lv[p].data
    <3>1. a \in Offsets /\ m[a] = lv[p].data
      BY DEF ContentsIn, Spanned
    <3> QED BY <2>1, <3>1 DEF Settle
  <2> QED BY <2>1 DEF ContentsIn
<1> QED BY <1>1, <1>2, <1>3

\* Writing the headers of bs touches nothing the program wrote.
LEMMA HeadersAre ==
  ASSUME NEW bs, NEW lv, NEW m \in [Offsets -> Bytes], Tiles(bs), Owned(bs, lv), Kept(lv),
         HeadersIn(blocks, m), ContentsIn(lv, m)
  PROVE  LET h == Headers(bs, m) IN h \in [Offsets -> Bytes] /\ HeadersIn(bs, h) /\ ContentsIn(lv, h)
<1> DEFINE h == Headers(bs, m)
<1>1. h \in [Offsets -> Bytes]
  BY DEF Headers, Bytes
<1>2. HeadersIn(bs, h)
  <2>1. ASSUME NEW o \in Heads(bs), NEW a \in Spanned(o, HeaderBytes) PROVE h[a] = Header
    <3>1. a \in Offsets
      BY DEF Spanned
    <3>2. CASE o \notin Heads(blocks) \/ bs[o] # blocks[o]
      BY <2>1, <3>1, <3>2 DEF Headers
    <3>3. CASE o \in Heads(blocks)
      <4>1. m[a] = Header
        BY <2>1, <3>3 DEF HeadersIn
      <4> QED BY <3>1, <4>1 DEF Headers
    <3> QED BY <3>2, <3>3
  <2> QED BY <2>1 DEF HeadersIn
<1>3. ContentsIn(lv, h)
  <2>1. ASSUME NEW p \in DOMAIN lv, NEW a \in Spanned(p, lv[p].written) PROVE h[a] = lv[p].data
    <3>1. a \in Offsets /\ m[a] = lv[p].data
      BY DEF ContentsIn, Spanned
    <3>2. PICK x \in Used(bs) : p = x + bs[x].payload
      BY <2>1 DEF Owned
    <3>3. p \in Nat /\ lv[p].size \in Nat /\ lv[p].written \in Nat /\ lv[p].written <= lv[p].size
      BY <3>2, Place
    <3>4. a \in Spanned(p, lv[p].size)
      BY <2>1, <3>3, WrittenIn
    <3>5. \A o \in Heads(bs) : a \notin Spanned(o, HeaderBytes)
      BY <2>1, <3>4, PayloadsApart
    <3> QED BY <3>1, <3>5 DEF Headers
  <2> QED BY <2>1 DEF ContentsIn
<1> QED BY <1>1, <1>2, <1>3

\* What a call leaves in memory, given the blocks and the promises it leaves.
LEMMA Stored ==
  ASSUME NEW bs, NEW lv, NEW m \in [Offsets -> Bytes], Tiles(bs), Owned(bs, lv), Kept(lv),
         HeadersIn(blocks, m), ContentsIn(lv, m)
  PROVE  LET s == Settle(bs, lv, Headers(bs, m))
         IN s \in [Offsets -> Bytes] /\ HeadersIn(bs, s) /\ ContentsIn(lv, s)
<1> DEFINE h == Headers(bs, m)
<1>1. h \in [Offsets -> Bytes] /\ HeadersIn(bs, h) /\ ContentsIn(lv, h)
  BY HeadersAre
<1> HIDE DEF h
<1>2. LET s == Settle(bs, lv, h) IN s \in [Offsets -> Bytes] /\ HeadersIn(bs, s) /\ ContentsIn(lv, s)
  BY <1>1, Settled
<1> QED BY <1>2 DEF h

-----------------------------------------------------------------------------
(* The inductive invariant.                                                *)

\* Blocks, promises and bytes between two calls.
Sound(bs, lv, m) ==
  /\ Tiles(bs) /\ Sealed(bs) /\ Owned(bs, lv) /\ Kept(lv)
  /\ m \in [Offsets -> Bytes] /\ HeadersIn(bs, m) /\ ContentsIn(lv, m)

\* Before the first call nothing is laid out and nothing promised.
HeapInv ==
  /\ initialized \in BOOLEAN /\ aborted \in BOOLEAN /\ errno \in {"0", "ENOMEM", "EINVAL"}
  /\ IF initialized THEN Sound(blocks, live, mem)
     ELSE Heads(blocks) = {} /\ blocks = <<>> /\ DOMAIN live = {} /\ mem \in [Offsets -> Bytes]

\* allocate() starts from blocks that tile the heap, also the first time.
LEMMA Started ==
  ASSUME HeapInv
  PROVE  LET bs == Initialized(blocks) IN
         /\ Tiles(bs) /\ Sealed(bs) /\ Owned(bs, live) /\ Kept(live)
         /\ mem \in [Offsets -> Bytes] /\ HeadersIn(blocks, mem) /\ ContentsIn(live, mem)
<1>1. CASE initialized
  BY <1>1 DEF HeapInv, Initialized, Sound
<1>2. CASE ~initialized
  <2> DEFINE bs == Initialized(blocks)
  <2>1. bs = [o \in {0} |-> Block(HeapBytes, 0, 0, FALSE)]
    BY <1>2 DEF Initialized
  <2> HIDE DEF bs
  <2>2. Tiles(bs) /\ Sealed(bs) /\ Used(bs) = {}
    BY <2>1, FirstBlock
  <2>3. Heads(blocks) = {} /\ DOMAIN live = {} /\ mem \in [Offsets -> Bytes]
    BY <1>2 DEF HeapInv
  <2>4. Owned(bs, live) /\ Kept(live) /\ HeadersIn(blocks, mem) /\ ContentsIn(live, mem)
    BY <2>2, <2>3 DEF Owned, Kept, HeadersIn, ContentsIn
  <2> QED BY <2>2, <2>3, <2>4 DEF bs
<1> QED BY <1>1, <1>2 DEF HeapInv

-----------------------------------------------------------------------------
(* What the calls do to blocks, promises and bytes.                        *)

\* The block allocate() takes, with the promise the program gets for it.
LEMMA AllocationGrants ==
  ASSUME NEW bs, NEW lv, Tiles(bs), Sealed(bs), Owned(bs, lv), Kept(lv),
         NEW size \in Nat, NEW align \in Nat \ {0}, Allocation(bs, size, align).ok,
         NEW v \in Promises, v.size = size, v.align = align, v.written <= size
  PROVE  LET r == Allocation(bs, size, align)  w == With(lv, r.pointer, v) IN
         /\ Tiles(r.blocks) /\ Sealed(r.blocks) /\ Owned(r.blocks, w) /\ Kept(w)
         /\ r.pointer \in Nat /\ r.pointer \notin DOMAIN lv
         /\ \A q \in Used(bs) : q \in Used(r.blocks) /\ r.blocks[q] = bs[q]
         /\ \E o \in Heads(bs) : /\ o \notin Used(bs) /\ o + HeaderBytes <= r.pointer
                                 /\ r.pointer + size <= o + bs[o].span
<1> DEFINE r == Allocation(bs, size, align)
           n == AtLeastOne(size)
<1>1. /\ Tiles(r.blocks) /\ Sealed(r.blocks)
      /\ \E o \in Heads(bs) :
                   /\ o \notin Used(bs) /\ Used(r.blocks) = Used(bs) \cup {o}
                   /\ \A q \in Used(bs) : r.blocks[q] = bs[q]
                   /\ r.blocks[o].requested = n /\ r.pointer = o + r.blocks[o].payload
                   /\ HeaderBytes <= r.blocks[o].payload
                   /\ r.blocks[o].payload + n <= r.blocks[o].span /\ r.blocks[o].payload + n <= bs[o].span
                   /\ r.blocks[o].span - r.blocks[o].payload - n < HeaderBytes + 2 * Alignment
                   /\ (Base + r.pointer) % align = 0
  BY AllocationIs
<1>2. n \in Nat /\ size <= n
  BY DEF AtLeastOne
<1> HIDE DEF r, n
<1> DEFINE cs == r.blocks
           p == r.pointer
           w == With(lv, p, v)
<1>3. PICK o \in Heads(bs) :
                   /\ o \notin Used(bs) /\ Used(cs) = Used(bs) \cup {o}
                   /\ \A q \in Used(bs) : cs[q] = bs[q]
                   /\ cs[o].requested = n /\ p = o + cs[o].payload
                   /\ HeaderBytes <= cs[o].payload
                   /\ cs[o].payload + n <= cs[o].span /\ cs[o].payload + n <= bs[o].span
                   /\ cs[o].span - cs[o].payload - n < HeaderBytes + 2 * Alignment
                   /\ (Base + p) % align = 0
  BY <1>1
<1>4. Tiles(cs)
  BY <1>1
<1> HIDE DEF cs, p
<1>5. o \in Nat /\ bs[o].span \in Nat
  BY TilesApart
<1>6. cs[o].payload \in Nat
  <2>1. o \in Heads(cs)
    BY <1>3 DEF Used
  <2> QED BY <1>4, <2>1, TilesApart
<1>7. p \notin DOMAIN lv /\ Owned(cs, w) /\ Kept(w)
  <2>1. cs[o].requested = AtLeastOne(v.size) /\ v.written <= v.size
    BY <1>3 DEF n
  <2>2. (Base + p) % v.align = 0 /\ cs[o].payload + cs[o].requested <= cs[o].span
        /\ cs[o].span - cs[o].payload - cs[o].requested < HeaderBytes + 2 * Alignment
    BY <1>3
  <2> HIDE DEF w
  <2>3. p \notin DOMAIN lv /\ Owned(cs, With(lv, p, v)) /\ Kept(With(lv, p, v))
    BY <1>3, <1>4, <2>1, <2>2, Granted
  <2> QED BY <2>3 DEF w
<1>8. p \in Nat /\ o + HeaderBytes <= p /\ p + size <= o + bs[o].span
  BY <1>2, <1>3, <1>5, <1>6, Parameters
<1>9. \A q \in Used(bs) : q \in Used(cs) /\ cs[q] = bs[q]
  BY <1>3
<1> QED BY <1>1, <1>3, <1>7, <1>8, <1>9 DEF r, p, cs

\* Nothing has been written to memory the program has just got.
LEMMA Untouched ==
  ASSUME NEW lv, NEW m, ContentsIn(lv, m), NEW p \in Nat, NEW v, v.written = 0
  PROVE  ContentsIn(With(lv, p, v), m)
<1> DEFINE w == With(lv, p, v)
<1>1. DOMAIN w = DOMAIN lv \cup {p} /\ w[p] = v /\ \A q \in DOMAIN lv : q # p => w[q] = lv[q]
  BY DEF With
<1> HIDE DEF w
<1>2. ASSUME NEW q \in DOMAIN w, NEW a \in Spanned(q, w[q].written) PROVE m[a] = w[q].data
  <2>1. CASE q = p
    <3>1. a \in Nat /\ p <= a /\ a < p + 0
      BY <1>1, <2>1, Parameters DEF Spanned, Offsets
    <3> QED BY <3>1
  <2>2. CASE q # p
    BY <1>1, <2>2 DEF ContentsIn
  <2> QED BY <2>1, <2>2
<1>3. ContentsIn(w, m)
  BY <1>2 DEF ContentsIn
<1> QED BY <1>3 DEF w

\* The program, or calloc, fills what it owns: no header, nothing else it owns.
LEMMA Filled ==
  ASSUME NEW bs, NEW lv, NEW m \in [Offsets -> Bytes], Tiles(bs), Owned(bs, lv), Kept(lv),
         HeadersIn(bs, m), ContentsIn(lv, m), NEW p \in DOMAIN lv, NEW d \in Contents \cup {Zero, Junk},
         NEW w, DOMAIN w = DOMAIN lv, \A q \in DOMAIN lv : q # p => w[q] = lv[q],
         w[p].written = lv[p].size, w[p].data = d
  PROVE  LET f == [a \in Offsets |-> IF a \in Spanned(p, lv[p].size) THEN d ELSE m[a]]
         IN f \in [Offsets -> Bytes] /\ HeadersIn(bs, f) /\ ContentsIn(w, f)
<1> DEFINE f == [a \in Offsets |-> IF a \in Spanned(p, lv[p].size) THEN d ELSE m[a]]
<1>1. f \in [Offsets -> Bytes]
  BY DEF Bytes
<1>2. \A a \in Offsets : f[a] = IF a \in Spanned(p, lv[p].size) THEN d ELSE m[a]
  OBVIOUS
<1> HIDE DEF f
<1>3. ASSUME NEW o \in Heads(bs), NEW a \in Spanned(o, HeaderBytes) PROVE f[a] = Header
  <2>1. a \in Offsets /\ m[a] = Header
    BY DEF HeadersIn, Spanned
  <2>2. a \notin Spanned(p, lv[p].size)
    BY <1>3, PayloadsApart
  <2> QED BY <1>2, <2>1, <2>2
<1>4. ASSUME NEW q \in DOMAIN w, NEW a \in Spanned(q, w[q].written) PROVE f[a] = w[q].data
  <2>1. a \in Offsets
    BY DEF Spanned
  <2>2. CASE q = p
    BY <1>2, <2>1, <2>2
  <2>3. CASE q # p
    <3>1. w[q] = lv[q] /\ q \in DOMAIN lv
      BY <2>3
    <3>2. m[a] = lv[q].data
      BY <1>4, <3>1 DEF ContentsIn
    <3>3. PICK x \in Used(bs) : q = x + bs[x].payload
      BY <3>1 DEF Owned
    <3>4. q \in Nat /\ lv[q].size \in Nat /\ lv[q].written \in Nat /\ lv[q].written <= lv[q].size
      BY <3>3, Place
    <3>5. a \in Spanned(q, lv[q].size)
      BY <1>4, <3>1, <3>4, WrittenIn
    <3>6. a \notin Spanned(p, lv[p].size)
      BY <2>3, <3>1, <3>5, PayloadsApart
    <3> QED BY <1>2, <2>1, <3>1, <3>2, <3>6
  <2> QED BY <2>2, <2>3
<1>5. HeadersIn(bs, f) /\ ContentsIn(w, f)
  BY <1>3, <1>4 DEF HeadersIn, ContentsIn
<1> QED BY <1>1, <1>5 DEF f

\* realloc's copy goes into a block that was free, and carries what was written along.
LEMMA CopyIs ==
  ASSUME Sound(blocks, live, mem), NEW o \in Used(blocks), NEW p, p = o + blocks[o].payload,
         NEW e \in Heads(blocks), e \notin Used(blocks), NEW q \in Nat, NEW size \in Nat,
         e + HeaderBytes <= q, q + size <= e + blocks[e].span, blocks[o].requested <= size,
         NEW w, DOMAIN w = (DOMAIN live \ {p}) \cup {q}, \A x \in DOMAIN live \ {p} : x # q => w[x] = live[x],
         w[q].written = live[p].written, w[q].data = live[p].data
  PROVE  LET c == Copied(q, p, blocks[o].requested)
         IN c \in [Offsets -> Bytes] /\ HeadersIn(blocks, c) /\ ContentsIn(w, c)
<1> DEFINE n == blocks[o].requested
           c == Copied(q, p, n)
<1>1. /\ Tiles(blocks) /\ Owned(blocks, live) /\ Kept(live)
      /\ mem \in [Offsets -> Bytes] /\ HeadersIn(blocks, mem) /\ ContentsIn(live, mem)
  BY DEF Sound
<1>2. /\ o \in Heads(blocks) /\ p \in Nat /\ live[p].size \in Nat /\ live[p].written \in Nat
      /\ live[p].written <= live[p].size /\ live[p].size <= n /\ p + n <= o + blocks[o].span
      /\ o + blocks[o].span <= HeapBytes
  BY <1>1, Place
<1>3. n \in Nat /\ o \in Nat /\ blocks[o].span \in Nat
  BY <1>1, <1>2, TilesApart
<1>4. e \in Nat /\ blocks[e].span \in Nat
  BY <1>1, TilesApart
<1>5. \A a \in Offsets : c[a] = IF a \in Spanned(q, n) THEN mem[p + (a - q)] ELSE mem[a]
  BY DEF Copied
<1>6. c = [a \in Offsets |-> c[a]]
  BY DEF Copied
<1> HIDE DEF c, n
<1>7. ASSUME NEW a \in Spanned(q, n)
      PROVE  a \in Nat /\ e <= a /\ e + HeaderBytes <= a /\ a < e + blocks[e].span /\ p + (a - q) \in Offsets
             /\ p + (a - q) \in Nat /\ p <= p + (a - q)
  <2>1. a \in Nat /\ a \in Offsets /\ q <= a /\ a < q + n
    BY Parameters DEF Spanned, Offsets
  <2>2. e + HeaderBytes <= a /\ e <= a /\ a < e + blocks[e].span
    BY <1>3, <1>4, <2>1, Parameters DEF n
  <2>3. p + (a - q) \in 0 .. HeapBytes - 1 /\ p <= p + (a - q)
    BY <1>2, <1>3, <2>1, Parameters
  <2> QED BY <2>1, <2>2, <2>3 DEF Offsets
<1>8. c \in [Offsets -> Bytes]
  <2>1. \A a \in Offsets : c[a] \in Bytes
    BY <1>1, <1>5, <1>7
  <2> QED BY <1>6, <2>1
<1>9. ASSUME NEW x \in Heads(blocks), NEW a \in Spanned(x, HeaderBytes) PROVE c[a] = Header
  <2>1. a \in Offsets /\ mem[a] = Header /\ x <= a /\ a < x + HeaderBytes
    BY <1>1 DEF HeadersIn, Spanned
  <2>2. a \notin Spanned(q, n)
    <3> SUFFICES ASSUME a \in Spanned(q, n) PROVE FALSE
      OBVIOUS
    <3>1. a \in Nat /\ e <= a /\ e + HeaderBytes <= a /\ a < e + blocks[e].span
      BY <1>7
    <3>2. x \in Nat /\ blocks[x].span \in Nat /\ HeaderBytes + Alignment <= blocks[x].span
      BY <1>1, <1>9, TilesApart
    <3>3. a < x + blocks[x].span
      BY <2>1, <3>1, <3>2, Parameters
    <3>4. x = e
      BY <1>1, <1>9, <2>1, <3>1, <3>3, OneBlock
    <3> QED BY <2>1, <3>1, <3>2, <3>4, Parameters
  <2> QED BY <1>5, <2>1, <2>2
<1>10. ASSUME NEW x \in DOMAIN w, NEW a \in Spanned(x, w[x].written) PROVE c[a] = w[x].data
  <2>1. a \in Offsets /\ a \in Nat /\ x <= a /\ a < x + w[x].written
    BY Parameters DEF Spanned, Offsets
  <2>2. CASE x = q
    <3>1. a < q + live[p].written /\ q <= a /\ a < q + n
      BY <1>2, <1>3, <2>1, <2>2
    <3>2. a \in Spanned(q, n)
      BY <2>1, <3>1 DEF Spanned
    <3>3. p + (a - q) \in Spanned(p, live[p].written)
      <4>1. p + (a - q) \in Offsets /\ p <= p + (a - q)
        BY <1>7, <3>2
      <4>2. p + (a - q) < p + live[p].written
        BY <1>2, <2>1, <3>1
      <4> QED BY <4>1, <4>2 DEF Spanned
    <3>4. p \in DOMAIN live
      BY <1>1 DEF Owned
    <3>5. mem[p + (a - q)] = live[p].data
      BY <1>1, <3>3, <3>4 DEF ContentsIn
    <3> QED BY <1>5, <2>1, <2>2, <3>2, <3>5
  <2>3. CASE x # q
    <3>1. x \in DOMAIN live /\ w[x] = live[x]
      BY <2>3
    <3>2. mem[a] = live[x].data
      BY <1>1, <1>10, <3>1 DEF ContentsIn
    <3>3. PICK y \in Used(blocks) : x = y + blocks[y].payload
      BY <1>1, <3>1 DEF Owned
    <3>4. /\ y \in Heads(blocks) /\ x \in Nat /\ y + HeaderBytes <= x /\ live[x].size \in Nat /\ live[x].written \in Nat
          /\ live[x].written <= live[x].size /\ live[x].size <= blocks[y].requested
          /\ x + blocks[y].requested <= y + blocks[y].span
      BY <1>1, <3>3, Place
    <3>5. y \in Nat /\ blocks[y].span \in Nat /\ blocks[y].requested \in Nat
      BY <1>1, <3>4, TilesApart
    <3>6. y <= a /\ a < y + blocks[y].span
      BY <2>1, <3>1, <3>4, <3>5, Parameters
    <3>7. a \notin Spanned(q, n)
      <4> SUFFICES ASSUME a \in Spanned(q, n) PROVE FALSE
        OBVIOUS
      <4>1. e <= a /\ a < e + blocks[e].span
        BY <1>7
      <4>2. y = e
        BY <1>1, <2>1, <3>4, <3>6, <4>1, OneBlock
      <4> QED BY <3>3, <4>2
    <3> QED BY <1>5, <2>1, <3>1, <3>2, <3>7
  <2> QED BY <2>2, <2>3
<1>11. HeadersIn(blocks, c) /\ ContentsIn(w, c)
  BY <1>9, <1>10 DEF HeadersIn, ContentsIn
<1> QED BY <1>8, <1>11 DEF c, n

\* Taking over the free block that follows keeps the tiling.
LEMMA AbsorbIs ==
  ASSUME Tiles(blocks), NEW o \in Used(blocks), NEW size \in Nat
  PROVE  LET c == Absorb(o, size) IN
         /\ Tiles(c) /\ Used(c) = Used(blocks)
         /\ \A q \in Used(blocks) : q # o => c[q] = blocks[q]
         /\ c[o].payload = blocks[o].payload /\ blocks[o].span <= c[o].span
<1> DEFINE c == Absorb(o, size)
           e == o + blocks[o].span
           d == [q \in Heads(blocks) \ {e} |->
                   IF q = o THEN [blocks[o] EXCEPT !.span = @ + blocks[e].span] ELSE blocks[q]]
<1>1. o \in Heads(blocks) /\ blocks[o].allocated
  BY DEF Used
<1>2. /\ o \in Nat /\ blocks[o].span \in Nat /\ 0 < blocks[o].span /\ blocks[o] \in Fields
      /\ e \in Heads(blocks) \cup {HeapBytes} /\ e \in Nat
      /\ HeaderBytes + Alignment <= blocks[o].span
      /\ \A q \in Heads(blocks) : q \in Nat /\ (o < q => e <= q)
  <2>1. /\ o \in Nat /\ blocks[o].span \in Nat /\ e \in Heads(blocks) \cup {HeapBytes}
        /\ HeaderBytes + Alignment <= blocks[o].span
        /\ \A q \in Heads(blocks) : q \in Nat /\ (o < q => e <= q)
    BY <1>1, TilesApart
  <2>2. 0 < blocks[o].span /\ e \in Nat
    BY <2>1, Parameters
  <2>3. blocks[o] \in Fields
    BY <1>1 DEF Tiles
  <2> QED BY <2>1, <2>2, <2>3
<1>3. CASE e < HeapBytes /\ ~blocks[e].allocated /\ c = d
  <2>1. e \in Heads(blocks)
    BY <1>2, <1>3, Parameters
  <2>2. /\ blocks[e].span \in Nat /\ 0 < blocks[e].span /\ e + blocks[e].span \in Heads(blocks) \cup {HeapBytes}
        /\ \A q \in Heads(blocks) : e < q => e + blocks[e].span <= q
    <3>1. /\ blocks[e].span \in Nat /\ HeaderBytes + Alignment <= blocks[e].span
          /\ e + blocks[e].span \in Heads(blocks) \cup {HeapBytes}
          /\ \A q \in Heads(blocks) : e < q => e + blocks[e].span <= q
      BY <2>1, TilesApart
    <3> QED BY <3>1, Parameters
  <2>3. o # e
    BY <1>2
  <2>4. /\ Heads(d) = Heads(blocks) \ {e} /\ d[o] = [blocks[o] EXCEPT !.span = blocks[o].span + blocks[e].span]
        /\ \A q \in Heads(d) : q # o => d[q] = blocks[q]
    BY <1>1, <2>3 DEF Heads
  <2>5. /\ d[o] \in Fields /\ d[o].span = blocks[o].span + blocks[e].span /\ d[o].allocated
        /\ d[o].payload = blocks[o].payload
    <3> DEFINE f == blocks[o]
               n == blocks[o].span + blocks[e].span
    <3>1. f \in Fields /\ n \in Nat /\ f.allocated /\ d[o] = [f EXCEPT !.span = n]
      BY <1>1, <1>2, <2>2, <2>4 DEF Used
    <3> HIDE DEF f, n, d
    <3>2. d[o] \in Fields /\ d[o].span = n /\ d[o].allocated /\ d[o].payload = f.payload
      BY <3>1 DEF Fields
    <3> QED BY <3>2 DEF f, n
  <2>6. e = o + blocks[o].span
    OBVIOUS
  <2> HIDE DEF d, e
  <2>7. ASSUME NEW q \in Heads(d)
        PROVE  /\ d[q] \in Fields /\ q % Alignment = 0 /\ HeaderBytes + Alignment <= d[q].span
               /\ q + d[q].span \in Heads(d) \cup {HeapBytes}
               /\ \A x \in Heads(d) : ~(q < x /\ x < q + d[q].span)
    <3>1. q \in Heads(blocks) /\ q # e /\ q % Alignment = 0 /\ q \in Nat
      BY <1>2, <2>4 DEF Tiles
    <3>2. CASE q = o
      <4>1. q + d[q].span = e + blocks[e].span /\ HeaderBytes + Alignment <= d[q].span
        BY <1>2, <2>2, <2>5, <2>6, <3>2, Parameters
      <4>2. q + d[q].span \in Heads(d) \cup {HeapBytes}
        <5>1. e + blocks[e].span # e
          BY <1>2, <2>2
        <5> QED BY <2>2, <2>4, <4>1, <5>1
      <4>3. ASSUME NEW x \in Heads(d), q < x PROVE e + blocks[e].span <= x
        <5>1. x \in Heads(blocks) /\ x # e /\ x \in Nat /\ e <= x
          BY <1>2, <2>4, <3>2, <4>3
        <5> QED BY <1>2, <2>2, <5>1
      <4>4. \A x \in Heads(d) : ~(q < x /\ x < e + blocks[e].span)
        <5>1. \A x \in Heads(d) : x \in Nat
          BY <1>2, <2>4
        <5> QED BY <1>2, <2>2, <4>3, <5>1
      <4> QED BY <2>5, <3>1, <3>2, <4>1, <4>2, <4>4
    <3>3. CASE q # o
      <4>1. d[q] = blocks[q]
        BY <2>4, <3>3
      <4>2. /\ blocks[q] \in Fields /\ HeaderBytes + Alignment <= blocks[q].span
            /\ q + blocks[q].span \in Heads(blocks) \cup {HeapBytes}
            /\ \A x \in Heads(blocks) : ~(q < x /\ x < q + blocks[q].span)
        BY <3>1 DEF Tiles
      <4>3. q + blocks[q].span # e
        <5> SUFFICES ASSUME q + blocks[q].span = e PROVE FALSE
          OBVIOUS
        <5>1. blocks[q].span \in Nat /\ 0 < blocks[q].span
          <6>1. blocks[q].span \in Nat
            BY <3>1, TilesApart
          <6> QED BY <4>2, <6>1, Parameters
        <5>2. e - 1 \in Nat /\ o <= e - 1 /\ e - 1 < o + blocks[o].span /\ q <= e - 1 /\ e - 1 < q + blocks[q].span
          BY <1>2, <2>6, <3>1, <5>1
        <5> QED BY <1>1, <3>1, <3>3, <5>2, OneBlock
      <4> QED BY <2>4, <3>1, <4>1, <4>2, <4>3
    <3> QED BY <3>2, <3>3
  <2>8. 0 \in Heads(d) /\ Heads(d) \subseteq Offsets
    <3>1. e # 0
      BY <1>2, <2>6
    <3> QED BY <2>4, <3>1 DEF Tiles
  <2>9. Tiles(d)
    BY <2>7, <2>8 DEF Tiles
  <2>10. Used(d) = Used(blocks)
    <3>1. ~blocks[e].allocated
      BY <1>3
    <3>2. ASSUME NEW q \in Used(blocks) PROVE q \in Used(d)
      <4>1. q \in Heads(blocks) /\ q # e /\ blocks[q].allocated
        BY <3>1 DEF Used
      <4> QED BY <2>4, <2>5, <4>1 DEF Used
    <3>3. ASSUME NEW q \in Used(d) PROVE q \in Used(blocks)
      <4>1. q \in Heads(d) /\ d[q].allocated
        BY <3>3 DEF Used
      <4> QED BY <1>1, <2>4, <4>1 DEF Used
    <3> QED BY <3>2, <3>3
  <2>11. \A q \in Used(blocks) : q # o => d[q] = blocks[q]
    BY <2>4, <2>10 DEF Used
  <2>12. blocks[o].span <= d[o].span
    BY <1>2, <2>2, <2>5
  <2>13. c = d
    BY <1>3 DEF d, e
  <2> QED BY <2>5, <2>9, <2>10, <2>11, <2>12, <2>13
<1>4. CASE c = blocks
  BY <1>2, <1>4
<1>5. \/ e < HeapBytes /\ ~blocks[e].allocated /\ c = d
      \/ c = blocks
  BY DEF Absorb
<1> QED BY <1>3, <1>4, <1>5

\* realloc() where the block stays: it is cut to its new size.
LEMMA ResizedIs ==
  ASSUME NEW bs, Tiles(bs), NEW o \in Used(bs), NEW size \in Nat \ {0},
         HeaderBytes <= bs[o].payload, bs[o].payload + size <= bs[o].span
  PROVE  LET c == Resized(bs, o, size) IN
         /\ Tiles(c) /\ Sealed(c) /\ Used(c) = Used(bs)
         /\ \A q \in Used(bs) : q # o => c[q] = bs[q]
         /\ c[o].payload = bs[o].payload /\ c[o].requested = size
         /\ c[o].payload + c[o].requested <= c[o].span
         /\ c[o].span - c[o].payload - c[o].requested < HeaderBytes + 2 * Alignment
<1> DEFINE n == bs[o].payload + size
           s == Split(bs, o, Rounded(n))
           d == [s EXCEPT ![o].requested = size]
<1>1. o \in Heads(bs) /\ bs[o].allocated
  BY DEF Used
<1>2. bs[o].payload \in Nat /\ bs[o].span \in Nat
  BY <1>1, TilesApart
<1>3. n \in Nat /\ HeaderBytes < n /\ n <= bs[o].span
  BY <1>2, Parameters
<1> HIDE DEF n
<1>4. /\ Tiles(s) /\ Heads(bs) \subseteq Heads(s)
      /\ \A q \in Heads(bs) : q # o => s[q] = bs[q]
      /\ \A q \in Heads(s) \ Heads(bs) : ~s[q].allocated
      /\ s[o].payload = bs[o].payload /\ s[o].allocated = bs[o].allocated
      /\ n <= s[o].span /\ s[o].span - n < HeaderBytes + 2 * Alignment
  BY <1>1, <1>3, SplitIs
<1> HIDE DEF s
<1>5. o \in Heads(s) /\ s[o] \in Fields /\ s[o].span \in Nat /\ s[o].payload \in Nat
  <2>1. o \in Heads(s)
    BY <1>1, <1>4
  <2>2. s[o].span \in Nat /\ s[o].payload \in Nat
    BY <1>4, <2>1, TilesApart
  <2>3. s[o] \in Fields
    BY <1>4, <2>1 DEF Tiles
  <2> QED BY <2>1, <2>2, <2>3
<1>6. /\ Heads(d) = Heads(s) /\ (\A q \in Heads(s) : q # o => d[q] = s[q])
      /\ d[o] = [s[o] EXCEPT !.requested = size]
  BY <1>5 DEF Heads
<1>7. /\ d[o] \in Fields /\ d[o].span = s[o].span /\ d[o].requested = size /\ d[o].payload = s[o].payload
      /\ d[o].allocated = s[o].allocated
  BY <1>5, <1>6 DEF Fields
<1> HIDE DEF d
<1>8. Tiles(d)
  <2>1. /\ Tiles(s) /\ o \in Heads(s) /\ Heads(d) = Heads(s) /\ (\A q \in Heads(s) : q # o => d[q] = s[q])
        /\ d[o] \in Fields /\ d[o].span = s[o].span
    BY <1>4, <1>5, <1>6, <1>7
  <2> QED BY <2>1, Relabel
<1>9. Used(d) = Used(bs)
  <2>1. ASSUME NEW q \in Used(bs) PROVE q \in Used(d)
    <3>1. q \in Heads(bs) /\ bs[q].allocated
      BY DEF Used
    <3>2. CASE q = o
      BY <1>1, <1>4, <1>5, <1>6, <1>7, <3>2 DEF Used
    <3>3. CASE q # o
      BY <1>4, <1>6, <3>1, <3>3 DEF Used
    <3> QED BY <3>2, <3>3
  <2>2. ASSUME NEW q \in Used(d) PROVE q \in Used(bs)
    <3>1. q \in Heads(s) /\ d[q].allocated
      BY <1>6 DEF Used
    <3>2. CASE q = o
      BY <3>2
    <3>3. CASE q # o
      <4>1. s[q].allocated
        BY <1>6, <3>1, <3>3
      <4>2. q \in Heads(bs)
        BY <1>4, <3>1, <4>1
      <4> QED BY <1>4, <3>3, <4>1, <4>2 DEF Used
    <3> QED BY <3>2, <3>3
  <2> QED BY <2>1, <2>2
<1>10. Resized(bs, o, size) = Coalesce(d)
  BY DEF Resized, d, s, n
<1>11. /\ Tiles(Coalesce(d)) /\ Sealed(Coalesce(d)) /\ Used(Coalesce(d)) = Used(d)
       /\ \A q \in Used(d) : Coalesce(d)[q] = d[q]
  BY <1>8, CoalesceIs
<1>12. \A q \in Used(bs) : q # o => Coalesce(d)[q] = bs[q]
  BY <1>4, <1>6, <1>9, <1>11 DEF Used
<1>13. Coalesce(d)[o] = d[o]
  BY <1>9, <1>11
<1>14. d[o].payload = bs[o].payload /\ d[o].payload + d[o].requested = n
  BY <1>4, <1>7 DEF n
<1>15. d[o].payload + d[o].requested <= d[o].span
       /\ d[o].span - d[o].payload - d[o].requested < HeaderBytes + 2 * Alignment
  <2>1. d[o].payload \in Nat /\ d[o].span \in Nat /\ d[o].requested \in Nat
    BY <1>5, <1>7
  <2> QED BY <1>3, <1>4, <1>7, <1>14, <2>1, Parameters
<1> QED BY <1>7, <1>9, <1>10, <1>11, <1>12, <1>13, <1>14, <1>15

-----------------------------------------------------------------------------
(* Every call keeps the invariant.                                         *)

Errors == {"0", "ENOMEM", "EINVAL"}

LEMMA RefuseStep ==
  ASSUME HeapInv, NEW error \in Errors, Refuse(Initialized(blocks), error), initialized' = TRUE
  PROVE  HeapInv'
<1> DEFINE bs == Initialized(blocks)
<1>1. /\ Tiles(bs) /\ Sealed(bs) /\ Owned(bs, live) /\ Kept(live)
      /\ mem \in [Offsets -> Bytes] /\ HeadersIn(blocks, mem) /\ ContentsIn(live, mem)
  BY Started
<1>2. blocks' = bs /\ live' = live /\ mem' = Settle(bs, live, Headers(bs, mem)) /\ errno' = error /\ aborted' = aborted
  BY DEF Refuse
<1> HIDE DEF bs
<1>3. LET s == Settle(bs, live, Headers(bs, mem))
      IN s \in [Offsets -> Bytes] /\ HeadersIn(bs, s) /\ ContentsIn(live, s)
  BY <1>1, Stored
<1>4. Sound(bs, live, mem')
  BY <1>1, <1>2, <1>3 DEF Sound
<1>5. Sound(blocks', live', mem')
  BY <1>2, <1>4
<1> QED BY <1>2, <1>5 DEF HeapInv, Errors

LEMMA PromiseIs ==
  ASSUME NEW size \in Nat, NEW align \in Nat \ {0}, NEW wrote \in Nat, NEW data \in Contents \cup {Zero, Junk}
  PROVE  LET v == Promise(size, align, wrote, data) IN
         v \in Promises /\ v.size = size /\ v.align = align /\ v.written = wrote /\ v.data = data
BY DEF Promise, Promises

LEMMA AllocateStep ==
  ASSUME HeapInv, NEW size \in Nat, NEW align \in Nat \ {0}, NEW error \in Errors, Allocate(size, align, error)
  PROVE  HeapInv'
<1> DEFINE bs == Initialized(blocks)
           r == Allocation(bs, size, align)
           v == Promise(size, align, 0, Junk)
           w == With(live, r.pointer, v)
<1>1. /\ Tiles(bs) /\ Sealed(bs) /\ Owned(bs, live) /\ Kept(live)
      /\ mem \in [Offsets -> Bytes] /\ HeadersIn(blocks, mem) /\ ContentsIn(live, mem)
  BY Started
<1>2. initialized' = TRUE
  BY DEF Allocate
<1>3. CASE ~r.ok
  <2>1. Refuse(r.blocks, error)
    BY <1>3 DEF Allocate
  <2> HIDE DEF bs
  <2>2. r.blocks = bs
    BY <1>1, <1>3, AllocationIs
  <2>3. Refuse(Initialized(blocks), error)
    BY <2>1, <2>2 DEF bs
  <2> QED BY <1>2, <2>3, RefuseStep
<1>4. CASE r.ok
  <2>1. /\ blocks' = r.blocks /\ live' = w /\ mem' = Settle(blocks', live', Headers(blocks', mem))
        /\ errno' = errno /\ aborted' = aborted
    BY <1>4 DEF Allocate
  <2>2. v \in Promises /\ v.size = size /\ v.align = align /\ v.written = 0 /\ v.written <= size
    BY PromiseIs
  <2> HIDE DEF bs, v
  <2>3. Tiles(r.blocks) /\ Sealed(r.blocks) /\ Owned(r.blocks, w) /\ Kept(w) /\ r.pointer \in Nat
    BY <1>1, <1>4, <2>2, AllocationGrants
  <2> HIDE DEF r
  <2>4. ContentsIn(w, mem)
    BY <1>1, <2>2, <2>3, Untouched
  <2> HIDE DEF w
  <2> DEFINE s == Settle(r.blocks, w, Headers(r.blocks, mem))
  <2>5. s \in [Offsets -> Bytes] /\ HeadersIn(r.blocks, s) /\ ContentsIn(w, s)
    BY <1>1, <2>3, <2>4, Stored
  <2>6. Sound(blocks', live', mem')
    BY <2>1, <2>3, <2>5 DEF Sound
  <2> QED BY <1>2, <2>1, <2>6 DEF HeapInv
<1> QED BY <1>3, <1>4

LEMMA CallocStep ==
  ASSUME HeapInv, NEW number \in Nat, NEW size \in Nat, Calloc(number, size)
  PROVE  HeapInv'
<1> DEFINE n == number * size
           bs == Initialized(blocks)
           r == Allocation(bs, n, Alignment)
           v == Promise(n, Alignment, 0, Junk)
           w == With(live, r.pointer, v)
           z == Promise(n, Alignment, n, Zero)
           y == With(live, r.pointer, z)
<1>0. n \in Nat /\ Alignment \in Nat \ {0}
  BY Parameters
<1>1. /\ Tiles(bs) /\ Sealed(bs) /\ Owned(bs, live) /\ Kept(live)
      /\ mem \in [Offsets -> Bytes] /\ HeadersIn(blocks, mem) /\ ContentsIn(live, mem)
  BY Started
<1>2. CASE size # 0 /\ number > SizeMax \div size
  <2>1. errno' = "ENOMEM" /\ UNCHANGED <<initialized, blocks, mem, live, aborted>>
    BY <1>2 DEF Calloc
  <2> QED BY <2>1 DEF HeapInv
<1>3. CASE ~(size # 0 /\ number > SizeMax \div size) /\ ~r.ok
  <2>1. Refuse(r.blocks, "ENOMEM") /\ initialized' = TRUE
    BY <1>3 DEF Calloc
  <2> HIDE DEF bs, n
  <2>2. r.blocks = bs
    BY <1>0, <1>1, <1>3, AllocationIs
  <2>3. Refuse(Initialized(blocks), "ENOMEM")
    BY <2>1, <2>2 DEF bs
  <2> QED BY <2>1, <2>3, RefuseStep DEF Errors
<1>4. CASE ~(size # 0 /\ number > SizeMax \div size) /\ r.ok
  <2> DEFINE f == [a \in Offsets |-> IF a \in Spanned(r.pointer, n) THEN Zero ELSE Headers(r.blocks, mem)[a]]
  <2>1. /\ initialized' = TRUE /\ blocks' = r.blocks /\ live' = y /\ mem' = Settle(r.blocks, y, f)
        /\ errno' = errno /\ aborted' = aborted
    BY <1>4 DEF Calloc
  <2> HIDE DEF n
  <2>2. v \in Promises /\ v.size = n /\ v.align = Alignment /\ v.written = 0 /\ v.written <= n
    <3>1. 0 \in Nat /\ 0 <= n /\ Junk \in Contents \cup {Zero, Junk}
      BY <1>0
    <3>2. v \in Promises /\ v.size = n /\ v.align = Alignment /\ v.written = 0
      BY <1>0, <3>1, PromiseIs
    <3> QED BY <3>1, <3>2
  <2>3. z \in Promises /\ z.size = n /\ z.align = Alignment /\ z.written = n /\ z.written <= n /\ z.data = Zero
    BY <1>0, PromiseIs
  <2> HIDE DEF bs, v, z
  <2>4. Tiles(r.blocks) /\ Sealed(r.blocks) /\ Owned(r.blocks, w) /\ Kept(w) /\ r.pointer \in Nat
    BY <1>0, <1>1, <1>4, <2>2, AllocationGrants
  <2>5. Owned(r.blocks, y) /\ Kept(y)
    BY <1>0, <1>1, <1>4, <2>3, AllocationGrants
  <2> HIDE DEF r
  <2>6. ContentsIn(w, mem)
    BY <1>1, <2>2, <2>4, Untouched
  <2>7. /\ DOMAIN w = DOMAIN live \cup {r.pointer} /\ w[r.pointer] = v
        /\ DOMAIN y = DOMAIN live \cup {r.pointer} /\ y[r.pointer] = z
        /\ \A q \in DOMAIN live : q # r.pointer => w[q] = live[q] /\ y[q] = live[q]
    BY DEF With
  <2> HIDE DEF w, y
  <2> DEFINE h == Headers(r.blocks, mem)
  <2>8. h \in [Offsets -> Bytes] /\ HeadersIn(r.blocks, h) /\ ContentsIn(w, h)
    BY <1>1, <2>4, <2>6, HeadersAre
  <2>9. f = [a \in Offsets |-> IF a \in Spanned(r.pointer, w[r.pointer].size) THEN Zero ELSE h[a]]
    BY <2>2, <2>7
  <2> HIDE DEF h, f
  <2>10. f \in [Offsets -> Bytes] /\ HeadersIn(r.blocks, f) /\ ContentsIn(y, f)
    <3>1. DOMAIN y = DOMAIN w /\ (\A q \in DOMAIN w : q # r.pointer => y[q] = w[q]) /\ r.pointer \in DOMAIN w
      BY <2>7
    <3>2. y[r.pointer].written = w[r.pointer].size /\ y[r.pointer].data = Zero
      BY <2>2, <2>3, <2>7
    <3> QED BY <2>4, <2>8, <2>9, <3>1, <3>2, Filled
  <2> DEFINE s == Settle(r.blocks, y, f)
  <2>11. s \in [Offsets -> Bytes] /\ HeadersIn(r.blocks, s) /\ ContentsIn(y, s)
    BY <2>10, Settled
  <2>12. Sound(blocks', live', mem')
    BY <2>1, <2>4, <2>5, <2>11 DEF Sound
  <2> QED BY <2>1, <2>12 DEF HeapInv
<1> QED BY <1>2, <1>3, <1>4

\* Only what the program owns is found, and then the heap is laid out.
LEMMA FoundIs ==
  ASSUME HeapInv, NEW p, NEW o \in Find(p)
  PROVE  initialized /\ Sound(blocks, live, mem) /\ o \in Used(blocks) /\ p = o + blocks[o].payload /\ p \in DOMAIN live
<1>1. o \in Heads(blocks) /\ o \in Used(blocks) /\ p = o + blocks[o].payload
  BY DEF Find, Used
<1>2. initialized /\ Sound(blocks, live, mem)
  BY <1>1 DEF HeapInv
<1> QED BY <1>1, <1>2 DEF Sound, Owned

LEMMA AbortStep == HeapInv /\ Abort => HeapInv'
BY DEF HeapInv, Abort

LEMMA FreeStep ==
  ASSUME HeapInv, NEW p, Free(p)
  PROVE  HeapInv'
<1>1. CASE Find(p) = {}
  BY <1>1, AbortStep DEF Free
<1>2. CASE Find(p) # {}
  <2>1. PICK o \in Find(p) : blocks' = Freed(blocks, o)
    BY <1>2 DEF Free
  <2>2. /\ live' = Forget(p) /\ mem' = Settle(blocks', live', Headers(blocks', mem))
        /\ initialized' = initialized /\ errno' = errno /\ aborted' = aborted
    BY <1>2 DEF Free
  <2>3. initialized /\ Sound(blocks, live, mem) /\ o \in Used(blocks) /\ p = o + blocks[o].payload
    BY FoundIs
  <2>4. /\ Tiles(blocks) /\ Owned(blocks, live) /\ Kept(live)
        /\ mem \in [Offsets -> Bytes] /\ HeadersIn(blocks, mem) /\ ContentsIn(live, mem)
    BY <2>3 DEF Sound
  <2> DEFINE c == Freed(blocks, o)
             w == [q \in DOMAIN live \ {p} |-> live[q]]
             s == Settle(c, w, Headers(c, mem))
  <2>5. /\ Tiles(c) /\ Sealed(c) /\ Used(c) = Used(blocks) \ {o} /\ \A q \in Used(blocks) \ {o} : c[q] = blocks[q]
    BY <2>3, <2>4, FreedIs
  <2>6. w = Forget(p)
    BY DEF Forget
  <2>7. ContentsIn(w, mem)
    BY <2>4 DEF ContentsIn
  <2> HIDE DEF c
  <2>8. Owned(c, w) /\ Kept(w)
    BY <2>3, <2>4, <2>5, Returned
  <2> HIDE DEF w
  <2>9. s \in [Offsets -> Bytes] /\ HeadersIn(c, s) /\ ContentsIn(w, s)
    BY <2>4, <2>5, <2>7, <2>8, Stored
  <2>10. blocks' = c /\ live' = w /\ mem' = s
    BY <2>1, <2>2, <2>6 DEF c
  <2>11. Sound(blocks', live', mem')
    BY <2>5, <2>8, <2>9, <2>10 DEF Sound
  <2> QED BY <2>2, <2>3, <2>11 DEF HeapInv
<1> QED BY <1>1, <1>2

LEMMA ReallocInPlaceStep ==
  ASSUME HeapInv, NEW p, NEW o \in Find(p), NEW size \in Nat \ {0}, ReallocInPlace(p, o, size)
  PROVE  HeapInv'
<1> DEFINE bs == Absorb(o, size)
           c == Resized(bs, o, size)
           v == Promise(size, live[p].align,
                        IF size < live[p].written THEN size ELSE live[p].written, live[p].data)
           w == [live EXCEPT ![p] = v]
<1>1. initialized /\ Sound(blocks, live, mem) /\ o \in Used(blocks) /\ p = o + blocks[o].payload /\ p \in DOMAIN live
  BY FoundIs
<1>2. /\ Tiles(blocks) /\ Owned(blocks, live) /\ Kept(live)
      /\ mem \in [Offsets -> Bytes] /\ HeadersIn(blocks, mem) /\ ContentsIn(live, mem)
  BY <1>1 DEF Sound
<1>3. /\ size <= bs[o].span - bs[o].payload /\ blocks' = c /\ live' = w
      /\ mem' = Settle(blocks', live', Headers(blocks', mem))
      /\ initialized' = initialized /\ errno' = errno /\ aborted' = aborted
  BY DEF ReallocInPlace
<1>4. /\ Tiles(bs) /\ Used(bs) = Used(blocks) /\ (\A q \in Used(blocks) : q # o => bs[q] = blocks[q])
      /\ bs[o].payload = blocks[o].payload
  BY <1>1, <1>2, AbsorbIs
<1> HIDE DEF bs
<1>5. bs[o].payload \in Nat /\ bs[o].span \in Nat /\ o \in Used(bs) /\ HeaderBytes <= bs[o].payload
  <2>1. o \in Heads(bs) /\ o \in Used(bs)
    BY <1>1, <1>4 DEF Used
  <2>2. HeaderBytes <= blocks[o].payload
    BY <1>1, <1>2 DEF Owned
  <2>3. bs[o].payload \in Nat /\ bs[o].span \in Nat
    BY <1>4, <2>1, TilesApart
  <2> QED BY <1>4, <2>1, <2>2, <2>3
<1>6. bs[o].payload + size <= bs[o].span
  BY <1>3, <1>5
<1>7. /\ Tiles(c) /\ Sealed(c) /\ Used(c) = Used(bs)
      /\ \A q \in Used(bs) : q # o => c[q] = bs[q]
      /\ c[o].payload = bs[o].payload /\ c[o].requested = size
      /\ c[o].payload + c[o].requested <= c[o].span
      /\ c[o].span - c[o].payload - c[o].requested < HeaderBytes + 2 * Alignment
  BY <1>4, <1>5, <1>6, ResizedIs
<1> HIDE DEF c
<1>8. live[p] \in Promises /\ live[p].written <= live[p].size
  BY <1>1, <1>2 DEF Kept
<1>9. /\ v \in Promises /\ v.size = size /\ v.align = live[p].align /\ v.data = live[p].data
      /\ v.written <= v.size /\ v.written <= live[p].written /\ v.written \in Nat /\ live[p].written \in Nat
  <2>1. /\ live[p].size \in Nat /\ live[p].align \in Nat \ {0} /\ live[p].written \in Nat
        /\ live[p].data \in Contents \cup {Zero, Junk}
    BY <1>8 DEF Promises
  <2> DEFINE k == IF size < live[p].written THEN size ELSE live[p].written
  <2>2. k \in Nat /\ k <= size /\ k <= live[p].written
    BY <2>1
  <2> HIDE DEF k
  <2> DEFINE al == live[p].align
             da == live[p].data
  <2>3. v = Promise(size, al, k, da)
    BY DEF k
  <2>4. /\ v \in Promises /\ v.size = size /\ v.align = al /\ v.written = k /\ v.data = da
    <3>1. al \in Nat \ {0} /\ da \in Contents \cup {Zero, Junk} /\ size \in Nat
      BY <2>1
    <3> HIDE DEF al, da, v
    <3> QED BY <2>2, <2>3, <3>1 DEF Promise, Promises
  <2> HIDE DEF v
  <2> QED BY <2>1, <2>2, <2>3, <2>4
<1> HIDE DEF v
<1>10. Owned(c, w) /\ Kept(w)
  <2>1. Used(c) = Used(blocks) /\ (\A q \in Used(blocks) : q # o => c[q] = blocks[q]) /\ c[o].payload = blocks[o].payload
    BY <1>4, <1>7
  <2>2. c[o].requested = AtLeastOne(v.size)
    BY <1>7, <1>9 DEF AtLeastOne
  <2> HIDE DEF w
  <2>3. Owned(c, [live EXCEPT ![p] = v]) /\ Kept([live EXCEPT ![p] = v])
    BY <1>1, <1>2, <1>7, <1>9, <2>1, <2>2, Renewed
  <2> QED BY <2>3 DEF w
<1>11. ContentsIn(w, mem)
  <2>1. DOMAIN w = DOMAIN live /\ w[p] = v /\ \A q \in DOMAIN live : q # p => w[q] = live[q]
    BY <1>1
  <2> HIDE DEF w
  <2>2. ASSUME NEW q \in DOMAIN w, NEW a \in Spanned(q, w[q].written) PROVE mem[a] = w[q].data
    <3>1. CASE q = p
      <4>1. p \in Nat
        BY <1>1, <1>2, Place
      <4>2. a \in Spanned(p, live[p].written)
        BY <1>9, <2>1, <2>2, <3>1, <4>1, WrittenIn
      <4> QED BY <1>1, <1>2, <1>9, <2>1, <3>1, <4>2 DEF ContentsIn
    <3>2. CASE q # p
      BY <1>2, <2>1, <2>2, <3>2 DEF ContentsIn
    <3> QED BY <3>1, <3>2
  <2> QED BY <2>2 DEF ContentsIn
<1> HIDE DEF w
<1> DEFINE s == Settle(c, w, Headers(c, mem))
<1>12. s \in [Offsets -> Bytes] /\ HeadersIn(c, s) /\ ContentsIn(w, s)
  BY <1>2, <1>7, <1>10, <1>11, Stored
<1>13. Sound(blocks', live', mem')
  BY <1>3, <1>7, <1>10, <1>12 DEF Sound
<1> QED BY <1>1, <1>3, <1>13 DEF HeapInv

LEMMA ReallocMoveStep ==
  ASSUME HeapInv, NEW p, NEW o \in Find(p), NEW size \in Nat \ {0}, ReallocMove(p, o, size)
  PROVE  HeapInv'
<1> DEFINE r == Allocation(blocks, size, Alignment)
           q == r.pointer
           v == Promise(size, Alignment, live[p].written, live[p].data)
           big == With(live, q, v)
           w == With(Forget(p), q, v)
           n == blocks[o].requested
<1>1. initialized /\ Sound(blocks, live, mem) /\ o \in Used(blocks) /\ p = o + blocks[o].payload /\ p \in DOMAIN live
  BY FoundIs
<1>2. /\ Tiles(blocks) /\ Sealed(blocks) /\ Owned(blocks, live) /\ Kept(live)
      /\ mem \in [Offsets -> Bytes] /\ HeadersIn(blocks, mem) /\ ContentsIn(live, mem)
  BY <1>1 DEF Sound
<1>3. CASE ~r.ok
  <2>1. Refuse(blocks, "ENOMEM") /\ initialized' = initialized
    BY <1>3 DEF ReallocMove
  <2>2. Refuse(Initialized(blocks), "ENOMEM") /\ initialized' = TRUE
    BY <1>1, <2>1 DEF Initialized, HeapInv
  <2> QED BY <2>2, RefuseStep DEF Errors
<1>4. CASE r.ok
  <2> DEFINE bs == r.blocks
             c == Freed(bs, o)
             m == Copied(q, p, n)
  <2>1. /\ size > Absorb(o, size)[o].span - Absorb(o, size)[o].payload
        /\ blocks' = c /\ live' = w /\ mem' = Settle(blocks', live', Headers(blocks', m))
        /\ initialized' = initialized /\ errno' = errno /\ aborted' = aborted
    BY <1>4 DEF ReallocMove
  <2>2. live[p] \in Promises /\ live[p].written <= live[p].size
    BY <1>1, <1>2 DEF Kept
  <2>3. live[p].size \in Nat /\ live[p].written \in Nat /\ live[p].data \in Contents \cup {Zero, Junk}
    BY <2>2 DEF Promises
  <2>4. n < size /\ n \in Nat /\ live[p].size <= n
    <3> DEFINE ab == Absorb(o, size)
    <3>1. ab[o].payload = blocks[o].payload /\ blocks[o].span <= ab[o].span /\ Tiles(ab) /\ Used(ab) = Used(blocks)
      BY <1>1, <1>2, AbsorbIs
    <3>2. size > ab[o].span - ab[o].payload
      BY <2>1
    <3> HIDE DEF ab
    <3>3. o \in Heads(blocks) /\ o \in Heads(ab)
      BY <1>1, <3>1 DEF Used
    <3>4. blocks[o].span \in Nat /\ blocks[o].payload \in Nat /\ blocks[o].requested \in Nat
      BY <1>2, <3>3, TilesApart
    <3>5. ab[o].span \in Nat
      BY <3>1, <3>3, TilesApart
    <3>6. blocks[o].payload + blocks[o].requested <= blocks[o].span
      BY <1>1, <1>2 DEF Owned
    <3>7. live[p].size <= n
      BY <1>1, <1>2, Place
    <3> QED BY <3>1, <3>2, <3>4, <3>5, <3>6, <3>7
  <2>5. v \in Promises /\ v.size = size /\ v.align = Alignment /\ v.written = live[p].written /\ v.data = live[p].data
    <3> DEFINE wr == live[p].written
               da == live[p].data
    <3>1. Alignment \in Nat \ {0} /\ size \in Nat /\ wr \in Nat /\ da \in Contents \cup {Zero, Junk}
      BY <2>3, Parameters
    <3>2. v = Promise(size, Alignment, wr, da)
      OBVIOUS
    <3> HIDE DEF wr, da, v
    <3>3. v \in Promises /\ v.size = size /\ v.align = Alignment /\ v.written = wr /\ v.data = da
      BY <3>1, <3>2 DEF Promise, Promises
    <3> QED BY <3>3 DEF wr, da
  <2>6. v.written <= size
    BY <2>2, <2>3, <2>4, <2>5
  <2> HIDE DEF v, n
  <2>7. /\ Tiles(bs) /\ Owned(bs, big) /\ Kept(big)
        /\ q \in Nat /\ q \notin DOMAIN live
        /\ \A x \in Used(blocks) : x \in Used(bs) /\ bs[x] = blocks[x]
        /\ \E e \in Heads(blocks) : e \notin Used(blocks) /\ e + HeaderBytes <= q /\ q + size <= e + blocks[e].span
    BY <1>2, <1>4, <2>5, <2>6, Parameters, AllocationGrants
  <2> HIDE DEF r, bs, q
  <2>8. o \in Used(bs) /\ p = o + bs[o].payload
    BY <1>1, <2>7
  <2>9. /\ Tiles(c) /\ Sealed(c) /\ Used(c) = Used(bs) \ {o} /\ \A x \in Used(bs) \ {o} : c[x] = bs[x]
    BY <2>7, <2>8, FreedIs
  <2> HIDE DEF c
  <2> DEFINE left == [x \in DOMAIN big \ {p} |-> big[x]]
  <2>10. Owned(c, left) /\ Kept(left)
    BY <2>7, <2>8, <2>9, Returned
  <2>11. p # q
    BY <1>1, <2>7
  <2>12. left = w
    <3>1. DOMAIN big = DOMAIN live \cup {q} /\ \A x \in DOMAIN big : big[x] = IF x = q THEN v ELSE live[x]
      BY DEF With
    <3>2. w = [x \in (DOMAIN live \ {p}) \cup {q} |-> IF x = q THEN v ELSE Forget(p)[x]]
      BY DEF With, Forget
    <3>3. \A x \in DOMAIN live \ {p} : Forget(p)[x] = live[x]
      BY DEF Forget
    <3> HIDE DEF big, w
    <3>4. DOMAIN big \ {p} = (DOMAIN live \ {p}) \cup {q}
      BY <2>11, <3>1
    <3>5. \A x \in (DOMAIN live \ {p}) \cup {q} : big[x] = IF x = q THEN v ELSE Forget(p)[x]
      BY <2>11, <3>1, <3>3
    <3> QED BY <3>2, <3>4, <3>5
  <2>13. /\ DOMAIN w = (DOMAIN live \ {p}) \cup {q} /\ w[q] = v
         /\ \A x \in DOMAIN live \ {p} : x # q => w[x] = live[x]
    BY DEF With, Forget
  <2> HIDE DEF w, left
  <2>14. m \in [Offsets -> Bytes] /\ HeadersIn(blocks, m) /\ ContentsIn(w, m)
    <3>1. PICK e \in Heads(blocks) : e \notin Used(blocks) /\ e + HeaderBytes <= q /\ q + size <= e + blocks[e].span
      BY <2>7
    <3>2. blocks[o].requested <= size /\ w[q].written = live[p].written /\ w[q].data = live[p].data
      BY <2>4, <2>5, <2>13 DEF n
    <3> HIDE DEF m
    <3>3. LET x == Copied(q, p, blocks[o].requested)
          IN x \in [Offsets -> Bytes] /\ HeadersIn(blocks, x) /\ ContentsIn(w, x)
      BY <1>1, <2>7, <2>13, <3>1, <3>2, CopyIs
    <3> QED BY <3>3 DEF m, n
  <2> HIDE DEF m
  <2> DEFINE s == Settle(c, w, Headers(c, m))
  <2>15. Owned(c, w) /\ Kept(w)
    BY <2>10, <2>12
  <2>16. s \in [Offsets -> Bytes] /\ HeadersIn(c, s) /\ ContentsIn(w, s)
    BY <2>9, <2>14, <2>15, Stored
  <2>17. blocks' = c /\ live' = w /\ mem' = s
    BY <2>1
  <2>18. Sound(blocks', live', mem')
    BY <2>9, <2>15, <2>16, <2>17 DEF Sound
  <2> QED BY <1>1, <2>1, <2>18 DEF HeapInv
<1> QED BY <1>3, <1>4

LEMMA ReallocStep ==
  ASSUME HeapInv, NEW p, NEW size \in Nat, Realloc(p, size)
  PROVE  HeapInv'
<1>1. size \in Nat \ {0}
  BY DEF Realloc
<1>2. CASE Find(p) = {}
  BY <1>2, AbortStep DEF Realloc
<1>3. CASE Find(p) # {} /\ size > HeapBytes
  <2>1. Refuse(blocks, "ENOMEM") /\ initialized' = initialized
    BY <1>3 DEF Realloc
  <2>2. initialized
    BY <1>3, FoundIs
  <2>3. Refuse(Initialized(blocks), "ENOMEM") /\ initialized' = TRUE
    BY <2>1, <2>2 DEF Initialized, HeapInv
  <2> QED BY <2>3, RefuseStep DEF Errors
<1>4. CASE Find(p) # {} /\ ~(size > HeapBytes)
  <2>1. PICK o \in Find(p) : ReallocInPlace(p, o, size) \/ ReallocMove(p, o, size)
    BY <1>4 DEF Realloc
  <2> QED BY <1>1, <2>1, ReallocInPlaceStep, ReallocMoveStep
<1> QED BY <1>2, <1>3, <1>4

LEMMA WriteStep ==
  ASSUME HeapInv, NEW p \in DOMAIN live, Write(p)
  PROVE  HeapInv'
<1> DEFINE d == CHOOSE c \in Unused : TRUE
           v == Promise(live[p].size, live[p].align, live[p].size, d)
           w == [live EXCEPT ![p] = v]
           f == [a \in Offsets |-> IF a \in Spanned(p, live[p].size) THEN d ELSE mem[a]]
<1>1. initialized /\ Sound(blocks, live, mem)
  BY DEF HeapInv
<1>2. /\ Tiles(blocks) /\ Owned(blocks, live) /\ Kept(live)
      /\ mem \in [Offsets -> Bytes] /\ HeadersIn(blocks, mem) /\ ContentsIn(live, mem)
  BY <1>1 DEF Sound
<1>3. live' = w /\ mem' = f /\ UNCHANGED <<initialized, blocks, errno, aborted>>
  BY DEF Write
<1>4. d \in Contents
  BY DEF Write, Unused
<1> HIDE DEF d
<1>5. live[p] \in Promises
  BY <1>2 DEF Kept
<1>6. live[p].size \in Nat /\ live[p].align \in Nat \ {0}
  BY <1>5 DEF Promises
<1>7. /\ v \in Promises /\ v.size = live[p].size /\ v.align = live[p].align /\ v.written = live[p].size /\ v.data = d
      /\ v.written <= v.size
  <2>1. v \in Promises /\ v.size = live[p].size /\ v.align = live[p].align /\ v.written = live[p].size /\ v.data = d
    BY <1>4, <1>6, PromiseIs
  <2> HIDE DEF v
  <2> QED BY <1>6, <2>1
<1> HIDE DEF v
<1>8. DOMAIN w = DOMAIN live /\ w[p] = v /\ \A q \in DOMAIN live : q # p => w[q] = live[q]
  OBVIOUS
<1>9. Owned(blocks, w) /\ Kept(w)
  <2>1. PICK o \in Used(blocks) : p = o + blocks[o].payload
    BY <1>2 DEF Owned
  <2>2. /\ blocks[o].requested = AtLeastOne(v.size) /\ blocks[o].payload + blocks[o].requested <= blocks[o].span
        /\ blocks[o].span - blocks[o].payload - blocks[o].requested < HeaderBytes + 2 * Alignment
    BY <1>2, <1>7, <2>1 DEF Owned
  <2> HIDE DEF w
  <2>3. Owned(blocks, [live EXCEPT ![p] = v]) /\ Kept([live EXCEPT ![p] = v])
    BY <1>2, <1>7, <2>1, <2>2, Renewed
  <2> QED BY <2>3 DEF w
<1> HIDE DEF w, f
<1>10. f \in [Offsets -> Bytes] /\ HeadersIn(blocks, f) /\ ContentsIn(w, f)
  <2>1. w[p].written = live[p].size /\ w[p].data = d
    BY <1>7, <1>8
  <2> USE DEF f
  <2> QED BY <1>2, <1>4, <1>8, <2>1, Filled
<1>11. Sound(blocks, w, f)
  BY <1>1, <1>9, <1>10 DEF Sound
<1> QED BY <1>1, <1>3, <1>11 DEF HeapInv

LEMMA HeapStep == HeapInv /\ [Next]_vars => HeapInv'
<1> SUFFICES ASSUME HeapInv, [Next]_vars PROVE HeapInv'
  OBVIOUS
<1> USE DEF Errors
<1>1. ASSUME NEW size \in Sizes, Malloc(size) PROVE HeapInv'
  <2>1. size \in Nat /\ Alignment \in Nat \ {0}
    BY HeapAssumption
  <2>2. Allocate(size, Alignment, "ENOMEM")
    BY <1>1 DEF Malloc
  <2> QED BY <2>1, <2>2, AllocateStep
<1>2. ASSUME NEW align \in Aligns, NEW size \in Sizes PROVE AlignedAlloc(align, size) \/ PosixMemalign(align, size) => HeapInv'
  <2> DEFINE a == IF align < Alignment THEN Alignment ELSE align
  <2>1. size \in Nat /\ a \in Nat \ {0}
    BY HeapAssumption
  <2>2. ASSUME AlignedAlloc(align, size) PROVE HeapInv'
    <3>1. CASE ~PowerTwo(align) \/ size % align # 0
      <4>1. errno' = "EINVAL" /\ UNCHANGED <<initialized, blocks, mem, live, aborted>>
        BY <2>2, <3>1 DEF AlignedAlloc
      <4> QED BY <4>1 DEF HeapInv
    <3>2. CASE ~(~PowerTwo(align) \/ size % align # 0)
      <4>1. Allocate(size, a, "ENOMEM")
        BY <2>2, <3>2 DEF AlignedAlloc
      <4> HIDE DEF a
      <4> QED BY <2>1, <4>1, AllocateStep
    <3> QED BY <3>1, <3>2
  <2>3. ASSUME PosixMemalign(align, size) PROVE HeapInv'
    <3>1. Allocate(size, a, errno)
      BY <2>3 DEF PosixMemalign
    <3>2. errno \in Errors
      BY DEF HeapInv
    <3> HIDE DEF a
    <3> QED BY <2>1, <3>1, <3>2, AllocateStep
  <2> QED BY <2>2, <2>3
<1>3. ASSUME NEW number \in Counts, NEW size \in Sizes, Calloc(number, size) PROVE HeapInv'
  <2>1. number \in Nat /\ size \in Nat
    BY HeapAssumption
  <2> QED BY <1>3, <2>1, CallocStep
<1>4. ASSUME NEW p, Free(p) PROVE HeapInv'
  BY <1>4, FreeStep
<1>5. ASSUME NEW p, NEW size \in Sizes, Realloc(p, size) PROVE HeapInv'
  <2>1. size \in Nat
    BY HeapAssumption
  <2> QED BY <1>5, <2>1, ReallocStep
<1>6. ASSUME NEW p \in DOMAIN live, Write(p) PROVE HeapInv'
  BY <1>6, WriteStep
<1>7. CASE UNCHANGED vars
  BY <1>7 DEF HeapInv, vars
<1> QED BY <1>1, <1>2, <1>3, <1>4, <1>5, <1>6, <1>7 DEF Next

\* A run of free bytes lies in one free block.
LEMMA FreeRun ==
  ASSUME NEW o \in Offsets, NEW n \in Nat \ {0}, Tiles(blocks), Sealed(blocks),
         o + n <= HeapBytes, Spanned(o, n) \subseteq FreeBytes
  PROVE  \E h \in Heads(blocks) : ~blocks[h].allocated /\ h <= o /\ o + n <= h + blocks[h].span
<1> DEFINE T == {h \in Heads(blocks) : h <= o}
<1>1. HeapBytes \in Nat /\ o \in Nat /\ o < HeapBytes /\ Heads(blocks) \subseteq 0 .. HeapBytes - 1 /\ 0 \in Heads(blocks)
  BY Parameters DEF Offsets, Tiles
<1>2. T \in SUBSET (0 .. HeapBytes) /\ 0 \in T
  BY <1>1
<1>3. PICK h \in T : \A x \in T : x <= h
  <2> HIDE DEF T
  <2> QED BY <1>1, <1>2, LargestElement
<1>4. h \in Heads(blocks) /\ h <= o /\ h \in Nat
  BY <1>1, <1>3
<1>5. /\ blocks[h].span \in Nat /\ h + blocks[h].span \in Heads(blocks) \cup {HeapBytes}
      /\ HeaderBytes + Alignment <= blocks[h].span
  BY <1>4, TilesApart
<1>6. o < h + blocks[h].span
  <2> SUFFICES ASSUME h + blocks[h].span <= o PROVE FALSE
    BY <1>1, <1>4, <1>5
  <2>1. h + blocks[h].span \in T
    BY <1>1, <1>5
  <2>2. h + blocks[h].span <= h
    BY <1>3, <2>1
  <2> QED BY <1>4, <1>5, <2>2, Parameters
<1>7. ASSUME NEW a \in Offsets, o <= a, a < o + n PROVE a \in FreeBytes
  BY <1>7 DEF Spanned
<1>8. ~blocks[h].allocated
  <2>1. o \in FreeBytes
    BY <1>1, <1>7
  <2>2. o \in Spanned(h, blocks[h].span)
    BY <1>4, <1>6 DEF Spanned
  <2> QED BY <1>4, <2>1, <2>2 DEF FreeBytes
<1>9. o + n <= h + blocks[h].span
  <2> SUFFICES ASSUME h + blocks[h].span < o + n PROVE FALSE
    BY <1>1, <1>4, <1>5
  <2> DEFINE e == h + blocks[h].span
  <2>1. e \in Nat /\ e < HeapBytes /\ o <= e /\ e \in Heads(blocks) /\ e \in Offsets
    BY <1>1, <1>4, <1>5, <1>6 DEF Offsets
  <2>2. blocks[e].allocated
    BY <1>4, <1>8, <2>1 DEF Sealed
  <2>3. e \in FreeBytes
    BY <1>7, <2>1
  <2> HIDE DEF e
  <2>4. blocks[e].span \in Nat /\ 0 < blocks[e].span
    <3>1. blocks[e].span \in Nat /\ HeaderBytes + Alignment <= blocks[e].span
      BY <2>1, TilesApart
    <3> QED BY <3>1, Parameters
  <2>5. e \in Spanned(e, blocks[e].span)
    BY <2>1, <2>4 DEF Spanned
  <2> QED BY <2>1, <2>2, <2>3, <2>5 DEF FreeBytes
<1> QED BY <1>4, <1>8, <1>9

\* Where no block fits, none is found; and of those that fit there is a first.
LEMMA FirstFitExists ==
  ASSUME NEW bs, Tiles(bs), NEW n, NEW align, NEW h \in Heads(bs), Fits(bs, h, n, align)
  PROVE  FirstFit(bs, n, align) # {}
<1> DEFINE T == {o \in Heads(bs) : Fits(bs, o, n, align)}
<1>1. Heads(bs) \subseteq Nat
  BY Parameters DEF Tiles, Offsets
<1>2. T \in SUBSET Nat /\ T # {}
  BY <1>1
<1>3. PICK o \in T : \A x \in T : o <= x
  <2> HIDE DEF T
  <2> QED BY <1>2, LeastElement
<1>4. \A p \in Heads(bs) : p < o => ~Fits(bs, p, n, align)
  BY <1>1, <1>3
<1>5. o \in FirstFit(bs, n, align)
  BY <1>3, <1>4 DEF FirstFit
<1> QED BY <1>5

LEMMA FailsFull == HeapInv => FailsOnlyWhenFull
<1> SUFFICES ASSUME HeapInv, NEW size \in Sizes, NEW align \in {Alignment} \cup {a \in Aligns : PowerTwo(a)},
                    initialized, align <= HeapBytes, ~Allocation(blocks, size, align).ok,
                    NEW o \in Offsets,
                    o + PayloadAt(o, align) + AtLeastOne(size) <= HeapBytes,
                    Spanned(o, PayloadAt(o, align) + AtLeastOne(size)) \subseteq FreeBytes
             PROVE  FALSE
  BY DEF FailsOnlyWhenFull
<1> DEFINE n == AtLeastOne(size)
           p == PayloadAt(o, align)
<1>1. size \in Nat /\ align \in Nat \ {0} /\ Tiles(blocks) /\ Sealed(blocks) /\ o \in Nat
  BY HeapAssumption DEF HeapInv, Sound, Offsets
<1>2. n \in Nat \ {0}
  BY <1>1 DEF AtLeastOne
<1>3. p \in Nat /\ HeaderBytes <= p
  BY <1>1, PayloadIs
<1>4. FirstFit(blocks, n, align) = {}
  <2>1. ~(n > HeapBytes)
    <3> HIDE DEF n, p
    <3>1. o + p + n <= HeapBytes
      BY DEF n, p
    <3> QED BY <1>1, <1>2, <1>3, <3>1, Parameters
  <2>2. ~(align > HeapBytes)
    BY <1>1, Parameters
  <2> HIDE DEF n
  <2>3. FirstFit(blocks, n, align) # {} => Allocation(blocks, size, align).ok
    BY <2>1, <2>2 DEF Allocation, n
  <2> QED BY <2>3
<1> HIDE DEF n, p
<1>5. PICK h \in Heads(blocks) : ~blocks[h].allocated /\ h <= o /\ o + (p + n) <= h + blocks[h].span
  <2>1. p + n \in Nat \ {0} /\ o + (p + n) <= HeapBytes
    <3>1. o + p + n <= HeapBytes
      BY DEF n, p
    <3> QED BY <1>1, <1>2, <1>3, <3>1
  <2>2. Spanned(o, p + n) \subseteq FreeBytes
    BY DEF n, p
  <2> QED BY <1>1, <2>1, <2>2, FreeRun
<1>6. h \in Nat /\ blocks[h].span \in Nat
  BY <1>1, TilesApart
<1>7. PayloadAt(h, align) \in Nat
  BY <1>1, <1>6, PayloadIs
<1>8. h + PayloadAt(h, align) <= o + p
  <2> DEFINE rh == RoundTo(Base + h + HeaderBytes, align)
             ro == RoundTo(Base + o + HeaderBytes, align)
  <2>1. /\ Base + h + HeaderBytes \in Nat /\ Base + o + HeaderBytes \in Nat
        /\ Base + h + HeaderBytes <= Base + o + HeaderBytes
    BY <1>1, <1>5, <1>6, Parameters
  <2>2. rh <= ro
    BY <1>1, <2>1, RoundToRises
  <2>3. rh \in Nat /\ ro \in Nat
    BY <1>1, <2>1, RoundToIs
  <2>4. PayloadAt(h, align) = rh - (Base + h) /\ p = ro - (Base + o)
    BY DEF PayloadAt, p
  <2> HIDE DEF rh, ro
  <2> QED BY <1>1, <1>6, <2>2, <2>3, <2>4, Parameters
<1>9. PayloadAt(h, align) <= blocks[h].span /\ n <= blocks[h].span - PayloadAt(h, align)
  BY <1>1, <1>2, <1>3, <1>5, <1>6, <1>7, <1>8
<1>10. Fits(blocks, h, n, align)
  BY <1>5, <1>9 DEF Fits
<1> QED BY <1>1, <1>4, <1>10, FirstFitExists

LEMMA NothingIsLost == HeapInv => NothingLost
<1> SUFFICES ASSUME HeapInv, initialized, DOMAIN live = {} PROVE Heads(blocks) = {0} /\ blocks[0].span = HeapBytes
  BY DEF NothingLost
<1>1. Tiles(blocks) /\ Sealed(blocks) /\ Owned(blocks, live)
  BY DEF HeapInv, Sound
<1>2. 0 \in Heads(blocks) /\ \A o \in Heads(blocks) : ~blocks[o].allocated
  BY <1>1 DEF Owned, Used, Tiles
<1>3. /\ blocks[0].span \in Nat /\ 0 + blocks[0].span \in Heads(blocks) \cup {HeapBytes}
      /\ \A q \in Heads(blocks) : q \in Nat /\ (0 < q => 0 + blocks[0].span <= q)
  BY <1>1, <1>2, TilesApart
<1>4. 0 + blocks[0].span \notin Heads(blocks)
  BY <1>1, <1>2 DEF Sealed
<1>5. blocks[0].span = HeapBytes
  BY <1>3, <1>4
<1>6. \A q \in Heads(blocks) : q < HeapBytes
  BY <1>1, Parameters DEF Tiles, Offsets
<1>7. \A q \in Heads(blocks) : q = 0
  BY <1>3, <1>5, <1>6
<1> QED BY <1>2, <1>5, <1>7

\* The invariant is what the calls leave behind.
LEMMA HeapInvIsWellFormed == HeapInv => WellFormed
<1> SUFFICES ASSUME HeapInv PROVE WellFormed
  OBVIOUS
<1>1. CASE ~initialized
  <2>1. Heads(blocks) = {} /\ blocks = <<>> /\ DOMAIN live = {} /\ mem \in [Offsets -> Bytes]
    BY <1>1 DEF HeapInv
  <2>2. TypeOK
    BY <2>1 DEF HeapInv, TypeOK, Bytes
  <2>3. Tiling /\ NoAdjacentFree /\ HeadersIntact /\ WasteBounded
    BY <1>1, <2>1 DEF Tiling, NoAdjacentFree, HeadersIntact, WasteBounded
  <2>4. BlocksMatchLive /\ PointersAligned /\ ContentsIntact
    BY <2>1 DEF BlocksMatchLive, PointersAligned, ContentsIntact
  <2> QED BY <2>2, <2>3, <2>4, FailsFull, NothingIsLost DEF WellFormed
<1>2. CASE initialized
  <2>1. /\ Tiles(blocks) /\ Sealed(blocks) /\ Owned(blocks, live) /\ Kept(live)
        /\ mem \in [Offsets -> Bytes] /\ HeadersIn(blocks, mem) /\ ContentsIn(live, mem)
    BY <1>2 DEF HeapInv, Sound
  <2>2. ASSUME NEW p \in DOMAIN live
        PROVE  /\ p \in Offsets /\ (Base + p) % live[p].align = 0
               /\ live[p] \in [size : Nat, align : Nat, written : Nat, data : Contents \cup {Zero, Junk}]
    <3>1. PICK o \in Used(blocks) : p = o + blocks[o].payload
      BY <2>1 DEF Owned
    <3>2. p \in Offsets
      BY <2>1, <3>1, Place
    <3>3. live[p] \in Promises /\ (Base + p) % live[p].align = 0
      BY <2>1 DEF Kept
    <3>4. live[p] \in [size : Nat, align : Nat, written : Nat, data : Contents \cup {Zero, Junk}]
      BY <3>3 DEF Promises
    <3> QED BY <3>2, <3>3, <3>4
  <2>3. TypeOK
    <3>1. Heads(blocks) \subseteq Offsets /\ \A o \in Heads(blocks) : blocks[o] \in Fields
      BY <2>1 DEF Tiles
    <3> QED BY <2>1, <2>2, <3>1 DEF HeapInv, TypeOK, Fields, Bytes
  <2>4. Tiling
    <3>1. \A o \in Heads(blocks) : blocks[o].span >= HeaderBytes + Alignment
      BY <2>1, TilesApart, Parameters
    <3> QED BY <1>2, <2>1, <3>1 DEF Tiling, Tiles
  <2>5. NoAdjacentFree
    BY <2>1 DEF NoAdjacentFree, Sealed
  <2>6. HeadersIntact /\ ContentsIntact /\ PointersAligned
    BY <2>1, <2>2 DEF HeadersIntact, ContentsIntact, PointersAligned, HeadersIn, ContentsIn
  <2>7. BlocksMatchLive
    <3>1. Used(blocks) = {h \in Heads(blocks) : blocks[h].allocated}
      BY DEF Used
    <3>2. DOMAIN live = {o + blocks[o].payload : o \in Used(blocks)}
      BY <2>1 DEF Owned
    <3>3. ASSUME NEW o \in Used(blocks)
          PROVE  HeaderBytes <= blocks[o].payload
                 /\ blocks[o].payload + live[o + blocks[o].payload].size <= blocks[o].span
      <4> DEFINE p == o + blocks[o].payload
      <4>1. /\ o \in Heads(blocks) /\ live[p].size \in Nat /\ live[p].size <= blocks[o].requested
            /\ p + blocks[o].requested <= o + blocks[o].span
        BY <2>1, Place
      <4>2. o \in Nat /\ blocks[o].span \in Nat /\ blocks[o].payload \in Nat /\ blocks[o].requested \in Nat
        BY <2>1, <4>1, TilesApart
      <4>3. HeaderBytes <= blocks[o].payload
        BY <2>1 DEF Owned
      <4> QED BY <4>1, <4>2, <4>3
    <3> QED BY <3>1, <3>2, <3>3 DEF BlocksMatchLive
  <2>8. WasteBounded
    BY <2>1 DEF WasteBounded, Owned, Used
  <2> QED BY <2>3, <2>4, <2>5, <2>6, <2>7, <2>8, FailsFull, NothingIsLost DEF WellFormed
<1> QED BY <1>1, <1>2

\* Whatever the program asks for and gives back, in whatever order: the blocks
\* tile the heap and are what it owns, no two free ones touch, no header and no
\* content is overwritten, and an allocation fails only when no free run can
\* hold it (runtime.cpp:33-138).
THEOREM HeapWellFormed == Spec => []WellFormed
<1>1. Init => HeapInv
  <2> SUFFICES ASSUME Init PROVE HeapInv
    OBVIOUS
  <2>1. DOMAIN blocks = {} /\ DOMAIN live = {}
    BY DEF Init
  <2> QED BY <2>1 DEF Init, HeapInv, Heads, Bytes
<1> QED BY <1>1, HeapStep, HeapInvIsWellFormed, PTL DEF Spec
=============================================================================
