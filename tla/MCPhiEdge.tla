----------------------------- MODULE MCPhiEdge -----------------------------
(***************************************************************************)
(* A frame of four value slots and a pool of one two-byte constant.  A     *)
(* unit of address stands for 8 bytes, so that the 16-byte alignment is 2. *)
(* All plans of up to four phis are checked: each slot is the target of at *)
(* most one phi and the phis come in any order; a source is another slot,  *)
(* a part of a larger slot (extractvalue), an outer value or a constant.   *)
(* A byte's initial contents are its own address.                          *)
(***************************************************************************)
EXTENDS PhiEdge

MCPool == 2
MCValue == -2 .. 20
MCMemories == {[a \in -2 .. Capacity - 1 |-> a]}

\* <<offset, bytes>>: two wide slots, two narrow ones, one outer value.
Wide == {1, 3}
Narrow == {5, 6}
Outer == 7

Phi(d, n, s, l) == [dst |-> d, src |-> s, bytes |-> n, local |-> l]

PhisOf(d) ==
  IF d \in Wide
  THEN {Phi(d, 2, s, TRUE) : s \in Wide \cup {Outer}} \cup {Phi(d, 2, -2, FALSE)}
  ELSE {Phi(d, 1, s, TRUE) : s \in Narrow \cup {1, 2}} \cup {Phi(d, 1, -1, FALSE)}

Distinct(o) == \A i, j \in DOMAIN o : i # j => o[i] # o[j]
Orders(n) == {o \in [1..n -> Wide \cup Narrow] : Distinct(o)}

MCPlans ==
  {<<>>}
  \cup UNION {{<<a, b>> : a \in PhisOf(o[1]), b \in PhisOf(o[2])} : o \in Orders(2)}
  \cup UNION {{<<a, b, c>> : a \in PhisOf(o[1]), b \in PhisOf(o[2]), c \in PhisOf(o[3])}
              : o \in Orders(3)}
  \cup UNION {{<<a, b, c, d>> : a \in PhisOf(o[1]), b \in PhisOf(o[2]),
                                c \in PhisOf(o[3]), d \in PhisOf(o[4])}
              : o \in {<<1, 3, 5, 6>>, <<5, 3, 6, 1>>, <<6, 1, 5, 3>>}}
=============================================================================
