--------------------------- MODULE ConsoleProofs ---------------------------
(***************************************************************************)
(* For every size of the console, any letters and prompts, every limit of  *)
(* the input and every order of calls, keys and flushes: the line being    *)
(* edited stands in the text as it was typed, nothing typed after Enter    *)
(* enters another line, and what a flush leaves on the pen layer is the    *)
(* visible text, unless a deletion moved the view.                         *)
(*                                                                         *)
(* The invariant has three parts: the ring and the viewport (TextOK), the  *)
(* line being edited (LineInv), and that every cell which is not drawn as  *)
(* it should be is listed for the next flush (PaintInv).                   *)
(***************************************************************************)
EXTENDS Console, WellOrder, SequenceTheorems, TLAPS

-----------------------------------------------------------------------------
(* The invariant.                                                          *)

\* A wide character has both its halves, in a row of cells.
WholeRow(cells) ==
  \A c \in Columns0 :
    /\ cells[c] \in Wide => c + 1 < Columns /\ cells[c + 1] = Half
    /\ cells[c] = Half => c > 0 /\ cells[c - 1] \in Wide

TextRecord ==
  [cells : [0 .. History - 1 -> [Columns0 -> Glyphs]], oldest : Nat, newest : Nat, view : Nat,
   column : 0 .. Columns, repaint : BOOLEAN, dirty : SUBSET (Nat \X Columns0)]

\* The window on the ring, the viewport in it, and whole rows.
TextOK(t) ==
  /\ t \in TextRecord
  /\ t.newest - t.oldest \in 0 .. History - 1
  /\ t.view \in t.oldest .. BottomView(t)
  /\ \A row \in t.oldest .. t.newest : WholeRow(t.cells[row % History])

\* Line inp stands in the text where it began, the program writes behind it, it
\* can still grow without losing its beginning, and nothing is to the right of it
\* on a line of its own.
Stands(t, row, col, inp, lim) ==
  LET end == col + Len(inp) IN
  /\ row \in Nat /\ t.oldest <= row /\ col \in Columns0 /\ lim <= History * Columns - col
  /\ t.newest = row + (IF end = 0 THEN 0 ELSE (end - 1) \div Columns)
  /\ t.column = IF end = 0 THEN 0 ELSE ((end - 1) % Columns) + 1
  /\ \A i \in 1 .. Len(inp) :
       /\ row + (col + i - 1) \div Columns <= t.newest
       /\ ReadCell(t, row + (col + i - 1) \div Columns, (col + i - 1) % Columns) = inp[i]
  /\ t.newest > row => \A c \in Columns0 : c >= t.column => ReadCell(t, t.newest, c) = Empty

\* The ink of the characters f takes to be drawn.
Inked(f, row, col) ==
  {<<f[<<row, c>>], c>> : c \in {d \in Columns0 : /\ f[<<row, d>>] \notin {Empty, Half}
                                                  /\ col \in d .. d + Width(f[<<row, d>>]) - 1}}
CursorInk(drawn, at, s) == IF drawn /\ at = s THEN {<<"cursor", s[2]>>} ELSE {}

Ink == SUBSET ((Glyphs \cup {"cursor"}) \X Columns0)

\* What is drawn is what the package takes to be drawn.
PaintOK(p, at) ==
  /\ p \in [painted : [Screen -> Glyphs], ink : [Screen -> Ink], cursor : BOOLEAN]
  /\ \A row \in 0 .. Rows - 1 : WholeRow([c \in Columns0 |-> p.painted[<<row, c>>]])
  /\ p.cursor => at \in Screen
  /\ \A s \in Screen : p.ink[s] = Inked(p.painted, s[1], s[2]) \cup CursorInk(p.cursor, at, s)

\* Cell s will be updated, itself or with the character it belongs to.
Covered(t, s) ==
  \/ <<t.view + s[1], s[2]>> \in t.dirty
  \/ Visible(t, s[1], s[2]) = Half /\ <<t.view + s[1], s[2] - 1>> \in t.dirty

Current(t, f) == t.repaint \/ \A s \in Screen : f[s] = Visible(t, s[1], s[2]) \/ Covered(t, s)

\* The line being edited, and the one that waits to be taken.
LineInv ==
  /\ input \in Seq(Letters) /\ limit \in Nat /\ Len(input) <= limit
  /\ accepting \in BOOLEAN /\ completed \in BOOLEAN /\ closed \in BOOLEAN /\ cursorVisible \in BOOLEAN
  /\ accepting => Stands(text, inputRow, inputColumn, input, limit)
  /\ ~(accepting /\ completed) /\ ~(accepting /\ closed)
  /\ phase \in {"main", "dispatching", "painting"}
  /\ phase = "dispatching" /\ submitted => ~accepting
  /\ queue \in Seq(Events) /\ batch \in Seq(Events)

\* What is drawn, and what is not yet.
PaintInv ==
  /\ PaintOK(Painting, cursorAt)
  /\ resetSurface => text.repaint
  /\ shifted \/ Current(text, painted)

ConsoleInv == TextOK(text) /\ LineInv /\ PaintInv

-----------------------------------------------------------------------------
LEMMA Sizes ==
  /\ Columns \in Nat /\ Columns >= 2 /\ Rows \in Nat /\ Rows >= 1
  /\ History \in Nat /\ History >= Rows /\ History >= 1
  /\ Columns0 = 0 .. Columns - 1
BY ConfigAssumption DEF Columns0

LEMMA GlyphFacts ==
  /\ Empty \in Glyphs /\ Half \in Glyphs /\ "wide" \in Glyphs /\ Wide = {"wide"}
  /\ Empty \notin Wide /\ Half \notin Wide /\ Empty # Half
  /\ Letters \subseteq Glyphs /\ Printed \subseteq Glyphs
  /\ \A g \in Letters : g \notin Wide /\ g # Empty /\ g # Half /\ g \notin {"lf", "cr", "bs"}
  /\ \A g \in Printed : g # Empty /\ g # Half
  /\ "cursor" \notin Glyphs
  /\ \A g : Width(g) \in {1, 2} /\ (Width(g) = 2 <=> g \in Wide)
BY ConfigAssumption DEF Glyphs, Empty, Half, Wide, Width

LEMMA MaxOfTwo ==
  ASSUME NEW a \in Int, NEW b \in Int
  PROVE  Max({a, b}) = IF a >= b THEN a ELSE b
<1>1. \A x \in {a, b} : x \in Int
  OBVIOUS
<1> DEFINE m == IF a >= b THEN a ELSE b
<1>2. m \in {a, b} /\ \A y \in {a, b} : m >= y
  OBVIOUS
<1>3. \A x \in {a, b} : (\A y \in {a, b} : x >= y) => x = m
  OBVIOUS
<1> HIDE DEF m
<1>4. Max({a, b}) = m
  BY <1>2, <1>3 DEF Max
<1> QED BY <1>4 DEF m

LEMMA MinOfTwo ==
  ASSUME NEW a \in Int, NEW b \in Int
  PROVE  Min({a, b}) = IF a <= b THEN a ELSE b
<1> DEFINE m == IF a <= b THEN a ELSE b
<1>2. m \in {a, b} /\ \A y \in {a, b} : m <= y
  OBVIOUS
<1>3. \A x \in {a, b} : (\A y \in {a, b} : x <= y) => x = m
  OBVIOUS
<1> HIDE DEF m
<1>4. Min({a, b}) = m
  BY <1>2, <1>3 DEF Min
<1> QED BY <1>4 DEF m

LEMMA Division ==
  ASSUME NEW n \in Nat, NEW d \in Nat, d > 0
  PROVE  /\ n \div d \in Nat /\ n % d \in 0 .. d - 1
         /\ n = d * (n \div d) + (n % d)
BY SMTT(30)

LEMMA Quotient ==
  ASSUME NEW n \in Nat, NEW d \in Nat, d > 0, NEW q \in Nat, NEW r \in 0 .. d - 1, n = d * q + r
  PROVE  n \div d = q /\ n % d = r
BY SMTT(30)

LEMMA Multiples ==
  ASSUME NEW d \in Nat, d > 0, NEW p \in Nat, NEW q \in Nat, p < q
  PROVE  d * p + d <= d * q
<1>1. d * (q - p) >= d
  <2>1. q - p \in Nat /\ q - p >= 1
    OBVIOUS
  <2> DEFINE k == q - p
  <2>2. \A j \in Nat : j >= 1 => d * j >= d
    BY SMTT(30)
  <2> QED BY <2>1, <2>2
<1>2. d * (q - p) = d * q - d * p
  BY SMTT(30)
<1>3. d * p \in Nat /\ d * q \in Nat
  BY SMTT(30)
<1> QED BY <1>1, <1>2, <1>3

\* Different rows of the window are different rows of the ring.
LEMMA RingRows ==
  ASSUME NEW a \in Nat, NEW b \in Nat, a # b, a - b < History, b - a < History
  PROVE  a % History # b % History
<1> SUFFICES ASSUME a % History = b % History PROVE FALSE
  OBVIOUS
<1> DEFINE p == a \div History
           q == b \div History
           r == a % History
<1>1. /\ p \in Nat /\ q \in Nat /\ r \in Nat /\ History \in Nat /\ History > 0
      /\ a = History * p + r /\ b = History * q + r
  BY Division, Sizes
<1>2. History * p \in Nat /\ History * q \in Nat
  BY <1>1, SMTT(30)
<1> HIDE DEF p, q, r
<1>3. CASE p = q
  BY <1>1, <1>3
<1>4. CASE p < q
  <2>1. History * p + History <= History * q
    BY <1>1, <1>4, Multiples
  <2> QED BY <1>1, <1>2, <2>1
<1>5. CASE q < p
  <2>1. History * q + History <= History * p
    BY <1>1, <1>5, Multiples
  <2> QED BY <1>1, <1>2, <2>1
<1> QED BY <1>1, <1>3, <1>4, <1>5

-----------------------------------------------------------------------------
\* Where the n-th cell from the first of a line lies, and where the program writes
\* behind it: a full row wraps only at the next character.
RowAfter(n) == IF n = 0 THEN 0 ELSE (n - 1) \div Columns
ColumnAfter(n) == IF n = 0 THEN 0 ELSE ((n - 1) % Columns) + 1

LEMMA AfterCells ==
  ASSUME NEW n \in Nat
  PROVE  /\ RowAfter(n) \in Nat /\ ColumnAfter(n) \in 0 .. Columns
         /\ RowAfter(n + 1) = n \div Columns /\ ColumnAfter(n + 1) = (n % Columns) + 1
         /\ ColumnAfter(n) < Columns => n \div Columns = RowAfter(n) /\ n % Columns = ColumnAfter(n)
         /\ ColumnAfter(n) = Columns => n \div Columns = RowAfter(n) + 1 /\ n % Columns = 0
         /\ n < Columns => RowAfter(n) = 0 /\ ColumnAfter(n) = n
<1>1. n \div Columns \in Nat /\ n % Columns \in 0 .. Columns - 1 /\ n = Columns * (n \div Columns) + (n % Columns)
  BY Division, Sizes
<1>2. RowAfter(n + 1) = n \div Columns /\ ColumnAfter(n + 1) = (n % Columns) + 1
  BY DEF RowAfter, ColumnAfter
<1>3. CASE n = 0
  <2>1. 0 \div Columns = 0 /\ 0 % Columns = 0
    <3>1. 0 = Columns * 0 + 0 /\ 0 \in 0 .. Columns - 1
      BY Sizes
    <3> QED BY <3>1, Quotient, Sizes
  <2> QED BY <1>2, <1>3, <2>1, Sizes DEF RowAfter, ColumnAfter
<1>4. CASE n # 0
  <2> DEFINE m == n - 1
             q == m \div Columns
             r == m % Columns
  <2>1. m \in Nat /\ n = m + 1
    BY <1>4
  <2>2. q \in Nat /\ r \in 0 .. Columns - 1 /\ m = Columns * q + r
    <3> HIDE DEF m
    <3> QED BY <2>1, Division, Sizes
  <2>3. RowAfter(n) = q /\ ColumnAfter(n) = r + 1
    BY <1>4 DEF RowAfter, ColumnAfter
  <2> HIDE DEF q, r
  <2>4. CASE r + 1 < Columns
    <3>1. r + 1 \in 0 .. Columns - 1 /\ n = Columns * q + (r + 1)
      <4>1. Columns * q \in Nat
        BY <2>2, Sizes, SMTT(30)
      <4> QED BY <2>1, <2>2, <2>4, <4>1, Sizes
    <3>2. n \div Columns = q /\ n % Columns = r + 1
      BY <2>2, <3>1, Quotient, Sizes
    <3>3. n < Columns => q = 0
      <4>1. SUFFICES ASSUME n < Columns, q >= 1 PROVE FALSE
        BY <2>2
      <4>2. Columns * 0 + Columns <= Columns * q
        BY <2>2, <4>1, Multiples, Sizes
      <4>3. Columns * q \in Nat
        BY <2>2, Sizes, SMTT(30)
      <4> QED BY <3>1, <4>1, <4>2, <4>3, Sizes
    <3>4. n < Columns => r + 1 = n
      BY <2>1, <2>2, <3>3, Sizes
    <3> QED BY <1>2, <2>2, <2>3, <2>4, <3>2, <3>3, <3>4, Sizes
  <2>5. CASE r + 1 = Columns
    <3>1. n = Columns * (q + 1) + 0 /\ 0 \in 0 .. Columns - 1 /\ q + 1 \in Nat
      <4>1. Columns * q \in Nat /\ Columns * (q + 1) = Columns * q + Columns
        BY <2>2, Sizes, SMTT(30)
      <4> QED BY <2>1, <2>2, <2>5, <4>1, Sizes
    <3>2. n \div Columns = q + 1 /\ n % Columns = 0
      BY <3>1, Quotient, Sizes
    <3>3. ~(n < Columns)
      <4>1. Columns * 0 + Columns <= Columns * (q + 1)
        BY <2>2, <3>1, Multiples, Sizes
      <4>2. Columns * (q + 1) \in Nat
        BY <3>1, Sizes, SMTT(30)
      <4> QED BY <3>1, <4>1, <4>2, Sizes
    <3> QED BY <1>2, <2>2, <2>3, <2>5, <3>2, <3>3, Sizes
  <2> QED BY <2>2, <2>4, <2>5, Sizes
<1> QED BY <1>3, <1>4

\* Different cells of a line are different places.
LEMMA PlacesDiffer ==
  ASSUME NEW n \in Nat, NEW m \in Nat, n # m
  PROVE  n \div Columns # m \div Columns \/ n % Columns # m % Columns
BY Division, Sizes

\* Rows go up with the cells.
LEMMA RowsRise ==
  ASSUME NEW n \in Nat, NEW m \in Nat, n <= m
  PROVE  n \div Columns <= m \div Columns
<1> DEFINE p == n \div Columns
           q == m \div Columns
<1>1. /\ p \in Nat /\ q \in Nat /\ Columns \in Nat /\ Columns > 0
      /\ n % Columns \in 0 .. Columns - 1 /\ m % Columns \in 0 .. Columns - 1
      /\ n = Columns * p + (n % Columns) /\ m = Columns * q + (m % Columns)
  BY Division, Sizes
<1>2. Columns * p \in Nat /\ Columns * q \in Nat
  BY <1>1, SMTT(30)
<1>3. SUFFICES ASSUME q < p PROVE FALSE
  BY <1>1
<1>4. Columns * q + Columns <= Columns * p
  BY <1>1, <1>3, Multiples
<1> HIDE DEF p, q
<1> QED BY <1>1, <1>2, <1>4

\* A line of the capacity fits into the ring.
LEMMA RowsOfRing ==
  ASSUME NEW n \in Nat, n < History * Columns
  PROVE  n \div Columns < History
<1> DEFINE p == n \div Columns
<1>1. p \in Nat /\ n % Columns \in 0 .. Columns - 1 /\ n = Columns * p + (n % Columns)
  BY Division, Sizes
<1>2. Columns * p \in Nat /\ Columns * History \in Nat /\ Columns * History = History * Columns
  BY <1>1, Sizes, SMTT(30)
<1>3. CASE p = History
  BY <1>1, <1>2, <1>3, Sizes
<1>4. CASE History < p
  <2>1. Columns * History + Columns <= Columns * p
    BY <1>1, <1>4, Multiples, Sizes
  <2> HIDE DEF p
  <2> QED BY <1>1, <1>2, <2>1, Sizes
<1> QED BY <1>1, <1>3, <1>4, Sizes

-----------------------------------------------------------------------------
\* One row of cells: what erasing at col and placing g there makes of it.
Cells == [Columns0 -> Glyphs]
GoneIn(f, col) ==
  IF f[col] = Empty THEN {}
  ELSE {col} \cup (IF f[col] = Half /\ col > 0 THEN {col - 1} ELSE {c \in {col + 1} : c < Columns /\ f[c] = Half})
Erased(f, col) == [c \in Columns0 |-> IF c \in GoneIn(f, col) THEN Empty ELSE f[c]]
Cleared(f, col, g) == IF g \in Wide THEN Erased(Erased(f, col), col + 1) ELSE Erased(f, col)
PlacedIn(f, col, g) ==
  [c \in Columns0 |-> IF c = col THEN g ELSE IF g \in Wide /\ c = col + 1 THEN Half ELSE Cleared(f, col, g)[c]]

LEMMA ErasedFacts ==
  ASSUME NEW f \in Cells, NEW col \in Columns0
  PROVE  /\ Erased(f, col) \in Cells /\ Erased(f, col)[col] = Empty
         /\ \A c \in Columns0 : Erased(f, col)[c] = f[c] \/ Erased(f, col)[c] = Empty
         /\ WholeRow(f) => WholeRow(Erased(f, col))
<1>1. Erased(f, col) \in Cells /\ \A c \in Columns0 : Erased(f, col)[c] = IF c \in GoneIn(f, col) THEN Empty ELSE f[c]
  BY GlyphFacts DEF Erased, Cells
<1>2. Erased(f, col)[col] = Empty
  BY <1>1 DEF GoneIn
<1>3. ASSUME WholeRow(f) PROVE WholeRow(Erased(f, col))
  <2> DEFINE e == Erased(f, col)
             G == GoneIn(f, col)
  <2> SUFFICES ASSUME NEW c \in Columns0
               PROVE  /\ e[c] \in Wide => c + 1 < Columns /\ e[c + 1] = Half
                      /\ e[c] = Half => c > 0 /\ e[c - 1] \in Wide
    BY DEF WholeRow
  <2>1. e[c] \in Wide \/ e[c] = Half => c \notin G /\ e[c] = f[c]
    BY <1>1, GlyphFacts
  <2>2. ASSUME e[c] \in Wide PROVE c + 1 < Columns /\ e[c + 1] = Half
    <3>1. c + 1 < Columns /\ f[c + 1] = Half /\ c + 1 \in Columns0
      BY <1>3, <2>1, <2>2, Sizes DEF WholeRow
    <3>2. c + 1 \notin G
      <4>1. SUFFICES ASSUME c + 1 \in G PROVE FALSE
        OBVIOUS
      <4>2. f[col] # Empty /\ c \notin G /\ c # col
        BY <2>1, <2>2, <4>1 DEF GoneIn
      <4>3. CASE c + 1 = col
        <5>1. c = col - 1 /\ f[col] = Half /\ col > 0
          BY <3>1, <4>3, Sizes
        <5> QED BY <4>2, <5>1 DEF GoneIn
      <4>4. CASE c + 1 = col - 1
        <5>1. f[col] = Half
          BY <4>1, <4>2, <4>4, Sizes DEF GoneIn
        <5>2. f[col - 1] \in Wide
          BY <1>3, <5>1 DEF WholeRow
        <5> QED BY <3>1, <4>4, <5>2, GlyphFacts
      <4>5. CASE c + 1 = col + 1
        BY <4>2, <4>5, Sizes
      <4> QED BY <4>1, <4>2, <4>3, <4>4, <4>5, Sizes DEF GoneIn
    <3> QED BY <1>1, <3>1, <3>2
  <2>3. ASSUME e[c] = Half PROVE c > 0 /\ e[c - 1] \in Wide
    <3>1. c > 0 /\ f[c - 1] \in Wide /\ c - 1 \in Columns0 /\ f[c] = Half
      BY <1>3, <2>1, <2>3, Sizes DEF WholeRow
    <3>2. c - 1 \notin G
      <4>1. SUFFICES ASSUME c - 1 \in G PROVE FALSE
        OBVIOUS
      <4>2. f[col] # Empty /\ c \notin G /\ c # col
        BY <2>1, <2>3, <4>1 DEF GoneIn
      <4>3. CASE c - 1 = col
        <5>1. c = col + 1 /\ f[col] # Half /\ c < Columns
          BY <3>1, <4>3, GlyphFacts, Sizes
        <5> QED BY <3>1, <4>2, <5>1 DEF GoneIn
      <4>4. CASE c - 1 = col + 1
        <5>1. f[col + 1] = Half
          BY <4>1, <4>2, <4>4, Sizes DEF GoneIn
        <5> QED BY <3>1, <4>4, <5>1, GlyphFacts
      <4>5. CASE c - 1 = col - 1
        BY <4>2, <4>5, Sizes
      <4> QED BY <4>1, <4>2, <4>3, <4>4, <4>5, Sizes DEF GoneIn
    <3> QED BY <1>1, <3>1, <3>2
  <2> QED BY <2>2, <2>3
<1> QED BY <1>1, <1>2, <1>3

\* Erasing spares every narrow character elsewhere.
LEMMA ErasedSpares ==
  ASSUME NEW f \in Cells, WholeRow(f), NEW col \in Columns0, NEW c \in Columns0, c # col, f[c] \notin Wide, f[c] # Half
  PROVE  Erased(f, col)[c] = f[c]
<1>1. SUFFICES ASSUME c \in GoneIn(f, col) PROVE FALSE
  BY DEF Erased
<1>2. (c = col - 1 /\ f[col] = Half) \/ (c = col + 1 /\ f[c] = Half)
  BY <1>1 DEF GoneIn
<1>3. f[col] = Half => f[col - 1] \in Wide
  BY DEF WholeRow
<1> QED BY <1>2, <1>3

LEMMA PlacedFacts ==
  ASSUME NEW f \in Cells, NEW col \in Columns0, NEW g \in Glyphs, g # Empty, g # Half, col + Width(g) <= Columns
  PROVE  /\ PlacedIn(f, col, g) \in Cells /\ PlacedIn(f, col, g)[col] = g
         /\ g \in Wide => col + 1 \in Columns0 /\ PlacedIn(f, col, g)[col + 1] = Half
         /\ WholeRow(f) => WholeRow(PlacedIn(f, col, g))
<1> DEFINE P == PlacedIn(f, col, g)
           e == Cleared(f, col, g)
<1>1. g \in Wide => col + 1 \in Columns0
  BY GlyphFacts, Sizes
<1>2. e \in Cells /\ e[col] = Empty /\ (g \in Wide => e[col + 1] = Empty) /\ (WholeRow(f) => WholeRow(e))
  <2> DEFINE e1 == Erased(f, col)
  <2>1. e1 \in Cells /\ e1[col] = Empty /\ (WholeRow(f) => WholeRow(e1))
    BY ErasedFacts
  <2>2. CASE g \notin Wide
    BY <2>1, <2>2 DEF Cleared
  <2>3. CASE g \in Wide
    <3> DEFINE e2 == Erased(e1, col + 1)
    <3>1. /\ e2 \in Cells /\ e2[col + 1] = Empty /\ (WholeRow(e1) => WholeRow(e2))
          /\ e2[col] = e1[col] \/ e2[col] = Empty
      <4> HIDE DEF e1
      <4> QED BY <1>1, <2>1, <2>3, ErasedFacts
    <3>2. e = e2
      BY <2>3 DEF Cleared
    <3> HIDE DEF e, e1, e2
    <3> QED BY <2>1, <3>1, <3>2
  <2> QED BY <2>2, <2>3
<1>3. P \in Cells
  BY <1>2, GlyphFacts DEF PlacedIn, Cells
<1>4. \A c \in Columns0 : P[c] = IF c = col THEN g ELSE IF g \in Wide /\ c = col + 1 THEN Half ELSE e[c]
  BY DEF PlacedIn
<1>5. ASSUME WholeRow(f) PROVE WholeRow(P)
  <2> HIDE DEF P, e
  <2>1. WholeRow(e)
    BY <1>2, <1>5
  <2> SUFFICES ASSUME NEW c \in Columns0
               PROVE  /\ P[c] \in Wide => c + 1 < Columns /\ P[c + 1] = Half
                      /\ P[c] = Half => c > 0 /\ P[c - 1] \in Wide
    BY DEF WholeRow
  <2>2. CASE c = col
    BY <1>1, <1>4, <2>2, Sizes
  <2>3. CASE g \in Wide /\ c = col + 1
    BY <1>4, <2>3, GlyphFacts, Sizes
  <2>4. CASE c # col /\ ~(g \in Wide /\ c = col + 1)
    <3>1. P[c] = e[c]
      BY <1>4, <2>4
    <3>2. ASSUME P[c] \in Wide PROVE c + 1 < Columns /\ P[c + 1] = Half
      <4>1. c + 1 < Columns /\ c + 1 \in Columns0 /\ e[c + 1] = Half
        BY <2>1, <3>1, <3>2, Sizes DEF WholeRow
      <4>2. c + 1 # col /\ ~(g \in Wide /\ c + 1 = col + 1)
        BY <1>2, <2>4, <4>1, GlyphFacts, Sizes
      <4> QED BY <1>4, <4>1, <4>2
    <3>3. ASSUME P[c] = Half PROVE c > 0 /\ P[c - 1] \in Wide
      <4>1. c > 0 /\ e[c - 1] \in Wide
        BY <2>1, <3>1, <3>3 DEF WholeRow
      <4>3. c - 1 \in Columns0
        BY <4>1, Sizes
      <4>2. c - 1 # col /\ ~(g \in Wide /\ c - 1 = col + 1)
        BY <1>2, <2>4, <4>1, GlyphFacts, Sizes
      <4> QED BY <1>4, <4>1, <4>2, <4>3
    <3> QED BY <3>2, <3>3
  <2> QED BY <2>2, <2>3, <2>4
<1>6. P[col] = g /\ (g \in Wide => P[col + 1] = Half)
  <2> HIDE DEF P
  <2>1. P[col] = g
    BY <1>4
  <2>2. ASSUME g \in Wide PROVE P[col + 1] = Half
    <3>1. col + 1 # col /\ col + 1 \in Columns0
      BY <1>1, <2>2, Sizes
    <3> QED BY <1>4, <2>2, <3>1
  <2> QED BY <2>1, <2>2
<1> QED BY <1>1, <1>3, <1>5, <1>6

-----------------------------------------------------------------------------
\* The operations on the text, field by field.
RowOf(t, row) == t.cells[row % History]
SameButCells(t, u) ==
  /\ u.oldest = t.oldest /\ u.newest = t.newest /\ u.view = t.view /\ u.repaint = t.repaint

\* Cells that must be drawn again are listed, or all will be drawn.
Lists(t, u, cells) == t.repaint \/ u.dirty = t.dirty \cup cells

LEMMA RingIndex ==
  ASSUME NEW row \in Nat
  PROVE  row % History \in 0 .. History - 1
BY Division, Sizes

LEMMA DirtyFacts ==
  ASSUME NEW t \in TextRecord, NEW cells \in SUBSET (Nat \X Columns0)
  PROVE  /\ Dirty(t, cells) \in TextRecord /\ SameButCells(t, Dirty(t, cells)) /\ Dirty(t, cells).column = t.column
         /\ Dirty(t, cells).cells = t.cells /\ Lists(t, Dirty(t, cells), cells)
BY DEF TextRecord, Dirty, SameButCells, Lists

WithCell(cells, r, col, g) == [cells EXCEPT ![r] = [cells[r] EXCEPT ![col] = g]]

LEMMA SetCellFacts ==
  ASSUME NEW t \in TextRecord, NEW row \in Nat, NEW col \in Columns0, NEW g \in Glyphs
  PROVE  /\ SetCell(t, row, col, g) \in TextRecord /\ SameButCells(t, SetCell(t, row, col, g))
         /\ SetCell(t, row, col, g).column = t.column /\ SetCell(t, row, col, g).dirty = t.dirty
         /\ SetCell(t, row, col, g).cells = WithCell(t.cells, row % History, col, g)
BY RingIndex DEF TextRecord, SetCell, SameButCells, WithCell

LEMMA EraseAtFacts ==
  ASSUME NEW t \in TextRecord, NEW row \in Nat, NEW col \in Columns0
  PROVE  /\ EraseAt(t, row, col) \in TextRecord /\ SameButCells(t, EraseAt(t, row, col))
         /\ EraseAt(t, row, col).column = t.column
         /\ EraseAt(t, row, col).cells = [t.cells EXCEPT ![row % History] = Erased(t.cells[row % History], col)]
         /\ Lists(t, EraseAt(t, row, col), {row} \X GoneIn(t.cells[row % History], col))
<1> DEFINE r == row % History
           f == t.cells[r]
           gone == {col} \cup OtherHalf(t, row, col)
<1>1. r \in 0 .. History - 1 /\ f \in Cells
  BY RingIndex DEF TextRecord, Cells
<1>2. CASE f[col] = Empty
  <2>1. EraseAt(t, row, col) = t /\ GoneIn(f, col) = {}
    BY <1>2 DEF EraseAt, ReadCell, GoneIn
  <2>2. Erased(f, col) = f
    BY <1>1, <2>1 DEF Erased, Cells
  <2>3. [t.cells EXCEPT ![r] = f] = t.cells
    BY <1>1 DEF TextRecord
  <2> QED BY <2>1, <2>2, <2>3 DEF SameButCells, Lists
<1>3. CASE f[col] # Empty
  <2>1. gone = GoneIn(f, col)
    <3>1. OtherHalf(t, row, col) = IF f[col] = Half /\ col > 0 THEN {col - 1} ELSE {c \in {col + 1} : c < Columns /\ f[c] = Half}
      BY DEF OtherHalf, ReadCell
    <3> QED BY <1>3, <3>1 DEF GoneIn
  <2>2. GoneIn(f, col) \subseteq Columns0
    BY Sizes DEF GoneIn
  <2> DEFINE d == Dirty(t, {row} \X GoneIn(f, col))
  <2>3. {row} \X GoneIn(f, col) \in SUBSET (Nat \X Columns0)
    BY <2>2
  <2>4. d \in TextRecord /\ SameButCells(t, d) /\ d.column = t.column /\ d.cells = t.cells /\ Lists(t, d, {row} \X GoneIn(f, col))
    BY <2>3, DirtyFacts
  <2>5. EraseAt(t, row, col) = [d EXCEPT !.cells[r] = [c \in Columns0 |-> IF c \in GoneIn(f, col) THEN Empty ELSE @[c]]]
    BY <1>3, <2>1 DEF EraseAt, ReadCell
  <2>6. [c \in Columns0 |-> IF c \in GoneIn(f, col) THEN Empty ELSE d.cells[r][c]] = Erased(f, col)
    BY <2>4 DEF Erased
  <2> HIDE DEF d
  <2>7. EraseAt(t, row, col) = [d EXCEPT !.cells = [d.cells EXCEPT ![r] = Erased(f, col)]]
    BY <2>5, <2>6
  <2>8. Erased(f, col) \in [Columns0 -> Glyphs]
    BY <1>1, ErasedFacts DEF Cells
  <2> HIDE DEF r, f
  <2>9. [t.cells EXCEPT ![r] = Erased(f, col)] \in [0 .. History - 1 -> [Columns0 -> Glyphs]]
    BY <1>1, <2>8 DEF TextRecord
  <2> DEFINE u == [d EXCEPT !.cells = [d.cells EXCEPT ![r] = Erased(f, col)]]
  <2>10. u \in TextRecord
    BY <2>4, <2>9 DEF TextRecord
  <2>11. /\ u.cells = [d.cells EXCEPT ![r] = Erased(f, col)] /\ u.oldest = d.oldest /\ u.newest = d.newest
         /\ u.view = d.view /\ u.repaint = d.repaint /\ u.column = d.column /\ u.dirty = d.dirty
    BY <2>4 DEF TextRecord
  <2> HIDE DEF u
  <2>12. EraseAt(t, row, col) = u
    BY <2>7 DEF u
  <2>13. SameButCells(t, u) /\ u.column = t.column /\ u.cells = [t.cells EXCEPT ![r] = Erased(f, col)]
    BY <2>4, <2>11 DEF SameButCells
  <2>14. Lists(t, u, {row} \X GoneIn(f, col))
    BY <2>4, <2>11 DEF Lists
  <2> QED BY <2>10, <2>12, <2>13, <2>14 DEF r, f
<1> QED BY <1>2, <1>3

-----------------------------------------------------------------------------
\* What a step of the text tells the painter: the viewport stays and every cell
\* that looks different is listed, or all is drawn again.
Tells(t, u) ==
  \/ u.repaint
  \/ /\ ~t.repaint /\ u.view = t.view /\ t.dirty \subseteq u.dirty
     /\ \A s \in Screen : Visible(u, s[1], s[2]) = Visible(t, s[1], s[2]) \/ Covered(u, s)

LEMMA TellsCurrent ==
  ASSUME NEW t, NEW u, NEW f, Tells(t, u), Current(t, f)
  PROVE  Current(u, f)
<1> SUFFICES ASSUME ~u.repaint, NEW s \in Screen, f[s] # Visible(u, s[1], s[2]) PROVE Covered(u, s)
  BY DEF Current
<1>1. ~t.repaint /\ u.view = t.view /\ t.dirty \subseteq u.dirty
  BY DEF Tells
<1>2. Visible(u, s[1], s[2]) = Visible(t, s[1], s[2]) \/ Covered(u, s)
  BY DEF Tells
<1>3. f[s] = Visible(t, s[1], s[2]) \/ Covered(t, s)
  BY <1>1 DEF Current
<1> QED BY <1>1, <1>2, <1>3 DEF Covered

LEMMA TellsOn ==
  ASSUME NEW t, NEW u, NEW w, Tells(t, u), Tells(u, w), t.repaint => u.repaint, u.repaint => w.repaint
  PROVE  Tells(t, w)
<1>1. CASE w.repaint
  BY <1>1 DEF Tells
<1>2. CASE ~w.repaint
  <2>1. ~u.repaint /\ ~t.repaint
    BY <1>2
  <2>2. /\ u.view = t.view /\ t.dirty \subseteq u.dirty
        /\ \A s \in Screen : Visible(u, s[1], s[2]) = Visible(t, s[1], s[2]) \/ Covered(u, s)
    BY <2>1 DEF Tells
  <2>3. /\ w.view = u.view /\ u.dirty \subseteq w.dirty
        /\ \A s \in Screen : Visible(w, s[1], s[2]) = Visible(u, s[1], s[2]) \/ Covered(w, s)
    BY <1>2 DEF Tells
  <2>4. ASSUME NEW s \in Screen, Visible(w, s[1], s[2]) # Visible(t, s[1], s[2]) PROVE Covered(w, s)
    <3>1. SUFFICES ASSUME ~Covered(w, s) PROVE FALSE
      OBVIOUS
    <3>2. Visible(w, s[1], s[2]) = Visible(u, s[1], s[2])
      BY <2>3, <3>1
    <3>3. Covered(u, s)
      BY <2>2, <2>4, <3>2
    <3> QED BY <2>3, <3>1, <3>2, <3>3 DEF Covered
  <2> QED BY <2>1, <2>2, <2>3, <2>4 DEF Tells
<1> QED BY <1>1, <1>2

LEMMA TellsNothing ==
  ASSUME NEW t, t.repaint \in BOOLEAN
  PROVE  Tells(t, t)
BY DEF Tells

LEMMA BottomFacts ==
  ASSUME NEW t, t.newest \in Nat, t.oldest \in Nat, t.oldest <= t.newest
  PROVE  /\ BottomView(t) \in Nat /\ t.oldest <= BottomView(t) /\ BottomView(t) <= t.newest
         /\ BottomView(t) = IF t.newest - Rows + 1 >= t.oldest THEN t.newest - Rows + 1 ELSE t.oldest
<1>1. t.newest - Rows + 1 \in Int /\ t.oldest \in Int
  BY Sizes
<1>2. BottomView(t) = IF t.newest - Rows + 1 >= t.oldest THEN t.newest - Rows + 1 ELSE t.oldest
  BY <1>1, MaxOfTwo DEF BottomView
<1> QED BY <1>2, Sizes

\* The view follows the end of the text.
LEMMA FollowFacts ==
  ASSUME NEW t, TextOK(t)
  PROVE  /\ TextOK(Follow(t)) /\ Tells(t, Follow(t)) /\ (t.repaint => Follow(t).repaint)
         /\ Follow(t).cells = t.cells /\ Follow(t).oldest = t.oldest /\ Follow(t).newest = t.newest
         /\ Follow(t).column = t.column /\ Follow(t).view = BottomView(t)
<1> DEFINE u == Follow(t)
<1>1. t \in TextRecord /\ t.newest - t.oldest \in 0 .. History - 1
  BY DEF TextOK
<1>2. t.newest \in Nat /\ t.oldest \in Nat /\ t.oldest <= t.newest
  BY <1>1 DEF TextRecord
<1>3. BottomView(t) \in Nat /\ t.oldest <= BottomView(t) /\ BottomView(t) <= t.newest
  BY <1>2, BottomFacts
<1>4. /\ u \in TextRecord /\ u.cells = t.cells /\ u.oldest = t.oldest /\ u.newest = t.newest
      /\ u.column = t.column /\ u.view = BottomView(t) /\ u.dirty = t.dirty
      /\ u.repaint = (t.repaint \/ t.view # BottomView(t))
  BY <1>1, <1>3 DEF TextRecord, Follow
<1> HIDE DEF u
<1>5. BottomView(u) = BottomView(t)
  BY <1>4 DEF BottomView
<1>6. TextOK(u)
  BY <1>1, <1>2, <1>3, <1>4, <1>5 DEF TextOK
<1>7. Tells(t, u)
  <2>1. SUFFICES ASSUME ~u.repaint PROVE Tells(t, u)
    BY DEF Tells
  <2>2. u.view = t.view /\ ~t.repaint
    BY <1>4, <2>1
  <2>3. \A s \in Screen : Visible(u, s[1], s[2]) = Visible(t, s[1], s[2])
    BY <1>4, <2>2 DEF Visible, ReadCell
  <2> QED BY <1>4, <2>2, <2>3 DEF Tells
<1> QED BY <1>4, <1>6, <1>7 DEF u

NoCells == [c \in Columns0 |-> Empty]

LEMMA NoCellsWhole == NoCells \in Cells /\ WholeRow(NoCells)
BY GlyphFacts, Sizes DEF NoCells, Cells, WholeRow

OldestAfter(a, b) == IF b + 1 - a >= History THEN a + 1 ELSE a

LEMMA OldestAfterFacts ==
  ASSUME NEW a \in Nat, NEW b \in Nat, a <= b, b - a <= History - 1
  PROVE  /\ OldestAfter(a, b) \in Nat /\ a <= OldestAfter(a, b) /\ OldestAfter(a, b) <= b + 1
         /\ (b + 1) - OldestAfter(a, b) \in 0 .. History - 1 /\ OldestAfter(a, b) <= a + 1
<1>1. History \in Nat /\ History >= 1
  BY Sizes
<1> QED BY <1>1 DEF OldestAfter

\* The last rows of a larger text are not higher up.
LEMMA BottomRises ==
  ASSUME NEW t, NEW u, t.newest \in Nat, t.oldest \in Nat, t.oldest <= t.newest,
         u.newest \in Nat, u.oldest \in Nat, u.oldest <= u.newest,
         t.oldest <= u.oldest, t.newest <= u.newest
  PROVE  BottomView(t) <= BottomView(u)
<1> DEFINE a == t.oldest
           b == t.newest
           c == u.oldest
           d == u.newest
           x == BottomView(t)
           y == BottomView(u)
<1>1. /\ a \in Nat /\ b \in Nat /\ c \in Nat /\ d \in Nat /\ a <= b /\ c <= d /\ a <= c /\ b <= d
      /\ Rows \in Nat
  BY Sizes
<1>2. x = (IF b - Rows + 1 >= a THEN b - Rows + 1 ELSE a) /\ y = (IF d - Rows + 1 >= c THEN d - Rows + 1 ELSE c)
  BY BottomFacts
<1> HIDE DEF a, b, c, d, x, y
<1>3. x <= y
  BY <1>1, <1>2
<1> QED BY <1>3 DEF x, y

LEMMA NextLineFacts ==
  ASSUME NEW t, TextOK(t)
  PROVE  /\ TextOK(NextLine(t)) /\ Tells(t, NextLine(t)) /\ (t.repaint => NextLine(t).repaint)
         /\ \A row \in NextLine(t).oldest .. t.newest : NextLine(t).cells[row % History] = t.cells[row % History]
         /\ NextLine(t).cells[(t.newest + 1) % History] = NoCells
         /\ NextLine(t).oldest = OldestAfter(t.oldest, t.newest)
         /\ NextLine(t).newest = t.newest + 1 /\ NextLine(t).column = 0
<1> DEFINE u == NextLine(t)
           old == OldestAfter(t.oldest, t.newest)
           cs == [t.cells EXCEPT ![(t.newest + 1) % History] = NoCells]
           m == [t EXCEPT !.newest = @ + 1, !.oldest = old, !.column = 0, !.cells = cs]
           v == IF t.view = BottomView(t) THEN BottomView(m) ELSE Max({t.view, m.oldest})
<1>1. /\ t \in TextRecord /\ t.newest - t.oldest \in 0 .. History - 1 /\ t.view \in t.oldest .. BottomView(t)
      /\ \A row \in t.oldest .. t.newest : WholeRow(t.cells[row % History])
  BY DEF TextOK
<1>2. /\ t.newest \in Nat /\ t.oldest \in Nat /\ t.oldest <= t.newest /\ t.view \in Nat
      /\ t.cells \in [0 .. History - 1 -> [Columns0 -> Glyphs]] /\ t.repaint \in BOOLEAN
  BY <1>1 DEF TextRecord
<1>3. old \in Nat /\ t.oldest <= old /\ old <= t.newest + 1 /\ (t.newest + 1) - old \in 0 .. History - 1 /\ t.newest + 1 \in Nat
  <2>1. t.newest - t.oldest <= History - 1
    BY <1>1, <1>2, Sizes
  <2>2. /\ old \in Nat /\ t.oldest <= old /\ old <= t.newest + 1
        /\ (t.newest + 1) - old \in 0 .. History - 1
    <3> HIDE DEF m, cs, v
    <3> QED BY <1>2, <2>1, OldestAfterFacts, Zenon
  <2> QED BY <1>2, <2>2
<1>4. (t.newest + 1) % History \in 0 .. History - 1
  BY <1>3, RingIndex
<1>5. cs \in [0 .. History - 1 -> [Columns0 -> Glyphs]]
  BY <1>2, <1>4, NoCellsWhole DEF Cells
<1>6. /\ m \in TextRecord /\ m.newest = t.newest + 1 /\ m.oldest = old /\ m.column = 0 /\ m.cells = cs
      /\ m.view = t.view /\ m.repaint = t.repaint /\ m.dirty = t.dirty
  <2> HIDE DEF old, cs
  <2>1. t.newest + 1 \in Nat /\ 0 \in 0 .. Columns
    BY <1>2, Sizes
  <2> QED BY <1>1, <1>3, <1>5, <2>1 DEF TextRecord
<1>7. u = [m EXCEPT !.view = v, !.repaint = @ \/ v # t.view]
  BY DEF NextLine, NoCells, OldestAfter
<1> HIDE DEF m, cs, old
<1>8. /\ BottomView(m) \in Nat /\ old <= BottomView(m) /\ BottomView(m) <= t.newest + 1
      /\ BottomView(t) \in Nat /\ BottomView(t) <= t.newest /\ BottomView(t) <= BottomView(m)
  <2>1. m.newest \in Nat /\ m.oldest \in Nat /\ m.oldest <= m.newest
    BY <1>2, <1>3, <1>6
  <2>2. /\ BottomView(m) \in Nat /\ m.oldest <= BottomView(m) /\ BottomView(m) <= m.newest
        /\ BottomView(m) = IF m.newest - Rows + 1 >= m.oldest THEN m.newest - Rows + 1 ELSE m.oldest
    BY <2>1, BottomFacts
  <2>3. /\ BottomView(t) \in Nat /\ BottomView(t) <= t.newest
        /\ BottomView(t) = IF t.newest - Rows + 1 >= t.oldest THEN t.newest - Rows + 1 ELSE t.oldest
    BY <1>2, BottomFacts
  <2>4. BottomView(t) <= BottomView(m)
    <3>1. t.oldest <= m.oldest /\ t.newest <= m.newest
      BY <1>2, <1>3, <1>6
    <3> QED BY <1>2, <2>1, <3>1, BottomRises
  <2> QED BY <1>6, <2>2, <2>3, <2>4
<1>9. v \in Nat /\ old <= v /\ v <= BottomView(m)
  <2>1. Max({t.view, m.oldest}) = IF t.view >= old THEN t.view ELSE old
    BY <1>2, <1>3, <1>6, MaxOfTwo
  <2> DEFINE b == BottomView(m)
             c == BottomView(t)
             w == t.view
             x == Max({t.view, m.oldest})
  <2>2. w \in Nat /\ old \in Nat /\ b \in Nat /\ c \in Nat /\ w <= c /\ c <= b /\ old <= b
    <3>1. t.view <= BottomView(t)
      BY <1>1, <1>2, <1>8
    <3> QED BY <1>2, <1>3, <1>8, <3>1
  <2>3. x = IF w >= old THEN w ELSE old
    BY <2>1
  <2>4. v = IF w = c THEN b ELSE x
    OBVIOUS
  <2> HIDE DEF b, c, w, x, v, old
  <2>5. v \in Nat /\ old <= v /\ v <= b
    BY <2>2, <2>3, <2>4
  <2> QED BY <2>5 DEF b
<1>10. /\ u \in TextRecord /\ u.newest = t.newest + 1 /\ u.oldest = old /\ u.column = 0 /\ u.cells = cs
       /\ u.view = v /\ u.repaint = (t.repaint \/ v # t.view) /\ u.dirty = t.dirty
  <2> HIDE DEF v
  <2> QED BY <1>2, <1>6, <1>7, <1>9 DEF TextRecord
<1> HIDE DEF u, v
<1>11. BottomView(u) = BottomView(m)
  BY <1>6, <1>10 DEF BottomView
<1>12. \A row \in old .. t.newest : cs[row % History] = t.cells[row % History]
  <2> SUFFICES ASSUME NEW row \in old .. t.newest PROVE cs[row % History] = t.cells[row % History]
    OBVIOUS
  <2> DEFINE n == t.newest
  <2>4. n \in Nat /\ (n + 1) - old \in 0 .. History - 1 /\ row \in old .. n /\ old \in Nat /\ History \in Nat
    BY <1>2, <1>3, Sizes
  <2>1. row \in Nat /\ t.newest + 1 \in Nat /\ row # t.newest + 1 /\ row - (t.newest + 1) < History /\ (t.newest + 1) - row < History
    <3> HIDE DEF n
    <3>1. row \in Nat /\ n + 1 \in Nat /\ row # n + 1 /\ row - (n + 1) < History /\ (n + 1) - row < History
      BY <2>4
    <3> QED BY <3>1 DEF n
  <2>2. row % History # (t.newest + 1) % History
    <3> DEFINE k == t.newest + 1
    <3>1. row \in Nat /\ k \in Nat /\ row # k /\ row - k < History /\ k - row < History
      BY <2>1
    <3> HIDE DEF k
    <3>2. row % History # k % History
      BY <3>1, RingRows
    <3> QED BY <3>2 DEF k
  <2>3. row % History \in 0 .. History - 1
    BY <2>1, RingIndex
  <2> QED BY <1>2, <2>2, <2>3 DEF cs
<1>13. cs[(t.newest + 1) % History] = NoCells
  BY <1>2, <1>4 DEF cs
<1>14. TextOK(u)
  <2>1. ASSUME NEW row \in u.oldest .. u.newest PROVE WholeRow(u.cells[row % History])
    <3>1. row \in old .. t.newest \/ row = t.newest + 1
      BY <1>2, <1>3, <1>10, <2>1
    <3>2. CASE row \in old .. t.newest
      <4>1. row \in t.oldest .. t.newest
        BY <1>2, <1>3, <3>2
      <4> QED BY <1>1, <1>10, <1>12, <3>2, <4>1
    <3>3. CASE row = t.newest + 1
      BY <1>10, <1>13, <3>3, NoCellsWhole
    <3> QED BY <3>1, <3>2, <3>3
  <2>2. u.newest - u.oldest \in 0 .. History - 1 /\ u.view \in u.oldest .. BottomView(u)
    <3>1. u.newest - u.oldest = (t.newest + 1) - old
      <4>1. u.newest = t.newest + 1 /\ u.oldest = old
        BY <1>10
      <4> QED BY <4>1
    <3>2. v \in old .. BottomView(m)
      BY <1>3, <1>8, <1>9
    <3> QED BY <1>3, <1>10, <1>11, <3>1, <3>2
  <2> QED BY <1>10, <2>1, <2>2 DEF TextOK
<1>15. Tells(t, u)
  <2>1. SUFFICES ASSUME ~u.repaint PROVE Tells(t, u)
    BY DEF Tells
  <2>2. v = t.view /\ ~t.repaint
    BY <1>10, <2>1
  <2>3. ASSUME NEW s \in Screen PROVE Visible(u, s[1], s[2]) = Visible(t, s[1], s[2])
    <3> DEFINE row == t.view + s[1]
    <3>7. s[1] \in 0 .. Rows - 1 /\ s[2] \in Columns0
      BY DEF Screen
    <3> DEFINE y == t.view
               z == s[1]
               o == t.oldest
    <3>8. y \in Nat /\ z \in Nat /\ o \in Nat /\ old \in Nat /\ o <= old /\ old <= y
      BY <1>2, <1>3, <1>9, <2>2, <3>7, Sizes
    <3>1. s[1] \in Nat /\ s[2] \in Columns0 /\ row \in Nat /\ row >= old /\ row >= t.oldest
      <4> HIDE DEF y, z, o
      <4>1. y + z \in Nat /\ y + z >= old /\ y + z >= o
        BY <3>8
      <4> QED BY <3>7, <3>8, <4>1 DEF y, z, o
    <3>2. Visible(u, s[1], s[2]) = IF row \in old .. t.newest + 1 THEN cs[row % History][s[2]] ELSE Empty
      BY <1>10, <2>2 DEF Visible, ReadCell
    <3>3. Visible(t, s[1], s[2]) = IF row \in t.oldest .. t.newest THEN t.cells[row % History][s[2]] ELSE Empty
      BY DEF Visible, ReadCell
    <3> HIDE DEF row
    <3>4. CASE row <= t.newest
      <4>1. row \in old .. t.newest /\ row \in old .. t.newest + 1 /\ row \in t.oldest .. t.newest
        BY <1>2, <1>3, <3>1, <3>4
      <4> QED BY <1>12, <3>2, <3>3, <4>1
    <3>5. CASE row = t.newest + 1
      <4>1. row \in old .. t.newest + 1 /\ row \notin t.oldest .. t.newest
        BY <1>2, <1>3, <3>1, <3>5
      <4>2. cs[row % History][s[2]] = Empty
        BY <1>13, <3>1, <3>5 DEF NoCells
      <4> QED BY <3>2, <3>3, <4>1, <4>2
    <3>6. CASE row > t.newest + 1
      <4>1. row \notin old .. t.newest + 1 /\ row \notin t.oldest .. t.newest
        BY <1>2, <1>3, <3>1, <3>6
      <4> QED BY <3>2, <3>3, <4>1
    <3> QED BY <1>2, <3>1, <3>4, <3>5, <3>6
  <2> QED BY <1>10, <2>2, <2>3 DEF Tells
<1> QED BY <1>10, <1>12, <1>13, <1>14, <1>15 DEF u, old

-----------------------------------------------------------------------------
\* A row of the window is given other cells; it is the only row that changes.
RowChanged(t, u, row, f) ==
  /\ u \in TextRecord /\ SameButCells(t, u)
  /\ u.cells = [t.cells EXCEPT ![row % History] = f]

LEMMA RowChangedFacts ==
  ASSUME NEW t, TextOK(t), NEW u, NEW row \in t.oldest .. t.newest, NEW f \in Cells, RowChanged(t, u, row, f)
  PROVE  /\ WholeRow(f) => TextOK(u)
         /\ u.cells[row % History] = f
         /\ \A r \in t.oldest .. t.newest : r # row => u.cells[r % History] = t.cells[r % History]
<1>1. /\ t \in TextRecord /\ t.newest - t.oldest \in 0 .. History - 1 /\ t.view \in t.oldest .. BottomView(t)
      /\ \A r \in t.oldest .. t.newest : WholeRow(t.cells[r % History])
  BY DEF TextOK
<1>2. /\ t.newest \in Nat /\ t.oldest \in Nat /\ t.oldest <= t.newest
      /\ t.cells \in [0 .. History - 1 -> [Columns0 -> Glyphs]]
  BY <1>1 DEF TextRecord
<1>3. u \in TextRecord /\ SameButCells(t, u) /\ u.cells = [t.cells EXCEPT ![row % History] = f]
  BY DEF RowChanged
<1>4. \A r \in t.oldest .. t.newest : r \in Nat /\ r % History \in 0 .. History - 1
  BY <1>2, RingIndex
<1>5. u.cells[row % History] = f
  BY <1>2, <1>3, <1>4
<1>6. ASSUME NEW r \in t.oldest .. t.newest, r # row PROVE u.cells[r % History] = t.cells[r % History]
  <2> DEFINE a == t.oldest
             b == t.newest
  <2>1. a \in Nat /\ b \in Nat /\ r \in a .. b /\ row \in a .. b /\ b - a \in 0 .. History - 1 /\ History \in Nat
    BY <1>1, <1>2, Sizes
  <2> HIDE DEF a, b
  <2>2. r \in Nat /\ row \in Nat /\ r - row < History /\ row - r < History
    BY <2>1
  <2>3. r % History # row % History
    BY <1>6, <2>2, RingRows
  <2>4. r % History \in 0 .. History - 1
    BY <1>4
  <2> QED BY <1>2, <1>3, <2>3, <2>4
<1>7. ASSUME WholeRow(f) PROVE TextOK(u)
  <2>1. BottomView(u) = BottomView(t) /\ u.newest = t.newest /\ u.oldest = t.oldest /\ u.view = t.view
    BY <1>3 DEF SameButCells, BottomView
  <2>2. ASSUME NEW r \in u.oldest .. u.newest PROVE WholeRow(u.cells[r % History])
    <3>1. CASE r = row
      BY <1>5, <1>7, <3>1
    <3>2. CASE r # row
      <4>1. r \in t.oldest .. t.newest
        BY <2>1
      <4> QED BY <1>1, <1>6, <3>2, <4>1
    <3> QED BY <3>1, <3>2
  <2> QED BY <1>1, <1>3, <2>1, <2>2 DEF TextOK
<1> QED BY <1>5, <1>6, <1>7

\* Every cell of the row that looks different is listed, or the left half of its character is.
RowListed(t, u, row, f) ==
  t.repaint \/ /\ t.dirty \subseteq u.dirty
               /\ \A c \in Columns0 : \/ f[c] = t.cells[row % History][c]
                                      \/ <<row, c>> \in u.dirty
                                      \/ f[c] = Half /\ <<row, c - 1>> \in u.dirty

LEMMA RowChangedTells ==
  ASSUME NEW t, TextOK(t), NEW u, NEW row \in t.oldest .. t.newest, NEW f \in Cells,
         RowChanged(t, u, row, f), RowListed(t, u, row, f)
  PROVE  Tells(t, u)
<1>1. t \in TextRecord /\ t.view \in t.oldest .. BottomView(t)
  BY DEF TextOK
<1>2. t.newest \in Nat /\ t.oldest \in Nat /\ t.view \in Nat
  BY <1>1 DEF TextRecord
<1>3. u.newest = t.newest /\ u.oldest = t.oldest /\ u.view = t.view /\ u.repaint = t.repaint
  BY DEF RowChanged, SameButCells
<1>4. /\ u.cells[row % History] = f
      /\ \A r \in t.oldest .. t.newest : r # row => u.cells[r % History] = t.cells[r % History]
  BY RowChangedFacts
<1>5. SUFFICES ASSUME ~t.repaint PROVE Tells(t, u)
  BY <1>3 DEF Tells
<1>6. ASSUME NEW s \in Screen PROVE Visible(u, s[1], s[2]) = Visible(t, s[1], s[2]) \/ Covered(u, s)
  <2> DEFINE r == t.view + s[1]
             c == s[2]
  <2>1. c \in Columns0
    BY DEF Screen
  <2>2. Visible(u, s[1], s[2]) = IF r \in t.oldest .. t.newest THEN u.cells[r % History][c] ELSE Empty
    BY <1>3 DEF Visible, ReadCell
  <2>3. Visible(t, s[1], s[2]) = IF r \in t.oldest .. t.newest THEN t.cells[r % History][c] ELSE Empty
    BY DEF Visible, ReadCell
  <2>4. CASE r \notin t.oldest .. t.newest
    BY <2>2, <2>3, <2>4
  <2>5. CASE r \in t.oldest .. t.newest /\ r # row
    BY <1>4, <2>2, <2>3, <2>5
  <2>6. CASE r = row
    <3>1. \/ f[c] = t.cells[row % History][c]
          \/ <<row, c>> \in u.dirty
          \/ f[c] = Half /\ <<row, c - 1>> \in u.dirty
      BY <1>5, <2>1 DEF RowListed
    <3>2. Visible(u, s[1], s[2]) = f[c] /\ Visible(t, s[1], s[2]) = t.cells[row % History][c]
      BY <1>4, <2>2, <2>3, <2>6
    <3>3. u.view + s[1] = row
      BY <1>3, <2>6
    <3> HIDE DEF r, c
    <3>4. CASE f[c] = t.cells[row % History][c]
      BY <3>2, <3>4
    <3>5. CASE <<row, c>> \in u.dirty
      BY <3>3, <3>5 DEF Covered, c
    <3>6. CASE f[c] = Half /\ <<row, c - 1>> \in u.dirty
      BY <3>2, <3>3, <3>6 DEF Covered, c
    <3> QED BY <3>1, <3>4, <3>5, <3>6
  <2> QED BY <2>4, <2>5, <2>6
<1>7. t.dirty \subseteq u.dirty
  BY <1>5 DEF RowListed
<1> QED BY <1>3, <1>5, <1>6, <1>7 DEF Tells

\* Moving the place where the program writes changes nothing that is seen.
AtColumn(t, col) == [t EXCEPT !.column = col]

LEMMA AtColumnFacts ==
  ASSUME NEW t, TextOK(t), NEW col \in 0 .. Columns
  PROVE  /\ TextOK(AtColumn(t, col)) /\ SameButCells(t, AtColumn(t, col)) /\ Tells(t, AtColumn(t, col))
         /\ AtColumn(t, col).cells = t.cells /\ AtColumn(t, col).column = col /\ AtColumn(t, col).dirty = t.dirty
<1> DEFINE u == AtColumn(t, col)
<1>1. t \in TextRecord
  BY DEF TextOK
<1>2. /\ u \in TextRecord /\ u.cells = t.cells /\ u.oldest = t.oldest /\ u.newest = t.newest /\ u.view = t.view
      /\ u.repaint = t.repaint /\ u.dirty = t.dirty /\ u.column = col
  BY <1>1 DEF TextRecord, AtColumn
<1> HIDE DEF u
<1>3. BottomView(u) = BottomView(t)
  BY <1>2 DEF BottomView
<1>4. TextOK(u)
  BY <1>2, <1>3 DEF TextOK
<1>5. \A row, c : Visible(u, row, c) = Visible(t, row, c)
  BY <1>2 DEF Visible, ReadCell
<1>6. Tells(t, u)
  BY <1>2, <1>5 DEF Tells
<1> QED BY <1>2, <1>4, <1>6 DEF u, SameButCells

LEMMA NewestRow ==
  ASSUME NEW t, TextOK(t)
  PROVE  /\ t \in TextRecord /\ t.newest \in t.oldest .. t.newest /\ t.newest \in Nat /\ t.oldest \in Nat
         /\ t.column \in 0 .. Columns /\ t.repaint \in BOOLEAN
         /\ \A row \in t.oldest .. t.newest : /\ row \in Nat /\ row % History \in 0 .. History - 1
                                              /\ t.cells[row % History] \in Cells /\ WholeRow(t.cells[row % History])
<1>1. t \in TextRecord /\ t.newest - t.oldest \in 0 .. History - 1
  BY DEF TextOK
<1>2. /\ t.newest \in Nat /\ t.oldest \in Nat /\ t.oldest <= t.newest /\ t.cells \in [0 .. History - 1 -> Cells]
      /\ t.column \in 0 .. Columns /\ t.repaint \in BOOLEAN
  BY <1>1 DEF TextRecord, Cells
<1>3. ASSUME NEW row \in t.oldest .. t.newest PROVE row \in Nat /\ row % History \in 0 .. History - 1
  <2>1. row \in Nat
    BY <1>2
  <2> QED BY <2>1, RingIndex
<1>4. \A row \in t.oldest .. t.newest : t.cells[row % History] \in Cells
  BY <1>2, <1>3
<1>5. \A row \in t.oldest .. t.newest : WholeRow(t.cells[row % History])
  BY DEF TextOK
<1>6. t.newest \in t.oldest .. t.newest
  BY <1>2
<1> QED BY <1>1, <1>2, <1>3, <1>4, <1>5, <1>6

LEMMA EraseAtTells ==
  ASSUME NEW t, TextOK(t), NEW row \in t.oldest .. t.newest, NEW col \in Columns0
  PROVE  TextOK(EraseAt(t, row, col)) /\ Tells(t, EraseAt(t, row, col))
<1> DEFINE f == t.cells[row % History]
           u == EraseAt(t, row, col)
           e == Erased(f, col)
<1>1. t \in TextRecord /\ row \in Nat /\ f \in Cells /\ WholeRow(f)
  BY NewestRow
<1>2. /\ u \in TextRecord /\ SameButCells(t, u) /\ u.cells = [t.cells EXCEPT ![row % History] = e]
      /\ Lists(t, u, {row} \X GoneIn(f, col))
  BY <1>1, EraseAtFacts
<1>3. RowChanged(t, u, row, e)
  BY <1>2 DEF RowChanged
<1>4. e \in Cells /\ WholeRow(e)
  <2> HIDE DEF f
  <2> QED BY <1>1, ErasedFacts
<1>5. ASSUME NEW c \in Columns0 PROVE e[c] = f[c] \/ <<row, c>> \in {row} \X GoneIn(f, col)
  BY DEF Erased
<1>6. RowListed(t, u, row, e)
  <2> HIDE DEF u, e
  <2> QED BY <1>2, <1>5 DEF RowListed, Lists
<1> HIDE DEF u, e, f
<1>7. TextOK(u)
  BY <1>3, <1>4, RowChangedFacts
<1>8. Tells(t, u)
  BY <1>3, <1>4, <1>6, RowChangedTells
<1> QED BY <1>7, <1>8 DEF u

LEMMA BackSpaceTells ==
  ASSUME NEW t, TextOK(t)
  PROVE  /\ TextOK(BackSpace(t)) /\ Tells(t, BackSpace(t)) /\ (t.repaint => BackSpace(t).repaint)
<1>1. CASE t.column = 0
  BY <1>1, NewestRow, TellsNothing DEF BackSpace
<1>2. CASE t.column # 0
  <2> DEFINE c == t.column - 1
             start == IF ReadCell(t, t.newest, c) = Half /\ c > 0 THEN c - 1 ELSE c
             a == AtColumn(t, start)
             u == EraseAt(a, t.newest, start)
  <2>1. t.newest \in t.oldest .. t.newest /\ t.newest \in Nat /\ t.column \in 0 .. Columns
    BY NewestRow
  <2>2. c \in Columns0
    BY <1>2, <2>1, Sizes
  <2>3. start \in Columns0 /\ start \in 0 .. Columns
    <3> HIDE DEF c
    <3> QED BY <2>2, Sizes
  <2>4. BackSpace(t) = u
    BY <1>2 DEF BackSpace, AtColumn
  <2> HIDE DEF c, start, a, u
  <2>5. TextOK(a) /\ Tells(t, a) /\ SameButCells(t, a)
    BY <2>3, AtColumnFacts DEF a
  <2>6. t.newest \in a.oldest .. a.newest /\ a \in TextRecord
    BY <2>1, <2>5, NewestRow DEF SameButCells
  <2>7. TextOK(u) /\ Tells(a, u)
    BY <2>3, <2>5, <2>6, EraseAtTells DEF u
  <2>8. SameButCells(a, u)
    BY <2>1, <2>3, <2>6, EraseAtFacts DEF u
  <2>9. a.repaint = t.repaint /\ u.repaint = a.repaint
    BY <2>5, <2>8 DEF SameButCells
  <2>10. Tells(t, u)
    BY <2>5, <2>7, <2>9, TellsOn
  <2> QED BY <2>4, <2>7, <2>9, <2>10
<1> QED BY <1>1, <1>2

-----------------------------------------------------------------------------
\* A character is placed where there is room for it.
LEMMA PlaceFacts ==
  ASSUME NEW t, TextOK(t), NEW g \in Glyphs, g # Empty, g # Half, t.column + Width(g) <= Columns
  PROVE  /\ TextOK(Place(t, g)) /\ Tells(t, Place(t, g)) /\ (t.repaint => Place(t, g).repaint)
         /\ RowChanged(t, Place(t, g), t.newest, PlacedIn(t.cells[t.newest % History], t.column, g))
         /\ Place(t, g).column = t.column + Width(g)
<1> DEFINE n == t.newest
           r == n % History
           col == t.column
           f0 == t.cells[r]
           f1 == Erased(f0, col)
           f2 == Cleared(f0, col, g)
           e == EraseAt(t, n, col)
           f == IF Width(g) = 2 THEN EraseAt(e, n, col + 1) ELSE e
           s == SetCell(f, n, col, g)
           h == IF Width(g) = 2 THEN SetCell(s, n, col + 1, Half) ELSE s
           d == Dirty(h, {<<n, col>>})
           u == Place(t, g)
           P == PlacedIn(f0, col, g)
<1>1. /\ t \in TextRecord /\ n \in t.oldest .. n /\ n \in Nat /\ f0 \in Cells /\ WholeRow(f0)
      /\ t.column \in 0 .. Columns /\ t.repaint \in BOOLEAN /\ r \in 0 .. History - 1
  BY NewestRow
<1>2. Width(g) \in {1, 2} /\ (Width(g) = 2 <=> g \in Wide)
  BY GlyphFacts
<1>3. col \in Columns0 /\ (g \in Wide => col + 1 \in Columns0)
  BY <1>1, <1>2, Sizes
<1>4. f1 \in Cells
  <2> HIDE DEF f0, col
  <2> QED BY <1>1, <1>3, ErasedFacts
<1>5. g \notin Wide => f2 = f1
  BY DEF Cleared
<1>6. g \in Wide => f2 = Erased(f1, col + 1) /\ f2 \in Cells
  <2>1. g \in Wide => f2 = Erased(f1, col + 1)
    BY DEF Cleared
  <2> HIDE DEF f1, f2, col
  <2> QED BY <1>3, <1>4, <2>1, ErasedFacts
<1>7. f2 \in Cells
  <2> HIDE DEF f1, f2
  <2> QED BY <1>4, <1>5, <1>6
<1>8. u = [d EXCEPT !.column = @ + Width(g)]
  BY DEF Place
<1>9. /\ e \in TextRecord /\ SameButCells(t, e) /\ e.column = col /\ e.cells = [t.cells EXCEPT ![r] = f1]
      /\ Lists(t, e, {n} \X GoneIn(f0, col))
  <2> HIDE DEF col, n
  <2> QED BY <1>1, <1>3, EraseAtFacts DEF col
<1>10. e.cells[r] = f1
  BY <1>1, <1>9 DEF TextRecord
<1> HIDE DEF e, f0, f1, f2
<1>11. /\ f \in TextRecord /\ SameButCells(t, f) /\ f.column = col /\ f.cells = [t.cells EXCEPT ![r] = f2]
       /\ t.repaint \/ (t.dirty \subseteq f.dirty /\ {n} \X GoneIn(f0, col) \subseteq f.dirty
                        /\ (g \in Wide => {n} \X GoneIn(f1, col + 1) \subseteq f.dirty))
  <2>1. CASE g \notin Wide
    <3>1. f = e
      BY <1>2, <2>1
    <3> HIDE DEF f
    <3> QED BY <1>5, <1>9, <2>1, <3>1 DEF Lists
  <2>2. CASE g \in Wide
    <3>1. f = EraseAt(e, n, col + 1)
      BY <1>2, <2>2
    <3>2. /\ f \in TextRecord /\ SameButCells(e, f) /\ f.column = e.column
          /\ f.cells = [e.cells EXCEPT ![r] = Erased(e.cells[r], col + 1)]
          /\ Lists(e, f, {n} \X GoneIn(e.cells[r], col + 1))
      <4> HIDE DEF f, col, n
      <4> DEFINE c == col + 1
      <4>1. e \in TextRecord /\ n \in Nat /\ c \in Columns0 /\ f = EraseAt(e, n, c)
        BY <1>1, <1>3, <1>9, <2>2, <3>1
      <4> HIDE DEF c, r
      <4>2. /\ f \in TextRecord /\ SameButCells(e, f) /\ f.column = e.column
            /\ f.cells = [e.cells EXCEPT ![n % History] = Erased(e.cells[n % History], c)]
            /\ Lists(e, f, {n} \X GoneIn(e.cells[n % History], c))
        BY <4>1, EraseAtFacts, Zenon
      <4> QED BY <4>2 DEF c, r
    <3> HIDE DEF f
    <3>3. f.cells = [t.cells EXCEPT ![r] = f2]
      <4>1. f.cells = [e.cells EXCEPT ![r] = f2]
        BY <1>6, <1>10, <2>2, <3>2
      <4> QED BY <1>1, <1>9, <4>1 DEF TextRecord
    <3>4. SameButCells(t, f)
      BY <1>9, <3>2 DEF SameButCells
    <3>5. t.repaint \/ (t.dirty \subseteq f.dirty /\ {n} \X GoneIn(f0, col) \subseteq f.dirty /\ {n} \X GoneIn(f1, col + 1) \subseteq f.dirty)
      <4>1. e.repaint = t.repaint
        BY <1>9 DEF SameButCells
      <4> QED BY <1>9, <1>10, <3>2, <4>1 DEF Lists
    <3> QED BY <1>9, <2>2, <3>2, <3>3, <3>4, <3>5
  <2> QED BY <2>1, <2>2
<1> HIDE DEF f
<1>12. /\ s \in TextRecord /\ SameButCells(f, s) /\ s.column = f.column /\ s.dirty = f.dirty
       /\ s.cells = [f.cells EXCEPT ![r] = [f.cells[r] EXCEPT ![col] = g]]
  <2>1. f \in TextRecord /\ n \in Nat /\ col \in Columns0
    BY <1>1, <1>3, <1>11
  <2> HIDE DEF n, col, r
  <2>2. /\ SetCell(f, n, col, g) \in TextRecord /\ SameButCells(f, SetCell(f, n, col, g))
        /\ SetCell(f, n, col, g).column = f.column /\ SetCell(f, n, col, g).dirty = f.dirty
        /\ SetCell(f, n, col, g).cells = WithCell(f.cells, n % History, col, g)
    BY <2>1, SetCellFacts, Zenon
  <2> QED BY <2>2 DEF r, WithCell
<1> HIDE DEF s
<1>13. f.cells[r] = f2
  BY <1>1, <1>11 DEF TextRecord
<1> DEFINE k1 == [f2 EXCEPT ![col] = g]
           k2 == IF g \in Wide THEN [k1 EXCEPT ![col + 1] = Half] ELSE k1
<1>14. k1 \in Cells /\ s.cells = [t.cells EXCEPT ![r] = k1] /\ s.cells[r] = k1
  <2>1. k1 \in Cells
    BY <1>3, <1>7 DEF Cells
  <2>2. s.cells = [f.cells EXCEPT ![r] = k1]
    BY <1>12, <1>13
  <2> HIDE DEF k1
  <2> QED BY <1>1, <1>11, <2>1, <2>2 DEF TextRecord
<1>15. /\ h \in TextRecord /\ SameButCells(f, h) /\ h.column = f.column /\ h.dirty = f.dirty
       /\ h.cells = [t.cells EXCEPT ![r] = k2]
  <2>1. CASE g \notin Wide
    <3>1. h = s /\ k2 = k1
      BY <1>2, <2>1
    <3> HIDE DEF h, k1, k2
    <3> QED BY <1>12, <1>14, <3>1
  <2>2. CASE g \in Wide
    <3>1. h = SetCell(s, n, col + 1, Half) /\ k2 = [k1 EXCEPT ![col + 1] = Half]
      BY <1>2, <2>2
    <3>2. /\ h \in TextRecord /\ SameButCells(s, h) /\ h.column = s.column /\ h.dirty = s.dirty
          /\ h.cells = [s.cells EXCEPT ![r] = [s.cells[r] EXCEPT ![col + 1] = Half]]
      <4> DEFINE c == col + 1
      <4>1. s \in TextRecord /\ n \in Nat /\ c \in Columns0 /\ Half \in Glyphs /\ h = SetCell(s, n, c, Half)
        BY <1>1, <1>3, <1>12, <2>2, <3>1, GlyphFacts
      <4> HIDE DEF n, c, r, h
      <4>2. /\ h \in TextRecord /\ SameButCells(s, h) /\ h.column = s.column /\ h.dirty = s.dirty
            /\ h.cells = WithCell(s.cells, n % History, c, Half)
        BY <4>1, SetCellFacts, Zenon
      <4> QED BY <4>2 DEF c, r, WithCell
    <3> HIDE DEF h, k1, k2
    <3>3. h.cells = [t.cells EXCEPT ![r] = k2]
      BY <1>1, <1>14, <3>1, <3>2 DEF TextRecord
    <3>4. SameButCells(f, h)
      BY <1>12, <3>2 DEF SameButCells
    <3> QED BY <1>12, <3>2, <3>3, <3>4
  <2> QED BY <2>1, <2>2
<1>16. k2 = P
  <2>1. P = [c \in Columns0 |-> IF c = col THEN g ELSE IF g \in Wide /\ c = col + 1 THEN Half ELSE f2[c]]
    BY DEF PlacedIn, f2
  <2> HIDE DEF P
  <2>2. CASE g \notin Wide
    BY <1>3, <1>7, <2>1, <2>2 DEF Cells
  <2>3. CASE g \in Wide
    <3>1. col + 1 # col
      BY <1>3, Sizes
    <3>2. k2 \in [Columns0 -> Glyphs] /\ k2 = [k1 EXCEPT ![col + 1] = Half]
      <4>1. k2 = [k1 EXCEPT ![col + 1] = Half]
        BY <2>3
      <4> HIDE DEF k1, k2
      <4> QED BY <1>3, <1>14, <2>3, <4>1, GlyphFacts DEF Cells
    <3>3. \A c \in Columns0 : k2[c] = P[c]
      <4> SUFFICES ASSUME NEW c \in Columns0 PROVE k2[c] = P[c]
        OBVIOUS
      <4>1. k1[c] = IF c = col THEN g ELSE f2[c]
        BY <1>3, <1>7 DEF Cells
      <4> HIDE DEF k1, k2
      <4>2. k2[c] = IF c = col + 1 THEN Half ELSE k1[c]
        BY <1>14, <3>2 DEF Cells
      <4>3. P[c] = IF c = col THEN g ELSE IF g \in Wide /\ c = col + 1 THEN Half ELSE f2[c]
        BY <2>1
      <4> QED BY <2>3, <3>1, <4>1, <4>2, <4>3
    <3> HIDE DEF k1, k2
    <3> QED BY <2>1, <3>2, <3>3
  <2> QED BY <2>2, <2>3
<1> HIDE DEF h, k1, k2
<1>17. {<<n, col>>} \in SUBSET (Nat \X Columns0)
  BY <1>1, <1>3
<1>18. d \in TextRecord /\ SameButCells(h, d) /\ d.column = h.column /\ d.cells = h.cells /\ Lists(h, d, {<<n, col>>})
  BY <1>15, <1>17, DirtyFacts
<1> HIDE DEF d
<1>19. col + Width(g) \in 0 .. Columns
  BY <1>1, <1>2, Sizes
<1>20. /\ u \in TextRecord /\ u.cells = d.cells /\ u.oldest = d.oldest /\ u.newest = d.newest /\ u.view = d.view
       /\ u.repaint = d.repaint /\ u.dirty = d.dirty /\ u.column = col + Width(g)
  <2>1. d.column = col
    BY <1>11, <1>15, <1>18
  <2> HIDE DEF u, col
  <2> QED BY <1>8, <1>18, <1>19, <2>1 DEF TextRecord
<1> HIDE DEF u, P
<1>21. SameButCells(t, u)
  BY <1>11, <1>15, <1>18, <1>20 DEF SameButCells
<1>22. RowChanged(t, u, n, P)
  BY <1>15, <1>16, <1>18, <1>20, <1>21 DEF RowChanged
<1>23. P \in Cells /\ WholeRow(P)
  <2> HIDE DEF col, r
  <2> QED BY <1>1, <1>3, PlacedFacts DEF P, col, f0
<1>24. RowListed(t, u, n, P)
  <2>1. SUFFICES ASSUME ~t.repaint PROVE RowListed(t, u, n, P)
    BY DEF RowListed
  <2>2. u.dirty = f.dirty \cup {<<n, col>>}
    <3>1. ~h.repaint
      BY <1>11, <1>15, <2>1 DEF SameButCells
    <3> QED BY <1>15, <1>18, <1>20, <3>1 DEF Lists
  <2>3. /\ t.dirty \subseteq f.dirty /\ {n} \X GoneIn(f0, col) \subseteq f.dirty
        /\ (g \in Wide => {n} \X GoneIn(f1, col + 1) \subseteq f.dirty)
    BY <1>11, <2>1
  <2>4. ASSUME NEW c \in Columns0 PROVE P[c] = f0[c] \/ <<n, c>> \in u.dirty \/ (P[c] = Half /\ <<n, c - 1>> \in u.dirty)
    <3>1. P[c] = IF c = col THEN g ELSE IF g \in Wide /\ c = col + 1 THEN Half ELSE f2[c]
      BY DEF P, PlacedIn, f2
    <3>2. CASE c = col
      BY <2>2, <3>2
    <3>3. CASE g \in Wide /\ c = col + 1
      <4>1. c # col /\ c - 1 = col
        BY <1>3, <3>3, Sizes
      <4> QED BY <2>2, <3>1, <3>3, <4>1
    <3>4. CASE c # col /\ ~(g \in Wide /\ c = col + 1)
      <4>1. P[c] = f2[c]
        BY <3>1, <3>4
      <4>2. f1[c] = f0[c] \/ c \in GoneIn(f0, col)
        BY DEF f1, Erased
      <4>3. f2[c] = f1[c] \/ (g \in Wide /\ c \in GoneIn(f1, col + 1))
        <5>1. g \in Wide => f2[c] = f1[c] \/ c \in GoneIn(f1, col + 1)
          BY <1>6 DEF Erased
        <5> QED BY <1>5, <5>1
      <4>5. c \in GoneIn(f0, col) => <<n, c>> \in u.dirty
        BY <2>2, <2>3
      <4>6. g \in Wide /\ c \in GoneIn(f1, col + 1) => <<n, c>> \in u.dirty
        BY <2>2, <2>3
      <4> QED BY <4>1, <4>2, <4>3, <4>5, <4>6
    <3> QED BY <3>2, <3>3, <3>4
  <2> QED BY <2>2, <2>3, <2>4 DEF RowListed, f0
<1> HIDE DEF col
<1>25. TextOK(u)
  <2> HIDE DEF n
  <2> QED BY <1>1, <1>22, <1>23, RowChangedFacts DEF n
<1>26. Tells(t, u)
  BY <1>1, <1>22, <1>23, <1>24, RowChangedTells
<1>27. t.repaint => u.repaint
  BY <1>21 DEF SameButCells
<1> QED BY <1>20, <1>22, <1>25, <1>26, <1>27 DEF u, P, f0, col

\* Whatever is written: the window stays a window of whole rows, and the painter is told.
LEMMA PutGlyphFacts ==
  ASSUME NEW t, TextOK(t), NEW g \in Glyphs, g # Empty, g # Half
  PROVE  TextOK(PutGlyph(t, g)) /\ Tells(t, PutGlyph(t, g)) /\ (t.repaint => PutGlyph(t, g).repaint)
<1>1. Width(g) \in {1, 2}
  BY GlyphFacts
<1>2. CASE t.column + Width(g) > Columns
  <2> DEFINE n == NextLine(t)
             u == Place(n, g)
  <2>1. TextOK(n) /\ Tells(t, n) /\ (t.repaint => n.repaint) /\ n.column = 0
    BY NextLineFacts
  <2>2. PutGlyph(t, g) = u
    BY <1>2 DEF PutGlyph
  <2> HIDE DEF n
  <2>3. n.column + Width(g) <= Columns
    BY <1>1, <2>1, Sizes
  <2>4. TextOK(u) /\ Tells(n, u) /\ (n.repaint => u.repaint)
    BY <2>1, <2>3, PlaceFacts
  <2>5. Tells(t, u)
    BY <2>1, <2>4, TellsOn
  <2> QED BY <2>1, <2>2, <2>4, <2>5
<1>3. CASE ~(t.column + Width(g) > Columns)
  <2>1. PutGlyph(t, g) = Place(t, g)
    BY <1>3 DEF PutGlyph
  <2>2. t.column + Width(g) <= Columns
    BY <1>1, <1>3, NewestRow, Sizes
  <2> QED BY <2>1, <2>2, PlaceFacts
<1> QED BY <1>2, <1>3

LEMMA PutFacts ==
  ASSUME NEW t, TextOK(t), NEW g, g = "lf" \/ (g \in Glyphs /\ g # Empty /\ g # Half)
  PROVE  TextOK(Put(t, g)) /\ Tells(t, Put(t, g)) /\ (t.repaint => Put(t, g).repaint)
<1>1. CASE g = "lf"
  <2>1. Put(t, g) = NextLine(t)
    BY <1>1 DEF Put
  <2> QED BY <2>1, NextLineFacts
<1>2. CASE g = "cr"
  <2>1. Put(t, g) = AtColumn(t, 0)
    BY <1>2 DEF Put, AtColumn
  <2>2. 0 \in 0 .. Columns
    BY Sizes
  <2>3. TextOK(AtColumn(t, 0)) /\ SameButCells(t, AtColumn(t, 0)) /\ Tells(t, AtColumn(t, 0))
    BY <2>2, AtColumnFacts
  <2> QED BY <2>1, <2>3 DEF SameButCells
<1>3. CASE g = "bs"
  <2>1. Put(t, g) = BackSpace(t)
    BY <1>3 DEF Put
  <2> QED BY <2>1, BackSpaceTells
<1>4. CASE g \notin {"lf", "cr", "bs"}
  <2>1. Put(t, g) = PutGlyph(t, g)
    BY <1>4 DEF Put
  <2> QED BY <1>4, <2>1, PutGlyphFacts
<1> QED BY <1>1, <1>2, <1>3, <1>4

-----------------------------------------------------------------------------
\* The line of input. StandsAt: its characters are in the text, from cell col of row on.
StandsAt(t, row, col, inp) ==
  \A i \in 1 .. Len(inp) :
    /\ row + (col + i - 1) \div Columns <= t.newest
    /\ ReadCell(t, row + (col + i - 1) \div Columns, (col + i - 1) % Columns) = inp[i]
EmptyRight(t, row) ==
  t.newest > row => \A c \in Columns0 : c >= t.column => ReadCell(t, t.newest, c) = Empty

LEMMA StandsParts ==
  ASSUME NEW t, NEW row, NEW col, NEW inp, NEW lim
  PROVE  Stands(t, row, col, inp, lim) <=>
           /\ row \in Nat /\ t.oldest <= row /\ col \in Columns0 /\ lim <= History * Columns - col
           /\ t.newest = row + RowAfter(col + Len(inp)) /\ t.column = ColumnAfter(col + Len(inp))
           /\ StandsAt(t, row, col, inp) /\ EmptyRight(t, row)
BY DEF Stands, RowAfter, ColumnAfter, StandsAt, EmptyRight

LEMMA FollowStands ==
  ASSUME NEW t, TextOK(t), NEW row, NEW col, NEW inp, NEW lim, Stands(t, row, col, inp, lim)
  PROVE  Stands(Follow(t), row, col, inp, lim)
<1> DEFINE u == Follow(t)
<1>1. u.cells = t.cells /\ u.oldest = t.oldest /\ u.newest = t.newest /\ u.column = t.column
  BY FollowFacts
<1> HIDE DEF u
<1>2. Stands(u, row, col, inp, lim)
  BY <1>1 DEF Stands, ReadCell
<1> QED BY <1>2 DEF u

\* The place of character i of the line.
LEMMA PlaceOf ==
  ASSUME NEW col \in Columns0, NEW i \in Nat \ {0}
  PROVE  /\ col + i - 1 \in Nat /\ (col + i - 1) \div Columns \in Nat /\ (col + i - 1) % Columns \in Columns0
<1> DEFINE n == col + i - 1
<1>1. n \in Nat
  BY Sizes
<1> HIDE DEF n
<1>2. n \div Columns \in Nat /\ n % Columns \in Columns0
  BY <1>1, Division, Sizes
<1> QED BY <1>1, <1>2 DEF n

\* Room for one more character of the line: a row is begun when the last one is full.
Roomy(t) == IF t.column + 1 > Columns THEN NextLine(t) ELSE t

LEMMA RoomyStands ==
  ASSUME NEW t, TextOK(t), NEW row, NEW col, NEW inp \in Seq(Letters), NEW lim \in Nat,
         Stands(t, row, col, inp, lim), Len(inp) < lim
  PROVE  /\ TextOK(Roomy(t)) /\ Roomy(t).oldest <= row /\ StandsAt(Roomy(t), row, col, inp) /\ EmptyRight(Roomy(t), row)
         /\ Roomy(t).newest = row + (col + Len(inp)) \div Columns
         /\ Roomy(t).column = (col + Len(inp)) % Columns
<1> DEFINE end == col + Len(inp)
           u == Roomy(t)
           q == end \div Columns
<1>1. /\ row \in Nat /\ t.oldest <= row /\ col \in Columns0 /\ lim <= History * Columns - col
      /\ t.newest = row + RowAfter(end) /\ t.column = ColumnAfter(end)
      /\ StandsAt(t, row, col, inp) /\ EmptyRight(t, row)
  BY StandsParts
<1>2. Len(inp) \in Nat /\ end \in Nat /\ end < History * Columns
  <2>1. Len(inp) \in Nat /\ col \in Nat /\ lim \in Nat
    BY <1>1, Sizes
  <2>2. History * Columns \in Nat
    BY Sizes, SMTT(30)
  <2> QED BY <1>1, <2>1, <2>2
<1> HIDE DEF end
<1>3. /\ RowAfter(end) \in Nat /\ ColumnAfter(end) \in 0 .. Columns
      /\ ColumnAfter(end) < Columns => q = RowAfter(end) /\ end % Columns = ColumnAfter(end)
      /\ ColumnAfter(end) = Columns => q = RowAfter(end) + 1 /\ end % Columns = 0
  BY <1>2, AfterCells
<1>4. q \in Nat /\ q < History
  <2>1. q < History
    BY <1>2, RowsOfRing
  <2> QED BY <1>2, <2>1, Division, Sizes
<1> HIDE DEF q
<1>5. t.newest \in Nat /\ t.oldest \in Nat /\ t.oldest <= t.newest
  BY NewestRow
<1>6. CASE t.column + 1 > Columns
  <2>1. t.column = Columns
    BY <1>1, <1>3, <1>6, Sizes
  <2>2. u = NextLine(t)
    BY <1>6 DEF Roomy
  <2>3. /\ TextOK(u) /\ u.oldest = OldestAfter(t.oldest, t.newest) /\ u.newest = t.newest + 1 /\ u.column = 0
        /\ \A r \in u.oldest .. t.newest : u.cells[r % History] = t.cells[r % History]
        /\ u.cells[(t.newest + 1) % History] = NoCells
    <3> HIDE DEF u
    <3> QED BY <2>2, NextLineFacts
  <2> HIDE DEF u
  <2>4. u.newest = row + q /\ u.column = end % Columns
    <3>1. q = RowAfter(end) + 1 /\ end % Columns = 0
      BY <1>1, <1>3, <2>1
    <3> QED BY <1>1, <1>3, <2>3, <3>1
  <2>5. u.oldest <= row
    <3> DEFINE a == t.oldest
               b == t.newest
    <3>1. a \in Nat /\ a <= row /\ b + 1 = row + q
      BY <1>1, <1>5, <2>3, <2>4
    <3>2. b \in Nat
      BY <1>5
    <3>3. u.oldest = OldestAfter(a, b)
      BY <2>3
    <3> HIDE DEF a, b
    <3>4. b + 1 - a = (b + 1) - a
      BY <3>1, <3>2
    <3>5. b + 1 - a >= History => a + 1 <= row
      BY <1>1, <1>4, <3>1, <3>2, <3>4, Sizes
    <3> QED BY <3>1, <3>3, <3>5 DEF OldestAfter
  <2>6. StandsAt(u, row, col, inp)
    <3> SUFFICES ASSUME NEW i \in 1 .. Len(inp)
                 PROVE  /\ row + (col + i - 1) \div Columns <= u.newest
                        /\ ReadCell(u, row + (col + i - 1) \div Columns, (col + i - 1) % Columns) = inp[i]
      BY DEF StandsAt
    <3> DEFINE r == row + (col + i - 1) \div Columns
               c == (col + i - 1) % Columns
    <3>1. r <= t.newest /\ ReadCell(t, r, c) = inp[i]
      BY <1>1 DEF StandsAt
    <3>2. (col + i - 1) \div Columns \in Nat
      BY <1>1, <1>2, PlaceOf
    <3>3. r \in Nat /\ row <= r
      BY <1>1, <3>2
    <3> HIDE DEF r, c
    <3>4. u.oldest \in Nat
      BY <2>3, NewestRow
    <3>5. r \in u.oldest .. t.newest
      BY <1>1, <1>5, <2>5, <3>1, <3>3, <3>4
    <3>6. ReadCell(u, r, c) = inp[i]
      BY <2>3, <3>1, <3>5 DEF ReadCell
    <3>7. r <= u.newest
      BY <1>5, <2>3, <3>1, <3>3
    <3> QED BY <3>6, <3>7 DEF r, c
  <2>7. EmptyRight(u, row)
    BY <2>3 DEF EmptyRight, ReadCell, NoCells
  <2> QED BY <2>3, <2>4, <2>5, <2>6, <2>7 DEF u, q, end
<1>7. CASE ~(t.column + 1 > Columns)
  <2>1. u = t
    BY <1>7 DEF Roomy
  <2>2. t.column < Columns
    BY <1>1, <1>3, <1>7, Sizes
  <2>3. q = RowAfter(end) /\ end % Columns = ColumnAfter(end)
    BY <1>1, <1>3, <2>2
  <2> HIDE DEF u
  <2> QED BY <1>1, <2>1, <2>3 DEF u, q, end
<1> QED BY <1>6, <1>7

\* A typed letter goes behind the line, which stands as before.
LEMMA LetterStands ==
  ASSUME NEW t, TextOK(t), NEW row, NEW col, NEW inp \in Seq(Letters), NEW lim \in Nat,
         Stands(t, row, col, inp, lim), Len(inp) < lim, NEW k \in Letters
  PROVE  Stands(Put(t, k), row, col, Append(inp, k), lim)
<1> DEFINE end == col + Len(inp)
           v == Roomy(t)
           u == Place(v, k)
           x == end % Columns
           f == v.cells[v.newest % History]
           P == PlacedIn(f, x, k)
<1>1. row \in Nat /\ col \in Columns0 /\ lim <= History * Columns - col
  BY StandsParts
<1>2. /\ TextOK(v) /\ v.oldest <= row /\ StandsAt(v, row, col, inp) /\ EmptyRight(v, row)
      /\ v.newest = row + end \div Columns /\ v.column = x
  BY RoomyStands
<1>3. k \in Glyphs /\ k # Empty /\ k # Half /\ k \notin Wide /\ Width(k) = 1 /\ k \notin {"lf", "cr", "bs"}
  <2>1. k \in Glyphs /\ k # Empty /\ k # Half /\ k \notin Wide /\ k \notin {"lf", "cr", "bs"}
    BY GlyphFacts
  <2> QED BY <2>1 DEF Width
<1>4. Put(t, k) = u
  <2>1. Put(t, k) = PutGlyph(t, k)
    BY <1>3 DEF Put
  <2>2. PutGlyph(t, k) = Place(IF t.column + 1 > Columns THEN NextLine(t) ELSE t, k)
    BY <1>3 DEF PutGlyph
  <2> QED BY <2>1, <2>2 DEF Roomy
<1>5. Len(inp) \in Nat /\ end \in Nat /\ col \in Nat
  BY <1>1, Sizes
<1> HIDE DEF end
<1>6. x \in Columns0 /\ x \in Nat /\ x + 1 <= Columns
  BY <1>5, Division, Sizes
<1> HIDE DEF v, x
<1>7. /\ RowChanged(v, u, v.newest, P) /\ u.column = x + 1 /\ TextOK(u)
  <2>1. v.column + Width(k) <= Columns
    BY <1>2, <1>3, <1>6
  <2>2. RowChanged(v, u, v.newest, PlacedIn(v.cells[v.newest % History], v.column, k)) /\ u.column = v.column + Width(k) /\ TextOK(u)
    BY <1>2, <1>3, <2>1, PlaceFacts
  <2> HIDE DEF u
  <2> QED BY <1>2, <1>3, <2>2
<1> HIDE DEF u
<1>8. v.newest \in v.oldest .. v.newest /\ f \in Cells /\ WholeRow(f) /\ v.oldest \in Nat /\ v.newest \in Nat
  BY <1>2, NewestRow
<1>9. P \in Cells
  <2> HIDE DEF f
  <2> QED BY <1>3, <1>6, <1>8, PlacedFacts
<1>10. \A c \in Columns0 : P[c] = IF c = x THEN k ELSE Erased(f, x)[c]
  BY <1>3 DEF PlacedIn, Cleared
<1> HIDE DEF P
<1>11. /\ u.cells[v.newest % History] = P
       /\ \A r \in v.oldest .. v.newest : r # v.newest => u.cells[r % History] = v.cells[r % History]
       /\ u.newest = v.newest /\ u.oldest = v.oldest
  <2>1. /\ u.cells[v.newest % History] = P
        /\ \A r \in v.oldest .. v.newest : r # v.newest => u.cells[r % History] = v.cells[r % History]
    BY <1>2, <1>7, <1>8, <1>9, RowChangedFacts
  <2> QED BY <1>7, <2>1 DEF RowChanged, SameButCells
<1>12. /\ RowAfter(end + 1) = end \div Columns /\ ColumnAfter(end + 1) = x + 1
  BY <1>5, AfterCells DEF x
<1>13. Append(inp, k) \in Seq(Letters) /\ Len(Append(inp, k)) = Len(inp) + 1
  OBVIOUS
<1>14. col + Len(Append(inp, k)) = end + 1
  BY <1>5, <1>13 DEF end
<1>15. StandsAt(u, row, col, Append(inp, k))
  <2> SUFFICES ASSUME NEW i \in 1 .. Len(inp) + 1
               PROVE  /\ row + (col + i - 1) \div Columns <= u.newest
                      /\ ReadCell(u, row + (col + i - 1) \div Columns, (col + i - 1) % Columns) = Append(inp, k)[i]
    BY <1>13 DEF StandsAt
  <2> DEFINE n == col + i - 1
             r == row + n \div Columns
             c == n % Columns
  <2>1. n \in Nat /\ n \div Columns \in Nat /\ c \in Columns0 /\ i \in Nat
    <3>1. i \in Nat \ {0}
      BY <1>5
    <3>2. n \in Nat /\ n \div Columns \in Nat /\ c \in Columns0
      BY <1>1, <3>1, PlaceOf
    <3> QED BY <3>1, <3>2
  <2>2. CASE i = Len(inp) + 1
    <3>1. n = end
      BY <1>5, <2>2 DEF end
    <3>2. r = v.newest /\ c = x
      BY <1>2, <3>1 DEF x
    <3>3. Append(inp, k)[i] = k
      BY <2>2
    <3>4. ReadCell(u, r, c) = k
      BY <1>6, <1>10, <1>11, <3>2 DEF ReadCell
    <3>5. r <= u.newest
      BY <1>8, <1>11, <3>2
    <3> QED BY <3>3, <3>4, <3>5
  <2>3. CASE i # Len(inp) + 1
    <3>1. i \in 1 .. Len(inp) /\ Append(inp, k)[i] = inp[i] /\ inp[i] \in Letters
      BY <1>5, <2>3
    <3>2. r <= v.newest /\ ReadCell(v, r, c) = inp[i]
      BY <1>2, <3>1 DEF StandsAt
    <3>3. r \in v.oldest .. v.newest
      BY <1>1, <1>2, <1>8, <2>1, <3>2
    <3>4. n # end
      BY <1>5, <3>1 DEF end
    <3> HIDE DEF n
    <3>5. ReadCell(u, r, c) = inp[i]
      <4>1. CASE r # v.newest
        BY <1>11, <3>2, <3>3, <4>1 DEF ReadCell
      <4>2. CASE r = v.newest
        <5>1. n \div Columns = end \div Columns
          <6>1. end \div Columns \in Nat
            BY <1>5, Division, Sizes
          <6> QED BY <1>1, <1>2, <2>1, <4>2, <6>1
        <5>2. c # x
          BY <1>5, <2>1, <3>4, <5>1, PlacesDiffer DEF x
        <5>3. f[c] = inp[i] /\ f[c] \notin Wide /\ f[c] # Half
          BY <3>1, <3>2, <4>2, GlyphFacts DEF ReadCell
        <5>4. Erased(f, x)[c] = f[c]
          <6> HIDE DEF f, c
          <6> QED BY <1>6, <1>8, <2>1, <5>2, <5>3, ErasedSpares
        <5>5. P[c] = inp[i]
          BY <1>10, <2>1, <5>2, <5>3, <5>4
        <5> QED BY <1>11, <4>2, <5>5 DEF ReadCell
      <4> QED BY <4>1, <4>2
    <3>6. r <= u.newest
      BY <1>11, <3>2
    <3> QED BY <3>1, <3>5, <3>6 DEF n
  <2> QED BY <2>2, <2>3
<1>16. EmptyRight(u, row)
  <2> SUFFICES ASSUME u.newest > row, NEW c \in Columns0, c >= u.column PROVE ReadCell(u, u.newest, c) = Empty
    BY DEF EmptyRight
  <2>1. c > x /\ c # x
    BY <1>6, <1>7, Sizes
  <2>2. f[c] = Empty
    <3>1. c >= v.column
      BY <1>2, <1>6, <2>1, Sizes
    <3> QED BY <1>2, <1>11, <3>1 DEF EmptyRight, ReadCell
  <2>3. Erased(f, x)[c] = Empty
    <3> HIDE DEF f
    <3> QED BY <1>6, <1>8, <2>2, ErasedFacts
  <2> QED BY <1>10, <1>11, <2>1, <2>3 DEF ReadCell
<1>17. Stands(u, row, col, Append(inp, k), lim)
  <2>1. u.newest = row + RowAfter(col + Len(Append(inp, k))) /\ u.column = ColumnAfter(col + Len(Append(inp, k)))
    BY <1>2, <1>7, <1>11, <1>12, <1>14
  <2>2. u.oldest <= row
    BY <1>2, <1>11
  <2> QED BY <1>1, <1>15, <1>16, <2>1, <2>2, StandsParts
<1> QED BY <1>4, <1>17

-----------------------------------------------------------------------------
\* The last character of the line is deleted: it stood in the last row.
DeletedAt(t, row, m) ==
  [EraseAt(t, row + m \div Columns, m % Columns) EXCEPT !.newest = row + RowAfter(m), !.column = ColumnAfter(m)]
Deleted(t, row, m) ==
  [DeletedAt(t, row, m) EXCEPT !.view = Min({DeletedAt(t, row, m).view, BottomView(DeletedAt(t, row, m))})]

LEMMA FrontFacts ==
  ASSUME NEW inp \in Seq(Letters), inp # <<>>
  PROVE  /\ Len(inp) \in Nat /\ Len(inp) >= 1 /\ inp[Len(inp)] \in Letters
         /\ Front(inp) \in Seq(Letters) /\ Len(Front(inp)) = Len(inp) - 1
         /\ \A i \in 1 .. Len(inp) - 1 : Front(inp)[i] = inp[i]
<1>1. Len(inp) \in Nat /\ Len(inp) >= 1 /\ inp[Len(inp)] \in Letters
  BY EmptySeq, SMT
<1>2. Front(inp) = SubSeq(inp, 1, Len(inp) - 1)
  BY DEF Front
<1>3. Len(inp) - 1 \in Nat /\ Len(inp) - 1 <= Len(inp)
  BY <1>1
<1>4. /\ SubSeq(inp, 1, Len(inp) - 1) \in Seq(Letters) /\ Len(SubSeq(inp, 1, Len(inp) - 1)) = Len(inp) - 1
      /\ \A i \in 1 .. Len(inp) - 1 : SubSeq(inp, 1, Len(inp) - 1)[i] = inp[i]
  <2> DEFINE k == Len(inp) - 1
             w == SubSeq(inp, 1, k)
  <2>1. k \in Nat /\ \A i \in 1 .. k : inp[i] \in Letters
    BY <1>3
  <2> HIDE DEF k
  <2>2. /\ w \in Seq(Letters) /\ Len(w) = (IF 1 <= k THEN k - 1 + 1 ELSE 0)
        /\ \A i \in 1 .. k - 1 + 1 : w[i] = inp[1 + i - 1]
    BY <2>1, SubSeqProperties
  <2> HIDE DEF w
  <2>3. Len(w) = k
    BY <2>1, <2>2
  <2>4. \A i \in 1 .. k : w[i] = inp[i]
    <3>1. k - 1 + 1 = k
      BY <2>1
    <3>2. \A i \in 1 .. k : 1 + i - 1 = i
      OBVIOUS
    <3> QED BY <2>2, <3>1, <3>2
  <2> QED BY <2>2, <2>3, <2>4 DEF k, w
<1> QED BY <1>1, <1>2, <1>4

LEMMA DeleteFacts ==
  ASSUME NEW t, TextOK(t), NEW row, NEW col, NEW inp \in Seq(Letters), inp # <<>>, NEW lim \in Nat,
         Stands(t, row, col, inp, lim), NEW m, m = col + Len(inp) - 1
  PROVE  /\ TextOK(Deleted(t, row, m)) /\ Stands(Deleted(t, row, m), row, col, Front(inp), lim)
         /\ DeletedAt(t, row, m).view > BottomView(DeletedAt(t, row, m)) \/ Tells(t, Deleted(t, row, m))
<1> DEFINE q == m \div Columns
           x == m % Columns
           n == t.newest
           f == t.cells[n % History]
           e == EraseAt(t, n, x)
           F == Erased(f, x)
           d == DeletedAt(t, row, m)
           u == Deleted(t, row, m)
           G == Front(inp)
<1>1. /\ row \in Nat /\ t.oldest <= row /\ col \in Columns0 /\ lim <= History * Columns - col
      /\ t.newest = row + RowAfter(col + Len(inp)) /\ t.column = ColumnAfter(col + Len(inp))
      /\ StandsAt(t, row, col, inp) /\ EmptyRight(t, row)
  BY StandsParts
<1>2. /\ Len(inp) \in Nat /\ Len(inp) >= 1 /\ inp[Len(inp)] \in Letters
      /\ G \in Seq(Letters) /\ Len(G) = Len(inp) - 1
      /\ \A i \in 1 .. Len(inp) - 1 : G[i] = inp[i]
  BY FrontFacts
<1> HIDE DEF G
<1>3. m \in Nat /\ col + Len(inp) = m + 1 /\ col + Len(G) = m /\ col \in Nat
  BY <1>1, <1>2, Sizes
<1>4. q \in Nat /\ x \in Columns0 /\ x \in Nat /\ x + 1 <= Columns
  BY <1>3, Division, Sizes
<1>5. /\ RowAfter(m + 1) = q /\ ColumnAfter(m + 1) = x + 1 /\ RowAfter(m) \in Nat /\ ColumnAfter(m) \in 0 .. Columns
      /\ ColumnAfter(m) < Columns => q = RowAfter(m) /\ x = ColumnAfter(m)
      /\ ColumnAfter(m) = Columns => q = RowAfter(m) + 1 /\ x = 0
  BY <1>3, AfterCells
<1> HIDE DEF q, x
<1>6. n = row + q /\ t.column = x + 1
  BY <1>1, <1>3, <1>5
<1>7. /\ t \in TextRecord /\ n \in t.oldest .. n /\ n \in Nat /\ t.oldest \in Nat /\ f \in Cells /\ WholeRow(f)
      /\ n % History \in 0 .. History - 1
  BY NewestRow
<1>8. d = [e EXCEPT !.newest = row + RowAfter(m), !.column = ColumnAfter(m)]
  BY <1>6 DEF DeletedAt, q, x
<1> HIDE DEF f
<1>9. /\ e \in TextRecord /\ SameButCells(t, e) /\ e.column = t.column /\ e.cells = [t.cells EXCEPT ![n % History] = F]
      /\ Lists(t, e, {n} \X GoneIn(f, x)) /\ TextOK(e) /\ Tells(t, e)
  <2> HIDE DEF n
  <2>1. TextOK(e) /\ Tells(t, e)
    BY <1>4, <1>7, EraseAtTells DEF n
  <2>2. /\ e \in TextRecord /\ SameButCells(t, e) /\ e.column = t.column
        /\ e.cells = [t.cells EXCEPT ![n % History] = Erased(t.cells[n % History], x)]
        /\ Lists(t, e, {n} \X GoneIn(t.cells[n % History], x))
    <3>1. t \in TextRecord /\ n \in Nat /\ x \in Columns0
      BY <1>4, <1>7
    <3> QED BY <3>1, EraseAtFacts, Zenon
  <2> QED BY <2>1, <2>2 DEF f, n
<1> HIDE DEF e
<1>10. F \in Cells /\ F[x] = Empty /\ (\A c \in Columns0 : F[c] = f[c] \/ F[c] = Empty)
  BY <1>4, <1>7, ErasedFacts
<1>11. RowChanged(t, e, n, F)
  BY <1>9 DEF RowChanged
<1> HIDE DEF F
<1>12. /\ e.cells[n % History] = F
       /\ \A r \in t.oldest .. n : r # n => e.cells[r % History] = t.cells[r % History]
  <2> HIDE DEF n
  <2> QED BY <1>7, <1>10, <1>11, RowChangedFacts DEF n
<1>13. /\ e.oldest = t.oldest /\ e.newest = n /\ e.view = t.view /\ e.repaint = t.repaint
  BY <1>9 DEF SameButCells
<1>14. /\ row + RowAfter(m) \in Nat /\ row + RowAfter(m) <= n /\ row <= row + RowAfter(m)
       /\ row + RowAfter(m) = n \/ (row + RowAfter(m) + 1 = n /\ x = 0 /\ ColumnAfter(m) = Columns)
  <2>1. CASE ColumnAfter(m) < Columns
    BY <1>1, <1>4, <1>5, <1>6, <2>1
  <2>2. CASE ColumnAfter(m) = Columns
    BY <1>1, <1>4, <1>5, <1>6, <2>2
  <2>3. ColumnAfter(m) < Columns \/ ColumnAfter(m) = Columns
    BY <1>5, Sizes
  <2> QED BY <2>1, <2>2, <2>3
<1>15. /\ d \in TextRecord /\ d.cells = e.cells /\ d.oldest = t.oldest /\ d.newest = row + RowAfter(m)
       /\ d.column = ColumnAfter(m) /\ d.view = t.view /\ d.repaint = t.repaint /\ d.dirty = e.dirty
  <2> HIDE DEF d, n
  <2> QED BY <1>5, <1>8, <1>9, <1>13, <1>14 DEF TextRecord
<1>16. u = [d EXCEPT !.view = Min({d.view, BottomView(d)})]
  BY DEF Deleted
<1> HIDE DEF d
<1> DEFINE b == BottomView(d)
           v == Min({d.view, b})
<1>17. b \in Nat /\ t.oldest <= b /\ b <= d.newest
  <2>1. d.newest \in Nat /\ d.oldest \in Nat /\ d.oldest <= d.newest
    BY <1>1, <1>7, <1>14, <1>15
  <2> QED BY <1>15, <2>1, BottomFacts
<1> HIDE DEF b
<1>18. t.view \in Nat /\ t.oldest <= t.view /\ v = IF t.view <= b THEN t.view ELSE b
  <2>1. t.view \in Nat /\ t.view \in t.oldest .. BottomView(t)
    BY <1>7 DEF TextOK, TextRecord
  <2>2. BottomView(t) \in Nat
    BY <1>7, BottomFacts
  <2>3. v = IF t.view <= b THEN t.view ELSE b
    BY <1>15, <1>17, <2>1, MinOfTwo
  <2>4. t.oldest <= t.view
    BY <1>7, <2>1, <2>2
  <2> QED BY <2>1, <2>3, <2>4
<1> HIDE DEF v
<1>19. v \in Nat /\ t.oldest <= v /\ v <= b
  BY <1>7, <1>17, <1>18
<1>20. /\ u \in TextRecord /\ u.cells = e.cells /\ u.oldest = t.oldest /\ u.newest = row + RowAfter(m)
       /\ u.column = ColumnAfter(m) /\ u.view = v /\ u.repaint = t.repaint /\ u.dirty = e.dirty
  <2>1. u = [d EXCEPT !.view = v]
    BY <1>16 DEF b, v
  <2> HIDE DEF u
  <2> QED BY <1>15, <1>19, <2>1 DEF TextRecord
<1> HIDE DEF u
<1>21. BottomView(u) = b
  BY <1>15, <1>20 DEF BottomView, b
<1>22. TextOK(u)
  <2>1. u.newest - u.oldest \in 0 .. History - 1
    <3> DEFINE a == t.oldest
               w == row + RowAfter(m)
    <3>1. n - a \in 0 .. History - 1
      BY DEF TextOK
    <3>2. a \in Nat /\ w \in Nat /\ a <= w /\ w <= n /\ n \in Nat
      BY <1>1, <1>7, <1>14
    <3> HIDE DEF a, w, n
    <3>3. w - a \in 0 .. History - 1
      BY <3>1, <3>2, Sizes
    <3>4. u.newest = w /\ u.oldest = a
      BY <1>20 DEF a, w
    <3> QED BY <3>3, <3>4
  <2>2. u.view \in u.oldest .. BottomView(u)
    BY <1>7, <1>17, <1>19, <1>20, <1>21
  <2>3. ASSUME NEW r \in u.oldest .. u.newest PROVE WholeRow(u.cells[r % History])
    <3>1. r \in e.oldest .. e.newest
      BY <1>7, <1>13, <1>14, <1>20
    <3> QED BY <1>9, <1>20, <3>1 DEF TextOK
  <2> QED BY <1>20, <2>1, <2>2, <2>3 DEF TextOK
<1>23. StandsAt(u, row, col, G)
  <2> SUFFICES ASSUME NEW i \in 1 .. Len(inp) - 1
               PROVE  /\ row + (col + i - 1) \div Columns <= u.newest
                      /\ ReadCell(u, row + (col + i - 1) \div Columns, (col + i - 1) % Columns) = G[i]
    BY <1>2 DEF StandsAt
  <2> DEFINE p == col + i - 1
             r == row + p \div Columns
             c == p % Columns
  <2>1. p \in Nat /\ p \div Columns \in Nat /\ c \in Columns0 /\ i \in Nat \ {0} /\ i \in 1 .. Len(inp)
    <3>1. i \in Nat \ {0} /\ i \in 1 .. Len(inp)
      BY <1>2
    <3>2. p \in Nat /\ p \div Columns \in Nat /\ c \in Columns0
      BY <1>1, <3>1, PlaceOf
    <3> QED BY <3>1, <3>2
  <2>2. r <= n /\ ReadCell(t, r, c) = inp[i] /\ inp[i] \in Letters
    BY <1>1, <2>1 DEF StandsAt
  <2>3. p < m /\ p + 1 <= m
    BY <1>2, <1>3, <2>1
  <2>4. G[i] = inp[i]
    BY <1>2
  <2> HIDE DEF p
  <2>5. r <= row + RowAfter(m)
    <3>1. m # 0 /\ m - 1 \in Nat /\ p <= m - 1
      BY <1>3, <2>1, <2>3
    <3>2. RowAfter(m) = (m - 1) \div Columns
      BY <3>1 DEF RowAfter
    <3>3. p \div Columns <= (m - 1) \div Columns
      <4> DEFINE k == m - 1
      <4>1. k \in Nat /\ p <= k
        BY <3>1
      <4> HIDE DEF k
      <4>2. p \div Columns <= k \div Columns
        BY <2>1, <4>1, RowsRise
      <4> QED BY <4>2 DEF k
    <3> QED BY <1>1, <1>5, <2>1, <3>2, <3>3
  <2>6. r \in t.oldest .. n
    BY <1>1, <1>7, <2>1, <2>2
  <2>7. ReadCell(u, r, c) = inp[i]
    <3>1. CASE r # n
      BY <1>12, <1>20, <2>2, <2>6, <3>1 DEF ReadCell
    <3>2. CASE r = n
      <4>1. p \div Columns = q
        BY <1>1, <1>4, <1>6, <2>1, <3>2
      <4>2. c # x
        BY <1>3, <2>1, <2>3, <4>1, PlacesDiffer DEF q, x
      <4>3. f[c] = inp[i] /\ f[c] \notin Wide /\ f[c] # Half
        BY <2>2, <3>2, GlyphFacts DEF ReadCell, f
      <4>4. F[c] = f[c]
        <5> HIDE DEF c
        <5> QED BY <1>4, <1>7, <2>1, <4>2, <4>3, ErasedSpares DEF F
      <4> QED BY <1>12, <1>20, <3>2, <4>3, <4>4 DEF ReadCell
    <3> QED BY <3>1, <3>2
  <2> QED BY <1>20, <2>4, <2>5, <2>7 DEF p
<1>24. \A c \in Columns0 : n > row /\ c >= x => F[c] = Empty
  <2> SUFFICES ASSUME NEW c \in Columns0, n > row, c >= x PROVE F[c] = Empty
    OBVIOUS
  <2>1. CASE c = x
    BY <1>10, <2>1
  <2>2. CASE c # x
    <3>1. c >= t.column
      BY <1>4, <1>6, <2>2, Sizes
    <3>2. f[c] = Empty
      BY <1>1, <3>1 DEF EmptyRight, ReadCell, f
    <3> QED BY <1>10, <3>2
  <2> QED BY <2>1, <2>2
<1>25. EmptyRight(u, row)
  <2> SUFFICES ASSUME u.newest > row, NEW c \in Columns0, c >= u.column PROVE ReadCell(u, u.newest, c) = Empty
    BY DEF EmptyRight
  <2>1. ColumnAfter(m) # Columns
    BY <1>20, Sizes
  <2>2. u.newest = n /\ x = ColumnAfter(m)
    BY <1>5, <1>14, <1>20, <2>1, Sizes
  <2> QED BY <1>12, <1>20, <1>24, <2>2 DEF ReadCell
<1>26. Stands(u, row, col, G, lim)
  <2>1. u.newest = row + RowAfter(col + Len(G)) /\ u.column = ColumnAfter(col + Len(G))
    BY <1>3, <1>20
  <2> QED BY <1>1, <1>20, <1>23, <1>25, <2>1, StandsParts
<1>27. ASSUME ~(d.view > b) PROVE Tells(t, u)
  <2>1. v = t.view
    BY <1>15, <1>17, <1>18, <1>27
  <2>2. ASSUME NEW s \in Screen PROVE Visible(u, s[1], s[2]) = Visible(e, s[1], s[2])
    <3> DEFINE r == t.view + s[1]
               c == s[2]
               w == row + RowAfter(m)
    <3>1. Visible(u, s[1], s[2]) = IF r \in t.oldest .. w THEN e.cells[r % History][c] ELSE Empty
      BY <1>20, <2>1 DEF Visible, ReadCell
    <3>2. Visible(e, s[1], s[2]) = IF r \in t.oldest .. n THEN e.cells[r % History][c] ELSE Empty
      BY <1>13 DEF Visible, ReadCell
    <3>3. c \in Columns0
      BY DEF Screen
    <3> HIDE DEF r, c, w
    <3>4. CASE w = n
      BY <3>1, <3>2, <3>4
    <3>5. CASE w + 1 = n /\ x = 0
      <4>1. w \in Nat /\ row <= w
        BY <1>14 DEF w
      <4>2. n > row
        BY <1>1, <1>7, <3>5, <4>1
      <4>3. F[c] = Empty
        <5>1. c >= x
          BY <3>3, <3>5, Sizes
        <5> QED BY <1>24, <3>3, <4>2, <5>1
      <4>4. r = n => e.cells[r % History][c] = Empty
        BY <1>12, <4>3
      <4>5. r \in t.oldest .. n => r = n \/ r \in t.oldest .. w
        BY <1>7, <3>5, <4>1
      <4>6. r \in t.oldest .. w => r \in t.oldest .. n
        BY <1>7, <3>5, <4>1
      <4> QED BY <3>1, <3>2, <4>4, <4>5, <4>6
    <3> QED BY <1>14, <3>4, <3>5 DEF w
  <2>3. Tells(e, u)
    <3>1. CASE u.repaint
      BY <3>1 DEF Tells
    <3>2. CASE ~u.repaint
      BY <1>13, <1>20, <2>1, <2>2, <3>2 DEF Tells
    <3> QED BY <3>1, <3>2
  <2> QED BY <1>9, <1>13, <1>20, <2>3, TellsOn
<1> QED BY <1>22, <1>26, <1>27 DEF u, d, b, G

-----------------------------------------------------------------------------
\* What is on a cell of a row of whole characters.
InkOf(f, k) ==
  IF f[k] = Empty THEN {} ELSE IF f[k] = Half THEN {<<f[k - 1], k - 1>>} ELSE {<<f[k], k>>}

\* The character at c covers cell k.
Reaches(f, c, k) == f[c] \notin {Empty, Half} /\ k \in c .. c + Width(f[c]) - 1

LEMMA ReachFacts ==
  ASSUME NEW f \in Cells, WholeRow(f), NEW c \in Columns0, NEW k \in Columns0
  PROVE  Reaches(f, c, k) <=> \/ c = k /\ f[k] # Empty /\ f[k] # Half
                              \/ c = k - 1 /\ f[k] = Half
<1>1. c \in Nat /\ k \in Nat
  BY Sizes
<1>2. Width(f[c]) \in {1, 2} /\ (Width(f[c]) = 2 <=> f[c] \in Wide)
  BY GlyphFacts
<1>3. ASSUME Reaches(f, c, k) PROVE (c = k /\ f[k] # Empty /\ f[k] # Half) \/ (c = k - 1 /\ f[k] = Half)
  <2>1. f[c] # Empty /\ f[c] # Half /\ k \in c .. c + Width(f[c]) - 1
    BY <1>3 DEF Reaches
  <2>2. k = c \/ (k = c + 1 /\ Width(f[c]) = 2)
    BY <1>1, <1>2, <2>1
  <2>3. CASE k = c
    BY <2>1, <2>3
  <2>4. CASE k = c + 1 /\ Width(f[c]) = 2
    <3>1. f[c + 1] = Half
      BY <1>2, <2>4 DEF WholeRow
    <3> QED BY <1>1, <2>4, <3>1
  <2> QED BY <2>2, <2>3, <2>4
<1>4. ASSUME c = k, f[k] # Empty, f[k] # Half PROVE Reaches(f, c, k)
  <2>1. k \in c .. c + Width(f[c]) - 1
    BY <1>1, <1>2, <1>4
  <2> QED BY <1>4, <2>1 DEF Reaches
<1>5. ASSUME c = k - 1, f[k] = Half PROVE Reaches(f, c, k)
  <2>1. f[c] \in Wide
    BY <1>5 DEF WholeRow
  <2>2. k \in c .. c + Width(f[c]) - 1
    BY <1>1, <1>2, <1>5, <2>1
  <2> QED BY <2>1, <2>2, GlyphFacts DEF Reaches
<1> QED BY <1>3, <1>4, <1>5

\* The characters of the columns in R leave on cell k what is on it, when no character
\* reaches across the border of R.
InkFrom(f, R, k) == {<<f[c], c>> : c \in {d \in R : Reaches(f, d, k)}}
Closed(f, R) == R \subseteq Columns0 /\ \A c \in Columns0 : c > 0 /\ f[c] = Half => (c \in R <=> c - 1 \in R)

LEMMA InkFromFacts ==
  ASSUME NEW f \in Cells, WholeRow(f), NEW R, Closed(f, R), NEW k \in Columns0
  PROVE  InkFrom(f, R, k) = IF k \in R THEN InkOf(f, k) ELSE {}
<1>1. R \subseteq Columns0 /\ (k > 0 /\ f[k] = Half => (k \in R <=> k - 1 \in R))
  BY DEF Closed
<1>2. f[k] = Half => k > 0
  BY DEF WholeRow
<1>3. \A c \in R : Reaches(f, c, k) <=> \/ c = k /\ f[k] # Empty /\ f[k] # Half
                                        \/ c = k - 1 /\ f[k] = Half
  BY <1>1, ReachFacts
<1>4. {d \in R : Reaches(f, d, k)} =
        {d \in R : (d = k /\ f[k] # Empty /\ f[k] # Half) \/ (d = k - 1 /\ f[k] = Half)}
  BY <1>3
<1> DEFINE S == {d \in R : (d = k /\ f[k] # Empty /\ f[k] # Half) \/ (d = k - 1 /\ f[k] = Half)}
<1>5. InkFrom(f, R, k) = {<<f[c], c>> : c \in S}
  BY <1>4 DEF InkFrom
<1>6. CASE k \notin R
  <2>1. S = {}
    BY <1>1, <1>2, <1>6
  <2> HIDE DEF S
  <2> QED BY <1>5, <1>6, <2>1
<1>7. CASE k \in R /\ f[k] = Empty
  <2>1. S = {}
    BY <1>7, GlyphFacts
  <2> HIDE DEF S
  <2> QED BY <1>5, <1>7, <2>1 DEF InkOf
<1>8. CASE k \in R /\ f[k] = Half
  <2>1. S = {k - 1}
    BY <1>1, <1>2, <1>8
  <2> HIDE DEF S
  <2>2. {<<f[c], c>> : c \in {k - 1}} = {<<f[k - 1], k - 1>>}
    OBVIOUS
  <2> QED BY <1>5, <1>8, <2>1, <2>2, GlyphFacts DEF InkOf
<1>9. CASE k \in R /\ f[k] # Empty /\ f[k] # Half
  <2>1. S = {k}
    BY <1>9
  <2> HIDE DEF S
  <2>2. {<<f[c], c>> : c \in {k}} = {<<f[k], k>>}
    OBVIOUS
  <2> QED BY <1>5, <1>9, <2>1, <2>2 DEF InkOf
<1> QED BY <1>6, <1>7, <1>8, <1>9

LEMMA AllClosed ==
  ASSUME NEW f
  PROVE  Closed(f, Columns0)
<1>1. ASSUME NEW c \in Columns0, c > 0 PROVE c - 1 \in Columns0
  BY <1>1, Sizes
<1> QED BY <1>1 DEF Closed

-----------------------------------------------------------------------------
\* The cells that go with cell col when a row that looks like f is to look like v.
Joined(f, v, d) == f[d] = Half \/ v[d] = Half
RegionOf(f, v, col) ==
  {c \in Columns0 : /\ c < col => \A d \in c + 1 .. col : Joined(f, v, d)
                    /\ c > col => \A d \in col + 1 .. c : Joined(f, v, d)}
Merged(f, v, R) == [c \in Columns0 |-> IF c \in R THEN v[c] ELSE f[c]]

LEMMA RegionFacts ==
  ASSUME NEW f, NEW v, NEW col \in Columns0
  PROVE  /\ RegionOf(f, v, col) \subseteq Columns0 /\ col \in RegionOf(f, v, col)
         /\ Closed(f, RegionOf(f, v, col)) /\ Closed(v, RegionOf(f, v, col))
<1> DEFINE R == RegionOf(f, v, col)
<1>1. R \subseteq Columns0 /\ col \in R
  BY Sizes DEF RegionOf
<1>2. ASSUME NEW c \in Columns0, c > 0, Joined(f, v, c) PROVE c \in R <=> c - 1 \in R
  <2>1. c \in Nat /\ col \in Nat /\ c - 1 \in Columns0 /\ c - 1 \in Nat
    BY <1>2, Sizes
  <2>2. CASE c <= col
    <3>1. \A d : d \in (c - 1) + 1 .. col <=> d = c \/ d \in c + 1 .. col
      BY <2>1, <2>2
    <3>2. c - 1 < col /\ ~(c - 1 > col) /\ ~(c > col)
      BY <2>1, <2>2
    <3>3. c - 1 \in R <=> \A d \in (c - 1) + 1 .. col : Joined(f, v, d)
      BY <2>1, <3>2 DEF RegionOf
    <3>4. c \in R <=> \A d \in c + 1 .. col : Joined(f, v, d)
      <4>1. CASE c < col
        BY <3>2, <4>1 DEF RegionOf
      <4>2. CASE c = col
        <5>1. c \in R
          BY <1>1, <4>2
        <5>2. \A d \in c + 1 .. col : FALSE
          BY <2>1, <4>2
        <5> QED BY <5>1, <5>2
      <4> QED BY <2>1, <2>2, <4>1, <4>2
    <3> QED BY <1>2, <3>1, <3>3, <3>4
  <2>3. CASE c > col
    <3>1. \A d : d \in col + 1 .. c <=> d = c \/ d \in col + 1 .. c - 1
      BY <2>1, <2>3
    <3>2. ~(c < col) /\ ~(c - 1 < col)
      BY <2>1, <2>3
    <3>3. c \in R <=> \A d \in col + 1 .. c : Joined(f, v, d)
      BY <2>3, <3>2 DEF RegionOf
    <3>4. c - 1 \in R <=> \A d \in col + 1 .. c - 1 : Joined(f, v, d)
      <4>1. CASE c - 1 > col
        BY <2>1, <3>2, <4>1 DEF RegionOf
      <4>2. CASE c - 1 = col
        <5>1. c - 1 \in R
          BY <1>1, <4>2
        <5>2. \A d \in col + 1 .. c - 1 : FALSE
          BY <2>1, <4>2
        <5> QED BY <5>1, <5>2
      <4> QED BY <2>1, <2>3, <4>1, <4>2
    <3> QED BY <1>2, <3>1, <3>3, <3>4
  <2> QED BY <2>1, <2>2, <2>3
<1>3. Closed(f, R) /\ Closed(v, R)
  <2> HIDE DEF R
  <2> QED BY <1>1, <1>2 DEF Closed, Joined
<1> QED BY <1>1, <1>3

\* Such a region separates the two rows: the merged row is whole, and its cells are
\* covered as the ones they come from.
LEMMA MergedFacts ==
  ASSUME NEW f \in Cells, WholeRow(f), NEW v \in Cells, WholeRow(v), NEW R, Closed(f, R), Closed(v, R)
  PROVE  /\ Merged(f, v, R) \in Cells /\ WholeRow(Merged(f, v, R))
         /\ \A k \in Columns0 : InkOf(Merged(f, v, R), k) = IF k \in R THEN InkOf(v, k) ELSE InkOf(f, k)
<1> DEFINE g == Merged(f, v, R)
<1>1. g \in Cells /\ \A c \in Columns0 : g[c] = IF c \in R THEN v[c] ELSE f[c]
  BY DEF Merged, Cells
<1> HIDE DEF g
<1>2. ASSUME NEW c \in Columns0, g[c] \in Wide PROVE c + 1 < Columns /\ g[c + 1] = Half
  <2>1. CASE c \in R
    <3>1. c + 1 < Columns /\ v[c + 1] = Half
      BY <1>1, <1>2, <2>1 DEF WholeRow
    <3>2. c + 1 \in Columns0 /\ c + 1 > 0 /\ (c + 1) - 1 = c
      BY <3>1, Sizes
    <3>3. c + 1 \in R
      BY <2>1, <3>1, <3>2 DEF Closed
    <3> QED BY <1>1, <3>1, <3>2, <3>3
  <2>2. CASE c \notin R
    <3>1. c + 1 < Columns /\ f[c + 1] = Half
      BY <1>1, <1>2, <2>2 DEF WholeRow
    <3>2. c + 1 \in Columns0 /\ c + 1 > 0 /\ (c + 1) - 1 = c
      BY <3>1, Sizes
    <3>3. c + 1 \notin R
      BY <2>2, <3>1, <3>2 DEF Closed
    <3> QED BY <1>1, <3>1, <3>2, <3>3
  <2> QED BY <2>1, <2>2
<1>3. ASSUME NEW c \in Columns0, g[c] = Half
      PROVE  /\ c > 0 /\ g[c - 1] \in Wide
             /\ g[c - 1] = IF c \in R THEN v[c - 1] ELSE f[c - 1]
  <2>1. CASE c \in R
    <3>1. c > 0 /\ v[c - 1] \in Wide /\ v[c] = Half
      BY <1>1, <1>3, <2>1 DEF WholeRow
    <3>2. c - 1 \in Columns0
      BY <3>1, Sizes
    <3>3. c - 1 \in R
      BY <2>1, <3>1 DEF Closed
    <3> QED BY <1>1, <2>1, <3>1, <3>2, <3>3
  <2>2. CASE c \notin R
    <3>1. c > 0 /\ f[c - 1] \in Wide /\ f[c] = Half
      BY <1>1, <1>3, <2>2 DEF WholeRow
    <3>2. c - 1 \in Columns0
      BY <3>1, Sizes
    <3>3. c - 1 \notin R
      BY <2>2, <3>1 DEF Closed
    <3> QED BY <1>1, <2>2, <3>1, <3>2, <3>3
  <2> QED BY <2>1, <2>2
<1>4. WholeRow(g)
  BY <1>2, <1>3 DEF WholeRow
<1>5. ASSUME NEW k \in Columns0 PROVE InkOf(g, k) = IF k \in R THEN InkOf(v, k) ELSE InkOf(f, k)
  BY <1>1, <1>3, GlyphFacts DEF InkOf
<1> QED BY <1>1, <1>4, <1>5 DEF g

-----------------------------------------------------------------------------
\* The rows of what is drawn, and of what is to be seen.
RowPainted(F, row) == [c \in Columns0 |-> F[<<row, c>>]]
RowShown(t, row) == [c \in Columns0 |-> Visible(t, row, c)]
PaintRecord == [painted : [Screen -> Glyphs], ink : [Screen -> Ink], cursor : BOOLEAN]

LEMMA ScreenFacts ==
  /\ \A s \in Screen : s = <<s[1], s[2]>> /\ s[1] \in 0 .. Rows - 1 /\ s[2] \in Columns0 /\ s[1] \in Nat
  /\ \A row \in 0 .. Rows - 1, c \in Columns0 : <<row, c>> \in Screen
BY DEF Screen

LEMMA ShownFacts ==
  ASSUME NEW t, TextOK(t), NEW row \in Nat
  PROVE  /\ RowShown(t, row) \in Cells /\ WholeRow(RowShown(t, row))
         /\ \A c \in Columns0 : RowShown(t, row)[c] = Visible(t, row, c)
<1> DEFINE r == t.view + row
<1>1. \A c \in Columns0 : Visible(t, row, c) = IF r \in t.oldest .. t.newest THEN t.cells[r % History][c] ELSE Empty
  BY DEF Visible, ReadCell
<1>2. CASE r \in t.oldest .. t.newest
  <2>1. t.cells[r % History] \in Cells /\ WholeRow(t.cells[r % History])
    BY <1>2, NewestRow
  <2>2. RowShown(t, row) = t.cells[r % History]
    <3> HIDE DEF r
    <3> QED BY <1>1, <1>2, <2>1 DEF RowShown, Cells
  <2> QED BY <2>1, <2>2 DEF RowShown
<1>3. CASE r \notin t.oldest .. t.newest
  <2>1. RowShown(t, row) = NoCells
    BY <1>1, <1>3 DEF RowShown, NoCells
  <2> QED BY <2>1, NoCellsWhole DEF RowShown
<1> QED BY <1>2, <1>3

LEMMA InkedFacts ==
  ASSUME NEW F, NEW row \in 0 .. Rows - 1, NEW k \in Columns0, RowPainted(F, row) \in Cells, WholeRow(RowPainted(F, row))
  PROVE  Inked(F, row, k) = InkOf(RowPainted(F, row), k)
<1> DEFINE f == RowPainted(F, row)
<1>1. \A c \in Columns0 : f[c] = F[<<row, c>>]
  BY DEF RowPainted
<1> HIDE DEF f
<1>2. \A c \in Columns0 : Reaches(f, c, k) <=> F[<<row, c>>] \notin {Empty, Half} /\ k \in c .. c + Width(F[<<row, c>>]) - 1
  BY <1>1 DEF Reaches
<1>3. Inked(F, row, k) = InkFrom(f, Columns0, k)
  BY <1>1, <1>2 DEF Inked, InkFrom
<1>4. f \in Cells /\ WholeRow(f)
  BY DEF f
<1>5. InkFrom(f, Columns0, k) = InkOf(f, k)
  BY <1>4, AllClosed, InkFromFacts
<1> QED BY <1>3, <1>5 DEF f

LEMMA RowPaintedFacts ==
  ASSUME NEW F \in [Screen -> Glyphs], NEW row \in 0 .. Rows - 1
  PROVE  RowPainted(F, row) \in Cells /\ \A c \in Columns0 : RowPainted(F, row)[c] = F[<<row, c>>]
BY ScreenFacts DEF RowPainted, Cells

LEMMA PaintParts ==
  ASSUME NEW p, NEW at
  PROVE  PaintOK(p, at) <=>
           /\ p \in PaintRecord
           /\ \A row \in 0 .. Rows - 1 : WholeRow(RowPainted(p.painted, row))
           /\ p.cursor => at \in Screen
           /\ \A s \in Screen : p.ink[s] = InkOf(RowPainted(p.painted, s[1]), s[2]) \cup CursorInk(p.cursor, at, s)
<1>1. PaintOK(p, at) <=>
        /\ p \in PaintRecord
        /\ \A row \in 0 .. Rows - 1 : WholeRow(RowPainted(p.painted, row))
        /\ p.cursor => at \in Screen
        /\ \A s \in Screen : p.ink[s] = Inked(p.painted, s[1], s[2]) \cup CursorInk(p.cursor, at, s)
  BY DEF PaintOK, PaintRecord, RowPainted
<1>2. ASSUME p \in PaintRecord, \A row \in 0 .. Rows - 1 : WholeRow(RowPainted(p.painted, row)), NEW s \in Screen
      PROVE  Inked(p.painted, s[1], s[2]) = InkOf(RowPainted(p.painted, s[1]), s[2])
  <2>1. p.painted \in [Screen -> Glyphs]
    BY <1>2 DEF PaintRecord
  <2>2. s[1] \in 0 .. Rows - 1 /\ s[2] \in Columns0
    BY ScreenFacts
  <2>3. RowPainted(p.painted, s[1]) \in Cells /\ WholeRow(RowPainted(p.painted, s[1]))
    BY <1>2, <2>1, <2>2, RowPaintedFacts
  <2> QED BY <2>2, <2>3, InkedFacts
<1> QED BY <1>1, <1>2

LEMMA InkOfType ==
  ASSUME NEW f \in Cells, WholeRow(f), NEW k \in Columns0
  PROVE  InkOf(f, k) \in Ink
<1>1. f[k] \in Glyphs
  BY DEF Cells
<1>2. f[k] = Half => k - 1 \in Columns0 /\ f[k - 1] \in Glyphs
  <2>1. f[k] = Half => k > 0
    BY DEF WholeRow
  <2> QED BY <2>1, Sizes DEF Cells
<1> QED BY <1>1, <1>2 DEF InkOf, Ink

LEMMA CursorInkType ==
  ASSUME NEW drawn, NEW at, NEW s \in Screen
  PROVE  CursorInk(drawn, at, s) \in Ink
BY ScreenFacts DEF CursorInk, Ink

-----------------------------------------------------------------------------
\* One cell is updated, with the cells that go with it.
LEMMA UpdateFacts ==
  ASSUME TextOK(text), NEW p, PaintOK(p, cursorAt), NEW row \in 0 .. Rows - 1, NEW col \in Columns0, NEW force \in BOOLEAN
  PROVE  /\ PaintOK(Update(p, row, col, force), cursorAt)
         /\ Update(p, row, col, force).painted[<<row, col>>] = Visible(text, row, col)
         /\ \A s \in Screen : \/ Update(p, row, col, force).painted[s] = p.painted[s]
                              \/ Update(p, row, col, force).painted[s] = Visible(text, s[1], s[2])
         /\ Update(p, row, col, force).cursor => p.cursor /\ ~(force /\ cursorAt = <<row, col>>)
<1> DEFINE u == Update(p, row, col, force)
           f == RowPainted(p.painted, row)
           v == RowShown(text, row)
           R == RegionOf(f, v, col)
           g == Merged(f, v, R)
           region == {row} \X R
           hit == p.cursor /\ cursorAt \in region
           erase == force \/ hit \/ \E s \in region : p.painted[s] # Empty
           painted1 == [s \in Screen |-> IF s \in region THEN Visible(text, s[1], s[2]) ELSE p.painted[s]]
           ink1 == [s \in Screen |->
                      IF s[1] = row THEN (IF erase /\ s \in region THEN {} ELSE p.ink[s]) \cup InkFrom(v, R, s[2])
                      ELSE p.ink[s]]
<1>1. /\ p \in PaintRecord
      /\ \A r \in 0 .. Rows - 1 : WholeRow(RowPainted(p.painted, r))
      /\ p.cursor => cursorAt \in Screen
      /\ \A s \in Screen : p.ink[s] = InkOf(RowPainted(p.painted, s[1]), s[2]) \cup CursorInk(p.cursor, cursorAt, s)
  BY PaintParts
<1>2. p.painted \in [Screen -> Glyphs] /\ p.ink \in [Screen -> Ink] /\ p.cursor \in BOOLEAN
  BY <1>1 DEF PaintRecord
<1>3. f \in Cells /\ WholeRow(f) /\ \A c \in Columns0 : f[c] = p.painted[<<row, c>>]
  BY <1>1, <1>2, RowPaintedFacts
<1>4. v \in Cells /\ WholeRow(v) /\ \A c \in Columns0 : v[c] = Visible(text, row, c)
  BY ShownFacts
<1> HIDE DEF f, v
<1>5. R \subseteq Columns0 /\ col \in R /\ Closed(f, R) /\ Closed(v, R)
  BY RegionFacts
<1>6. CASE ~force /\ p.painted[<<row, col>>] = Visible(text, row, col)
  <2>1. u = p
    BY <1>6 DEF Update
  <2> HIDE DEF u
  <2> QED BY <1>6, <2>1 DEF u
<1>7. CASE force \/ p.painted[<<row, col>>] # Visible(text, row, col)
  <2>1. Region(p, row, col) = R
    <3>1. \A d : d \in Columns0 => (Joined(f, v, d) <=> p.painted[<<row, d>>] = Half \/ Visible(text, row, d) = Half)
      BY <1>3, <1>4 DEF Joined
    <3> DEFINE J(d) == p.painted[<<row, d>>] = Half \/ Visible(text, row, d) = Half
    <3>2. Region(p, row, col) =
            {c \in Columns0 : /\ c < col => \A d \in c + 1 .. col : J(d)
                              /\ c > col => \A d \in col + 1 .. c : J(d)}
      BY DEF Region
    <3>3. ASSUME NEW c \in Columns0, c < col PROVE \A d \in c + 1 .. col : J(d) <=> Joined(f, v, d)
      <4>1. \A d \in c + 1 .. col : d \in Columns0
        BY <3>3, Sizes
      <4> QED BY <3>1, <4>1
    <3>4. ASSUME NEW c \in Columns0, c > col PROVE \A d \in col + 1 .. c : J(d) <=> Joined(f, v, d)
      <4>1. \A d \in col + 1 .. c : d \in Columns0
        BY <3>4, Sizes
      <4> QED BY <3>1, <4>1
    <3> HIDE DEF J
    <3>5. \A c \in Columns0 :
            /\ (c < col => \A d \in c + 1 .. col : J(d)) <=> (c < col => \A d \in c + 1 .. col : Joined(f, v, d))
            /\ (c > col => \A d \in col + 1 .. c : J(d)) <=> (c > col => \A d \in col + 1 .. c : Joined(f, v, d))
      BY <3>3, <3>4
    <3> QED BY <3>2, <3>5 DEF RegionOf
  <2> HIDE DEF R
  <2>2. ASSUME NEW k PROVE Drawn(row, R, k) = InkFrom(v, R, k)
    <3>1. \A c \in R : Reaches(v, c, k) <=> Visible(text, row, c) \notin {Empty, Half} /\ k \in c .. c + Width(Visible(text, row, c)) - 1
      BY <1>4, <1>5 DEF Reaches
    <3>2. \A c \in R : v[c] = Visible(text, row, c)
      BY <1>4, <1>5
    <3> QED BY <3>1, <3>2 DEF Drawn, InkFrom
  <2>3. u = [painted |-> painted1, ink |-> ink1, cursor |-> p.cursor /\ ~hit]
    <3>1. ~(~force /\ p.painted[<<row, col>>] = Visible(text, row, col))
      BY <1>7
    <3>2. ink1 = [s \in Screen |->
                    IF s[1] = row THEN (IF erase /\ s \in region THEN {} ELSE p.ink[s]) \cup Drawn(row, R, s[2])
                    ELSE p.ink[s]]
      BY <2>2
    <3> HIDE DEF ink1
    <3> QED BY <2>1, <3>1, <3>2 DEF Update
  <2>4. u.painted = painted1 /\ u.ink = ink1 /\ u.cursor = (p.cursor /\ ~hit)
    <3> HIDE DEF u, painted1, ink1, hit
    <3> QED BY <2>3
  <2> HIDE DEF u
  <2>5. /\ g \in Cells /\ WholeRow(g)
        /\ \A k \in Columns0 : InkOf(g, k) = IF k \in R THEN InkOf(v, k) ELSE InkOf(f, k)
    BY <1>3, <1>4, <1>5, MergedFacts
  <2>6. \A s \in Screen : s \in region <=> s[1] = row /\ s[2] \in R
    BY <1>5, ScreenFacts
  <2>7. painted1 \in [Screen -> Glyphs]
    <3>1. \A s \in Screen : s \in region => Visible(text, s[1], s[2]) \in Glyphs
      BY <1>4, <1>5, <2>6 DEF Cells
    <3> HIDE DEF region
    <3> QED BY <1>2, <3>1
  <2>8. RowPainted(painted1, row) = g
    <3>1. \A c \in Columns0 : painted1[<<row, c>>] = IF c \in R THEN v[c] ELSE f[c]
      BY <1>3, <1>4, <2>6, ScreenFacts
    <3> HIDE DEF painted1
    <3> QED BY <3>1 DEF RowPainted, Merged
  <2>9. ASSUME NEW r \in 0 .. Rows - 1, r # row PROVE RowPainted(painted1, r) = RowPainted(p.painted, r)
    <3>1. \A c \in Columns0 : painted1[<<r, c>>] = p.painted[<<r, c>>]
      BY <2>6, <2>9, ScreenFacts
    <3> HIDE DEF painted1
    <3> QED BY <3>1 DEF RowPainted
  <2>10. \A r \in 0 .. Rows - 1 : WholeRow(RowPainted(painted1, r))
    BY <1>1, <2>5, <2>8, <2>9
  <2>11. ASSUME NEW s \in Screen
         PROVE  ink1[s] = InkOf(RowPainted(painted1, s[1]), s[2]) \cup CursorInk(p.cursor /\ ~hit, cursorAt, s)
    <3>1. s[1] \in 0 .. Rows - 1 /\ s[2] \in Columns0 /\ s = <<s[1], s[2]>>
      BY ScreenFacts
    <3>2. p.ink[s] = InkOf(RowPainted(p.painted, s[1]), s[2]) \cup CursorInk(p.cursor, cursorAt, s)
      BY <1>1
    <3>3. ~(s \in region) => CursorInk(p.cursor /\ ~hit, cursorAt, s) = CursorInk(p.cursor, cursorAt, s)
      BY DEF CursorInk
    <3>4. s \in region => CursorInk(p.cursor /\ ~hit, cursorAt, s) = {}
      BY DEF CursorInk
    <3>5. CASE s[1] # row
      <4>1. s \notin region
        BY <2>6, <3>5
      <4>2. ink1[s] = p.ink[s]
        BY <3>5
      <4> HIDE DEF ink1, painted1, hit, region
      <4> QED BY <2>9, <3>1, <3>2, <3>3, <3>5, <4>1, <4>2
    <3>6. CASE s[1] = row /\ s[2] \notin R
      <4>1. s \notin region
        BY <2>6, <3>6
      <4>2. InkFrom(v, R, s[2]) = {}
        BY <1>4, <1>5, <3>1, <3>6, InkFromFacts
      <4>3. ink1[s] = p.ink[s]
        <5> HIDE DEF region
        <5> QED BY <3>6, <4>1, <4>2
      <4>4. InkOf(g, s[2]) = InkOf(f, s[2])
        BY <2>5, <3>1, <3>6
      <4> HIDE DEF ink1, painted1, hit, region, g
      <4> QED BY <2>8, <3>2, <3>3, <3>6, <4>1, <4>3, <4>4 DEF f
    <3>7. CASE s[1] = row /\ s[2] \in R
      <4>1. s \in region
        BY <2>6, <3>7
      <4>2. InkFrom(v, R, s[2]) = InkOf(v, s[2])
        BY <1>4, <1>5, <3>1, <3>7, InkFromFacts
      <4>3. InkOf(g, s[2]) = InkOf(v, s[2])
        BY <2>5, <3>1, <3>7
      <4>4. ink1[s] = InkOf(v, s[2])
        <5>1. CASE erase
          <6> HIDE DEF erase, region
          <6> QED BY <3>7, <4>1, <4>2, <5>1
        <5>2. CASE ~erase
          <6>1. p.painted[s] = Empty /\ ~hit
            BY <4>1, <5>2
          <6>2. f[s[2]] = Empty
            BY <1>3, <3>1, <3>7, <6>1
          <6>3. InkOf(f, s[2]) = {}
            BY <6>2 DEF InkOf
          <6>4. CursorInk(p.cursor, cursorAt, s) = {}
            BY <4>1, <6>1 DEF CursorInk
          <6>5. p.ink[s] = {}
            BY <3>2, <3>7, <6>3, <6>4 DEF f
          <6> HIDE DEF erase, region
          <6> QED BY <3>7, <4>1, <4>2, <5>2, <6>5
        <5> QED BY <5>1, <5>2
      <4> HIDE DEF ink1, painted1, hit, region, g
      <4> QED BY <2>8, <3>4, <3>7, <4>1, <4>3, <4>4
    <3> QED BY <3>1, <3>5, <3>6, <3>7
  <2>12. ink1 \in [Screen -> Ink]
    <3>1. \A s \in Screen : InkOf(RowPainted(painted1, s[1]), s[2]) \in Ink /\ CursorInk(p.cursor /\ ~hit, cursorAt, s) \in Ink
      <4> HIDE DEF painted1, hit
      <4>1. \A r \in 0 .. Rows - 1 : RowPainted(painted1, r) \in Cells
        BY <2>7, RowPaintedFacts
      <4> QED BY <2>10, <4>1, ScreenFacts, InkOfType, CursorInkType
    <3>2. \A s \in Screen : ink1[s] \in Ink
      <4> HIDE DEF ink1, painted1, hit
      <4> QED BY <2>11, <3>1 DEF Ink
    <3> QED BY <3>2
  <2>13. PaintOK(u, cursorAt)
    <3>1. u \in PaintRecord
      <4>1. u = [painted |-> painted1, ink |-> ink1, cursor |-> (p.cursor /\ ~hit)]
        BY <2>3
      <4>2. (p.cursor /\ ~hit) \in BOOLEAN
        OBVIOUS
      <4> HIDE DEF painted1, ink1, hit
      <4> QED BY <2>7, <2>12, <4>1, <4>2 DEF PaintRecord
    <3>2. u.cursor => cursorAt \in Screen
      BY <1>1, <2>4
    <3> HIDE DEF painted1, ink1, hit
    <3>3. \A s \in Screen : u.ink[s] = InkOf(RowPainted(u.painted, s[1]), s[2]) \cup CursorInk(u.cursor, cursorAt, s)
      BY <2>4, <2>11
    <3> QED BY <2>4, <2>10, <3>1, <3>2, <3>3, PaintParts
  <2>14. u.painted[<<row, col>>] = Visible(text, row, col)
    BY <1>5, <2>4, ScreenFacts
  <2>15. \A s \in Screen : u.painted[s] = p.painted[s] \/ u.painted[s] = Visible(text, s[1], s[2])
    <3> HIDE DEF region
    <3> QED BY <2>4
  <2>16. u.cursor => p.cursor /\ ~(force /\ cursorAt = <<row, col>>)
    <3>1. <<row, col>> \in region
      BY <1>5
    <3> HIDE DEF region
    <3> QED BY <2>4, <3>1
  <2> QED BY <2>13, <2>14, <2>15, <2>16 DEF u
<1> QED BY <1>6, <1>7

-----------------------------------------------------------------------------
\* The cell with its left neighbour: a right half goes with it.
LEMMA HalfFollows ==
  ASSUME TextOK(text), NEW p, PaintOK(p, cursorAt), NEW s \in Screen, Visible(text, s[1], s[2]) = Half,
         s[2] > 0 => p.painted[<<s[1], s[2] - 1>>] = Visible(text, s[1], s[2] - 1)
  PROVE  <<s[1], s[2] - 1>> \in Screen /\ p.painted[s] = Visible(text, s[1], s[2])
<1> DEFINE f == RowPainted(p.painted, s[1])
           v == RowShown(text, s[1])
           k == s[2]
<1>1. s[1] \in 0 .. Rows - 1 /\ s[1] \in Nat /\ k \in Columns0 /\ s = <<s[1], k>>
  BY ScreenFacts
<1>2. WholeRow(v) /\ \A c \in Columns0 : v[c] = Visible(text, s[1], c)
  BY <1>1, ShownFacts
<1>3. p \in PaintRecord /\ WholeRow(f)
  BY <1>1, PaintParts
<1>4. \A c \in Columns0 : f[c] = p.painted[<<s[1], c>>]
  <2>1. p.painted \in [Screen -> Glyphs]
    BY <1>3 DEF PaintRecord
  <2> QED BY <1>1, <2>1, RowPaintedFacts
<1> HIDE DEF f, v
<1>5. k > 0 /\ v[k - 1] \in Wide /\ k - 1 \in Columns0 /\ (k - 1) + 1 = k
  <2>1. v[k] = Half
    BY <1>1, <1>2
  <2>2. k > 0 /\ v[k - 1] \in Wide
    BY <1>1, <1>2, <2>1 DEF WholeRow
  <2> QED BY <1>1, <2>2, Sizes
<1>6. f[k - 1] \in Wide
  BY <1>2, <1>4, <1>5
<1>7. f[k] = Half
  BY <1>3, <1>5, <1>6 DEF WholeRow
<1> QED BY <1>1, <1>4, <1>5, <1>7, ScreenFacts

\* The cursor is erased where it is not to be.
LEMMA MovedFacts ==
  ASSUME TextOK(text), NEW p, PaintOK(p, cursorAt), NEW visible
  PROVE  /\ PaintOK(Moved(p, visible), cursorAt)
         /\ Moved(p, visible).cursor => Shown(visible) /\ CursorCell = cursorAt
         /\ \A s \in Screen : \/ Moved(p, visible).painted[s] = p.painted[s]
                              \/ Moved(p, visible).painted[s] = Visible(text, s[1], s[2])
<1> DEFINE u == Moved(p, visible)
<1>1. CASE p.cursor /\ (~Shown(visible) \/ CursorCell # cursorAt)
  <2>1. u = Update(p, cursorAt[1], cursorAt[2], TRUE)
    BY <1>1 DEF Moved
  <2>2. cursorAt \in Screen
    BY <1>1, PaintParts
  <2>3. cursorAt[1] \in 0 .. Rows - 1 /\ cursorAt[2] \in Columns0 /\ cursorAt = <<cursorAt[1], cursorAt[2]>>
    BY <2>2, ScreenFacts
  <2> HIDE DEF u
  <2>4. /\ PaintOK(u, cursorAt)
        /\ \A s \in Screen : u.painted[s] = p.painted[s] \/ u.painted[s] = Visible(text, s[1], s[2])
        /\ u.cursor => p.cursor /\ ~(TRUE /\ cursorAt = <<cursorAt[1], cursorAt[2]>>)
    <3> DEFINE r == cursorAt[1]
               c == cursorAt[2]
               force == TRUE
    <3>1. u = Update(p, r, c, force) /\ r \in 0 .. Rows - 1 /\ c \in Columns0 /\ force \in BOOLEAN
      BY <2>1, <2>3
    <3> HIDE DEF r, c, force
    <3>2. /\ PaintOK(Update(p, r, c, force), cursorAt)
          /\ Update(p, r, c, force).painted[<<r, c>>] = Visible(text, r, c)
          /\ \A s \in Screen : \/ Update(p, r, c, force).painted[s] = p.painted[s]
                               \/ Update(p, r, c, force).painted[s] = Visible(text, s[1], s[2])
          /\ Update(p, r, c, force).cursor => p.cursor /\ ~(force /\ cursorAt = <<r, c>>)
      BY <3>1, UpdateFacts
    <3>3. /\ PaintOK(u, cursorAt)
          /\ \A s \in Screen : u.painted[s] = p.painted[s] \/ u.painted[s] = Visible(text, s[1], s[2])
          /\ u.cursor => p.cursor /\ ~(force /\ cursorAt = <<r, c>>)
      BY <3>1, <3>2
    <3> QED BY <3>3 DEF r, c, force
  <2> QED BY <2>3, <2>4 DEF u
<1>2. CASE ~(p.cursor /\ (~Shown(visible) \/ CursorCell # cursorAt))
  <2>1. u = p
    BY <1>2 DEF Moved
  <2> HIDE DEF u
  <2> QED BY <1>2, <2>1 DEF u
<1> QED BY <1>1, <1>2

-----------------------------------------------------------------------------
\* All cells that are due, one after another.
Size == Rows * Columns
CellsDone(a, n) == \A i \in 1 .. n : Cell(i) \in Due => a.painted[Cell(i)] = Visible(text, Cell(i)[1], Cell(i)[2])
Progress(p, a, n) ==
  /\ PaintOK(a, cursorAt) /\ (a.cursor => p.cursor)
  /\ \A s \in Screen : p.painted[s] = Visible(text, s[1], s[2]) => a.painted[s] = Visible(text, s[1], s[2])
  /\ CellsDone(a, n)

LEMMA SizeFacts == Size \in Nat /\ Columns * Rows = Size
BY Sizes, SMTT(30) DEF Size

LEMMA CellFacts ==
  ASSUME NEW n \in 1 .. Size
  PROVE  Cell(n) \in Screen /\ Cell(n)[1] \in 0 .. Rows - 1 /\ Cell(n)[2] \in Columns0 /\ Cell(n) = <<Cell(n)[1], Cell(n)[2]>>
<1> DEFINE m == n - 1
           q == m \div Columns
           r == m % Columns
<1>1. m \in Nat /\ m < Size
  BY SizeFacts
<1> HIDE DEF m
<1>2. q \in Nat /\ r \in 0 .. Columns - 1 /\ m = Columns * q + r
  BY <1>1, Division, Sizes
<1> HIDE DEF q, r
<1>3. q < Rows
  <2>1. SUFFICES ASSUME Rows <= q PROVE FALSE
    BY <1>2, Sizes
  <2>2. Columns * Rows <= Columns * q
    <3>1. CASE Rows = q
      BY <1>2, <3>1, Sizes, SizeFacts
    <3>2. CASE Rows < q
      <4>1. Columns * Rows + Columns <= Columns * q
        BY <1>2, <3>2, Multiples, Sizes
      <4>2. Columns * q \in Nat /\ Columns * Rows \in Nat
        BY <1>2, Sizes, SMTT(30)
      <4> QED BY <4>1, <4>2, Sizes
    <3> QED BY <1>2, <2>1, <3>1, <3>2, Sizes
  <2>3. Columns * q \in Nat
    BY <1>2, Sizes, SMTT(30)
  <2> QED BY <1>1, <1>2, <2>2, <2>3, Sizes, SizeFacts
<1>4. Cell(n) = <<q, r>>
  BY DEF Cell, q, r, m
<1> QED BY <1>2, <1>3, <1>4, ScreenFacts, Sizes

LEMMA CellOf ==
  ASSUME NEW s \in Screen
  PROVE  \E n \in 1 .. Size : Cell(n) = s
<1> DEFINE q == s[1]
           r == s[2]
           m == Columns * q + r
<1>1. q \in 0 .. Rows - 1 /\ r \in 0 .. Columns - 1 /\ s = <<q, r>> /\ q \in Nat /\ r \in Nat
  BY ScreenFacts, Sizes
<1> HIDE DEF q, r
<1>2. Columns * q \in Nat /\ Columns * q + Columns <= Columns * Rows
  <2>1. Columns * q \in Nat
    BY <1>1, Sizes, SMTT(30)
  <2>2. q < Rows
    BY <1>1, Sizes
  <2> QED BY <1>1, <2>1, <2>2, Multiples, Sizes
<1>3. m \in Nat /\ m + 1 \in 1 .. Size /\ (m + 1) - 1 = m
  BY <1>1, <1>2, Sizes, SizeFacts
<1>4. m \div Columns = q /\ m % Columns = r
  <2>1. m = Columns * q + r
    OBVIOUS
  <2> HIDE DEF m
  <2> QED BY <1>1, <1>3, <2>1, Quotient, Sizes
<1> HIDE DEF m
<1>5. Cell(m + 1) = <<q, r>>
  BY <1>3, <1>4 DEF Cell
<1> QED BY <1>1, <1>3, <1>5

LEMMA ProgressStep ==
  ASSUME TextOK(text), NEW p, NEW a, NEW n \in 1 .. Size, Progress(p, a, n - 1)
  PROVE  Progress(p, IF Cell(n) \in Due THEN Update(a, Cell(n)[1], Cell(n)[2], FALSE) ELSE a, n)
<1> DEFINE b == IF Cell(n) \in Due THEN Update(a, Cell(n)[1], Cell(n)[2], FALSE) ELSE a
<1>1. /\ PaintOK(a, cursorAt) /\ (a.cursor => p.cursor)
      /\ \A s \in Screen : p.painted[s] = Visible(text, s[1], s[2]) => a.painted[s] = Visible(text, s[1], s[2])
      /\ \A i \in 1 .. n - 1 : Cell(i) \in Due => a.painted[Cell(i)] = Visible(text, Cell(i)[1], Cell(i)[2])
  BY DEF Progress, CellsDone
<1>2. /\ Cell(n) \in Screen /\ Cell(n)[1] \in 0 .. Rows - 1 /\ Cell(n)[2] \in Columns0
      /\ Cell(n) = <<Cell(n)[1], Cell(n)[2]>>
  BY CellFacts
<1>3. \A i \in 1 .. n : i \in 1 .. n - 1 \/ i = n
  BY SizeFacts
<1>4. \A i \in 1 .. n - 1 : Cell(i) \in Screen
  <2>1. \A i \in 1 .. n - 1 : i \in 1 .. Size
    BY SizeFacts
  <2> QED BY <2>1, CellFacts
<1>5. CASE Cell(n) \notin Due
  <2>1. b = a
    BY <1>5
  <2>2. CellsDone(a, n)
    BY <1>1, <1>3, <1>5 DEF CellsDone
  <2> QED BY <1>1, <2>1, <2>2 DEF Progress
<1>6. CASE Cell(n) \in Due
  <2>1. b = Update(a, Cell(n)[1], Cell(n)[2], FALSE)
    BY <1>6
  <2>2. /\ PaintOK(b, cursorAt)
        /\ b.painted[<<Cell(n)[1], Cell(n)[2]>>] = Visible(text, Cell(n)[1], Cell(n)[2])
        /\ \A s \in Screen : b.painted[s] = a.painted[s] \/ b.painted[s] = Visible(text, s[1], s[2])
        /\ b.cursor => a.cursor
    <3> DEFINE r == Cell(n)[1]
               c == Cell(n)[2]
               force == FALSE
    <3>1. b = Update(a, r, c, force) /\ r \in 0 .. Rows - 1 /\ c \in Columns0 /\ force \in BOOLEAN /\ PaintOK(a, cursorAt)
      BY <1>1, <1>2, <2>1
    <3> HIDE DEF r, c, b, force
    <3>2. /\ PaintOK(b, cursorAt)
          /\ b.painted[<<r, c>>] = Visible(text, r, c)
          /\ \A s \in Screen : b.painted[s] = a.painted[s] \/ b.painted[s] = Visible(text, s[1], s[2])
          /\ b.cursor => a.cursor /\ ~(force /\ cursorAt = <<r, c>>)
      BY <3>1, UpdateFacts
    <3> QED BY <3>2 DEF r, c, force
  <2> HIDE DEF b
  <2>3. CellsDone(b, n)
    <3> SUFFICES ASSUME NEW i \in 1 .. n, Cell(i) \in Due PROVE b.painted[Cell(i)] = Visible(text, Cell(i)[1], Cell(i)[2])
      BY DEF CellsDone
    <3>1. CASE i = n
      BY <1>2, <2>2, <3>1
    <3>2. CASE i \in 1 .. n - 1
      BY <1>1, <1>4, <2>2, <3>2
    <3> QED BY <1>3, <3>1, <3>2
  <2> QED BY <1>1, <2>2, <2>3 DEF Progress, b
<1> QED BY <1>5, <1>6

\* The order in which they are updated: row by row.
AfterCell(p, g) ==
  [n \in 0 .. Rows * Columns |->
     IF n = 0 THEN p
     ELSE IF Cell(n) \in Due THEN Update(g[n - 1], Cell(n)[1], Cell(n)[2], FALSE) ELSE g[n - 1]]
Painteds == {b \in PaintRecord : PaintOK(b, cursorAt)}
OneCell(n, b) == IF Cell(n) \in Due THEN Update(b, Cell(n)[1], Cell(n)[2], FALSE) ELSE b

LEMMA OneCellFacts ==
  ASSUME TextOK(text), NEW p, NEW a, NEW n \in 1 .. Size, Progress(p, a, n - 1)
  PROVE  Progress(p, OneCell(n, a), n)
BY ProgressStep DEF OneCell

LEMMA OneCellOK ==
  ASSUME TextOK(text), NEW n \in 1 .. Size, NEW b \in Painteds
  PROVE  OneCell(n, b) \in Painteds
<1> DEFINE r == Cell(n)[1]
           c == Cell(n)[2]
           force == FALSE
           u == OneCell(n, b)
<1>1. r \in 0 .. Rows - 1 /\ c \in Columns0 /\ force \in BOOLEAN /\ PaintOK(b, cursorAt)
  BY CellFacts DEF Painteds
<1>2. u = b \/ u = Update(b, r, c, force)
  BY DEF OneCell
<1> HIDE DEF u, r, c, force
<1>3. PaintOK(Update(b, r, c, force), cursorAt)
  BY <1>1, UpdateFacts
<1>4. PaintOK(u, cursorAt)
  BY <1>1, <1>2, <1>3
<1>5. u \in PaintRecord
  BY <1>4, PaintParts
<1> QED BY <1>4, <1>5 DEF u, Painteds

LEMMA UpdatedFacts ==
  ASSUME TextOK(text), NEW p, PaintOK(p, cursorAt)
  PROVE  Progress(p, Updated(p), Size)
<1> DEFINE S == Painteds
           N == Size
           a == CHOOSE g : g = AfterCell(p, g)
           G == [n \in 1 .. N |-> [b \in S |-> OneCell(n, b)]]
<1>1. Updated(p) = a[N]
  BY DEF Updated, AfterCell, Size
<1>2. p \in S /\ N \in Nat
  BY PaintParts, SizeFacts DEF Painteds
<1>3. G \in [1 .. N -> [S -> S]]
  <2>1. \A n \in 1 .. N : \A b \in S : OneCell(n, b) \in S
    <3> HIDE DEF N
    <3> QED BY OneCellOK DEF N
  <2> HIDE DEF S, N
  <2>2. \A n \in 1 .. N : [b \in S |-> OneCell(n, b)] \in [S -> S]
    BY <2>1
  <2> QED BY <2>2
<1>4. Counted(N, S, p, G)
  <2> HIDE DEF S, G, N
  <2> QED BY <1>2, <1>3 DEF Counted
<1>5. PICK g \in [0 .. N -> S] : SolvesCounted(g, N, p, G)
  <2> HIDE DEF S, G, N
  <2> QED BY <1>4, CountedSolved
<1>6. g = AfterCell(p, g)
  <2>1. ASSUME NEW n \in 0 .. N
        PROVE  g[n] = IF n = 0 THEN p
                      ELSE IF Cell(n) \in Due THEN Update(g[n - 1], Cell(n)[1], Cell(n)[2], FALSE) ELSE g[n - 1]
    <3>1. n # 0 => n \in 1 .. N /\ n - 1 \in 0 .. N
      BY <1>2
    <3>2. n # 0 => G[n][g[n - 1]] = OneCell(n, g[n - 1])
      <4>1. n # 0 => g[n - 1] \in S
        <5> HIDE DEF S, G, N
        <5> QED BY <3>1
      <4> HIDE DEF S, N
      <4> QED BY <3>1, <4>1
    <3>3. g[n] = IF n = 0 THEN p ELSE G[n][g[n - 1]]
      <4> HIDE DEF S, G, N
      <4> QED BY <1>5 DEF SolvesCounted
    <3> HIDE DEF S, G, N
    <3> QED BY <3>2, <3>3 DEF OneCell
  <2>2. g = [n \in 0 .. N |-> g[n]]
    <3> HIDE DEF S, G, N
    <3> QED OBVIOUS
  <2>3. 0 .. N = 0 .. Rows * Columns
    BY DEF Size
  <2> HIDE DEF S, G, a, N
  <2> QED BY <2>1, <2>2, <2>3 DEF AfterCell
<1>7. a = AfterCell(p, a)
  <2> HIDE DEF S, G, N
  <2> QED BY <1>6
<1> HIDE DEF a
<1> DEFINE T == {k \in 0 .. N : Progress(p, a[k], k)}
<1>8. \A n \in 0 .. N : a[n] = IF n = 0 THEN p ELSE OneCell(n, a[n - 1])
  <2>1. 0 .. N = 0 .. Rows * Columns
    BY DEF Size
  <2> HIDE DEF N
  <2> QED BY <1>7, <2>1 DEF AfterCell, OneCell
<1>9. 0 \in T
  <2>1. a[0] = p
    BY <1>2, <1>8
  <2>2. CellsDone(p, 0)
    BY DEF CellsDone
  <2>3. Progress(p, p, 0)
    BY <2>2 DEF Progress
  <2> QED BY <1>2, <2>1, <2>3
<1>10. ASSUME NEW k \in 1 .. N, k - 1 \in T PROVE k \in T
  <2>1. Progress(p, a[k - 1], k - 1) /\ k \in 0 .. N /\ k # 0
    BY <1>2, <1>10
  <2>2. a[k] = OneCell(k, a[k - 1])
    BY <1>8, <2>1
  <2>3. Progress(p, OneCell(k, a[k - 1]), k)
    BY <2>1, OneCellFacts
  <2> QED BY <2>1, <2>2, <2>3
<1>11. \A k \in 0 .. N : k \in T
  <2> HIDE DEF T, N
  <2> QED BY <1>2, <1>9, <1>10, CountedInduction
<1>12. Progress(p, a[N], N)
  <2>1. N \in T
    <3> HIDE DEF T
    <3> QED BY <1>2, <1>11
  <2> QED BY <2>1
<1> QED BY <1>1, <1>12

-----------------------------------------------------------------------------
\* A complete painting.
Seen(s) == Visible(text, s[1], s[2])
LEMMA PaintingFacts ==
  /\ Painting.painted = painted /\ Painting.ink = ink /\ Painting.cursor = cursorDrawn
  /\ Blank.cursor = FALSE
BY DEF Painting, Blank

LEMMA BlankOK == PaintOK(Blank, cursorAt)
<1>1. Blank.painted = [s \in Screen |-> Empty] /\ Blank.ink = [s \in Screen |-> {}] /\ Blank.cursor = FALSE
  BY DEF Blank
<1>2. Blank \in PaintRecord
  <2>1. [s \in Screen |-> Empty] \in [Screen -> Glyphs] /\ [s \in Screen |-> {}] \in [Screen -> Ink]
    BY GlyphFacts DEF Ink
  <2>2. Blank = [painted |-> [s \in Screen |-> Empty], ink |-> [s \in Screen |-> {}], cursor |-> FALSE]
    BY DEF Blank
  <2> QED BY <2>1, <2>2 DEF PaintRecord
<1>3. \A row \in 0 .. Rows - 1 : RowPainted(Blank.painted, row) = NoCells
  BY <1>1, ScreenFacts DEF RowPainted, NoCells
<1>4. ASSUME NEW s \in Screen
      PROVE  Blank.ink[s] = InkOf(RowPainted(Blank.painted, s[1]), s[2]) \cup CursorInk(Blank.cursor, cursorAt, s)
  <2>1. InkOf(NoCells, s[2]) = {}
    BY ScreenFacts DEF InkOf, NoCells
  <2>2. CursorInk(Blank.cursor, cursorAt, s) = {}
    BY <1>1 DEF CursorInk
  <2>3. RowPainted(Blank.painted, s[1]) = NoCells
    BY <1>3, ScreenFacts
  <2> QED BY <1>1, <2>1, <2>2, <2>3
<1> QED BY <1>1, <1>2, <1>3, <1>4, NoCellsWhole, PaintParts

\* Every cell is drawn right that was right before, is due, or is the right half of one that is due.
LEMMA AllUpdated ==
  ASSUME TextOK(text), NEW p, PaintOK(p, cursorAt), NEW visible, text.repaint \/ Current(text, p.painted)
  PROVE  \A s \in Screen : Updated(Moved(p, visible)).painted[s] = Seen(s)
<1> DEFINE m == Moved(p, visible)
           u == Updated(m)
<1>1. PaintOK(m, cursorAt) /\ \A s \in Screen : m.painted[s] = p.painted[s] \/ m.painted[s] = Seen(s)
  BY MovedFacts DEF Seen
<1> HIDE DEF m
<1>2. /\ PaintOK(u, cursorAt)
      /\ \A s \in Screen : m.painted[s] = Seen(s) => u.painted[s] = Seen(s)
      /\ \A i \in 1 .. Size : Cell(i) \in Due => u.painted[Cell(i)] = Seen(Cell(i))
  BY <1>1, UpdatedFacts DEF Progress, CellsDone, Seen
<1> HIDE DEF u
<1>3. ASSUME NEW s \in Screen, s \in Due PROVE u.painted[s] = Seen(s)
  <2>1. PICK i \in 1 .. Size : Cell(i) = s
    BY CellOf
  <2> QED BY <1>2, <1>3, <2>1
<1>4. CASE text.repaint
  <2>1. Due = Screen
    BY <1>4 DEF Due
  <2> QED BY <1>3, <2>1 DEF u, m
<1>5. CASE ~text.repaint
  <2>1. text.dirty \subseteq Nat \X Columns0 /\ text.view \in Nat
    BY DEF TextOK, TextRecord
  <2>2. Due = {<<d[1] - text.view, d[2]>> : d \in text.dirty} \cap Screen
    BY <1>5 DEF Due
  <2>3. ASSUME NEW s \in Screen, <<text.view + s[1], s[2]>> \in text.dirty PROVE s \in Due
    <3> DEFINE d == <<text.view + s[1], s[2]>>
    <3>1. s = <<s[1], s[2]>> /\ s[1] \in Nat
      BY ScreenFacts
    <3>2. (text.view + s[1]) - text.view = s[1]
      BY <2>1, <3>1
    <3>3. <<d[1] - text.view, d[2]>> = s
      BY <3>1, <3>2
    <3>4. d \in text.dirty
      BY <2>3
    <3> HIDE DEF d
    <3> QED BY <2>2, <3>3, <3>4
  <2>4. ASSUME NEW s \in Screen PROVE u.painted[s] = Seen(s)
    <3>1. p.painted[s] = Seen(s) \/ Covered(text, s)
      BY <1>5 DEF Current, Seen
    <3>2. CASE p.painted[s] = Seen(s)
      BY <1>1, <1>2, <3>2
    <3>3. CASE <<text.view + s[1], s[2]>> \in text.dirty
      BY <1>3, <2>3, <3>3
    <3>4. CASE Visible(text, s[1], s[2]) = Half /\ <<text.view + s[1], s[2] - 1>> \in text.dirty
      <4> DEFINE l == <<s[1], s[2] - 1>>
      <4>1. s[1] \in 0 .. Rows - 1 /\ s[2] - 1 \in Columns0
        BY <2>1, <3>4, ScreenFacts
      <4>2. l \in Screen /\ l[1] = s[1] /\ l[2] = s[2] - 1
        BY <4>1, ScreenFacts
      <4> HIDE DEF l
      <4>3. l \in Due
        BY <2>3, <3>4, <4>2
      <4>4. u.painted[l] = Seen(l)
        BY <1>3, <4>2, <4>3
      <4>5. u.painted[<<s[1], s[2] - 1>>] = Visible(text, s[1], s[2] - 1)
        BY <4>2, <4>4 DEF Seen, l
      <4> QED BY <1>2, <3>4, <4>5, HalfFollows DEF Seen
    <3> QED BY <3>1, <3>2, <3>3, <3>4 DEF Covered
  <2> QED BY <2>4 DEF u, m
<1> QED BY <1>4, <1>5

LEMMA CursorCellFacts ==
  ASSUME TextOK(text), NEW visible, Shown(visible)
  PROVE  CursorCell \in Screen
<1>1. text \in TextRecord /\ text.newest \in text.view .. text.view + Rows - 1
  BY DEF TextOK, Shown
<1>2. text.newest \in Nat /\ text.view \in Nat /\ text.column \in 0 .. Columns
  BY <1>1 DEF TextRecord
<1> DEFINE r == text.newest - text.view
           c == Min({text.column, Columns - 1})
<1>3. r \in 0 .. Rows - 1
  BY <1>1, <1>2, Sizes
<1>4. c \in Columns0
  <2>1. text.column \in Int /\ Columns - 1 \in Int
    BY <1>2, Sizes
  <2>2. c = IF text.column <= Columns - 1 THEN text.column ELSE Columns - 1
    BY <2>1, MinOfTwo
  <2> QED BY <1>2, <2>2, Sizes
<1> HIDE DEF r, c
<1>5. <<r, c>> \in Screen
  BY <1>3, <1>4, ScreenFacts
<1> QED BY <1>5 DEF CursorCell, r, c

\* The cursor is drawn last, where it was not drawn yet.
WithCursor(p, visible) ==
  [p EXCEPT !.ink = IF Shown(visible) /\ ~p.cursor
                    THEN [p.ink EXCEPT ![CursorCell] = @ \cup {<<"cursor", CursorCell[2]>>}] ELSE p.ink,
            !.cursor = Shown(visible)]

LEMMA WithCursorFacts ==
  ASSUME TextOK(text), NEW p, PaintOK(p, cursorAt), NEW visible \in BOOLEAN, accepting \in BOOLEAN,
         p.cursor => Shown(visible) /\ CursorCell = cursorAt
  PROVE  /\ PaintOK(WithCursor(p, visible), CursorCell)
         /\ WithCursor(p, visible).painted = p.painted /\ WithCursor(p, visible).cursor = Shown(visible)
<1> DEFINE q == WithCursor(p, visible)
           at == CursorCell
           shown == Shown(visible)
<1>1. /\ p \in PaintRecord
      /\ \A row \in 0 .. Rows - 1 : WholeRow(RowPainted(p.painted, row))
      /\ \A s \in Screen : p.ink[s] = InkOf(RowPainted(p.painted, s[1]), s[2]) \cup CursorInk(p.cursor, cursorAt, s)
  BY PaintParts
<1>2. shown \in BOOLEAN /\ (shown => at \in Screen) /\ (p.cursor => shown /\ at = cursorAt)
  BY CursorCellFacts DEF Shown
<1>3. p.painted \in [Screen -> Glyphs] /\ p.ink \in [Screen -> Ink] /\ p.cursor \in BOOLEAN
  BY <1>1 DEF PaintRecord
<1> DEFINE mark == [p.ink EXCEPT ![at] = @ \cup {<<"cursor", at[2]>>}]
           ink1 == IF shown /\ ~p.cursor THEN mark ELSE p.ink
<1>4. q = [painted |-> p.painted, ink |-> ink1, cursor |-> shown]
  <2>1. p = [painted |-> p.painted, ink |-> p.ink, cursor |-> p.cursor]
    BY <1>1 DEF PaintRecord
  <2>2. q = [p EXCEPT !.ink = ink1, !.cursor = shown]
    BY Zenon DEF WithCursor
  <2> HIDE DEF q, shown, ink1
  <2> QED BY <2>1, <2>2
<1> HIDE DEF q, shown, at
<1>5. ASSUME NEW s \in Screen PROVE ink1[s] = p.ink[s] \cup CursorInk(shown /\ ~p.cursor, at, s)
  <2>1. CASE shown /\ ~p.cursor
    <3>1. mark[s] = IF s = at THEN p.ink[s] \cup {<<"cursor", at[2]>>} ELSE p.ink[s]
      BY <1>2, <1>3, <2>1
    <3>2. CursorInk(shown /\ ~p.cursor, at, s) = IF s = at THEN {<<"cursor", s[2]>>} ELSE {}
      BY <2>1 DEF CursorInk
    <3> QED BY <2>1, <3>1, <3>2
  <2>2. CASE ~(shown /\ ~p.cursor)
    <3>1. CursorInk(shown /\ ~p.cursor, at, s) = {}
      BY <2>2 DEF CursorInk
    <3> QED BY <2>2, <3>1
  <2> QED BY <2>1, <2>2
<1>6. ASSUME NEW s \in Screen
      PROVE  CursorInk(p.cursor, cursorAt, s) \cup CursorInk(shown /\ ~p.cursor, at, s) = CursorInk(shown, at, s)
  BY <1>2, <1>3 DEF CursorInk
<1>7. ink1 \in [Screen -> Ink]
  <2>1. CASE shown /\ ~p.cursor
    <3>1. at \in Screen /\ at[2] \in Columns0
      BY <1>2, <2>1, ScreenFacts
    <3>2. p.ink[at] \cup {<<"cursor", at[2]>>} \in Ink
      BY <1>3, <3>1 DEF Ink
    <3>3. mark \in [Screen -> Ink]
      BY <1>3, <3>1, <3>2
    <3> QED BY <2>1, <3>3
  <2>2. CASE ~(shown /\ ~p.cursor)
    BY <1>3, <2>2
  <2> QED BY <2>1, <2>2
<1> HIDE DEF ink1
<1>8. q.painted = p.painted /\ q.ink = ink1 /\ q.cursor = shown /\ q \in PaintRecord
  BY <1>2, <1>3, <1>4, <1>7 DEF PaintRecord
<1>9. ASSUME NEW s \in Screen
      PROVE  q.ink[s] = InkOf(RowPainted(q.painted, s[1]), s[2]) \cup CursorInk(q.cursor, at, s)
  <2> DEFINE drawn == InkOf(RowPainted(q.painted, s[1]), s[2])
             old == CursorInk(p.cursor, cursorAt, s)
             new == CursorInk(shown /\ ~p.cursor, at, s)
  <2>1. p.ink[s] = drawn \cup old
    BY <1>1, <1>8
  <2>2. q.ink[s] = p.ink[s] \cup new
    BY <1>5, <1>8
  <2>3. old \cup new = CursorInk(q.cursor, at, s)
    BY <1>6, <1>8
  <2> HIDE DEF drawn, old, new
  <2>4. q.ink[s] = drawn \cup CursorInk(q.cursor, at, s)
    BY <2>1, <2>2, <2>3
  <2> QED BY <2>4 DEF drawn
<1>10. PaintOK(q, at)
  BY <1>1, <1>2, <1>8, <1>9, PaintParts
<1> QED BY <1>8, <1>10 DEF q, at, shown

\* A flush draws every visible cell as it is, and the cursor where input will go.
LEMMA PaintedFacts ==
  ASSUME ConsoleInv, NEW visible \in BOOLEAN
  PROVE  /\ PaintOK(Painted(visible), CursorCell)
         /\ text.repaint \/ ~shifted => \A s \in Screen : Painted(visible).painted[s] = Seen(s)
<1> DEFINE p == IF resetSurface THEN Blank ELSE Painting
           m == Moved(p, visible)
           u == Updated(m)
<1>1. /\ TextOK(text) /\ accepting \in BOOLEAN /\ PaintOK(Painting, cursorAt)
      /\ resetSurface => text.repaint
      /\ shifted \/ Current(text, painted)
  BY DEF ConsoleInv, LineInv, PaintInv
<1>2. PaintOK(p, cursorAt)
  BY <1>1, BlankOK
<1>3. text.repaint \/ ~shifted => text.repaint \/ Current(text, p.painted)
  BY <1>1, PaintingFacts
<1>4. Painted(visible) = WithCursor(u, visible)
  BY DEF Painted, WithCursor
<1> HIDE DEF p
<1>5. PaintOK(m, cursorAt) /\ (m.cursor => Shown(visible) /\ CursorCell = cursorAt)
  BY <1>1, <1>2, MovedFacts
<1> HIDE DEF m
<1>6. PaintOK(u, cursorAt) /\ (u.cursor => m.cursor)
  BY <1>1, <1>5, UpdatedFacts DEF Progress
<1>7. text.repaint \/ ~shifted => \A s \in Screen : u.painted[s] = Seen(s)
  BY <1>1, <1>2, <1>3, AllUpdated DEF u, m
<1> HIDE DEF u
<1> QED BY <1>1, <1>4, <1>5, <1>6, <1>7, WithCursorFacts

LEMMA VisibleInk ==
  ASSUME NEW t, TextOK(t), NEW row \in 0 .. Rows - 1, NEW col \in Columns0
  PROVE  UNION {{m \in {<<Visible(t, row, c), c>>} : m[1] \notin {Empty, Half} /\ col \in c .. c + Width(m[1]) - 1} : c \in Columns0}
           = InkOf(RowShown(t, row), col)
<1> DEFINE f == RowShown(t, row)
           one(c) == {m \in {<<Visible(t, row, c), c>>} : m[1] \notin {Empty, Half} /\ col \in c .. c + Width(m[1]) - 1}
<1>1. \A c \in Columns0 : f[c] = Visible(t, row, c)
  BY DEF RowShown
<1>2. ASSUME NEW c \in Columns0
      PROVE  one(c) = IF f[c] \notin {Empty, Half} /\ col \in c .. c + Width(f[c]) - 1 THEN {<<f[c], c>>} ELSE {}
  BY <1>1
<1> HIDE DEF one, f
<1>3. UNION {one(c) : c \in Columns0} = InkFrom(f, Columns0, col)
  BY <1>2 DEF InkFrom, Reaches
<1>4. f \in Cells /\ WholeRow(f)
  <2>1. row \in Nat
    BY Sizes
  <2> QED BY <2>1, ShownFacts DEF f
<1>5. InkFrom(f, Columns0, col) = InkOf(f, col)
  BY <1>4, AllClosed, InkFromFacts
<1> QED BY <1>3, <1>5 DEF one, f

Clean(t) == [t EXCEPT !.repaint = FALSE, !.dirty = {}]

LEMMA CleanFacts ==
  ASSUME NEW t, t \in TextRecord
  PROVE  /\ Clean(t) \in TextRecord /\ BottomView(Clean(t)) = BottomView(t)
         /\ Clean(t).cells = t.cells /\ Clean(t).oldest = t.oldest /\ Clean(t).newest = t.newest
         /\ Clean(t).view = t.view /\ Clean(t).column = t.column /\ Clean(t).repaint = FALSE
         /\ \A row, c : Visible(Clean(t), row, c) = Visible(t, row, c)
<1> DEFINE u == Clean(t)
<1>1. /\ u \in TextRecord
      /\ u.cells = t.cells /\ u.oldest = t.oldest /\ u.newest = t.newest /\ u.view = t.view
      /\ u.column = t.column /\ u.repaint = FALSE
  BY DEF TextRecord, Clean
<1> HIDE DEF u
<1>2. \A row, c : Visible(u, row, c) = Visible(t, row, c)
  BY <1>1 DEF Visible, ReadCell
<1>3. BottomView(u) = BottomView(t)
  BY <1>1 DEF BottomView
<1> QED BY <1>1, <1>2, <1>3 DEF u

LEMMA PaintStep ==
  ASSUME ConsoleInv, Paint
  PROVE  /\ TextOK(text') /\ PaintInv'
         /\ text'.cells = text.cells /\ text'.oldest = text.oldest /\ text'.newest = text.newest /\ text'.column = text.column
         /\ cursorVisible' \in BOOLEAN
         /\ ~shifted => AsShown'
<1> DEFINE t == text'
<1>1. /\ TextOK(text) /\ accepting \in BOOLEAN /\ cursorVisible \in BOOLEAN
      /\ text \in TextRecord
  BY DEF ConsoleInv, LineInv, TextOK
<1>2. PICK visible \in {cursorVisible, accepting # cursorVisible} :
        /\ cursorVisible' = visible
        /\ LET p == Painted(visible) IN painted' = p.painted /\ ink' = p.ink /\ cursorDrawn' = p.cursor
        /\ cursorAt' = CursorCell
  BY DEF Paint
<1>3. /\ resetSurface' = FALSE
      /\ t = Clean(text)
      /\ shifted' = (shifted /\ ~text.repaint)
  BY DEF Paint, Clean
<1>4. visible \in BOOLEAN
  BY <1>1, <1>2
<1> DEFINE q == Painted(visible)
<1>5. /\ PaintOK(q, CursorCell)
      /\ text.repaint \/ ~shifted => \A s \in Screen : q.painted[s] = Seen(s)
  BY <1>4, PaintedFacts
<1>6. painted' = q.painted /\ ink' = q.ink /\ cursorDrawn' = q.cursor /\ cursorAt' = CursorCell
  BY <1>2
<1> HIDE DEF q
<1>7. q = [painted |-> q.painted, ink |-> q.ink, cursor |-> q.cursor]
  BY <1>5, PaintParts DEF PaintRecord
<1>8. Painting' = q
  BY <1>6, <1>7 DEF Painting
<1>9. PaintOK(Painting, cursorAt)'
  BY <1>5, <1>6, <1>8
<1> HIDE DEF t
<1>10. /\ t \in TextRecord /\ BottomView(t) = BottomView(text)
       /\ t.cells = text.cells /\ t.oldest = text.oldest /\ t.newest = text.newest /\ t.view = text.view
       /\ t.column = text.column /\ t.repaint = FALSE
       /\ \A row, c : Visible(t, row, c) = Visible(text, row, c)
  BY <1>1, <1>3, CleanFacts
<1>11. TextOK(t)
  BY <1>1, <1>10 DEF TextOK
<1>12. text.repaint \/ ~shifted => \A s \in Screen : painted'[s] = Visible(t, s[1], s[2])
  BY <1>5, <1>6, <1>10 DEF Seen
<1>13. shifted' \/ Current(t, painted')
  BY <1>3, <1>12 DEF Current
<1>14. PaintInv'
  BY <1>3, <1>9, <1>13 DEF PaintInv, t
<1>15. ASSUME ~shifted PROVE AsShown'
  <2>1. ASSUME NEW s \in Screen PROVE ink'[s] = Expected(s[1], s[2])'
    <3> DEFINE row == s[1]
               col == s[2]
               cells == UNION {{m \in {<<Visible(t, row, c), c>>} :
                                  m[1] \notin {Empty, Half} /\ col \in c .. c + Width(m[1]) - 1} : c \in Columns0}
               mark == {m \in {<<"cursor", col>>} : cursorDrawn' /\ cursorAt' = <<row, col>>}
    <3>1. row \in 0 .. Rows - 1 /\ col \in Columns0 /\ s = <<row, col>>
      BY ScreenFacts
    <3>2. Expected(s[1], s[2])' = cells \cup mark
      BY DEF Expected, t
    <3> HIDE DEF row, col
    <3>3. cells = InkOf(RowShown(t, row), col)
      BY <1>11, <3>1, VisibleInk
    <3>4. mark = CursorInk(q.cursor, CursorCell, s)
      <4>1. q.cursor /\ CursorCell = s <=> cursorDrawn' /\ cursorAt' = <<row, col>>
        BY <1>6, <3>1
      <4> QED BY <4>1, <3>1 DEF CursorInk, col
    <3>5. RowShown(t, row) = RowPainted(q.painted, row)
      <4>1. \A c \in Columns0 : q.painted[<<row, c>>] = Visible(t, row, c)
        <5>1. ASSUME NEW c \in Columns0 PROVE q.painted[<<row, c>>] = Visible(t, row, c)
          <6>1. <<row, c>> \in Screen
            BY <3>1, ScreenFacts
          <6> QED BY <1>6, <1>12, <1>15, <6>1
        <5> QED BY <5>1
      <4> QED BY <4>1 DEF RowShown, RowPainted
    <3>6. q.ink[s] = InkOf(RowPainted(q.painted, row), col) \cup CursorInk(q.cursor, CursorCell, s)
      BY <1>5, PaintParts DEF row, col
    <3> HIDE DEF cells, mark
    <3> QED BY <1>6, <3>2, <3>3, <3>4, <3>5, <3>6
  <2> QED BY <2>1 DEF AsShown
<1> QED BY <1>2, <1>4, <1>10, <1>11, <1>14, <1>15 DEF t

-----------------------------------------------------------------------------
\* What a change of the text keeps: all that a flush would not draw right is due.
Keeps(t, u, f) == TextOK(u) /\ (t.repaint => u.repaint) /\ (Current(t, f) => Current(u, f))

LEMMA KeepsTwice ==
  ASSUME NEW t, NEW u, NEW v, NEW f, Keeps(t, u, f), Keeps(u, v, f)
  PROVE  Keeps(t, v, f)
BY DEF Keeps

LEMMA KeepsTells ==
  ASSUME NEW t, NEW u, NEW f, TextOK(u), t.repaint => u.repaint, Tells(t, u)
  PROVE  Keeps(t, u, f)
BY TellsCurrent DEF Keeps

LEMMA KeepsSame ==
  ASSUME NEW t, NEW f, TextOK(t)
  PROVE  Keeps(t, t, f)
BY DEF Keeps

LEMMA KeepsRepaint ==
  ASSUME NEW t, NEW u, NEW f, TextOK(u), u.repaint = TRUE
  PROVE  Keeps(t, u, f)
BY DEF Keeps, Current

LEMMA PaintKept ==
  ASSUME PaintInv, Keeps(text, text', painted), UNCHANGED <<paintVars, shifted>>
  PROVE  PaintInv'
<1>1. /\ painted' = painted /\ ink' = ink /\ cursorDrawn' = cursorDrawn /\ cursorAt' = cursorAt
      /\ resetSurface' = resetSurface /\ shifted' = shifted
  BY DEF paintVars
<1>2. Painting' = Painting
  BY <1>1 DEF Painting
<1>3. PaintOK(Painting, cursorAt)'
  BY <1>1, <1>2 DEF PaintInv
<1>4. resetSurface' => text'.repaint
  BY <1>1 DEF PaintInv, Keeps
<1>5. shifted' \/ Current(text', painted')
  BY <1>1 DEF PaintInv, Keeps
<1> QED BY <1>3, <1>4, <1>5 DEF PaintInv

LEMMA PutKeeps ==
  ASSUME NEW t, TextOK(t), NEW g, g = "lf" \/ g \in Letters \/ g \in Printed, NEW f
  PROVE  Keeps(t, Put(t, g), f)
<1>1. g = "lf" \/ (g \in Glyphs /\ g # Empty /\ g # Half)
  BY GlyphFacts
<1>2. TextOK(Put(t, g)) /\ Tells(t, Put(t, g)) /\ (t.repaint => Put(t, g).repaint)
  BY <1>1, PutFacts
<1> QED BY <1>2, KeepsTells

LEMMA AbandonedKeeps ==
  ASSUME TextOK(text), NEW f
  PROVE  Keeps(text, Abandoned(text), f)
<1>1. CASE accepting
  <2> DEFINE g == "lf"
  <2>1. g = "lf" \/ g \in Letters \/ g \in Printed
    OBVIOUS
  <2> HIDE DEF g
  <2>2. Keeps(text, Put(text, g), f)
    BY <2>1, PutKeeps
  <2>3. Abandoned(text) = Put(text, g)
    BY <1>1 DEF Abandoned, g
  <2> QED BY <2>2, <2>3
<1>2. CASE ~accepting
  <2>1. Abandoned(text) = text
    BY <1>2 DEF Abandoned
  <2> QED BY <2>1, KeepsSame
<1> QED BY <1>1, <1>2

LEMMA FollowKeeps ==
  ASSUME NEW t, TextOK(t), NEW f
  PROVE  Keeps(t, Follow(t), f)
BY FollowFacts, KeepsTells

LEMMA NextLineKeeps ==
  ASSUME NEW t, TextOK(t), NEW f
  PROVE  Keeps(t, NextLine(t), f)
BY NextLineFacts, KeepsTells

LEMMA EraseRepaint ==
  ASSUME NEW t, t \in TextRecord, NEW row, NEW col
  PROVE  EraseAt(t, row, col).repaint = t.repaint
<1> DEFINE gone == {col} \cup OtherHalf(t, row, col)
           d == Dirty(t, {row} \X gone)
<1>1. d = t \/ d = [t EXCEPT !.dirty = @ \cup ({row} \X gone)]
  BY DEF Dirty
<1>2. DOMAIN d = DOMAIN t /\ d.repaint = t.repaint
  BY <1>1 DEF TextRecord
<1>3. CASE ReadCell(t, row, col) = Empty
  BY <1>3 DEF EraseAt
<1>4. CASE ReadCell(t, row, col) # Empty
  <2>1. EraseAt(t, row, col) =
          [d EXCEPT !.cells[row % History] = [c \in Columns0 |-> IF c \in gone THEN Empty ELSE @[c]]]
    BY Zenon, <1>4 DEF EraseAt
  <2> HIDE DEF d, gone
  <2>2. [d EXCEPT !.cells[row % History] = [c \in Columns0 |-> IF c \in gone THEN Empty ELSE @[c]]].repaint = d.repaint
    OBVIOUS
  <2> QED BY <1>2, <2>1, <2>2
<1> QED BY <1>3, <1>4

\* The same line stands in texts of the same cells.
StandsOn(t, u) == u.cells = t.cells /\ u.oldest = t.oldest /\ u.newest = t.newest /\ u.column = t.column

LEMMA StandsSame ==
  ASSUME NEW t, NEW u, StandsOn(t, u), NEW row, NEW col, NEW inp, NEW lim, Stands(t, row, col, inp, lim)
  PROVE  Stands(u, row, col, inp, lim)
BY DEF Stands, StandsOn, ReadCell

\* The wheel moves the viewport within the ring.
LEMMA ScrollKeeps ==
  ASSUME TextOK(text), NEW lines \in Int, Scroll(lines), NEW f
  PROVE  Keeps(text, text', f) /\ StandsOn(text, text')
<1> DEFINE b == BottomView(text)
           low == Min({text.view - lines, b})
           next == Max({text.oldest, low})
           u == [text EXCEPT !.view = next, !.repaint = @ \/ next # text.view]
<1>1. text' = u
  BY DEF Scroll
<1>2. /\ text \in TextRecord /\ text.newest - text.oldest \in 0 .. History - 1
      /\ text.view \in text.oldest .. b
      /\ \A row \in text.oldest .. text.newest : WholeRow(text.cells[row % History])
  BY DEF TextOK
<1>3. text.newest \in Nat /\ text.oldest \in Nat /\ text.view \in Nat /\ text.oldest <= text.newest /\ text.repaint \in BOOLEAN
  BY <1>2, Sizes DEF TextRecord
<1>4. b \in Nat /\ text.oldest <= b
  BY <1>3, BottomFacts
<1> HIDE DEF b
<1>5. low = IF text.view - lines <= b THEN text.view - lines ELSE b
  <2>1. text.view - lines \in Int /\ b \in Int
    BY <1>3, <1>4
  <2> QED BY <2>1, MinOfTwo
<1>6. low \in Int /\ low <= b
  BY <1>3, <1>4, <1>5
<1> HIDE DEF low
<1>7. next = IF text.oldest >= low THEN text.oldest ELSE low
  BY <1>3, <1>6, MaxOfTwo
<1>8. next \in Nat /\ next \in text.oldest .. b
  BY <1>3, <1>4, <1>6, <1>7
<1> HIDE DEF next
<1>9. /\ u \in TextRecord
      /\ u.cells = text.cells /\ u.oldest = text.oldest /\ u.newest = text.newest /\ u.column = text.column
      /\ u.view = next /\ u.repaint = (text.repaint \/ next # text.view) /\ u.dirty = text.dirty
  BY <1>2, <1>8 DEF TextRecord
<1> HIDE DEF u
<1>10. BottomView(u) = b
  BY <1>9 DEF BottomView, b
<1>11. TextOK(u)
  BY <1>2, <1>8, <1>9, <1>10 DEF TextOK
<1>12. Tells(text, u)
  <2>1. CASE u.repaint
    BY <2>1 DEF Tells
  <2>2. CASE ~u.repaint
    <3>1. u.view = text.view /\ ~text.repaint
      BY <1>9, <2>2
    <3>2. \A row, c : Visible(u, row, c) = Visible(text, row, c)
      BY <1>9, <3>1 DEF Visible, ReadCell
    <3> QED BY <1>9, <3>1, <3>2 DEF Tells
  <2> QED BY <2>1, <2>2
<1>13. text.repaint => u.repaint
  BY <1>9
<1>14. Keeps(text, u, f)
  BY <1>11, <1>12, <1>13, KeepsTells
<1> QED BY <1>1, <1>9, <1>14 DEF StandsOn

LEMMA FreshOK == TextOK(Fresh) /\ Fresh.repaint = TRUE
<1> DEFINE u == Fresh
           cells == [r \in 0 .. History - 1 |-> NoCells]
<1>1. u = [cells |-> cells, oldest |-> 0, newest |-> 0, view |-> 0, column |-> 0, repaint |-> TRUE, dirty |-> {}]
  BY DEF Fresh, NoCells
<1>2. cells \in [0 .. History - 1 -> Cells] /\ 0 \in 0 .. History - 1
  BY NoCellsWhole, Sizes
<1> HIDE DEF cells
<1>3. /\ u \in TextRecord
      /\ u.cells = cells /\ u.oldest = 0 /\ u.newest = 0 /\ u.view = 0 /\ u.repaint = TRUE
  BY <1>1, <1>2, Sizes DEF TextRecord, Cells
<1> HIDE DEF u
<1>4. BottomView(u) = 0
  <2>1. BottomView(u) = IF u.newest - Rows + 1 >= u.oldest THEN u.newest - Rows + 1 ELSE u.oldest
    BY <1>3, BottomFacts
  <2> QED BY <1>3, <2>1, Sizes
<1>5. ASSUME NEW row \in u.oldest .. u.newest PROVE WholeRow(u.cells[row % History])
  <2>1. row % History \in 0 .. History - 1
    <3>1. row \in Nat
      BY <1>3
    <3> QED BY <3>1, RingIndex
  <2>2. u.cells[row % History] = NoCells
    BY <1>3, <2>1 DEF cells
  <2> QED BY <2>2, NoCellsWhole
<1>6. u.newest - u.oldest \in 0 .. History - 1 /\ u.view \in u.oldest .. BottomView(u)
  BY <1>3, <1>4, Sizes
<1>7. TextOK(u)
  BY <1>3, <1>5, <1>6 DEF TextOK
<1> QED BY <1>3, <1>7 DEF u

ClearedText(t) ==
  [t EXCEPT !.oldest = 0, !.newest = 0, !.view = 0, !.column = 0, !.repaint = TRUE, !.dirty = {},
            !.cells[0] = [c \in Columns0 |-> Empty]]

LEMMA ClearOK ==
  ASSUME NEW t, TextOK(t)
  PROVE  TextOK(ClearedText(t)) /\ ClearedText(t).repaint = TRUE
<1> DEFINE u == ClearedText(t)
<1>1. t \in TextRecord /\ 0 \in 0 .. History - 1
  BY Sizes DEF TextOK
<1>2. u = [t EXCEPT !.oldest = 0, !.newest = 0, !.view = 0, !.column = 0, !.repaint = TRUE, !.dirty = {},
                    !.cells[0] = NoCells]
  BY DEF ClearedText, NoCells
<1> HIDE DEF u
<1>3. /\ u \in TextRecord
      /\ u.cells = [t.cells EXCEPT ![0] = NoCells] /\ u.oldest = 0 /\ u.newest = 0 /\ u.view = 0 /\ u.repaint = TRUE
  <2>1. t.cells \in [0 .. History - 1 -> Cells]
    BY <1>1 DEF TextRecord, Cells
  <2>2. [t.cells EXCEPT ![0] = NoCells] \in [0 .. History - 1 -> Cells]
    BY <1>1, <2>1, NoCellsWhole
  <2> DEFINE n == NoCells
  <2> HIDE DEF n
  <2>3. u = [t EXCEPT !.oldest = 0, !.newest = 0, !.view = 0, !.column = 0, !.repaint = TRUE, !.dirty = {},
                      !.cells[0] = n]
    BY <1>2 DEF n
  <2>4. u = [cells |-> [t.cells EXCEPT ![0] = n], oldest |-> 0, newest |-> 0, view |-> 0, column |-> 0,
             repaint |-> TRUE, dirty |-> {}]
    BY <1>1, <2>3 DEF TextRecord
  <2> QED BY <2>2, <2>4, Sizes DEF TextRecord, Cells, n
<1>4. BottomView(u) = 0
  <2>1. BottomView(u) = IF u.newest - Rows + 1 >= u.oldest THEN u.newest - Rows + 1 ELSE u.oldest
    BY <1>3, BottomFacts
  <2> QED BY <1>3, <2>1, Sizes
<1>5. ASSUME NEW row \in u.oldest .. u.newest PROVE WholeRow(u.cells[row % History])
  <2>1. row = 0
    BY <1>3
  <2>2. 0 % History = 0
    BY Sizes, Quotient, SMTT(30)
  <2>3. u.cells[0] = NoCells
    BY <1>1, <1>3 DEF TextRecord
  <2> QED BY <2>1, <2>2, <2>3, NoCellsWhole
<1>6. u.newest - u.oldest \in 0 .. History - 1 /\ u.view \in u.oldest .. BottomView(u)
  BY <1>3, <1>4, Sizes
<1>7. TextOK(u)
  BY <1>3, <1>5, <1>6 DEF TextOK
<1> QED BY <1>3, <1>7 DEF u

LEMMA CapacityFacts ==
  ASSUME NEW col \in Columns0
  PROVE  Capacity(col) \in Nat /\ Capacity(col) <= History * Columns - col
<1> DEFINE size == History * Columns
<1>1. size \in Nat /\ size >= Columns
  <2>1. size = (History - 1) * Columns + Columns
    BY Sizes, SMTT(30)
  <2>2. (History - 1) * Columns \in Nat
    BY Sizes, SMTT(30)
  <2> DEFINE m == (History - 1) * Columns
  <2>3. m \in Nat /\ size = m + Columns
    BY <2>1, <2>2
  <2> HIDE DEF m, size
  <2> QED BY <2>3, Sizes
<1> HIDE DEF size
<1>2. MaxBytes \in Int /\ size - col \in Nat
  BY <1>1, Sizes, ConfigAssumption
<1>3. Min({MaxBytes, size - col}) = IF MaxBytes <= size - col THEN MaxBytes ELSE size - col
  BY <1>2, MinOfTwo
<1>4. Capacity(col) = Min({MaxBytes, size - col})
  BY DEF Capacity, size
<1>5. Capacity(col) \in Nat /\ Capacity(col) <= size - col
  BY <1>2, <1>3, <1>4, ConfigAssumption
<1> QED BY <1>5 DEF size

LEMMA EmptyStands ==
  ASSUME NEW t, TextOK(t), t.column # Columns, NEW lim, lim <= History * Columns - t.column
  PROVE  Stands(t, t.newest, t.column, <<>>, lim)
<1>1. t.newest \in Nat /\ t.oldest <= t.newest /\ t.column \in 0 .. Columns
  BY NewestRow
<1>2. t.column \in Columns0
  BY <1>1, Sizes
<1> DEFINE col == t.column
           row == t.newest
<1>3. Len(<<>>) = 0
  OBVIOUS
<1>4. RowAfter(col) = 0 /\ ColumnAfter(col) = col
  <2>1. CASE col = 0
    BY <2>1 DEF RowAfter, ColumnAfter
  <2>2. CASE col # 0
    <3>1. col - 1 \in Nat /\ col - 1 \in 0 .. Columns - 1 /\ Columns > 0
      BY <1>1, <1>2, <2>2, Sizes
    <3>2. col - 1 = Columns * 0 + (col - 1)
      BY <3>1, Sizes
    <3> DEFINE n == col - 1
    <3>3. n \in Nat /\ n \in 0 .. Columns - 1 /\ Columns > 0 /\ Columns \in Nat /\ 0 \in Nat /\ n = Columns * 0 + n
      BY <3>1, <3>2, Sizes
    <3> HIDE DEF n
    <3>4. n \div Columns = 0 /\ n % Columns = n
      BY <3>3, Quotient
    <3>5. ((col - 1) % Columns) + 1 = col
      <4>1. n + 1 = col
        BY <1>1 DEF n
      <4> QED BY <3>4, <4>1 DEF n
    <3> QED BY <2>2, <3>4, <3>5 DEF RowAfter, ColumnAfter, n
  <2> QED BY <2>1, <2>2
<1> HIDE DEF row, col
<1>5. StandsAt(t, row, col, <<>>)
  BY <1>3 DEF StandsAt
<1>6. EmptyRight(t, row)
  BY <1>1 DEF EmptyRight, row
<1>7. col + Len(<<>>) = col
  BY <1>1, <1>3 DEF col
<1>8. Stands(t, row, col, <<>>, lim)
  <2>1. /\ row \in Nat /\ t.oldest <= row /\ col \in Columns0 /\ lim <= History * Columns - col
        /\ t.newest = row + RowAfter(col) /\ t.column = ColumnAfter(col)
    BY <1>1, <1>2, <1>4 DEF row, col
  <2> QED BY <1>5, <1>6, <1>7, <2>1, StandsParts
<1> QED BY <1>8 DEF row, col

\* begin_input leaves the line it opens where it can grow.
LEMMA BeginFacts ==
  ASSUME ConsoleInv, NEW prompt \in Prompts, Begin(prompt)
  PROVE  /\ Keeps(text, text', painted) /\ limit' \in Nat
         /\ Stands(text', inputRow', inputColumn', <<>>, limit')
<1> DEFINE p == Put(text, prompt)
           n == IF p.column = Columns THEN NextLine(p) ELSE p
           t == Follow(n)
<1>1. text' = t /\ inputRow' = t.newest /\ inputColumn' = t.column /\ limit' = Capacity(t.column)
  BY DEF Begin
<1>2. TextOK(text) /\ prompt \in Printed
  BY ConfigAssumption DEF ConsoleInv
<1>3. Keeps(text, p, painted)
  BY <1>2, PutKeeps
<1> HIDE DEF p
<1>4. TextOK(p)
  BY <1>3 DEF Keeps
<1>5. Keeps(p, n, painted) /\ n.column # Columns
  <2>1. CASE p.column = Columns
    <3>1. Keeps(p, NextLine(p), painted) /\ NextLine(p).column = 0
      BY <1>4, NextLineKeeps, NextLineFacts
    <3> QED BY <2>1, <3>1, Sizes
  <2>2. CASE p.column # Columns
    BY <1>4, <2>2, KeepsSame
  <2> QED BY <2>1, <2>2
<1> HIDE DEF n
<1>6. TextOK(n)
  BY <1>5 DEF Keeps
<1>7. Keeps(n, t, painted) /\ t.column = n.column /\ TextOK(t)
  BY <1>6, FollowKeeps, FollowFacts
<1> HIDE DEF t
<1>8. Keeps(text, t, painted)
  BY <1>3, <1>5, <1>7, KeepsTwice
<1>9. t.column \in Columns0
  BY <1>5, <1>7, NewestRow, Sizes
<1>10. Capacity(t.column) \in Nat /\ Capacity(t.column) <= History * Columns - t.column
  BY <1>9, CapacityFacts
<1>11. Stands(t, t.newest, t.column, <<>>, Capacity(t.column))
  BY <1>5, <1>7, <1>10, EmptyStands
<1> QED BY <1>1, <1>8, <1>10, <1>11

-----------------------------------------------------------------------------
\* The keys, while a line is edited.
LEMMA EnterFacts ==
  ASSUME ConsoleInv, EnterKey
  PROVE  Keeps(text, text', painted)
<1> DEFINE t == Follow(text)
           g == "lf"
<1>1. Keeps(text, t, painted)
  BY FollowKeeps DEF ConsoleInv
<1> HIDE DEF t
<1>2. TextOK(t)
  BY <1>1 DEF Keeps
<1>3. g = "lf"
  OBVIOUS
<1> HIDE DEF g
<1>4. Keeps(t, Put(t, g), painted)
  BY <1>2, <1>3, PutKeeps
<1>5. text' = Put(t, g)
  BY <1>3 DEF EnterKey, t
<1> QED BY <1>1, <1>4, <1>5, KeepsTwice

LEMMA LetterFacts ==
  ASSUME ConsoleInv, accepting, NEW k \in Letters, LetterKey(k)
  PROVE  /\ Keeps(text, text', painted) /\ input' \in Seq(Letters) /\ Len(input') <= limit
         /\ Stands(text', inputRow, inputColumn, input', limit)
<1> DEFINE t == Follow(text)
<1>1. /\ TextOK(text) /\ input \in Seq(Letters) /\ limit \in Nat /\ Len(input) <= limit
      /\ Stands(text, inputRow, inputColumn, input, limit)
  BY DEF ConsoleInv, LineInv
<1>2. Keeps(text, t, painted) /\ Stands(t, inputRow, inputColumn, input, limit)
  BY <1>1, FollowKeeps, FollowStands
<1>3. IF Len(input) >= limit THEN text' = t /\ input' = input
      ELSE input' = Append(input, k) /\ text' = Put(t, k)
  BY DEF LetterKey
<1> HIDE DEF t
<1>4. TextOK(t)
  BY <1>2 DEF Keeps
<1>5. CASE Len(input) >= limit
  BY <1>1, <1>2, <1>3, <1>5
<1>6. CASE Len(input) < limit
  <2>1. Len(input) \in Nat
    BY <1>1
  <2>2. input' = Append(input, k) /\ text' = Put(t, k)
    BY <1>1, <1>3, <1>6, <2>1
  <2>3. Keeps(t, Put(t, k), painted)
    BY <1>4, PutKeeps
  <2>4. Stands(Put(t, k), inputRow, inputColumn, Append(input, k), limit)
    BY <1>1, <1>2, <1>4, <1>6, LetterStands
  <2>5. Append(input, k) \in Seq(Letters) /\ Len(Append(input, k)) = Len(input) + 1
    BY <1>1
  <2>6. Keeps(text, Put(t, k), painted)
    BY <1>2, <2>3, KeepsTwice
  <2> QED BY <1>1, <1>6, <2>1, <2>2, <2>4, <2>5, <2>6
<1> QED BY <1>1, <1>5, <1>6

\* A deletion keeps what is drawn, or moves the view and notes it.
LEMMA DeleteKeyFacts ==
  ASSUME ConsoleInv, accepting, DeleteKey, UNCHANGED paintVars
  PROVE  /\ TextOK(text') /\ PaintInv' /\ input' \in Seq(Letters) /\ Len(input') <= limit
         /\ Stands(text', inputRow, inputColumn, input', limit)
<1> DEFINE t == Follow(text)
<1>1. /\ TextOK(text) /\ input \in Seq(Letters) /\ limit \in Nat /\ Len(input) <= limit
      /\ Stands(text, inputRow, inputColumn, input, limit) /\ PaintInv
  BY DEF ConsoleInv, LineInv
<1>2. Keeps(text, t, painted) /\ Stands(t, inputRow, inputColumn, input, limit)
  BY <1>1, FollowKeeps, FollowStands
<1>3. TextOK(t)
  BY <1>2 DEF Keeps
<1>4. CASE input = <<>>
  <2>1. text' = t /\ input' = input /\ shifted' = shifted
    BY <1>4 DEF DeleteKey
  <2> HIDE DEF t
  <2>2. PaintInv'
    BY <1>1, <1>2, <2>1, PaintKept
  <2> QED BY <1>1, <1>2, <1>3, <2>1, <2>2
<1>5. CASE input # <<>>
  <2> DEFINE m == inputColumn + Len(input) - 1
             d == DeletedAt(t, inputRow, m)
             u == Deleted(t, inputRow, m)
  <2>1. /\ text' = u /\ input' = Front(input)
        /\ shifted' = (shifted \/ d.view > BottomView(d))
    BY <1>5 DEF DeleteKey, EndRow, EndColumn, RowAfter, ColumnAfter, DeletedAt, Deleted
  <2> HIDE DEF t
  <2>2. m = inputColumn + Len(input) - 1
    OBVIOUS
  <2> HIDE DEF m
  <2>3. /\ TextOK(u) /\ Stands(u, inputRow, inputColumn, Front(input), limit)
        /\ d.view > BottomView(d) \/ Tells(t, u)
    BY <1>1, <1>2, <1>3, <1>5, <2>2, DeleteFacts
  <2>4. /\ Len(input) \in Nat /\ Len(input) >= 1
        /\ Front(input) \in Seq(Letters) /\ Len(Front(input)) = Len(input) - 1
    BY <1>1, <1>5, FrontFacts
  <2>5. u.repaint = t.repaint
    <3> DEFINE e == EraseAt(t, inputRow + m \div Columns, m % Columns)
    <3>1. e.repaint = t.repaint
      BY <1>3, EraseRepaint DEF TextOK
    <3>2. d.repaint = e.repaint
      BY DEF DeletedAt
    <3>3. u.repaint = d.repaint
      BY DEF Deleted
    <3> QED BY <3>1, <3>2, <3>3
  <2> HIDE DEF d, u
  <2>6. PaintInv'
    <3>1. CASE d.view > BottomView(d)
      <4>1. shifted' = TRUE
        BY <2>1, <3>1
      <4>2. PaintOK(Painting, cursorAt)'
        <5>1. Painting' = Painting /\ cursorAt' = cursorAt
          BY DEF Painting, paintVars
        <5> QED BY <1>1, <5>1 DEF PaintInv
      <4>3. resetSurface' => text'.repaint
        BY <1>1, <1>2, <2>1, <2>5 DEF PaintInv, Keeps, paintVars
      <4> QED BY <4>1, <4>2, <4>3 DEF PaintInv
    <3>2. CASE ~(d.view > BottomView(d))
      <4>1. Keeps(t, u, painted)
        BY <2>3, <2>5, <3>2, KeepsTells
      <4>2. Keeps(text, text', painted)
        BY <1>2, <2>1, <4>1, KeepsTwice
      <4>3. PaintOK(Painting, cursorAt)'
        <5>1. Painting' = Painting /\ cursorAt' = cursorAt
          BY DEF Painting, paintVars
        <5> QED BY <1>1, <5>1 DEF PaintInv
      <4>4. shifted' \/ Current(text', painted')
        <5>1. shifted => shifted'
          BY <2>1
        <5>2. painted' = painted
          BY DEF paintVars
        <5> QED BY <1>1, <4>2, <5>1, <5>2 DEF PaintInv, Keeps
      <4>5. resetSurface' => text'.repaint
        BY <1>1, <1>2, <2>1, <2>5 DEF PaintInv, Keeps, paintVars
      <4> QED BY <4>3, <4>4, <4>5 DEF PaintInv
    <3> QED BY <3>1, <3>2
  <2> QED BY <1>1, <2>1, <2>3, <2>4, <2>6
<1> QED BY <1>4, <1>5

-----------------------------------------------------------------------------
\* What remains is to collect the parts, action by action.
Flow == phase \in {"main", "dispatching", "painting"} /\ queue \in Seq(Events) /\ batch \in Seq(Events)

LEMMA LineEnded ==
  ASSUME LineInv, Flow', accepting' = FALSE, input' = input \/ input' = <<>>, limit' = limit,
         completed' \in BOOLEAN, closed' \in BOOLEAN, cursorVisible' \in BOOLEAN
  PROVE  LineInv'
<1>1. input' \in Seq(Letters) /\ limit' \in Nat /\ Len(input') <= limit'
  <2>1. input \in Seq(Letters) /\ limit \in Nat /\ Len(input) <= limit
    BY DEF LineInv
  <2>2. <<>> \in Seq(Letters) /\ Len(<<>>) = 0
    OBVIOUS
  <2>3. CASE input' = input
    BY <2>1, <2>3
  <2>4. CASE input' = <<>>
    <3>1. Len(input') = 0
      BY <2>2, <2>4
    <3> QED BY <2>1, <2>2, <2>4, <3>1
  <2> QED BY <2>3, <2>4
<1> QED BY <1>1 DEF LineInv, Flow

LEMMA LineGoesOn ==
  ASSUME LineInv, Flow', UNCHANGED <<accepting, completed, closed>>, cursorVisible' \in BOOLEAN,
         input' \in Seq(Letters), limit' \in Nat, Len(input') <= limit',
         accepting => Stands(text', inputRow', inputColumn', input', limit'),
         phase' = "dispatching" /\ submitted' => ~accepting
  PROVE  LineInv'
BY DEF LineInv, Flow

LEMMA FlowSame ==
  ASSUME LineInv, UNCHANGED <<phase, queue, batch>>
  PROVE  Flow'
BY DEF LineInv, Flow

LEMMA InitOK == Init => ConsoleInv
<1> SUFFICES ASSUME Init PROVE ConsoleInv
  OBVIOUS
<1>1. text = Fresh /\ TextOK(text) /\ text.repaint = TRUE
  BY FreshOK DEF Init
<1>2. LineInv
  <2>1. <<>> \in Seq(Letters) /\ Len(<<>>) = 0 /\ <<>> \in Seq(Events)
    OBVIOUS
  <2>2. input = <<>> /\ limit = 0 /\ queue = <<>> /\ batch = <<>>
    BY DEF Init
  <2>3. input \in Seq(Letters) /\ queue \in Seq(Events) /\ batch \in Seq(Events) /\ Len(input) = 0
    BY <2>1, <2>2
  <2>4. limit \in Nat /\ Len(input) <= limit
    BY <2>2, <2>3
  <2>5. /\ accepting = FALSE /\ completed = FALSE /\ closed = FALSE /\ cursorVisible = FALSE
        /\ phase = "main"
    BY DEF Init
  <2> QED BY <2>3, <2>4, <2>5 DEF LineInv
<1>3. PaintOK(Painting, cursorAt)
  <2>1. Painting = Blank
    BY DEF Init, Painting, Blank
  <2> QED BY <2>1, BlankOK
<1>4. Current(text, painted)
  BY <1>1 DEF Current
<1> QED BY <1>1, <1>2, <1>3, <1>4 DEF ConsoleInv, PaintInv

LEMMA CancelEnds ==
  ASSUME LineInv, Cancel, UNCHANGED <<completed, closed, cursorVisible, phase, queue, batch>>
  PROVE  LineInv'
<1>1. Flow'
  BY FlowSame
<1>2. completed' \in BOOLEAN /\ closed' \in BOOLEAN /\ cursorVisible' \in BOOLEAN
  BY DEF LineInv
<1>3. accepting' = FALSE /\ (input' = input \/ input' = <<>>) /\ limit' = limit
  BY DEF Cancel
<1> QED BY <1>1, <1>2, <1>3, LineEnded

LEMMA WriteKeeps == ConsoleInv /\ Write => ConsoleInv'
<1> SUFFICES ASSUME ConsoleInv, Write PROVE ConsoleInv'
  OBVIOUS
<1>1. TextOK(text) /\ LineInv /\ PaintInv
  BY DEF ConsoleInv
<1>2. PICK g \in Printed : text' = Put(Abandoned(text), g)
  BY DEF Write
<1>3. Cancel /\ UNCHANGED <<completed, closed, paintVars, cursorVisible, phase, queue, batch, shifted>>
  BY DEF Write, eventVars
<1>4. Keeps(text, Abandoned(text), painted)
  BY <1>1, AbandonedKeeps
<1> DEFINE a == Abandoned(text)
<1>5. TextOK(a)
  BY <1>4 DEF Keeps
<1> HIDE DEF a
<1>6. Keeps(a, Put(a, g), painted)
  BY <1>5, PutKeeps
<1>7. Keeps(text, text', painted)
  BY <1>2, <1>4, <1>6, KeepsTwice DEF a
<1>8. TextOK(text')
  BY <1>7 DEF Keeps
<1>9. LineInv'
  BY <1>1, <1>3, CancelEnds
<1>10. PaintInv'
  BY <1>1, <1>3, <1>7, PaintKept
<1> QED BY <1>8, <1>9, <1>10 DEF ConsoleInv

LEMMA CancelInputKeeps == ConsoleInv /\ CancelInput => ConsoleInv'
<1> SUFFICES ASSUME ConsoleInv, CancelInput PROVE ConsoleInv'
  OBVIOUS
<1>1. TextOK(text) /\ LineInv /\ PaintInv
  BY DEF ConsoleInv
<1>2. text' = Abandoned(text) /\ Cancel /\ UNCHANGED <<completed, closed, paintVars, cursorVisible, phase, queue, batch, shifted>>
  BY DEF CancelInput, eventVars
<1>3. Keeps(text, text', painted)
  BY <1>1, <1>2, AbandonedKeeps
<1>4. TextOK(text')
  BY <1>3 DEF Keeps
<1>5. LineInv'
  BY <1>1, <1>2, CancelEnds
<1>6. PaintInv'
  BY <1>1, <1>2, <1>3, PaintKept
<1> QED BY <1>4, <1>5, <1>6 DEF ConsoleInv

LEMMA CloseInputKeeps == ConsoleInv /\ CloseInput => ConsoleInv'
<1> SUFFICES ASSUME ConsoleInv, CloseInput PROVE ConsoleInv'
  OBVIOUS
<1>1. TextOK(text) /\ LineInv /\ PaintInv
  BY DEF ConsoleInv
<1>2. /\ text' = Abandoned(text) /\ accepting' = FALSE /\ closed' = TRUE /\ (input' = input \/ input' = <<>>)
      /\ UNCHANGED <<completed, limit, paintVars, cursorVisible, phase, queue, batch, shifted>>
  BY DEF CloseInput, eventVars
<1>3. Keeps(text, text', painted)
  BY <1>1, <1>2, AbandonedKeeps
<1>4. TextOK(text')
  BY <1>3 DEF Keeps
<1>5. LineInv'
  <2>1. completed' \in BOOLEAN /\ cursorVisible' \in BOOLEAN
    BY <1>1, <1>2 DEF LineInv
  <2>2. Flow'
    BY <1>1, <1>2, FlowSame
  <2> QED BY <1>1, <1>2, <2>1, <2>2, LineEnded
<1>6. PaintInv'
  BY <1>1, <1>2, <1>3, PaintKept
<1> QED BY <1>4, <1>5, <1>6 DEF ConsoleInv

LEMMA ClearKeeps == ConsoleInv /\ Clear => ConsoleInv'
<1> SUFFICES ASSUME ConsoleInv, Clear PROVE ConsoleInv'
  OBVIOUS
<1>1. TextOK(text) /\ LineInv /\ PaintInv
  BY DEF ConsoleInv
<1>2. /\ text' = ClearedText(text) /\ accepting' = FALSE /\ completed' = FALSE /\ input' = <<>>
      /\ UNCHANGED <<closed, limit, paintVars, cursorVisible, phase, queue, batch, shifted>>
  BY DEF Clear, ClearedText, eventVars
<1>3. TextOK(text') /\ text'.repaint = TRUE
  BY <1>1, <1>2, ClearOK
<1>4. Keeps(text, text', painted)
  BY <1>3, KeepsRepaint
<1>5. LineInv'
  <2>1. closed' \in BOOLEAN /\ cursorVisible' \in BOOLEAN
    BY <1>1, <1>2 DEF LineInv
  <2>2. Flow'
    BY <1>1, <1>2, FlowSame
  <2> QED BY <1>1, <1>2, <2>1, <2>2, LineEnded
<1>6. PaintInv'
  BY <1>1, <1>2, <1>4, PaintKept
<1> QED BY <1>3, <1>5, <1>6 DEF ConsoleInv

LEMMA ResetKeeps == ConsoleInv /\ Reset => ConsoleInv'
<1> SUFFICES ASSUME ConsoleInv, Reset PROVE ConsoleInv'
  OBVIOUS
<1>1. TextOK(text) /\ LineInv /\ PaintInv
  BY DEF ConsoleInv
<1>2. /\ text' = Fresh /\ accepting' = FALSE /\ completed' = FALSE /\ closed' = FALSE /\ input' = <<>>
      /\ cursorVisible' = FALSE /\ resetSurface' = TRUE
      /\ UNCHANGED <<limit, painted, ink, cursorDrawn, cursorAt, phase, queue, batch, shifted>>
  BY DEF Reset, eventVars
<1>3. TextOK(text') /\ text'.repaint = TRUE
  BY <1>2, FreshOK
<1>4. LineInv'
  <2>1. Flow'
    BY <1>1, <1>2, FlowSame
  <2> QED BY <1>1, <1>2, <2>1, LineEnded
<1>5. PaintOK(Painting, cursorAt)'
  <2>1. Painting' = Painting /\ cursorAt' = cursorAt
    BY <1>2 DEF Painting
  <2> QED BY <1>1, <2>1 DEF PaintInv
<1>6. Current(text', painted')
  BY <1>3 DEF Current
<1>7. PaintInv'
  BY <1>3, <1>5, <1>6 DEF PaintInv
<1> QED BY <1>3, <1>4, <1>7 DEF ConsoleInv

\* What leaves the text and the drawing alone.
LEMMA QuietKeeps ==
  ASSUME ConsoleInv, UNCHANGED <<text, paintVars, shifted, accepting, input, inputRow, inputColumn, limit, cursorVisible>>,
         completed' \in BOOLEAN, closed' \in BOOLEAN, completed' => completed, closed' => closed,
         Flow', phase' = "dispatching" /\ submitted' => ~accepting
  PROVE  ConsoleInv'
<1>1. TextOK(text) /\ LineInv /\ PaintInv
  BY DEF ConsoleInv
<1>2. TextOK(text')
  BY <1>1
<1>3. LineInv'
  BY <1>1 DEF LineInv, Flow
<1>4. Keeps(text, text', painted)
  BY <1>1, KeepsSame
<1>5. PaintInv'
  BY <1>1, <1>4, PaintKept
<1> QED BY <1>2, <1>3, <1>5 DEF ConsoleInv

LEMMA ReopenInputKeeps == ConsoleInv /\ ReopenInput => ConsoleInv'
<1> SUFFICES ASSUME ConsoleInv, ReopenInput PROVE ConsoleInv'
  OBVIOUS
<1>1. LineInv
  BY DEF ConsoleInv
<1>2. /\ closed' = FALSE
      /\ UNCHANGED <<text, paintVars, shifted, accepting, input, inputRow, inputColumn, limit, cursorVisible>>
      /\ UNCHANGED <<completed, phase, queue, batch, submitted>>
  BY DEF ReopenInput, eventVars
<1>3. Flow' /\ (phase' = "dispatching" /\ submitted' => ~accepting) /\ completed' \in BOOLEAN
  BY <1>1, <1>2, FlowSame DEF LineInv
<1> QED BY <1>2, <1>3, QuietKeeps

LEMMA TakeKeeps ==
  ASSUME ConsoleInv, Take, UNCHANGED <<text, paintVars, cursorVisible, phase, queue, batch, submitted, shifted>>
  PROVE  ConsoleInv'
<1>1. LineInv
  BY DEF ConsoleInv
<1>2. /\ completed' = FALSE
      /\ UNCHANGED <<text, paintVars, shifted, accepting, input, inputRow, inputColumn, limit, cursorVisible>>
      /\ UNCHANGED <<closed, phase, queue, batch, submitted>>
  BY DEF Take
<1>3. Flow' /\ (phase' = "dispatching" /\ submitted' => ~accepting) /\ closed' \in BOOLEAN
  BY <1>1, <1>2, FlowSame DEF LineInv
<1> QED BY <1>2, <1>3, QuietKeeps

LEMMA TryReadKeeps == ConsoleInv /\ TryRead => ConsoleInv'
BY TakeKeeps DEF TryRead, eventVars

LEMMA ReaderReturnsKeeps == ConsoleInv /\ ReaderReturns => ConsoleInv'
BY TakeKeeps DEF ReaderReturns

LEMMA HatKeeps == ConsoleInv /\ Hat => ConsoleInv'
<1> SUFFICES ASSUME ConsoleInv, Hat PROVE ConsoleInv'
  OBVIOUS
<1>1. LineInv
  BY DEF ConsoleInv
<1>2. PICK e \in Events : queue' = Append(queue, e)
  BY DEF Hat
<1>3. /\ UNCHANGED <<text, paintVars, shifted, accepting, input, inputRow, inputColumn, limit, cursorVisible>>
      /\ UNCHANGED <<completed, closed, phase, batch, submitted>>
  BY DEF Hat, inputVars
<1>4. Flow'
  BY <1>1, <1>2, <1>3 DEF LineInv, Flow
<1>5. (phase' = "dispatching" /\ submitted' => ~accepting) /\ closed' \in BOOLEAN /\ completed' \in BOOLEAN
  BY <1>1, <1>3 DEF LineInv
<1> QED BY <1>3, <1>4, <1>5, QuietKeeps

LEMMA PollKeeps == ConsoleInv /\ Poll => ConsoleInv'
<1> SUFFICES ASSUME ConsoleInv, Poll PROVE ConsoleInv'
  OBVIOUS
<1>1. LineInv
  BY DEF ConsoleInv
<1>2. /\ phase' \in {"main", "dispatching", "painting"} /\ queue' = <<>> /\ batch' = queue /\ submitted' = FALSE
      /\ UNCHANGED <<text, paintVars, shifted, accepting, input, inputRow, inputColumn, limit, cursorVisible>>
      /\ UNCHANGED <<completed, closed>>
  BY DEF Poll, PollDone, inputVars
<1>3. Flow'
  BY <1>1, <1>2 DEF LineInv, Flow
<1>4. (phase' = "dispatching" /\ submitted' => ~accepting) /\ closed' \in BOOLEAN /\ completed' \in BOOLEAN
  BY <1>1, <1>2 DEF LineInv
<1> QED BY <1>2, <1>3, <1>4, QuietKeeps

LEMMA PollEndsKeeps == ConsoleInv /\ PollEnds => ConsoleInv'
<1> SUFFICES ASSUME ConsoleInv, PollEnds PROVE ConsoleInv'
  OBVIOUS
<1>1. LineInv
  BY DEF ConsoleInv
<1>2. /\ phase' \in {"main", "painting"}
      /\ UNCHANGED <<text, paintVars, shifted, accepting, input, inputRow, inputColumn, limit, cursorVisible>>
      /\ UNCHANGED <<completed, closed, queue, batch>>
  BY DEF PollEnds, PollDone, inputVars
<1>3. Flow'
  BY <1>1, <1>2 DEF LineInv, Flow
<1>4. (phase' = "dispatching" /\ submitted' => ~accepting) /\ closed' \in BOOLEAN /\ completed' \in BOOLEAN
  BY <1>1, <1>2 DEF LineInv
<1> QED BY <1>2, <1>3, <1>4, QuietKeeps

\* begin_input, from the program's main code only.
LEMMA BeginKeeps ==
  ASSUME ConsoleInv, NEW prompt \in Prompts, Begin(prompt), UNCHANGED <<paintVars, phase, queue, batch, submitted, shifted>>
  PROVE  ConsoleInv'
<1>1. TextOK(text) /\ LineInv /\ PaintInv
  BY DEF ConsoleInv
<1>2. Keeps(text, text', painted) /\ limit' \in Nat /\ Stands(text', inputRow', inputColumn', <<>>, limit')
  BY BeginFacts
<1>3. /\ phase # "dispatching" /\ closed = FALSE /\ completed = FALSE
      /\ input' = <<>> /\ accepting' = TRUE /\ cursorVisible' = TRUE
      /\ closed' = FALSE /\ completed' = FALSE
  BY <1>1 DEF Begin, CanBegin, LineInv
<1>4. TextOK(text')
  BY <1>2 DEF Keeps
<1>5. Flow'
  BY <1>1, FlowSame
<1>6. LineInv'
  <2>1. input' \in Seq(Letters) /\ Len(input') = 0
    BY <1>3
  <2>2. Len(input') <= limit' /\ Stands(text', inputRow', inputColumn', input', limit')
    BY <1>2, <1>3, <2>1
  <2> QED BY <1>2, <1>3, <1>5, <2>1, <2>2 DEF LineInv, Flow
<1>7. PaintInv'
  BY <1>1, <1>2, PaintKept
<1> QED BY <1>4, <1>6, <1>7 DEF ConsoleInv

LEMMA BeginInputKeeps == ConsoleInv /\ BeginInput => ConsoleInv'
BY BeginKeeps DEF BeginInput, eventVars

LEMMA ReadLineKeeps == ConsoleInv /\ ReadLine => ConsoleInv'
BY BeginKeeps DEF ReadLine

-----------------------------------------------------------------------------
\* The handlers of a poll.
LEMMA ScrollStep ==
  ASSUME ConsoleInv, NEW lines \in Int, Scroll(lines), UNCHANGED paintVars, Flow', UNCHANGED phase
  PROVE  ConsoleInv'
<1>1. TextOK(text) /\ LineInv /\ PaintInv
  BY DEF ConsoleInv
<1>2. Keeps(text, text', painted) /\ StandsOn(text, text')
  BY <1>1, ScrollKeeps
<1>3. UNCHANGED <<accepting, completed, closed, input, inputRow, inputColumn, limit, cursorVisible, submitted, shifted>>
  BY DEF Scroll, inputVars
<1>4. TextOK(text')
  BY <1>2 DEF Keeps
<1>5. accepting => Stands(text', inputRow', inputColumn', input', limit')
  <2>1. accepting => Stands(text, inputRow, inputColumn, input, limit)
    BY <1>1 DEF LineInv
  <2> QED BY <1>2, <1>3, <2>1, StandsSame
<1>6. LineInv'
  BY <1>1, <1>3, <1>5, LineGoesOn DEF LineInv
<1>7. PaintInv'
  BY <1>1, <1>2, <1>3, PaintKept
<1> QED BY <1>4, <1>6, <1>7 DEF ConsoleInv

LEMMA EnterStep ==
  ASSUME ConsoleInv, EnterKey, UNCHANGED paintVars, Flow'
  PROVE  ConsoleInv'
<1>1. LineInv /\ PaintInv
  BY DEF ConsoleInv
<1>2. Keeps(text, text', painted)
  BY EnterFacts
<1>3. /\ accepting' = FALSE /\ completed' = TRUE /\ input' = <<>> /\ cursorVisible' = FALSE
      /\ UNCHANGED <<closed, limit, shifted>>
  BY DEF EnterKey
<1>4. TextOK(text')
  BY <1>2 DEF Keeps
<1>5. LineInv'
  <2>1. closed' \in BOOLEAN
    BY <1>1, <1>3 DEF LineInv
  <2> QED BY <1>1, <1>3, <2>1, LineEnded
<1>6. PaintInv'
  BY <1>1, <1>2, <1>3, PaintKept
<1> QED BY <1>4, <1>5, <1>6 DEF ConsoleInv

LEMMA DeleteStep ==
  ASSUME ConsoleInv, accepting, DeleteKey, UNCHANGED <<paintVars, phase>>, Flow'
  PROVE  ConsoleInv'
<1>1. LineInv
  BY DEF ConsoleInv
<1>2. /\ TextOK(text') /\ PaintInv' /\ input' \in Seq(Letters) /\ Len(input') <= limit
      /\ Stands(text', inputRow, inputColumn, input', limit)
  BY DeleteKeyFacts
<1>3. cursorVisible' = TRUE /\ UNCHANGED <<accepting, completed, closed, inputRow, inputColumn, limit, submitted>>
  BY DEF DeleteKey
<1>4. limit' \in Nat /\ Len(input') <= limit' /\ Stands(text', inputRow', inputColumn', input', limit')
  BY <1>1, <1>2, <1>3 DEF LineInv
<1>5. phase' = "dispatching" /\ submitted' => ~accepting
  BY <1>1, <1>3 DEF LineInv
<1>6. LineInv'
  BY <1>1, <1>2, <1>3, <1>4, <1>5, LineGoesOn
<1> QED BY <1>2, <1>6 DEF ConsoleInv

LEMMA LetterStep ==
  ASSUME ConsoleInv, accepting, NEW k \in Letters, LetterKey(k), UNCHANGED <<paintVars, phase>>, Flow'
  PROVE  ConsoleInv'
<1>1. LineInv /\ PaintInv
  BY DEF ConsoleInv
<1>2. /\ Keeps(text, text', painted) /\ input' \in Seq(Letters) /\ Len(input') <= limit
      /\ Stands(text', inputRow, inputColumn, input', limit)
  BY LetterFacts
<1>3. UNCHANGED <<accepting, completed, closed, inputRow, inputColumn, limit, submitted, shifted>>
  BY DEF LetterKey
<1>4. cursorVisible' \in BOOLEAN
  BY <1>1 DEF LetterKey, LineInv
<1>5. limit' \in Nat /\ Len(input') <= limit' /\ Stands(text', inputRow', inputColumn', input', limit')
  BY <1>1, <1>2, <1>3 DEF LineInv
<1>6. phase' = "dispatching" /\ submitted' => ~accepting
  BY <1>1, <1>3 DEF LineInv
<1>7. LineInv'
  BY <1>1, <1>2, <1>3, <1>4, <1>5, <1>6, LineGoesOn
<1>8. TextOK(text')
  BY <1>2 DEF Keeps
<1>9. PaintInv'
  BY <1>1, <1>2, <1>3, PaintKept
<1> QED BY <1>7, <1>8, <1>9 DEF ConsoleInv

LEMMA DispatchKeeps == ConsoleInv /\ Dispatch => ConsoleInv'
<1> SUFFICES ASSUME ConsoleInv, Dispatch PROVE ConsoleInv'
  OBVIOUS
<1> DEFINE e == Head(batch)
<1>1. LineInv
  BY DEF ConsoleInv
<1>2. batch # <<>> /\ batch' = Tail(batch) /\ Called(e) /\ UNCHANGED <<paintVars, queue, phase>>
  BY DEF Dispatch
<1>3. Flow'
  BY <1>1, <1>2 DEF LineInv, Flow
<1> HIDE DEF e
<1>4. CASE e = "up" /\ Scroll(1)
  <2> DEFINE n == 1
  <2>1. n \in Int /\ Scroll(n)
    BY <1>4
  <2> HIDE DEF n
  <2> QED BY <1>2, <1>3, <2>1, ScrollStep
<1>5. CASE e = "down" /\ Scroll(-1)
  <2> DEFINE n == -1
  <2>1. n \in Int /\ Scroll(n)
    BY <1>5
  <2> HIDE DEF n
  <2> QED BY <1>2, <1>3, <2>1, ScrollStep
<1>6. CASE ~accepting /\ UNCHANGED <<text, inputVars, cursorVisible, submitted, shifted>>
  <2>1. /\ UNCHANGED <<text, paintVars, shifted, accepting, input, inputRow, inputColumn, limit, cursorVisible>>
        /\ UNCHANGED <<completed, closed>>
    BY <1>2, <1>6 DEF inputVars
  <2>2. closed' \in BOOLEAN /\ completed' \in BOOLEAN
    BY <1>1, <2>1 DEF LineInv
  <2> QED BY <1>3, <1>6, <2>1, <2>2, QuietKeeps
<1>7. CASE accepting /\ EnterKey
  BY <1>2, <1>3, <1>7, EnterStep
<1>8. CASE accepting /\ DeleteKey
  BY <1>2, <1>3, <1>8, DeleteStep
<1>9. CASE accepting /\ e \in Letters /\ LetterKey(e)
  BY <1>2, <1>3, <1>9, LetterStep
<1> QED BY <1>2, <1>4, <1>5, <1>6, <1>7, <1>8, <1>9 DEF Called

LEMMA PaintKeeps ==
  ASSUME ConsoleInv, Paint, Flow', UNCHANGED submitted, phase' = phase \/ phase' = "main"
  PROVE  ConsoleInv'
<1>1. LineInv
  BY DEF ConsoleInv
<1>2. /\ TextOK(text') /\ PaintInv' /\ cursorVisible' \in BOOLEAN
      /\ text'.cells = text.cells /\ text'.oldest = text.oldest /\ text'.newest = text.newest /\ text'.column = text.column
  BY PaintStep
<1>3. UNCHANGED <<accepting, completed, closed, input, inputRow, inputColumn, limit>>
  BY DEF Paint, inputVars
<1>4. accepting => Stands(text', inputRow', inputColumn', input', limit')
  <2>1. StandsOn(text, text')
    BY <1>2 DEF StandsOn
  <2>2. accepting => Stands(text, inputRow, inputColumn, input, limit)
    BY <1>1 DEF LineInv
  <2> QED BY <1>3, <2>1, <2>2, StandsSame
<1>5. phase' = "dispatching" /\ submitted' => ~accepting
  BY <1>1 DEF LineInv
<1>6. LineInv'
  BY <1>1, <1>2, <1>3, <1>4, <1>5, LineGoesOn DEF LineInv
<1> QED BY <1>2, <1>6 DEF ConsoleInv

LEMMA PaintEndsKeeps == ConsoleInv /\ PaintEnds => ConsoleInv'
<1> SUFFICES ASSUME ConsoleInv, PaintEnds PROVE ConsoleInv'
  OBVIOUS
<1>1. Paint /\ phase' = "main" /\ UNCHANGED <<queue, batch, submitted>>
  BY DEF PaintEnds, Paint
<1>2. Flow'
  BY <1>1 DEF ConsoleInv, LineInv, Flow
<1> QED BY <1>1, <1>2, PaintKeeps

LEMMA FlushInHandlerKeeps == ConsoleInv /\ FlushInHandler => ConsoleInv'
<1> SUFFICES ASSUME ConsoleInv, FlushInHandler PROVE ConsoleInv'
  OBVIOUS
<1>1. Paint /\ phase' = phase /\ UNCHANGED <<queue, batch, submitted>>
  BY DEF FlushInHandler, Paint
<1>2. Flow'
  BY <1>1 DEF ConsoleInv, LineInv, Flow
<1> QED BY <1>1, <1>2, PaintKeeps

LEMMA StutterKeeps == ConsoleInv /\ UNCHANGED vars => ConsoleInv'
<1> SUFFICES ASSUME ConsoleInv, UNCHANGED vars PROVE ConsoleInv'
  OBVIOUS
<1>1. LineInv
  BY DEF ConsoleInv
<1>2. /\ UNCHANGED <<text, paintVars, shifted, accepting, input, inputRow, inputColumn, limit, cursorVisible>>
      /\ UNCHANGED <<completed, closed, phase, queue, batch, submitted>>
  BY DEF vars, inputVars, eventVars
<1>3. Flow' /\ (phase' = "dispatching" /\ submitted' => ~accepting) /\ closed' \in BOOLEAN /\ completed' \in BOOLEAN
  BY <1>1, <1>2, FlowSame DEF LineInv
<1> QED BY <1>2, <1>3, QuietKeeps

LEMMA NextKeeps == ConsoleInv /\ [Next]_vars => ConsoleInv'
BY WriteKeeps, CancelInputKeeps, CloseInputKeeps, ReopenInputKeeps, ClearKeeps, ResetKeeps, BeginInputKeeps,
   ReadLineKeeps, TryReadKeeps, ReaderReturnsKeeps, HatKeeps, PollKeeps, DispatchKeeps, PollEndsKeeps,
   PaintEndsKeeps, FlushInHandlerKeeps, StutterKeeps DEF Next

\* The state of the console at any moment: the ring of whole rows with the
\* viewport on it, the line being edited as it stands in the text, and every
\* cell of the pen layer that is not as the text has it listed for the next
\* flush (console.cpp:80-125, 287-301).
THEOREM ConsoleKept == Spec => []ConsoleInv
<1>1. Init => ConsoleInv
  BY InitOK
<1>2. ConsoleInv /\ [Next]_vars => ConsoleInv'
  BY NextKeeps
<1> QED BY <1>1, <1>2, PTL DEF Spec

LEMMA ConsoleLine == ConsoleInv => LineWhole
<1> SUFFICES ASSUME ConsoleInv PROVE LineWhole
  OBVIOUS
<1>1. TextOK(text) /\ LineInv /\ PaintInv
  BY DEF ConsoleInv
<1>2. /\ text \in TextRecord /\ text.newest - text.oldest \in 0 .. History - 1
      /\ text.view \in text.oldest .. BottomView(text)
      /\ \A row \in text.oldest .. text.newest : WholeRow(text.cells[row % History])
  BY <1>1 DEF TextOK
<1>3. TypeOK
  <2>1. painted \in [Screen -> Glyphs]
    BY <1>1, PaintParts, PaintingFacts DEF PaintInv, PaintRecord
  <2>2. text.cells \in [0 .. History - 1 -> [Columns0 -> Glyphs]] /\ text.column \in 0 .. Columns
    BY <1>2 DEF TextRecord
  <2> QED BY <1>1, <1>2, <2>1, <2>2 DEF TypeOK, LineInv
<1>4. WideWhole
  BY <1>2 DEF WideWhole, WholeRow, ReadCell
<1>5. EchoIsInput
  <2> SUFFICES ASSUME accepting PROVE EchoIsInput
    BY DEF EchoIsInput
  <2>1. Stands(text, inputRow, inputColumn, input, limit)
    BY <1>1 DEF LineInv
  <2>2. /\ inputRow >= text.oldest
        /\ \A i \in 1 .. Len(input) :
             /\ inputRow + (inputColumn + i - 1) \div Columns <= text.newest
             /\ ReadCell(text, inputRow + (inputColumn + i - 1) \div Columns, (inputColumn + i - 1) % Columns) = input[i]
    <3>1. inputRow \in Nat /\ text.oldest <= inputRow /\ text.oldest \in Nat
      BY <1>2, <2>1 DEF Stands, TextRecord
    <3> QED BY <2>1, <3>1 DEF Stands
  <2>3. text.newest = EndRow(inputColumn + Len(input)) /\ text.column = EndColumn(inputColumn + Len(input))
    BY <2>1 DEF Stands, EndRow, EndColumn
  <2> QED BY <2>2, <2>3 DEF EchoIsInput
<1>6. OneLine
  BY <1>1 DEF LineInv, OneLine
<1> QED BY <1>3, <1>4, <1>5, <1>6 DEF LineWhole

\* The line being edited is what the text holds of it, for every size of the
\* console: rows are whole, its letters stand where begin_input left room for
\* them however the ring has moved since, and no other line waits
\* (console.cpp:185-216, 415-436).
THEOREM ConsoleLineWhole == Spec => []LineWhole
BY ConsoleKept, ConsoleLine, PTL

\* Nothing is added to a line after Enter until the next poll.
LEMMA NothingAdded ==
  ASSUME ConsoleInv, input' = input \/ input' = <<>>
  PROVE  Len(input') <= Len(input)
<1>1. Len(input) \in Nat
  BY DEF ConsoleInv, LineInv
<1>2. Len(<<>>) = 0
  OBVIOUS
<1>3. CASE input' = input
  BY <1>1, <1>3
<1>4. CASE input' = <<>>
  <2>1. Len(input') = 0
    BY <1>2, <1>4
  <2> QED BY <1>1, <2>1
<1> QED BY <1>3, <1>4

LEMMA SubmittedStep == ConsoleInv /\ [Next]_vars => (submitted => Len(input') <= Len(input))
<1> SUFFICES ASSUME ConsoleInv, [Next]_vars, submitted PROVE input' = input \/ input' = <<>>
  BY NothingAdded
<1>1. CASE Write \/ CancelInput
  BY <1>1 DEF Write, CancelInput, Cancel
<1>2. CASE CloseInput
  BY <1>2 DEF CloseInput
<1>3. CASE ReopenInput \/ Clear \/ Reset
  BY <1>3 DEF ReopenInput, Clear, Reset
<1>4. CASE BeginInput \/ ReadLine
  BY <1>4 DEF BeginInput, ReadLine, Begin
<1>5. CASE TryRead \/ ReaderReturns
  BY <1>5 DEF TryRead, ReaderReturns, Take
<1>6. CASE Hat \/ Poll \/ PollEnds
  BY <1>6 DEF Hat, Poll, PollEnds, inputVars
<1>7. CASE Dispatch
  <2> DEFINE e == Head(batch)
  <2>1. ~accepting
    BY <1>7 DEF Dispatch, ConsoleInv, LineInv
  <2>2. Called(e)
    BY <1>7 DEF Dispatch
  <2> HIDE DEF e
  <2>3. UNCHANGED inputVars
    BY <2>1, <2>2 DEF Called, Scroll
  <2> QED BY <2>3 DEF inputVars
<1>8. CASE PaintEnds \/ FlushInHandler
  BY <1>8 DEF PaintEnds, FlushInHandler, Paint, inputVars
<1>9. CASE UNCHANGED vars
  BY <1>9 DEF vars, inputVars
<1> QED BY <1>1, <1>2, <1>3, <1>4, <1>5, <1>6, <1>7, <1>8, <1>9 DEF Next

\* "The remaining keys after Enter in the same batch do not enter the next
\* session by mistake" (README): whatever handlers do in the rest of the poll,
\* none of them opens a line (console.cpp:415-419).
THEOREM ConsoleBatchIsolated == Spec => BatchIsolated
<1>1. ConsoleInv /\ [Next]_vars => [submitted => Len(input') <= Len(input)]_vars
  BY SubmittedStep
<1> QED BY <1>1, ConsoleKept, PTL DEF Spec, BatchIsolated

\* A flush ends with PaintEnds alone.
LEMMA FlushStep == ConsoleInv /\ [Next]_vars => (phase = "painting" /\ phase' # "painting" /\ ~shifted => AsShown')
<1> SUFFICES ASSUME ConsoleInv, [Next]_vars, phase = "painting", phase' # "painting", ~shifted PROVE AsShown'
  OBVIOUS
<1>1. ~MayCall
  BY DEF MayCall
<1>2. ~(Write \/ CancelInput \/ CloseInput \/ ReopenInput \/ Clear \/ Reset \/ BeginInput \/ ReadLine \/ TryRead \/ FlushInHandler)
  BY <1>1 DEF Write, CancelInput, CloseInput, ReopenInput, Clear, Reset, BeginInput, ReadLine, TryRead, FlushInHandler
<1>3. ~(ReaderReturns \/ Poll \/ Dispatch \/ PollEnds)
  BY DEF ReaderReturns, Poll, Dispatch, PollEnds
<1>4. ~Hat
  BY DEF Hat
<1>5. ~UNCHANGED vars
  BY DEF vars, eventVars
<1>6. Paint
  BY <1>2, <1>3, <1>4, <1>5 DEF Next, PaintEnds
<1> QED BY <1>6, PaintStep

\* What flush leaves on the pen layer is the visible text with its cursor, for
\* every order and history of the calls, unless a deletion moved the view
\* (console.cpp:373-411).
THEOREM ConsoleFlushShows == Spec => FlushShows
<1>1. ConsoleInv /\ [Next]_vars => [phase = "painting" /\ phase' # "painting" /\ ~shifted => AsShown']_vars
  BY FlushStep
<1> QED BY <1>1, ConsoleKept, PTL DEF Spec, FlushShows
=============================================================================
