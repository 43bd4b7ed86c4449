----------------------------- MODULE SlotMemory ------------------------------
(***************************************************************************)
(* Copies, fills and accesses through pointers (slot_memory.cpp).  Each    *)
(* leaf is the sequence of the bytes it moves, in the order in which the   *)
(* emitted blocks move them: a move either brings a byte read beforehand,  *)
(* or reads its source when its turn comes.                                *)
(***************************************************************************)
EXTENDS Numeric

CONSTANTS PointerBytes,   \* of a pointer in a slot
          AddressBytes,   \* the bytes an address fits in (3)
          FixedSizes,     \* the sizes with leaves of their own (1, 2, 4, 8)
          DataStart, MemorySize

\* None: the byte is known; otherwise it is read from there, reduced by mod.
None == 0
Put(to, value) == [to |-> to, from |-> None, value |-> value, mod |-> B]
Carry(to, from) == [to |-> to, from |-> from, value |-> 0, mod |-> B]
Mask(to, mod) == [to |-> to, from |-> to, value |-> 0, mod |-> mod]

Puts(d, bytes) == [i \in Indices(bytes) |-> Put(d + i - 1, bytes[i])]

\* What the move leaves in memory m.
Moved(m, move) ==
  [m EXCEPT ![move.to] = (IF move.from = None THEN move.value ELSE m[move.from]) % move.mod]

-----------------------------------------------------------------------------
Slot(m, a, n) == [i \in 1 .. n |-> m[a + i - 1]]

CopyFixed(m, d, a, n) == Puts(d, Slot(m, a, n))

\* Mutant: always forwards.
CopyForward(d, a, n) == [i \in 1 .. n |-> Carry(d + i - 1, a + i - 1)]

\* Backwards when the destination lies inside the source.
CopyCounted(d, a, n) ==
  IF d > a /\ d < a + n THEN [i \in 1 .. n |-> Carry(d + n - i, a + n - i)]
  ELSE [i \in 1 .. n |-> Carry(d + i - 1, a + i - 1)]

Copy(m, d, a, n) == IF n \in FixedSizes THEN CopyFixed(m, d, a, n) ELSE CopyCounted(d, a, n)

Fill(d, byte, n) == [i \in 1 .. n |-> Put(d + i - 1, byte % B)]

-----------------------------------------------------------------------------
\* A number that does not fit an address is not cut off.
Exceeds(m, p, n) == \E i \in AddressBytes .. n - 1 : m[p + i] # 0
Decode(m, p, n) ==
  LET used == IF n < AddressBytes THEN n ELSE AddressBytes
  IN FoldRight(LAMBDA byte, v : v * B + byte, Slot(m, p, used), 0)

BadAccess(address, n) ==
  n > 0 /\ (address < DataStart \/ address > MemorySize \/ n > MemorySize - address + 1)

Pointer(m, p) == Decode(m, p, PointerBytes)
BadPointer(m, p, n) == Exceeds(m, p, PointerBytes) \/ BadAccess(Pointer(m, p), n)

\* load: a partial top byte is masked in the destination.
Load(m, d, p, bytes, bits) ==
  Copy(m, d, Pointer(m, p), bytes)
    \o IF bits % ByteBits = 0 THEN <<>> ELSE <<Mask(d + bytes - 1, 2 ^ (bits % ByteBits))>>

\* store: it is masked before the first byte is written.
Store(m, p, a, bytes, bits) ==
  LET address == Pointer(m, p)
      top == m[a + bytes - 1] % 2 ^ (bits % ByteBits)
  IN IF bits % ByteBits = 0 THEN Copy(m, address, a, bytes)
     ELSE Copy(m, address, a, bytes - 1) \o <<Put(address + bytes - 1, top)>>

\* What ends the program instead of an access, and the moves of one that may
\* happen.  An access of no bytes looks at nothing.
BadMemmove(m, pdst, psrc, n) == n > 0 /\ (BadPointer(m, pdst, n) \/ BadPointer(m, psrc, n))
Memmove(m, pdst, psrc, n) ==
  IF n = 0 THEN <<>> ELSE CopyCounted(Pointer(m, pdst), Pointer(m, psrc), n)

BadMemset(m, pdst, n) == n > 0 /\ BadPointer(m, pdst, n)
Memset(m, pdst, byte, n) == IF n = 0 THEN <<>> ELSE Fill(Pointer(m, pdst), byte, n)
=============================================================================
