-------------------------------- MODULE Heap --------------------------------
(***************************************************************************)
(* The first-fit allocator of the target runtime (runtime.cpp).            *)
(*                                                                         *)
(* The heap is an array of blocks, each a header followed by its payload.  *)
(* blocks maps the offset of every header to the header's fields; mem is   *)
(* what the array holds: header bytes, or what the program wrote into the  *)
(* memory it was given.  live is the program's side: what it was promised. *)
(***************************************************************************)
EXTENDS Integers, FiniteSets

CONSTANTS
  HeapBytes,   \* SCRATCH_HEAP_BYTES
  Alignment,   \* alignof(max_align_t)
  HeaderBytes, \* sizeof(Block)
  Base,        \* address of the heap array, a multiple of Alignment
  SizeMax,     \* SIZE_MAX
  Sizes,       \* sizes the program asks for
  Aligns,      \* alignments it asks for
  Counts,      \* element counts it gives calloc
  WildPointers,\* pointers it may free by mistake, as heap offsets
  Contents     \* what it writes; bounds the number of live allocations

ASSUME HeapAssumption ==
  /\ HeapBytes \in Nat /\ Alignment \in Nat \ {0} /\ HeaderBytes \in Nat \ {0}
  /\ HeapBytes % Alignment = 0 /\ HeaderBytes % Alignment = 0
  /\ HeapBytes >= HeaderBytes + Alignment
  /\ Base \in Nat /\ Base % Alignment = 0
  /\ SizeMax \in Nat /\ SizeMax > Base + 2 * HeapBytes
  /\ Sizes \subseteq 0..SizeMax /\ Counts \subseteq 0..SizeMax
  /\ Aligns \subseteq Nat \ {0}
  /\ WildPointers \subseteq 0..HeapBytes - 1

Offsets == 0..HeapBytes - 1
Null == -1
Header == "header"
Zero == "zero"
Junk == "junk"

VARIABLES
  initialized,
  blocks,   \* offset -> [span, requested, payload, allocated]
  mem,      \* contents of the heap array
  live,     \* pointer -> [size, align, written, data]: what the program owns
  errno,
  aborted

vars == <<initialized, blocks, mem, live, errno, aborted>>

Block(span, requested, payload, allocated) ==
  [span |-> span, requested |-> requested, payload |-> payload, allocated |-> allocated]

Heads(bs) == DOMAIN bs

\* f with x mapped to v.
With(f, x, v) == [y \in DOMAIN f \cup {x} |-> IF y = x THEN v ELSE f[y]]

RoundTo(n, a) == ((n + a - 1) \div a) * a
Rounded(n) == RoundTo(n, Alignment)
PowerTwo(n) == \E k \in 0..n : n = 2^k

\* initialize(): one free block spans the heap.
Initialized(bs) == IF initialized THEN bs ELSE [o \in {0} |-> Block(HeapBytes, 0, 0, FALSE)]

-----------------------------------------------------------------------------
\* coalesce(): a free block disappears into a free block right before it.
Survives(bs, o) ==
  ~ \E p \in Heads(bs) : p + bs[p].span = o /\ ~bs[p].allocated /\ ~bs[o].allocated

Coalesce(bs) ==
  LET keep == {o \in Heads(bs) : Survives(bs, o)}
      End(o) == CHOOSE e \in keep \cup {HeapBytes} :
                  e > o /\ \A f \in keep : f > o => e <= f
  IN [o \in keep |-> [bs[o] EXCEPT !.span = End(o) - o]]

\* split(): what is left over becomes a free block if it can hold anything.
Split(bs, o, span) ==
  IF bs[o].span - span >= HeaderBytes + Alignment
  THEN With([bs EXCEPT ![o].span = span], o + span, Block(bs[o].span - span, 0, 0, FALSE))
  ELSE bs

\* Where the payload of the block at o starts, for an alignment.
PayloadAt(o, align) == RoundTo(Base + o + HeaderBytes, align) - (Base + o)

Fits(bs, o, size, align) ==
  /\ ~bs[o].allocated
  /\ PayloadAt(o, align) <= bs[o].span
  /\ size <= bs[o].span - PayloadAt(o, align)

\* Mutant: only the first free block is considered.
FirstFree(bs, size, align) ==
  {o \in Heads(bs) : /\ Fits(bs, o, size, align)
                     /\ \A p \in Heads(bs) : p < o => bs[p].allocated}

\* allocate(): the first block that fits, or none.
FirstFit(bs, size, align) ==
  {o \in Heads(bs) : /\ Fits(bs, o, size, align)
                     /\ \A p \in Heads(bs) : p < o => ~Fits(bs, p, size, align)}

Take(bs, o, size, align) ==
  LET payload == PayloadAt(o, align)
      split   == Split(bs, o, Rounded(payload + size))
  IN [split EXCEPT ![o] = Block(@.span, size, payload, TRUE)]

AtLeastOne(size) == IF size = 0 THEN 1 ELSE size

\* The outcome of allocate(): the new blocks and the pointer, or failure.
Allocation(bs, size, align) ==
  LET n == AtLeastOne(size)
      found == IF n > HeapBytes \/ align > HeapBytes THEN {}
               ELSE FirstFit(bs, n, align)
  IN IF found = {} THEN [ok |-> FALSE, blocks |-> bs, pointer |-> Null]
     ELSE LET o == CHOOSE o \in found : TRUE
          IN [ok |-> TRUE, blocks |-> Take(bs, o, n, align),
              pointer |-> o + PayloadAt(o, align)]

\* find(): the allocated block with this payload pointer.
Find(p) == {o \in Heads(blocks) : blocks[o].allocated /\ o + blocks[o].payload = p}

-----------------------------------------------------------------------------
Spanned(p, n) == {a \in Offsets : p <= a /\ a < p + n}

\* m with the headers of bs that are new or changed written over it.
Headers(bs, m) ==
  [a \in Offsets |->
     IF \E o \in Heads(bs) : /\ a \in Spanned(o, HeaderBytes)
                             /\ (o \notin Heads(blocks) \/ bs[o] # blocks[o])
     THEN Header ELSE m[a]]

\* Memory nobody relies on holds anything.
Settle(bs, lv, m) ==
  [a \in Offsets |-> IF \/ \E o \in Heads(bs) : a \in Spanned(o, HeaderBytes)
                        \/ \E p \in DOMAIN lv : a \in Spanned(p, lv[p].written)
                     THEN m[a] ELSE Junk]

Promise(size, align, written, data) ==
  [size |-> size, align |-> align, written |-> written, data |-> data]

\* The contents the program can write next; it owns at most as many allocations
\* as there are.
Unused == Contents \ {live[p].data : p \in DOMAIN live}

MayAllocate == Cardinality(DOMAIN live) < Cardinality(Contents)

Forget(p) == [q \in DOMAIN live \ {p} |-> live[q]]

Init ==
  /\ initialized = FALSE
  /\ blocks = <<>>
  /\ mem = [a \in Offsets |-> Junk]
  /\ live = <<>>
  /\ errno = "0"
  /\ aborted = FALSE

\* What the call returns when allocate() failed.
Refuse(bs, error) ==
  /\ blocks' = bs
  /\ mem' = Settle(bs, live, Headers(bs, mem))
  /\ errno' = error
  /\ UNCHANGED <<live, aborted>>

\* malloc(), aligned_alloc() and posix_memalign() end in allocate(); nothing
\* has been written to the memory the program gets.
Allocate(size, align, error) ==
  LET result == Allocation(Initialized(blocks), size, align)
  IN /\ initialized' = TRUE
     /\ IF result.ok
        THEN /\ blocks' = result.blocks
             /\ live' = With(live, result.pointer, Promise(size, align, 0, Junk))
             /\ mem' = Settle(blocks', live', Headers(blocks', mem))
             /\ UNCHANGED <<errno, aborted>>
        ELSE Refuse(result.blocks, error)

Malloc(size) == /\ ~aborted /\ MayAllocate
                /\ Allocate(size, Alignment, "ENOMEM")

AlignedAlloc(align, size) ==
  /\ ~aborted /\ MayAllocate
  /\ IF ~PowerTwo(align) \/ size % align # 0
     THEN /\ errno' = "EINVAL"
          /\ UNCHANGED <<initialized, blocks, mem, live, aborted>>
     ELSE Allocate(size, IF align < Alignment THEN Alignment ELSE align, "ENOMEM")

\* posix_memalign() reports by its result and puts errno back.
PosixMemalign(align, size) ==
  /\ ~aborted /\ MayAllocate
  /\ PowerTwo(align)
  /\ Allocate(size, IF align < Alignment THEN Alignment ELSE align, errno)

\* calloc(): the product must not wrap, and the memory is zeroed.
Calloc(count, size) ==
  LET result == Allocation(Initialized(blocks), count * size, Alignment)
  IN /\ ~aborted /\ MayAllocate
     /\ IF size # 0 /\ count > SizeMax \div size
        THEN /\ errno' = "ENOMEM"
             /\ UNCHANGED <<initialized, blocks, mem, live, aborted>>
        ELSE /\ initialized' = TRUE
             /\ IF ~result.ok THEN Refuse(result.blocks, "ENOMEM")
                ELSE /\ blocks' = result.blocks
                     /\ live' = With(live, result.pointer,
                                     Promise(count * size, Alignment, count * size, Zero))
                     /\ mem' = Settle(blocks', live',
                          [a \in Offsets |-> IF a \in Spanned(result.pointer, count * size)
                                             THEN Zero ELSE Headers(blocks', mem)[a]])
                     /\ UNCHANGED <<errno, aborted>>

\* free() of the block at o.
Freed(bs, o) == Coalesce([bs EXCEPT ![o].allocated = FALSE])

Abort == /\ aborted' = TRUE
         /\ UNCHANGED <<initialized, blocks, mem, live, errno>>

\* free(): aborts when no allocated block has this payload.
Free(p) ==
  /\ ~aborted
  /\ IF Find(p) = {} THEN Abort
     ELSE /\ \E o \in Find(p) : blocks' = Freed(blocks, o)
          /\ live' = Forget(p)
          /\ mem' = Settle(blocks', live', Headers(blocks', mem))
          /\ UNCHANGED <<initialized, errno, aborted>>

\* realloc() takes over the free block that follows if that is enough.
Absorb(o, size) ==
  LET next == o + blocks[o].span
      room == blocks[o].span - blocks[o].payload
  IN IF /\ size > room /\ next < HeapBytes
        /\ ~blocks[next].allocated
        /\ size <= room + blocks[next].span
     THEN [q \in Heads(blocks) \ {next} |->
             IF q = o THEN [blocks[o] EXCEPT !.span = @ + blocks[next].span]
             ELSE blocks[q]]
     ELSE blocks

\* Mutant: the block that follows is not merged with what was split off.
ResizedUnmerged(bs, o, size) ==
  [Split(bs, o, Rounded(bs[o].payload + size)) EXCEPT ![o].requested = size]

Resized(bs, o, size) ==
  Coalesce([Split(bs, o, Rounded(bs[o].payload + size)) EXCEPT ![o].requested = size])

\* realloc() of the block at o, when it stays where it is.
ReallocInPlace(p, o, size) ==
  /\ size <= Absorb(o, size)[o].span - Absorb(o, size)[o].payload
  /\ blocks' = Resized(Absorb(o, size), o, size)
  /\ live' = [live EXCEPT ![p] =
                Promise(size, @.align, IF size < @.written THEN size ELSE @.written, @.data)]
  /\ mem' = Settle(blocks', live', Headers(blocks', mem))
  /\ UNCHANGED <<initialized, errno, aborted>>

\* memcpy() of what the old block was asked to hold.
Copied(q, p, n) == [a \in Offsets |-> IF a \in Spanned(q, n) THEN mem[p + (a - q)] ELSE mem[a]]

\* realloc() moves: a new block, a copy of the old contents, then free(). The
\* old block stays if there is no new one.
ReallocMove(p, o, size) ==
  LET result == Allocation(blocks, size, Alignment)
      q == result.pointer
  IN /\ size > Absorb(o, size)[o].span - Absorb(o, size)[o].payload
     /\ IF ~result.ok
        THEN Refuse(blocks, "ENOMEM") /\ UNCHANGED initialized
        ELSE /\ blocks' = Freed(result.blocks, o)
             /\ live' = With(Forget(p), q, Promise(size, Alignment, live[p].written, live[p].data))
             /\ mem' = Settle(blocks', live', Headers(blocks', Copied(q, p, blocks[o].requested)))
             /\ UNCHANGED <<initialized, errno, aborted>>

\* realloc() of a pointer that is not null, to a size that is not zero; the
\* two other cases are malloc() and free().
Realloc(p, size) ==
  /\ ~aborted /\ size > 0
  /\ IF Find(p) = {} THEN Abort
     ELSE IF size > HeapBytes
     THEN Refuse(blocks, "ENOMEM") /\ UNCHANGED initialized
     ELSE \E o \in Find(p) : ReallocInPlace(p, o, size) \/ ReallocMove(p, o, size)

\* The program fills memory it owns.
Write(p) ==
  /\ ~aborted /\ Unused # {}
  /\ live[p].written # live[p].size \/ live[p].data = Zero
  /\ LET d == CHOOSE c \in Unused : TRUE IN
       /\ live' = [live EXCEPT ![p] = Promise(@.size, @.align, @.size, d)]
       /\ mem' = [a \in Offsets |-> IF a \in Spanned(p, live[p].size) THEN d ELSE mem[a]]
  /\ UNCHANGED <<initialized, blocks, errno, aborted>>

Next ==
  \/ \E size \in Sizes : Malloc(size)
  \/ \E align \in Aligns, size \in Sizes : AlignedAlloc(align, size) \/ PosixMemalign(align, size)
  \/ \E count \in Counts, size \in Sizes : Calloc(count, size)
  \/ \E p \in DOMAIN live \cup WildPointers : Free(p)
  \/ \E p \in DOMAIN live \cup WildPointers, size \in Sizes : Realloc(p, size)
  \/ \E p \in DOMAIN live : Write(p)

Spec == Init /\ [][Next]_vars

-----------------------------------------------------------------------------
TypeOK ==
  /\ initialized \in BOOLEAN /\ aborted \in BOOLEAN
  /\ errno \in {"0", "ENOMEM", "EINVAL"}
  /\ Heads(blocks) \subseteq Offsets
  /\ \A o \in Heads(blocks) :
       blocks[o] \in [span : Nat, requested : Nat, payload : Nat, allocated : BOOLEAN]
  /\ DOMAIN live \subseteq Offsets
  /\ \A p \in DOMAIN live :
       live[p] \in [size : Nat, align : Nat, written : Nat, data : Contents \cup {Zero, Junk}]
  /\ mem \in [Offsets -> Contents \cup {Header, Zero, Junk}]

\* The blocks tile the heap: every walk from offset 0 over the spans visits
\* each header once and ends exactly at the end, at aligned offsets.
Tiling ==
  IF ~initialized THEN blocks = <<>>
  ELSE /\ 0 \in Heads(blocks)
       /\ \A o \in Heads(blocks) :
            /\ o % Alignment = 0
            /\ blocks[o].span >= HeaderBytes + Alignment
            /\ o + blocks[o].span \in Heads(blocks) \cup {HeapBytes}
            /\ \A q \in Heads(blocks) : ~(o < q /\ q < o + blocks[o].span)

\* No two free blocks touch, whatever sequence of frees and reallocs led here.
NoAdjacentFree ==
  \A o \in Heads(blocks) :
    LET next == o + blocks[o].span
    IN ~blocks[o].allocated /\ next \in Heads(blocks) => blocks[next].allocated

\* The allocated blocks are exactly what the program owns, each large enough.
BlocksMatchLive ==
  /\ DOMAIN live = {o + blocks[o].payload : o \in {h \in Heads(blocks) : blocks[h].allocated}}
  /\ \A o \in Heads(blocks) : blocks[o].allocated =>
       /\ HeaderBytes <= blocks[o].payload
       /\ blocks[o].payload + live[o + blocks[o].payload].size <= blocks[o].span

\* What the program wrote is still there: no other call writes into it, and
\* realloc carries it along.
ContentsIntact ==
  \A p \in DOMAIN live : \A a \in Spanned(p, live[p].written) : mem[a] = live[p].data

\* The program, writing only to memory it owns, never damages a header.
HeadersIntact ==
  \A o \in Heads(blocks) : \A a \in Spanned(o, HeaderBytes) : mem[a] = Header

\* Once everything is freed, the heap is one free block again.
NothingLost ==
  initialized /\ DOMAIN live = {} =>
    Heads(blocks) = {0} /\ blocks[0].span = HeapBytes

\* A block is never much larger than what was asked for, also after realloc.
WasteBounded ==
  \A o \in Heads(blocks) : blocks[o].allocated =>
    blocks[o].span - blocks[o].payload - blocks[o].requested < HeaderBytes + 2 * Alignment

\* The bytes outside every allocated block.
FreeBytes == {a \in Offsets : \A o \in Heads(blocks) :
                blocks[o].allocated => a \notin Spanned(o, blocks[o].span)}

\* An allocation fails only if no run of free bytes could hold it, or if its
\* alignment is beyond the size of the heap: that is refused unseen.
FailsOnlyWhenFull ==
  \A size \in Sizes, align \in {Alignment} \cup {a \in Aligns : PowerTwo(a)} :
    initialized /\ align <= HeapBytes /\ ~Allocation(blocks, size, align).ok =>
      ~ \E o \in Offsets :
          /\ o % Alignment = 0
          /\ o + PayloadAt(o, align) + AtLeastOne(size) <= HeapBytes
          /\ Spanned(o, PayloadAt(o, align) + AtLeastOne(size)) \subseteq FreeBytes

\* Every pointer has the alignment it was asked for, whatever the base of the
\* heap is aligned to; realloc promises only the default one.
PointersAligned == \A p \in DOMAIN live : (Base + p) % live[p].align = 0

\* What every sequence of malloc, realloc and free has to leave behind (runtime.cpp:33-138).
WellFormed ==
  /\ TypeOK
  /\ Tiling
  /\ NoAdjacentFree
  /\ BlocksMatchLive
  /\ HeadersIntact
  /\ NothingLost
  /\ WasteBounded
  /\ PointersAligned
  /\ ContentsIntact
  /\ FailsOnlyWhenFull
=============================================================================
