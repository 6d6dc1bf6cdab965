---------------------------- MODULE MemoryProofs ----------------------------
(***************************************************************************)
(* The global allocator, for a heap of any size that starts at any address *)
(* and layouts aligned to a header of the kernel at most: the memory of an *)
(* allocation is its own, the kernel holds one block for each, and what    *)
(* was not moved dealloc can give back.                                    *)
(*                                                                         *)
(* The memory pools, for any threads and any pools: a block has one user,  *)
(* and no thread waits for a block that is free.                           *)
(***************************************************************************)
EXTENDS Heap, Pools, TLAPS

\* An alignment is a power of two.  Above 8, alloc could move the pointer by
\* more than the header that separates two blocks.
SmallAlignment == \A l \in Layouts : l.align \in {1, 2, 4, 8}

\* What a step preserves.
AllocatorInv ==
  HeapTypeOK /\ HeapInv /\ Releasable /\ \A a \in live : a.align \in {1, 2, 4, 8}

-----------------------------------------------------------------------------
(* The arithmetic of alloc.                                                *)

\* The pointer is aligned, is moved by less than the alignment, and not at all
\* if heap and words are aligned to it.
LEMMA PointerMoves ==
  ASSUME HeapAssumption, SmallAlignment, NEW l \in Layouts, NEW start \in Starts
  PROVE  /\ start \in Int /\ Aligned(start, l.align) \in Int
         /\ start <= Aligned(start, l.align) /\ Aligned(start, l.align) < start + 8
         /\ Aligned(start, l.align) % l.align = 0
         /\ Base % l.align = 0 /\ Word % l.align = 0 => Aligned(start, l.align) = start
<1>1. PICK k \in 0 .. (PoolBytes \div Word) : start = Base + Header + Word * k
  BY DEF Starts
<1>2. Base \in Int /\ k \in Int /\ start = Base + 8 + 4 * k
  BY <1>1 DEF HeapAssumption, Word, Header
<1>3. start \in Int
  BY ONLY <1>2
<1>4. CASE l.align = 1
  BY <1>3, <1>4 DEF Aligned
<1>5. CASE l.align = 2
  <2>1. Base % 2 = 0 => start % 2 = 0
    BY ONLY <1>2
  <2> QED
    BY <1>3, <1>5, <2>1 DEF Aligned
<1>6. CASE l.align = 4
  <2>1. Base % 4 = 0 => start % 4 = 0
    BY ONLY <1>2
  <2> QED
    BY <1>3, <1>6, <2>1 DEF Aligned
<1>7. CASE l.align = 8
  BY <1>3, <1>7 DEF Aligned, Word
<1> QED
  BY <1>4, <1>5, <1>6, <1>7 DEF SmallAlignment

\* The block the kernel hands out is at least as large as the layout, although
\* the subtraction may have wrapped.
LEMMA RoundsUp ==
  ASSUME HeapAssumption, NEW l \in Layouts
  PROVE  /\ l.size \in Nat /\ KernelSize(Rounded(l)) \in Nat
         /\ l.size <= KernelSize(Rounded(l))
<1>1. ASSUME NEW x \in Int, NEW m \in Nat \ {0}
      PROVE  x % m \in Nat
  OBVIOUS
<1>2. l.size \in Nat /\ l.align \in Nat \ {0} /\ UsizeModulus \in Nat \ {0}
  BY DEF HeapAssumption
<1>3. Rounded(l) \in Nat /\ l.size <= Rounded(l)
  <2>1. (l.align - l.size) % UsizeModulus \in Int
    BY <1>1, <1>2
  <2>2. ((l.align - l.size) % UsizeModulus) % l.align \in Nat
    BY <1>1, <1>2, <2>1
  <2> QED
    BY <1>2, <2>2 DEF Rounded
<1>4. ASSUME NEW n \in Nat
      PROVE  KernelSize(n) \in Nat /\ n <= KernelSize(n)
  BY DEF KernelSize, Word
<1>5. l.size <= Rounded(l) /\ Rounded(l) <= KernelSize(Rounded(l))
      /\ KernelSize(Rounded(l)) \in Nat
  BY <1>3, <1>4
<1> QED
  BY <1>2, <1>3, <1>5

-----------------------------------------------------------------------------
(* The steps.                                                              *)

\* Nothing is allocated before initialize.
LEMMA HeapStarts == HeapInit => AllocatorInv
  BY DEF HeapInit, AllocatorInv, HeapTypeOK, HeapInv, Releasable

LEMMA InitializeStep == AllocatorInv /\ Initialize => AllocatorInv'
  BY DEF Initialize, Created, AllocatorInv, HeapTypeOK, HeapInv, Releasable, Within, Fits

\* A pointer is within one block only: a header separates any two.
LEMMA OneBlock ==
  ASSUME NEW a \in [ptr : Int, size : Nat, align : Nat],
         NEW b \in [start : Int, size : Nat], NEW c \in [start : Int, size : Nat],
         b.start + b.size <= c.start - Header \/ c.start + c.size <= b.start - Header,
         Within(a, b)
  PROVE  ~Within(a, c)
<1>1. a.ptr \in Int /\ b.start \in Int /\ b.size \in Nat /\ c.start \in Int /\ c.size \in Nat
  OBVIOUS
<1> QED
  BY <1>1 DEF Within, Header

\* alloc adds one block and the allocation in it.
LEMMA AllocStep ==
  ASSUME HeapAssumption, SmallAlignment, AllocatorInv, NEW l \in Layouts, Alloc(l)
  PROVE  AllocatorInv'
<1>1. CASE /\ heapPanicked' \in {"uninitialized", "overflow"}
           /\ UNCHANGED <<heapInitialized, pool, blocks, live>>
  BY <1>1 DEF AllocatorInv, HeapTypeOK, HeapInv, Releasable, Within, Fits
<1>2. ASSUME NEW start \in Starts, NEW b, NEW a,
             b = Block(start, KernelSize(Rounded(l))), Room(b),
             a = [ptr |-> Aligned(start, l.align), size |-> l.size, align |-> l.align],
             blocks' = blocks \cup {b}, live' = live \cup {a},
             UNCHANGED <<heapInitialized, pool, heapPanicked>>
      PROVE  AllocatorInv'
  <2>1. /\ b = [start |-> start, size |-> KernelSize(Rounded(l))]
        /\ start \in Int /\ KernelSize(Rounded(l)) \in Nat /\ l.size \in Nat
        /\ l.align \in {1, 2, 4, 8} /\ a.ptr \in Int /\ a.align = l.align /\ a.size = l.size
    BY <1>2, PointerMoves, RoundsUp DEF Block, SmallAlignment
  <2>2. /\ b \in [start : Int, size : Nat] /\ a \in [ptr : Int, size : Nat, align : Nat]
        /\ a.align \in {1, 2, 4, 8} /\ a.size <= b.size
    BY <1>2, <2>1, RoundsUp
  <2>3. Within(a, b) /\ (Fits(a) => b.start = a.ptr)
    BY <1>2, <2>1, PointerMoves DEF Within, Header, Fits
  <2>4. HeapTypeOK'
    BY <1>2, <2>2 DEF AllocatorInv, HeapTypeOK
  <2>5. /\ b.start - Header >= Base /\ b.start + b.size + Header <= Base + PoolBytes
        /\ \A other \in blocks :
             b.start + b.size <= other.start - Header \/ other.start + other.size <= b.start - Header
    BY <1>2 DEF Room
  <2>6. /\ blocks \subseteq [start : Int, size : Nat]
        /\ live \subseteq [ptr : Int, size : Nat, align : Nat]
    BY DEF AllocatorInv, HeapTypeOK
  <2>7. \A c \in blocks : ~Within(a, c)
    BY <2>2, <2>3, <2>5, <2>6, OneBlock
  <2>8. \A o \in live : ~Within(o, b)
    <3>1. ASSUME NEW o \in live
          PROVE  ~Within(o, b)
      <4>1. PICK c \in blocks : Within(o, c)
        BY DEF AllocatorInv, Releasable
      <4>2. c.start + c.size <= b.start - Header \/ b.start + b.size <= c.start - Header
        BY <2>5
      <4> QED
        BY <2>2, <2>6, <4>1, <4>2, OneBlock
    <3> QED
      BY <3>1
  <2> HIDE DEF Within, Fits
  <2>9. HeapInv'
    <3>1. \A c \in blocks' :
            c.start - Header >= Base /\ c.start + c.size + Header <= Base + PoolBytes
      BY <1>2, <2>5 DEF AllocatorInv, HeapInv
    <3>2. \A c, d \in blocks' :
            c # d => c.start + c.size <= d.start - Header \/ d.start + d.size <= c.start - Header
      BY <1>2, <2>5 DEF AllocatorInv, HeapInv
    <3>3. \A o \in live', c \in blocks' : Within(o, c) => o.size <= c.size
      BY <1>2, <2>2, <2>7, <2>8 DEF AllocatorInv, HeapInv
    <3> QED
      BY <3>1, <3>2, <3>3 DEF HeapInv, Within
  <2>10. Releasable'
    <3>1. heapPanicked' = "release" => \E o \in live' : ~Fits(o)
      BY <1>2 DEF AllocatorInv, Releasable
    <3>2. \A o \in live' : \E c \in blocks' : Within(o, c) /\ (Fits(o) => c.start = o.ptr)
      BY <1>2, <2>3 DEF AllocatorInv, Releasable
    <3>3. \A c \in blocks' : \E o \in live' : Within(o, c)
      BY <1>2, <2>3 DEF AllocatorInv, Releasable
    <3>4. \A o, other \in live', c \in blocks' : Within(o, c) /\ Within(other, c) => o = other
      BY <1>2, <2>7, <2>8 DEF AllocatorInv, Releasable
    <3> QED
      BY <3>1, <3>2, <3>3, <3>4 DEF Releasable, Within, Fits
  <2> QED
    BY <1>2, <2>2, <2>4, <2>9, <2>10 DEF AllocatorInv
<1>3. CASE heapInitialized /\ ~Overflows(l)
  <2>1. PICK start \in Starts :
          LET b == Block(start, KernelSize(Rounded(l)))
          IN /\ Room(b)
             /\ blocks' = blocks \cup {b}
             /\ live' = live \cup
                  {[ptr |-> Aligned(start, l.align), size |-> l.size, align |-> l.align]}
    BY <1>3 DEF Alloc
  <2>2. UNCHANGED <<heapInitialized, pool, heapPanicked>>
    BY <1>3 DEF Alloc
  <2> QED
    BY <1>2, <2>1, <2>2
<1>4. CASE ~heapInitialized \/ Overflows(l)
  BY <1>1, <1>4 DEF Alloc, HeapPanic
<1> QED
  BY <1>3, <1>4

\* dealloc removes the allocation and the one block that starts where it does,
\* or panics on an allocation that was moved.
LEMMA DeallocStep ==
  ASSUME AllocatorInv, NEW a \in live, Dealloc(a)
  PROVE  AllocatorInv'
<1>1. /\ blocks \subseteq [start : Int, size : Nat]
      /\ live \subseteq [ptr : Int, size : Nat, align : Nat]
  BY DEF AllocatorInv, HeapTypeOK
<1>2. ASSUME NEW b \in blocks, b.start = a.ptr
      PROVE  AllocatorInv'
  <2>1. /\ blocks' = {c \in blocks : c.start # a.ptr}
        /\ live' = live \ {a}
        /\ UNCHANGED <<heapInitialized, pool, heapPanicked>> /\ heapPanicked = "no"
    BY <1>2 DEF Dealloc
  <2>2. Within(a, b)
    <3>1. a.ptr \in Int
      BY <1>1
    <3> QED
      BY <1>2, <3>1 DEF Within, Header
  <2>3. ASSUME NEW c \in blocks'
        PROVE  ~Within(a, c)
    <3>1. c \in blocks /\ c # b
      BY <1>2, <2>1
    <3>2. b.start + b.size <= c.start - Header \/ c.start + c.size <= b.start - Header
      BY <3>1 DEF AllocatorInv, HeapInv
    <3> QED
      BY <1>1, <2>2, <3>1, <3>2, OneBlock
  <2>4. HeapTypeOK'
    BY <2>1 DEF AllocatorInv, HeapTypeOK
  <2>5. HeapInv'
    BY <2>1 DEF AllocatorInv, HeapInv, Within
  <2> HIDE DEF Within, Fits
  <2>6. ASSUME NEW o \in live'
        PROVE  \E c \in blocks' : Within(o, c) /\ (Fits(o) => c.start = o.ptr)
    <3>1. o \in live /\ o # a
      BY <2>1
    <3>2. PICK c \in blocks : Within(o, c) /\ (Fits(o) => c.start = o.ptr)
      BY <3>1 DEF AllocatorInv, Releasable
    <3>3. c.start # a.ptr
      <4>1. c.start = a.ptr => Within(a, c)
        BY <1>1 DEF Within, Header
      <4> QED
        BY <3>1, <3>2, <4>1 DEF AllocatorInv, Releasable
    <3> QED
      BY <2>1, <3>2, <3>3
  <2>7. \A c \in blocks' : \E o \in live' : Within(o, c)
    BY <2>1, <2>3 DEF AllocatorInv, Releasable
  <2>8. \A o, other \in live', c \in blocks' : Within(o, c) /\ Within(other, c) => o = other
    BY <2>1 DEF AllocatorInv, Releasable
  <2>9. Releasable'
    BY <2>1, <2>6, <2>7, <2>8 DEF Releasable, Within, Fits
  <2> QED
    BY <2>1, <2>4, <2>5, <2>9 DEF AllocatorInv
<1>3. CASE ~\E b \in blocks : b.start = a.ptr
  <2>1. heapPanicked' = "release" /\ UNCHANGED <<heapInitialized, pool, blocks, live>>
    BY <1>3 DEF Dealloc, HeapPanic
  <2>2. ~Fits(a)
    BY <1>3 DEF AllocatorInv, Releasable
  <2> QED
    BY <2>1, <2>2 DEF AllocatorInv, HeapTypeOK, HeapInv, Releasable, Within, Fits
<1> QED
  BY <1>2, <1>3

-----------------------------------------------------------------------------
(* The results.                                                            *)

LEMMA AllocatorInvariant ==
  ASSUME HeapAssumption, SmallAlignment
  PROVE  HeapSpec => []AllocatorInv
<1>1. AllocatorInv /\ [HeapNext]_heapVars => AllocatorInv'
  <2> SUFFICES ASSUME AllocatorInv, [HeapNext]_heapVars
               PROVE  AllocatorInv'
    OBVIOUS
  <2>1. CASE UNCHANGED heapVars
    BY <2>1 DEF heapVars, AllocatorInv, HeapTypeOK, HeapInv, Releasable, Within, Fits
  <2>2. CASE Initialize
    BY <2>2, InitializeStep
  <2>3. ASSUME NEW l \in Layouts, Alloc(l)
        PROVE  AllocatorInv'
    BY <2>3, AllocStep
  <2>4. ASSUME NEW a \in live, Dealloc(a)
        PROVE  AllocatorInv'
    BY <2>4, DeallocStep
  <2> QED
    BY <2>1, <2>2, <2>3, <2>4 DEF HeapNext
<1> QED
  BY <1>1, HeapStarts, PTL DEF HeapSpec

\* Where an allocation lies, seen from its block.
LEMMA OwnBlock ==
  ASSUME AllocatorInv, NEW a \in live
  PROVE  \E b \in blocks :
           /\ Within(a, b) /\ (Fits(a) => a.ptr = b.start)
           /\ a.ptr \in Int /\ a.size \in Nat /\ b.start \in Int /\ b.size \in Nat
           /\ b.start <= a.ptr /\ a.ptr < b.start + 8 /\ a.size <= b.size
           /\ b.start - 8 >= Base /\ b.start + b.size + 8 <= Base + PoolBytes
<1>1. PICK b \in blocks : Within(a, b) /\ (Fits(a) => a.ptr = b.start)
  BY DEF AllocatorInv, Releasable
<1>2. a.ptr \in Int /\ a.size \in Nat /\ b.start \in Int /\ b.size \in Nat
  BY DEF AllocatorInv, HeapTypeOK
<1>3. a.size <= b.size /\ b.start - 8 >= Base /\ b.start + b.size + 8 <= Base + PoolBytes
  BY <1>1 DEF AllocatorInv, HeapInv, Header
<1>4. b.start <= a.ptr /\ a.ptr < b.start + 8
  BY <1>1 DEF Within, Header
<1> QED
  BY <1>1, <1>2, <1>3, <1>4

\* An allocation lies in the memory of the heap and shares no byte with
\* another one, wherever the heap starts and whether its pointer was moved or
\* not; one that is aligned as the heap and a word are touches no header.
THEOREM MemoryIsOwned ==
  ASSUME HeapAssumption, SmallAlignment
  PROVE  HeapSpec => []OwnMemory
<1>1. ASSUME AllocatorInv
      PROVE  OwnMemory
  <2>1. ASSUME NEW a \in live
        PROVE  /\ a.ptr >= Base + Header /\ a.ptr + a.size <= Base + PoolBytes
               /\ \A other \in live : other # a => Disjoint(a.ptr, a.size, other.ptr, other.size)
               /\ Fits(a) => \A b \in blocks : Disjoint(a.ptr, a.size, b.start - Header, Header)
    <3>1. PICK b \in blocks :
            /\ Within(a, b) /\ (Fits(a) => a.ptr = b.start)
            /\ a.ptr \in Int /\ a.size \in Nat /\ b.start \in Int /\ b.size \in Nat
            /\ b.start <= a.ptr /\ a.ptr < b.start + 8 /\ a.size <= b.size
            /\ b.start - 8 >= Base /\ b.start + b.size + 8 <= Base + PoolBytes
      BY <1>1, OwnBlock
    <3>2. Base \in Int /\ PoolBytes \in Int
      BY DEF HeapAssumption
    <3>3. a.ptr >= Base + Header /\ a.ptr + a.size <= Base + PoolBytes
      BY <3>1, <3>2 DEF Header
    <3>4. ASSUME NEW other \in live, other # a
          PROVE  Disjoint(a.ptr, a.size, other.ptr, other.size)
      <4>1. PICK c \in blocks :
              /\ Within(other, c) /\ (Fits(other) => other.ptr = c.start)
              /\ other.ptr \in Int /\ other.size \in Nat /\ c.start \in Int /\ c.size \in Nat
              /\ c.start <= other.ptr /\ other.ptr < c.start + 8 /\ other.size <= c.size
              /\ c.start - 8 >= Base /\ c.start + c.size + 8 <= Base + PoolBytes
        BY <1>1, OwnBlock
      <4>2. c # b
        BY <1>1, <3>1, <3>4, <4>1 DEF AllocatorInv, Releasable
      <4>3. b.start + b.size <= c.start - 8 \/ c.start + c.size <= b.start - 8
        BY <1>1, <4>2 DEF AllocatorInv, HeapInv, Header
      <4> QED
        BY <3>1, <4>1, <4>3 DEF Disjoint
    <3>5. ASSUME Fits(a), NEW c \in blocks
          PROVE  Disjoint(a.ptr, a.size, c.start - Header, Header)
      <4>1. c.start \in Int /\ c.size \in Nat
        BY <1>1 DEF AllocatorInv, HeapTypeOK
      <4>2. CASE c = b
        BY <3>1, <3>5, <4>2 DEF Disjoint, Header
      <4>3. CASE c # b
        <5>1. b.start + b.size <= c.start - 8 \/ c.start + c.size <= b.start - 8
          BY <1>1, <4>3 DEF AllocatorInv, HeapInv, Header
        <5>2. a.ptr = b.start
          BY <3>1, <3>5
        <5> QED
          BY <3>1, <4>1, <5>1, <5>2 DEF Disjoint, Header
      <4> QED
        BY <4>2, <4>3
    <3> QED
      BY <3>3, <3>4, <3>5
  <2> QED
    BY <2>1 DEF OwnMemory
<1> QED
  BY <1>1, AllocatorInvariant, PTL

\* The kernel holds one block for each allocation, wherever the heap starts,
\* and dealloc finds it unless the alignment is above that of heap and word.
THEOREM EverythingReleasable ==
  ASSUME HeapAssumption, SmallAlignment
  PROVE  HeapSpec => []Releasable
<1>1. AllocatorInv => Releasable
  BY DEF AllocatorInv
<1> QED
  BY <1>1, AllocatorInvariant, PTL

-----------------------------------------------------------------------------
(* The contract of GlobalAlloc.                                            *)

\* An alloc that returns is one of the contract.
LEMMA AllocOfContract ==
  ASSUME HeapAssumption, SmallAlignment, AllocatorInv, NEW l \in Layouts, Alloc(l),
         heapInitialized, ~Overflows(l)
  PROVE  Contract!Alloc(l)
<1>1. PICK start \in Starts :
        LET b == Block(start, KernelSize(Rounded(l)))
        IN /\ Room(b)
           /\ live' = live \cup
                {[ptr |-> Aligned(start, l.align), size |-> l.size, align |-> l.align]}
  BY DEF Alloc
<1> DEFINE n == KernelSize(Rounded(l))
           ptr == Aligned(start, l.align)
<1>2. /\ start \in Int /\ ptr \in Int /\ start <= ptr /\ ptr < start + 8 /\ ptr % l.align = 0
      /\ live' = live \cup {[ptr |-> ptr, size |-> l.size, align |-> l.align]}
  BY <1>1, PointerMoves
<1>3. l.size \in Nat /\ n \in Nat /\ l.size <= n /\ Base \in Nat /\ PoolBytes \in Nat
  BY RoundsUp DEF HeapAssumption
<1>4. /\ start - 8 >= Base /\ start + n + 8 <= Base + PoolBytes
      /\ \A b \in blocks : start + n <= b.start - 8 \/ b.start + b.size <= start - 8
  BY <1>1 DEF Room, Block, Header
<1> HIDE DEF n, ptr
<1>5. ptr \in Base .. Base + PoolBytes /\ ptr + l.size <= Base + PoolBytes
  BY <1>2, <1>3, <1>4
<1>6. ASSUME NEW a \in live
      PROVE  Contract!Apart(ptr, l.size, a)
  <2>1. PICK b \in blocks :
          /\ a.ptr \in Int /\ a.size \in Nat /\ b.start \in Int /\ b.size \in Nat
          /\ b.start <= a.ptr /\ a.ptr < b.start + 8 /\ a.size <= b.size
    BY OwnBlock
  <2>2. start + n <= b.start - 8 \/ b.start + b.size <= start - 8
    BY <1>4
  <2> QED
    BY <1>2, <1>3, <2>1, <2>2 DEF Contract!Apart
<1> QED
  BY <1>2, <1>5, <1>6 DEF Contract!Alloc

\* Under the same assumptions the allocator is one of Rust: what it returns is
\* aligned, large enough and the caller's own, and a dealloc that returns takes
\* back that and no more.
THEOREM AllocatorHonoursContract ==
  ASSUME HeapAssumption, SmallAlignment
  PROVE  HeapSpec => ImplementsGlobalAlloc
<1>1. HeapInit => Contract!Init
  BY DEF HeapInit, Contract!Init
<1>2. AllocatorInv /\ [HeapNext]_heapVars => [Contract!Next]_live
  <2> SUFFICES ASSUME AllocatorInv, [HeapNext]_heapVars
               PROVE  Contract!Next \/ live' = live
    OBVIOUS
  <2>1. CASE UNCHANGED heapVars
    BY <2>1 DEF heapVars
  <2>2. CASE Initialize
    BY <2>2 DEF Initialize
  <2>3. ASSUME NEW l \in Layouts, Alloc(l)
        PROVE  Contract!Next \/ live' = live
    <3>1. CASE heapInitialized /\ ~Overflows(l)
      BY <2>3, <3>1, AllocOfContract DEF Contract!Next
    <3>2. CASE ~(heapInitialized /\ ~Overflows(l))
      BY <2>3, <3>2 DEF Alloc, HeapPanic
    <3> QED
      BY <3>1, <3>2
  <2>4. ASSUME NEW a \in live, Dealloc(a)
        PROVE  Contract!Next \/ live' = live
    BY <2>4 DEF Dealloc, HeapPanic, Contract!Next, Contract!Dealloc
  <2> QED
    BY <2>1, <2>2, <2>3, <2>4 DEF HeapNext
<1> QED
  BY <1>1, <1>2, AllocatorInvariant, PTL DEF HeapSpec, ImplementsGlobalAlloc, Contract!Spec

-----------------------------------------------------------------------------
(* The pools.                                                              *)

\* A block has one user, or was released through a stale slice.
OneUserOf(b) ==
  /\ \A th, other \in PoolUsers : b \in slices[th] /\ b \in slices[other] => th = other
  /\ \A th \in PoolUsers : b \in slices[th] => b \notin free

\* A slice handed from one thread to another stays with one of them.
LEMMA OneHand ==
  ASSUME PoolsTypeOK, OneUser, NEW th \in PoolUsers, NEW to \in PoolUsers, NEW b \in Blocks,
         b \in slices[th] \/ b \in misused', b \notin free, misused \subseteq misused',
         \/ slices' = [[slices EXCEPT ![th] = @ \ {b}] EXCEPT ![to] = @ \cup {b}]
         \/ b \in misused' /\ slices' = [slices EXCEPT ![to] = @ \cup {b}],
         free' \subseteq free, deleted' = deleted
  PROVE  slices' \in [PoolUsers -> SUBSET Blocks] /\ OneUser'
<1>1. slices \in [PoolUsers -> SUBSET Blocks]
  BY DEF PoolsTypeOK
<1>2. slices' \in [PoolUsers -> SUBSET Blocks]
  BY <1>1
<1>3. ASSUME NEW w \in PoolUsers, NEW c \in Blocks, c # b
      PROVE  c \in slices'[w] => c \in slices[w]
  <2>1. CASE slices' = [slices EXCEPT ![to] = @ \cup {b}]
    BY <1>1, <1>3, <2>1
  <2>2. CASE slices' = [[slices EXCEPT ![th] = @ \ {b}] EXCEPT ![to] = @ \cup {b}]
    BY <1>1, <1>3, <2>2
  <2> QED
    BY <2>1, <2>2
<1>4. ASSUME NEW w \in PoolUsers, b \notin misused', b \in slices'[w]
      PROVE  w = to
  <2>1. b \in slices[th] /\ b \notin misused
    BY <1>4
  <2>2. b \in slices[w] => w = th
    BY <2>1 DEF OneUser
  <2>3. slices' = [[slices EXCEPT ![th] = @ \ {b}] EXCEPT ![to] = @ \cup {b}]
    BY <1>4
  <2> QED
    BY <1>1, <1>4, <2>2, <2>3
<1>5. ASSUME NEW c \in Blocks \ misused'
      PROVE  OneUserOf(c)'
  <2>1. CASE c = b
    BY <1>4, <1>5, <2>1 DEF OneUserOf
  <2>2. CASE c # b
    <3>1. OneUserOf(c)
      BY <1>5 DEF OneUser, OneUserOf
    <3> QED
      BY <1>3, <2>2, <3>1 DEF OneUserOf
  <2> QED
    BY <2>1, <2>2
<1>6. \A c \in free' : c.pool \notin deleted'
  BY DEF OneUser
<1> QED
  BY <1>2, <1>5, <1>6 DEF OneUser, OneUserOf

\* A block that the kernel takes back goes to the first thread that waits for
\* one of its pool, and to the kernel if there is none.  The thread that gives
\* it back no longer uses it, or the block counts as misused.
LEMMA GiveBackStep ==
  ASSUME PoolsAssumption, PoolsInv, NEW th \in PoolUsers, NEW b \in Blocks, NEW remaining,
         b \notin free, b.pool \notin deleted, misused' \in SUBSET Blocks, misused \subseteq misused',
         \/ b \in slices[th] /\ remaining = [slices EXCEPT ![th] = @ \ {b}]
         \/ b \in misused' /\ remaining = slices,
         GivenBack(b.pool, b, remaining), UNCHANGED <<owner, deleted>>, stale' \in SUBSET Blocks
  PROVE  PoolsInv'
<1> USE DEF PoolsInv
<1> DEFINE home == b.pool
<1>1. /\ owner \in [BlockPools -> PoolUsers] /\ deleted \in SUBSET Pools
      /\ free \in SUBSET Blocks /\ slices \in [PoolUsers -> SUBSET Blocks]
      /\ waiting \in [Pools -> Seq(PoolUsers)] /\ home \in Pools
      /\ misused \in SUBSET Blocks
  BY DEF PoolsTypeOK, Blocks
<1>2. CASE waiting[home] = <<>>
  <2>1. slices' = remaining /\ free' = free \cup {b} /\ UNCHANGED waiting
    BY <1>2 DEF GivenBack
  <2>2. slices' \in [PoolUsers -> SUBSET Blocks]
    BY <1>1, <2>1
  <2>3. \A w \in PoolUsers : slices'[w] \subseteq slices[w]
    BY <1>1, <2>1
  <2>4. b \in misused' \/ \A w \in PoolUsers : b \notin slices'[w]
    <3>1. CASE b \in misused'
      BY <3>1
    <3>2. CASE b \notin misused'
      <4>1. b \in slices[th] /\ slices' = [slices EXCEPT ![th] = @ \ {b}] /\ b \notin misused
        BY <2>1, <3>2
      <4>2. \A w \in PoolUsers : b \in slices[w] => w = th
        BY <4>1 DEF OneUser
      <4> QED
        BY <1>1, <4>1, <4>2
    <3> QED
      BY <3>1, <3>2
  <2>5. ASSUME NEW c \in Blocks \ misused'
        PROVE  OneUserOf(c)'
    <3>1. OneUserOf(c)
      BY <1>1, <2>5 DEF OneUser, OneUserOf
    <3> QED
      BY <2>1, <2>3, <2>4, <2>5, <3>1 DEF OneUserOf
  <2>6. OneUser'
    BY <2>1, <2>5 DEF OneUser, OneUserOf
  <2>7. NoneWaitsInVain'
    BY <1>2, <2>1 DEF NoneWaitsInVain
  <2> QED
    BY <1>1, <2>1, <2>2, <2>6, <2>7 DEF PoolsTypeOK
<1>3. CASE waiting[home] # <<>>
  <2> DEFINE to == Head(waiting[home])
  <2>1. /\ slices' = [remaining EXCEPT ![to] = @ \cup {b}]
        /\ waiting' = [waiting EXCEPT ![home] = Tail(@)]
        /\ UNCHANGED free
    BY <1>3 DEF GivenBack
  <2>2. to \in PoolUsers /\ Tail(waiting[home]) \in Seq(PoolUsers)
    <3>1. waiting[home] \in Seq(PoolUsers)
      BY <1>1
    <3>2. ASSUME NEW s \in Seq(PoolUsers), s # <<>>
          PROVE  Head(s) \in PoolUsers /\ Tail(s) \in Seq(PoolUsers)
      BY <3>2
    <3> QED
      BY <1>3, <3>1, <3>2
  <2> HIDE DEF to, home
  <2>3. slices' \in [PoolUsers -> SUBSET Blocks] /\ OneUser'
    BY <2>1, <2>2, OneHand
  <2>4. NoneWaitsInVain'
    <3>1. \A q \in Pools : waiting'[q] # <<>> => waiting[q] # <<>>
      BY <1>1, <1>3, <2>1
    <3> QED
      BY <2>1, <3>1 DEF NoneWaitsInVain
  <2>5. waiting' \in [Pools -> Seq(PoolUsers)]
    BY <1>1, <2>1, <2>2
  <2> QED
    BY <1>1, <2>1, <2>3, <2>4, <2>5 DEF PoolsTypeOK
<1> QED
  BY <1>2, <1>3

\* release, the first time and again.
LEMMA ReleaseStep ==
  ASSUME PoolsAssumption, PoolsInv, NEW th \in PoolUsers, NEW p \in Pools, NEW b,
         Release(th, p, b) \/ ReleaseAgain(th, p, b)
  PROVE  PoolsInv'
<1>1. /\ owner \in [BlockPools -> PoolUsers] /\ deleted \in SUBSET Pools
      /\ free \in SUBSET Blocks /\ slices \in [PoolUsers -> SUBSET Blocks]
      /\ stale \in SUBSET Blocks /\ misused \in SUBSET Blocks
      /\ waiting \in [Pools -> Seq(PoolUsers)]
  BY DEF PoolsInv, PoolsTypeOK
<1>2. CASE Release(th, p, b)
  <2> DEFINE remaining == [slices EXCEPT ![th] = @ \ {b}]
  <2>1. /\ b \in slices[th] /\ b \notin free /\ b \in Blocks /\ stale' = stale \cup {b}
        /\ UNCHANGED <<owner, deleted, misused>>
    BY <1>1, <1>2 DEF Release
  <2>2. CASE b.pool \in deleted
    <3>1. slices' = remaining /\ UNCHANGED <<free, waiting>>
      BY <1>2, <2>2 DEF Release
    <3>2. slices' \in [PoolUsers -> SUBSET Blocks] /\ \A w \in PoolUsers : slices'[w] \subseteq slices[w]
      BY <1>1, <3>1
    <3>3. PoolsTypeOK'
      BY <1>1, <2>1, <3>1, <3>2 DEF PoolsTypeOK
    <3>4. OneUser'
      BY <2>1, <3>1, <3>2 DEF PoolsInv, OneUser
    <3> QED
      BY <2>1, <3>1, <3>3, <3>4 DEF PoolsInv, NoneWaitsInVain
  <2>3. CASE b.pool \notin deleted
    <3>1. GivenBack(b.pool, b, remaining)
      BY <1>2, <2>3 DEF Release, PoolOf
    <3>2. stale' \in SUBSET Blocks /\ misused' \in SUBSET Blocks /\ misused \subseteq misused'
      BY <1>1, <2>1
    <3> HIDE DEF GivenBack, PoolsInv
    <3> QED
      BY <2>1, <2>3, <3>1, <3>2, GiveBackStep
  <2> QED
    BY <2>2, <2>3
<1>3. CASE ReleaseAgain(th, p, b)
  <2>1. /\ b \in Blocks /\ b \notin free /\ b.pool \notin deleted
        /\ GivenBack(b.pool, b, slices) /\ misused' = misused \cup {b}
        /\ UNCHANGED <<owner, deleted, stale>>
    BY <1>1, <1>3 DEF ReleaseAgain, PoolOf
  <2>2. stale' \in SUBSET Blocks /\ misused' \in SUBSET Blocks /\ misused \subseteq misused'
        /\ b \in misused'
    BY <1>1, <2>1
  <2> HIDE DEF GivenBack, PoolsInv
  <2> QED
    BY <2>1, <2>2, GiveBackStep
<1> QED
  BY <1>2, <1>3

\* A list keeps its elements when one of them goes to the front.
LEMMA FrontedSeq ==
  ASSUME NEW S, NEW s \in Seq(S), NEW k \in 1 .. Len(s)
  PROVE  Fronted(s, k) \in Seq(S)
<1>1. Len(s) \in Nat /\ \A i \in 1 .. Len(s) : s[i] \in S
  OBVIOUS
<1>2. \A i \in 1 .. Len(s) : i # 1 => i - 1 \in 1 .. Len(s)
  BY <1>1
<1>3. \A i \in 1 .. Len(s) :
        (IF i = 1 THEN s[k] ELSE IF i <= k THEN s[i - 1] ELSE s[i]) \in S
  BY <1>1, <1>2
<1>4. Fronted(s, k) \in [1 .. Len(s) -> S]
  BY <1>3 DEF Fronted
<1> QED
  BY <1>1, <1>4

\* The calls that move no block between threads.
LEMMA OtherPoolSteps ==
  ASSUME PoolsAssumption, PoolsInv, NEW th \in PoolUsers, NEW p \in Pools,
         \/ AllocateBlock(th, p) \/ AllocateWaits(th, p) \/ DeletePool(th, p) \/ Prioritize(th, p)
  PROVE  PoolsInv'
<1> USE DEF PoolsInv
<1>1. /\ owner \in [BlockPools -> PoolUsers] /\ deleted \in SUBSET Pools
      /\ free \in SUBSET Blocks /\ slices \in [PoolUsers -> SUBSET Blocks]
      /\ stale \in SUBSET Blocks /\ misused \in SUBSET Blocks
      /\ waiting \in [Pools -> Seq(PoolUsers)]
  BY DEF PoolsTypeOK
<1>2. CASE AllocateBlock(th, p)
  <2>1. PICK b \in free : /\ free' = free \ {b}
                          /\ slices' = [slices EXCEPT ![th] = @ \cup {b}]
    BY <1>2 DEF AllocateBlock
  <2>2. UNCHANGED <<owner, deleted, stale, misused, waiting>>
    BY <1>2 DEF AllocateBlock
  <2>3. OneUser'
    BY <1>1, <2>1, <2>2 DEF OneUser
  <2>4. NoneWaitsInVain'
    BY <2>1, <2>2 DEF NoneWaitsInVain
  <2> QED
    BY <1>1, <2>1, <2>2, <2>3, <2>4 DEF PoolsTypeOK
<1>3. CASE AllocateWaits(th, p)
  <2>1. /\ p \notin deleted /\ \A b \in free : b.pool # p
        /\ waiting' = [waiting EXCEPT ![p] = Append(@, th)]
        /\ UNCHANGED <<owner, deleted, free, slices, stale, misused>>
    BY <1>3 DEF AllocateWaits, MayUse
  <2>2. \A q \in Pools : q # p => waiting'[q] = waiting[q]
    BY <1>1, <2>1
  <2>3. waiting' \in [Pools -> Seq(PoolUsers)]
    BY <1>1, <2>1
  <2> QED
    BY <1>1, <2>1, <2>2, <2>3 DEF PoolsTypeOK, OneUser, NoneWaitsInVain
<1>4. CASE DeletePool(th, p)
  <2>1. /\ waiting[p] = <<>> /\ deleted' = deleted \cup {p}
        /\ free' = {b \in free : b.pool # p}
        /\ UNCHANGED <<owner, slices, stale, misused, waiting>>
    BY <1>4 DEF DeletePool
  <2> QED
    BY <1>1, <2>1 DEF PoolsTypeOK, OneUser, NoneWaitsInVain
<1>5. CASE Prioritize(th, p)
  <2>1. PICK k \in 1 .. Len(waiting[p]) :
          waiting' = [waiting EXCEPT ![p] = Fronted(@, k)]
    BY <1>5 DEF Prioritize
  <2>2. UNCHANGED <<owner, deleted, free, slices, stale, misused>>
    BY <1>5 DEF Prioritize
  <2>3. waiting[p] # <<>> /\ Fronted(waiting[p], k) \in Seq(PoolUsers)
    BY <1>1, <2>1, FrontedSeq
  <2>4. \A q \in Pools : waiting'[q] # <<>> => waiting[q] # <<>>
    BY <1>1, <2>1, <2>3
  <2>5. waiting' \in [Pools -> Seq(PoolUsers)]
    BY <1>1, <2>1, <2>3
  <2> QED
    BY <1>1, <2>2, <2>4, <2>5 DEF PoolsTypeOK, OneUser, NoneWaitsInVain
<1> QED
  BY <1>2, <1>3, <1>4, <1>5

\* With any number of threads, byte pools and block pools, and blocks sent
\* between threads and released through any handle: the memory of a block that
\* no program releases again through a slice it has released has one user, and
\* no thread waits for a block while there is one.
THEOREM BlocksHaveOneUser ==
  ASSUME PoolsAssumption
  PROVE  PoolsSpec => []PoolsInv
<1>1. PoolsInit => PoolsInv
  BY DEF PoolsInit, PoolsInv, PoolsTypeOK, OneUser, NoneWaitsInVain
<1>2. PoolsInv /\ [PoolsNext]_poolVars => PoolsInv'
  <2> SUFFICES ASSUME PoolsInv, [PoolsNext]_poolVars
               PROVE  PoolsInv'
    OBVIOUS
  <2>1. CASE UNCHANGED poolVars
    BY <2>1 DEF poolVars, PoolsInv, PoolsTypeOK, OneUser, NoneWaitsInVain
  <2>2. ASSUME NEW th \in PoolUsers, NEW b \in slices[th], Forget(th, b)
        PROVE  PoolsInv'
    <3>1. /\ slices' = [slices EXCEPT ![th] = @ \ {b}]
          /\ UNCHANGED <<owner, deleted, free, stale, misused, waiting>>
      BY <2>2 DEF Forget
    <3> QED
      BY <3>1 DEF PoolsInv, PoolsTypeOK, OneUser, NoneWaitsInVain
  <2>3. ASSUME NEW th \in PoolUsers, NEW b \in slices[th], NEW to \in PoolUsers,
               SendSlice(th, to, b)
        PROVE  PoolsInv'
    <3>1. /\ slices' = [slices EXCEPT ![th] = @ \ {b}, ![to] = @ \cup {b}]
          /\ UNCHANGED <<owner, deleted, free, stale, misused, waiting>>
      BY <2>3 DEF SendSlice
    <3>2. slices' = [[slices EXCEPT ![th] = @ \ {b}] EXCEPT ![to] = @ \cup {b}]
      BY <3>1
    <3>3. PoolsTypeOK /\ OneUser /\ free' \subseteq free /\ deleted' = deleted
          /\ misused \subseteq misused' /\ b \in Blocks
      BY <2>3, <3>1 DEF PoolsInv, PoolsTypeOK
    <3>4. CASE b \notin free
      <4>1. slices' \in [PoolUsers -> SUBSET Blocks] /\ OneUser'
        BY <3>2, <3>3, <3>4, OneHand
      <4> QED
        BY <3>1, <4>1 DEF PoolsInv, PoolsTypeOK, NoneWaitsInVain
    <3>5. CASE b \in free
      <4>1. b \in misused
        BY <3>3, <3>5 DEF OneUser
      <4>2. slices' \in [PoolUsers -> SUBSET Blocks]
            /\ \A w \in PoolUsers, c \in Blocks : c # b /\ c \in slices'[w] => c \in slices[w]
        BY <3>1, <3>3 DEF PoolsTypeOK
      <4>3. OneUser'
        BY <3>1, <3>3, <4>1, <4>2 DEF OneUser
      <4> QED
        BY <3>1, <4>2, <4>3 DEF PoolsInv, PoolsTypeOK, NoneWaitsInVain
    <3> QED
      BY <3>4, <3>5
  <2> QED
    BY <2>1, <2>2, <2>3, ReleaseStep, OtherPoolSteps DEF PoolsNext
<1> QED
  BY <1>1, <1>2, PTL DEF PoolsSpec
=============================================================================
