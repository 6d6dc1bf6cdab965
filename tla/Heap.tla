-------------------------------- MODULE Heap --------------------------------
(***************************************************************************)
(* The global allocator of threadx-rs (allocator.rs): GlobalAlloc on top   *)
(* of one ThreadX byte pool.  alloc rounds the size up, takes a block from *)
(* the pool and moves the pointer up to the alignment; dealloc gives the   *)
(* pointer it is handed back to the pool.  Addresses and sizes are bytes.  *)
(* The pool itself is external: a block is some free stretch of its memory *)
(* behind a header, at the distance from its start that the header and the *)
(* rounding of the kernel allow.  An allocation that was moved may end     *)
(* behind its block, in the header of the next one; what the kernel does   *)
(* with a header the program has overwritten is not modelled.              *)
(***************************************************************************)
EXTENDS Integers

CONSTANTS
  Base,           \* address of the memory given to initialize, aligned or not
  PoolBytes,      \* its length
  Layouts,        \* the Layouts the program allocates
  UsizeModulus,   \* 2^32 in the code
  OverflowChecks  \* the profile: TRUE for dev, FALSE for release

Word == 4
Header == 8

HeapAssumption ==
  /\ Base \in Nat /\ PoolBytes \in Nat
  /\ UsizeModulus \in Nat \ {0}
  /\ OverflowChecks \in BOOLEAN
  /\ Layouts \subseteq [size : Nat \ {0}, align : Nat \ {0}]

VARIABLES
  heapInitialized,  \* the field of ThreadXAllocator
  pool,         \* the byte pool: "none" or "created"
  blocks,       \* blocks the kernel has handed out
  live,         \* allocations the program holds
  heapPanicked      \* why the program stopped, "no" while it runs

heapVars == <<heapInitialized, pool, blocks, live, heapPanicked>>

HeapInit ==
  /\ heapInitialized = FALSE
  /\ pool = "none"
  /\ blocks = {}
  /\ live = {}
  /\ heapPanicked = "no"

HeapPanic(reason) ==
  /\ heapPanicked' = reason
  /\ UNCHANGED <<heapInitialized, pool, blocks, live>>

-----------------------------------------------------------------------------
\* What initialize stores, whatever _tx_byte_pool_create returned.
Created(ok) == TRUE

\* Every program calls it once.
Initialize ==
  /\ heapPanicked = "no"
  /\ ~heapInitialized
  /\ \E ok \in BOOLEAN :
       /\ heapInitialized' = Created(ok)
       /\ pool' = IF ok THEN "created" ELSE "none"
  /\ UNCHANGED <<blocks, live, heapPanicked>>

\* Mutant of Rounded: the next multiple is taken for the remainder.
RoundedDown(l) == l.size - (l.size % l.align)

\* The size alloc asks for: the subtraction wraps in release.
Rounded(l) == l.size + (((l.align - l.size) % UsizeModulus) % l.align)

\* In dev the subtraction is checked.
Overflows(l) == OverflowChecks /\ l.size > l.align

\* The kernel rounds up to words.
KernelSize(n) == ((n + Word - 1) \div Word) * Word

Block(start, n) == [start |-> start, size |-> n]

Room(b) ==
  /\ b.start - Header >= Base
  /\ b.start + b.size + Header <= Base + PoolBytes
  /\ \A other \in blocks :
       \/ b.start + b.size <= other.start - Header
       \/ other.start + other.size <= b.start - Header

\* Mutant of Aligned: the pointer is always moved on.
AlignedNext(start, align) == start + (align - (start % align))

\* res.add(res.align_offset(align))
Aligned(start, align) == start + ((align - (start % align)) % align)

\* The block the kernel found for an allocation: alloc moves the pointer by less
\* than a header.
Within(a, b) == b.start <= a.ptr /\ a.ptr < b.start + Header

\* Where blocks can start: whole words behind the start of the memory.
Starts == {Base + Header + Word * k : k \in 0 .. (PoolBytes \div Word)}

\* Every allocation ends where its block does, or before.
HeadersIntact ==
  \A a \in live, b \in blocks : Within(a, b) => a.ptr + a.size <= b.start + b.size

\* A thread for which there is no room is suspended in _tx_byte_allocate
\* until another one releases.
Alloc(l) ==
  /\ heapPanicked = "no" /\ HeadersIntact
  /\ IF ~heapInitialized THEN HeapPanic("uninitialized")
     ELSE IF Overflows(l) THEN HeapPanic("overflow")
     ELSE /\ pool = "created"
          /\ \E start \in Starts :
               LET b == Block(start, KernelSize(Rounded(l)))
               IN /\ Room(b)
                  /\ blocks' = blocks \cup {b}
                  /\ live' = live \cup
                       {[ptr |-> Aligned(start, l.align), size |-> l.size, align |-> l.align]}
          /\ UNCHANGED <<heapInitialized, pool, heapPanicked>>

\* _tx_byte_release knows a block by the address it starts at; any other
\* pointer is an error, which dealloc unwraps.
Dealloc(a) ==
  /\ heapPanicked = "no" /\ HeadersIntact
  /\ IF \E b \in blocks : b.start = a.ptr
     THEN /\ blocks' = {b \in blocks : b.start # a.ptr}
          /\ live' = live \ {a}
          /\ UNCHANGED <<heapInitialized, pool, heapPanicked>>
     ELSE HeapPanic("release")

HeapNext ==
  \/ Initialize
  \/ \E l \in Layouts : Alloc(l)
  \/ \E a \in live : Dealloc(a)

HeapSpec == HeapInit /\ [][HeapNext]_heapVars

-----------------------------------------------------------------------------
(* Properties.                                                             *)

Disjoint(s, m, t, n) == s + m <= t \/ t + n <= s

\* Type invariant of the allocator.
HeapTypeOK ==
  /\ heapInitialized \in BOOLEAN
  /\ pool \in {"none", "created"}
  /\ blocks \subseteq [start : Int, size : Nat]
  /\ live \subseteq [ptr : Int, size : Nat, align : Nat]
  /\ heapPanicked \in {"no", "uninitialized", "overflow", "release"}

\* The pointer of a is aligned wherever the kernel puts its block.
Fits(a) == Base % a.align = 0 /\ Word % a.align = 0

\* The memory of an allocation belongs to it alone: it lies inside the memory
\* of the heap and shares no byte with another allocation, also when its
\* pointer was moved and it ends behind its block.  If its alignment is that of
\* the heap and of a word at most, it touches no header of the kernel either.
OwnMemory ==
  \A a \in live :
    /\ a.ptr >= Base + Header /\ a.ptr + a.size <= Base + PoolBytes
    /\ \A other \in live : other # a => Disjoint(a.ptr, a.size, other.ptr, other.size)
    /\ Fits(a) => \A b \in blocks : Disjoint(a.ptr, a.size, b.start - Header, Header)

\* The kernel holds one block for each allocation of the program, and no other.
\* If the alignment of the allocation is that of the heap and of a word at
\* most, dealloc finds the block; so it panics only in a program with other
\* allocations, whose pointer was moved.
Releasable ==
  /\ heapPanicked = "release" => \E a \in live : ~Fits(a)
  /\ \A a \in live : \E b \in blocks : Within(a, b) /\ (Fits(a) => b.start = a.ptr)
  /\ \A b \in blocks : \E a \in live : Within(a, b)
  /\ \A a, other \in live, b \in blocks : Within(a, b) /\ Within(other, b) => a = other

\* What the blocks say of each other; with it the two properties above are
\* inductive.
HeapInv ==
  /\ \A b \in blocks :
       b.start - Header >= Base /\ b.start + b.size + Header <= Base + PoolBytes
  /\ \A b, c \in blocks :
       b # c => b.start + b.size <= c.start - Header \/ c.start + c.size <= b.start - Header
  /\ \A a \in live, b \in blocks : Within(a, b) => a.size <= b.size

Contract == INSTANCE GlobalAlloc WITH First <- Base, Length <- PoolBytes

\* To the program the allocator is one of Rust: whoever allocates gets aligned
\* memory of his own, and a release takes away that allocation and no other.
ImplementsGlobalAlloc == Contract!Spec
=============================================================================
