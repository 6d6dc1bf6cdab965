------------------------------- MODULE Pools --------------------------------
(***************************************************************************)
(* The memory pools of threadx-rs (pool.rs): byte pools, whose handle is   *)
(* used through a shared reference, and block pools, whose handle has to   *)
(* be borrowed mutably.  The blocks of a pool have one size.  A slice of a *)
(* block can be handed to another thread.  release only borrows the slice, *)
(* so that its thread still has it, and may release it again, while the    *)
(* block has another user.  allocate(false) without a free block returns   *)
(* an error and changes nothing.                                           *)
(***************************************************************************)
EXTENDS TxList

CONSTANTS
  PoolUsers,  \* threads
  BytePools, BlockPools,
  Size        \* blocks that fit into the memory of a pool

Pools == BytePools \cup BlockPools
Blocks == [pool : Pools, number : 1 .. Size]

\* The types tell the two kinds apart.
PoolsAssumption == BytePools \cap BlockPools = {} /\ Size \in Nat

VARIABLES
  owner,    \* the thread that has the BlockPoolHandle
  deleted,  \* pools that were deleted
  free,     \* blocks the kernel can hand out
  slices,   \* the blocks each thread has a slice of
  stale,    \* the blocks some thread has a slice of that was released
  misused,  \* blocks in use that were released through a stale slice
  waiting   \* threads suspended in allocate(true), for each pool

poolVars == <<owner, deleted, free, slices, stale, misused, waiting>>

\* BytePool::initialize and BlockPool::initialize, before the threads start.
PoolsInit ==
  /\ owner \in [BlockPools -> PoolUsers]
  /\ deleted = {}
  /\ free = Blocks
  /\ slices = [th \in PoolUsers |-> {}]
  /\ stale = {}
  /\ misused = {}
  /\ waiting = [p \in Pools |-> <<>>]

WaitsFor(p) == {waiting[p][i] : i \in 1 .. Len(waiting[p])}
PoolWaits(th) == \E p \in Pools : th \in WaitsFor(p)

\* &self of BytePoolHandle, &mut self of BlockPoolHandle.
MayUse(th, p) ==
  /\ ~PoolWaits(th)
  /\ p \notin deleted
  /\ p \in BlockPools => owner[p] = th

-----------------------------------------------------------------------------
\* BytePoolHandle::allocate and BlockPoolHandle::allocate
AllocateBlock(th, p) ==
  /\ MayUse(th, p)
  /\ \E b \in free :
       /\ b.pool = p
       /\ free' = free \ {b}
       /\ slices' = [slices EXCEPT ![th] = @ \cup {b}]
  /\ UNCHANGED <<owner, deleted, stale, misused, waiting>>

AllocateWaits(th, p) ==
  /\ MayUse(th, p)
  /\ \A b \in free : b.pool # p
  /\ waiting' = [waiting EXCEPT ![p] = Append(@, th)]
  /\ UNCHANGED <<owner, deleted, free, slices, stale, misused>>

\* Mutant of PoolOf: the block goes to the pool whose handle was used.
PoolOfHandle(b, p) == p

\* The kernel finds the pool in the header of the block; release does not
\* use its own.
PoolOf(b, p) == b.pool

SameKind(p, q) == p \in BytePools <=> q \in BytePools

\* The kernel takes the block back: it goes to the first thread that waits for
\* one of its pool.  remaining are the slices without the released one.
GivenBack(home, b, remaining) ==
  IF waiting[home] = <<>>
  THEN /\ slices' = remaining
       /\ free' = free \cup {b}
       /\ UNCHANGED waiting
  ELSE /\ slices' = [remaining EXCEPT ![Head(waiting[home])] = @ \cup {b}]
       /\ waiting' = [waiting EXCEPT ![home] = Tail(@)]
       /\ UNCHANGED free

\* The handle of any pool of the kind will do.  In a deleted pool release is
\* an error, and the block is lost.  So is the release of a block that is free:
\* the kernel refuses it in a byte pool; in a block pool it takes the link to
\* the next free block for the pool, and what follows is not modelled.
Release(th, p, b) ==
  /\ MayUse(th, p)
  /\ SameKind(p, b.pool)
  /\ b \in slices[th] /\ b \notin free
  /\ LET remaining == [slices EXCEPT ![th] = @ \ {b}]
     IN IF b.pool \in deleted
        THEN slices' = remaining /\ UNCHANGED <<free, waiting>>
        ELSE GivenBack(PoolOf(b, p), b, remaining)
  /\ stale' = stale \cup {b}
  /\ UNCHANGED <<owner, deleted, misused>>

\* The same call with a slice that was released before, while the block is in
\* use: it is taken from whoever has it.  In any other state of the block the
\* kernel refuses it, or what it does is not modelled, as above.  A stale slice
\* may have been sent to any thread and be kept for ever.
ReleaseAgain(th, p, b) ==
  /\ MayUse(th, p)
  /\ SameKind(p, b.pool)
  /\ b \in stale /\ b \notin free /\ b.pool \notin deleted
  /\ GivenBack(PoolOf(b, p), b, slices)
  /\ misused' = misused \cup {b}
  /\ UNCHANGED <<owner, deleted, stale>>

\* The slice is moved, alone or in its MemoryBlock, to another thread.
SendSlice(th, to, b) ==
  /\ ~PoolWaits(th) /\ ~PoolWaits(to) /\ th # to
  /\ b \in slices[th]
  /\ slices' = [slices EXCEPT ![th] = @ \ {b}, ![to] = @ \cup {b}]
  /\ UNCHANGED <<owner, deleted, free, stale, misused, waiting>>

\* MemoryBlock has no drop: a slice that goes out of scope is not released.
Forget(th, b) ==
  /\ ~PoolWaits(th)
  /\ b \in slices[th]
  /\ slices' = [slices EXCEPT ![th] = @ \ {b}]
  /\ UNCHANGED <<owner, deleted, free, stale, misused, waiting>>

\* delete consumes the handle, so nobody is inside allocate.  The slices live
\* as long as the memory of the pool.
DeletePool(th, p) ==
  /\ MayUse(th, p)
  /\ waiting[p] = <<>>
  /\ deleted' = deleted \cup {p}
  /\ free' = {b \in free : b.pool # p}
  /\ UNCHANGED <<owner, slices, stale, misused, waiting>>

\* BlockPoolHandle::prioritize: the kernel puts the waiter of the highest
\* priority first, whichever that is.
Prioritize(th, p) ==
  /\ MayUse(th, p) /\ p \in BlockPools
  /\ \E i \in 1 .. Len(waiting[p]) : waiting' = [waiting EXCEPT ![p] = Fronted(@, i)]
  /\ UNCHANGED <<owner, deleted, free, slices, stale, misused>>

PoolsNext ==
  \E th \in PoolUsers :
    \/ \E p \in Pools :
         \/ AllocateBlock(th, p) \/ AllocateWaits(th, p) \/ DeletePool(th, p) \/ Prioritize(th, p)
         \/ \E b \in slices[th] : Release(th, p, b)
         \/ \E b \in stale : ReleaseAgain(th, p, b)
    \/ \E b \in slices[th] : Forget(th, b) \/ \E to \in PoolUsers : SendSlice(th, to, b)

PoolsSpec == PoolsInit /\ [][PoolsNext]_poolVars

-----------------------------------------------------------------------------
(* Properties.                                                             *)

\* Type invariant of the pools and their users.
PoolsTypeOK ==
  /\ owner \in [BlockPools -> PoolUsers]
  /\ deleted \in SUBSET Pools
  /\ free \in SUBSET Blocks
  /\ slices \in [PoolUsers -> SUBSET Blocks]
  /\ stale \in SUBSET Blocks
  /\ misused \in SUBSET Blocks
  /\ waiting \in [Pools -> Seq(PoolUsers)]

\* As long as no program uses a slice after its release, nor releases it again,
\* the memory of a block has one user: the thread with the slice, wherever it
\* was sent, or the kernel, also when blocks are released through the handle of
\* another pool and when their pool has been deleted.  A second release harms
\* no other block than its own.
OneUser ==
  /\ \A b \in Blocks \ misused :
       /\ \A th, other \in PoolUsers : b \in slices[th] /\ b \in slices[other] => th = other
       /\ \A th \in PoolUsers : b \in slices[th] => b \notin free
  /\ \A b \in free : b.pool \notin deleted

\* No thread is suspended in allocate while its pool has a free block, and no
\* pool is deleted under it.
NoneWaitsInVain ==
  \A p \in Pools : waiting[p] # <<>> => p \notin deleted /\ \A b \in free : b.pool # p

\* Together they are what every call preserves: a block has one user, unless it
\* was released through a stale slice, and nobody waits for one that is free.
PoolsInv == PoolsTypeOK /\ OneUser /\ NoneWaitsInVain
=============================================================================
