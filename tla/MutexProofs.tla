---------------------------- MODULE MutexProofs -----------------------------
(* Proofs about the mutexes, for every set of threads and every depth of   *)
(* recursion, and about Executor::new, which makes one.                    *)
EXTENDS Mutex, ExecutorInit, FiniteSetTheorems, SequenceTheorems, TLAPS

USE ThreadAssumption, KindAssumption, CountAssumption

-----------------------------------------------------------------------------
(* The control block.                                                      *)

\* A new mutex is free and nobody waits for it.
LEMMA CreatedBlock ==
  /\ Created \in ControlBlock
  /\ Created.owner = NoThread /\ Created.count = 0
  /\ Created.queue = <<>> /\ Len(Created.queue) = 0
  BY EmptySeq DEF Created, ControlBlock

\* Taking the mutex changes its owner and its count.
LEMMA TakenBlock ==
  ASSUME NEW m \in ControlBlock, NEW th \in Threads
  PROVE  /\ Taken(m, th) \in ControlBlock
         /\ Taken(m, th).owner = th
         /\ Taken(m, th).count = m.count + 1
         /\ Taken(m, th).queue = m.queue
  BY DEF Taken, ControlBlock

\* A thread that is suspended is the last of the queue.
LEMMA SuspendedBlock ==
  ASSUME NEW m \in ControlBlock, NEW th \in Threads
  PROVE  /\ Suspended(m, th) \in ControlBlock
         /\ Suspended(m, th).owner = m.owner
         /\ Suspended(m, th).count = m.count
         /\ Len(Suspended(m, th).queue) = Len(m.queue) + 1
         /\ \A i \in 1 .. Len(m.queue) : Suspended(m, th).queue[i] = m.queue[i]
         /\ Suspended(m, th).queue[Len(m.queue) + 1] = th
<1> DEFINE q == Append(m.queue, th)
<1>1. /\ q \in Seq(Threads)
      /\ Len(q) = Len(m.queue) + 1
      /\ \A i \in 1 .. Len(m.queue) : q[i] = m.queue[i]
      /\ q[Len(m.queue) + 1] = th
  BY AppendProperties DEF ControlBlock
<1>3. Suspended(m, th) = [m EXCEPT !.queue = q]
  BY DEF Suspended
<1> HIDE DEF q
<1>2. Suspended(m, th) = [owner |-> m.owner, count |-> m.count, queue |-> q]
  BY <1>3 DEF ControlBlock
<1> QED
  BY <1>1, <1>2 DEF ControlBlock

\* The last put of the owner makes the head of the queue the owner.
LEMMA HandOverBlock ==
  ASSUME NEW m \in ControlBlock, HandsOver(m)
  PROVE  /\ Put(m) \in ControlBlock
         /\ Head(m.queue) \in Threads /\ Head(m.queue) = m.queue[1]
         /\ Put(m).owner = Head(m.queue)
         /\ Put(m).count = 1
         /\ Len(m.queue) > 0
         /\ Len(Put(m).queue) = Len(m.queue) - 1
         /\ \A i \in 1 .. Len(m.queue) - 1 : Put(m).queue[i] = m.queue[i + 1]
<1>1. m.queue \in Seq(Threads) /\ m.queue # <<>>
  BY DEF ControlBlock, HandsOver
<1>2. /\ Tail(m.queue) \in Seq(Threads)
      /\ Len(Tail(m.queue)) = Len(m.queue) - 1
      /\ \A i \in 1 .. Len(m.queue) - 1 : Tail(m.queue)[i] = m.queue[i + 1]
      /\ Head(m.queue) \in Threads /\ Head(m.queue) = m.queue[1]
      /\ Len(m.queue) > 0
  BY <1>1, HeadTailProperties, EmptySeq
<1>3. Put(m) = [owner |-> Head(m.queue), count |-> 1, queue |-> Tail(m.queue)]
  BY DEF Put
<1> QED
  BY <1>2, <1>3 DEF ControlBlock

\* Any other put lowers the count.
LEMMA PutBlock ==
  ASSUME NEW m \in ControlBlock, ~HandsOver(m), m.count > 0
  PROVE  /\ Put(m) \in ControlBlock
         /\ Put(m).owner = IF m.count = 1 THEN NoThread ELSE m.owner
         /\ Put(m).count = m.count - 1
         /\ Put(m).queue = m.queue
<1>1. Put(m) = [owner |-> IF m.count = 1 THEN NoThread ELSE m.owner,
                count |-> m.count - 1, queue |-> m.queue]
  BY DEF Put, ControlBlock
<1> QED
  BY <1>1 DEF ControlBlock

-----------------------------------------------------------------------------
(* The list of the kernel; guards may be moved to other threads.           *)

\* What block and waiters say of each other, whoever has the guards.
WaitersInv == TypeOK /\ OwnerInv /\ WaitersQueued

\* Without initialize the mutex is free, and so it is after it.
LEMMA WaitersInit == Init => WaitersInv
<1> SUFFICES ASSUME Init
             PROVE  WaitersInv
  OBVIOUS
<1>1. TypeOK
  BY CreatedBlock DEF Init, TypeOK
<1>2. OwnerInv
  BY CreatedBlock DEF Init, OwnerInv
<1>3. WaitersQueued
  BY CreatedBlock DEF Init, WaitersQueued
<1> QED
  BY <1>1, <1>2, <1>3 DEF WaitersInv

\* The last put of the owner resumes the first thread of the queue.
LEMMA HandOverStep ==
  ASSUME WaitersInv, NEW th \in Threads, DropGuard(th), mutex.owner = th, HandsOver(mutex)
  PROVE  WaitersInv'
<1> USE DEF WaitersInv
<1> DEFINE next == Head(mutex.queue)
           n == Len(mutex.queue)
<1>c. mutex \in ControlBlock /\ mutex' = Put(mutex)
  BY DEF TypeOK, DropGuard, AfterDrop
<1>n. n \in Nat
  <2>1. mutex.queue \in Seq(Threads)
    BY <1>c DEF ControlBlock
  <2> QED
    BY <2>1, LenProperties
<1>1. next \in Threads /\ next = mutex.queue[1]
  BY <1>c, <1>n, HandOverBlock
<1>2. /\ locking' = locking \ {next}
      /\ guards' = [t \in Threads |-> IF t = next THEN guards[t] + 1
                                      ELSE IF t = th THEN guards[t] - 1 ELSE guards[t]]
      /\ UNCHANGED <<initialized, dropped, moved>>
  BY DEF DropGuard, Resumed
<1>3. TypeOK'
  BY <1>1, <1>2, <1>c, HandOverBlock DEF TypeOK, DropGuard
<1>4. OwnerInv'
  BY <1>1, <1>c, ThreadAssumption, HandOverBlock DEF OwnerInv
<1>5. WaitersQueued'
  <2>1. /\ n > 0
        /\ Len(mutex'.queue) = n - 1
        /\ \A i \in 1 .. n - 1 : mutex'.queue[i] = mutex.queue[i + 1]
        /\ mutex'.count = 1
    BY <1>c, HandOverBlock
  <2>2. \A i \in 1 .. n - 1 : i + 1 \in 1 .. n /\ i + 1 # 1
    BY <1>n
  <2>3. 1 \in 1 .. n
    BY <1>n, <2>1
  <2>4. \A i \in 1 .. n - 1 : mutex'.queue[i] \in locking'
    <3> SUFFICES ASSUME NEW i \in 1 .. n - 1
                 PROVE  mutex'.queue[i] \in locking'
      OBVIOUS
    <3>1. mutex.queue[i + 1] \in locking
      BY <2>2 DEF WaitersQueued
    <3>2. mutex.queue[i + 1] # mutex.queue[1]
      BY <2>2, <2>3 DEF WaitersQueued
    <3> QED
      BY <3>1, <3>2, <1>1, <1>2, <2>1
  <2>5. \A i, j \in 1 .. n - 1 : mutex'.queue[i] = mutex'.queue[j] => i = j
    BY <1>n, <2>1, <2>2 DEF WaitersQueued
  <2>6. ASSUME NEW t \in locking'
        PROVE  \E i \in 1 .. n - 1 : mutex'.queue[i] = t
    <3>1. PICK k \in 1 .. n : mutex.queue[k] = t
      BY <1>2 DEF WaitersQueued
    <3>2. k # 1
      BY <3>1, <1>1, <1>2
    <3>3. k - 1 \in 1 .. n - 1 /\ (k - 1) + 1 = k
      BY <3>2, <1>n
    <3> QED
      BY <3>1, <3>3, <2>1
  <2>7. mutex'.count > 0
    BY <2>1
  <2>8. 1 .. Len(mutex'.queue) = 1 .. n - 1
    BY <2>1
  <2> HIDE DEF n
  <2> QED
    BY <2>4, <2>5, <2>6, <2>7, <2>8, Zenon DEF WaitersQueued
<1> QED
  BY <1>3, <1>4, <1>5

\* Any other drop of a guard resumes nobody.
LEMMA LastOrNestedStep ==
  ASSUME WaitersInv, NEW th \in Threads, DropGuard(th),
         ~(mutex.owner = th /\ HandsOver(mutex))
  PROVE  WaitersInv'
<1> USE DEF WaitersInv
<1>c. mutex \in ControlBlock
  BY DEF TypeOK
<1>1. /\ locking' = locking
      /\ guards' = [guards EXCEPT ![th] = @ - 1]
      /\ UNCHANGED <<initialized, dropped, moved>>
      /\ guards[th] > 0
  BY DEF DropGuard, Resumed, TypeOK
<1>2. CASE mutex.owner = th
  <2>1. mutex' = Put(mutex) /\ ~HandsOver(mutex) /\ mutex.count > 0
    BY <1>2, <1>c, ThreadAssumption DEF DropGuard, AfterDrop, OwnerInv, ControlBlock
  <2>2. TypeOK'
    BY <2>1, <1>1, <1>c, PutBlock DEF TypeOK
  <2>3. OwnerInv'
    BY <2>1, <1>c, PutBlock DEF OwnerInv, ControlBlock
  <2>4. mutex'.queue = mutex.queue /\ mutex'.count = mutex.count - 1
    BY <2>1, <1>c, PutBlock
  <2>5. mutex.count = 1 => mutex.queue = <<>>
    BY <2>1 DEF HandsOver
  <2>6. mutex.count = 1 => locking = {}
    BY <2>5 DEF WaitersQueued
  <2>7. WaitersQueued'
    BY <2>1, <1>1, <2>4, <2>6, <1>c DEF WaitersQueued, ControlBlock
  <2> QED
    BY <2>2, <2>3, <2>7
<1>3. CASE mutex.owner # th
  <2>1. mutex' = mutex
    BY <1>3 DEF DropGuard, AfterDrop
  <2> QED
    BY <1>1, <2>1 DEF TypeOK, OwnerInv, WaitersQueued
<1> QED
  BY <1>2, <1>3

\* Each step keeps the list of the kernel and the threads inside lock() the same.
LEMMA WaitersStep == [InitializeAlone]_vars /\ WaitersInv /\ [Next]_vars => WaitersInv'
<1> SUFFICES ASSUME [InitializeAlone]_vars, WaitersInv, [Next]_vars
             PROVE  WaitersInv'
  OBVIOUS
<1> USE DEF WaitersInv
<1>c. mutex \in ControlBlock
  BY DEF TypeOK
<1>1. CASE UNCHANGED vars
  BY <1>1 DEF vars, TypeOK, OwnerInv, WaitersQueued
<1>2. ASSUME mutex' = Created, UNCHANGED <<guards, locking>>, Exclusive,
             initialized' \in BOOLEAN, dropped' \in BOOLEAN, UNCHANGED moved
      PROVE  WaitersInv'
  BY <1>2, CreatedBlock DEF TypeOK, Exclusive, OwnerInv, WaitersQueued
<1>3. ASSUME NEW th \in Threads, Lock(th)
      PROVE  WaitersInv'
  <2>1. TypeOK'
    BY <1>3, TakenBlock, <1>c DEF Lock, TypeOK
  <2>2. OwnerInv'
    BY <1>3, TakenBlock, <1>c, ThreadAssumption DEF Lock, OwnerInv, ControlBlock
  <2>3. mutex'.queue = mutex.queue /\ mutex'.count = mutex.count + 1 /\ locking' = locking
    BY <1>3, TakenBlock, <1>c DEF Lock
  <2>4. mutex.count \in Nat
    BY <1>c DEF ControlBlock
  <2>5. WaitersQueued'
    BY <2>3, <2>4 DEF WaitersQueued
  <2> QED
    BY <2>1, <2>2, <2>5
<1>4. ASSUME NEW th \in Threads, LockWaits(th)
      PROVE  WaitersInv'
  <2>1. TypeOK'
    BY <1>4, SuspendedBlock, <1>c DEF LockWaits, TypeOK
  <2>2. OwnerInv'
    BY <1>4, SuspendedBlock, <1>c DEF LockWaits, OwnerInv
  <2>3. Len(mutex.queue) \in Nat
    <3>1. mutex.queue \in Seq(Threads)
      BY <1>c DEF ControlBlock
    <3> QED
      BY <3>1, LenProperties
  <2>4. WaitersQueued'
    <3> DEFINE n == Len(mutex.queue)
    <3>1. /\ locking' = locking \cup {th}
          /\ th \notin locking
          /\ mutex'.count = mutex.count
          /\ mutex.count \in Nat \ {0}
          /\ Len(mutex'.queue) = n + 1
          /\ \A i \in 1 .. n : mutex'.queue[i] = mutex.queue[i]
          /\ mutex'.queue[n + 1] = th
      BY <1>4, SuspendedBlock, <1>c DEF LockWaits, Available, Runs, ControlBlock
    <3>2. \A i \in 1 .. n + 1 : i \in 1 .. n \/ i = n + 1
      BY <2>3
    <3>3. \A i \in 1 .. n + 1 : mutex'.queue[i] \in locking'
      BY <3>1, <3>2 DEF WaitersQueued
    <3>4. ASSUME NEW t \in locking'
          PROVE  \E i \in 1 .. n + 1 : mutex'.queue[i] = t
      <4>1. n + 1 \in 1 .. n + 1 /\ 1 .. n \subseteq 1 .. n + 1
        BY <2>3
      <4>2. CASE t = th
        BY <3>1, <4>1, <4>2
      <4>3. CASE t \in locking
        <5>1. PICK i \in 1 .. n : mutex.queue[i] = t
          BY <4>3 DEF WaitersQueued
        <5> QED
          BY <3>1, <4>1, <5>1
      <4> QED
        BY <3>1, <4>2, <4>3
    <3>5. \A i, j \in 1 .. n + 1 : mutex'.queue[i] = mutex'.queue[j] => i = j
      BY <3>1, <3>2 DEF WaitersQueued
    <3>6. locking' # {} => mutex'.count > 0
      BY <3>1
    <3>7. 1 .. Len(mutex'.queue) = 1 .. n + 1
      BY <3>1
    <3> HIDE DEF n
    <3> QED
      BY <3>3, <3>4, <3>5, <3>6, <3>7, Zenon DEF WaitersQueued
  <2> QED
    BY <2>1, <2>2, <2>4
<1>5. ASSUME NEW th \in Threads, DropGuard(th)
      PROVE  WaitersInv'
  BY <1>5, HandOverStep, LastOrNestedStep
<1>6. ASSUME NEW th \in Threads, Initialize(th)
      PROVE  WaitersInv'
  BY <1>1, <1>2, <1>6 DEF InitializeAlone, Initialize, InitializeMutex, InitializeStatic, TypeOK
<1>7. ASSUME NEW th \in Threads, NEW to \in Threads, SendGuard(th, to)
      PROVE  WaitersInv'
  <2>1. UNCHANGED <<mutex, initialized, locking, dropped>> /\ guards' \in [Threads -> Nat] /\ moved'
    BY <1>7 DEF SendGuard, TypeOK
  <2> QED
    BY <2>1 DEF TypeOK, OwnerInv, WaitersQueued
<1>8. CASE DropMutex
  BY <1>2, <1>8 DEF DropMutex, TypeOK
<1> QED
  BY <1>1, <1>3, <1>4, <1>5, <1>6, <1>7, <1>8 DEF Next

\* While initialize is called alone, even if guards are moved to other threads,
\* every thread inside lock() is one the kernel knows, once, and somebody has
\* the mutex it waits for.
THEOREM WaitersKnown == Spec /\ [][InitializeAlone]_vars => []WaitersQueued
<1>1. WaitersInv /\ [InitializeAlone]_vars /\ [Next]_vars => WaitersInv'
  BY WaitersStep
<1>2. WaitersInv => WaitersQueued
  BY DEF WaitersInv
<1> QED
  BY <1>1, <1>2, WaitersInit, PTL DEF Spec

-----------------------------------------------------------------------------
(* The number of guards; they may be moved to other threads.               *)

\* One element for each guard alive: its thread and a number.
GuardsOf(g) == {x \in Threads \X (Nat \ {0}) : x[2] <= g[x[1]]}

\* The kernel counts as many locks at least as there are guards: a guard
\* dropped in the wrong thread leaves a lock behind.
GuardsCovered == IsFiniteSet(GuardsOf(guards)) /\ Cardinality(GuardsOf(guards)) <= mutex.count

\* The inductive invariant of NoGuardOnFree.
GuardsInv == WaitersInv /\ GuardsCovered

\* A guard more is an element more.
LEMMA OneMore ==
  ASSUME NEW g \in [Threads -> Nat], NEW th \in Threads, IsFiniteSet(GuardsOf(g)),
         NEW h, h = [g EXCEPT ![th] = @ + 1]
  PROVE  /\ h \in [Threads -> Nat]
         /\ IsFiniteSet(GuardsOf(h))
         /\ Cardinality(GuardsOf(h)) = Cardinality(GuardsOf(g)) + 1
<1>1. h \in [Threads -> Nat]
  OBVIOUS
<1> DEFINE S == GuardsOf(g)
           x == <<th, g[th] + 1>>
<1>2. GuardsOf(h) = S \cup {x} /\ x \notin S
  BY DEF GuardsOf
<1>3. IsFiniteSet(S)
  OBVIOUS
<1> HIDE DEF S, x
<1>4. IsFiniteSet(S \cup {x}) /\ Cardinality(S \cup {x}) = Cardinality(S) + 1
  BY <1>2, <1>3, FS_AddElement
<1> QED
  BY <1>1, <1>2, <1>4 DEF S

\* A guard less is an element less.
LEMMA OneLess ==
  ASSUME NEW g \in [Threads -> Nat], NEW th \in Threads, IsFiniteSet(GuardsOf(g)),
         g[th] > 0, NEW h, h = [g EXCEPT ![th] = @ - 1]
  PROVE  /\ h \in [Threads -> Nat]
         /\ IsFiniteSet(GuardsOf(h))
         /\ Cardinality(GuardsOf(h)) = Cardinality(GuardsOf(g)) - 1
<1>1. h \in [Threads -> Nat]
  OBVIOUS
<1> DEFINE S == GuardsOf(g)
           x == <<th, g[th]>>
<1>2. GuardsOf(h) = S \ {x} /\ x \in S
  BY DEF GuardsOf
<1>3. IsFiniteSet(S)
  OBVIOUS
<1> HIDE DEF S, x
<1>4. IsFiniteSet(S \ {x}) /\ Cardinality(S \ {x}) = Cardinality(S) - 1
  BY <1>2, <1>3, FS_RemoveElement
<1> QED
  BY <1>1, <1>2, <1>4 DEF S

\* No guards, no elements.
LEMMA NoGuards ==
  ASSUME \A th \in Threads : guards[th] = 0
  PROVE  IsFiniteSet(GuardsOf(guards)) /\ Cardinality(GuardsOf(guards)) = 0
<1>1. GuardsOf(guards) = {}
  BY DEF GuardsOf
<1> QED
  BY <1>1, FS_EmptySet

\* A guard that changes threads is one less and one more.
LEMMA Handed ==
  ASSUME NEW g \in [Threads -> Nat], NEW th \in Threads, NEW to \in Threads, th # to,
         IsFiniteSet(GuardsOf(g)), g[th] > 0, NEW h,
         h = [t \in Threads |-> IF t = to THEN g[t] + 1 ELSE IF t = th THEN g[t] - 1 ELSE g[t]]
  PROVE  IsFiniteSet(GuardsOf(h)) /\ Cardinality(GuardsOf(h)) = Cardinality(GuardsOf(g))
<1> DEFINE f == [g EXCEPT ![th] = @ - 1]
<1>1. /\ f \in [Threads -> Nat] /\ IsFiniteSet(GuardsOf(f))
      /\ Cardinality(GuardsOf(f)) = Cardinality(GuardsOf(g)) - 1
  BY OneLess
<1>2. h = [f EXCEPT ![to] = @ + 1]
  OBVIOUS
<1> HIDE DEF f
<1>3. IsFiniteSet(GuardsOf(h)) /\ Cardinality(GuardsOf(h)) = Cardinality(GuardsOf(f)) + 1
  BY <1>1, <1>2, OneMore
<1>4. Cardinality(GuardsOf(g)) \in Nat
  BY FS_CardinalityType
<1> QED
  BY <1>1, <1>3, <1>4

\* No step makes more guards than locks, wherever guards are dropped.
LEMMA GuardsStep == [InitializeAlone]_vars /\ GuardsInv /\ [Next]_vars => GuardsInv'
<1> SUFFICES ASSUME [InitializeAlone]_vars, GuardsInv, [Next]_vars
             PROVE  GuardsCovered'
  BY WaitersStep DEF GuardsInv
<1> DEFINE all == GuardsOf(guards)
<1>c. /\ mutex \in ControlBlock /\ mutex.count \in Nat /\ guards \in [Threads -> Nat]
      /\ OwnerInv /\ WaitersQueued
  BY DEF GuardsInv, WaitersInv, TypeOK, ControlBlock
<1>f. IsFiniteSet(all) /\ Cardinality(all) \in Nat /\ Cardinality(all) <= mutex.count
  BY FS_CardinalityType DEF GuardsInv, GuardsCovered
<1>1. CASE UNCHANGED vars
  BY <1>1, <1>f DEF vars, GuardsCovered
<1>2. ASSUME mutex' = Created, UNCHANGED guards, Exclusive
      PROVE  GuardsCovered'
  BY <1>2, NoGuards, CreatedBlock DEF Exclusive, GuardsCovered
<1>3. ASSUME NEW th \in Threads, Lock(th)
      PROVE  GuardsCovered'
  <2>1. guards' = [guards EXCEPT ![th] = @ + 1] /\ mutex'.count = mutex.count + 1
    BY <1>3, <1>c, TakenBlock DEF Lock
  <2>2. IsFiniteSet(GuardsOf(guards')) /\ Cardinality(GuardsOf(guards')) = Cardinality(all) + 1
    BY <2>1, <1>c, <1>f, OneMore
  <2> QED
    BY <2>1, <2>2, <1>c, <1>f DEF GuardsCovered
<1>4. ASSUME NEW th \in Threads, LockWaits(th)
      PROVE  GuardsCovered'
  BY <1>4, <1>c, <1>f, SuspendedBlock DEF LockWaits, GuardsCovered
<1>5. ASSUME NEW th \in Threads, DropGuard(th)
      PROVE  GuardsCovered'
  <2>1. guards[th] > 0 /\ th \notin locking /\ mutex' = AfterDrop(th)
    BY <1>5 DEF DropGuard, Runs
  <2>2. CASE mutex.owner = th /\ HandsOver(mutex)
    <3> DEFINE next == Head(mutex.queue)
    <3>1. mutex.queue \in Seq(Threads)
      BY <1>c DEF ControlBlock
    <3>2. Len(mutex.queue) \in Nat
      BY <3>1, LenProperties
    <3>3. next \in Threads /\ next = mutex.queue[1] /\ th # next
      BY <2>1, <2>2, <3>2, <1>c, HandOverBlock DEF WaitersQueued
    <3>4. guards' = [t \in Threads |-> IF t = next THEN guards[t] + 1
                                       ELSE IF t = th THEN guards[t] - 1 ELSE guards[t]]
      BY <1>5, <2>2 DEF DropGuard, Resumed
    <3>5. mutex'.count = mutex.count
      BY <2>1, <2>2, <1>c, HandOverBlock DEF AfterDrop, HandsOver
    <3>6. IsFiniteSet(GuardsOf(guards')) /\ Cardinality(GuardsOf(guards')) = Cardinality(all)
      <4> HIDE DEF next
      <4> QED
        BY <2>1, <3>3, <3>4, <1>c, <1>f, Handed
    <3> QED
      BY <3>5, <3>6, <1>f DEF GuardsCovered
  <2>3. CASE ~(mutex.owner = th /\ HandsOver(mutex))
    <3>1. guards' = [guards EXCEPT ![th] = @ - 1]
      BY <1>5, <1>c, <2>3 DEF DropGuard, Resumed
    <3>2. IsFiniteSet(GuardsOf(guards')) /\ Cardinality(GuardsOf(guards')) = Cardinality(all) - 1
      BY <2>1, <3>1, <1>c, <1>f, OneLess
    <3>3. mutex'.count \in {mutex.count, mutex.count - 1}
      <4>1. CASE mutex.owner = th
        BY <4>1, <2>1, <2>3, <1>c, ThreadAssumption, PutBlock DEF AfterDrop, OwnerInv
      <4>2. CASE mutex.owner # th
        BY <4>2, <2>1 DEF AfterDrop
      <4> QED
        BY <4>1, <4>2
    <3> QED
      BY <3>2, <3>3, <1>c, <1>f DEF GuardsCovered
  <2> QED
    BY <2>2, <2>3
<1>6. ASSUME NEW th \in Threads, Initialize(th)
      PROVE  GuardsCovered'
  BY <1>1, <1>2, <1>6 DEF InitializeAlone, Initialize, InitializeMutex, InitializeStatic
<1>7. ASSUME NEW th \in Threads, NEW to \in Threads, SendGuard(th, to)
      PROVE  GuardsCovered'
  <2>1. guards[th] > 0 /\ th # to /\ mutex' = mutex
    BY <1>7 DEF SendGuard
  <2>2. guards' = [t \in Threads |-> IF t = to THEN guards[t] + 1
                                     ELSE IF t = th THEN guards[t] - 1 ELSE guards[t]]
    BY <1>7, <1>c DEF SendGuard
  <2>3. IsFiniteSet(GuardsOf(guards')) /\ Cardinality(GuardsOf(guards')) = Cardinality(all)
    BY <2>1, <2>2, <1>c, <1>f, Handed
  <2> QED
    BY <2>1, <2>3, <1>f DEF GuardsCovered
<1>8. CASE DropMutex
  BY <1>2, <1>8 DEF DropMutex
<1> QED
  BY <1>1, <1>3, <1>4, <1>5, <1>6, <1>7, <1>8 DEF Next

\* While initialize is called alone, wherever guards are moved to and dropped,
\* the mutex is not free while one of them is alive.
THEOREM LockedWhileGuarded == Spec /\ [][InitializeAlone]_vars => []NoGuardOnFree
<1>1. Init => GuardsInv
  BY WaitersInit, NoGuards, CreatedBlock DEF Init, GuardsInv, GuardsCovered
<1>2. GuardsInv /\ [InitializeAlone]_vars /\ [Next]_vars => GuardsInv'
  BY GuardsStep
<1>3. GuardsInv => NoGuardOnFree
  <2> SUFFICES ASSUME GuardsInv, mutex.count = 0, NEW th \in Threads
               PROVE  guards[th] = 0
    BY DEF NoGuardOnFree
  <2>1. GuardsOf(guards) = {}
    BY FS_EmptySet, FS_CardinalityType DEF GuardsInv, GuardsCovered
  <2>2. guards[th] \in Nat
    BY DEF GuardsInv, WaitersInv, TypeOK
  <2>3. guards[th] > 0 => <<th, 1>> \in GuardsOf(guards)
    BY <2>2 DEF GuardsOf
  <2> QED
    BY <2>1, <2>2, <2>3
<1> QED
  BY <1>1, <1>2, <1>3, PTL DEF Spec

-----------------------------------------------------------------------------
(* Mutual exclusion.                                                       *)

LEMMA MutexInit == Init => MutexInv
  BY WaitersInit, CreatedBlock DEF Init, WaitersInv, MutexInv, CountIsGuards

\* Each step keeps the kernel's count equal to the number of guards.
LEMMA MutexStep == [InitializeAlone]_vars /\ MutexInv /\ [Next]_vars => MutexInv'
<1> SUFFICES ASSUME [InitializeAlone]_vars, MutexInv, [Next]_vars
             PROVE  MutexInv'
  OBVIOUS
<1> DEFINE Counted == \A t \in Threads : guards[t] = IF mutex.owner = t THEN mutex.count ELSE 0
<1>w. TypeOK' /\ OwnerInv' /\ WaitersQueued'
  BY WaitersStep DEF MutexInv, WaitersInv
<1>s. SUFFICES ASSUME ~moved'
               PROVE  Counted'
  BY <1>w DEF MutexInv, CountIsGuards
<1>c. TypeOK /\ OwnerInv /\ WaitersQueued /\ mutex \in ControlBlock
  BY DEF MutexInv, TypeOK
<1>g. UNCHANGED moved => Counted
  BY <1>s DEF MutexInv, CountIsGuards
<1>1. ASSUME UNCHANGED vars
      PROVE  Counted'
  BY <1>1, <1>g DEF vars
<1>2. ASSUME mutex' = Created, UNCHANGED <<guards, moved>>, Exclusive
      PROVE  Counted'
  BY <1>2, CreatedBlock, ThreadAssumption DEF Exclusive
<1>3. ASSUME NEW th \in Threads, Lock(th)
      PROVE  Counted'
  <2>1. Counted /\ guards' = [guards EXCEPT ![th] = @ + 1] /\ mutex' = Taken(mutex, th)
    BY <1>3, <1>g DEF Lock
  <2>2. mutex.owner = th \/ (mutex.count = 0 /\ mutex.owner = NoThread)
    BY <1>3, <1>c DEF Lock, Available, OwnerInv, ControlBlock
  <2> QED
    BY <2>1, <2>2, <1>c, TakenBlock DEF OwnerInv, TypeOK, ControlBlock
<1>4. ASSUME NEW th \in Threads, LockWaits(th)
      PROVE  Counted'
  <2>1. Counted /\ UNCHANGED guards /\ mutex' = Suspended(mutex, th)
    BY <1>4, <1>g DEF LockWaits
  <2>2. mutex'.owner = mutex.owner /\ mutex'.count = mutex.count
    BY <2>1, <1>c, SuspendedBlock
  <2> QED
    BY <2>1, <2>2
<1>5. ASSUME NEW th \in Threads, DropGuard(th)
      PROVE  Counted'
  <2>g. Counted /\ guards[th] > 0 /\ th \notin locking
    BY <1>5, <1>g DEF DropGuard, Runs
  <2>1. mutex.owner = th /\ mutex.count > 0 /\ mutex' = Put(mutex)
    BY <1>5, <1>c, <2>g DEF DropGuard, AfterDrop, TypeOK
  <2>2. CASE HandsOver(mutex)
    <3> DEFINE next == Head(mutex.queue)
    <3>1. mutex.queue \in Seq(Threads)
      BY <1>c DEF ControlBlock
    <3>2. Len(mutex.queue) \in Nat
      BY <3>1, LenProperties
    <3>3. next \in Threads /\ next = mutex.queue[1] /\ next # th
      BY <2>g, <2>2, <3>2, <1>c, HandOverBlock DEF WaitersQueued
    <3>4. guards' = [t \in Threads |-> IF t = next THEN guards[t] + 1
                                       ELSE IF t = th THEN guards[t] - 1 ELSE guards[t]]
      BY <1>5, <2>1, <2>2 DEF DropGuard, Resumed
    <3> QED
      BY <2>1, <2>2, <2>g, <3>3, <3>4, <1>c, HandOverBlock DEF HandsOver, TypeOK
  <2>3. CASE ~HandsOver(mutex)
    <3>1. guards' = [guards EXCEPT ![th] = @ - 1]
      BY <1>5, <1>c, <2>1, <2>3 DEF DropGuard, Resumed, TypeOK
    <3> QED
      BY <2>1, <2>3, <2>g, <3>1, <1>c, PutBlock DEF TypeOK, ControlBlock
  <2> QED
    BY <2>2, <2>3
<1>6. ASSUME NEW th \in Threads, Initialize(th)
      PROVE  Counted'
  BY <1>1, <1>2, <1>6 DEF InitializeAlone, Initialize, InitializeMutex, InitializeStatic
<1>7. CASE DropMutex
  BY <1>2, <1>7 DEF DropMutex
<1>8. ASSUME NEW th \in Threads, NEW to \in Threads, SendGuard(th, to)
      PROVE  FALSE
  BY <1>s, <1>8 DEF SendGuard
<1> HIDE DEF Counted
<1> QED
  BY <1>1, <1>3, <1>4, <1>5, <1>6, <1>7, <1>8 DEF Next

\* While initialize is called alone, as long as guards stay in their threads,
\* those of the owner, and nobody else's, make up the kernel's count; the
\* threads inside lock() are always those the kernel will resume.
THEOREM CountsAgree == Spec /\ [][InitializeAlone]_vars => []MutexInv
<1>1. MutexInv /\ [InitializeAlone]_vars /\ [Next]_vars => MutexInv'
  BY MutexStep
<1> QED
  BY <1>1, MutexInit, PTL DEF Spec

\* While initialize is called alone, as long as guards stay in their threads,
\* two threads never have access to the data at the same time, recursive
\* locking included: so a StaticMutex excludes too.
THEOREM MutexExcludes == Spec /\ [][InitializeAlone]_vars => []MutualExclusion
<1>1. MutexInv => MutualExclusion
  BY ThreadAssumption DEF MutexInv, TypeOK, CountIsGuards, MutualExclusion
<1>2. Spec /\ [][InitializeAlone]_vars => []MutexInv
  BY CountsAgree
<1> QED
  BY <1>1, <1>2, PTL

\* For Mutex<T> the types make sure of that: it excludes, and stays locked
\* while a guard is alive, whatever safe code does.
THEOREM MutexNeedsNothing ==
  ASSUME ~Static
  PROVE  Spec => [](MutexInv /\ MutualExclusion /\ NoGuardOnFree)
<1>1. InitializeAlone
  BY DEF InitializeAlone, Initialize, InitializeMutex, InitializeStatic
<1>2. Spec => [][InitializeAlone]_vars
  BY <1>1, PTL DEF Spec
<1> QED
  BY <1>2, CountsAgree, MutexExcludes, LockedWhileGuarded, PTL

-----------------------------------------------------------------------------
(* Executor::new: how many return.                                         *)

\* The part of the type invariant the proof needs.
PcTyped == at \in [Threads -> PC] /\ returned \subseteq Threads /\ cell \in BOOLEAN

\* Its inductive invariant.
OneInv == PcTyped /\ CellInv

\* Before any call of new nobody is past the cell.
LEMMA OneInit == NewInit => OneInv
  BY DEF NewInit, OneInv, PcTyped, CellInv, PC

\* The thread that takes the cell is the only one to go past it.
LEMMA OneStep == OneInv /\ [NewNext]_newVars => OneInv'
<1> SUFFICES ASSUME OneInv, [NewNext]_newVars
             PROVE  OneInv'
  OBVIOUS
<1> USE DEF OneInv, PcTyped, CellInv, PC
<1>1. CASE UNCHANGED newVars
  BY <1>1 DEF newVars
<1>2. ASSUME NEW th \in Threads, Check(th)
      PROVE  OneInv'
  BY <1>2 DEF Check, Goto, Panic
<1>3. ASSUME NEW th \in Threads, CreateMutex(th)
      PROVE  OneInv'
  BY <1>3 DEF CreateMutex, Goto
<1>4. ASSUME NEW th \in Threads, TakeCell(th)
      PROVE  OneInv'
  BY <1>4 DEF TakeCell, Goto, Panic
<1>5. ASSUME NEW th \in Threads, CreateFlags(th)
      PROVE  OneInv'
  BY <1>5 DEF CreateFlags, Goto
<1>6. ASSUME NEW th \in Threads, StoreInitialized(th)
      PROVE  OneInv'
  BY <1>6 DEF StoreInitialized, Goto
<1>7. ASSUME NEW th \in Threads, ReceiveHandle(th)
      PROVE  OneInv'
  BY <1>7 DEF ReceiveHandle, Goto
<1>8. ASSUME NEW th \in Threads, LockSignals(th)
      PROVE  OneInv'
  BY <1>8 DEF LockSignals, Goto
<1>9. ASSUME NEW th \in Threads, UnlockSignals(th)
      PROVE  OneInv'
  BY <1>9 DEF UnlockSignals
<1> QED
  BY <1>1, <1>2, <1>3, <1>4, <1>5, <1>6, <1>7, <1>8, <1>9 DEF NewNext

\* However many threads call Executor::new at the same time, at most one
\* Executor is made.
THEOREM OneExecutorMade == NewSpec => []OneExecutor
<1>1. OneInv => OneExecutor
  BY DEF OneInv, CellInv, OneExecutor
<1> QED
  BY <1>1, OneInit, OneStep, PTL DEF NewSpec

-----------------------------------------------------------------------------
(* What the handle stands for.                                             *)

\* A mutex that has an owner has been taken.
OwnerCounts == signalsMutex.owner # NoThread => signalsMutex.count > 0

\* The objects exist that the calls of new, up to where they are, have made.
ObjectsMade ==
  /\ \A th \in Threads :
       /\ at[th] \in {"cell", "flags", "store"} => "mutex" \in created
       /\ at[th] = "store" => "flags" \in created
  /\ returned # {} => executorInitialized
  /\ executorInitialized => {"mutex", "flags"} \subseteq created

\* Its inductive invariant.
HandleInv == NewTypeOK /\ OwnerCounts /\ ObjectsMade /\ HandleUsable

\* The control block after each call of the kernel.
LEMMA Blocks ==
  ASSUME NEW m \in ControlBlock, NEW th \in Threads
  PROVE  /\ Created \in ControlBlock /\ Created.owner = NoThread
         /\ Taken(m, th) \in ControlBlock /\ Taken(m, th).count > 0
         /\ Suspended(m, th) \in ControlBlock
         /\ Suspended(m, th).owner = m.owner /\ Suspended(m, th).count = m.count
         /\ m.count > 0 => /\ Put(m) \in ControlBlock
                           /\ Put(m).owner # NoThread => Put(m).count > 0
<1>1. Created \in ControlBlock /\ Created.owner = NoThread
  BY DEF Created, ControlBlock
<1>2. Taken(m, th) \in ControlBlock /\ Taken(m, th).count > 0
  BY DEF Taken, ControlBlock
<1>3. /\ Suspended(m, th) \in ControlBlock
      /\ Suspended(m, th).owner = m.owner /\ Suspended(m, th).count = m.count
  <2>1. m.queue \in Seq(Threads) /\ m.owner \in Threads \cup {NoThread} /\ m.count \in Nat
    BY DEF ControlBlock
  <2> DEFINE q == Append(m.queue, th)
  <2>2. q \in Seq(Threads)
    BY <2>1
  <2> HIDE DEF q
  <2>3. Suspended(m, th) = [m EXCEPT !.queue = q]
    BY DEF Suspended, q
  <2> QED
    BY <2>1, <2>2, <2>3 DEF ControlBlock
<1>4. ASSUME m.count > 0
      PROVE  Put(m) \in ControlBlock /\ (Put(m).owner # NoThread => Put(m).count > 0)
  <2>1. CASE HandsOver(m)
    <3>1. Put(m) = [owner |-> Head(m.queue), count |-> 1, queue |-> Tail(m.queue)]
      BY <2>1 DEF Put
    <3>2. Head(m.queue) \in Threads /\ Tail(m.queue) \in Seq(Threads)
      BY <2>1 DEF HandsOver, ControlBlock
    <3> QED
      BY <3>1, <3>2 DEF ControlBlock
  <2>2. CASE ~HandsOver(m)
    <3>1. Put(m) = [owner |-> IF m.count = 1 THEN NoThread ELSE m.owner,
                    count |-> m.count - 1, queue |-> m.queue]
      BY <2>2 DEF Put, ControlBlock
    <3> QED
      BY <1>4, <3>1 DEF ControlBlock
  <2> QED
    BY <2>1, <2>2
<1> QED
  BY <1>1, <1>2, <1>3, <1>4

LEMMA HandleInit == NewInit => HandleInv
<1> SUFFICES ASSUME NewInit
             PROVE  HandleInv
  OBVIOUS
<1>1. Created \in ControlBlock /\ Created.owner = NoThread
  BY DEF Created, ControlBlock
<1> QED
  BY <1>1 DEF NewInit, HandleInv, NewTypeOK, OwnerCounts, ObjectsMade, HandleUsable, PC

\* Each call of new makes its objects before it goes on, and nothing is ever
\* deleted.
LEMMA HandleStep == HandleInv /\ [NewNext]_newVars => HandleInv'
<1> SUFFICES ASSUME HandleInv, [NewNext]_newVars
             PROVE  HandleInv'
  OBVIOUS
<1> USE DEF HandleInv, NewTypeOK, OwnerCounts, ObjectsMade, HandleUsable, PC
<1>1. CASE UNCHANGED newVars
  BY <1>1 DEF newVars
<1>2. ASSUME NEW th \in Threads, Check(th)
      PROVE  HandleInv'
  <2>1. CASE Panic
    <3>1. /\ UNCHANGED <<executorInitialized, created, signalsMutex, cell, at, returned>>
          /\ panicked' = TRUE
      BY <2>1 DEF Panic
    <3> QED
      BY <3>1
  <2>2. CASE ~Panic
    <3>1. at' = [at EXCEPT ![th] = "create"]
          /\ UNCHANGED <<executorInitialized, created, signalsMutex, cell, returned, panicked>>
      BY <1>2, <2>2 DEF Check, Goto
    <3> QED
      BY <3>1
  <2> QED
    BY <2>1, <2>2
<1>3. ASSUME NEW th \in Threads, CreateMutex(th)
      PROVE  HandleInv'
  <2>1. /\ signalsMutex' \in ControlBlock /\ signalsMutex'.owner = NoThread
        /\ created' = created \cup {"mutex"} /\ at' = [at EXCEPT ![th] = "cell"]
        /\ UNCHANGED <<executorInitialized, cell, returned, panicked>>
    BY <1>3, Blocks DEF CreateMutex, Goto
  <2>2. created' \subseteq {"mutex", "flags"} /\ "mutex" \in created' /\ created \subseteq created'
    BY <2>1
  <2>3. NewTypeOK' /\ OwnerCounts' /\ ObjectsMade'
    BY <2>1, <2>2
  <2>4. executorInitialized' => created' = {"mutex", "flags"}
    BY <2>1, <2>2
  <2>5. HandleUsable'
    BY <2>1, <2>4
  <2> QED
    BY <2>3, <2>5
<1>4. ASSUME NEW th \in Threads, TakeCell(th)
      PROVE  HandleInv'
  <2>1. CASE Panic
    <3>1. /\ UNCHANGED <<executorInitialized, created, signalsMutex, cell, at, returned>>
          /\ panicked' = TRUE
      BY <2>1 DEF Panic
    <3> QED
      BY <3>1
  <2>2. CASE ~Panic
    <3>1. at[th] = "cell" /\ at' = [at EXCEPT ![th] = "flags"] /\ cell' = TRUE
          /\ UNCHANGED <<executorInitialized, created, signalsMutex, returned, panicked>>
      BY <1>4, <2>2 DEF TakeCell, Goto
    <3> QED
      BY <3>1
  <2> QED
    BY <2>1, <2>2
<1>5. ASSUME NEW th \in Threads, CreateFlags(th)
      PROVE  HandleInv'
  <2>1. /\ created' = created \cup {"flags"} /\ at' = [at EXCEPT ![th] = "store"]
        /\ at[th] = "flags"
        /\ UNCHANGED <<executorInitialized, signalsMutex, cell, returned, panicked>>
    BY <1>5 DEF CreateFlags, Goto
  <2>2. created' \subseteq {"mutex", "flags"} /\ "flags" \in created' /\ created \subseteq created'
    BY <2>1
  <2>3. NewTypeOK' /\ OwnerCounts' /\ ObjectsMade'
    BY <2>1, <2>2
  <2>4. executorInitialized' => created' = {"mutex", "flags"}
    BY <2>1, <2>2
  <2>5. HandleUsable'
    BY <2>1, <2>4
  <2> QED
    BY <2>3, <2>5
<1>6. ASSUME NEW th \in Threads, StoreInitialized(th)
      PROVE  HandleInv'
  BY <1>6 DEF StoreInitialized, Goto
<1>7. ASSUME NEW th \in Threads, ReceiveHandle(th)
      PROVE  HandleInv'
  BY <1>7 DEF ReceiveHandle, Goto
<1>8. ASSUME NEW th \in Threads, LockSignals(th)
      PROVE  HandleInv'
  BY <1>8, Blocks DEF LockSignals, Goto
<1>9. ASSUME NEW th \in Threads, UnlockSignals(th)
      PROVE  HandleInv'
  <2>1. /\ executorInitialized /\ {"mutex", "flags"} \subseteq created
        /\ UNCHANGED <<executorInitialized, created, cell, returned, panicked>>
    BY <1>9 DEF UnlockSignals
  <2>2. /\ signalsMutex' \in ControlBlock
        /\ signalsMutex'.owner # NoThread => signalsMutex'.count > 0
    <3>1. CASE Owns(th)
      <4>1. signalsMutex' = Put(signalsMutex) /\ signalsMutex.count > 0
        BY <1>9, <3>1 DEF UnlockSignals, Owns
      <4> QED
        BY <4>1, Blocks
    <3>2. CASE ~Owns(th)
      BY <1>9, <3>2 DEF UnlockSignals
    <3> QED
      BY <3>1, <3>2
  <2>3. /\ at' \in [Threads -> PC]
        /\ \A t \in Threads : at'[t] \in {"user", "critical"} \/ at'[t] = at[t]
    BY <1>9 DEF UnlockSignals
  <2> QED
    BY <2>1, <2>2, <2>3
<1> QED
  BY <1>1, <1>2, <1>3, <1>4, <1>5, <1>6, <1>7, <1>8, <1>9 DEF NewNext

\* No thread uses a handle before the mutex and the event flags group exist,
\* however many call new and wherever they are in it.
THEOREM HandleIsUsable == NewSpec => []HandleUsable
<1>1. HandleInv => HandleUsable
  BY DEF HandleInv
<1> QED
  BY <1>1, HandleInit, HandleStep, PTL DEF NewSpec
=============================================================================
