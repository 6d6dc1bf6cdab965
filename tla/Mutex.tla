------------------------------- MODULE Mutex -------------------------------
(***************************************************************************)
(* The mutexes of threadx-rs (mutex.rs) with what the Rust types let safe  *)
(* code do: Mutex<T>, whose initialize takes &mut self, and StaticMutex<T>,*)
(* whose initialize takes &self.  lock() returns a guard, the guard gives  *)
(* access to the data, and dropping it puts the mutex back.                *)
(***************************************************************************)
EXTENDS TxMutex

CONSTANTS
  Static,     \* TRUE: StaticMutex<T>, FALSE: Mutex<T>
  Reentrant,  \* TRUE: a thread may call lock() while it has a guard
  MaxCount    \* bound on the count of the control block

ASSUME KindAssumption == {Static, Reentrant} \subseteq BOOLEAN
ASSUME CountAssumption == MaxCount \in Nat \ {0}

VARIABLES
  mutex,        \* the control block
  initialized,  \* the field of Mutex<T>; for StaticMutex<T>: was created
  guards,       \* how many guards each thread has
  locking,      \* threads suspended in lock(WaitForever)
  dropped,      \* the Mutex<T> was dropped
  moved         \* a guard was handed to another thread

vars == <<mutex, initialized, guards, locking, dropped, moved>>

Init ==
  /\ mutex = Created
  /\ initialized = FALSE
  /\ guards = [th \in Threads |-> 0]
  /\ locking = {}
  /\ dropped = FALSE
  /\ moved = FALSE

\* What the borrow checker makes sure of where the code takes &mut self, or
\* drops the value: nobody is inside lock() and no guard is alive.
Exclusive == locking = {} /\ \A th \in Threads : guards[th] = 0

Runs(th) == ~dropped /\ th \notin locking

-----------------------------------------------------------------------------
\* Mutex::initialize returns Ok without a call if it has been done before.
InitializeMutex ==
  /\ ~Static
  /\ ~initialized
  /\ Exclusive
  /\ mutex' = Created
  /\ initialized' = TRUE
  /\ UNCHANGED <<guards, locking, dropped, moved>>

\* StaticMutex::initialize creates the mutex whenever it is called.
InitializeStatic ==
  /\ Static
  /\ mutex' = Created
  /\ initialized' = TRUE
  /\ UNCHANGED <<guards, locking, dropped, moved>>

\* Mutants of Initialize: the second call of initialize creates the mutex
\* again, under the guards it finds.
InitializeAgain(th) ==
  /\ Runs(th)
  /\ mutex' = Created
  /\ initialized' = TRUE
  /\ UNCHANGED <<guards, locking, dropped, moved>>

\* A call whose _tx_mutex_create fails changes nothing and may be repeated.
Initialize(th) ==
  /\ Runs(th)
  /\ InitializeMutex \/ InitializeStatic

\* Mutex::lock on a mutex that is not initialized is a PoisonError;
\* StaticMutex::lock does not look.
Usable == Static \/ initialized

Lock(th) ==
  /\ Runs(th)
  /\ Usable
  /\ guards[th] = 0 \/ Reentrant
  /\ mutex.count < MaxCount
  /\ Available(mutex, th)
  /\ mutex' = Taken(mutex, th)
  /\ guards' = [guards EXCEPT ![th] = @ + 1]
  /\ UNCHANGED <<initialized, locking, dropped, moved>>

\* lock(WaitForever) suspends; lock(NoWait) returns an error and changes
\* nothing, like the PoisonError.
LockWaits(th) ==
  /\ Runs(th)
  /\ Usable
  /\ ~Available(mutex, th)
  /\ mutex' = Suspended(mutex, th)
  /\ locking' = locking \cup {th}
  /\ UNCHANGED <<initialized, guards, dropped, moved>>

\* Mutant of AfterDrop: the guard is given up, the mutex is not put.
AfterDropNoPut(th) == mutex

\* MutexGuard::drop: _tx_mutex_put by a thread that is not the owner fails
\* with TX_NOT_OWNED, which drop only logs.
AfterDrop(th) == IF mutex.owner = th THEN Put(mutex) ELSE mutex

\* The thread whose lock() returns because th dropped its guard.
Resumed(th) == IF mutex.owner = th /\ HandsOver(mutex) THEN {Head(mutex.queue)} ELSE {}

DropGuard(th) ==
  /\ Runs(th)
  /\ guards[th] > 0
  /\ mutex' = AfterDrop(th)
  /\ locking' = locking \ Resumed(th)
  /\ guards' = [t \in Threads |-> IF t \in Resumed(th) THEN guards[t] + 1
                                  ELSE IF t = th THEN guards[t] - 1 ELSE guards[t]]
  /\ UNCHANGED <<initialized, dropped, moved>>

\* A guard is Send, because a reference to a Sync mutex is.
SendGuard(th, to) ==
  /\ Runs(th)
  /\ Runs(to)
  /\ th # to
  /\ guards[th] > 0
  /\ guards' = [guards EXCEPT ![th] = @ - 1, ![to] = @ + 1]
  /\ moved' = TRUE
  /\ UNCHANGED <<mutex, initialized, locking, dropped>>

\* Mutex::drop; a static is never dropped.
DropMutex ==
  /\ ~Static
  /\ ~dropped
  /\ Exclusive
  /\ dropped' = TRUE
  /\ mutex' = Created
  /\ UNCHANGED <<initialized, guards, locking, moved>>

Next ==
  \/ \E th \in Threads :
       \/ Initialize(th)
       \/ Lock(th)
       \/ LockWaits(th)
       \/ DropGuard(th)
       \/ \E to \in Threads : SendGuard(th, to)
  \/ DropMutex

Spec == Init /\ [][Next]_vars

\* What &mut self makes sure of for Mutex<T>, and the users of a StaticMutex<T>
\* have to: initialize meets no thread in lock() and no guard.
InitializeAlone == \A th \in Threads : Initialize(th) => Exclusive

\* Guards are scoped: a thread that has one goes on, and comes to the end of
\* the outermost scope however often it locks again inside.
Fairness ==
  \A th \in Threads : /\ WF_vars(DropGuard(th))
                       /\ SF_vars(guards[th] = 1 /\ DropGuard(th))

FairSpec == Spec /\ Fairness

-----------------------------------------------------------------------------
\* Type invariant of the control block, the guards and the waiters.
TypeOK ==
  /\ mutex \in ControlBlock
  /\ initialized \in BOOLEAN
  /\ guards \in [Threads -> Nat]
  /\ locking \in SUBSET Threads
  /\ {dropped, moved} \subseteq BOOLEAN

\* As long as guards stay in their threads, two threads never have access to
\* the data at the same time.
MutualExclusion ==
  ~moved => \A a, b \in Threads : guards[a] > 0 /\ guards[b] > 0 => a = b

\* Wherever a guard is moved to and dropped, the mutex is not free while a
\* guard is alive.
NoGuardOnFree == mutex.count = 0 => \A th \in Threads : guards[th] = 0

\* As long as guards stay in their threads, the kernel's count is the number
\* of guards alive: no drop leaves the mutex locked and none unlocks it early.
CountIsGuards ==
  ~moved => \A th \in Threads : guards[th] = IF mutex.owner = th THEN mutex.count ELSE 0

\* Wherever guards are moved to, the threads inside lock() are those the
\* kernel will resume, each once, and they wait only for a mutex that is taken.
WaitersQueued ==
  /\ \A i \in 1 .. Len(mutex.queue) : mutex.queue[i] \in locking
  /\ \A th \in locking : \E i \in 1 .. Len(mutex.queue) : mutex.queue[i] = th
  /\ \A i, j \in 1 .. Len(mutex.queue) : mutex.queue[i] = mutex.queue[j] => i = j
  /\ locking # {} => mutex.count > 0

\* The owner field is set exactly while the mutex is taken.
OwnerInv == mutex.count = 0 <=> mutex.owner = NoThread

\* The inductive invariant of the proofs: what control block, guards and
\* waiters say of each other.
MutexInv == TypeOK /\ OwnerInv /\ CountIsGuards /\ WaitersQueued

\* Every lock(WaitForever) returns, provided that guards are dropped, and in
\* the threads that got them.
LockReturns == []~moved => \A th \in Threads : th \in locking ~> guards[th] > 0
=============================================================================
