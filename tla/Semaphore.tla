----------------------------- MODULE Semaphore ------------------------------
(***************************************************************************)
(* Semaphore, SemaphoreOwnerHandle and SemaphoreUserHandle (semaphore.rs). *)
(* The handles are copies of one pointer, so they stay usable after delete *)
(* and find the control block as delete left it.  Threads use the          *)
(* semaphore to share some equal resources: they get one permit at a time  *)
(* and put it back.  get(NoWait) without a permit returns an error and     *)
(* changes nothing.                                                        *)
(***************************************************************************)
EXTENDS TxList, FiniteSets

CONSTANTS
  Users,        \* threads with a SemaphoreUserHandle
  InitialCount  \* initial_count

ASSUME InitialCountAssumption == InitialCount \in Nat

VARIABLES
  named,       \* tx_semaphore_name is not null
  semCreated,  \* initialize has returned the owner handle
  count,       \* permits in the semaphore
  semWaiting,  \* threads suspended in get, in the order of the kernel's list
  holders,     \* threads that have got a permit and not put it back
  notify,      \* semaphore_put_notify was called
  semDeletes,  \* how often the kernel has unlinked the control block
  crashed      \* the processor has stopped

semVars == <<named, semCreated, count, semWaiting, holders, notify, semDeletes, crashed>>

\* Semaphore::new leaves the control block uninitialized: its name may be
\* anything.
SemInit ==
  /\ named \in BOOLEAN
  /\ semCreated = FALSE
  /\ count = 0
  /\ semWaiting = <<>>
  /\ holders = {}
  /\ notify = FALSE
  /\ semDeletes = 0
  /\ crashed = FALSE

SemWaits(th) == \E i \in 1 .. Len(semWaiting) : semWaiting[i] = th
SemRuns(th) == semCreated /\ ~crashed /\ ~SemWaits(th)

-----------------------------------------------------------------------------
\* Semaphore::initialize panics on a name that is set; it takes the borrow
\* for good, so it is called once.
SemInitialize ==
  /\ ~semCreated /\ ~crashed
  /\ IF named
     THEN crashed' = TRUE /\ UNCHANGED <<named, semCreated, count>>
     ELSE /\ named' = TRUE /\ semCreated' = TRUE
          /\ count' = InitialCount
          /\ UNCHANGED crashed
  /\ UNCHANGED <<semWaiting, holders, notify, semDeletes>>

\* SemaphoreUserHandle::get
SemGet(th) ==
  /\ SemRuns(th)
  /\ th \notin holders
  /\ IF count > 0
     THEN /\ count' = count - 1
          /\ holders' = holders \cup {th}
          /\ UNCHANGED semWaiting
     ELSE /\ semWaiting' = Append(semWaiting, th)
          /\ UNCHANGED <<count, holders>>
  /\ UNCHANGED <<named, semCreated, notify, semDeletes, crashed>>

\* semaphore_cb_trampoline takes the control block for the function that
\* semaphore_put_notify was given, and its first word for an address.
Notified == notify

\* Mutants of SemPut: the permit is counted although a thread waits for it; it
\* is counted and handed over.
SemPutCounts(th) ==
  /\ SemRuns(th)
  /\ th \in holders
  /\ crashed' = Notified
  /\ IF TRUE
     THEN /\ count' = count + 1
          /\ holders' = holders \ {th}
          /\ UNCHANGED semWaiting
     ELSE /\ semWaiting' = Tail(semWaiting)
          /\ holders' = holders
          /\ UNCHANGED count
  /\ UNCHANGED <<named, semCreated, notify, semDeletes>>

SemPutTwice(th) ==
  /\ SemRuns(th)
  /\ th \in holders
  /\ crashed' = Notified
  /\ IF semWaiting = <<>>
     THEN /\ count' = count + 1
          /\ holders' = holders \ {th}
          /\ UNCHANGED semWaiting
     ELSE /\ semWaiting' = Tail(semWaiting)
          /\ holders' = (holders \ {th}) \cup {Head(semWaiting)}
          /\ count' = count + 1
  /\ UNCHANGED <<named, semCreated, notify, semDeletes>>

\* SemaphoreUserHandle::put hands the permit to the first waiter.
SemPut(th) ==
  /\ SemRuns(th)
  /\ th \in holders
  /\ crashed' = Notified
  /\ IF semWaiting = <<>>
     THEN /\ count' = count + 1
          /\ holders' = holders \ {th}
          /\ UNCHANGED semWaiting
     ELSE /\ semWaiting' = Tail(semWaiting)
          /\ holders' = (holders \ {th}) \cup {Head(semWaiting)}
          /\ UNCHANGED count
  /\ UNCHANGED <<named, semCreated, notify, semDeletes>>

\* SemaphoreUserHandle::prioritize puts the waiter of the highest priority
\* first, whichever that is.
SemPrioritize ==
  /\ semCreated /\ ~crashed
  /\ \E i \in 1 .. Len(semWaiting) : semWaiting' = Fronted(semWaiting, i)
  /\ UNCHANGED <<named, semCreated, count, holders, notify, semDeletes, crashed>>

\* semaphore_put_notify
PutNotify ==
  /\ semCreated /\ ~crashed
  /\ notify' = TRUE
  /\ UNCHANGED <<named, semCreated, count, semWaiting, holders, semDeletes, crashed>>

\* SemaphoreOwnerHandle::delete: every get that waits returns Deleted.  The
\* count stays as it is, and so do all handles, that of the owner included: it
\* is Copy, and the next delete unlinks a control block that is in no list.
\* How often is counted up to two; what the kernel's list then looks like is
\* not modelled.
SemDelete ==
  /\ semCreated /\ ~crashed
  /\ semWaiting' = <<>>
  /\ semDeletes' = IF semDeletes < 2 THEN semDeletes + 1 ELSE 2
  /\ UNCHANGED <<named, semCreated, count, holders, notify, crashed>>

SemNext ==
  \/ SemInitialize
  \/ \E th \in Users : SemGet(th) \/ SemPut(th)
  \/ SemPrioritize \/ PutNotify \/ SemDelete

SemSpec == SemInit /\ [][SemNext]_semVars

\* A thread does not keep its permit for ever.
SemFairSpec == SemSpec /\ \A th \in Users : WF_semVars(SemPut(th))

-----------------------------------------------------------------------------
(* Properties.                                                             *)

\* Type invariant of the semaphore and its waiters.
SemTypeOK ==
  /\ {named, semCreated, notify, crashed} \subseteq BOOLEAN
  /\ count \in Nat /\ semDeletes \in 0 .. 2
  /\ semWaiting \in Seq(Users)
  /\ holders \in SUBSET Users

\* Permits are neither lost nor made, by whatever order of get, put,
\* prioritize and delete, and also when handles are used after delete.
PermitsConserved ==
  semCreated => count + Cardinality(holders) = InitialCount

\* A thread waits only while there is no permit.
WaitersOnlyWhenEmpty == semWaiting # <<>> => count = 0

\* A thread waits in one place of the list, and has no permit meanwhile.
WaitsOnce ==
  /\ \A i, j \in 1 .. Len(semWaiting) : semWaiting[i] = semWaiting[j] => i = j
  /\ \A th \in holders : ~SemWaits(th)

\* Before initialize nobody has a handle.
NoneBefore == ~semCreated => semWaiting = <<>> /\ holders = {} /\ semDeletes = 0

\* All of it together is what every call preserves: permits are neither lost
\* nor made, and no thread waits while there is one.
SemInv ==
  /\ SemTypeOK /\ IsFiniteSet(holders)
  /\ PermitsConserved /\ WaitersOnlyWhenEmpty /\ WaitsOnce /\ NoneBefore

\* Every get returns, with a permit or with Deleted, if threads put back what
\* they hold and the list is not reordered again and again.
GetReturns ==
  <>[][~SemPrioritize]_semVars => \A th \in Users : SemWaits(th) ~> (~SemWaits(th) \/ crashed)
=============================================================================
