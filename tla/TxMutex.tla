------------------------------ MODULE TxMutex ------------------------------
(* The ThreadX mutex as threadx-rs uses it (external: the kernel is not    *)
(* part of the repository).  A control block is a record of the owning     *)
(* thread, how often it has taken the mutex, and the threads suspended on  *)
(* it in the order in which they will be resumed.                          *)
EXTENDS Naturals, Sequences

CONSTANTS
  Threads,
  NoThread   \* owner of a free mutex

ASSUME ThreadAssumption == NoThread \notin Threads

\* What of a TX_MUTEX matters here.
ControlBlock ==
  [owner : Threads \cup {NoThread}, count : Nat, queue : Seq(Threads)]

\* _tx_mutex_create clears the whole block, whatever it held before.
\* Zeroed static memory reads the same.
Created == [owner |-> NoThread, count |-> 0, queue |-> <<>>]

\* _tx_mutex_get succeeds at once on a free mutex and for its owner.
Available(m, th) == m.count = 0 \/ m.owner = th

Taken(m, th) == [owner |-> th, count |-> m.count + 1, queue |-> m.queue]

Suspended(m, th) == [m EXCEPT !.queue = Append(@, th)]

\* _tx_mutex_put by the owner: the last put hands over to the first thread
\* suspended, whose own get succeeds with that.
HandsOver(m) == m.count = 1 /\ m.queue # <<>>

Put(m) ==
  IF HandsOver(m)
  THEN [owner |-> Head(m.queue), count |-> 1, queue |-> Tail(m.queue)]
  ELSE [m EXCEPT !.count = @ - 1, !.owner = IF m.count = 1 THEN NoThread ELSE @]
=============================================================================
