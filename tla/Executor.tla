------------------------------ MODULE Executor ------------------------------
(***************************************************************************)
(* The async executor of threadx-rs (executor.rs): Executor::block_on, its *)
(* Signal (wait / notify) and the two kernel objects they share, the mutex *)
(* MUTEX_S around SIGNALS and the event flags group "ExecutorGroup".       *)
(*                                                                         *)
(* A behaviour starts when Executor::new has returned.  The handle is Copy *)
(* so any number of threads may call block_on with it (Tasks).  The        *)
(* threads and timer callbacks that finish the I/O a future waits for, and *)
(* call wake() on the clone of the Waker the future gave them, are Wakers. *)
(* A panic halts the processor: no step follows one.                       *)
(***************************************************************************)
EXTENDS Naturals, FiniteSets

CONSTANTS
  Tasks,       \* threads that call block_on
  Wakers,      \* threads and timer callbacks that call Waker::wake
  NoThread,    \* owner of a free mutex
  NSlots,      \* length of SIGNALS, 31 in the code
  Deregister   \* TRUE: before it returns Ready a future takes its Waker
               \* clones back and lets a wake in progress end

Threads == Tasks \cup Wakers
Slots == 0 .. NSlots - 1

ASSUME ThreadsAssumption == /\ Tasks \cap Wakers = {}
                            /\ NoThread \notin Threads
ASSUME SlotsAssumption == NSlots \in Nat \ {0}
ASSUME DeregisterAssumption == Deregister \in BOOLEAN

SignalState == {"Unused", "Empty", "Waiting", "Notified"}
TaskPC == {"idle", "claim", "poll", "wait", "get", "suspended", "reset"}
WakerPC == {"idle", "notify", "publish"}
PanicReason == {"none", "no_free_slot", "double_wait", "wait_unused", "wake_unused"}

VARIABLES
  signals,   \* SIGNALS, one SignalState per slot
  owner,     \* thread that owns MUTEX_S
  flags,     \* bits set in the event flags group
  pc,        \* where each thread is
  slot,      \* unused_index of a task, state_index of the Signal a waker wakes
  ready,     \* the next poll of the task's future returns Ready
  clones,    \* <<w, s>>: waker w holds a clone of the Waker for slot s
  panicked   \* reason of the panic, "none" while the program runs

vars == <<signals, owner, flags, pc, slot, ready, clones, panicked>>

Init ==
  /\ signals = [s \in Slots |-> "Unused"]
  /\ owner = NoThread
  /\ flags = {}
  /\ pc = [th \in Threads |-> "idle"]
  /\ slot = [th \in Threads |-> 0]
  /\ ready = [t \in Tasks |-> FALSE]
  /\ clones = {}
  /\ panicked = "none"

Running == panicked = "none"

-----------------------------------------------------------------------------
(* MUTEX_S.  The four critical sections of the code start with             *)
(* SIGNALS.lock(WaitForever) and end when the guard is dropped; the drop   *)
(* is part of the step that ends the section.                              *)

Lock(th) ==
  /\ Running
  /\ pc[th] \in {"claim", "wait", "reset", "notify"}
  /\ owner = NoThread
  /\ owner' = th
  /\ UNCHANGED <<signals, flags, pc, slot, ready, clones, panicked>>

Unlock == owner' = NoThread

\* A panic inside a critical section: nothing runs afterwards.
Panic(reason) ==
  /\ panicked' = reason
  /\ UNCHANGED <<signals, owner, flags, pc, slot, ready, clones>>

-----------------------------------------------------------------------------
(* Executor::block_on                                                      *)

BlockOn(t) ==
  /\ Running
  /\ pc[t] = "idle"
  /\ pc' = [pc EXCEPT ![t] = "claim"]
  /\ UNCHANGED <<signals, owner, flags, slot, ready, clones, panicked>>

FirstUnused(s) ==
  /\ signals[s] = "Unused"
  /\ \A r \in Slots : r < s => signals[r] # "Unused"

Claim(t) ==
  /\ Running
  /\ pc[t] = "claim"
  /\ owner = t
  /\ \/ \E s \in Slots :
          /\ FirstUnused(s)
          /\ signals' = [signals EXCEPT ![s] = "Empty"]
          /\ slot' = [slot EXCEPT ![t] = s]
          /\ pc' = [pc EXCEPT ![t] = "poll"]
          /\ Unlock
          /\ UNCHANGED <<flags, ready, clones, panicked>>
     \/ /\ \A s \in Slots : signals[s] # "Unused"
        /\ Panic("no_free_slot")

WakeInProgress(s) ==
  \E w \in Wakers : pc[w] \in {"notify", "publish"} /\ slot[w] = s

\* The future's poll.  Pending hands clones of the Waker to some sources.
Poll(t) ==
  /\ Running
  /\ pc[t] = "poll"
  /\ \/ /\ ready[t]
        /\ Deregister => ~WakeInProgress(slot[t])
        /\ clones' = IF Deregister THEN clones \ (Wakers \X {slot[t]}) ELSE clones
        /\ pc' = [pc EXCEPT ![t] = "reset"]
     \/ /\ ~ready[t]
        /\ \E W \in SUBSET Wakers :
             /\ W # {}
             /\ clones' = clones \cup (W \X {slot[t]})
        /\ pc' = [pc EXCEPT ![t] = "wait"]
  /\ UNCHANGED <<signals, owner, flags, slot, ready, panicked>>

\* Mutants of Freed: the entry is not given back; entry 0 is.
FreedNever(t) == signals
FreedFirst(t) == [signals EXCEPT ![0] = "Unused"]

Freed(t) == [signals EXCEPT ![slot[t]] = "Unused"]

Reset(t) ==
  /\ Running
  /\ pc[t] = "reset"
  /\ owner = t
  /\ signals' = Freed(t)
  /\ Unlock
  /\ pc' = [pc EXCEPT ![t] = "idle"]
  /\ slot' = [slot EXCEPT ![t] = 0]
  /\ ready' = [ready EXCEPT ![t] = FALSE]
  /\ UNCHANGED <<flags, clones, panicked>>

-----------------------------------------------------------------------------
(* Signal::wait                                                            *)

Wait(t) ==
  /\ Running
  /\ pc[t] = "wait"
  /\ owner = t
  /\ \/ /\ signals[slot[t]] = "Notified"
        /\ signals' = [signals EXCEPT ![slot[t]] = "Empty"]
        /\ pc' = [pc EXCEPT ![t] = "poll"]
        /\ Unlock
        /\ UNCHANGED <<flags, slot, ready, clones, panicked>>
     \/ /\ signals[slot[t]] = "Empty"
        /\ signals' = [signals EXCEPT ![slot[t]] = "Waiting"]
        /\ pc' = [pc EXCEPT ![t] = "get"]
        /\ Unlock
        /\ UNCHANGED <<flags, slot, ready, clones, panicked>>
     \/ /\ signals[slot[t]] \in {"Waiting", "Unused"}
        /\ Panic(IF signals[slot[t]] = "Waiting" THEN "double_wait" ELSE "wait_unused")

\* The bit wait() asks the event flags group for: 0b1 << state_index.
RequestedFlag(t) == slot[t]

\* Mutant of Cleared: WaitAll instead of WaitAllAndClear.
ClearedNot(t) == flags

Cleared(t) == flags \ {RequestedFlag(t)}

\* _tx_event_flags_get(WaitAllAndClear, WaitForever), after the mutex was
\* dropped: returns at once and clears the bit if it is set, else suspends.
EventGet(t) ==
  /\ Running
  /\ pc[t] = "get"
  /\ IF RequestedFlag(t) \in flags
     THEN /\ flags' = Cleared(t)
          /\ pc' = [pc EXCEPT ![t] = "poll"]
     ELSE /\ flags' = flags
          /\ pc' = [pc EXCEPT ![t] = "suspended"]
  /\ UNCHANGED <<signals, owner, slot, ready, clones, panicked>>

-----------------------------------------------------------------------------
(* The event sources and Signal::notify                                    *)

\* The I/O finishes before the future was polled: nobody to wake.
CompleteEarly(t) ==
  /\ Running
  /\ pc[t] \in {"claim", "poll"}
  /\ ~ready[t]
  /\ ready' = [ready EXCEPT ![t] = TRUE]
  /\ UNCHANGED <<signals, owner, flags, pc, slot, clones, panicked>>

StartWake(w, s) ==
  /\ Running
  /\ pc[w] = "idle"
  /\ <<w, s>> \in clones
  /\ clones' = clones \ {<<w, s>>}
  /\ pc' = [pc EXCEPT ![w] = "notify"]
  /\ slot' = [slot EXCEPT ![w] = s]

\* A source finishes the I/O task t waits for, then calls wake().
Complete(w, t) ==
  /\ pc[t] \notin {"idle", "claim", "reset"}
  /\ StartWake(w, slot[t])
  /\ ready' = [ready EXCEPT ![t] = TRUE]
  /\ UNCHANGED <<signals, owner, flags, panicked>>

\* A source calls wake() without having finished anything (one branch of a
\* join), or long after the block_on that made the Waker has returned.
Wake(w, s) ==
  /\ StartWake(w, s)
  /\ UNCHANGED <<signals, owner, flags, ready, panicked>>

\* Mutants of NotifiedState: a wake between poll and wait is dropped; the
\* notification of a sleeping thread is also left for its next wait.
NotifiedStateEarly(state) == IF state = "Notified" THEN "Notified" ELSE "Empty"
NotifiedStateTwice(state) == "Notified"

NotifiedState(state) == IF state = "Waiting" THEN "Empty" ELSE "Notified"

Notify(w) ==
  /\ Running
  /\ pc[w] = "notify"
  /\ owner = w
  /\ \/ /\ signals[slot[w]] \in {"Notified", "Empty"}
        /\ signals' = [signals EXCEPT ![slot[w]] = NotifiedState(@)]
        /\ pc' = [pc EXCEPT ![w] = "idle"]
        /\ slot' = [slot EXCEPT ![w] = 0]
        /\ Unlock
        /\ UNCHANGED <<flags, ready, clones, panicked>>
     \/ /\ signals[slot[w]] = "Waiting"
        /\ signals' = [signals EXCEPT ![slot[w]] = NotifiedState(@)]
        /\ pc' = [pc EXCEPT ![w] = "publish"]
        /\ UNCHANGED <<owner, flags, slot, ready, clones, panicked>>
     \/ /\ signals[slot[w]] = "Unused"
        /\ Panic("wake_unused")

\* Mutant of PublishedFlag: the first bit taken to be 1.
PublishedFlagOne(w) == 1

\* The bit notify() publishes: 0x1 whatever state_index is.
PublishedFlag(w) == 0

\* _tx_event_flags_set(TX_OR), still under the mutex: a suspended task whose
\* request is met is resumed and consumes the bit, else the bit stays set.
Publish(w) ==
  LET resumed == {t \in Tasks : pc[t] = "suspended" /\ RequestedFlag(t) = PublishedFlag(w)}
  IN /\ Running
     /\ pc[w] = "publish"
     /\ flags' = IF resumed = {} THEN flags \cup {PublishedFlag(w)}
                                 ELSE flags \ {PublishedFlag(w)}
     /\ pc' = [th \in Threads |-> IF th \in resumed THEN "poll"
                                  ELSE IF th = w THEN "idle" ELSE pc[th]]
     /\ slot' = [slot EXCEPT ![w] = 0]
     /\ Unlock
     /\ UNCHANGED <<signals, ready, clones, panicked>>

-----------------------------------------------------------------------------
TaskStep(t) ==
  \/ BlockOn(t) \/ Claim(t) \/ Poll(t) \/ Wait(t) \/ EventGet(t) \/ Reset(t)

WakerStep(w) ==
  \/ \E t \in Tasks : Complete(w, t)
  \/ \E s \in Slots : Wake(w, s)
  \/ Notify(w)
  \/ Publish(w)

Next ==
  \/ \E th \in Threads : Lock(th)
  \/ \E t \in Tasks : TaskStep(t) \/ CompleteEarly(t)
  \/ \E w \in Wakers : WakerStep(w)

Spec == Init /\ [][Next]_vars

\* Every thread is scheduled again and again, and MUTEX_S, which hands over
\* to the first suspended thread, starves nobody.  No fairness is assumed of
\* the event sources: block_on may start, and I/O may finish, never.
Fairness ==
  /\ \A th \in Threads : SF_vars(Lock(th))
  /\ \A t \in Tasks : WF_vars(Claim(t) \/ Poll(t) \/ Wait(t) \/ EventGet(t) \/ Reset(t))
  /\ \A w \in Wakers : WF_vars(Notify(w) \/ Publish(w))

FairSpec == Spec /\ Fairness

-----------------------------------------------------------------------------
(* What must hold.                                                         *)

\* Every variable has its type.
TypeOK ==
  /\ signals \in [Slots -> SignalState]
  /\ owner \in Threads \cup {NoThread}
  /\ flags \in SUBSET Slots
  /\ pc \in [Threads -> TaskPC \cup WakerPC]
  /\ \A t \in Tasks : pc[t] \in TaskPC
  /\ \A w \in Wakers : pc[w] \in WakerPC
  /\ slot \in [Threads -> Slots]
  /\ ready \in [Tasks -> BOOLEAN]
  /\ clones \in SUBSET (Wakers \X Slots)
  /\ panicked \in PanicReason

\* Task t holds the slot slot[t]: from the search of block_on to its reset.
Live(t) == pc[t] \notin {"idle", "claim"}

\* The mutex protects the table: calls of block_on that run at the same time
\* hold distinct entries of SIGNALS, and an entry is Unused exactly when no
\* call holds it.  A claim that is not atomic breaks it, and so does a wake
\* or a reset that writes the entry of somebody else.
SlotExclusive ==
  /\ \A t, u \in Tasks : Live(t) /\ Live(u) /\ slot[t] = slot[u] => t = u
  /\ \A s \in Slots : signals[s] = "Unused" <=> ~ \E t \in Tasks : Live(t) /\ slot[t] = s

\* No panic of the executor is reached: neither "No free task slots" nor the
\* unreachable! of wait() nor the todo! of a state nobody expected.
NoPanic == panicked = "none"

\* wait() never finds its own entry Waiting: the unreachable! "Multiple
\* threads waiting on the same signal" is indeed unreachable.
NoDoubleWait == panicked # "double_wait"

\* A Waker that the I/O layer kept after block_on returned may be called:
\* "Arc is a thread-safe way to allow this to happen".
LateWakeAllowed == panicked # "wake_unused"

NotifyInFlight(s) == \E w \in Wakers : pc[w] = "notify" /\ slot[w] = s
PublishInFlight(s) == \E w \in Wakers : pc[w] = "publish" /\ slot[w] = s

\* A thread does not sleep on a result that is already there, unless the
\* wake() that tells it so is still on its way: the window between the drop
\* of the mutex and _tx_event_flags_get, which the TODO in wait() asks about,
\* loses no wake-up.
NoLostWakeup ==
  \A t \in Tasks : pc[t] = "suspended" /\ ready[t] => WakeInProgress(slot[t])

\* A bit left in the event flags group belongs to a thread on its way to
\* _tx_event_flags_get that has been notified; so it never satisfies the wait
\* of a later poll or of the next call of block_on.
NoStaleFlag ==
  \A f \in flags : \E t \in Tasks : /\ pc[t] = "get"
                                    /\ slot[t] = f
                                    /\ signals[f] # "Waiting"

\* "This thread is only woken up after the request flag is SIGNALED": a wait
\* never ends while the entry still says Waiting.
NoSpuriousWakeup ==
  [][\A t \in Tasks : pc[t] \in {"get", "suspended"} /\ pc'[t] = "poll"
                        => signals[slot[t]] # "Waiting"]_vars

\* A block_on whose future has become ready returns.
ReadyFinishes == \A t \in Tasks : ready[t] ~> (pc[t] = "idle")

-----------------------------------------------------------------------------
(* The executor implements BlockOn: a call is parked while its entry says  *)
(* Waiting, and the token is the state Notified.                           *)

AbstractPhase ==
  [t \in Tasks |-> IF ~Live(t) THEN "idle"
                   ELSE IF signals[slot[t]] = "Waiting" THEN "parked" ELSE "running"]
AbstractToken == [t \in Tasks |-> Live(t) /\ signals[slot[t]] = "Notified"]

Promise == INSTANCE BlockOn WITH phase <- AbstractPhase, token <- AbstractToken,
                                 done <- ready

\* block_on keeps the promise of BlockOn: no wake() is lost or invented, a
\* call returns only when its I/O is done, and then it does return.
ImplementsBlockOn == Promise!Spec

-----------------------------------------------------------------------------
(* Why they hold while only the first slot is ever in use: the inductive   *)
(* invariant of the proofs.                                                *)

\* At most one call of block_on runs at a time.
OneSlot == NSlots = 1 \/ \A t, u \in Tasks : t = u

\* The owner of MUTEX_S is inside one of the four critical sections.
MutexInv ==
  /\ \A w \in Wakers : pc[w] = "publish" => owner = w
  /\ \A th \in Threads : owner = th => pc[th] \in {"claim", "wait", "reset", "notify", "publish"}

\* Everything happens in slot 0.
FirstSlotInv == \A t \in Tasks : Live(t) => slot[t] = 0

\* What the entry of a task says of where the task is, of the bit in the
\* event flags group and of the notifier that still has to publish it.
SignalInv ==
  \A t \in Tasks : Live(t) =>
    /\ signals[slot[t]] = "Waiting" => pc[t] \in {"get", "suspended"}
    /\ pc[t] = "get" /\ signals[slot[t]] # "Waiting" =>
         slot[t] \in flags \/ PublishInFlight(slot[t])
    /\ pc[t] = "suspended" /\ signals[slot[t]] # "Waiting" => PublishInFlight(slot[t])

\* The publish follows a wait that notify has just ended.
PublishInv ==
  \A w \in Wakers : pc[w] = "publish" =>
    /\ flags = {}
    /\ signals[slot[w]] = "Empty"
    /\ \E t \in Tasks : slot[t] = slot[w] /\ pc[t] \in {"get", "suspended"}

\* A task that has not seen its result yet still has a wake-up to come.
WakeInv ==
  \A t \in Tasks : ready[t] =>
    /\ pc[t] = "wait" /\ signals[slot[t]] = "Empty" => NotifyInFlight(slot[t])
    /\ pc[t] \in {"get", "suspended"} /\ signals[slot[t]] = "Waiting" => NotifyInFlight(slot[t])

\* With futures that deregister, a wake names a slot whose call still runs.
ClonesInv ==
  Deregister => \A w \in Wakers, s \in Slots :
    <<w, s>> \in clones \/ (pc[w] \in {"notify", "publish"} /\ slot[w] = s)
      => \E t \in Tasks : slot[t] = s /\ pc[t] \in {"poll", "wait", "get", "suspended"}

\* block_on leaves its loop only with a result.
ResultInv == \A t \in Tasks : pc[t] = "reset" => ready[t]

\* Whatever the number of slots: wait() never finds its entry Unused, wake()
\* does not either if futures deregister, and block_on finds a free entry if
\* there are no more threads than entries.
PanicsInv ==
  /\ panicked # "wait_unused"
  /\ Deregister => panicked # "wake_unused"
  /\ Cardinality(Tasks) <= NSlots => panicked # "no_free_slot"

\* publish(0b1) sets no other bit, whatever slot it is for.
FirstFlagOnly == flags \subseteq {0}

\* A call in another slot than the first that waits for its event flag waits
\* for ever.
SleepsForGood ==
  [][\A t \in Tasks : pc[t] \in {"get", "suspended"} /\ slot[t] # 0
                        => pc'[t] \in {"get", "suspended"}]_vars

PanicInv ==
  /\ panicked \notin {"double_wait", "wait_unused"}
  /\ Deregister => panicked # "wake_unused"
  /\ (\A t, u \in Tasks : t = u) => panicked # "no_free_slot"

\* The inductive invariant of the proofs.
IInv ==
  /\ TypeOK /\ SlotExclusive /\ MutexInv /\ FirstSlotInv /\ SignalInv
  /\ PublishInv /\ NoStaleFlag /\ WakeInv /\ ClonesInv
  /\ ResultInv /\ PanicInv
=============================================================================
