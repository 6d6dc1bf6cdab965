--------------------------- MODULE ExecutorProofs ---------------------------
(* Proofs about the executor, for every set of tasks and wakers and every  *)
(* length of SIGNALS.                                                      *)
EXTENDS Executor, FiniteSetTheorems, TLAPS

USE ThreadsAssumption, SlotsAssumption, DeregisterAssumption

-----------------------------------------------------------------------------
(* Type correctness.                                                       *)

\* A fresh executor has values of the right types.
LEMMA TypeInit == Init => TypeOK
  BY DEF Init, TypeOK, Slots, Threads, SignalState, TaskPC, WakerPC, PanicReason

\* Each step of the executor keeps the types of the variables.
LEMMA TypeStep == TypeOK /\ [Next]_vars => TypeOK'
<1> SUFFICES ASSUME TypeOK, [Next]_vars
             PROVE  TypeOK'
  OBVIOUS
<1> USE DEF TypeOK, Threads, Slots, SignalState, TaskPC, WakerPC, PanicReason
<1>1. CASE UNCHANGED vars
  BY <1>1 DEF vars
<1>2. ASSUME NEW th \in Threads, Lock(th)
      PROVE  TypeOK'
  BY <1>2 DEF Lock
<1>3. ASSUME NEW t \in Tasks, BlockOn(t)
      PROVE  TypeOK'
  BY <1>3 DEF BlockOn
<1>4. ASSUME NEW t \in Tasks, Claim(t)
      PROVE  TypeOK'
  <2>1. ASSUME NEW s \in Slots,
               signals' = [signals EXCEPT ![s] = "Empty"],
               slot' = [slot EXCEPT ![t] = s],
               pc' = [pc EXCEPT ![t] = "poll"],
               owner' = NoThread,
               UNCHANGED <<flags, ready, clones, panicked>>
        PROVE  TypeOK'
    BY <2>1
  <2>2. CASE Panic("no_free_slot")
    BY <2>2 DEF Panic
  <2> QED
    BY <1>4, <2>1, <2>2 DEF Claim, Unlock
<1>5. ASSUME NEW t \in Tasks, Poll(t)
      PROVE  TypeOK'
  <2>1. clones' \in SUBSET (Wakers \X Slots)
    BY <1>5 DEF Poll
  <2>2. PICK l \in {"reset", "wait"} : pc' = [pc EXCEPT ![t] = l]
    BY <1>5 DEF Poll
  <2>3. UNCHANGED <<signals, owner, flags, slot, ready, panicked>>
    BY <1>5 DEF Poll
  <2> QED
    BY <2>1, <2>2, <2>3
<1>6. ASSUME NEW t \in Tasks, Wait(t)
      PROVE  TypeOK'
  <2>1. CASE Panic(IF signals[slot[t]] = "Waiting" THEN "double_wait" ELSE "wait_unused")
    BY <2>1 DEF Panic
  <2>2. ASSUME NEW st \in {"Empty", "Waiting"}, NEW l \in {"poll", "get"},
               signals' = [signals EXCEPT ![slot[t]] = st],
               pc' = [pc EXCEPT ![t] = l],
               owner' = NoThread,
               UNCHANGED <<flags, slot, ready, clones, panicked>>
        PROVE  TypeOK'
    BY <2>2
  <2> QED
    BY <1>6, <2>1, <2>2 DEF Wait, Unlock
<1>7. ASSUME NEW t \in Tasks, EventGet(t)
      PROVE  TypeOK'
  <2>1. flags' \in SUBSET Slots
    BY <1>7 DEF EventGet, Cleared
  <2>2. PICK l \in {"poll", "suspended"} : pc' = [pc EXCEPT ![t] = l]
    BY <1>7 DEF EventGet
  <2>3. UNCHANGED <<signals, owner, slot, ready, clones, panicked>>
    BY <1>7 DEF EventGet
  <2> QED
    BY <2>1, <2>2, <2>3
<1>8. ASSUME NEW t \in Tasks, Reset(t)
      PROVE  TypeOK'
  BY <1>8 DEF Reset, Freed, Unlock
<1>9. ASSUME NEW t \in Tasks, CompleteEarly(t)
      PROVE  TypeOK'
  BY <1>9 DEF CompleteEarly
<1>10. ASSUME NEW w \in Wakers, NEW t \in Tasks, Complete(w, t)
       PROVE  TypeOK'
  BY <1>10 DEF Complete, StartWake
<1>11. ASSUME NEW w \in Wakers, NEW s \in Slots, Wake(w, s)
       PROVE  TypeOK'
  BY <1>11 DEF Wake, StartWake
<1>12. ASSUME NEW w \in Wakers, Notify(w)
       PROVE  TypeOK'
  <2>1. CASE Panic("wake_unused")
    BY <2>1 DEF Panic
  <2>2. ASSUME NEW st \in {"Empty", "Notified"}, NEW l \in {"idle", "publish"},
               NEW n \in {0, slot[w]},
               signals' = [signals EXCEPT ![slot[w]] = st],
               pc' = [pc EXCEPT ![w] = l],
               slot' = [slot EXCEPT ![w] = n],
               owner' \in {owner, NoThread},
               UNCHANGED <<flags, ready, clones, panicked>>
        PROVE  TypeOK'
    BY <2>2
  <2>3. CASE signals[slot[w]] = "Waiting"
    <3>1. slot' = [slot EXCEPT ![w] = slot[w]]
      BY <1>12, <2>3 DEF Notify, NotifiedState
    <3> QED
      BY <1>12, <2>3, <3>1, <2>2 DEF Notify, NotifiedState
  <2>4. CASE signals[slot[w]] \in {"Notified", "Empty"}
    BY <1>12, <2>4, <2>2 DEF Notify, NotifiedState, Unlock
  <2> QED
    BY <1>12, <2>1, <2>3, <2>4 DEF Notify, NotifiedState
<1>13. ASSUME NEW w \in Wakers, Publish(w)
       PROVE  TypeOK'
  <2>1. flags' \in SUBSET Slots
    BY <1>13 DEF Publish, PublishedFlag
  <2>2. pc' \in [Threads -> TaskPC \cup WakerPC]
    BY <1>13 DEF Publish
  <2>3. \A t \in Tasks : pc'[t] \in TaskPC
    BY <1>13 DEF Publish
  <2>4. \A v \in Wakers : pc'[v] \in WakerPC
    BY <1>13 DEF Publish
  <2> QED
    BY <1>13, <2>1, <2>2, <2>3, <2>4 DEF Publish, Unlock
<1> QED
  BY <1>1, <1>2, <1>3, <1>4, <1>5, <1>6, <1>7, <1>8, <1>9, <1>10, <1>11,
     <1>12, <1>13 DEF Next, TaskStep, WakerStep

\* The type invariant of the executor holds for every value of the constants.
THEOREM TypeCorrect == Spec => []TypeOK
  BY TypeInit, TypeStep, PTL DEF Spec

-----------------------------------------------------------------------------
(* Distinct calls of block_on hold distinct slots.                         *)

\* In the initial state every slot is Unused and nobody holds one.
LEMMA SlotsInit == Init => SlotExclusive
  BY DEF Init, SlotExclusive, Live, Threads

\* Each step keeps the slots apart.
LEMMA SlotsStep == TypeOK /\ SlotExclusive /\ [Next]_vars => SlotExclusive'
<1> SUFFICES ASSUME TypeOK, SlotExclusive, [Next]_vars
             PROVE  SlotExclusive'
  OBVIOUS
<1> USE DEF TypeOK, SlotExclusive, Live, Threads
<1>1. CASE UNCHANGED vars
  BY <1>1 DEF vars
<1>2. ASSUME NEW th \in Threads, Lock(th)
      PROVE  SlotExclusive'
  BY <1>2 DEF Lock
<1>3. ASSUME NEW t \in Tasks, BlockOn(t)
      PROVE  SlotExclusive'
  BY <1>3 DEF BlockOn
<1>4. ASSUME NEW t \in Tasks, Claim(t)
      PROVE  SlotExclusive'
  BY <1>4 DEF Claim, FirstUnused, Panic
<1>5. ASSUME NEW t \in Tasks, Poll(t)
      PROVE  SlotExclusive'
  BY <1>5 DEF Poll
<1>6. ASSUME NEW t \in Tasks, Wait(t)
      PROVE  SlotExclusive'
  BY <1>6 DEF Wait, Panic
<1>7. ASSUME NEW t \in Tasks, EventGet(t)
      PROVE  SlotExclusive'
  BY <1>7 DEF EventGet, Cleared
<1>8. ASSUME NEW t \in Tasks, Reset(t)
      PROVE  SlotExclusive'
  BY <1>8 DEF Reset, Freed
<1>9. ASSUME NEW t \in Tasks, CompleteEarly(t)
      PROVE  SlotExclusive'
  BY <1>9 DEF CompleteEarly
<1>10. ASSUME NEW w \in Wakers, NEW t \in Tasks, Complete(w, t)
       PROVE  SlotExclusive'
  BY <1>10 DEF Complete, StartWake
<1>11. ASSUME NEW w \in Wakers, NEW s \in Slots, Wake(w, s)
       PROVE  SlotExclusive'
  BY <1>11 DEF Wake, StartWake
<1>12. ASSUME NEW w \in Wakers, Notify(w)
       PROVE  SlotExclusive'
  BY <1>12 DEF Notify, NotifiedState, Panic
<1>13. ASSUME NEW w \in Wakers, Publish(w)
       PROVE  SlotExclusive'
  BY <1>13 DEF Publish
<1> QED
  BY <1>1, <1>2, <1>3, <1>4, <1>5, <1>6, <1>7, <1>8, <1>9, <1>10, <1>11,
     <1>12, <1>13 DEF Next, TaskStep, WakerStep

\* Calls of block_on that run at the same time hold distinct entries of
\* SIGNALS, and an entry is Unused exactly when no call holds it.
THEOREM SlotsExclusive == Spec => []SlotExclusive
  BY TypeInit, TypeStep, SlotsInit, SlotsStep, PTL DEF Spec

-----------------------------------------------------------------------------
(* What holds for any number of slots in use at the same time.             *)

\* What a Waker names and what a return rests on, in the initial state.
LEMMA TableInit ==
  Init => ClonesInv /\ ResultInv /\ FirstFlagOnly
  BY DEF Init, ClonesInv, ResultInv, FirstFlagOnly, Threads

\* A wake names the slot of a call that still runs, if futures deregister.
LEMMA ClonesStep ==
  ASSUME TypeOK, SlotExclusive, ClonesInv, [Next]_vars
  PROVE  ClonesInv'
<1> USE DEF TypeOK, Threads
<1>1. CASE UNCHANGED vars
  BY <1>1 DEF vars, ClonesInv
<1>2. ASSUME NEW th \in Threads, Lock(th)
      PROVE  ClonesInv'
  BY <1>2 DEF Lock, ClonesInv
<1>3. ASSUME NEW t \in Tasks, BlockOn(t) \/ CompleteEarly(t)
      PROVE  ClonesInv'
  BY <1>3 DEF BlockOn, CompleteEarly, ClonesInv
<1>4. ASSUME NEW t \in Tasks, Claim(t) \/ Wait(t) \/ EventGet(t) \/ Reset(t)
      PROVE  ClonesInv'
  BY <1>4 DEF Claim, Wait, EventGet, Cleared, Reset, Freed, Panic, ClonesInv
<1>5. ASSUME NEW t \in Tasks, Poll(t)
      PROVE  ClonesInv'
  BY <1>5 DEF Poll, WakeInProgress, ClonesInv, SlotExclusive, Live
<1>6. ASSUME NEW w \in Wakers, NEW s \in Slots, StartWake(w, s),
             \A t \in Tasks : pc'[t] = pc[t] /\ slot'[t] = slot[t]
      PROVE  ClonesInv'
  BY <1>6 DEF StartWake, ClonesInv
<1>7. ASSUME NEW w \in Wakers, Notify(w) \/ Publish(w)
      PROVE  ClonesInv'
  BY <1>7 DEF Notify, NotifiedState, Publish, Panic, ClonesInv
<1>8. ASSUME NEW w \in Wakers, NEW t \in Tasks, Complete(w, t)
      PROVE  ClonesInv'
  BY <1>6, <1>8 DEF Complete, StartWake
<1>9. ASSUME NEW w \in Wakers, NEW s \in Slots, Wake(w, s)
      PROVE  ClonesInv'
  BY <1>6, <1>9 DEF Wake, StartWake
<1> QED
  BY <1>1, <1>2, <1>3, <1>4, <1>5, <1>7, <1>8, <1>9 DEF Next, TaskStep, WakerStep

\* If there are no more threads than entries, one that looks for an entry
\* finds one: each entry in use belongs to one of the others.
LEMMA EntryFree ==
  ASSUME TypeOK, SlotExclusive, IsFiniteSet(Tasks), Cardinality(Tasks) <= NSlots,
         NEW t \in Tasks, ~Live(t)
  PROVE  \E s \in Slots : signals[s] = "Unused"
<1> SUFFICES ASSUME \A s \in Slots : signals[s] # "Unused" PROVE FALSE
  OBVIOUS
<1> DEFINE holder == [s \in Slots |-> CHOOSE u \in Tasks : Live(u) /\ slot[u] = s]
           others == Tasks \ {t}
<1>1. \A s \in Slots : \E u \in Tasks : Live(u) /\ slot[u] = s
  BY DEF SlotExclusive
<1>2. \A s \in Slots : holder[s] \in Tasks /\ Live(holder[s]) /\ slot[holder[s]] = s
  BY <1>1
<1>3. holder \in [Slots -> others]
  BY <1>2
<1>4. IsFiniteSet(Slots) /\ Cardinality(Slots) = NSlots
  BY FS_Interval DEF Slots
<1>5. IsFiniteSet(others) /\ Cardinality(others) = Cardinality(Tasks) - 1
  BY FS_RemoveElement
<1>6. Cardinality(Tasks) \in Nat
  BY FS_CardinalityType
<1>7. Cardinality(others) < Cardinality(Slots)
  BY <1>4, <1>5, <1>6
<1> HIDE DEF holder, others
<1>8. \E r, s \in Slots : r # s /\ holder[r] = holder[s]
  BY <1>3, <1>4, <1>5, <1>7, FS_PigeonHole
<1> QED
  BY <1>2, <1>8

\* Each step keeps PanicsInv.
LEMMA PanicsStep ==
  ASSUME TypeOK, SlotExclusive, ClonesInv, PanicsInv, IsFiniteSet(Tasks), [Next]_vars
  PROVE  PanicsInv'
<1> USE DEF TypeOK, Threads
<1>1. CASE panicked' = panicked
  BY <1>1 DEF PanicsInv
<1>2. ASSUME NEW t \in Tasks, Claim(t), panicked' # panicked
      PROVE  PanicsInv'
  <2>1. panicked' = "no_free_slot" /\ \A s \in Slots : signals[s] # "Unused"
    BY <1>2 DEF Claim, Panic
  <2>2. ~Live(t)
    BY <1>2 DEF Claim, Live
  <2> QED
    BY <2>1, <2>2, EntryFree DEF PanicsInv
<1>3. ASSUME NEW t \in Tasks, Wait(t), panicked' # panicked
      PROVE  PanicsInv'
  <2>1. Live(t) /\ slot[t] \in Slots
    BY <1>3 DEF Wait, Live
  <2>2. signals[slot[t]] # "Unused"
    BY <2>1 DEF SlotExclusive
  <2>3. panicked' = "double_wait"
    BY <1>3, <2>2 DEF Wait, Panic
  <2> QED
    BY <2>3 DEF PanicsInv
<1>4. ASSUME NEW w \in Wakers, Notify(w), panicked' # panicked
      PROVE  PanicsInv'
  <2>1. panicked' = "wake_unused" /\ pc[w] = "notify" /\ signals[slot[w]] = "Unused"
    BY <1>4 DEF Notify, NotifiedState, Panic
  <2>2. slot[w] \in Slots
    OBVIOUS
  <2>3. ASSUME Deregister PROVE FALSE
    <3> HIDE DEF TypeOK
    <3>1. PICK t \in Tasks : slot[t] = slot[w] /\ pc[t] \in {"poll", "wait", "get", "suspended"}
      BY <2>1, <2>2, <2>3 DEF ClonesInv
    <3> QED
      BY <2>1, <2>2, <3>1 DEF SlotExclusive, Live
  <2> QED
    BY <2>1, <2>3 DEF PanicsInv
<1>5. CASE UNCHANGED vars
  BY <1>1, <1>5 DEF vars
<1>6. ASSUME NEW th \in Threads, Lock(th)
      PROVE  PanicsInv'
  BY <1>1, <1>6 DEF Lock
<1>7. ASSUME NEW t \in Tasks, TaskStep(t) \/ CompleteEarly(t)
      PROVE  PanicsInv'
  BY <1>1, <1>2, <1>3, <1>7 DEF TaskStep, BlockOn, Poll, EventGet, Reset, CompleteEarly
<1>8. ASSUME NEW w \in Wakers, WakerStep(w)
      PROVE  PanicsInv'
  BY <1>1, <1>4, <1>8 DEF WakerStep, Complete, Wake, Publish
<1> QED
  BY <1>5, <1>6, <1>7, <1>8 DEF Next

\* With no more threads than the 31 entries, whose futures deregister their
\* Wakers, block_on meets none of its panics but, with several slots in use,
\* the double wait.
THEOREM PanicsRuledOut ==
  ASSUME IsFiniteSet(Tasks) PROVE Spec => []PanicsInv
<1> DEFINE Inv == TypeOK /\ SlotExclusive /\ ClonesInv /\ PanicsInv
<1>1. Init => Inv
  BY TypeInit, SlotsInit, TableInit DEF Init, PanicsInv
<1>2. Inv /\ [Next]_vars => Inv'
  BY TypeStep, SlotsStep, ClonesStep, PanicsStep
<1>3. Inv => PanicsInv
  OBVIOUS
<1> QED
  BY <1>1, <1>2, <1>3, PTL DEF Spec

\* For every number of threads and slots: a call in another slot than the
\* first that has to wait for its event flag is never resumed, because publish
\* sets bit 0 for every slot.
THEOREM OtherSlotsNeverWake == Spec => SleepsForGood
<1>1. Init => FirstFlagOnly
  BY TableInit
<1>2. FirstFlagOnly /\ [Next]_vars => FirstFlagOnly'
  BY DEF FirstFlagOnly, Next, vars, TaskStep, WakerStep, Lock, BlockOn, Claim, Panic,
         Poll, Wait, EventGet, Cleared, Reset, CompleteEarly, Complete, Wake, StartWake,
         Notify, Publish, PublishedFlag
<1>3. ASSUME TypeOK, FirstFlagOnly, [Next]_vars,
             NEW t \in Tasks, pc[t] \in {"get", "suspended"}, slot[t] # 0
      PROVE  pc'[t] \in {"get", "suspended"}
  <2> USE DEF TypeOK, Threads
  <2>1. CASE UNCHANGED vars \/ \E th \in Threads : Lock(th)
    BY <1>3, <2>1 DEF vars, Lock
  <2>2. ASSUME NEW u \in Tasks, EventGet(u)
        PROVE  pc'[t] \in {"get", "suspended"}
    BY <1>3, <2>2 DEF EventGet, FirstFlagOnly, RequestedFlag
  <2>3. ASSUME NEW u \in Tasks, TaskStep(u) \/ CompleteEarly(u), ~EventGet(u)
        PROVE  pc'[t] \in {"get", "suspended"}
    <3>1. CASE BlockOn(u) \/ Claim(u) \/ Poll(u)
      BY <1>3, <3>1 DEF BlockOn, Claim, Poll, Panic
    <3>2. CASE Wait(u) \/ Reset(u) \/ CompleteEarly(u)
      BY <1>3, <3>2 DEF Wait, Reset, CompleteEarly, Panic
    <3> QED
      BY <2>3, <3>1, <3>2 DEF TaskStep
  <2>4. ASSUME NEW w \in Wakers, Publish(w)
        PROVE  pc'[t] \in {"get", "suspended"}
    BY <1>3, <2>4 DEF Publish, PublishedFlag, RequestedFlag
  <2>5. ASSUME NEW w \in Wakers, WakerStep(w), ~Publish(w)
        PROVE  pc'[t] \in {"get", "suspended"}
    BY <1>3, <2>5 DEF WakerStep, Complete, Wake, StartWake, Notify, Panic
  <2> QED
    BY <1>3, <2>1, <2>2, <2>3, <2>4, <2>5 DEF Next
<1>4. TypeOK /\ FirstFlagOnly /\ [Next]_vars =>
        [\A t \in Tasks : pc[t] \in {"get", "suspended"} /\ slot[t] # 0
                             => pc'[t] \in {"get", "suspended"}]_vars
  BY <1>3
<1> QED
  BY <1>1, <1>2, <1>4, TypeCorrect, PTL DEF Spec, SleepsForGood

-----------------------------------------------------------------------------
(* While one slot is in use, no wake-up is lost, no bit is left behind and *)
(* the executor does not panic: IInv is inductive.                         *)

\* The inductive invariant holds in the initial state.
LEMMA IInvInit == Init => IInv
  BY TypeInit, SlotsInit
     DEF Init, IInv, MutexInv, FirstSlotInv, SignalInv, PublishInv, NoStaleFlag,
         WakeInv, ClonesInv, ResultInv, PanicInv, Live, Threads

\* Each step keeps the invariant, one step of the proof per action.
LEMMA IInvStep == OneSlot /\ IInv /\ [Next]_vars => IInv'
<1> SUFFICES ASSUME OneSlot, IInv, [Next]_vars
             PROVE  IInv'
  OBVIOUS
<1>a. TypeOK' /\ SlotExclusive'
  BY TypeStep, SlotsStep DEF IInv
<1> USE DEF IInv, Live, Threads, TypeOK, SlotExclusive, OneSlot, Slots
<1>1. ASSUME NEW th \in Threads, Lock(th)
      PROVE  IInv'
  <2>1. MutexInv'
    BY <1>a, <1>1 DEF Lock, MutexInv
  <2>2. FirstSlotInv' /\ SignalInv' /\ PublishInv' /\ NoStaleFlag' /\ WakeInv' /\ ClonesInv' /\ ResultInv' /\ PanicInv'
    BY <1>a, <1>1 DEF Lock, FirstSlotInv, SignalInv, PublishInFlight,
       PublishInv, MutexInv, NoStaleFlag, WakeInv, NotifyInFlight, ResultInv,
       ClonesInv, PanicInv
  <2> QED
    BY <1>a, <2>1, <2>2 DEF IInv
<1>2. ASSUME NEW t \in Tasks, BlockOn(t)
      PROVE  IInv'
  <2>1. MutexInv'
    BY <1>a, <1>2 DEF BlockOn, MutexInv
  <2>2. FirstSlotInv'
    BY <1>a, <1>2 DEF BlockOn, FirstSlotInv
  <2>3. SignalInv' /\ PublishInv' /\ NoStaleFlag' /\ WakeInv' /\ ClonesInv' /\ ResultInv' /\ PanicInv'
    BY <1>a, <1>2 DEF BlockOn, SignalInv, PublishInFlight, FirstSlotInv,
       PublishInv, MutexInv, NoStaleFlag, WakeInv, NotifyInFlight, ResultInv,
       ClonesInv, PanicInv
  <2> QED
    BY <1>a, <2>1, <2>2, <2>3 DEF IInv
<1>3. ASSUME NEW t \in Tasks, Claim(t)
      PROVE  IInv'
  <2>1. MutexInv'
    BY <1>a, <1>3 DEF Claim, FirstUnused, Panic, Unlock, MutexInv
  <2>2. FirstSlotInv'
    BY <1>a, <1>3 DEF Claim, FirstUnused, Panic, Unlock, FirstSlotInv
  <2>3. SignalInv' /\ NoStaleFlag'
    BY <1>a, <1>3 DEF Claim, FirstUnused, Panic, Unlock, SignalInv,
       PublishInFlight, FirstSlotInv, NoStaleFlag, PublishInv, MutexInv
  <2>4. PublishInv'
    BY <1>a, <1>3 DEF Claim, FirstUnused, Panic, Unlock, PublishInv,
       FirstSlotInv, MutexInv, NoStaleFlag, SignalInv, PublishInFlight
  <2>5. WakeInv'
    BY <1>a, <1>3 DEF Claim, FirstUnused, Panic, Unlock, WakeInv,
       NotifyInFlight, FirstSlotInv, SignalInv, ResultInv, PublishInv,
       MutexInv
  <2>6. ClonesInv'
    BY <1>a, <1>3 DEF Claim, FirstUnused, Panic, Unlock, ClonesInv,
       FirstSlotInv
  <2>7. PanicInv'
    BY <1>a, <1>3 DEF Claim, FirstUnused, Panic, Unlock, PanicInv,
       FirstSlotInv, SignalInv, ClonesInv
  <2>8. ResultInv'
    BY <1>a, <1>3 DEF Claim, FirstUnused, Panic, Unlock, ResultInv
  <2> QED
    BY <1>a, <2>1, <2>2, <2>3, <2>4, <2>5, <2>6, <2>7, <2>8 DEF IInv
<1>4. ASSUME NEW t \in Tasks, Poll(t)
      PROVE  IInv'
  <2>1. MutexInv'
    BY <1>a, <1>4 DEF Poll, WakeInProgress, MutexInv
  <2>2. SignalInv' /\ PublishInv'
    BY <1>a, <1>4 DEF Poll, WakeInProgress, SignalInv, PublishInFlight,
       FirstSlotInv, PublishInv, MutexInv, NoStaleFlag
  <2>3. NoStaleFlag'
    BY <1>a, <1>4 DEF Poll, WakeInProgress, NoStaleFlag, FirstSlotInv,
       SignalInv, PublishInv, MutexInv, PublishInFlight
  <2>4. WakeInv'
    BY <1>a, <1>4 DEF Poll, WakeInProgress, WakeInv, NotifyInFlight,
       FirstSlotInv, SignalInv, ResultInv, PublishInv, MutexInv
  <2>5. ClonesInv'
    BY <1>a, <1>4 DEF Poll, WakeInProgress, ClonesInv, FirstSlotInv
  <2>6. ResultInv'
    BY <1>a, <1>4 DEF Poll, WakeInProgress, ResultInv
  <2>7. FirstSlotInv' /\ PanicInv'
    BY <1>a, <1>4 DEF Poll, WakeInProgress, FirstSlotInv, PanicInv, SignalInv,
       ClonesInv
  <2> QED
    BY <1>a, <2>1, <2>2, <2>3, <2>4, <2>5, <2>6, <2>7 DEF IInv
<1>5. ASSUME NEW t \in Tasks, Wait(t)
      PROVE  IInv'
  <2>1. MutexInv'
    BY <1>a, <1>5 DEF Wait, Panic, Unlock, MutexInv
  <2>2. SignalInv'
    BY <1>a, <1>5 DEF Wait, Panic, Unlock, SignalInv, PublishInFlight,
       FirstSlotInv
  <2>3. PublishInv'
    BY <1>a, <1>5 DEF Wait, Panic, Unlock, PublishInv, FirstSlotInv, MutexInv,
       NoStaleFlag, SignalInv, PublishInFlight
  <2>4. NoStaleFlag'
    BY <1>a, <1>5 DEF Wait, Panic, Unlock, NoStaleFlag, FirstSlotInv,
       SignalInv, PublishInv, MutexInv, PublishInFlight
  <2>5. WakeInv'
    BY <1>a, <1>5 DEF Wait, Panic, Unlock, WakeInv, NotifyInFlight,
       FirstSlotInv, SignalInv, ResultInv, PublishInv, MutexInv
  <2>6. ClonesInv'
    BY <1>a, <1>5 DEF Wait, Panic, Unlock, ClonesInv, FirstSlotInv
  <2>7. PanicInv'
    BY <1>a, <1>5 DEF Wait, Panic, Unlock, PanicInv, FirstSlotInv, SignalInv,
       ClonesInv
  <2>8. FirstSlotInv' /\ ResultInv'
    BY <1>a, <1>5 DEF Wait, Panic, Unlock, FirstSlotInv, ResultInv
  <2> QED
    BY <1>a, <2>1, <2>2, <2>3, <2>4, <2>5, <2>6, <2>7, <2>8 DEF IInv
<1>6. ASSUME NEW t \in Tasks, EventGet(t)
      PROVE  IInv'
  <2>1. MutexInv'
    BY <1>a, <1>6 DEF EventGet, Cleared, RequestedFlag, MutexInv
  <2>2. SignalInv'
    BY <1>a, <1>6 DEF EventGet, Cleared, RequestedFlag, SignalInv, PublishInFlight,
       FirstSlotInv, PublishInv, NoStaleFlag
  <2>3. PublishInv'
    BY <1>a, <1>6 DEF EventGet, Cleared, RequestedFlag, PublishInv, FirstSlotInv,
       MutexInv, NoStaleFlag, SignalInv, PublishInFlight
  <2>4. NoStaleFlag'
    BY <1>a, <1>6 DEF EventGet, Cleared, RequestedFlag, NoStaleFlag, FirstSlotInv,
       SignalInv, PublishInv, MutexInv, PublishInFlight
  <2>5. WakeInv'
    BY <1>a, <1>6 DEF EventGet, Cleared, RequestedFlag, WakeInv, NotifyInFlight,
       FirstSlotInv, SignalInv, ResultInv, PublishInv, MutexInv
  <2>6. ClonesInv'
    BY <1>a, <1>6 DEF EventGet, Cleared, RequestedFlag, ClonesInv, FirstSlotInv
  <2>7. FirstSlotInv' /\ ResultInv' /\ PanicInv'
    BY <1>a, <1>6 DEF EventGet, Cleared, RequestedFlag, FirstSlotInv, ResultInv,
       PanicInv, SignalInv, ClonesInv
  <2> QED
    BY <1>a, <2>1, <2>2, <2>3, <2>4, <2>5, <2>6, <2>7 DEF IInv
<1>7. ASSUME NEW t \in Tasks, Reset(t)
      PROVE  IInv'
  <2>1. MutexInv'
    BY <1>a, <1>7 DEF Reset, Freed, Unlock, MutexInv
  <2>2. FirstSlotInv'
    BY <1>a, <1>7 DEF Reset, Freed, Unlock, FirstSlotInv
  <2>3. SignalInv'
    BY <1>a, <1>7 DEF Reset, Freed, Unlock, SignalInv, PublishInFlight, FirstSlotInv
  <2>4. PublishInv'
    BY <1>a, <1>7 DEF Reset, Freed, Unlock, PublishInv, FirstSlotInv, MutexInv,
       NoStaleFlag, SignalInv, PublishInFlight
  <2>5. NoStaleFlag'
    BY <1>a, <1>7 DEF Reset, Freed, Unlock, NoStaleFlag, FirstSlotInv, SignalInv,
       PublishInv, MutexInv, PublishInFlight
  <2>6. WakeInv'
    BY <1>a, <1>7 DEF Reset, Freed, Unlock, WakeInv, NotifyInFlight, FirstSlotInv,
       SignalInv, ResultInv, PublishInv, MutexInv
  <2>7. ClonesInv'
    <3>1. /\ \A v \in Wakers : pc'[v] = pc[v] /\ slot'[v] = slot[v]
          /\ UNCHANGED clones
      BY <1>a, <1>7 DEF Reset
    <3>2. \A u \in Tasks : pc[u] \in {"poll", "wait", "get", "suspended"}
                             => pc'[u] = pc[u] /\ slot'[u] = slot[u]
      BY <1>a, <1>7 DEF Reset
    <3>3. ClonesInv
      BY <1>a
    <3> HIDE DEF IInv, TypeOK, SlotExclusive
    <3> QED
      BY <3>1, <3>2, <3>3 DEF ClonesInv
  <2>8. ResultInv'
    BY <1>a, <1>7 DEF Reset, Freed, Unlock, ResultInv
  <2>9. PanicInv'
    BY <1>a, <1>7 DEF Reset, Freed, Unlock, PanicInv, FirstSlotInv, SignalInv,
       ClonesInv
  <2> QED
    BY <1>a, <2>1, <2>2, <2>3, <2>4, <2>5, <2>6, <2>7, <2>8, <2>9 DEF IInv
<1>8. ASSUME NEW t \in Tasks, CompleteEarly(t)
      PROVE  IInv'
  <2>1. WakeInv'
    BY <1>a, <1>8 DEF CompleteEarly, WakeInv, NotifyInFlight, FirstSlotInv,
       SignalInv, ResultInv, PublishInv, MutexInv
  <2>2. MutexInv' /\ FirstSlotInv' /\ SignalInv' /\ PublishInv' /\ NoStaleFlag' /\ ClonesInv' /\ ResultInv' /\ PanicInv'
    BY <1>a, <1>8 DEF CompleteEarly, MutexInv, FirstSlotInv, SignalInv,
       PublishInFlight, PublishInv, NoStaleFlag, ClonesInv, ResultInv,
       PanicInv
  <2> QED
    BY <1>a, <2>1, <2>2 DEF IInv
<1>9. ASSUME NEW w \in Wakers, NEW t \in Tasks, Complete(w, t)
      PROVE  IInv'
  <2>1. MutexInv'
    BY <1>a, <1>9 DEF Complete, StartWake, MutexInv
  <2>2. SignalInv'
    <3>1. \A u \in Tasks : pc'[u] = pc[u] /\ slot'[u] = slot[u]
      BY <1>9 DEF Complete, StartWake
    <3>2. \A n \in Slots : PublishInFlight(n) => PublishInFlight(n)'
      BY <1>9 DEF Complete, StartWake, PublishInFlight
    <3>3. UNCHANGED <<signals, flags>>
      BY <1>9 DEF Complete
    <3> QED
      BY <3>1, <3>2, <3>3 DEF SignalInv
  <2>3. PublishInv'
    BY <1>a, <1>9 DEF Complete, StartWake, PublishInv, FirstSlotInv, MutexInv,
       NoStaleFlag, SignalInv, PublishInFlight
  <2>4. WakeInv'
    BY <1>a, <1>9 DEF Complete, StartWake, WakeInv, NotifyInFlight,
       FirstSlotInv, SignalInv, ResultInv, PublishInv, MutexInv
  <2>5. ClonesInv'
    BY <1>a, <1>9 DEF Complete, StartWake, ClonesInv, FirstSlotInv
  <2>6. FirstSlotInv' /\ NoStaleFlag' /\ ResultInv' /\ PanicInv'
    BY <1>a, <1>9 DEF Complete, StartWake, FirstSlotInv, NoStaleFlag,
       SignalInv, PublishInv, MutexInv, PublishInFlight, ResultInv, PanicInv,
       ClonesInv
  <2> QED
    BY <1>a, <2>1, <2>2, <2>3, <2>4, <2>5, <2>6 DEF IInv
<1>10. ASSUME NEW w \in Wakers, NEW s \in Slots, Wake(w, s)
       PROVE  IInv'
  <2>1. MutexInv'
    BY <1>a, <1>10 DEF Wake, StartWake, MutexInv
  <2>2. SignalInv' /\ PublishInv'
    BY <1>a, <1>10 DEF Wake, StartWake, SignalInv, PublishInFlight,
       FirstSlotInv, PublishInv, MutexInv, NoStaleFlag
  <2>3. WakeInv'
    BY <1>a, <1>10 DEF Wake, StartWake, WakeInv, NotifyInFlight, FirstSlotInv,
       SignalInv, ResultInv, PublishInv, MutexInv
  <2>4. ClonesInv'
    BY <1>a, <1>10 DEF Wake, StartWake, ClonesInv, FirstSlotInv
  <2>5. FirstSlotInv' /\ NoStaleFlag' /\ ResultInv' /\ PanicInv'
    BY <1>a, <1>10 DEF Wake, StartWake, FirstSlotInv, NoStaleFlag, SignalInv,
       PublishInv, MutexInv, PublishInFlight, ResultInv, PanicInv, ClonesInv
  <2> QED
    BY <1>a, <2>1, <2>2, <2>3, <2>4, <2>5 DEF IInv
<1>11. ASSUME NEW w \in Wakers, Notify(w)
       PROVE  IInv'
  <2>1. MutexInv'
    BY <1>a, <1>11 DEF Notify, NotifiedState, Panic, Unlock, MutexInv
  <2>2. FirstSlotInv' /\ ResultInv'
    BY <1>a, <1>11 DEF Notify, NotifiedState, Panic, Unlock, FirstSlotInv, ResultInv
  <2>3. SignalInv'
    BY <1>a, <1>11 DEF Notify, NotifiedState, Panic, Unlock, SignalInv, PublishInFlight,
       FirstSlotInv
  <2>4. PublishInv'
    <3>1. CASE signals[slot[w]] = "Waiting"
      <4>1. PICK t \in Tasks : slot[t] = slot[w] /\ pc[t] \in {"get", "suspended"}
        BY <3>1 DEF SignalInv
      <4>2. flags = {}
        BY <3>1, <4>1 DEF NoStaleFlag, FirstSlotInv
      <4>3. \A v \in Wakers : pc'[v] = "publish" => v = w
        BY <1>11, <3>1 DEF Notify, MutexInv
      <4>4. /\ UNCHANGED <<flags, slot>>
            /\ signals' = [signals EXCEPT ![slot[w]] = "Empty"]
            /\ \A u \in Tasks : pc'[u] = pc[u]
        BY <1>11, <3>1 DEF Notify, NotifiedState
      <4> QED
        BY <4>1, <4>2, <4>3, <4>4 DEF PublishInv
    <3>2. CASE signals[slot[w]] # "Waiting"
      BY <1>11, <3>2 DEF Notify, Panic, PublishInv, MutexInv
    <3> QED
      BY <3>1, <3>2
  <2>5. NoStaleFlag'
    BY <1>a, <1>11 DEF Notify, NotifiedState, Panic, Unlock, NoStaleFlag, FirstSlotInv,
       SignalInv, PublishInv, MutexInv, PublishInFlight
  <2>6. WakeInv'
    BY <1>a, <1>11 DEF Notify, NotifiedState, Panic, Unlock, WakeInv, NotifyInFlight,
       FirstSlotInv, SignalInv, ResultInv, PublishInv, MutexInv
  <2>7. ClonesInv'
    BY <1>a, <1>11 DEF Notify, NotifiedState, Panic, Unlock, ClonesInv, FirstSlotInv
  <2>8. PanicInv'
    <3>1. CASE Deregister
      <4>1. slot[w] \in Slots /\ pc[w] = "notify"
        BY <1>11 DEF Notify, NotifiedState
      <4>2. PICK t \in Tasks : /\ slot[t] = slot[w]
                               /\ pc[t] \in {"poll", "wait", "get", "suspended"}
        <5>1. ClonesInv
          OBVIOUS
        <5> HIDE DEF IInv, SlotExclusive, TypeOK, Threads, Slots, OneSlot
        <5>2. \A v \in Wakers, s \in Slots :
                <<v, s>> \in clones \/ (pc[v] \in {"notify", "publish"} /\ slot[v] = s)
                  => \E t \in Tasks : /\ slot[t] = s
                                      /\ pc[t] \in {"poll", "wait", "get", "suspended"}
          BY <3>1, <5>1, Zenon DEF ClonesInv
        <5>3. pc[w] \in {"notify", "publish"}
          BY <4>1
        <5> QED
          BY <4>1, <5>2, <5>3, Zenon
      <4>3. signals[slot[w]] # "Unused"
        BY <4>1, <4>2
      <4>4. signals[slot[w]] \in {"Notified", "Empty", "Waiting"}
        BY <4>1, <4>3 DEF SignalState
      <4>5. UNCHANGED panicked
        BY <1>11, <4>4 DEF Notify, NotifiedState
      <4> QED
        BY <4>5 DEF PanicInv
    <3>2. CASE ~Deregister
      BY <1>11, <3>2 DEF Notify, NotifiedState, Panic, Unlock, PanicInv
    <3> QED
      BY <3>1, <3>2
  <2> QED
    BY <1>a, <2>1, <2>2, <2>3, <2>4, <2>5, <2>6, <2>7, <2>8 DEF IInv
<1>12. ASSUME NEW w \in Wakers, Publish(w)
       PROVE  IInv'
  <2>1. MutexInv'
    BY <1>a, <1>12 DEF Publish, PublishedFlag, RequestedFlag, Unlock, MutexInv
  <2>2. FirstSlotInv' /\ ResultInv'
    BY <1>a, <1>12 DEF Publish, PublishedFlag, RequestedFlag, Unlock,
       FirstSlotInv, ResultInv
  <2>3. SignalInv'
    BY <1>a, <1>12 DEF Publish, PublishedFlag, RequestedFlag, Unlock,
       SignalInv, PublishInFlight, FirstSlotInv, PublishInv, MutexInv,
       NoStaleFlag
  <2>4. PublishInv'
    BY <1>a, <1>12 DEF Publish, PublishedFlag, RequestedFlag, Unlock,
       PublishInv, FirstSlotInv, MutexInv, NoStaleFlag, SignalInv,
       PublishInFlight
  <2>5. NoStaleFlag'
    BY <1>a, <1>12 DEF Publish, PublishedFlag, RequestedFlag, Unlock,
       NoStaleFlag, FirstSlotInv, SignalInv, PublishInv, MutexInv,
       PublishInFlight
  <2>6. WakeInv'
    BY <1>a, <1>12 DEF Publish, PublishedFlag, RequestedFlag, Unlock, WakeInv,
       NotifyInFlight, FirstSlotInv, SignalInv, ResultInv, PublishInv,
       MutexInv
  <2>7. ClonesInv'
    BY <1>a, <1>12 DEF Publish, PublishedFlag, RequestedFlag, Unlock,
       ClonesInv, FirstSlotInv
  <2>8. PanicInv'
    BY <1>a, <1>12 DEF Publish, PublishedFlag, RequestedFlag, Unlock,
       PanicInv, FirstSlotInv, SignalInv, ClonesInv
  <2> QED
    BY <1>a, <2>1, <2>2, <2>3, <2>4, <2>5, <2>6, <2>7, <2>8 DEF IInv
<1>13. CASE UNCHANGED vars
  BY <1>13 DEF vars, MutexInv, FirstSlotInv, SignalInv, PublishInv, NoStaleFlag,
     WakeInv, ClonesInv, ResultInv, PanicInv, PublishInFlight, NotifyInFlight
<1> HIDE DEF IInv
<1> QED
  BY <1>1, <1>2, <1>3, <1>4, <1>5, <1>6, <1>7, <1>8, <1>9, <1>10, <1>11,
     <1>12, <1>13 DEF Next, TaskStep, WakerStep

\* Why no wake-up is lost: the task's own entry says who is still to come.
LEMMA WakeupsSafe == IInv => NoLostWakeup /\ NoDoubleWait
  BY DEF IInv, WakeInv, SignalInv, PanicInv, Live, NoLostWakeup, NoDoubleWait,
     WakeInProgress, NotifyInFlight, PublishInFlight

\* While one slot is in use the invariant holds.
THEOREM Inductive ==
  ASSUME OneSlot PROVE Spec => []IInv
<1>1. Init => IInv
  BY IInvInit
<1>2. IInv /\ [Next]_vars => IInv'
  BY IInvStep
<1> QED
  BY <1>1, <1>2, PTL DEF Spec

\* A thread never sleeps on a result that is there without a wake-up on its
\* way, whatever the timing of notify and _tx_event_flags_get.
THEOREM NoWakeupLost ==
  ASSUME OneSlot PROVE Spec => []NoLostWakeup
<1>1. Spec => []IInv
  BY Inductive
<1> QED
  BY <1>1, WakeupsSafe, PTL

\* The unreachable! in wait() is unreachable.
THEOREM DoubleWaitUnreachable ==
  ASSUME OneSlot PROVE Spec => []NoDoubleWait
<1>1. Spec => []IInv
  BY Inductive
<1> QED
  BY <1>1, WakeupsSafe, PTL

\* No bit outlives the wait it was published for.
THEOREM FlagsFresh ==
  ASSUME OneSlot PROVE Spec => []NoStaleFlag
<1>1. IInv => NoStaleFlag
  BY DEF IInv
<1>2. Spec => []IInv
  BY Inductive
<1> QED
  BY <1>1, <1>2, PTL

\* A wait ends only after its request was signalled.
THEOREM WaitsEndByNotify ==
  ASSUME OneSlot PROVE Spec => NoSpuriousWakeup
<1>1. ASSUME IInv, [Next]_vars,
             NEW t \in Tasks, pc[t] \in {"get", "suspended"}, pc'[t] = "poll"
      PROVE  signals[slot[t]] # "Waiting"
  <2> USE DEF IInv, TypeOK, Threads
  <2>1. CASE EventGet(t)
    BY <1>1, <2>1 DEF EventGet, Cleared, RequestedFlag, NoStaleFlag, FirstSlotInv, SlotExclusive, Live
  <2>2. ASSUME NEW w \in Wakers, Publish(w)
        PROVE  signals[slot[t]] # "Waiting"
    BY <1>1, <2>2 DEF Publish, PublishInv, FirstSlotInv, SlotExclusive, Live
  <2>3. ASSUME UNCHANGED vars \/ \E th \in Threads : Lock(th)
        PROVE  FALSE
    BY <1>1, <2>3 DEF vars, Lock
  <2>4. ASSUME NEW u \in Tasks, TaskStep(u) \/ CompleteEarly(u), ~EventGet(t)
        PROVE  FALSE
    <3>1. CASE EventGet(u)
      BY <1>1, <2>4, <3>1 DEF EventGet
    <3>2. CASE BlockOn(u) \/ Claim(u) \/ Poll(u)
      BY <1>1, <3>2 DEF BlockOn, Claim, Poll, Panic
    <3>3. CASE Wait(u) \/ Reset(u) \/ CompleteEarly(u)
      BY <1>1, <3>3 DEF Wait, Reset, CompleteEarly, Panic
    <3> QED
      BY <2>4, <3>1, <3>2, <3>3 DEF TaskStep
  <2>5. ASSUME NEW w \in Wakers, WakerStep(w), ~Publish(w)
        PROVE  FALSE
    BY <1>1, <2>5 DEF WakerStep, Complete, Wake, StartWake, Notify, Panic
  <2> QED
    BY <1>1, <2>1, <2>2, <2>3, <2>4, <2>5 DEF Next
<1>2. IInv /\ [Next]_vars =>
        [\A t \in Tasks : pc[t] \in {"get", "suspended"} /\ pc'[t] = "poll"
                             => signals[slot[t]] # "Waiting"]_vars
  BY <1>1
<1>3. Spec => []IInv
  BY Inductive
<1> QED
  BY <1>2, <1>3, PTL DEF Spec, NoSpuriousWakeup

\* One task whose futures deregister their Wakers meets none of the panics.
THEOREM SingleTaskNeverPanics ==
  ASSUME Deregister, \A t, u \in Tasks : t = u
  PROVE  Spec => []NoPanic
<1>1. IInv => NoPanic
  BY DEF IInv, TypeOK, PanicReason, PanicInv, NoPanic
<1>2. Spec => []IInv
  BY Inductive DEF OneSlot
<1> QED
  BY <1>1, <1>2, PTL

-----------------------------------------------------------------------------
(* The executor implements BlockOn (its safety part).                      *)

\* A step that leaves the entries of the table, and who holds them, alone is
\* a stutter of BlockOn when no I/O finishes in it.
LEMMA Stutters ==
  ASSUME UNCHANGED <<signals, ready>>,
         \A t \in Tasks : slot'[t] = slot[t] /\ (Live(t)' <=> Live(t))
  PROVE  UNCHANGED Promise!vars
<1>1. AbstractPhase' = AbstractPhase
  BY DEF AbstractPhase
<1>2. AbstractToken' = AbstractToken
  BY DEF AbstractToken
<1> QED
  BY <1>1, <1>2 DEF Promise!vars

\* Each step of the executor is a step of BlockOn or a stutter.
LEMMA PromiseStep == IInv /\ IInv' /\ [Next]_vars => [Promise!Next]_(Promise!vars)
<1> SUFFICES ASSUME IInv, IInv', [Next]_vars
             PROVE  Promise!Next \/ UNCHANGED Promise!vars
  OBVIOUS
<1>t. TypeOK /\ SlotExclusive /\ SignalInv /\ ResultInv
  BY DEF IInv
<1> USE <1>t DEF TypeOK, Threads
<1>1. CASE UNCHANGED vars
  BY <1>1, Stutters DEF vars, Live
<1>2. ASSUME NEW th \in Threads, Lock(th)
      PROVE  UNCHANGED Promise!vars
  BY <1>2, Stutters DEF Lock, Live
<1>3. ASSUME NEW t \in Tasks, BlockOn(t)
      PROVE  UNCHANGED Promise!vars
  BY <1>3, Stutters DEF BlockOn, Live
<1>4. ASSUME NEW t \in Tasks, Claim(t)
      PROVE  Promise!Call(t) \/ UNCHANGED Promise!vars
  <2>1. CASE Panic("no_free_slot")
    BY <2>1, Stutters DEF Panic, Live
  <2>2. ASSUME NEW s \in Slots, FirstUnused(s),
               signals' = [signals EXCEPT ![s] = "Empty"],
               slot' = [slot EXCEPT ![t] = s],
               pc' = [pc EXCEPT ![t] = "poll"],
               UNCHANGED ready
        PROVE  Promise!Call(t)
    <3>1. \A u \in Tasks : Live(u) => u # t /\ slot[u] # s
      BY <1>4, <2>2 DEF Claim, SlotExclusive, FirstUnused, Live
    <3>2. AbstractPhase[t] = "idle" /\ ~AbstractToken[t]
      BY <1>4 DEF Claim, AbstractPhase, AbstractToken, Live
    <3>3. AbstractPhase' = [AbstractPhase EXCEPT ![t] = "running"]
      BY <2>2, <3>1 DEF AbstractPhase, Live
    <3>4. AbstractToken' = AbstractToken
      BY <2>2, <3>1, <3>2 DEF AbstractToken, Live
    <3> QED
      BY <2>2, <3>2, <3>3, <3>4 DEF Promise!Call
  <2> QED
    BY <1>4, <2>1, <2>2 DEF Claim
<1>5. ASSUME NEW t \in Tasks, Poll(t)
      PROVE  UNCHANGED Promise!vars
  BY <1>5, Stutters DEF Poll, Live
<1>6. ASSUME NEW t \in Tasks, Wait(t)
      PROVE  Promise!Park(t) \/ UNCHANGED Promise!vars
  <2>1. Live(t) /\ \A u \in Tasks : Live(u) /\ u # t => slot[u] # slot[t]
    BY <1>6 DEF Wait, Live, SlotExclusive
  <2>2. CASE signals[slot[t]] \in {"Waiting", "Unused"}
    BY <1>6, <2>2, Stutters DEF Wait, Panic, Live
  <2>3. CASE signals[slot[t]] = "Notified"
    <3>1. /\ signals' = [signals EXCEPT ![slot[t]] = "Empty"]
          /\ pc' = [pc EXCEPT ![t] = "poll"]
          /\ UNCHANGED <<slot, ready>>
      BY <1>6, <2>3 DEF Wait
    <3>2. AbstractPhase[t] = "running" /\ AbstractToken[t]
      BY <2>1, <2>3 DEF AbstractPhase, AbstractToken
    <3>3. AbstractPhase' = AbstractPhase
      BY <2>1, <2>3, <3>1 DEF AbstractPhase, Live
    <3>4. AbstractToken' = [AbstractToken EXCEPT ![t] = FALSE]
      BY <2>1, <3>1 DEF AbstractToken, Live
    <3> QED
      BY <3>1, <3>2, <3>3, <3>4 DEF Promise!Park
  <2>4. CASE signals[slot[t]] = "Empty"
    <3>1. /\ signals' = [signals EXCEPT ![slot[t]] = "Waiting"]
          /\ pc' = [pc EXCEPT ![t] = "get"]
          /\ UNCHANGED <<slot, ready>>
      BY <1>6, <2>4 DEF Wait
    <3>2. AbstractPhase[t] = "running" /\ ~AbstractToken[t]
      BY <2>1, <2>4 DEF AbstractPhase, AbstractToken
    <3>3. AbstractPhase' = [AbstractPhase EXCEPT ![t] = "parked"]
      BY <2>1, <3>1 DEF AbstractPhase, Live
    <3>4. AbstractToken' = AbstractToken
      BY <2>1, <2>4, <3>1 DEF AbstractToken, Live
    <3> QED
      BY <3>1, <3>2, <3>3, <3>4 DEF Promise!Park
  <2> QED
    BY <1>6, <2>2, <2>3, <2>4 DEF Wait
<1>7. ASSUME NEW t \in Tasks, EventGet(t)
      PROVE  UNCHANGED Promise!vars
  BY <1>7, Stutters DEF EventGet, Cleared, Live
<1>8. ASSUME NEW t \in Tasks, Reset(t)
      PROVE  Promise!Return(t)
  <2>1. /\ Live(t)
        /\ ready[t]
        /\ signals[slot[t]] # "Waiting"
        /\ \A u \in Tasks : Live(u) /\ u # t => slot[u] # slot[t]
    BY <1>8 DEF Reset, Freed, Live, SlotExclusive, SignalInv, ResultInv
  <2>2. AbstractPhase[t] = "running"
    BY <2>1 DEF AbstractPhase
  <2>3. AbstractPhase' = [AbstractPhase EXCEPT ![t] = "idle"]
    BY <1>8, <2>1 DEF Reset, Freed, AbstractPhase, Live
  <2>4. AbstractToken' = [AbstractToken EXCEPT ![t] = FALSE]
    BY <1>8, <2>1 DEF Reset, Freed, AbstractToken, Live
  <2> QED
    BY <1>8, <2>1, <2>2, <2>3, <2>4 DEF Reset, Freed, Promise!Return
<1>9. ASSUME NEW t \in Tasks, CompleteEarly(t)
      PROVE  Promise!Finish(t)
  <2>1. AbstractPhase' = AbstractPhase /\ AbstractToken' = AbstractToken
    BY <1>9 DEF CompleteEarly, AbstractPhase, AbstractToken, Live
  <2> QED
    BY <1>9, <2>1 DEF CompleteEarly, Promise!Finish
<1>10. ASSUME NEW w \in Wakers, NEW t \in Tasks, Complete(w, t)
       PROVE  Promise!Finish(t) \/ UNCHANGED Promise!vars
  <2>1. \A u \in Tasks : slot'[u] = slot[u] /\ (Live(u)' <=> Live(u))
    BY <1>10 DEF Complete, StartWake, Live
  <2>2. AbstractPhase' = AbstractPhase /\ AbstractToken' = AbstractToken
    BY <1>10, <2>1 DEF Complete, AbstractPhase, AbstractToken
  <2>3. CASE ready[t]
    BY <1>10, <2>2, <2>3 DEF Complete, Promise!vars
  <2>4. CASE ~ready[t]
    BY <1>10, <2>2, <2>4 DEF Complete, Promise!Finish
  <2> QED
    BY <2>3, <2>4
<1>11. ASSUME NEW w \in Wakers, NEW s \in Slots, Wake(w, s)
       PROVE  UNCHANGED Promise!vars
  BY <1>11, Stutters DEF Wake, StartWake, Live
<1>12. ASSUME NEW w \in Wakers, Notify(w)
       PROVE  Promise!Next \/ UNCHANGED Promise!vars
  <2>1. \A u \in Tasks : pc'[u] = pc[u] /\ slot'[u] = slot[u]
    BY <1>12 DEF Notify, NotifiedState, Panic
  <2>2. UNCHANGED ready
    BY <1>12 DEF Notify, NotifiedState, Panic
  <2>3. CASE UNCHANGED signals
    BY <2>1, <2>2, <2>3, Stutters DEF Live
  <2>4. ASSUME NEW st \in {"Empty", "Notified"},
               signals' = [signals EXCEPT ![slot[w]] = st],
               signals[slot[w]] = IF st = "Empty" THEN "Waiting" ELSE "Empty"
        PROVE  \E t \in Tasks : Promise!Unpark(t)
    <3>1. PICK t \in Tasks : Live(t) /\ slot[t] = slot[w]
      BY <2>4 DEF SlotExclusive
    <3>2. \A u \in Tasks : Live(u) /\ u # t => slot[u] # slot[t]
      BY <3>1 DEF SlotExclusive
    <3>3. CASE st = "Empty"
      <4>1. AbstractPhase[t] = "parked"
        BY <2>4, <3>1, <3>3 DEF AbstractPhase
      <4>2. AbstractPhase' = [AbstractPhase EXCEPT ![t] = "running"]
        <5>1. \A u \in Tasks : u # t /\ Live(u) => signals'[slot'[u]] = signals[slot[u]]
          BY <2>1, <2>4, <3>1, <3>2
        <5>2. signals'[slot'[t]] = "Empty" /\ \A u \in Tasks : pc'[u] = pc[u]
          BY <2>1, <2>4, <3>1, <3>3
        <5> QED
          BY <3>1, <5>1, <5>2 DEF AbstractPhase, Live
      <4>3. AbstractToken' = AbstractToken
        <5>1. \A u \in Tasks : (Live(u) /\ signals[slot[u]] = "Notified")'
                                = (Live(u) /\ signals[slot[u]] = "Notified")
          BY <2>1, <2>4, <3>3 DEF Live
        <5> QED
          BY <5>1 DEF AbstractToken
      <4> QED
        BY <2>2, <4>1, <4>2, <4>3 DEF Promise!Unpark
    <3>4. CASE st = "Notified"
      <4>1. AbstractPhase[t] = "running"
        BY <2>4, <3>1, <3>4 DEF AbstractPhase
      <4>2. AbstractPhase' = AbstractPhase
        BY <2>1, <2>4, <3>1, <3>2, <3>4 DEF AbstractPhase, Live
      <4>3. AbstractToken' = [AbstractToken EXCEPT ![t] = TRUE]
        <5>1. \A u \in Tasks : u # t => (Live(u) /\ signals[slot[u]] = "Notified")'
                                        = (Live(u) /\ signals[slot[u]] = "Notified")
          BY <2>1, <2>4, <3>1, <3>2, <3>4 DEF Live
        <5>2. (Live(t) /\ signals[slot[t]] = "Notified")'
          BY <2>1, <2>4, <3>1, <3>4 DEF Live
        <5> QED
          BY <5>1, <5>2 DEF AbstractToken
      <4> QED
        BY <2>2, <4>1, <4>2, <4>3 DEF Promise!Unpark
    <3> QED
      BY <3>3, <3>4
  <2>5. \/ UNCHANGED signals
        \/ /\ signals' = [signals EXCEPT ![slot[w]] = "Empty"]
           /\ signals[slot[w]] = "Waiting"
        \/ /\ signals' = [signals EXCEPT ![slot[w]] = "Notified"]
           /\ signals[slot[w]] = "Empty"
    BY <1>12 DEF Notify, NotifiedState, Panic
  <2> QED
    BY <2>3, <2>4, <2>5 DEF Promise!Next
<1>13. ASSUME NEW w \in Wakers, Publish(w)
       PROVE  UNCHANGED Promise!vars
  BY <1>13, Stutters DEF Publish, Live
<1> QED
  BY <1>1, <1>2, <1>3, <1>4, <1>5, <1>6, <1>7, <1>8, <1>9, <1>10, <1>11,
     <1>12, <1>13 DEF Next, TaskStep, WakerStep, Promise!Next

\* While one slot is in use, block_on is a park/unpark with a token: no wake
\* is lost or invented, and a call returns only when its I/O is done.
THEOREM ExecutorImplementsBlockOn ==
  ASSUME OneSlot PROVE Spec => Promise!Safety
<1>1. Init => Promise!Init
  BY DEF Init, Promise!Init, AbstractPhase, AbstractToken, Live, Threads
<1>2. IInv /\ IInv' /\ [Next]_vars => [Promise!Next]_(Promise!vars)
  BY PromiseStep
<1>3. Spec => []IInv
  BY Inductive
<1> QED
  BY <1>1, <1>2, <1>3, PTL DEF Spec, Promise!Safety
=============================================================================
