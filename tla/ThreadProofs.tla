---------------------------- MODULE ThreadProofs ----------------------------
(***************************************************************************)
(* Threads, for any number of them: a request to stop holds until start,   *)
(* whatever the thread does meanwhile and whatever handles there are.      *)
(*                                                                         *)
(* The shared bus, for any threads that use it: it is borrowed by one at a *)
(* time, and interrupts are masked inside interrupt::free and only there.  *)
(***************************************************************************)
EXTENDS ThreadHandles, BoardBus, Boot, TLAPS

-----------------------------------------------------------------------------
(* Threads and their handles.                                              *)

LEMMA ThreadsStart ==
  ASSUME ThreadsInit PROVE ThreadsInv
<1>1. ThreadsTypeOK
  <2>1. state \in [AllThreads -> States] /\ handles \in [AllThreads -> Nat]
    BY DEF ThreadsInit, States
  <2>2. entries \in [AllThreads -> 0 .. 1] /\ deletes \in [AllThreads -> 0 .. 2]
    BY DEF ThreadsInit
  <2>3. /\ delayed \in [AllThreads -> BOOLEAN] /\ stopped \in [AllThreads -> BOOLEAN]
        /\ threadPanicked \in BOOLEAN
    BY Zenon DEF ThreadsInit
  <2> QED
    BY <2>1, <2>2, <2>3 DEF ThreadsTypeOK
<1>2. StopsUntilStarted
  BY DEF ThreadsInit, StopsUntilStarted
<1>3. HandledRightly
  BY DEF ThreadsInit, HandledRightly
<1> QED
  BY <1>1, <1>2, <1>3 DEF ThreadsInv

\* One thread is created.
LEMMA CreateStep ==
  ASSUME ThreadsInv, NEW t \in AllThreads,
         CreateBoxed(t) \/ \E autoStart \in BOOLEAN : CreateCFunc(t, autoStart)
  PROVE  ThreadsInv'
<1>1. CASE CreateBoxed(t)
  BY <1>1
  DEF CreateBoxed, ThreadsInv, ThreadsTypeOK, StopsUntilStarted, HandledRightly, States
<1>2. ASSUME NEW autoStart \in BOOLEAN, CreateCFunc(t, autoStart)
      PROVE  ThreadsInv'
  <2>1. UNCHANGED <<delayed, handles, entries, deletes>>
    BY <1>2 DEF CreateCFunc
  <2>2. CASE threadPanicked' = TRUE /\ UNCHANGED <<state, stopped>>
    BY <2>1, <2>2
    DEF ThreadsInv, ThreadsTypeOK, StopsUntilStarted, HandledRightly
  <2>3. CASE /\ FALSE \in NamesSeen(t)
             /\ state' = [state EXCEPT ![t] = IF autoStart THEN "ready" ELSE "suspended"]
             /\ stopped' = [stopped EXCEPT ![t] = ~autoStart]
             /\ UNCHANGED threadPanicked
    <3>1. state[t] = "new"
      BY <2>3 DEF NamesSeen
    <3> QED
      BY <2>1, <2>3, <3>1
      DEF ThreadsInv, ThreadsTypeOK, StopsUntilStarted, HandledRightly, States
  <2> QED
    BY <1>2, <2>2, <2>3 DEF CreateCFunc, NamesSeen
<1> QED
  BY <1>1, <1>2

\* A call through a handle of one thread, or the loss of one.
LEMMA HandleStep ==
  ASSUME ThreadsInv, NEW t \in AllThreads,
         Start(t) \/ Suspend(t) \/ DeleteThread(t) \/ DropHandle(t)
  PROVE  ThreadsInv'
<1>1. CASE Start(t)
  <2>1. /\ handles' \in [AllThreads -> Nat]
        /\ \A u \in AllThreads : u # t => handles'[u] = handles[u]
    BY <1>1 DEF Start, SecondHandle, ThreadsInv, ThreadsTypeOK
  <2>2. state[t] # "new"
    BY <1>1 DEF Start, ThreadsInv, HandledRightly
  <2>3. ThreadsTypeOK'
    BY <1>1, <2>1 DEF Start, ThreadsInv, ThreadsTypeOK, States
  <2>4. StopsUntilStarted'
    BY <1>1 DEF Start, ThreadsInv, ThreadsTypeOK, StopsUntilStarted, HandledRightly
  <2>5. HandledRightly'
    BY <1>1, <2>1, <2>2 DEF Start, ThreadsInv, ThreadsTypeOK, HandledRightly
  <2> QED
    BY <2>3, <2>4, <2>5 DEF ThreadsInv
<1>2. CASE Suspend(t)
  <2>1. /\ handles' \in [AllThreads -> Nat]
        /\ \A u \in AllThreads : u # t => handles'[u] = handles[u]
    BY <1>2 DEF Suspend, SecondHandle, ThreadsInv, ThreadsTypeOK
  <2>2. state[t] # "new"
    BY <1>2 DEF Suspend, ThreadsInv, HandledRightly
  <2>3. ThreadsTypeOK'
    BY <1>2, <2>1 DEF Suspend, ThreadsInv, ThreadsTypeOK, States
  <2>4. StopsUntilStarted'
    BY <1>2 DEF Suspend, ThreadsInv, ThreadsTypeOK, StopsUntilStarted, HandledRightly
  <2>5. HandledRightly'
    BY <1>2, <2>1, <2>2 DEF Suspend, ThreadsInv, ThreadsTypeOK, HandledRightly
  <2> QED
    BY <2>3, <2>4, <2>5 DEF ThreadsInv
<1>3. CASE DeleteThread(t)
  <2>1. /\ handles' = [handles EXCEPT ![t] = @ - 1] /\ handles[t] > 0
        /\ UNCHANGED <<delayed, stopped, entries, threadPanicked>>
    BY <1>3 DEF DeleteThread
  <2>2. \/ /\ state[t] \in {"completed", "deleted"}
           /\ state' = [state EXCEPT ![t] = "deleted"]
           /\ deletes' = [deletes EXCEPT ![t] = IF @ < 2 THEN @ + 1 ELSE @]
        \/ UNCHANGED <<state, deletes>>
    BY <1>3 DEF DeleteThread
  <2>3. handles' \in [AllThreads -> Nat] /\ state' \in [AllThreads -> States]
        /\ deletes' \in [AllThreads -> 0 .. 2]
    BY <2>1, <2>2 DEF ThreadsInv, ThreadsTypeOK, States
  <2>4. StopsUntilStarted'
    BY <2>1, <2>2 DEF ThreadsInv, ThreadsTypeOK, StopsUntilStarted, HandledRightly
  <2>5. HandledRightly'
    <3>1. \A u \in AllThreads : deletes[u] \in 0 .. 2
      BY DEF ThreadsInv, ThreadsTypeOK
    <3> QED
      BY <2>1, <2>2, <3>1 DEF ThreadsInv, ThreadsTypeOK, HandledRightly
  <2> QED
    BY <2>1, <2>3, <2>4, <2>5 DEF ThreadsInv, ThreadsTypeOK
<1>4. CASE DropHandle(t)
  <2>1. /\ handles' = [handles EXCEPT ![t] = @ - 1] /\ handles[t] > 0
        /\ UNCHANGED <<state, delayed, stopped, entries, deletes, threadPanicked>>
    BY <1>4 DEF DropHandle
  <2> QED
    BY <2>1 DEF ThreadsInv, ThreadsTypeOK, StopsUntilStarted, HandledRightly
<1> QED
  BY <1>1, <1>2, <1>3, <1>4

\* What a thread does itself.
LEMMA OwnStep ==
  ASSUME ThreadsInv, NEW t \in AllThreads, Enter(t) \/ Sleep(t) \/ Wake(t) \/ Return(t)
  PROVE  ThreadsInv'
<1> USE DEF ThreadsInv, ThreadsTypeOK, StopsUntilStarted, HandledRightly, States
<1>1. CASE Enter(t)
  BY <1>1 DEF Enter
<1>2. CASE Sleep(t)
  BY <1>2 DEF Sleep
<1>3. CASE Wake(t)
  BY <1>3 DEF Wake, Woken
<1>4. CASE Return(t)
  BY <1>4 DEF Return
<1> QED
  BY <1>1, <1>2, <1>3, <1>4

\* However suspend, start, delete and the end of a sleep fall together, and
\* however many handles the program has.
THEOREM StopHolds == ThreadsSpec => []ThreadsInv
<1>1. ThreadsInv /\ [ThreadsNext]_threadVars => ThreadsInv'
  <2> SUFFICES ASSUME ThreadsInv, [ThreadsNext]_threadVars
               PROVE  ThreadsInv'
    OBVIOUS
  <2>1. CASE UNCHANGED threadVars
    BY <2>1
    DEF threadVars, ThreadsInv, ThreadsTypeOK, StopsUntilStarted, HandledRightly
  <2> QED
    BY <2>1, CreateStep, HandleStep, OwnStep DEF ThreadsNext
<1> QED
  BY <1>1, ThreadsStart, PTL DEF ThreadsSpec

-----------------------------------------------------------------------------
(* The bus and the board.                                                  *)

\* What interrupt::free saves: of a transaction, of the use of the board, and
\* of the transaction inside it.
Alone == [cell |-> "bus", primask |-> 0]
Outer == [cell |-> "BOARD", primask |-> 0]
Inner == [cell |-> "bus", primask |-> 1]

\* How far the running thread is in its calls, with what is saved and borrowed.
Here == <<done[current], saved[current], borrowed>>

\* Inside a transaction with nothing around it, and inside the use of the
\* board, before, in and after the transaction.
TransactionPlaces ==
  {<<1, {Alone}, {}>>, <<2, {Alone}, {"bus"}>>, <<3, {Alone}, {"bus"}>>, <<4, {Alone}, {}>>}

BoardPlaces ==
  {<<1, {Outer}, {}>>, <<2, {Outer}, {"BOARD"}>>,
   <<3, {Outer, Inner}, {"BOARD"}>>, <<4, {Outer, Inner}, {"BOARD", "bus"}>>,
   <<5, {Outer, Inner}, {"BOARD", "bus"}>>, <<6, {Outer, Inner}, {"BOARD"}>>,
   <<7, {Outer}, {"BOARD"}>>, <<8, {Outer}, {}>>}

Outside(th) == done[th] = 0 /\ saved[th] = {}

\* What a step preserves: only the thread that runs is inside, with interrupts
\* masked.
BusInv ==
  /\ current \in BusThreads
  /\ done \in [BusThreads -> Nat]
  /\ saved \in [BusThreads -> SUBSET {Alone, Outer, Inner}]
  /\ ~busPanicked
  /\ \A th \in BusThreads \ {current} : Outside(th)
  /\ \/ primask = 0 /\ Outside(current) /\ borrowed = {}
     \/ primask = 1 /\ Here \in IF current \in Readers THEN BoardPlaces ELSE TransactionPlaces

\* The calls of the two programs, one by one.
LEMMA TransactionCalls ==
  /\ Len(Transaction) = 5
  /\ Transaction[1] = Free("bus") /\ Transaction[2] = Borrow("bus") /\ Transaction[3] = Transact
  /\ Transaction[4] = GiveBack("bus") /\ Transaction[5] = End("bus")
<1> HIDE DEF Free, Borrow, Transact, GiveBack, End
<1> QED
  BY DEF Transaction

LEMMA BoardCalls ==
  /\ Len(ReadTemperature) = 9
  /\ ReadTemperature[1] = Free("BOARD") /\ ReadTemperature[2] = Borrow("BOARD")
  /\ ReadTemperature[3] = Free("bus") /\ ReadTemperature[4] = Borrow("bus")
  /\ ReadTemperature[5] = Transact
  /\ ReadTemperature[6] = GiveBack("bus") /\ ReadTemperature[7] = End("bus")
  /\ ReadTemperature[8] = GiveBack("BOARD") /\ ReadTemperature[9] = End("BOARD")
<1> HIDE DEF Free, Borrow, Transact, GiveBack, End
<1> QED
  BY DEF ReadTemperature

\* What a call does, whichever it is.
LEMMA CallEffect ==
  ASSUME BusInv, Continue(current), UNCHANGED current,
         NEW call, call = Program(current)[done[current] + 1]
  PROVE  /\ done' = [done EXCEPT ![current] = (@ + 1) % Len(Program(current))]
         /\ call.op = "free" =>
              /\ saved' = [saved EXCEPT ![current] =
                             @ \cup {[cell |-> call.cell, primask |-> primask]}]
              /\ primask' = 1 /\ borrowed' = borrowed /\ busPanicked' = busPanicked
         /\ call.op = "borrow" =>
              /\ busPanicked' = (call.cell \in borrowed)
              /\ borrowed' = borrowed \cup {call.cell}
              /\ primask' = primask /\ saved' = saved
         /\ call.op = "transact" =>
              primask' = primask /\ saved' = saved /\ borrowed' = borrowed
                /\ busPanicked' = busPanicked
         /\ call.op = "return" =>
              /\ borrowed' = borrowed \ {call.cell}
              /\ primask' = primask /\ saved' = saved /\ busPanicked' = busPanicked
         /\ call.op = "end" =>
              /\ \E frame \in saved[current] :
                   /\ frame.cell = call.cell
                   /\ primask' = frame.primask
                   /\ saved' = [saved EXCEPT ![current] = @ \ {frame}]
              /\ borrowed' = borrowed /\ busPanicked' = busPanicked
  BY DEF Continue, Unmasked

\* The threads that do not run stay outside.
LEMMA OthersOutside ==
  ASSUME BusInv, UNCHANGED current, NEW k \in Nat, NEW frames \in SUBSET {Alone, Outer, Inner},
         done' = [done EXCEPT ![current] = k], saved' = [saved EXCEPT ![current] = frames]
  PROVE  /\ current' \in BusThreads /\ done' \in [BusThreads -> Nat]
         /\ saved' \in [BusThreads -> SUBSET {Alone, Outer, Inner}]
         /\ done'[current'] = k /\ saved'[current'] = frames
         /\ \A th \in BusThreads \ {current'} : Outside(th)'
  BY DEF BusInv, Outside

\* A thread outside, or inside a transaction of its own, makes its next call.
LEMMA TransactionStep ==
  ASSUME BusInv, Continue(current), UNCHANGED current, current \notin Readers
  PROVE  BusInv'
<1> DEFINE call == Program(current)[done[current] + 1]
<1>1. /\ current \in BusThreads /\ done \in [BusThreads -> Nat]
      /\ saved \in [BusThreads -> SUBSET {Alone, Outer, Inner}] /\ ~busPanicked
  BY DEF BusInv
<1>2. Program(current) = Transaction /\ Len(Program(current)) = 5
  BY TransactionCalls DEF Program
<1>3. PICK k \in Nat, frames \in SUBSET {Alone, Outer, Inner} :
        /\ done' = [done EXCEPT ![current] = k] /\ saved' = [saved EXCEPT ![current] = frames]
        /\ ~busPanicked'
        /\ \/ primask' = 0 /\ k = 0 /\ frames = {} /\ borrowed' = {}
           \/ primask' = 1 /\ <<k, frames, borrowed'>> \in TransactionPlaces
  <2>1. CASE primask = 0
    <3>1. done[current] = 0 /\ saved[current] = {} /\ borrowed = {}
      BY <2>1 DEF BusInv, Outside
    <3>2. call.op = "free" /\ call.cell = "bus"
      BY <1>2, <3>1, TransactionCalls DEF Free
    <3>3. done' = [done EXCEPT ![current] = 1]
      BY <1>1, <1>2, <3>1, CallEffect
    <3>4. /\ saved' = [saved EXCEPT ![current] = {Alone}]
          /\ primask' = 1 /\ borrowed' = {} /\ ~busPanicked'
      BY <1>1, <2>1, <3>1, <3>2, CallEffect DEF Alone, Outer, Inner
    <3> QED
      BY <3>3, <3>4 DEF TransactionPlaces
  <2>2. CASE primask = 1 /\ Here = <<1, {Alone}, {}>>
    <3>1. done[current] = 1 /\ saved[current] = {Alone} /\ borrowed = {}
      BY <2>2 DEF Here
    <3>2. call.op = "borrow" /\ call.cell = "bus"
      BY <1>2, <3>1, TransactionCalls DEF Borrow
    <3>3. done' = [done EXCEPT ![current] = 2]
      BY <1>1, <1>2, <3>1, CallEffect
    <3>4. /\ saved' = [saved EXCEPT ![current] = {Alone}]
          /\ primask' = 1 /\ borrowed' = {"bus"} /\ ~busPanicked'
      BY <1>1, <2>2, <3>1, <3>2, CallEffect DEF Alone, Outer, Inner
    <3> QED
      BY <3>3, <3>4 DEF TransactionPlaces
  <2>3. CASE primask = 1 /\ Here = <<2, {Alone}, {"bus"}>>
    <3>1. done[current] = 2 /\ saved[current] = {Alone} /\ borrowed = {"bus"}
      BY <2>3 DEF Here
    <3>2. call.op = "transact" /\ call.cell = "bus"
      BY <1>2, <3>1, TransactionCalls DEF Transact
    <3>3. done' = [done EXCEPT ![current] = 3]
      BY <1>1, <1>2, <3>1, CallEffect
    <3>4. /\ saved' = [saved EXCEPT ![current] = {Alone}]
          /\ primask' = 1 /\ borrowed' = {"bus"} /\ ~busPanicked'
      BY <1>1, <2>3, <3>1, <3>2, CallEffect DEF Alone, Outer, Inner
    <3> QED
      BY <3>3, <3>4 DEF TransactionPlaces
  <2>4. CASE primask = 1 /\ Here = <<3, {Alone}, {"bus"}>>
    <3>1. done[current] = 3 /\ saved[current] = {Alone} /\ borrowed = {"bus"}
      BY <2>4 DEF Here
    <3>2. call.op = "return" /\ call.cell = "bus"
      BY <1>2, <3>1, TransactionCalls DEF GiveBack
    <3>3. done' = [done EXCEPT ![current] = 4]
      BY <1>1, <1>2, <3>1, CallEffect
    <3>4. /\ saved' = [saved EXCEPT ![current] = {Alone}]
          /\ primask' = 1 /\ borrowed' = {} /\ ~busPanicked'
      BY <1>1, <2>4, <3>1, <3>2, CallEffect DEF Alone, Outer, Inner
    <3> QED
      BY <3>3, <3>4 DEF TransactionPlaces
  <2>5. CASE primask = 1 /\ Here = <<4, {Alone}, {}>>
    <3>1. done[current] = 4 /\ saved[current] = {Alone} /\ borrowed = {}
      BY <2>5 DEF Here
    <3>2. call.op = "end" /\ call.cell = "bus"
      BY <1>2, <3>1, TransactionCalls DEF End
    <3>3. done' = [done EXCEPT ![current] = 0]
      BY <1>1, <1>2, <3>1, CallEffect
    <3>4. /\ saved' = [saved EXCEPT ![current] = {}]
          /\ primask' = 0 /\ borrowed' = {} /\ ~busPanicked'
      BY <1>1, <2>5, <3>1, <3>2, CallEffect DEF Alone, Outer, Inner
    <3> QED
      BY <3>3, <3>4 DEF TransactionPlaces
  <2> QED
    BY <2>1, <2>2, <2>3, <2>4, <2>5 DEF BusInv, TransactionPlaces
<1>4. /\ current' \in BusThreads /\ done' \in [BusThreads -> Nat]
      /\ saved' \in [BusThreads -> SUBSET {Alone, Outer, Inner}]
      /\ done'[current'] = k /\ saved'[current'] = frames
      /\ \A th \in BusThreads \ {current'} : Outside(th)'
  BY <1>3, OthersOutside
<1>5. \/ primask' = 0 /\ Outside(current)' /\ borrowed' = {}
      \/ primask' = 1 /\ Here' \in TransactionPlaces
  BY <1>3, <1>4 DEF Outside, Here
<1> QED
  BY <1>3, <1>4, <1>5 DEF BusInv

\* The same of a thread that reads the sensor in BOARD.
LEMMA ReaderStep ==
  ASSUME BusInv, Continue(current), UNCHANGED current, current \in Readers
  PROVE  BusInv'
<1> DEFINE call == Program(current)[done[current] + 1]
<1>1. /\ current \in BusThreads /\ done \in [BusThreads -> Nat]
      /\ saved \in [BusThreads -> SUBSET {Alone, Outer, Inner}] /\ ~busPanicked
  BY DEF BusInv
<1>2. Program(current) = ReadTemperature /\ Len(Program(current)) = 9
  BY BoardCalls DEF Program
<1>3. PICK k \in Nat, frames \in SUBSET {Alone, Outer, Inner} :
        /\ done' = [done EXCEPT ![current] = k] /\ saved' = [saved EXCEPT ![current] = frames]
        /\ ~busPanicked'
        /\ \/ primask' = 0 /\ k = 0 /\ frames = {} /\ borrowed' = {}
           \/ primask' = 1 /\ <<k, frames, borrowed'>> \in BoardPlaces
  <2>1. CASE primask = 0
    <3>1. done[current] = 0 /\ saved[current] = {} /\ borrowed = {}
      BY <2>1 DEF BusInv, Outside
    <3>2. call.op = "free" /\ call.cell = "BOARD"
      BY <1>2, <3>1, BoardCalls DEF Free
    <3>3. done' = [done EXCEPT ![current] = 1]
      BY <1>1, <1>2, <3>1, CallEffect
    <3>4. /\ saved' = [saved EXCEPT ![current] = {Outer}]
          /\ primask' = 1 /\ borrowed' = {} /\ ~busPanicked'
      BY <1>1, <2>1, <3>1, <3>2, CallEffect DEF Alone, Outer, Inner
    <3> QED
      BY <3>3, <3>4 DEF BoardPlaces
  <2>2. CASE primask = 1 /\ Here = <<1, {Outer}, {}>>
    <3>1. done[current] = 1 /\ saved[current] = {Outer} /\ borrowed = {}
      BY <2>2 DEF Here
    <3>2. call.op = "borrow" /\ call.cell = "BOARD"
      BY <1>2, <3>1, BoardCalls DEF Borrow
    <3>3. done' = [done EXCEPT ![current] = 2]
      BY <1>1, <1>2, <3>1, CallEffect
    <3>4. /\ saved' = [saved EXCEPT ![current] = {Outer}]
          /\ primask' = 1 /\ borrowed' = {"BOARD"} /\ ~busPanicked'
      BY <1>1, <2>2, <3>1, <3>2, CallEffect DEF Alone, Outer, Inner
    <3> QED
      BY <3>3, <3>4 DEF BoardPlaces
  <2>3. CASE primask = 1 /\ Here = <<2, {Outer}, {"BOARD"}>>
    <3>1. done[current] = 2 /\ saved[current] = {Outer} /\ borrowed = {"BOARD"}
      BY <2>3 DEF Here
    <3>2. call.op = "free" /\ call.cell = "bus"
      BY <1>2, <3>1, BoardCalls DEF Free
    <3>3. done' = [done EXCEPT ![current] = 3]
      BY <1>1, <1>2, <3>1, CallEffect
    <3>4. /\ saved' = [saved EXCEPT ![current] = {Outer, Inner}]
          /\ primask' = 1 /\ borrowed' = {"BOARD"} /\ ~busPanicked'
      BY <1>1, <2>3, <3>1, <3>2, CallEffect DEF Alone, Outer, Inner
    <3> QED
      BY <3>3, <3>4 DEF BoardPlaces
  <2>4. CASE primask = 1 /\ Here = <<3, {Outer, Inner}, {"BOARD"}>>
    <3>1. done[current] = 3 /\ saved[current] = {Outer, Inner} /\ borrowed = {"BOARD"}
      BY <2>4 DEF Here
    <3>2. call.op = "borrow" /\ call.cell = "bus"
      BY <1>2, <3>1, BoardCalls DEF Borrow
    <3>3. done' = [done EXCEPT ![current] = 4]
      BY <1>1, <1>2, <3>1, CallEffect
    <3>4. /\ saved' = [saved EXCEPT ![current] = {Outer, Inner}]
          /\ primask' = 1 /\ borrowed' = {"BOARD", "bus"} /\ ~busPanicked'
      BY <1>1, <2>4, <3>1, <3>2, CallEffect DEF Alone, Outer, Inner
    <3> QED
      BY <3>3, <3>4 DEF BoardPlaces
  <2>5. CASE primask = 1 /\ Here = <<4, {Outer, Inner}, {"BOARD", "bus"}>>
    <3>1. done[current] = 4 /\ saved[current] = {Outer, Inner} /\ borrowed = {"BOARD", "bus"}
      BY <2>5 DEF Here
    <3>2. call.op = "transact" /\ call.cell = "bus"
      BY <1>2, <3>1, BoardCalls DEF Transact
    <3>3. done' = [done EXCEPT ![current] = 5]
      BY <1>1, <1>2, <3>1, CallEffect
    <3>4. /\ saved' = [saved EXCEPT ![current] = {Outer, Inner}]
          /\ primask' = 1 /\ borrowed' = {"BOARD", "bus"} /\ ~busPanicked'
      BY <1>1, <2>5, <3>1, <3>2, CallEffect DEF Alone, Outer, Inner
    <3> QED
      BY <3>3, <3>4 DEF BoardPlaces
  <2>6. CASE primask = 1 /\ Here = <<5, {Outer, Inner}, {"BOARD", "bus"}>>
    <3>1. done[current] = 5 /\ saved[current] = {Outer, Inner} /\ borrowed = {"BOARD", "bus"}
      BY <2>6 DEF Here
    <3>2. call.op = "return" /\ call.cell = "bus"
      BY <1>2, <3>1, BoardCalls DEF GiveBack
    <3>3. done' = [done EXCEPT ![current] = 6]
      BY <1>1, <1>2, <3>1, CallEffect
    <3>4. /\ saved' = [saved EXCEPT ![current] = {Outer, Inner}]
          /\ primask' = 1 /\ borrowed' = {"BOARD"} /\ ~busPanicked'
      BY <1>1, <2>6, <3>1, <3>2, CallEffect DEF Alone, Outer, Inner
    <3> QED
      BY <3>3, <3>4 DEF BoardPlaces
  <2>7. CASE primask = 1 /\ Here = <<6, {Outer, Inner}, {"BOARD"}>>
    <3>1. done[current] = 6 /\ saved[current] = {Outer, Inner} /\ borrowed = {"BOARD"}
      BY <2>7 DEF Here
    <3>2. call.op = "end" /\ call.cell = "bus"
      BY <1>2, <3>1, BoardCalls DEF End
    <3>3. done' = [done EXCEPT ![current] = 7]
      BY <1>1, <1>2, <3>1, CallEffect
    <3>4. /\ saved' = [saved EXCEPT ![current] = {Outer}]
          /\ primask' = 1 /\ borrowed' = {"BOARD"} /\ ~busPanicked'
      BY <1>1, <2>7, <3>1, <3>2, CallEffect DEF Alone, Outer, Inner
    <3> QED
      BY <3>3, <3>4 DEF BoardPlaces
  <2>8. CASE primask = 1 /\ Here = <<7, {Outer}, {"BOARD"}>>
    <3>1. done[current] = 7 /\ saved[current] = {Outer} /\ borrowed = {"BOARD"}
      BY <2>8 DEF Here
    <3>2. call.op = "return" /\ call.cell = "BOARD"
      BY <1>2, <3>1, BoardCalls DEF GiveBack
    <3>3. done' = [done EXCEPT ![current] = 8]
      BY <1>1, <1>2, <3>1, CallEffect
    <3>4. /\ saved' = [saved EXCEPT ![current] = {Outer}]
          /\ primask' = 1 /\ borrowed' = {} /\ ~busPanicked'
      BY <1>1, <2>8, <3>1, <3>2, CallEffect DEF Alone, Outer, Inner
    <3> QED
      BY <3>3, <3>4 DEF BoardPlaces
  <2>9. CASE primask = 1 /\ Here = <<8, {Outer}, {}>>
    <3>1. done[current] = 8 /\ saved[current] = {Outer} /\ borrowed = {}
      BY <2>9 DEF Here
    <3>2. call.op = "end" /\ call.cell = "BOARD"
      BY <1>2, <3>1, BoardCalls DEF End
    <3>3. done' = [done EXCEPT ![current] = 0]
      BY <1>1, <1>2, <3>1, CallEffect
    <3>4. /\ saved' = [saved EXCEPT ![current] = {}]
          /\ primask' = 0 /\ borrowed' = {} /\ ~busPanicked'
      BY <1>1, <2>9, <3>1, <3>2, CallEffect DEF Alone, Outer, Inner
    <3> QED
      BY <3>3, <3>4 DEF BoardPlaces
  <2> QED
    BY <2>1, <2>2, <2>3, <2>4, <2>5, <2>6, <2>7, <2>8, <2>9 DEF BusInv, BoardPlaces
<1>4. /\ current' \in BusThreads /\ done' \in [BusThreads -> Nat]
      /\ saved' \in [BusThreads -> SUBSET {Alone, Outer, Inner}]
      /\ done'[current'] = k /\ saved'[current'] = frames
      /\ \A th \in BusThreads \ {current'} : Outside(th)'
  BY <1>3, OthersOutside
<1>5. \/ primask' = 0 /\ Outside(current)' /\ borrowed' = {}
      \/ primask' = 1 /\ Here' \in BoardPlaces
  BY <1>3, <1>4 DEF Outside, Here
<1> QED
  BY <1>3, <1>4, <1>5 DEF BusInv

\* However many threads use the bus and the board: no cell is found borrowed,
\* and interrupts are masked inside the calls and only there.
THEOREM BusIsSafe == BusSpec => []BusSafe
<1>1. BusInit => BusInv
  <2> SUFFICES ASSUME BusInit PROVE BusInv
    OBVIOUS
  <2>1. done \in [BusThreads -> Nat] /\ saved \in [BusThreads -> SUBSET {Alone, Outer, Inner}]
    BY DEF BusInit
  <2>2. \A th \in BusThreads : Outside(th)
    BY DEF BusInit, Outside
  <2> QED
    BY <2>1, <2>2 DEF BusInit, BusInv
<1>2. BusInv /\ [BusNext]_busVars => BusInv'
  <2> SUFFICES ASSUME BusInv, [BusNext]_busVars
               PROVE  BusInv'
    OBVIOUS
  <2>1. CASE UNCHANGED busVars
    BY <2>1 DEF busVars, BusInv, Outside, Here
  <2>2. ASSUME NEW th \in BusThreads, Switch(th)
        PROVE  BusInv'
    <3>1. /\ primask = 0 /\ current' = th
          /\ UNCHANGED <<primask, saved, borrowed, done, busPanicked>>
      BY <2>2 DEF Switch
    <3>2. borrowed = {} /\ \A w \in BusThreads : Outside(w)
      BY <3>1 DEF BusInv
    <3> QED
      BY <3>1, <3>2 DEF BusInv, Outside
  <2> QED
    BY <2>1, <2>2, TransactionStep, ReaderStep DEF BusNext
<1>3. BusInv => BusSafe
  <2> SUFFICES ASSUME BusInv PROVE BusSafe
    OBVIOUS
  <2>1. primask = 1 => saved[current] # {}
    BY DEF BusInv, Here, TransactionPlaces, BoardPlaces
  <2> QED
    BY <2>1 DEF BusInv, Outside, BusSafe, NeverBorrowedTwice, MaskedInside
<1> QED
  BY <1>1, <1>2, <1>3, PTL DEF BusSpec

-----------------------------------------------------------------------------
(* The start of the programs.                                              *)

\* Which callbacks a program has, and how many steps each.
LEMMA CallbackSteps ==
  ASSUME NEW a \in Apps
  PROVE  /\ Callbacks(a)[1] = EnterKernel /\ Len(EnterKernel) = 3
         /\ Callbacks(a)[2] = LowLevelInit /\ Len(LowLevelInit) = 6
         /\ a \in {"event_flag", "queue"} => Callbacks(a)[3] = DropBoard
         /\ a \in {"executor", "network"} => Callbacks(a)[3] = StoreBoard
         /\ Len(DropBoard) = 3 /\ Len(StoreBoard) = 1
         /\ a = "event_flag" => Callbacks(a)[4] = EventFlagDefine
         /\ a = "queue" => Callbacks(a)[4] = QueueDefine
         /\ a = "executor" => Callbacks(a)[4] = ExecutorDefine
         /\ a = "network" => Callbacks(a)[4] = NetworkDefine
         /\ Len(EventFlagDefine) = 11 /\ Len(QueueDefine) = 9
         /\ Len(ExecutorDefine) = 6 /\ Len(NetworkDefine) = 10
<1>1. Len(EnterKernel) = 3 /\ Len(LowLevelInit) = 6 /\ Len(DropBoard) = 3 /\ Len(StoreBoard) = 1
  BY DEF EnterKernel, LowLevelInit, DropBoard, StoreBoard
<1>2. Len(EventFlagDefine) = 11 /\ Len(QueueDefine) = 9
  BY DEF EventFlagDefine, QueueDefine
<1>3. Len(ExecutorDefine) = 6 /\ Len(NetworkDefine) = 10
  BY DEF ExecutorDefine, NetworkDefine
<1> QED
  BY <1>1, <1>2, <1>3 DEF Apps, Callbacks

\* The start goes through the callbacks step by step.
LEMMA Positions ==
  ASSUME BootTypeOK, Starting, NEW n \in Nat \ {0}, Len(Callbacks(app)[stage]) = n
  PROVE  /\ app' = app /\ running' = running /\ position \in 1 .. n
         /\ position < n => stage' = stage /\ position' = position + 1
         /\ position = n => stage' = stage + 1 /\ position' = 1
         /\ BootTypeOK'
<1>1. /\ app' = app /\ running' = running /\ position \in 1 .. n
      /\ position < n => stage' = stage /\ position' = position + 1
      /\ position = n => stage' = stage + 1 /\ position' = 1
      /\ app \in Apps /\ stage \in 1 .. 4
  BY DEF BootTypeOK, Starting
<1>2. stage < 4 => Len(Callbacks(app)[stage + 1]) \in Nat \ {0}
  <2>1. CASE stage = 1
    <3>1. stage + 1 = 2 /\ 6 \in Nat \ {0}
      BY <2>1
    <3>2. Callbacks(app)[2] = LowLevelInit /\ Len(LowLevelInit) = 6
      BY <1>1, CallbackSteps
    <3> QED
      BY <3>1, <3>2, Zenon
  <2>2. CASE stage = 2
    <3>1. stage + 1 = 3 /\ 3 \in Nat \ {0} /\ 1 \in Nat \ {0}
      BY <2>2
    <3>2. Callbacks(app)[3] = DropBoard \/ Callbacks(app)[3] = StoreBoard
      BY <1>1, CallbackSteps DEF Apps
    <3>3. Len(DropBoard) = 3 /\ Len(StoreBoard) = 1
      BY <1>1, CallbackSteps
    <3> QED
      BY <3>1, <3>2, <3>3, Zenon
  <2>3. CASE stage = 3
    <3>1. stage + 1 = 4 /\ {6, 9, 10, 11} \subseteq Nat \ {0}
      BY <2>3
    <3>2. \/ Callbacks(app)[4] = EventFlagDefine
          \/ Callbacks(app)[4] = QueueDefine
          \/ Callbacks(app)[4] = ExecutorDefine
          \/ Callbacks(app)[4] = NetworkDefine
      BY <1>1, CallbackSteps DEF Apps
    <3>3. /\ Len(EventFlagDefine) = 11 /\ Len(QueueDefine) = 9
          /\ Len(ExecutorDefine) = 6 /\ Len(NetworkDefine) = 10
      BY <1>1, CallbackSteps
    <3> QED
      BY <3>1, <3>2, <3>3, Zenon
  <2> QED
    BY <1>1, <2>1, <2>2, <2>3
<1>3. CASE position < n
  BY <1>1, <1>3 DEF BootTypeOK
<1>4. CASE position = n
  BY <1>1, <1>2, <1>4 DEF BootTypeOK
<1> QED
  BY <1>1, <1>3, <1>4

\* Builder::initialize stores both callbacks, then enters the kernel.
LEMMA EnterKernelStep ==
  ASSUME BootInv, stage = 1, Starting
  PROVE  BootInv'
<1> USE DEF BootInv
<1>1. Callbacks(app)[1] = EnterKernel /\ Len(EnterKernel) = 3
  BY CallbackSteps DEF BootTypeOK
<1>2. /\ app' = app /\ running' = running /\ position \in 1 .. 3
      /\ position < 3 => stage' = 1 /\ position' = position + 1
      /\ position = 3 => stage' = 2 /\ position' = 1
      /\ BootTypeOK'
  BY <1>1, Positions
<1>3. made' = made \cup {<<"INIT_CB", "DEFINE_CB", "kernel">>[position]} /\ room' = room
  BY <1>1, <1>2 DEF Starting, EnterKernel, Make, Step
<1>4. KernelReady' /\ BoardReady' /\ ObjectsReady'
  BY <1>2, <1>3 DEF KernelReady, BoardReady, ObjectsReady, Past
<1>5. RoomLeft' /\ ThreadsLast'
  BY <1>2, <1>3 DEF RoomLeft, ThreadsLast, RunsCode
<1> QED
  BY <1>2, <1>4, <1>5

\* The board sets up its clocks, its bus, its sensor and its display.
LEMMA LowLevelInitStep ==
  ASSUME BootInv, stage = 2, Starting
  PROVE  BootInv'
<1> USE DEF BootInv
<1>1. Callbacks(app)[2] = LowLevelInit /\ Len(LowLevelInit) = 6
  BY CallbackSteps DEF BootTypeOK
<1>2. /\ app' = app /\ running' = running /\ position \in 1 .. 6
      /\ position < 6 => stage' = 2 /\ position' = position + 1
      /\ position = 6 => stage' = 3 /\ position' = 1
      /\ BootTypeOK'
  BY <1>1, Positions
<1>3. /\ made' = made \cup {<<"clocks", "SysTick", "i2c_bus", "temp_sensor", "display", "priorities">>[position]}
      /\ room' = room
  BY <1>1, <1>2 DEF Starting, LowLevelInit, Make, Step
<1>4. KernelReady' /\ BoardReady' /\ ObjectsReady'
  BY <1>2, <1>3 DEF KernelReady, BoardReady, ObjectsReady, Past
<1>5. RoomLeft' /\ ThreadsLast'
  BY <1>2, <1>3 DEF RoomLeft, ThreadsLast, RunsCode
<1> QED
  BY <1>2, <1>4, <1>5

\* Programs that need no board let it go.
LEMMA DropBoardStep ==
  ASSUME BootInv, stage = 3, app \in {"event_flag", "queue"}, Starting
  PROVE  BootInv'
<1> USE DEF BootInv
<1>1. Callbacks(app)[3] = DropBoard /\ Len(DropBoard) = 3
  BY CallbackSteps DEF BootTypeOK
<1>2. /\ app' = app /\ running' = running /\ position \in 1 .. 3
      /\ position < 3 => stage' = 3 /\ position' = position + 1
      /\ position = 3 => stage' = 4 /\ position' = 1
      /\ BootTypeOK'
  BY <1>1, Positions
<1>3. made' = made \ {<<"temp_sensor", "display", "i2c_bus">>[position]} /\ room' = room
  BY <1>1, <1>2 DEF Starting, DropBoard, Move, Step
<1>4. KernelReady' /\ BoardReady' /\ ObjectsReady'
  BY <1>2, <1>3 DEF KernelReady, BoardReady, ObjectsReady, Past
<1>5. RoomLeft' /\ ThreadsLast'
  BY <1>2, <1>3 DEF RoomLeft, ThreadsLast, RunsCode
<1> QED
  BY <1>2, <1>4, <1>5

\* The others store it for their threads.
LEMMA StoreBoardStep ==
  ASSUME BootInv, stage = 3, app \in {"executor", "network"}, Starting
  PROVE  BootInv'
<1> USE DEF BootInv
<1>1. Callbacks(app)[3] = StoreBoard /\ Len(StoreBoard) = 1
  BY CallbackSteps DEF BootTypeOK
<1>2. /\ app' = app /\ running' = running /\ position = 1
      /\ stage' = 4 /\ position' = 1
      /\ BootTypeOK'
  BY <1>1, Positions
<1>3. made' = made \cup {"BOARD"} /\ room' = room
  BY <1>1, <1>2 DEF Starting, StoreBoard, Make, Step
<1>4. KernelReady' /\ BoardReady' /\ ObjectsReady'
  BY <1>2, <1>3 DEF KernelReady, BoardReady, ObjectsReady, Past
<1>5. RoomLeft' /\ ThreadsLast'
  BY <1>2, <1>3 DEF RoomLeft, ThreadsLast, RunsCode
<1> QED
  BY <1>2, <1>4, <1>5

\* What the steps of the definitions use, make and take from the byte pool.
LEMMA StepFields ==
  /\ Called.uses = {} /\ Called.makes = {} /\ Called.pool = 0 /\ Called.bytes = 0
  /\ \A n : /\ NewPool(n).uses = {} /\ NewPool(n).makes = {"pool"}
            /\ NewPool(n).pool = n /\ NewPool(n).bytes = 0
  /\ \A n : /\ FromPool(n).uses = {} /\ FromPool(n).makes = {}
            /\ FromPool(n).pool = 0 /\ FromPool(n).bytes = n
  /\ \A needs, thing : /\ Make(needs, thing).uses = {} /\ Make(needs, thing).makes = {thing}
                       /\ Make(needs, thing).pool = 0 /\ Make(needs, thing).bytes = 0
  /\ \A thing : /\ Thread(thing).uses = {} /\ Thread(thing).makes = {thing}
                /\ Thread(thing).pool = 0 /\ Thread(thing).bytes = 0
  BY DEF Called, NewPool, FromPool, Make, Thread, Step

\* bin/event_flag.rs: three stacks of the byte pool, a group, a timer and
\* three threads.
LEMMA EventFlagStep ==
  ASSUME BootInv, stage = 4, app = "event_flag", Starting
  PROVE  BootInv'
<1> USE DEF BootInv
<1>1. Callbacks(app)[stage] = EventFlagDefine /\ Len(Callbacks(app)[stage]) = 11
  BY CallbackSteps DEF BootTypeOK
<1>2. /\ app' = app /\ running' = running /\ position \in 1 .. 11
      /\ position < 11 => stage' = 4 /\ position' = position + 1
      /\ position = 11 => stage' = 5 /\ position' = 1
      /\ BootTypeOK'
  <2>1. 11 \in Nat \ {0} /\ stage + 1 = 5
    OBVIOUS
  <2> QED
    BY <1>1, <2>1, Positions, Zenon
<1>e. /\ EventFlagDefine[1] = Called
      /\ EventFlagDefine[2] = NewPool(1024)
      /\ \A i \in 3 .. 5 : EventFlagDefine[i] = FromPool(256)
      /\ EventFlagDefine[6] = Make({}, "allocator")
      /\ EventFlagDefine[7] = Make({}, "event_group")
      /\ EventFlagDefine[8] = Make({"allocator", "event_group"}, "timer")
      /\ EventFlagDefine[9] = Thread("thread1")
      /\ EventFlagDefine[10] = Thread("thread2")
      /\ EventFlagDefine[11] = Thread("thread3")
  BY DEF EventFlagDefine
<1> DEFINE thing == << "none", "pool", "none", "none", "none", "allocator", "event_group",
                       "timer", "thread1", "thread2", "thread3" >>
<1>3. /\ position \in {1, 3, 4, 5} => made' = made
      /\ position \in {2, 6, 7, 8, 9, 10, 11} => made' = made \cup {thing[position]}
  <2>1. EventFlagDefine[position].uses = {}
    BY <1>2, <1>e, StepFields
  <2>2. position \in {1, 3, 4, 5} => EventFlagDefine[position].makes = {}
    BY <1>e, StepFields
  <2>3. position \in {2, 6, 7, 8, 9, 10, 11} => EventFlagDefine[position].makes = {thing[position]}
    BY <1>e, StepFields
  <2> HIDE DEF thing
  <2> QED
    BY <1>1, <1>2, <2>1, <2>2, <2>3 DEF Starting
<1>4. room' = IF position = 2 THEN 1016 ELSE IF position \in 3 .. 5 THEN room - 264 ELSE room
  <2>1. /\ EventFlagDefine[position].pool = IF position = 2 THEN 1024 ELSE 0
        /\ EventFlagDefine[position].bytes = IF position \in 3 .. 5 THEN 256 ELSE 0
    BY <1>2, <1>e, StepFields
  <2> QED
    BY <1>1, <1>2, <2>1 DEF Starting, PoolHeader
<1>5. KernelReady' /\ BoardReady' /\ ObjectsReady'
  BY <1>2, <1>3 DEF KernelReady, BoardReady, ObjectsReady, Past
<1>6. RoomLeft'
  BY <1>2, <1>4 DEF RoomLeft
<1>7. ThreadsLast'
  BY <1>2, <1>3 DEF ThreadsLast, RunsCode, ThreadsOf
<1> QED
  BY <1>2, <1>5, <1>6, <1>7

\* bin/queue.rs: two stacks and the memory of the queue, and two threads.
LEMMA QueueStep ==
  ASSUME BootInv, stage = 4, app = "queue", Starting
  PROVE  BootInv'
<1> USE DEF BootInv
<1>1. Callbacks(app)[stage] = QueueDefine /\ Len(Callbacks(app)[stage]) = 9
  BY CallbackSteps DEF BootTypeOK
<1>2. /\ app' = app /\ running' = running /\ position \in 1 .. 9
      /\ position < 9 => stage' = 4 /\ position' = position + 1
      /\ position = 9 => stage' = 5 /\ position' = 1
      /\ BootTypeOK'
  <2>1. 9 \in Nat \ {0} /\ stage + 1 = 5
    OBVIOUS
  <2> QED
    BY <1>1, <2>1, Positions, Zenon
<1>e. /\ QueueDefine[1] = Called
      /\ QueueDefine[2] = Make({}, "allocator")
      /\ QueueDefine[3] = NewPool(1024)
      /\ \A i \in 4 .. 5 : QueueDefine[i] = FromPool(256)
      /\ QueueDefine[6] = FromPool(64)
      /\ QueueDefine[7] = Make({}, "queue")
      /\ QueueDefine[8] = Thread("sender")
      /\ QueueDefine[9] = Thread("receiver")
  BY DEF QueueDefine
<1> DEFINE thing == << "none", "allocator", "pool", "none", "none", "none", "queue", "sender",
                       "receiver" >>
<1>3. /\ position \in {1, 4, 5, 6} => made' = made
      /\ position \in {2, 3, 7, 8, 9} => made' = made \cup {thing[position]}
  <2>1. QueueDefine[position].uses = {}
    BY <1>2, <1>e, StepFields
  <2>2. position \in {1, 4, 5, 6} => QueueDefine[position].makes = {}
    BY <1>e, StepFields
  <2>3. position \in {2, 3, 7, 8, 9} => QueueDefine[position].makes = {thing[position]}
    BY <1>e, StepFields
  <2> HIDE DEF thing
  <2> QED
    BY <1>1, <1>2, <2>1, <2>2, <2>3 DEF Starting
<1>4. room' = IF position = 3 THEN 1016 ELSE IF position \in 4 .. 5 THEN room - 264
              ELSE IF position = 6 THEN room - 72 ELSE room
  <2>1. /\ QueueDefine[position].pool = IF position = 3 THEN 1024 ELSE 0
        /\ QueueDefine[position].bytes = IF position \in 4 .. 5 THEN 256 ELSE IF position = 6 THEN 64 ELSE 0
    BY <1>2, <1>e, StepFields
  <2> QED
    BY <1>1, <1>2, <2>1 DEF Starting, PoolHeader
<1>5. KernelReady' /\ BoardReady' /\ ObjectsReady'
  BY <1>2, <1>3 DEF KernelReady, BoardReady, ObjectsReady, Past
<1>6. RoomLeft'
  BY <1>2, <1>4 DEF RoomLeft
<1>7. ThreadsLast'
  BY <1>2, <1>3 DEF ThreadsLast, RunsCode, ThreadsOf
<1> QED
  BY <1>2, <1>5, <1>6, <1>7

\* bin/executor.rs: a stack, the executor and its thread.
LEMMA ExecutorStep ==
  ASSUME BootInv, stage = 4, app = "executor", Starting
  PROVE  BootInv'
<1> USE DEF BootInv
<1>1. Callbacks(app)[stage] = ExecutorDefine /\ Len(Callbacks(app)[stage]) = 6
  BY CallbackSteps DEF BootTypeOK
<1>2. /\ app' = app /\ running' = running /\ position \in 1 .. 6
      /\ position < 6 => stage' = 4 /\ position' = position + 1
      /\ position = 6 => stage' = 5 /\ position' = 1
      /\ BootTypeOK'
  <2>1. 6 \in Nat \ {0} /\ stage + 1 = 5
    OBVIOUS
  <2> QED
    BY <1>1, <2>1, Positions, Zenon
<1>3. made' = made \cup << {}, {"pool"}, {}, {"allocator"}, {"executor"}, {"executor_thread"} >>[position]
  BY <1>1, <1>2 DEF Starting, ExecutorDefine, Called, NewPool, FromPool, Thread, Make, Step
<1>4. room' = IF position = 2 THEN 2040 ELSE IF position = 3 THEN room - 1032 ELSE room
  BY <1>1, <1>2
     DEF Starting, ExecutorDefine, Called, NewPool, FromPool, Thread, Make, Step, PoolHeader
<1>5. KernelReady' /\ BoardReady' /\ ObjectsReady'
  BY <1>2, <1>3 DEF KernelReady, BoardReady, ObjectsReady, Past
<1>6. RoomLeft'
  BY <1>2, <1>4 DEF RoomLeft
<1>7. ThreadsLast'
  BY <1>2, <1>3 DEF ThreadsLast, RunsCode, ThreadsOf
<1> QED
  BY <1>2, <1>5, <1>6, <1>7

\* bin/network.rs takes the display, the sensor and the bus out of the board.
LEMMA NetworkStep ==
  ASSUME BootInv, stage = 4, app = "network", Starting
  PROVE  BootInv'
<1> USE DEF BootInv
<1>1. Callbacks(app)[stage] = NetworkDefine /\ Len(Callbacks(app)[stage]) = 10
  BY CallbackSteps DEF BootTypeOK
<1>2. /\ app' = app /\ running' = running /\ position \in 1 .. 10
      /\ position < 10 => stage' = 4 /\ position' = position + 1
      /\ position = 10 => stage' = 5 /\ position' = 1
      /\ BootTypeOK'
  <2>1. 10 \in Nat \ {0} /\ stage + 1 = 5
    OBVIOUS
  <2> QED
    BY <1>1, <2>1, Positions, Zenon
<1>e. /\ NetworkDefine[1] = Called
      /\ NetworkDefine[2] = Make({}, "allocator")
      /\ NetworkDefine[3] = Make({}, "display_mtx")
      /\ NetworkDefine[4] = Step({"BOARD", "display"}, {"display"}, {}, 0, 0)
      /\ NetworkDefine[5] = Make({"display_mtx"}, "display_ref")
      /\ NetworkDefine[6] = Step({"BOARD", "temp_sensor", "i2c_bus"}, {"temp_sensor", "i2c_bus"},
                                 {"hts221", "i2c"}, 0, 0)
      /\ NetworkDefine[7] = Make({}, "queue")
      /\ NetworkDefine[8] = Make({}, "event_group")
      /\ NetworkDefine[9] = Thread("wifi_thread")
      /\ NetworkDefine[10] = Thread("measure_thread")
  BY DEF NetworkDefine
<1>3. room' = room
  <2>1. NetworkDefine[position].pool = 0 /\ NetworkDefine[position].bytes = 0
    <3>1. CASE position = 4 \/ position = 6
      BY <1>e, <3>1 DEF Step
    <3>2. CASE position \in {1, 2, 3, 5, 7, 8, 9, 10}
      BY <1>e, <3>2, StepFields
    <3> QED
      BY <1>2, <3>1, <3>2
  <2> QED
    BY <1>1, <2>1 DEF Starting
<1> DEFINE thing == << "none", "allocator", "display_mtx", "none", "display_ref", "none",
                       "queue", "event_group", "wifi_thread", "measure_thread" >>
<1>4. /\ position = 1 => made' = made
      /\ position = 4 => made' = made \ {"display"}
      /\ position = 6 => made' = (made \ {"temp_sensor", "i2c_bus"}) \cup {"hts221", "i2c"}
      /\ position \in {2, 3, 5, 7, 8, 9, 10} => made' = made \cup {thing[position]}
  <2>1. CASE position = 1
    <3>1. NetworkDefine[position] = Called
      BY <1>e, <2>1
    <3> QED
      BY <1>1, <2>1, <3>1 DEF Starting, Called, Step
  <2>2. CASE position = 4
    <3>1. NetworkDefine[position] = Step({"BOARD", "display"}, {"display"}, {}, 0, 0)
      BY <1>e, <2>2
    <3> QED
      BY <1>1, <2>2, <3>1 DEF Starting, Step
  <2>3. CASE position = 6
    <3>1. NetworkDefine[position] =
            Step({"BOARD", "temp_sensor", "i2c_bus"}, {"temp_sensor", "i2c_bus"},
                 {"hts221", "i2c"}, 0, 0)
      BY <1>e, <2>3
    <3> QED
      BY <1>1, <2>3, <3>1 DEF Starting, Step
  <2>4. CASE position \in {2, 3, 5, 7, 8, 9, 10}
    <3>1. NetworkDefine[position].uses = {} /\ NetworkDefine[position].makes = {thing[position]}
      BY <1>e, <2>4, StepFields
    <3> HIDE DEF thing
    <3> QED
      BY <1>1, <2>4, <3>1 DEF Starting
  <2> QED
    BY <2>1, <2>2, <2>3, <2>4
<1>5. KernelReady' /\ ObjectsReady'
  BY <1>2, <1>4 DEF KernelReady, ObjectsReady, Past
<1>6. BoardReady'
  BY <1>2, <1>4 DEF BoardReady, Past
<1>7. RoomLeft'
  BY <1>2, <1>3 DEF RoomLeft
<1>8. ThreadsLast'
  BY <1>2, <1>4 DEF ThreadsLast, RunsCode, ThreadsOf
<1> QED
  BY <1>2, <1>5, <1>6, <1>7, <1>8

\* The invariant holds at the start, and each step of each program keeps it.
LEMMA BootInvariant == BootSpec => []BootInv
<1>1. BootInit => BootInv
  <2> SUFFICES ASSUME BootInit PROVE BootInv
    OBVIOUS
  <2>1. Callbacks(app)[1] = EnterKernel /\ Len(EnterKernel) = 3
    BY CallbackSteps DEF BootInit
  <2>2. BootTypeOK
    BY <2>1 DEF BootInit, BootTypeOK
  <2> QED
    BY <2>2
       DEF BootInit, BootInv, KernelReady, BoardReady, ObjectsReady, RoomLeft, ThreadsLast, Past
<1>2. BootInv /\ [BootNext]_bootVars => BootInv'
  <2> SUFFICES ASSUME BootInv, [BootNext]_bootVars PROVE BootInv'
    OBVIOUS
  <2>1. CASE Starting
    <3>1. stage \in 1 .. 4 /\ app \in Apps
      BY <2>1 DEF Starting, BootInv, BootTypeOK
    <3> QED
      BY <2>1, <3>1, EnterKernelStep, LowLevelInitStep, DropBoardStep, StoreBoardStep,
         EventFlagStep, QueueStep, ExecutorStep, NetworkStep DEF Apps
  <2>2. ASSUME NEW thread \in RunsCode, RunThread(thread)
        PROVE  BootInv'
    BY <2>2 DEF RunThread, BootInv, BootTypeOK, KernelReady, BoardReady, ObjectsReady, RoomLeft,
                ThreadsLast, Past
  <2>3. CASE UNCHANGED bootVars
    BY <2>3 DEF bootVars, BootInv, BootTypeOK, KernelReady, BoardReady, ObjectsReady, RoomLeft,
                ThreadsLast, Past
  <2> QED
    BY <2>1, <2>2, <2>3 DEF BootNext
<1> QED
  BY <1>1, <1>2, PTL DEF BootSpec

\* Each step of the start, and each closure, finds what it needs.
LEMMA BootFinds ==
  ASSUME BootInv
  PROVE  FindsItAll
<1> USE DEF BootInv
<1>1. app \in Apps /\ stage \in 1 .. 5 /\ (stage <= 4 => position \in 1 .. Len(Callbacks(app)[stage]))
  BY DEF BootTypeOK
<1>2. ASSUME stage = 1
      PROVE  Callbacks(app)[stage][position].needs \subseteq made
  <2>1. Callbacks(app)[stage] = EnterKernel /\ position \in 1 .. 3
    <3>1. Callbacks(app)[stage] = EnterKernel /\ Len(EnterKernel) = 3
      BY <1>1, <1>2, CallbackSteps
    <3> QED
      BY <1>1, <1>2, <3>1
  <2> QED
    BY <1>2, <2>1 DEF KernelReady, Past, EnterKernel, Make, Step
<1>3. ASSUME stage = 2
      PROVE  Callbacks(app)[stage][position].needs \subseteq made
  <2>1. Callbacks(app)[stage] = LowLevelInit /\ position \in 1 .. 6
    <3>1. Callbacks(app)[stage] = LowLevelInit /\ Len(LowLevelInit) = 6
      BY <1>1, <1>3, CallbackSteps
    <3> QED
      BY <1>1, <1>3, <3>1
  <2> QED
    BY <1>3, <2>1 DEF KernelReady, BoardReady, Past, LowLevelInit, Make, Step
<1>4. ASSUME stage = 3
      PROVE  Callbacks(app)[stage][position].needs \subseteq made
  <2>1. CASE app \in {"event_flag", "queue"}
    <3>1. Callbacks(app)[stage] = DropBoard /\ position \in 1 .. 3
      <4>1. Callbacks(app)[stage] = DropBoard /\ Len(DropBoard) = 3
        BY <1>1, <1>4, <2>1, CallbackSteps
      <4> QED
        BY <1>1, <1>4, <2>1, <4>1
    <3> QED
      BY <1>4, <2>1, <3>1 DEF BoardReady, Past, DropBoard, Move, Step
  <2>2. CASE app \in {"executor", "network"}
    <3>1. Callbacks(app)[stage] = StoreBoard /\ position = 1
      <4>1. Callbacks(app)[stage] = StoreBoard /\ Len(StoreBoard) = 1
        BY <1>1, <1>4, <2>2, CallbackSteps
      <4> QED
        BY <1>1, <1>4, <2>2, <4>1
    <3> QED
      BY <1>4, <2>2, <3>1 DEF BoardReady, Past, StoreBoard, Make, Step
  <2> QED
    BY <1>1, <2>1, <2>2 DEF Apps
<1>5. ASSUME stage = 4
      PROVE  Callbacks(app)[stage][position].needs \subseteq made
  <2>1. CASE app = "event_flag"
    <3>1. Callbacks(app)[stage] = EventFlagDefine /\ position \in 1 .. 11
      <4>1. Callbacks(app)[stage] = EventFlagDefine /\ Len(EventFlagDefine) = 11
        BY <1>1, <1>5, <2>1, CallbackSteps
      <4> QED
        BY <1>1, <1>5, <4>1
    <3> QED
      BY <1>5, <2>1, <3>1
         DEF KernelReady, ObjectsReady, Past, EventFlagDefine, Called, NewPool, FromPool,
             Thread, Make, Step
  <2>2. CASE app = "queue"
    <3>1. Callbacks(app)[stage] = QueueDefine /\ position \in 1 .. 9
      <4>1. Callbacks(app)[stage] = QueueDefine /\ Len(QueueDefine) = 9
        BY <1>1, <1>5, <2>2, CallbackSteps
      <4> QED
        BY <1>1, <1>5, <4>1
    <3> QED
      BY <1>5, <2>2, <3>1
         DEF KernelReady, ObjectsReady, Past, QueueDefine, Called, NewPool, FromPool,
             Thread, Make, Step
  <2>3. CASE app = "executor"
    <3>1. Callbacks(app)[stage] = ExecutorDefine /\ position \in 1 .. 6
      <4>1. Callbacks(app)[stage] = ExecutorDefine /\ Len(ExecutorDefine) = 6
        BY <1>1, <1>5, <2>3, CallbackSteps
      <4> QED
        BY <1>1, <1>5, <4>1
    <3> QED
      BY <1>5, <2>3, <3>1
         DEF KernelReady, ObjectsReady, Past, ExecutorDefine, Called, NewPool, FromPool,
             Thread, Make, Step
  <2>4. CASE app = "network"
    <3>1. Callbacks(app)[stage] = NetworkDefine /\ position \in 1 .. 10
      <4>1. Callbacks(app)[stage] = NetworkDefine /\ Len(NetworkDefine) = 10
        BY <1>1, <1>5, <2>4, CallbackSteps
      <4> QED
        BY <1>1, <1>5, <4>1
    <3> QED
      BY <1>5, <2>4, <3>1
         DEF KernelReady, ObjectsReady, Past, BoardReady, NetworkDefine, Called, Thread,
             Make, Step
  <2> QED
    BY <1>1, <2>1, <2>2, <2>3, <2>4 DEF Apps
<1>6. ASSUME NEW thread \in running
      PROVE  Uses(thread) \subseteq made
  <2>1. stage = 5 /\ thread \in ThreadsOf(app)
    BY <1>6 DEF ThreadsLast
  <2> QED
    BY <1>1, <2>1 DEF Apps, ThreadsOf, Uses, BoardReady, ObjectsReady, Past
<1> QED
  BY <1>1, <1>2, <1>3, <1>4, <1>5, <1>6 DEF FindsItAll

\* Start of the programs: every step of the start finds what it needs, each
\* thread finds what its closure uses, and the byte pool always has room, so
\* that nothing waits before there are threads.
THEOREM StartIsPrepared == BootSpec => []Prepared
<1>1. BootInv => Prepared
  BY BootFinds DEF Prepared, NeverWaits, BootInv, RoomLeft
<1> QED
  BY <1>1, BootInvariant, PTL
=============================================================================
