------------------------------ MODULE BoardBus ------------------------------
(***************************************************************************)
(* The peripherals that threads share: the I2C bus of the board in         *)
(* SHARED_BUS, and in bin/executor.rs the board itself in BOARD.  Each is  *)
(* a RefCell in a mutex of cortex_m, which is held by running with         *)
(* interrupts masked; borrow_mut panics on a cell that is borrowed.  The   *)
(* kernel switches threads only in an interrupt.                           *)
(***************************************************************************)
EXTENDS Naturals, Sequences

CONSTANTS
  Readers,  \* threads that read the sensor in BOARD
  Users     \* threads with an I2CBus of their own, for sensor and display

BusThreads == Readers \cup Users

VARIABLES
  current,     \* the thread that runs
  primask,     \* 1 while interrupts are masked
  saved,       \* of each interrupt::free a thread is in: its cell, and primask before
  borrowed,    \* cells that are borrowed
  done,        \* how many calls of its use of a cell each thread has made
  busPanicked  \* borrow_mut has found a cell borrowed

busVars == <<current, primask, saved, borrowed, done, busPanicked>>

\* The calls around the use of a cell.
Free(cell) == [op |-> "free", cell |-> cell]
Borrow(cell) == [op |-> "borrow", cell |-> cell]
Transact == [op |-> "transact", cell |-> "bus"]
GiveBack(cell) == [op |-> "return", cell |-> cell]
End(cell) == [op |-> "end", cell |-> cell]

\* Mutant of Transaction: the bus is borrowed with interrupts enabled.
TransactionBare == <<Borrow("bus"), Transact, GiveBack("bus")>>

\* transaction of I2CBus
Transaction == <<Free("bus"), Borrow("bus"), Transact, GiveBack("bus"), End("bus")>>

\* The closure of the thread of bin/executor.rs, around a transaction.
ReadTemperature ==
  <<Free("BOARD"), Borrow("BOARD"),
    Free("bus"), Borrow("bus"), Transact, GiveBack("bus"), End("bus"),
    GiveBack("BOARD"), End("BOARD")>>

Program(th) == IF th \in Readers THEN ReadTemperature ELSE Transaction

BusInit ==
  /\ current \in BusThreads
  /\ primask = 0
  /\ saved = [th \in BusThreads |-> {}]
  /\ borrowed = {}
  /\ done = [th \in BusThreads |-> 0]
  /\ busPanicked = FALSE

\* interrupt::free leaves primask as it was.
Unmasked(frame) == frame.primask

\* The next call of the use of a cell; after the last the next use begins.
Continue(th) ==
  /\ done' = [done EXCEPT ![th] = (@ + 1) % Len(Program(th))]
  /\ LET call == Program(th)[done[th] + 1]
     IN \/ /\ call.op = "free"
           /\ saved' = [saved EXCEPT ![th] = @ \cup {[cell |-> call.cell, primask |-> primask]}]
           /\ primask' = 1
           /\ UNCHANGED <<borrowed, busPanicked>>
        \/ /\ call.op = "borrow"
           /\ busPanicked' = (call.cell \in borrowed)
           /\ borrowed' = borrowed \cup {call.cell}
           /\ UNCHANGED <<primask, saved>>
        \/ /\ call.op = "transact"
           /\ UNCHANGED <<primask, saved, borrowed, busPanicked>>
        \/ /\ call.op = "return"
           /\ borrowed' = borrowed \ {call.cell}
           /\ UNCHANGED <<primask, saved, busPanicked>>
        \/ /\ call.op = "end"
           /\ \E frame \in saved[th] :
                /\ frame.cell = call.cell
                /\ primask' = Unmasked(frame)
                /\ saved' = [saved EXCEPT ![th] = @ \ {frame}]
           /\ UNCHANGED <<borrowed, busPanicked>>

Switch(th) ==
  /\ primask = 0
  /\ current' = th
  /\ UNCHANGED <<primask, saved, borrowed, done, busPanicked>>

BusNext ==
  /\ ~busPanicked
  /\ \/ Continue(current) /\ UNCHANGED current
     \/ \E th \in BusThreads : Switch(th)

BusSpec == BusInit /\ [][BusNext]_busVars

-----------------------------------------------------------------------------
(* Properties.                                                             *)

\* No thread finds a cell borrowed, wherever the kernel switches threads and
\* however the calls nest: borrow_mut never panics.
NeverBorrowedTwice == ~busPanicked

\* Interrupts are masked exactly while the running thread is inside
\* interrupt::free, and no other thread is inside then: nested calls neither
\* enable them too early nor leave them masked.
MaskedInside ==
  /\ primask = 1 <=> saved[current] # {}
  /\ \A th \in BusThreads \ {current} : saved[th] = {}

\* Both together.
BusSafe == NeverBorrowedTwice /\ MaskedInside
=============================================================================
