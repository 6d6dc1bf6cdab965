---------------------------- MODULE ExecutorInit ----------------------------
(***************************************************************************)
(* Executor::new (executor.rs), which threads may call at the same time:   *)
(* it looks at EXECUTOR_INITIALIZED, creates the mutex of SIGNALS, takes   *)
(* the StaticCell of the event flags group, creates the group and sets     *)
(* EXECUTOR_INITIALIZED.  The handle it returns is Copy, so other threads  *)
(* may use it; what they do with it here is to enter and leave the         *)
(* critical sections of block_on.                                          *)
(***************************************************************************)
EXTENDS TxMutex

VARIABLES
  executorInitialized,  \* EXECUTOR_INITIALIZED
  created,              \* kernel objects that exist: "mutex", "flags"
  signalsMutex,         \* control block of MUTEX_S
  cell,                 \* the StaticCell EXECUTOR_EVENT is taken
  at,                   \* where each thread is
  returned,             \* threads whose call of new returned an Executor
  panicked

newVars == <<executorInitialized, created, signalsMutex, cell, at, returned, panicked>>

PC == {"start", "create", "cell", "flags", "store", "user", "waiting", "critical"}

NewInit ==
  /\ executorInitialized = FALSE
  /\ created = {}
  /\ signalsMutex = Created
  /\ cell = FALSE
  /\ at = [th \in Threads |-> "start"]
  /\ returned = {}
  /\ panicked = FALSE

Goto(th, from, to) ==
  /\ ~panicked
  /\ at[th] = from
  /\ at' = [at EXCEPT ![th] = to]

Panic ==
  /\ panicked' = TRUE
  /\ UNCHANGED <<executorInitialized, created, signalsMutex, cell, at, returned>>

-----------------------------------------------------------------------------
(* Executor::new                                                           *)

\* The load of EXECUTOR_INITIALIZED: "Executor initialized twice".
Check(th) ==
  \/ /\ ~executorInitialized
     /\ Goto(th, "start", "create")
     /\ UNCHANGED <<executorInitialized, created, signalsMutex, cell, returned, panicked>>
  \/ /\ ~panicked
     /\ at[th] = "start"
     /\ executorInitialized
     /\ Panic

\* SIGNALS.initialize
CreateMutex(th) ==
  /\ Goto(th, "create", "cell")
  /\ signalsMutex' = Created
  /\ created' = created \cup {"mutex"}
  /\ UNCHANGED <<executorInitialized, cell, returned, panicked>>

\* Mutant of TakeCell: a cell that may be initialized again.
TakeCellAgain(th) ==
  /\ Goto(th, "cell", "flags")
  /\ cell' = TRUE
  /\ UNCHANGED <<executorInitialized, created, signalsMutex, returned, panicked>>

\* EXECUTOR_EVENT.init panics when the cell is already full.
TakeCell(th) ==
  \/ /\ ~cell
     /\ Goto(th, "cell", "flags")
     /\ cell' = TRUE
     /\ UNCHANGED <<executorInitialized, created, signalsMutex, returned, panicked>>
  \/ /\ ~panicked
     /\ at[th] = "cell"
     /\ cell
     /\ Panic

CreateFlags(th) ==
  /\ Goto(th, "flags", "store")
  /\ created' = created \cup {"flags"}
  /\ UNCHANGED <<executorInitialized, signalsMutex, cell, returned, panicked>>

StoreInitialized(th) ==
  /\ Goto(th, "store", "user")
  /\ executorInitialized' = TRUE
  /\ returned' = returned \cup {th}
  /\ UNCHANGED <<created, signalsMutex, cell, panicked>>

-----------------------------------------------------------------------------
(* Users of the handle.                                                    *)

\* Mutant of ReceiveHandle: the handle is at hand before new has returned.
ReceiveHandleEarly(th) ==
  /\ cell
  /\ Goto(th, "start", "user")
  /\ UNCHANGED <<executorInitialized, created, signalsMutex, cell, returned, panicked>>

\* A thread gets a copy of the handle.
ReceiveHandle(th) ==
  /\ returned # {}
  /\ Goto(th, "start", "user")
  /\ UNCHANGED <<executorInitialized, created, signalsMutex, cell, returned, panicked>>

LockSignals(th) ==
  /\ IF Available(signalsMutex, th)
     THEN Goto(th, "user", "critical") /\ signalsMutex' = Taken(signalsMutex, th)
     ELSE Goto(th, "user", "waiting") /\ signalsMutex' = Suspended(signalsMutex, th)
  /\ UNCHANGED <<executorInitialized, created, cell, returned, panicked>>

Owns(th) == signalsMutex.owner = th

\* Drop of the guard; a put by a thread that is not the owner fails, which is
\* only logged.
UnlockSignals(th) ==
  /\ ~panicked
  /\ at[th] = "critical"
  /\ IF Owns(th)
     THEN /\ signalsMutex' = Put(signalsMutex)
          /\ at' = [t \in Threads |->
                      IF t = th THEN "user"
                      ELSE IF HandsOver(signalsMutex) /\ t = Head(signalsMutex.queue)
                      THEN "critical"
                      ELSE at[t]]
     ELSE signalsMutex' = signalsMutex /\ at' = [at EXCEPT ![th] = "user"]
  /\ UNCHANGED <<executorInitialized, created, cell, returned, panicked>>

NewNext ==
  \E th \in Threads :
    \/ Check(th) \/ CreateMutex(th) \/ TakeCell(th) \/ CreateFlags(th) \/ StoreInitialized(th)
    \/ ReceiveHandle(th) \/ LockSignals(th) \/ UnlockSignals(th)

NewSpec == NewInit /\ [][NewNext]_newVars

-----------------------------------------------------------------------------
\* Type invariant; a mutex put more often than taken would break it.
NewTypeOK ==
  /\ {executorInitialized, cell, panicked} \subseteq BOOLEAN
  /\ created \subseteq {"mutex", "flags"}
  /\ signalsMutex \in ControlBlock
  /\ at \in [Threads -> PC]
  /\ returned \subseteq Threads

\* However many threads call new at the same time, one Executor is made at
\* most: the StaticCell stops the others.
OneExecutor == \A a, b \in returned : a = b

\* Whoever has the handle finds the mutex and the event flags group created.
HandleUsable ==
  \A th \in Threads :
    at[th] \in {"user", "waiting", "critical"} =>
      executorInitialized /\ created = {"mutex", "flags"}

\* Every call but one stops before it returns; the StaticCell is the witness.
CellInv ==
  LET Past == {th \in Threads : at[th] \in {"flags", "store"}} \cup returned
  IN /\ \A a, b \in Past : a = b
     /\ ~cell => Past = {}
     /\ \A th \in returned : at[th] \notin {"start", "create", "cell"}
=============================================================================
