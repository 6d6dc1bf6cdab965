--------------------------- MODULE ThreadHandles ----------------------------
(***************************************************************************)
(* Thread and ThreadHandle (thread.rs): creation with a boxed closure or   *)
(* with a C function, start, suspend and delete through a handle, and what *)
(* the thread itself does: enter its closure, sleep, wake up and return.   *)
(* No call of the kernel can fail but those that find the thread in a      *)
(* wrong state.                                                            *)
(***************************************************************************)
EXTENDS Naturals

CONSTANTS
  Boxed,      \* threads made by initialize_with_autostart_box
  CFunc,      \* threads made by create_with_c_func
  MaxHandles  \* bound on the handles a program keeps of one thread

AllThreads == Boxed \cup CFunc

States == {"new", "ready", "sleeping", "suspended", "completed", "deleted"}

VARIABLES
  state,          \* tx_thread_state
  delayed,        \* tx_thread_delayed_suspend
  stopped,        \* asked to stop, or created so, and not started since
  handles,        \* how many ThreadHandles there are
  entries,        \* how often the trampoline has called the closure
  deletes,        \* how often the kernel has unlinked the control block
  threadPanicked  \* the program has stopped in a panic

threadVars == <<state, delayed, stopped, handles, entries, deletes, threadPanicked>>

ThreadsInit ==
  /\ state = [t \in AllThreads |-> "new"]
  /\ delayed = [t \in AllThreads |-> FALSE]
  /\ stopped = [t \in AllThreads |-> FALSE]
  /\ handles = [t \in AllThreads |-> 0]
  /\ entries = [t \in AllThreads |-> 0]
  /\ deletes = [t \in AllThreads |-> 0]
  /\ threadPanicked = FALSE

-----------------------------------------------------------------------------
(* Creation                                                                *)

\* Thread::initialize_with_autostart_box borrows the Thread for good.
CreateBoxed(t) ==
  /\ t \in Boxed
  /\ state[t] = "new"
  /\ state' = [state EXCEPT ![t] = "ready"]
  /\ handles' = [handles EXCEPT ![t] = 1]
  /\ UNCHANGED <<delayed, stopped, entries, deletes, threadPanicked>>

\* What tx_thread_name.is_null() tells: before the creation the control block
\* is not initialized and the name may be anything.
NamesSeen(t) == IF state[t] = "new" THEN {TRUE, FALSE} ELSE {TRUE}

\* Thread::create_with_c_func returns a copy of the Thread and no handle.
CreateCFunc(t, autoStart) ==
  /\ t \in CFunc
  /\ \E named \in NamesSeen(t) :
       IF named
       THEN threadPanicked' = TRUE /\ UNCHANGED <<state, stopped>>
       ELSE /\ state' = [state EXCEPT ![t] = IF autoStart THEN "ready" ELSE "suspended"]
            /\ stopped' = [stopped EXCEPT ![t] = ~autoStart]
            /\ UNCHANGED threadPanicked
  /\ UNCHANGED <<delayed, handles, entries, deletes>>

-----------------------------------------------------------------------------
(* ThreadHandle                                                            *)

\* start and suspend only borrow the handle they return a second one of.
SecondHandle(t) ==
  /\ handles[t] < MaxHandles
  /\ handles' = [handles EXCEPT ![t] = @ + 1]

\* ThreadHandle::start.  A thread that was asked to stop while it slept goes
\* on, although start returns the error SuspendLifted.
Start(t) ==
  /\ handles[t] > 0
  /\ \/ /\ state[t] = "suspended"
        /\ state' = [state EXCEPT ![t] = "ready"]
        /\ SecondHandle(t)
        /\ UNCHANGED delayed
     \/ /\ delayed[t]
        /\ delayed' = [delayed EXCEPT ![t] = FALSE]
        /\ UNCHANGED <<state, handles>>
  /\ stopped' = [stopped EXCEPT ![t] = FALSE]
  /\ UNCHANGED <<entries, deletes, threadPanicked>>

\* ThreadHandle::suspend: a thread that sleeps stops when it wakes up.
Suspend(t) ==
  /\ handles[t] > 0
  /\ \/ /\ state[t] \in {"ready", "suspended"}
        /\ state' = [state EXCEPT ![t] = "suspended"]
        /\ UNCHANGED delayed
     \/ /\ state[t] = "sleeping"
        /\ delayed' = [delayed EXCEPT ![t] = TRUE]
        /\ UNCHANGED state
  /\ SecondHandle(t)
  /\ stopped' = [stopped EXCEPT ![t] = TRUE]
  /\ UNCHANGED <<entries, deletes, threadPanicked>>

\* delete consumes its handle, whatever the kernel returns, but no other handle
\* of the thread.  The kernel deletes a thread that has returned, and takes one
\* that is deleted already for such a one.
DeleteThread(t) ==
  /\ handles[t] > 0
  /\ handles' = [handles EXCEPT ![t] = @ - 1]
  /\ IF state[t] \in {"completed", "deleted"}
     THEN /\ state' = [state EXCEPT ![t] = "deleted"]
          /\ deletes' = [deletes EXCEPT ![t] = IF @ < 2 THEN @ + 1 ELSE @]
     ELSE UNCHANGED <<state, deletes>>
  /\ UNCHANGED <<delayed, stopped, entries, threadPanicked>>

\* A handle goes out of scope; the thread goes on.
DropHandle(t) ==
  /\ handles[t] > 0
  /\ handles' = [handles EXCEPT ![t] = @ - 1]
  /\ UNCHANGED <<state, delayed, stopped, entries, deletes, threadPanicked>>

-----------------------------------------------------------------------------
(* The thread                                                              *)

\* thread_box_callback_trampoline moves the closure out of its box.
Enter(t) ==
  /\ state[t] = "ready" /\ entries[t] = 0
  /\ entries' = [entries EXCEPT ![t] = @ + 1]
  /\ UNCHANGED <<state, delayed, stopped, handles, deletes, threadPanicked>>

\* sleep, or any other call the thread is suspended in.
Sleep(t) ==
  /\ state[t] = "ready" /\ entries[t] > 0
  /\ state' = [state EXCEPT ![t] = "sleeping"]
  /\ UNCHANGED <<delayed, stopped, handles, entries, deletes, threadPanicked>>

\* Mutant of Woken: the kernel forgets that the thread was asked to stop.
WokenAlways(t) == "ready"

Woken(t) == IF delayed[t] THEN "suspended" ELSE "ready"

Wake(t) ==
  /\ state[t] = "sleeping"
  /\ state' = [state EXCEPT ![t] = Woken(t)]
  /\ delayed' = [delayed EXCEPT ![t] = FALSE]
  /\ UNCHANGED <<stopped, handles, entries, deletes, threadPanicked>>

Return(t) ==
  /\ state[t] = "ready" /\ entries[t] > 0
  /\ state' = [state EXCEPT ![t] = "completed"]
  /\ UNCHANGED <<delayed, stopped, handles, entries, deletes, threadPanicked>>

ThreadsNext ==
  /\ ~threadPanicked
  /\ \E t \in AllThreads :
       \/ CreateBoxed(t) \/ \E autoStart \in BOOLEAN : CreateCFunc(t, autoStart)
       \/ Start(t) \/ Suspend(t) \/ DeleteThread(t) \/ DropHandle(t)
       \/ Enter(t) \/ Sleep(t) \/ Wake(t) \/ Return(t)

ThreadsSpec == ThreadsInit /\ [][ThreadsNext]_threadVars

-----------------------------------------------------------------------------
(* Properties.                                                             *)

\* Type invariant of the threads and their handles.
ThreadsTypeOK ==
  /\ state \in [AllThreads -> States]
  /\ delayed \in [AllThreads -> BOOLEAN]
  /\ stopped \in [AllThreads -> BOOLEAN]
  /\ handles \in [AllThreads -> Nat]
  /\ entries \in [AllThreads -> 0 .. 1]
  /\ deletes \in [AllThreads -> 0 .. 2]
  /\ threadPanicked \in BOOLEAN

\* A thread that was asked to stop does not run until it is started: it is
\* suspended, or sleeps and will be, however suspend, start and the end of the
\* sleep fall together.  An error of start does not mean that it is still
\* stopped.
StopsUntilStarted ==
  \A t \in AllThreads :
    stopped[t] <=> state[t] = "suspended" \/ (state[t] = "sleeping" /\ delayed[t])

\* What is left of a request to stop is with a thread that sleeps; a thread has
\* no handle before it is created, and is deleted for good.
HandledRightly ==
  \A t \in AllThreads :
    /\ delayed[t] => state[t] = "sleeping"
    /\ state[t] = "new" => handles[t] = 0
    /\ state[t] = "deleted" <=> deletes[t] > 0

\* Together they are what every step preserves, whatever handles the program
\* keeps: a stop holds until start.
ThreadsInv == ThreadsTypeOK /\ StopsUntilStarted /\ HandledRightly
=============================================================================
