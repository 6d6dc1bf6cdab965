----------------------------- MODULE MCObjects ------------------------------
(* The kernel objects of threadx-rs for TLC, side by side: each behaviour  *)
(* is one of the object chosen at the start.                               *)
EXTENDS Mutex, ExecutorInit, Queue, EventFlags, Semaphore

CONSTANTS th1, th2, th3, th4

VARIABLE object

allVars == <<object, vars, newVars, queueVars, flagVars, semVars>>

Ask(bits, option) == [bits |-> bits, option |-> option]

\* One thread asks for any of the bits, one for all, and one for either.
ObjectAsks ==
  [th \in Waiters |->
     IF th = th1 THEN {Ask({1}, "WaitAnyAndClear"), Ask({1, 2}, "WaitAny")}
     ELSE IF th = th2 THEN {Ask({1, 2}, "WaitAllAndClear")}
     ELSE {Ask({1, 2}, "WaitAll"), Ask({2}, "WaitAllAndClear")}]

ASSUME QueueAssumption

-----------------------------------------------------------------------------
ObjectsInit ==
  /\ object \in {"mutex", "new", "queue", "flags", "semaphore"}
  /\ Init /\ NewInit /\ QueueInit /\ FlagsInit
  /\ SemInit /\ (object # "semaphore" => ~named)

\* A step of one object leaves the others alone.
MutexStep(A) ==
  object = "mutex" /\ A /\ UNCHANGED <<object, newVars, queueVars, flagVars, semVars>>
NewStep(A) ==
  object = "new" /\ A /\ UNCHANGED <<object, vars, queueVars, flagVars, semVars>>
QueueStep(A) ==
  object = "queue" /\ A /\ UNCHANGED <<object, vars, newVars, flagVars, semVars>>
FlagsStep(A) ==
  object = "flags" /\ A /\ UNCHANGED <<object, vars, newVars, queueVars, semVars>>
SemStep(A) ==
  object = "semaphore" /\ A /\ UNCHANGED <<object, vars, newVars, queueVars, flagVars>>

ObjectsNext ==
  \/ MutexStep(Next) \/ NewStep(NewNext) \/ QueueStep(QueueNext)
  \/ FlagsStep(FlagsNext) \/ SemStep(SemNext)

\* The fairness of each object is that of its own specification.
ObjectsSpec ==
  /\ ObjectsInit /\ [][ObjectsNext]_allVars
  /\ \A th \in Threads :
       /\ WF_allVars(MutexStep(DropGuard(th)))
       /\ SF_allVars(MutexStep(guards[th] = 1 /\ DropGuard(th)))
  /\ \A th \in Receivers \ Senders : WF_allVars(QueueStep(Receive(th)))
  /\ \A b \in Bits : WF_allVars(FlagsStep(PublishFlags({b})))
  /\ \A th \in Users : WF_allVars(SemStep(SemPut(th)))

-----------------------------------------------------------------------------
(* The properties are those of the modules, each stated and explained      *)
(* there.                                                                  *)

\* Queue: every message sent is received and every sender goes on.
QueueDelivers == object = "queue" => MessagesArrive

=============================================================================
