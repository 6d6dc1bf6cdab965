------------------------------ MODULE BlockOn -------------------------------
(***************************************************************************)
(* What Executor::block_on promises the threads that call it: a call       *)
(* parks while its future is Pending, a wake() either unparks it or leaves *)
(* a token that makes the next park return at once, so no wake is lost;    *)
(* and a call whose I/O is done returns.  Neither slots, nor the mutex,    *)
(* nor event flags are part of the promise.                                *)
(***************************************************************************)
CONSTANT Tasks

VARIABLES
  phase,   \* "idle", "running" or "parked"
  token,   \* a wake-up arrived while the task was running
  done     \* the I/O of the task's future is complete

vars == <<phase, token, done>>

Init ==
  /\ phase = [t \in Tasks |-> "idle"]
  /\ token = [t \in Tasks |-> FALSE]
  /\ done = [t \in Tasks |-> FALSE]

Call(t) ==
  /\ phase[t] = "idle"
  /\ phase' = [phase EXCEPT ![t] = "running"]
  /\ UNCHANGED <<token, done>>

Finish(t) ==
  /\ ~done[t]
  /\ done' = [done EXCEPT ![t] = TRUE]
  /\ UNCHANGED <<phase, token>>

Park(t) ==
  /\ phase[t] = "running"
  /\ IF token[t]
     THEN token' = [token EXCEPT ![t] = FALSE] /\ phase' = phase
     ELSE phase' = [phase EXCEPT ![t] = "parked"] /\ token' = token
  /\ UNCHANGED done

Unpark(t) ==
  /\ \/ /\ phase[t] = "parked"
        /\ phase' = [phase EXCEPT ![t] = "running"]
        /\ token' = token
     \/ /\ phase[t] = "running"
        /\ token' = [token EXCEPT ![t] = TRUE]
        /\ phase' = phase
  /\ UNCHANGED done

Return(t) ==
  /\ phase[t] = "running"
  /\ done[t]
  /\ phase' = [phase EXCEPT ![t] = "idle"]
  /\ token' = [token EXCEPT ![t] = FALSE]
  /\ done' = [done EXCEPT ![t] = FALSE]

Next ==
  \E t \in Tasks : Call(t) \/ Finish(t) \/ Park(t) \/ Unpark(t) \/ Return(t)

Safety == Init /\ [][Next]_vars

\* A call whose I/O is done is not left parked, and returns.
Fairness ==
  \A t \in Tasks : /\ WF_vars(Return(t))
                   /\ WF_vars(done[t] /\ phase[t] = "parked" /\ Unpark(t))

Spec == Safety /\ Fairness
=============================================================================
