------------------------------ MODULE FlagApp -------------------------------
(***************************************************************************)
(* bin/event_flag.rs: a timer publishes an event, for the first time after *)
(* Initial and then every Period; three threads of one priority wait for   *)
(* it, clear it and sleep.  The group is that of EventFlags.  The tick     *)
(* interrupt may come while threads still run, but they need at most Busy  *)
(* ticks in a row.                                                         *)
(***************************************************************************)
EXTENDS TxTime, EventFlags

CONSTANTS
  Initial, Period,  \* of the timer, in milliseconds
  SleepMillis,      \* what each thread asks sleep for
  Busy              \* bound on the ticks during which some thread runs

Event == 1

ASSUME AppAssumption ==
  /\ Waiters # {} /\ Event \in Bits
  /\ {Initial, Period, SleepMillis, Busy} \subseteq Nat
  /\ Ticks(Initial) > 0 /\ Ticks(Period) > 0

VARIABLES
  expires,  \* ticks until the timer expires
  asleep,   \* ticks until sleep returns, for the threads that sleep
  slept,    \* ticks since each thread called sleep
  running,  \* what each thread that is not suspended does next
  busy,     \* ticks since some thread was last made ready
  missed    \* the event was published while it was still set

appVars == <<flagVars, expires, asleep, slept, running, busy, missed>>

\* Mutant of Request: the event is not cleared.
RequestKeeps == [bits |-> {Event}, option |-> "WaitAll"]

\* What every thread asks get for.
Request == [bits |-> {Event}, option |-> "WaitAllAndClear"]

AsksForEvent == [th \in Waiters |-> {Request}]

\* The timer and the threads are created before the first tick.
AppInit ==
  /\ FlagsInit
  /\ expires = Ticks(Initial)
  /\ asleep = [th \in Waiters |-> 0]
  /\ slept = [th \in Waiters |-> 0]
  /\ running = [th \in Waiters |-> "get"]
  /\ busy = 0
  /\ missed = FALSE

SomeRuns == \E th \in Waiters : running[th] # "no"

-----------------------------------------------------------------------------
(* The closures of the three threads.                                      *)

\* EventFlagsGroupHandle::get(WaitForever)
GetEvent(th) ==
  /\ running[th] = "get"
  /\ GetFlags(th, Request)
  /\ running' = [running EXCEPT ![th] = IF th \in waiting' THEN "no" ELSE "sleep"]
  /\ UNCHANGED <<expires, asleep, slept, busy, missed>>

\* thread::sleep: zero ticks are no sleep.
Sleep(th) ==
  /\ running[th] = "sleep"
  /\ slept' = [slept EXCEPT ![th] = 0]
  /\ asleep' = [asleep EXCEPT ![th] = Ticks(SleepMillis)]
  /\ running' = [running EXCEPT ![th] = IF Ticks(SleepMillis) = 0 THEN "awake" ELSE "no"]
  /\ UNCHANGED <<flagVars, expires, busy, missed>>

\* sleep returns, the loop begins again.
Awake(th) ==
  /\ running[th] = "awake"
  /\ running' = [running EXCEPT ![th] = "get"]
  /\ UNCHANGED <<flagVars, expires, asleep, slept, busy, missed>>

-----------------------------------------------------------------------------
(* The tick interrupt, with the expirations it leads to.                   *)

\* with_ticks gives the kernel the period for every later expiration.
Reload == Ticks(Period)

\* The closure of the timer, called by timer_callback_trampoline: publish(1).
\* It is called again every Period; zero would mean a timer that expires once.
Expire ==
  IF expires = 1
  THEN /\ PublishFlags({Event})
       /\ missed' = (missed \/ Event \in flags)
       /\ expires' = Reload
  ELSE /\ expires' = expires - 1
       /\ UNCHANGED <<flagVars, missed>>

Tick ==
  /\ IF SomeRuns THEN busy < Busy /\ busy' = busy + 1 ELSE busy' = 0
  /\ Expire
  /\ running' = [th \in Waiters |->
                   IF th \in waiting \ waiting' THEN "sleep"
                   ELSE IF asleep[th] = 1 THEN "awake" ELSE running[th]]
  /\ asleep' = [th \in Waiters |-> IF asleep[th] > 0 THEN asleep[th] - 1 ELSE 0]
  /\ slept' = [th \in Waiters |-> IF asleep[th] > 0 THEN slept[th] + 1 ELSE slept[th]]

AppNext == Tick \/ \E th \in Waiters : GetEvent(th) \/ Sleep(th) \/ Awake(th)

AppSpec == AppInit /\ [][AppNext]_appVars

\* Time goes on, and a thread that can run does.
AppFairSpec == AppSpec /\ WF_appVars(AppNext)

-----------------------------------------------------------------------------
(* Properties.                                                             *)

\* Type invariant of the timer and the threads.
AppTypeOK ==
  /\ expires \in 1 .. Ticks(Initial) \cup 1 .. Ticks(Period)
  /\ asleep \in [Waiters -> 0 .. Ticks(SleepMillis)]
  /\ slept \in [Waiters -> Nat]
  /\ running \in [Waiters -> {"get", "sleep", "awake", "no"}]
  /\ busy \in 0 .. Busy
  /\ missed \in BOOLEAN

\* A thread that does not run sleeps or is suspended in get.
ThreadsSomewhere ==
  \A th \in Waiters :
    /\ running[th] = "no" => (asleep[th] > 0 <=> th \notin waiting)
    /\ running[th] # "no" => asleep[th] = 0 /\ th \notin waiting
    /\ th \in waiting => request[th] = Request

\* Every event of the timer is received by a thread before the next one comes,
\* although all threads clear the same bit and sleep in between.
NoEventMissed == ~missed

\* Ticks since the event was published.
Age == Ticks(Period) - expires

\* An event that nobody has taken yet: each thread is on its way back to get,
\* and needs no longer than a sleep and the time to run before and after it.
TakenInTime ==
  Event \in flags =>
    /\ expires \in 1 .. Ticks(Period)
    /\ \A th \in Waiters :
         /\ running[th] = "sleep" => Age <= busy
         /\ asleep[th] > 0 => Age <= Busy + Ticks(SleepMillis) - asleep[th]
         /\ running[th] \in {"awake", "get"} => Age <= Busy + Ticks(SleepMillis) + busy

\* The period leaves a thread the time to sleep and to run before and after it.
Schedulable == Ticks(Period) > 2 * Busy + Ticks(SleepMillis)

\* The inductive invariant of the program: no event is missed, for each of
\* them finds a thread suspended or on its way.
AppInv == FlagsInv /\ AppTypeOK /\ ThreadsSomewhere /\ TakenInTime /\ NoEventMissed

\* Each of the three threads receives the event again and again: the others
\* do not take it away from one of them for ever.
EveryThreadServed ==
  \A th \in Waiters : []<>(running[th] = "sleep")

\* "the wall time that represents will be rounded up to the nearest tick"
\* (thread.rs:141): sleep does not return before the time it was asked for.
SleepRoundsUp ==
  \A th \in Waiters : running[th] = "awake" => slept[th] * MillisPerTick >= SleepMillis
=============================================================================
