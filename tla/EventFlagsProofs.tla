-------------------------- MODULE EventFlagsProofs --------------------------
(* Proofs about the event flags groups, for every set of bits, threads and *)
(* requests, and about the program bin/event_flag.rs, for any number of    *)
(* threads and any times.                                                  *)
EXTENDS FlagApp, TLAPS

-----------------------------------------------------------------------------
(* The operators of the kernel.                                            *)

\* Fewer flags satisfy fewer requests.
LEMMA SatisfiedMonotone ==
  ASSUME NEW less, NEW more, less \subseteq more, NEW r, Satisfied(less, r)
  PROVE  Satisfied(more, r)
  BY DEF Satisfied

\* A get that clears only takes flags away.
LEMMA LeftSubset ==
  ASSUME NEW set, NEW r
  PROVE  Left(set, r) \subseteq set
  BY DEF Left

\* What is left for a thread, or in the group, is part of what was set, and
\* the less the more threads have been served.
LEMMA RemainingSubset ==
  ASSUME NEW set, NEW some, NEW all, some \subseteq all
  PROVE  /\ Remaining(set, some, request) \subseteq set
         /\ Remaining(set, all, request) \subseteq Remaining(set, some, request)
  BY DEF Remaining

\* Each waiter is given at least what stays in the group, and no more than
\* was set.
LEMMA GivenBounds ==
  ASSUME NEW th, NEW set, NEW resumed, NEW inTurn
  PROVE  /\ Given(th, set, resumed, request, ahead, inTurn) \subseteq set
         /\ Remaining(set, resumed, request) \subseteq Given(th, set, resumed, request, ahead, inTurn)
<1> DEFINE before == IF inTurn THEN resumed \cap ahead[th] ELSE {}
<1>1. before \subseteq resumed
  OBVIOUS
<1>2. Given(th, set, resumed, request, ahead, inTurn) = Remaining(set, before, request)
  BY DEF Given
<1> HIDE DEF before
<1> QED
  BY <1>1, <1>2, RemainingSubset

-----------------------------------------------------------------------------
(* Get and publish keep the invariant of the group.                        *)

\* A new group has no flags and no waiters.
LEMMA FlagsInitInv == FlagsInit => FlagsInv
<1> SUFFICES ASSUME FlagsInit
             PROVE  FlagsInv
  OBVIOUS
<1>1. [bits |-> {}, option |-> "WaitAll"] \in Requests
  BY DEF Requests, Options
<1>2. FlagsTypeOK
  BY <1>1 DEF FlagsInit, FlagsTypeOK
<1>3. InOrder /\ NoneOverlooked
  BY DEF FlagsInit, InOrder, NoneOverlooked
<1>4. ResultSatisfies
  BY DEF FlagsInit, ResultSatisfies, Satisfied, All
<1> QED
  BY <1>2, <1>3, <1>4 DEF FlagsInv

\* get: whether it clears flags or waits, nobody else is overlooked.
LEMMA GetStep ==
  ASSUME FlagsInv, NEW th \in Waiters, NEW r \in Requests, GetFlags(th, r)
  PROVE  FlagsInv'
<1> USE DEF FlagsInv
<1>1. th \notin waiting /\ request' = [request EXCEPT ![th] = r]
  BY DEF GetFlags
<1>2. CASE Satisfied(flags, r)
  <2>1. /\ flags' = Left(flags, r) /\ got' = [got EXCEPT ![th] = flags]
        /\ UNCHANGED <<waiting, ahead>>
    BY <1>2 DEF GetFlags, Returned
  <2>2. flags' \subseteq flags
    BY <2>1, LeftSubset
  <2>3. FlagsTypeOK'
    BY <1>1, <2>1, <2>2 DEF FlagsTypeOK
  <2>4. InOrder'
    BY <2>1 DEF InOrder
  <2>5. NoneOverlooked'
    BY <1>1, <2>1, <2>2, SatisfiedMonotone DEF NoneOverlooked, FlagsTypeOK
  <2>6. ResultSatisfies'
    BY <1>1, <1>2, <2>1 DEF ResultSatisfies, FlagsTypeOK
  <2> QED
    BY <2>3, <2>4, <2>5, <2>6
<1>3. CASE ~Satisfied(flags, r)
  <2>1. /\ waiting' = waiting \cup {th} /\ ahead' = [ahead EXCEPT ![th] = waiting]
        /\ UNCHANGED <<flags, got>>
    BY <1>3 DEF GetFlags, Queued
  <2>3. FlagsTypeOK'
    BY <1>1, <2>1 DEF FlagsTypeOK
  <2>4. InOrder'
    BY <1>1, <2>1 DEF InOrder, FlagsTypeOK
  <2>5. NoneOverlooked'
    BY <1>1, <1>3, <2>1 DEF NoneOverlooked, FlagsTypeOK
  <2>6. ResultSatisfies'
    BY <1>1, <2>1 DEF ResultSatisfies, FlagsTypeOK
  <2> QED
    BY <2>3, <2>4, <2>5, <2>6
<1> QED
  BY <1>2, <1>3

\* publish: whoever is not resumed is not satisfied by what stays in the group.
LEMMA PublishStep ==
  ASSUME FlagsInv, NEW bits \in SUBSET Bits, PublishFlags(bits)
  PROVE  FlagsInv'
<1> USE DEF FlagsInv
<1> DEFINE set == SetAny(bits)
<1>1. PICK inTurn \in BOOLEAN, resumed \in SUBSET waiting :
        /\ Resumes(resumed, set, waiting, request, ahead, inTurn)
        /\ flags' = Remaining(set, resumed, request)
        /\ waiting' = waiting \ resumed
        /\ ahead' = [th \in Waiters |-> IF th \in waiting \ resumed THEN ahead[th] \ resumed ELSE {}]
        /\ got' = [th \in Waiters |->
                     IF th \in resumed
                     THEN Returned(Given(th, set, resumed, request, ahead, inTurn), request[th])
                     ELSE got[th]]
        /\ UNCHANGED request
  BY DEF PublishFlags
<1> DEFINE given(th) == Given(th, set, resumed, request, ahead, inTurn)
<1>2. \A th : given(th) \subseteq set /\ flags' \subseteq given(th)
  BY <1>1, GivenBounds
<1>3. set \subseteq Bits
  BY DEF SetAny, FlagsTypeOK
<1>4. \A th \in waiting : th \in resumed <=> Satisfied(given(th), request[th])
  BY <1>1 DEF Resumes
<1>5. got' = [th \in Waiters |-> IF th \in resumed THEN given(th) ELSE got[th]]
  BY <1>1 DEF Returned
<1> HIDE DEF set, given
<1>6. FlagsTypeOK'
  BY <1>1, <1>2, <1>3, <1>5 DEF FlagsTypeOK
<1>7. InOrder'
  BY <1>1 DEF InOrder, FlagsTypeOK
<1>8. NoneOverlooked'
  <2> SUFFICES ASSUME NEW th \in waiting', Satisfied(flags', request[th])
               PROVE  FALSE
    BY <1>1 DEF NoneOverlooked
  <2>1. Satisfied(given(th), request[th])
    BY <1>2, SatisfiedMonotone
  <2> QED
    BY <2>1, <1>1, <1>4
<1>9. ResultSatisfies'
  <2> SUFFICES ASSUME NEW th \in Waiters, th \notin waiting'
               PROVE  Satisfied(got'[th], request[th])
    BY <1>1 DEF ResultSatisfies
  <2>1. CASE th \in resumed
    BY <2>1, <1>1, <1>4, <1>5
  <2>2. CASE th \notin resumed
    BY <2>2, <1>1, <1>5 DEF ResultSatisfies
  <2> QED
    BY <2>1, <2>2
<1> QED
  BY <1>6, <1>7, <1>8, <1>9

\* In whatever order threads get and publish, and whatever the gets clear:
\* nobody stays suspended on flags that are set, and what get returns
\* satisfies the request.
THEOREM NobodyOverlooked == FlagsSpec => []FlagsInv
<1>1. FlagsInv /\ [FlagsNext]_flagVars => FlagsInv'
  <2> SUFFICES ASSUME FlagsInv, [FlagsNext]_flagVars
               PROVE  FlagsInv'
    OBVIOUS
  <2>1. CASE UNCHANGED flagVars
    BY <2>1 DEF flagVars, FlagsInv, FlagsTypeOK, InOrder, NoneOverlooked, ResultSatisfies
  <2>2. ASSUME NEW th \in Waiters, NEW r \in Asks[th], GetFlags(th, r)
        PROVE  FlagsInv'
    <3>1. r \in Requests
      BY AsksAssumption
    <3> QED
      BY <2>2, <3>1, GetStep
  <2>3. ASSUME NEW b \in Bits, PublishFlags({b})
        PROVE  FlagsInv'
    BY <2>3, PublishStep
  <2> QED
    BY <2>1, <2>2, <2>3 DEF FlagsNext
<1> QED
  BY <1>1, FlagsInitInv, PTL DEF FlagsSpec

-----------------------------------------------------------------------------
(* bin/event_flag.rs.                                                      *)

\* Durations are numbers of ticks.
LEMMA TicksNatural ==
  ASSUME NEW millis \in Nat
  PROVE  Ticks(millis) \in Nat
<1>1. MillisPerTick \in Nat \ {0}
  BY TimeAssumption DEF MillisPerTick
<1>2. millis \div MillisPerTick \in Nat
  BY <1>1
<1> QED
  BY <1>2, TimeAssumption DEF Ticks

\* The times of the program.
LEMMA Times ==
  /\ Busy \in Nat /\ Ticks(SleepMillis) \in Nat
  /\ Ticks(Initial) \in Nat \ {0} /\ Ticks(Period) \in Nat \ {0}
  BY AppAssumption, TicksNatural

\* What the threads ask for.
LEMMA RequestProperties ==
  /\ Request \in Requests
  /\ \A set : Satisfied(set, Request) <=> Event \in set
  /\ \A set : Left(set, Request) = set \ {Event}
<1>1. Request.bits = {Event} /\ Request.option = "WaitAllAndClear"
  BY DEF Request
<1>2. Request \in Requests
  BY AppAssumption DEF Request, Requests, Options
<1> QED
  BY <1>1, <1>2 DEF Satisfied, Left, All, Clears

LEMMA AppInitInv == AppInit => AppInv
<1> SUFFICES ASSUME AppInit
             PROVE  AppInv
  OBVIOUS
<1>1. FlagsInv
  BY FlagsInitInv DEF AppInit
<1>2. AppTypeOK
  <2> DEFINE S == Ticks(SleepMillis)
             I == Ticks(Initial)
  <2>1. 0 \in 0 .. S /\ 0 \in 0 .. Busy /\ I \in 1 .. I
    BY Times
  <2>2. /\ expires = I /\ asleep = [th \in Waiters |-> 0]
        /\ slept = [th \in Waiters |-> 0] /\ running = [th \in Waiters |-> "get"]
        /\ busy = 0 /\ missed = FALSE
    BY DEF AppInit
  <2> HIDE DEF S, I
  <2>3. /\ asleep \in [Waiters -> 0 .. S] /\ slept \in [Waiters -> Nat]
        /\ running \in [Waiters -> {"get", "sleep", "awake", "no"}]
    BY <2>1, <2>2
  <2> QED
    BY <2>1, <2>2, <2>3 DEF AppTypeOK, S, I
<1>3. ThreadsSomewhere /\ TakenInTime /\ NoEventMissed
  BY DEF AppInit, FlagsInit, ThreadsSomewhere, TakenInTime, NoEventMissed
<1> QED
  BY <1>1, <1>2, <1>3 DEF AppInv

\* A get takes the event, or waits where there is none.
LEMMA GetEventStep ==
  ASSUME AppInv, NEW th \in Waiters, GetEvent(th)
  PROVE  AppInv'
<1> USE DEF AppInv
<1>1. /\ running[th] = "get" /\ GetFlags(th, Request)
      /\ running' = [running EXCEPT ![th] = IF th \in waiting' THEN "no" ELSE "sleep"]
      /\ UNCHANGED <<expires, asleep, slept, busy, missed>>
  BY DEF GetEvent
<1>2. FlagsInv'
  BY <1>1, GetStep, RequestProperties
<1>3. AppTypeOK'
  BY <1>1 DEF AppTypeOK
<1>4. /\ th \notin waiting /\ request' = [request EXCEPT ![th] = Request]
      /\ waiting' \in {waiting, waiting \cup {th}}
      /\ Event \notin flags'
  BY <1>1, RequestProperties DEF GetFlags
<1>5. ThreadsSomewhere'
  BY <1>1, <1>4 DEF ThreadsSomewhere, AppTypeOK, FlagsInv, FlagsTypeOK
<1>6. TakenInTime' /\ NoEventMissed'
  BY <1>1, <1>4 DEF TakenInTime, NoEventMissed
<1> QED
  BY <1>2, <1>3, <1>5, <1>6

\* A thread falls asleep soon after it was resumed.
LEMMA SleepStep ==
  ASSUME AppInv, NEW th \in Waiters, Sleep(th)
  PROVE  AppInv'
<1> USE DEF AppInv
<1> DEFINE S == Ticks(SleepMillis)
<1>1. /\ running[th] = "sleep"
      /\ slept' = [slept EXCEPT ![th] = 0]
      /\ asleep' = [asleep EXCEPT ![th] = S]
      /\ running' = [running EXCEPT ![th] = IF S = 0 THEN "awake" ELSE "no"]
      /\ UNCHANGED <<flagVars, expires, busy, missed>>
  BY DEF Sleep
<1>2. S \in Nat /\ Busy \in Nat /\ Ticks(Period) \in Nat
  BY Times
<1>3. FlagsInv'
  BY <1>1 DEF FlagsInv, FlagsTypeOK, InOrder, NoneOverlooked, ResultSatisfies, flagVars
<1>4. AppTypeOK'
  BY <1>1, <1>2 DEF AppTypeOK
<1>5. ThreadsSomewhere'
  BY <1>1, <1>2 DEF ThreadsSomewhere, AppTypeOK, flagVars
<1>6. TakenInTime'
  <2> SUFFICES ASSUME Event \in flags
               PROVE  TakenInTime'
    BY <1>1 DEF TakenInTime, flagVars
  <2>1. Age' = Age /\ Age <= busy /\ busy \in 0 .. Busy /\ Age \in Nat
    BY <1>1, <1>2 DEF TakenInTime, Age, AppTypeOK
  <2> HIDE DEF S
  <2>2. ASSUME NEW t \in Waiters
        PROVE  /\ running'[t] = "sleep" => Age <= busy
               /\ asleep'[t] > 0 => Age <= Busy + S - asleep'[t]
               /\ running'[t] \in {"awake", "get"} => Age <= Busy + S + busy
    BY <1>1, <1>2, <2>1 DEF TakenInTime, AppTypeOK, S
  <2> QED
    BY <1>1, <2>1, <2>2 DEF TakenInTime, S
<1>7. NoEventMissed'
  BY <1>1 DEF NoEventMissed
<1> QED
  BY <1>3, <1>4, <1>5, <1>6, <1>7

LEMMA AwakeStep ==
  ASSUME AppInv, NEW th \in Waiters, Awake(th)
  PROVE  AppInv'
<1> USE DEF AppInv
<1>1. /\ running[th] = "awake"
      /\ running' = [running EXCEPT ![th] = "get"]
      /\ UNCHANGED <<flagVars, expires, asleep, slept, busy, missed>>
  BY DEF Awake
<1>2. FlagsInv'
  BY <1>1 DEF FlagsInv, FlagsTypeOK, InOrder, NoneOverlooked, ResultSatisfies, flagVars
<1>3. AppTypeOK' /\ ThreadsSomewhere' /\ NoEventMissed'
  BY <1>1 DEF AppTypeOK, ThreadsSomewhere, NoEventMissed, flagVars
<1>4. TakenInTime'
  BY <1>1 DEF TakenInTime, Age, AppTypeOK, flagVars
<1> QED
  BY <1>2, <1>3, <1>4

\* An expiration that resumes somebody leaves no event.
LEMMA ExpireFlags ==
  ASSUME AppInv, Expire
  PROVE  /\ FlagsInv' /\ UNCHANGED request
         /\ waiting' \subseteq waiting
         /\ waiting' # waiting => Event \notin flags'
         /\ expires # 1 => UNCHANGED <<flags, waiting>>
<1> USE DEF AppInv
<1>1. CASE expires = 1
  <2>1. PublishFlags({Event}) /\ {Event} \in SUBSET Bits
    BY <1>1, AppAssumption DEF Expire
  <2>2. FlagsInv'
    BY <2>1, PublishStep
  <2>3. PICK resumed \in SUBSET waiting :
          /\ flags' = Remaining(SetAny({Event}), resumed, request)
          /\ waiting' = waiting \ resumed
          /\ UNCHANGED request
    BY <2>1 DEF PublishFlags
  <2>4. ASSUME NEW th \in resumed
        PROVE  Event \notin flags'
    <3>1. request[th] = Request
      BY <2>3 DEF ThreadsSomewhere, FlagsInv, FlagsTypeOK
    <3> QED
      BY <3>1, <2>3, RequestProperties DEF Remaining
  <2> QED
    BY <1>1, <2>2, <2>3, <2>4
<1>2. CASE expires # 1
  BY <1>2 DEF Expire, flagVars, FlagsInv, FlagsTypeOK, InOrder, NoneOverlooked, ResultSatisfies
<1> QED
  BY <1>1, <1>2

\* When the timer expires the event before has been taken.
LEMMA TakenBefore ==
  ASSUME Schedulable, AppInv, Tick, expires = 1
  PROVE  Event \notin flags
<1> USE DEF AppInv
<1> DEFINE S == Ticks(SleepMillis)
           P == Ticks(Period)
<1> SUFFICES ASSUME Event \in flags
             PROVE  FALSE
  OBVIOUS
<1>1. S \in Nat /\ Busy \in Nat /\ P \in Nat /\ P > 2 * Busy + S
  BY Times DEF Schedulable
<1>2. PICK th \in Waiters : TRUE
  BY AppAssumption
<1>3. th \notin waiting
  BY RequestProperties DEF FlagsInv, NoneOverlooked, ThreadsSomewhere
<1>4. Age = P - 1 /\ busy \in 0 .. Busy /\ asleep[th] \in 0 .. S
  BY DEF Age, AppTypeOK
<1>5. /\ running[th] = "sleep" => Age <= busy
      /\ asleep[th] > 0 => Age <= Busy + S - asleep[th]
      /\ running[th] \in {"awake", "get"} => Age <= Busy + S + busy
  BY DEF TakenInTime
<1>6. running[th] # "no" => busy < Busy
  BY DEF Tick, SomeRuns
<1>7. running[th] = "no" => asleep[th] > 0
  BY <1>3 DEF ThreadsSomewhere
<1>8. running[th] \in {"get", "sleep", "awake", "no"}
  BY DEF AppTypeOK
<1> HIDE DEF S, P
<1> QED
  BY <1>1, <1>4, <1>5, <1>6, <1>7, <1>8

\* A tick brings every event nearer to the thread that takes it.
LEMMA TickStep ==
  ASSUME Schedulable, AppInv, Tick
  PROVE  AppInv'
<1> USE DEF AppInv
<1> DEFINE S == Ticks(SleepMillis)
           P == Ticks(Period)
<1>1. S \in Nat /\ Busy \in Nat /\ P \in Nat \ {0} /\ Ticks(Initial) \in Nat
  BY Times
<1>2. /\ FlagsInv' /\ UNCHANGED request
      /\ waiting' \subseteq waiting
      /\ waiting' # waiting => Event \notin flags'
      /\ expires # 1 => UNCHANGED <<flags, waiting>>
  BY ExpireFlags DEF Tick
<1>3. /\ busy' \in 0 .. Busy
      /\ SomeRuns => busy' = busy + 1
  BY <1>1 DEF Tick, AppTypeOK
<1>4. /\ running' = [th \in Waiters |->
                       IF th \in waiting \ waiting' THEN "sleep"
                       ELSE IF asleep[th] = 1 THEN "awake" ELSE running[th]]
      /\ asleep' = [th \in Waiters |-> IF asleep[th] > 0 THEN asleep[th] - 1 ELSE 0]
      /\ slept' = [th \in Waiters |-> IF asleep[th] > 0 THEN slept[th] + 1 ELSE slept[th]]
  BY DEF Tick
<1>5. expires' = IF expires = 1 THEN P ELSE expires - 1
  BY DEF Tick, Expire, Reload
<1>6. missed' \in BOOLEAN /\ NoEventMissed'
  BY TakenBefore DEF Tick, Expire, NoEventMissed, AppTypeOK
<1> HIDE DEF S, P
<1>7. AppTypeOK'
  <2>1. asleep' \in [Waiters -> 0 .. S]
    BY <1>1, <1>4 DEF AppTypeOK, S
  <2>2. expires' \in 1 .. Ticks(Initial) \cup 1 .. P
    BY <1>1, <1>5 DEF AppTypeOK, P
  <2>3. slept' \in [Waiters -> Nat] /\ running' \in [Waiters -> {"get", "sleep", "awake", "no"}]
    BY <1>4 DEF AppTypeOK
  <2> QED
    BY <2>1, <2>2, <2>3, <1>3, <1>6 DEF AppTypeOK, S, P
<1>8. ThreadsSomewhere'
  <2> SUFFICES ASSUME NEW th \in Waiters
               PROVE  /\ running'[th] = "no" => (asleep'[th] > 0 <=> th \notin waiting')
                      /\ running'[th] # "no" => asleep'[th] = 0 /\ th \notin waiting'
                      /\ th \in waiting' => request'[th] = Request
    BY DEF ThreadsSomewhere
  <2>1. /\ asleep[th] \in Nat
        /\ running[th] = "no" => (asleep[th] > 0 <=> th \notin waiting)
        /\ running[th] # "no" => asleep[th] = 0 /\ th \notin waiting
        /\ th \in waiting => request[th] = Request
    BY <1>1 DEF ThreadsSomewhere, AppTypeOK
  <2>2. /\ asleep'[th] = IF asleep[th] > 0 THEN asleep[th] - 1 ELSE 0
        /\ running'[th] = IF th \in waiting \ waiting' THEN "sleep"
                          ELSE IF asleep[th] = 1 THEN "awake" ELSE running[th]
    BY <1>4
  <2> QED
    BY <2>1, <2>2, <1>2
<1>9. TakenInTime'
  <2> SUFFICES ASSUME Event \in flags'
               PROVE  TakenInTime'
    BY DEF TakenInTime
  <2>1. waiting' = waiting
    BY <1>2
  <2>2. CASE expires = 1
    <3>1. expires' = P /\ Age' = 0
      BY <2>2, <1>1, <1>5 DEF Age, P
    <3>2. asleep' \in [Waiters -> 0 .. S] /\ busy' \in 0 .. Busy
      BY <1>7 DEF AppTypeOK, S
    <3> QED
      BY <3>1, <3>2, <1>1 DEF TakenInTime, S, P
  <2>3. CASE expires # 1
    <3>1. /\ Event \in flags /\ expires \in 1 .. P /\ expires' \in 1 .. P
          /\ Age \in Nat /\ Age' = Age + 1
      BY <2>3, <1>1, <1>2, <1>5 DEF TakenInTime, Age, P
    <3>2. ASSUME NEW th \in Waiters
          PROVE  /\ running'[th] = "sleep" => Age' <= busy'
                 /\ asleep'[th] > 0 => Age' <= Busy + S - asleep'[th]
                 /\ running'[th] \in {"awake", "get"} => Age' <= Busy + S + busy'
      <4>1. /\ running[th] = "sleep" => Age <= busy
            /\ asleep[th] > 0 => Age <= Busy + S - asleep[th]
            /\ running[th] \in {"awake", "get"} => Age <= Busy + S + busy
        BY <3>1 DEF TakenInTime, S
      <4>2. /\ asleep'[th] = IF asleep[th] > 0 THEN asleep[th] - 1 ELSE 0
            /\ running'[th] = IF asleep[th] = 1 THEN "awake" ELSE running[th]
        BY <1>4, <2>1
      <4>3. asleep[th] \in Nat /\ busy \in Nat
        BY <1>1 DEF AppTypeOK
      <4>4. running[th] # "no" => busy' = busy + 1
        BY <1>3 DEF SomeRuns
      <4>5. busy' \in 0 .. Busy
        BY <1>3
      <4>6. running'[th] = "sleep" => Age' <= busy'
        BY <4>1, <4>2, <4>3, <4>4, <3>1
      <4>7. asleep'[th] > 0 => Age' <= Busy + S - asleep'[th]
        BY <4>1, <4>2, <4>3, <3>1, <1>1
      <4>8. running'[th] \in {"awake", "get"} => Age' <= Busy + S + busy'
        <5>1. CASE asleep[th] = 1
          BY <5>1, <4>1, <4>3, <4>5, <3>1, <1>1
        <5>2. CASE asleep[th] # 1
          <6>1. SUFFICES ASSUME running'[th] \in {"awake", "get"}
                         PROVE  Age' <= Busy + S + busy'
            OBVIOUS
          <6>2. running[th] \in {"awake", "get"}
            BY <6>1, <5>2, <4>2
          <6>3. Age <= Busy + S + busy /\ busy' = busy + 1
            BY <6>2, <4>1, <4>4
          <6> QED
            BY <6>3, <4>3, <3>1, <1>1
        <5> QED
          BY <5>1, <5>2
      <4> QED
        BY <4>6, <4>7, <4>8
    <3> QED
      BY <3>1, <3>2 DEF TakenInTime, S, P
  <2> QED
    BY <2>2, <2>3
<1> QED
  BY <1>2, <1>6, <1>7, <1>8, <1>9

\* However many threads wait for the event, clear it and sleep: none is
\* published before the one before has been taken, as long as the period
\* leaves a thread the time for its sleep and for what it does around it.
THEOREM NoEventIsMissed ==
  ASSUME Schedulable PROVE AppSpec => []AppInv
<1>1. AppInv /\ [AppNext]_appVars => AppInv'
  <2> SUFFICES ASSUME AppInv, [AppNext]_appVars
               PROVE  AppInv'
    OBVIOUS
  <2>1. CASE UNCHANGED appVars
    <3>1. UNCHANGED <<flags, waiting, ahead, request, got, expires, asleep, slept, running, busy, missed>>
      BY <2>1 DEF appVars, flagVars
    <3>2. FlagsInv'
      BY <3>1 DEF AppInv, FlagsInv, FlagsTypeOK, InOrder, NoneOverlooked, ResultSatisfies
    <3> QED
      BY <3>1, <3>2 DEF AppInv, AppTypeOK, ThreadsSomewhere, TakenInTime, Age, NoEventMissed
  <2> QED
    BY <2>1, TickStep, GetEventStep, SleepStep, AwakeStep DEF AppNext
<1> QED
  BY <1>1, AppInitInv, PTL DEF AppSpec

\* The program is a use of the group: whatever timer and threads do, the group
\* sees gets of the one request and publishes of the event.
THEOREM AppUsesGroup ==
  ASSUME Asks = AsksForEvent
  PROVE  AppSpec => FlagsSpec
<1>1. AppInit => FlagsInit
  BY DEF AppInit
<1>2. [AppNext]_appVars => [FlagsNext]_flagVars
  <2> SUFFICES ASSUME AppNext \/ UNCHANGED appVars
               PROVE  FlagsNext \/ UNCHANGED flagVars
    OBVIOUS
  <2>1. CASE UNCHANGED appVars
    BY <2>1 DEF appVars
  <2>2. CASE Tick
    <3>1. PublishFlags({Event}) \/ UNCHANGED flagVars
      BY <2>2 DEF Tick, Expire
    <3> QED
      BY <3>1, AppAssumption DEF FlagsNext
  <2>3. ASSUME NEW th \in Waiters, GetEvent(th)
        PROVE  FlagsNext
    <3>1. GetFlags(th, Request) /\ Request \in Asks[th]
      BY <2>3 DEF GetEvent, AsksForEvent
    <3> QED
      BY <3>1 DEF FlagsNext
  <2>4. ASSUME NEW th \in Waiters, Sleep(th) \/ Awake(th)
        PROVE  UNCHANGED flagVars
    BY <2>4 DEF Sleep, Awake
  <2> QED
    BY <2>1, <2>2, <2>3, <2>4 DEF AppNext
<1> QED
  BY <1>1, <1>2, PTL DEF AppSpec, FlagsSpec
=============================================================================
