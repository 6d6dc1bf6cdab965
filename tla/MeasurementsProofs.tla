------------------------- MODULE MeasurementsProofs -------------------------
(* Theorems about Measurements for queues of every capacity and any number *)
(* of measurements.                                                        *)
EXTENDS Measurements, SequenceTheorems, TLAPS

USE CapacityAssumption

-----------------------------------------------------------------------------
(* What happens to the queue.                                              *)

\* Consecutive(q, n): the queue q continues the count after n.
Consecutive(q, n) == \A i \in 1 .. Len(q) : q[i] = n + i

\* A message that continues the count can be appended.
LEMMA AppendContinues ==
  ASSUME NEW q \in Seq(Nat), NEW n \in Nat, Consecutive(q, n),
         NEW m \in Nat, m = n + Len(q) + 1
  PROVE  /\ Append(q, m) \in Seq(Nat)
         /\ Len(Append(q, m)) = Len(q) + 1
         /\ Consecutive(Append(q, m), n)
<1>1. Len(q) \in Nat
  BY LenProperties
<1>2. /\ Append(q, m) \in Seq(Nat) /\ Len(Append(q, m)) = Len(q) + 1
      /\ \A i \in 1 .. Len(q) : Append(q, m)[i] = q[i]
      /\ Append(q, m)[Len(q) + 1] = m
  BY AppendProperties
<1>3. \A i \in 1 .. Len(q) + 1 : i \in 1 .. Len(q) \/ i = Len(q) + 1
  BY <1>1
<1>4. ASSUME NEW i \in 1 .. Len(q) + 1 PROVE Append(q, m)[i] = n + i
  BY <1>1, <1>2, <1>3 DEF Consecutive
<1>5. Consecutive(Append(q, m), n)
  BY <1>2, <1>4 DEF Consecutive
<1> QED
  BY <1>2, <1>5

\* The head of a queue is the next in the count, the tail goes on after it.
LEMMA TailContinues ==
  ASSUME NEW q \in Seq(Nat), NEW n \in Nat, Consecutive(q, n), q # <<>>
  PROVE  /\ Head(q) = n + 1
         /\ Tail(q) \in Seq(Nat)
         /\ Len(q) \in Nat \ {0}
         /\ Len(Tail(q)) = Len(q) - 1
         /\ Consecutive(Tail(q), n + 1)
<1>1. /\ Len(q) \in Nat \ {0}
      /\ Head(q) = q[1]
      /\ Tail(q) \in Seq(Nat) /\ Len(Tail(q)) = Len(q) - 1
      /\ \A i \in 1 .. Len(q) - 1 : Tail(q)[i] = q[i + 1]
  BY HeadTailProperties, LenProperties, EmptySeq
<1>2. q[1] = n + 1
  BY <1>1 DEF Consecutive
<1>3. ASSUME NEW i \in 1 .. Len(q) - 1 PROVE Tail(q)[i] = (n + 1) + i
  <2>1. i + 1 \in 1 .. Len(q)
    BY <1>1
  <2>2. q[i + 1] = n + (i + 1)
    BY <2>1 DEF Consecutive
  <2> QED
    BY <1>1, <2>2
<1>4. Consecutive(Tail(q), n + 1)
  BY <1>1, <1>3 DEF Consecutive
<1> QED
  BY <1>1, <1>2, <1>4

-----------------------------------------------------------------------------
(* The inductive invariant.                                                *)

\* NothingLost in the words of the lemmas.
LEMMA InOrder ==
  ASSUME TypeOK
  PROVE  NothingLost <=>
           /\ net = "publish" => hand = published + 1
           /\ Consecutive(queue, published + InHand)
           /\ measured = published + InHand + Len(queue) + InSend
  BY DEF NothingLost, Consecutive

\* Right after tx_application_define nothing has been measured.
LEMMA IInvInit == Init => IInv
<1> SUFFICES ASSUME Init PROVE IInv
  OBVIOUS
<1>1. queue \in Seq(Nat) /\ Len(queue) = 0 /\ 0 <= Capacity
  BY EmptySeq DEF Init
<1>2. TypeOK
  BY <1>1, Zenon DEF Init, TypeOK, NetPC, MeasPC, Links
<1>3. NothingLost
  BY <1>1 DEF Init, NothingLost, InHand, InSend
<1> QED
  BY <1>2, <1>3 DEF Init, IInv, StartsWithNetwork, SenderWaitsForRoom

\* Steps that leave the messages where they are.
LEMMA QuietSteps ==
  ASSUME IInv, Initialize \/ Announce \/ Poll \/ ReceiveNothing \/ NetAwake
               \/ Get \/ MeasAwake \/ LinkLost
  PROVE  IInv'
<1>1. /\ UNCHANGED <<queue, measured, hand, published>>
      /\ net = "publish" <=> net' = "publish"
      /\ meas \in {"send", "sending"} <=> meas' \in {"send", "sending"}
      /\ meas' = "sending" => meas = "sending"
  BY DEF Initialize, Announce, Poll, ReceiveNothing, NetAwake, Get, MeasAwake,
         LinkLost, Panic, NetGoto, MeasGoto
<1>2. TypeOK'
  <2> USE DEF IInv, TypeOK, NetPC, MeasPC, Links, NetGoto, MeasGoto, Panic, mqttVars
  <2>1. CASE Initialize \/ Announce
    BY <2>1 DEF Initialize, Announce, Announced
  <2>2. CASE Poll \/ ReceiveNothing
    BY <2>2 DEF Poll, ReceiveNothing
  <2>3. CASE NetAwake \/ Get \/ MeasAwake \/ LinkLost
    BY <2>3 DEF NetAwake, Get, MeasAwake, LinkLost
  <2> QED
    BY <2>1, <2>2, <2>3
<1>3. NothingLost'
  BY <1>1 DEF IInv, NothingLost, InHand, InSend
<1>4. StartsWithNetwork'
  BY DEF IInv, TypeOK, NetPC, MeasPC, StartsWithNetwork, Initialize, Announce,
         Announced, Poll, ReceiveNothing, NetAwake, Get, MeasAwake, LinkLost,
         Panic, NetGoto, MeasGoto
<1>5. SenderWaitsForRoom'
  BY <1>1 DEF IInv, SenderWaitsForRoom
<1> QED
  BY <1>2, <1>3, <1>4, <1>5 DEF IInv

\* A temperature is taken.
LEMMA MeasureStep == ASSUME IInv, Measure PROVE IInv'
<1>1. CASE Panic
  BY <1>1 DEF IInv, TypeOK, NothingLost, InHand, InSend, StartsWithNetwork,
              SenderWaitsForRoom, Panic, mqttVars
<1>2. CASE ~Panic
  <2>1. /\ meas = "measure" /\ meas' = "send" /\ measured' = measured + 1
        /\ UNCHANGED <<net, flag, queue, hand, published, session, link, panicked>>
    BY <1>2 DEF Measure, MeasGoto, mqttVars
  <2>2. TypeOK'
    BY <2>1 DEF IInv, TypeOK, MeasPC
  <2>3. Len(queue) \in Nat
    BY LenProperties DEF IInv, TypeOK
  <2>4. NothingLost'
    BY <2>1, <2>3 DEF IInv, TypeOK, NothingLost, InHand, InSend
  <2> QED
    BY <2>1, <2>2, <2>4 DEF IInv, StartsWithNetwork, SenderWaitsForRoom
<1> QED
  BY <1>1, <1>2

\* The measurement goes to the end of the queue, or its sender waits.
LEMMA SendStep == ASSUME IInv, Send PROVE IInv'
<1>1. /\ meas = "send" /\ Len(queue) \in Nat
      /\ UNCHANGED <<net, flag, measured, hand, published, session, link, panicked>>
  BY LenProperties DEF Send, mqttVars, IInv, TypeOK
<1>2. CASE Full(queue)
  <2>1. queue' = queue /\ meas' = "sending"
    BY <1>2 DEF Send
  <2> QED
    BY <1>1, <1>2, <2>1
    DEF IInv, TypeOK, MeasPC, NothingLost, InHand, InSend, StartsWithNetwork,
        SenderWaitsForRoom, Full
<1>3. CASE ~Full(queue)
  <2> DEFINE n == published + InHand
  <2>1. queue' = Append(queue, measured) /\ meas' = "sleep"
    BY <1>3 DEF Send
  <2>2. /\ n \in Nat /\ InHand' = InHand
        /\ Consecutive(queue, n) /\ measured = n + Len(queue) + 1
    BY <1>1, InOrder DEF IInv, TypeOK, InHand, InSend
  <2>3. /\ queue' \in Seq(Nat) /\ Len(queue') = Len(queue) + 1
        /\ Consecutive(queue', n)
    BY <2>1, <2>2, AppendContinues DEF IInv, TypeOK
  <2>4. TypeOK'
    BY <1>1, <1>3, <2>1, <2>3 DEF IInv, TypeOK, MeasPC, Full
  <2>5. NothingLost'
    <3>1. InSend' = 0 /\ published' = published /\ measured' = measured
      BY <1>1, <2>1 DEF InSend
    <3>2. net' = "publish" => hand' = published' + 1
      BY <1>1 DEF IInv, NothingLost
    <3>3. \A i \in 1 .. Len(queue') : queue'[i] = published' + InHand' + i
      BY <2>2, <2>3, <3>1 DEF Consecutive
    <3>4. measured' = published' + InHand' + Len(queue') + InSend'
      BY <1>1, <2>2, <2>3, <3>1
    <3> QED
      BY <3>2, <3>3, <3>4 DEF NothingLost
  <2> QED
    BY <1>1, <2>1, <2>4, <2>5 DEF IInv, StartsWithNetwork, SenderWaitsForRoom
<1> QED
  BY <1>2, <1>3

\* The first message is taken out; a suspended sender fills the place.
LEMMA ReceiveStep == ASSUME IInv, Receive PROVE IInv'
<1> DEFINE n == published
<1>1. /\ net = "receive" /\ net' = "publish" /\ queue # <<>> /\ hand' = Head(queue)
      /\ UNCHANGED <<flag, measured, published, session, link, panicked>>
  BY DEF Receive, NetGoto, mqttVars
<1>2. /\ InHand = 0 /\ InHand' = 1 /\ n \in Nat /\ queue \in Seq(Nat)
      /\ measured \in Nat
  BY <1>1 DEF InHand, IInv, TypeOK
<1>3. Consecutive(queue, n) /\ measured = n + Len(queue) + InSend
  BY <1>2, InOrder, LenProperties DEF IInv, InSend
<1>4. /\ hand' = n + 1 /\ Tail(queue) \in Seq(Nat)
      /\ Len(queue) \in Nat \ {0} /\ Len(Tail(queue)) = Len(queue) - 1
      /\ Consecutive(Tail(queue), n + 1)
  BY <1>1, <1>2, <1>3, TailContinues
<1>5. CASE meas = "sending"
  <2>1. queue' = Append(Tail(queue), measured) /\ meas' = "sleep"
    BY <1>5 DEF Receive, Refilled
  <2>2. measured = (n + 1) + Len(Tail(queue)) + 1 /\ n + 1 \in Nat
    BY <1>2, <1>3, <1>4, <1>5 DEF InSend
  <2>3. /\ queue' \in Seq(Nat) /\ Len(queue') = Len(queue)
        /\ Consecutive(queue', n + 1)
    <3> DEFINE q == Tail(queue)
               k == n + 1
    <3>1. /\ q \in Seq(Nat) /\ k \in Nat /\ measured \in Nat
          /\ Consecutive(q, k) /\ measured = k + Len(q) + 1
      BY <1>2, <1>4, <2>2
    <3> HIDE DEF q, k
    <3>2. /\ Append(q, measured) \in Seq(Nat)
          /\ Len(Append(q, measured)) = Len(q) + 1
          /\ Consecutive(Append(q, measured), k)
      BY <3>1, AppendContinues
    <3> QED
      BY <1>4, <2>1, <3>2 DEF q, k
  <2>4. TypeOK'
    BY <1>1, <1>2, <1>4, <2>1, <2>3 DEF IInv, TypeOK, NetPC, MeasPC
  <2>5. InSend' = 0 /\ measured = (n + 1) + Len(queue)
    BY <1>4, <2>1, <2>2, <1>2 DEF InSend
  <2>6. Consecutive(queue', published' + InHand')
    BY <1>1, <1>2, <2>3
  <2>7. \A i \in 1 .. Len(queue') : queue'[i] = published' + InHand' + i
    BY <2>6 DEF Consecutive
  <2>8. hand' = published' + 1 /\ measured' = published' + InHand' + Len(queue') + InSend'
    BY <1>1, <1>2, <1>4, <2>3, <2>5
  <2>9. NothingLost'
    BY <2>7, <2>8, Zenon DEF NothingLost
  <2> QED
    BY <1>1, <1>5, <2>1, <2>4, <2>9 DEF IInv, StartsWithNetwork, SenderWaitsForRoom
<1>6. CASE meas # "sending"
  <2>1. queue' = Tail(queue) /\ meas' = meas
    BY <1>6 DEF Receive
  <2>2. TypeOK'
    BY <1>1, <1>2, <1>4, <2>1 DEF IInv, TypeOK, NetPC
  <2>3. InSend' = InSend /\ InSend \in Nat
    BY <2>1 DEF InSend
  <2>4. NothingLost'
    BY <1>1, <1>2, <1>3, <1>4, <2>1, <2>3 DEF NothingLost, Consecutive
  <2> QED
    BY <1>1, <1>6, <2>1, <2>2, <2>4 DEF IInv, StartsWithNetwork, SenderWaitsForRoom
<1> QED
  BY <1>5, <1>6

\* The message in hand is published.
LEMMA PublishStep == ASSUME IInv, Publish PROVE IInv'
<1>1. CASE Panic
  BY <1>1 DEF IInv, TypeOK, NothingLost, InHand, InSend, StartsWithNetwork,
              SenderWaitsForRoom, Panic, mqttVars
<1>2. CASE ~Panic
  <2>1. /\ net = "publish" /\ net' = "sleep" /\ published' = hand /\ hand' = 0
        /\ UNCHANGED <<meas, flag, queue, measured, session, link, panicked>>
    BY <1>2 DEF Publish, NetGoto, mqttVars
  <2>2. /\ hand = published + 1 /\ InHand = 1 /\ InHand' = 0 /\ InSend' = InSend
        /\ published \in Nat
    BY <2>1 DEF IInv, TypeOK, NothingLost, InHand, InSend
  <2>3. TypeOK'
    BY <2>1 DEF IInv, TypeOK, NetPC
  <2>4. NothingLost'
    BY <2>1, <2>2 DEF IInv, NothingLost
  <2> QED
    BY <2>1, <2>3, <2>4 DEF IInv, StartsWithNetwork, SenderWaitsForRoom
<1> QED
  BY <1>1, <1>2

\* Every step keeps the inductive invariant.
LEMMA IInvStep == IInv /\ [Next]_vars => IInv'
<1> SUFFICES ASSUME IInv, [Next]_vars PROVE IInv'
  OBVIOUS
<1>1. CASE Next
  BY <1>1, QuietSteps, MeasureStep, SendStep, ReceiveStep, PublishStep
  DEF Next, NetStep, MeasStep
<1>2. CASE UNCHANGED vars
  BY <1>2
  DEF vars, mqttVars, IInv, TypeOK, NothingLost, InHand, InSend,
      StartsWithNetwork, SenderWaitsForRoom
<1> QED
  BY <1>1, <1>2

\* The inductive invariant holds for every capacity.
THEOREM Inductive == Spec => []IInv
  BY IInvInit, IInvStep, PTL DEF Spec

\* The MQTT client is handed every measurement once and in order, for a queue of
\* any capacity.
THEOREM NoMeasurementLost == Spec => []NothingLost
<1>1. IInv => NothingLost
  BY DEF IInv
<1> QED
  BY <1>1, Inductive, PTL

\* The start of the measurements is neither early nor missed.
THEOREM StartNotMissed == Spec => []StartsWithNetwork
<1>1. IInv => StartsWithNetwork
  BY DEF IInv
<1> QED
  BY <1>1, Inductive, PTL

\* do_measurement is suspended only on a full queue, whatever its capacity: the
\* next receive resumes it.
THEOREM SenderHasReason == Spec => []SenderWaitsForRoom
<1>1. IInv => SenderWaitsForRoom
  BY DEF IInv
<1> QED
  BY <1>1, Inductive, PTL

\* The queue never holds more than fits in its memory.
THEOREM QueueFits == Spec => []TypeOK
<1>1. IInv => TypeOK
  BY DEF IInv
<1> QED
  BY <1>1, Inductive, PTL

-----------------------------------------------------------------------------
(* From end to end: a channel from the sensor to the MQTT client.          *)

\* The n numbers after a.
Count(a, n) == [i \in 1 .. n |-> a + i]

\* It is a sequence of n numbers.
LEMMA CountIsSeq ==
  ASSUME NEW a \in Nat, NEW n \in Nat
  PROVE  /\ Count(a, n) \in Seq(Nat) /\ Len(Count(a, n)) = n
         /\ \A i \in 1 .. n : Count(a, n)[i] = a + i
  BY DEF Count

\* Counting n numbers and then m more is counting n + m.
LEMMA CountOn ==
  ASSUME NEW a \in Nat, NEW n \in Nat, NEW m \in Nat
  PROVE  Count(a, n) \o Count(a + n, m) = Count(a, n + m)
<1> DEFINE s == Count(a, n)
           t == Count(a + n, m)
           u == Count(a, n + m)
<1>1. /\ s \in Seq(Nat) /\ Len(s) = n /\ \A i \in 1 .. n : s[i] = a + i
      /\ t \in Seq(Nat) /\ Len(t) = m /\ \A i \in 1 .. m : t[i] = a + n + i
      /\ u \in Seq(Nat) /\ Len(u) = n + m /\ \A i \in 1 .. n + m : u[i] = a + i
  <2>1. a + n \in Nat /\ n + m \in Nat
    OBVIOUS
  <2>2. t \in Seq(Nat) /\ Len(t) = m /\ \A i \in 1 .. m : t[i] = (a + n) + i
    BY <2>1, CountIsSeq
  <2>3. s \in Seq(Nat) /\ Len(s) = n /\ \A i \in 1 .. n : s[i] = a + i
    BY CountIsSeq
  <2>4. u \in Seq(Nat) /\ Len(u) = n + m /\ \A i \in 1 .. n + m : u[i] = a + i
    BY <2>1, CountIsSeq
  <2> HIDE DEF s, t, u
  <2> QED
    BY <2>2, <2>3, <2>4
<1> HIDE DEF s, t, u
<1>2. /\ s \o t \in Seq(Nat) /\ Len(s \o t) = n + m
      /\ \A i \in 1 .. n + m : (s \o t)[i] = IF i <= n THEN s[i] ELSE t[i - n]
  <2>1. /\ s \o t \in Seq(Nat)
        /\ Len(s \o t) = Len(s) + Len(t)
        /\ \A i \in 1 .. Len(s) + Len(t) :
             (s \o t)[i] = IF i <= Len(s) THEN s[i] ELSE t[i - Len(s)]
    BY <1>1, ConcatProperties, Zenon
  <2>2. Len(s) = n /\ Len(t) = m
    BY <1>1
  <2> QED
    BY <2>1, <2>2, Zenon
<1>3. ASSUME NEW i \in 1 .. n + m
      PROVE  (s \o t)[i] = u[i]
  <2>u. u[i] = a + i
    BY <1>1
  <2>1. CASE i <= n
    <3>1. i \in 1 .. n
      BY <2>1
    <3>2. s[i] = a + i
      BY <1>1, <3>1
    <3>3. (s \o t)[i] = s[i]
      BY <1>2, <2>1
    <3> QED
      BY <2>u, <3>2, <3>3
  <2>2. CASE i > n
    <3>1. i - n \in 1 .. m /\ (a + n) + (i - n) = a + i
      BY <2>2
    <3>2. t[i - n] = a + n + (i - n)
      BY <1>1, <3>1
    <3>3. (s \o t)[i] = t[i - n]
      BY <1>2, <2>2
    <3> QED
      BY <2>u, <3>1, <3>2, <3>3
  <2>3. i <= n \/ i > n
    OBVIOUS
  <2> QED
    BY <2>1, <2>2, <2>3
<1>4. s \o t = u
  BY <1>1, <1>2, <1>3, SeqEqual
<1> QED
  BY <1>4 DEF s, t, u

\* Sending counts one further, receiving takes the first.
LEMMA CountMoves ==
  ASSUME NEW a \in Nat, NEW n \in Nat
  PROVE  /\ Append(Count(a, n), a + n + 1) = Count(a, n + 1)
         /\ n > 0 => /\ Count(a, n) # <<>>
                     /\ Head(Count(a, n)) = a + 1
                     /\ Tail(Count(a, n)) = Count(a + 1, n - 1)
<1>1. /\ Count(a, n) \in Seq(Nat) /\ Len(Count(a, n)) = n
      /\ \A i \in 1 .. n : Count(a, n)[i] = a + i
  BY CountIsSeq DEF Count
<1>2. Count(a, n + 1) \in Seq(Nat) /\ Len(Count(a, n + 1)) = n + 1
  BY n + 1 \in Nat, CountIsSeq
<1>3. Append(Count(a, n), a + n + 1) = Count(a, n + 1)
  <2> DEFINE s == Append(Count(a, n), a + n + 1)
  <2>1. s \in Seq(Nat) /\ Len(s) = n + 1
    BY <1>1
  <2>2. ASSUME NEW i \in 1 .. n + 1
        PROVE  s[i] = Count(a, n + 1)[i]
    <3>1. Count(a, n + 1)[i] = a + i
      BY DEF Count
    <3>2. s[i] = IF i = n + 1 THEN a + n + 1 ELSE Count(a, n)[i]
      BY <1>1
    <3>3. i # n + 1 => i \in 1 .. n
      OBVIOUS
    <3> QED
      BY <1>1, <3>1, <3>2, <3>3
  <2> HIDE DEF s
  <2>3. s = Count(a, n + 1)
    BY <1>2, <2>1, <2>2, SeqEqual
  <2> QED
    BY <2>3 DEF s
<1>4. ASSUME n > 0
      PROVE  Count(a, n) # <<>> /\ Head(Count(a, n)) = a + 1
  BY <1>1, <1>4
<1>5. ASSUME n > 0
      PROVE  Tail(Count(a, n)) = Count(a + 1, n - 1)
  <2> DEFINE t == Tail(Count(a, n))
  <2>1. t \in Seq(Nat) /\ Len(t) = n - 1
    BY <1>1, <1>4, <1>5
  <2>2. Count(a + 1, n - 1) \in Seq(Nat) /\ Len(Count(a + 1, n - 1)) = n - 1
    BY <1>5, a + 1 \in Nat, n - 1 \in Nat, CountIsSeq
  <2>3. ASSUME NEW i \in 1 .. n - 1
        PROVE  t[i] = Count(a + 1, n - 1)[i]
    <3>1. Count(a + 1, n - 1)[i] = a + 1 + i
      BY DEF Count
    <3>2. i + 1 \in 1 .. n
      OBVIOUS
    <3>3. t[i] = Count(a, n)[i + 1]
      BY <1>1, <1>4, <1>5
    <3> QED
      BY <1>1, <3>1, <3>2, <3>3
  <2> HIDE DEF t
  <2>4. t = Count(a + 1, n - 1)
    BY <2>1, <2>2, <2>3, SeqEqual
  <2> QED
    BY <2>4 DEF t
<1> QED
  BY <1>3, <1>4, <1>5

\* What is in transit are the measurements taken and not published, in order.
TransitInv ==
  /\ published \in Nat /\ measured - published \in Nat
  /\ InTransit = Count(published, measured - published)

\* The invariant says so, wherever each of them is.
LEMMA TransitCounts == IInv => TransitInv
<1> SUFFICES ASSUME IInv PROVE TransitInv
  OBVIOUS
<1> DEFINE inHand == IF net = "publish" THEN <<hand>> ELSE <<>>
           inSend == IF meas \in {"send", "sending"} THEN <<measured>> ELSE <<>>
           n == Len(queue)
<1>1. /\ published \in Nat /\ measured \in Nat /\ InHand \in {0, 1} /\ InSend \in {0, 1}
      /\ n \in Nat /\ queue \in Seq(Nat)
      /\ measured = published + InHand + n + InSend
  BY LenProperties DEF IInv, TypeOK, NothingLost, InHand, InSend
<1>2. queue = Count(published + InHand, n)
  BY <1>1 DEF IInv, NothingLost, Count
<1>3. inHand = Count(published, InHand)
  BY <1>1 DEF IInv, NothingLost, InHand, Count
<1>4. inSend = Count(published + (InHand + n), InSend)
  BY <1>1 DEF InSend, Count
<1> HIDE DEF inHand, inSend, n
<1>5. inHand \o queue = Count(published, InHand + n)
  <2>1. published \in Nat /\ InHand \in Nat /\ n \in Nat
    BY <1>1
  <2>2. Count(published, InHand) \o Count(published + InHand, n) = Count(published, InHand + n)
    BY <2>1, CountOn, Zenon
  <2> QED
    BY <1>2, <1>3, <2>2, Zenon
<1>6. (inHand \o queue) \o inSend = Count(published, (InHand + n) + InSend)
  <2>1. published \in Nat /\ InHand + n \in Nat /\ InSend \in Nat
    BY <1>1
  <2>2. Count(published, InHand + n) \o Count(published + (InHand + n), InSend)
          = Count(published, (InHand + n) + InSend)
    BY <2>1, CountOn, Zenon
  <2> QED
    BY <1>4, <1>5, <2>2, Zenon
<1>7. InTransit = (inHand \o queue) \o inSend
  BY DEF InTransit, inHand, inSend
<1>8. measured - published = (InHand + n) + InSend /\ measured - published \in Nat
  BY <1>1
<1> QED
  BY <1>1, <1>6, <1>7, <1>8 DEF TransitInv

\* Measure sends, Publish receives, and every other step moves measurements
\* along without the channel noticing.
LEMMA LineStep ==
  ASSUME IInv, TransitInv, TransitInv', [Next]_vars
  PROVE  [Line!Next]_(Line!vars)
<1> DEFINE n == measured - published
<1>1. published \in Nat /\ measured \in Nat /\ n \in Nat /\ InTransit = Count(published, n)
  BY DEF TransitInv, IInv, TypeOK
<1>2. InTransit' = Count(published', measured' - published')
  BY DEF TransitInv
<1>3. ASSUME UNCHANGED <<measured, published>>
      PROVE  UNCHANGED Line!vars
  BY <1>1, <1>2, <1>3 DEF Line!vars
<1>4. CASE Measure /\ ~Panic
  <2>1. measured < MaxMeasured /\ measured' = measured + 1 /\ published' = published
    BY <1>4 DEF Measure, MeasGoto
  <2>2. measured' - published' = n + 1 /\ measured' = published + n + 1
    BY <1>1, <2>1
  <2>3. InTransit' = Append(InTransit, measured')
    <3> HIDE DEF n
    <3>1. Append(Count(published, n), published + n + 1) = Count(published, n + 1)
      BY <1>1, CountMoves, Zenon
    <3>2. InTransit' = Count(published, n + 1)
      BY <1>2, <2>1, <2>2, Zenon
    <3> QED
      BY <1>1, <2>2, <3>1, <3>2, Zenon
  <2>4. Line!Send
    BY <2>1, <2>3 DEF Line!Send
  <2> QED
    BY <2>4 DEF Line!Next
<1>5. CASE Publish /\ ~Panic
  <2>1. net = "publish" /\ published' = hand /\ measured' = measured
    BY <1>5 DEF Publish, NetGoto
  <2>2. published' = published + 1 /\ n > 0 /\ measured' - published' = n - 1
    BY <1>1, <2>1, LenProperties DEF IInv, TypeOK, NothingLost, InHand, InSend
  <2>3. /\ InTransit # <<>>
        /\ InTransit' = Tail(InTransit)
        /\ published' = Head(InTransit)
    <3> HIDE DEF n
    <3>1. /\ Count(published, n) # <<>> /\ Head(Count(published, n)) = published + 1
          /\ Tail(Count(published, n)) = Count(published + 1, n - 1)
      BY <1>1, <2>2, CountMoves, Zenon
    <3>2. InTransit' = Count(published + 1, n - 1)
      BY <1>2, <2>2, Zenon
    <3> QED
      BY <1>1, <2>2, <3>1, <3>2, Zenon
  <2>4. Line!Take("client") /\ Len(<<>>) = 0
    BY <2>1, <2>3 DEF Line!Take
  <2>5. Line!Receive("client")
    BY <2>4 DEF Line!Receive
  <2> QED
    BY <2>5 DEF Line!Next
<1>6. CASE Initialize \/ Announce \/ Poll \/ ReceiveNothing \/ NetAwake \/ Get \/ MeasAwake
           \/ LinkLost \/ Receive \/ Send \/ Panic \/ UNCHANGED vars
  BY <1>3, <1>6
  DEF Initialize, Announce, Poll, ReceiveNothing, NetAwake, Get, MeasAwake, LinkLost, Receive, Send,
      Panic, vars
<1> QED
  BY <1>4, <1>5, <1>6 DEF Next, NetStep, MeasStep

\* With a queue of any capacity, the two threads and the queue between them
\* implement a channel from the sensor to the MQTT client.
THEOREM NetworkIsChannel == Spec => ChannelToClient
<1>1. Init => Line!Init
  BY DEF Init, Line!Init, InTransit
<1>2. IInv /\ TransitInv /\ TransitInv' /\ [Next]_vars => [Line!Next]_(Line!vars)
  BY LineStep
<1> QED
  BY <1>1, <1>2, TransitCounts, Inductive, PTL DEF Spec, ChannelToClient, Line!Spec

-----------------------------------------------------------------------------
(* The flag is an event flags group.                                       *)

\* The first get of do_measurement, on the group as it is.
LEMMA GetOfGroup ==
  ASSUME IInv, Get
  PROVE  Group!GetFlags("do_measurement", Connected)
<1>1. /\ meas = "get" /\ meas' = IF flag THEN "measure" ELSE "suspended"
      /\ flag' = FALSE /\ flag \in BOOLEAN
  BY DEF Get, IInv, TypeOK
<1> USE DEF Group!GetFlags, Group!Satisfied, Group!All, Group!Left, Group!Clears, Group!Returned,
            Group!Queued, Connected, Getters, GroupFlags, GroupWaiting, GroupAhead, GroupRequest,
            GroupGot
<1>2. CASE flag
  BY <1>1, <1>2
<1>3. CASE ~flag
  BY <1>1, <1>3
<1> QED
  BY <1>2, <1>3

\* do_network announces once, to a thread that waits or has not asked yet.
LEMMA AnnounceOfGroup ==
  ASSUME IInv, Announce
  PROVE  Group!PublishFlags({1})
<1> DEFINE th == "do_measurement"
           bits == Group!SetAny({1})
           resumed == GroupWaiting
<1>1. net = "announce" /\ meas \in {"get", "suspended"} /\ flag = FALSE
  BY DEF Announce, NetGoto, IInv, StartsWithNetwork, TypeOK
<1>2. /\ meas = "get" => meas' = "get" /\ flag' = TRUE
      /\ meas = "suspended" => meas' = "measure" /\ flag' = FALSE
  BY <1>1 DEF Announce, Announced
<1>3. bits = {1} /\ Getters = {th}
  BY <1>1 DEF GroupFlags, Group!SetAny, Getters
<1>4. /\ GroupAhead' = GroupAhead /\ GroupAhead[th] = {} /\ GroupRequest' = GroupRequest
      /\ GroupWaiting \subseteq Getters /\ GroupWaiting' = {}
      /\ th \in GroupWaiting => GroupRequest[th] = Connected
  BY <1>1, <1>2 DEF Getters, GroupAhead, GroupRequest, GroupWaiting
<1>5. /\ GroupFlags' = IF th \in GroupWaiting THEN {} ELSE {1}
      /\ GroupGot' = [w \in Getters |-> IF w \in GroupWaiting THEN {1} ELSE GroupGot[w]]
  BY <1>1, <1>2 DEF Getters, GroupFlags, GroupGot, GroupWaiting
<1> HIDE DEF bits
<1>6. ASSUME NEW w \in Getters
      PROVE  Group!Given(w, bits, resumed, GroupRequest, GroupAhead, FALSE) = {1}
  BY <1>3 DEF Group!Given, Group!Remaining
<1>7. ASSUME NEW w \in resumed
      PROVE  Group!Satisfied({1}, GroupRequest[w])
  BY <1>3, <1>4 DEF Group!Satisfied, Group!All, Connected
<1>8. Group!Resumes(resumed, bits, GroupWaiting, GroupRequest, GroupAhead, FALSE)
  BY <1>4, <1>6, <1>7 DEF Group!Resumes
<1>9. GroupFlags' = Group!Remaining(bits, resumed, GroupRequest)
  BY <1>3, <1>4, <1>5 DEF Group!Remaining, Group!Left, Group!Clears, Connected
<1>10. GroupWaiting' = GroupWaiting \ resumed /\ UNCHANGED GroupRequest
  BY <1>4
<1>11. GroupAhead' =
         [w \in Getters |-> IF w \in GroupWaiting \ resumed THEN GroupAhead[w] \ resumed ELSE {}]
  BY <1>4 DEF GroupAhead
<1>12. GroupGot' = [w \in Getters |->
                      IF w \in resumed
                      THEN Group!Returned(Group!Given(w, bits, resumed, GroupRequest, GroupAhead, FALSE),
                                          GroupRequest[w])
                      ELSE GroupGot[w]]
  BY <1>5, <1>6 DEF Group!Returned
<1> QED
  BY <1>8, <1>9, <1>10, <1>11, <1>12, Zenon DEF Group!PublishFlags, bits

\* What the two threads do with their flag is a behaviour of EventFlags: one
\* publish, one get, in either order.
THEOREM FlagIsGroup == Spec => UsesGroup
<1>1. Init => Group!FlagsInit
  BY DEF Init, Group!FlagsInit, Getters, GroupFlags, GroupWaiting, GroupAhead, GroupRequest, GroupGot
<1>2. IInv /\ [Next]_vars => [Group!FlagsNext]_(Group!flagVars)
  <2> SUFFICES ASSUME IInv, [Next]_vars
               PROVE  Group!FlagsNext \/ UNCHANGED Group!flagVars
    OBVIOUS
  <2>1. CASE Get
    BY <2>1, GetOfGroup DEF Group!FlagsNext, Getters
  <2>2. CASE Announce
    BY <2>2, AnnounceOfGroup DEF Group!FlagsNext
  <2>3. ASSUME UNCHANGED flag, meas # "get", meas' # "get",
               meas = "suspended" <=> meas' = "suspended"
        PROVE  UNCHANGED Group!flagVars
    BY <2>3 DEF Group!flagVars, GroupFlags, GroupWaiting, GroupAhead, GroupRequest, GroupGot
  <2>4. ASSUME UNCHANGED <<flag, meas>>
        PROVE  UNCHANGED Group!flagVars
    BY <2>4 DEF Group!flagVars, GroupFlags, GroupWaiting, GroupAhead, GroupRequest, GroupGot
  <2>5. CASE Initialize \/ Poll \/ ReceiveNothing \/ Publish \/ NetAwake \/ LinkLost \/ UNCHANGED vars
    BY <2>4, <2>5 DEF Initialize, Poll, ReceiveNothing, Publish, NetAwake, LinkLost, Panic, vars
  <2>6. CASE Receive
    BY <2>3, <2>4, <2>6 DEF Receive
  <2>7. CASE Measure \/ Send \/ MeasAwake
    BY <2>3, <2>4, <2>7 DEF Measure, Send, MeasAwake, MeasGoto, Panic
  <2> QED
    BY <2>1, <2>2, <2>5, <2>6, <2>7 DEF Next, NetStep, MeasStep
<1> QED
  BY <1>1, <1>2, Inductive, PTL DEF Spec, UsesGroup, Group!FlagsSpec
=============================================================================
