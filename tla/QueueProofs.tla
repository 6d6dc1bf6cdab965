---------------------------- MODULE QueueProofs -----------------------------
(***************************************************************************)
(* For any number of senders and receivers and every size of messages and  *)
(* of the memory that has room for one: no message is lost, doubled or     *)
(* overtaken, threads are suspended only in calls that cannot go on, and   *)
(* the queue implements Channel.  For any number of users and permits of a *)
(* semaphore: permits are neither lost nor made.                           *)
(***************************************************************************)
EXTENDS Queue, Semaphore, FiniteSetTheorems, SequenceTheorems, TLAPS

\* What a step preserves.
QueueInv == QueueTypeOK /\ SuspendedRightly /\ NothingLost

\* Capacity is a number of messages.
LEMMA CapacityNat ==
  ASSUME QueueAssumption
  PROVE  Capacity \in Nat
<1>1. MemoryBytes \in Nat /\ WordBytes * MessageWords \in Nat \ {0}
  BY DEF QueueAssumption, WordBytes, MessageWords
<1>2. ASSUME NEW a \in Nat, NEW b \in Nat \ {0}
      PROVE  a \div b \in Nat
  OBVIOUS
<1> QED
  BY <1>1, <1>2 DEF Capacity

\* What takes the first element from a sequence, and what adds a last one.
LEMMA TailOf ==
  ASSUME NEW S, NEW s \in Seq(S), s # <<>>
  PROVE  /\ Head(s) = s[1] /\ Head(s) \in S
         /\ Tail(s) \in Seq(S) /\ Len(Tail(s)) = Len(s) - 1 /\ Len(s) \in Nat \ {0}
         /\ \A i \in 1 .. Len(s) - 1 : Tail(s)[i] = s[i + 1]
  OBVIOUS

LEMMA AppendOf ==
  ASSUME NEW S, NEW s \in Seq(S), NEW e \in S
  PROVE  /\ Append(s, e) \in Seq(S) /\ Len(Append(s, e)) = Len(s) + 1 /\ Len(s) \in Nat
         /\ \A i \in 1 .. Len(s) : Append(s, e)[i] = s[i]
         /\ Append(s, e)[Len(s) + 1] = e
  OBVIOUS

\* The threads suspended are senders exactly when the queue is not empty.
LEMMA SendingIs ==
  ASSUME QueueTypeOK, SuspendedRightly
  PROVE  Sending = IF queue # <<>> THEN Len(suspended) ELSE 0
<1>1. suspended # <<>> => 1 \in 1 .. Len(suspended)
  BY DEF QueueTypeOK
<1>2. suspended = <<>> => Len(suspended) = 0
  OBVIOUS
<1> QED
  BY <1>1, <1>2 DEF Sending, SuspendedRightly

LEMMA QueueStart ==
  ASSUME QueueAssumption
  PROVE  QueueInit => QueueInv
  BY CapacityNat DEF QueueInit, QueueInv, QueueTypeOK, SuspendedRightly, NothingLost, Sending

-----------------------------------------------------------------------------
(* The suspension list.                                                    *)

\* A thread that is suspended goes to the end of the list, behind threads that
\* are suspended in the same call.
LEMMA Joins ==
  ASSUME QueueTypeOK, SuspendedRightly, NEW th \in Callers, NEW call \in {"sending", "receiving"},
         pc[th] = "idle",
         suspended' = Append(suspended, th), pc' = [pc EXCEPT ![th] = call],
         UNCHANGED queue,
         call = IF queue # <<>> THEN "sending" ELSE "receiving",
         Len(queue) \in {0, Capacity}
  PROVE  SuspendedRightly'
<1>1. /\ suspended' \in Seq(Callers) /\ Len(suspended') = Len(suspended) + 1
      /\ Len(suspended) \in Nat
      /\ \A i \in 1 .. Len(suspended) : suspended'[i] = suspended[i]
      /\ suspended'[Len(suspended) + 1] = th
  BY AppendOf DEF QueueTypeOK
<1>2. \A i \in 1 .. Len(suspended) : suspended[i] # th /\ suspended[i] \in Callers
  BY DEF SuspendedRightly, QueueTypeOK
<1>3. \A i \in 1 .. Len(suspended') : pc'[suspended'[i]] = call
  BY <1>1, <1>2 DEF SuspendedRightly, QueueTypeOK
<1>4. \A i, j \in 1 .. Len(suspended') : suspended'[i] = suspended'[j] => i = j
  BY <1>1, <1>2 DEF SuspendedRightly
<1>5. ASSUME NEW w \in Callers, pc'[w] # "idle"
      PROVE  \E i \in 1 .. Len(suspended') : suspended'[i] = w
  <2>1. CASE w = th
    BY <1>1, <2>1
  <2>2. CASE w # th
    <3>1. pc[w] # "idle"
      BY <1>5, <2>2 DEF QueueTypeOK
    <3>2. PICK k \in 1 .. Len(suspended) : suspended[k] = w
      BY <3>1 DEF SuspendedRightly
    <3> QED
      BY <1>1, <3>2
  <2> QED
    BY <2>1, <2>2
<1>6. \A w \in Callers : (\E i \in 1 .. Len(suspended') : suspended'[i] = w) => pc'[w] # "idle"
  BY <1>3
<1> QED
  BY <1>3, <1>4, <1>5, <1>6 DEF SuspendedRightly

\* The first thread of the list is resumed: the others stay as they are.
LEMMA Leaves ==
  ASSUME QueueTypeOK, SuspendedRightly, suspended # <<>>,
         suspended' = Tail(suspended), pc' = [pc EXCEPT ![Head(suspended)] = "idle"],
         queue' # <<>> <=> queue # <<>>, Len(queue') = Len(queue)
  PROVE  SuspendedRightly'
<1>1. /\ Head(suspended) = suspended[1] /\ Head(suspended) \in Callers
      /\ suspended' \in Seq(Callers) /\ Len(suspended') = Len(suspended) - 1
      /\ Len(suspended) \in Nat \ {0}
      /\ \A i \in 1 .. Len(suspended) - 1 : suspended'[i] = suspended[i + 1]
  BY TailOf DEF QueueTypeOK
<1>2. \A i \in 1 .. Len(suspended') :
        i + 1 \in 1 .. Len(suspended) /\ i + 1 # 1 /\ suspended'[i] = suspended[i + 1]
  BY <1>1
<1>3. \A i \in 1 .. Len(suspended') : suspended'[i] # suspended[1] /\ suspended'[i] \in Callers
  <2>1. 1 \in 1 .. Len(suspended)
    BY <1>1
  <2>2. \A i, j \in 1 .. Len(suspended) : suspended[i] = suspended[j] => i = j
    BY DEF SuspendedRightly
  <2>3. \A i \in 1 .. Len(suspended) : suspended[i] \in Callers
    BY DEF QueueTypeOK
  <2> QED
    BY <1>2, <2>1, <2>2, <2>3
<1>4. \A i \in 1 .. Len(suspended') :
        pc'[suspended'[i]] = IF queue' # <<>> THEN "sending" ELSE "receiving"
  BY <1>1, <1>2, <1>3 DEF SuspendedRightly, QueueTypeOK
<1>5. \A i, j \in 1 .. Len(suspended') : suspended'[i] = suspended'[j] => i = j
  BY <1>1, <1>2 DEF SuspendedRightly
<1>6. ASSUME NEW w \in Callers, pc'[w] # "idle"
      PROVE  \E i \in 1 .. Len(suspended') : suspended'[i] = w
  <2>1. w # suspended[1] /\ pc[w] # "idle"
    BY <1>1, <1>6 DEF QueueTypeOK
  <2>2. PICK k \in 1 .. Len(suspended) : suspended[k] = w
    BY <2>1 DEF SuspendedRightly
  <2>3. k - 1 \in 1 .. Len(suspended') /\ suspended'[k - 1] = w
    BY <1>1, <2>1, <2>2
  <2> QED
    BY <2>3
<1>7. \A w \in Callers : (\E i \in 1 .. Len(suspended') : suspended'[i] = w) => pc'[w] # "idle"
  BY <1>4
<1>8. Len(queue') \in {0, Capacity}
  BY DEF SuspendedRightly
<1> QED
  BY <1>4, <1>5, <1>6, <1>7, <1>8 DEF SuspendedRightly

-----------------------------------------------------------------------------
(* Each call preserves the invariant.                                      *)

LEMMA StoreStep ==
  ASSUME QueueAssumption, QueueInv, NEW th \in Senders, Send(th), Store(th)
  PROVE  QueueInv'
<1>1. /\ queue' = Append(queue, sent + 1) /\ sent' = sent + 1
      /\ suspended = <<>> /\ suspended' = <<>>
      /\ UNCHANGED <<pc, message, received, smashed>>
      /\ Len(queue) < Capacity
  BY CapacityNat DEF Send, Store, Full, QueueInv, QueueTypeOK
<1>2. /\ queue' \in Seq(Nat) /\ Len(queue') = Len(queue) + 1 /\ Len(queue) \in Nat
      /\ \A i \in 1 .. Len(queue) : queue'[i] = queue[i]
      /\ queue'[Len(queue) + 1] = sent + 1
  BY <1>1, AppendOf DEF QueueInv, QueueTypeOK
<1>3. QueueTypeOK'
  BY <1>1, <1>2, CapacityNat DEF QueueInv, QueueTypeOK
<1>4. SuspendedRightly'
  BY <1>1 DEF QueueInv, SuspendedRightly
<1>5. Sending = 0 /\ Sending' = 0
  BY <1>1 DEF Sending
<1>6. NothingLost'
  BY <1>1, <1>2, <1>5 DEF QueueInv, QueueTypeOK, NothingLost
<1> QED
  BY <1>3, <1>4, <1>6 DEF QueueInv

LEMMA HandOverStep ==
  ASSUME QueueAssumption, QueueInv, NEW th \in Senders, Send(th), HandOver(th)
  PROVE  QueueInv'
<1>1. /\ suspended # <<>> /\ suspended' = Tail(suspended)
      /\ received' = sent + 1 /\ sent' = sent + 1
      /\ pc' = [pc EXCEPT ![Head(suspended)] = "idle"]
      /\ UNCHANGED <<queue, message>>
      /\ Len(queue) < Capacity
  BY CapacityNat DEF Send, HandOver, Full, QueueInv, QueueTypeOK
<1>2. queue = <<>>
  BY <1>1 DEF QueueInv, SuspendedRightly, QueueTypeOK
<1>3. /\ Head(suspended) = suspended[1] /\ Head(suspended) \in Callers
      /\ suspended' \in Seq(Callers) /\ Len(suspended') = Len(suspended) - 1
      /\ Len(suspended) \in Nat \ {0}
      /\ \A i \in 1 .. Len(suspended) - 1 : suspended'[i] = suspended[i + 1]
  BY <1>1, TailOf DEF QueueInv, QueueTypeOK
<1>4. QueueTypeOK'
  BY <1>1, <1>3 DEF QueueInv, QueueTypeOK, HandOver, Written
<1>6. SuspendedRightly'
  BY <1>1, <1>2, Leaves DEF QueueInv
<1>7. Sending = 0 /\ Sending' = 0
  <2>1. Sending = 0
    BY <1>2, SendingIs DEF QueueInv
  <2>2. suspended' # <<>> => 1 \in 1 .. Len(suspended')
    BY <1>3
  <2>3. suspended' # <<>> => pc'[suspended'[1]] = "receiving"
    BY <1>1, <1>2, <1>6, <2>2 DEF SuspendedRightly
  <2> QED
    BY <2>1, <2>3 DEF Sending
<1>8. NothingLost'
  BY <1>1, <1>2, <1>7 DEF QueueInv, QueueTypeOK, NothingLost
<1> QED
  BY <1>4, <1>6, <1>8 DEF QueueInv

LEMMA SendWaitsStep ==
  ASSUME QueueAssumption, Capacity > 0, QueueInv, NEW th \in Senders, Send(th), SendWaits(th)
  PROVE  QueueInv'
<1>1. /\ th \in Callers /\ pc[th] = "idle"
      /\ suspended' = Append(suspended, th) /\ sent' = sent + 1
      /\ message' = [message EXCEPT ![th] = sent + 1]
      /\ pc' = [pc EXCEPT ![th] = "sending"]
      /\ UNCHANGED <<queue, received, smashed>>
      /\ Len(queue) = Capacity /\ queue # <<>> /\ Len(queue) \in Nat
  BY CapacityNat DEF Send, SendWaits, Full, QueueInv, QueueTypeOK, Callers
<1>2. QueueTypeOK'
  BY <1>1, AppendOf, CapacityNat DEF QueueInv, QueueTypeOK
<1>3. SuspendedRightly'
  BY <1>1, Joins DEF QueueInv
<1>4. /\ Len(suspended') = Len(suspended) + 1 /\ Len(suspended) \in Nat
      /\ \A i \in 1 .. Len(suspended) :
           suspended'[i] = suspended[i] /\ suspended[i] # th /\ suspended[i] \in Callers
      /\ suspended'[Len(suspended) + 1] = th
  BY <1>1, AppendOf DEF QueueInv, QueueTypeOK, SuspendedRightly
<1>5. Sending = Len(suspended)
  BY <1>1, SendingIs DEF QueueInv
<1>6. Sending' = Len(suspended) + 1
  <2>1. suspended' # <<>> /\ 1 \in 1 .. Len(suspended')
    BY <1>2, <1>4 DEF QueueTypeOK
  <2>2. pc'[suspended'[1]] = "sending"
    BY <1>1, <1>3, <2>1 DEF SuspendedRightly
  <2> QED
    BY <1>4, <2>1, <2>2 DEF Sending
<1>7. /\ \A i \in 1 .. Len(suspended) : message'[suspended'[i]] = received + Len(queue) + i
      /\ message'[suspended'[Len(suspended) + 1]] = sent + 1
      /\ sent = received + Len(queue) + Len(suspended)
  BY <1>1, <1>4, <1>5 DEF QueueInv, QueueTypeOK, NothingLost
<1>8. /\ \A i \in 1 .. Len(suspended') : message'[suspended'[i]] = received + Len(queue) + i
      /\ sent + 1 = received + Len(queue) + Len(suspended')
  <2>1. received \in Nat /\ Len(queue) \in Nat /\ sent \in Nat
    BY <1>1 DEF QueueInv, QueueTypeOK
  <2>2. sent + 1 = received + Len(queue) + (Len(suspended) + 1)
    BY <1>4, <1>7, <2>1
  <2>3. ASSUME NEW i \in 1 .. Len(suspended) + 1
        PROVE  message'[suspended'[i]] = received + Len(queue) + i
    <3>1. CASE i = Len(suspended) + 1
      BY <1>7, <2>2, <3>1
    <3>2. CASE i # Len(suspended) + 1
      BY <1>4, <1>7, <3>2
    <3> QED
      BY <3>1, <3>2
  <2> QED
    BY <1>4, <2>2, <2>3
<1>9. NothingLost'
  <2>1. Sending' = Len(suspended')
    BY <1>4, <1>6
  <2>2. /\ \A i \in 1 .. Len(queue') : queue'[i] = received' + i
        /\ received' = received /\ Len(queue') = Len(queue) /\ sent' = sent + 1
    BY <1>1 DEF QueueInv, NothingLost
  <2> QED
    BY <1>8, <2>1, <2>2 DEF NothingLost
<1> QED
  BY <1>2, <1>3, <1>9 DEF QueueInv

LEMMA ReceiveWaitsStep ==
  ASSUME QueueAssumption, QueueInv, NEW th \in Receivers, Receive(th), ReceiveWaits(th)
  PROVE  QueueInv'
<1>1. /\ th \in Callers /\ pc[th] = "idle"
      /\ suspended' = Append(suspended, th)
      /\ pc' = [pc EXCEPT ![th] = "receiving"]
      /\ UNCHANGED <<queue, message, received, sent, smashed>>
      /\ queue = <<>> /\ Len(queue) = 0
  BY DEF Receive, ReceiveWaits, Callers
<1>2. QueueTypeOK'
  BY <1>1, AppendOf DEF QueueInv, QueueTypeOK
<1>3. SuspendedRightly'
  BY <1>1, Joins DEF QueueInv
<1>4. Sending = 0
  BY <1>1, SendingIs DEF QueueInv
<1>5. Sending' = 0
  <2>1. suspended' # <<>> /\ 1 \in 1 .. Len(suspended')
    BY <1>1, AppendOf DEF QueueInv, QueueTypeOK
  <2>2. pc'[suspended'[1]] = "receiving"
    BY <1>1, <1>3, <2>1 DEF SuspendedRightly
  <2> QED
    BY <2>2 DEF Sending
<1>6. NothingLost'
  BY <1>1, <1>4, <1>5 DEF QueueInv, QueueTypeOK, NothingLost
<1> QED
  BY <1>2, <1>3, <1>6 DEF QueueInv

LEMMA TakeStep ==
  ASSUME QueueAssumption, Capacity > 0, QueueInv, NEW th \in Receivers, Receive(th), Take(th)
  PROVE  QueueInv'
<1>1. /\ th \in Callers /\ queue # <<>> /\ received' = Head(queue)
      /\ UNCHANGED <<message, sent>> /\ smashed' \in SUBSET Callers
  BY DEF Receive, Take, Callers, Written, QueueInv, QueueTypeOK
<1>2. /\ Head(queue) = queue[1] /\ Head(queue) \in Nat
      /\ Tail(queue) \in Seq(Nat) /\ Len(Tail(queue)) = Len(queue) - 1
      /\ Len(queue) \in Nat \ {0} /\ Len(queue) <= Capacity /\ Capacity \in Nat
      /\ \A i \in 1 .. Len(queue) - 1 : Tail(queue)[i] = queue[i + 1]
  BY <1>1, TailOf, CapacityNat DEF QueueInv, QueueTypeOK
<1>3. received \in Nat /\ received' = received + 1
  BY <1>1, <1>2 DEF QueueInv, QueueTypeOK, NothingLost
<1>4. \A i \in 1 .. Len(queue) - 1 : Tail(queue)[i] = received' + i
  BY <1>2, <1>3 DEF QueueInv, NothingLost
<1>5. Sending = Len(suspended)
  BY <1>1, SendingIs DEF QueueInv
<1>6. CASE suspended = <<>>
  <2>1. queue' = Tail(queue) /\ UNCHANGED <<suspended, pc>>
    BY <1>6 DEF Take
  <2>2. QueueTypeOK'
    BY <1>1, <1>2, <1>3, <2>1 DEF QueueInv, QueueTypeOK
  <2>3. SuspendedRightly'
    BY <1>6, <2>1 DEF QueueInv, SuspendedRightly
  <2>4. Sending = 0 /\ Sending' = 0
    BY <1>6, <2>1 DEF Sending
  <2>5. NothingLost'
    BY <1>1, <1>2, <1>3, <1>4, <2>1, <2>4 DEF QueueInv, QueueTypeOK, NothingLost
  <2> QED
    BY <2>2, <2>3, <2>5 DEF QueueInv
<1>7. CASE suspended # <<>>
  <2>1. /\ queue' = Append(Tail(queue), message[Head(suspended)])
        /\ suspended' = Tail(suspended)
        /\ pc' = [pc EXCEPT ![Head(suspended)] = "idle"]
    BY <1>7 DEF Take
  <2>2. /\ Head(suspended) = suspended[1] /\ Head(suspended) \in Callers
        /\ suspended' \in Seq(Callers) /\ Len(suspended') = Len(suspended) - 1
        /\ Len(suspended) \in Nat \ {0}
        /\ \A i \in 1 .. Len(suspended) - 1 : suspended'[i] = suspended[i + 1]
    BY <1>7, <2>1, TailOf DEF QueueInv, QueueTypeOK
  <2>3. /\ message[suspended[1]] = received + Len(queue) + 1
        /\ message[suspended[1]] \in Nat
        /\ sent = received + Len(queue) + Len(suspended)
    BY <1>5, <2>2 DEF QueueInv, QueueTypeOK, NothingLost
  <2>4. /\ queue' \in Seq(Nat) /\ Len(queue') = Len(queue) /\ queue' # <<>>
        /\ \A i \in 1 .. Len(queue) - 1 : queue'[i] = Tail(queue)[i]
        /\ queue'[Len(queue)] = message[suspended[1]]
    <3>1. (Len(queue) - 1) + 1 = Len(queue)
      BY <1>2
    <3>2. /\ queue' \in Seq(Nat) /\ Len(queue') = Len(queue)
          /\ \A i \in 1 .. Len(queue) - 1 : queue'[i] = Tail(queue)[i]
          /\ queue'[Len(queue)] = message[suspended[1]]
      BY <1>2, <2>1, <2>2, <2>3, <3>1, AppendOf
    <3> QED
      BY <1>2, <3>2
  <2>5. QueueTypeOK'
    BY <1>1, <1>2, <1>3, <2>1, <2>2, <2>4 DEF QueueInv, QueueTypeOK
  <2>6. SuspendedRightly'
    BY <1>1, <1>7, <2>1, <2>4, Leaves DEF QueueInv
  <2>7. Sending' = Len(suspended')
    <3>1. CASE suspended' = <<>>
      BY <3>1 DEF Sending
    <3>2. CASE suspended' # <<>>
      <4>1. 1 \in 1 .. Len(suspended')
        BY <2>2, <3>2
      <4>2. pc'[suspended'[1]] = "sending"
        BY <2>4, <2>6, <4>1 DEF SuspendedRightly
      <4> QED
        BY <3>2, <4>2 DEF Sending
    <3> QED
      BY <3>1, <3>2
  <2>8. \A i \in 1 .. Len(queue') : queue'[i] = received' + i
    <3>1. queue'[Len(queue)] = received' + Len(queue)
      BY <1>2, <1>3, <2>3, <2>4
    <3>2. ASSUME NEW i \in 1 .. Len(queue), i # Len(queue)
          PROVE  queue'[i] = received' + i
      <4>1. i \in 1 .. Len(queue) - 1
        BY <1>2, <3>2
      <4> QED
        BY <1>4, <2>4, <4>1
    <3> QED
      BY <2>4, <3>1, <3>2
  <2>9. \A i \in 1 .. Len(suspended') : message'[suspended'[i]] = received' + Len(queue') + i
    <3>1. ASSUME NEW i \in 1 .. Len(suspended')
          PROVE  message'[suspended'[i]] = received' + Len(queue') + i
      <4>1. i + 1 \in 1 .. Len(suspended) /\ suspended'[i] = suspended[i + 1]
        BY <2>2
      <4>2. message[suspended[i + 1]] = received + Len(queue) + (i + 1)
        BY <1>5, <4>1 DEF QueueInv, NothingLost
      <4>3. message'[suspended'[i]] = received + Len(queue) + (i + 1)
        BY <1>1, <4>1, <4>2
      <4>4. i \in Nat /\ received \in Nat /\ received' = received + 1
            /\ Len(queue') = Len(queue) /\ Len(queue) \in Nat
        BY <1>2, <1>3, <2>2, <2>4
      <4> QED
        BY ONLY <4>3, <4>4
    <3> QED
      BY <3>1
  <2>10. sent' = received' + Len(queue') + Len(suspended')
    <3>1. sent' = received + Len(queue) + Len(suspended)
      BY <1>1, <2>3
    <3>2. received \in Nat /\ received' = received + 1
          /\ Len(queue') = Len(queue) /\ Len(queue) \in Nat
          /\ Len(suspended') = Len(suspended) - 1 /\ Len(suspended) \in Nat
      BY <1>2, <1>3, <2>2, <2>4
    <3> QED
      BY ONLY <3>1, <3>2
  <2>11. NothingLost'
    BY <2>7, <2>8, <2>9, <2>10 DEF NothingLost
  <2> QED
    BY <2>5, <2>6, <2>11 DEF QueueInv
<1> QED
  BY <1>6, <1>7

-----------------------------------------------------------------------------
(* The results.                                                            *)

\* The invariant holds in every queue that has room for one message.
LEMMA QueueInvariant ==
  ASSUME QueueAssumption, Capacity > 0
  PROVE  QueueSpec => []QueueInv
<1>1. QueueInv /\ [QueueNext]_queueVars => QueueInv'
  <2> SUFFICES ASSUME QueueInv, [QueueNext]_queueVars
               PROVE  QueueInv'
    OBVIOUS
  <2>1. CASE UNCHANGED queueVars
    BY <2>1 DEF queueVars, QueueInv, QueueTypeOK, SuspendedRightly, NothingLost, Sending
  <2>2. ASSUME NEW th \in Senders, Send(th)
        PROVE  QueueInv'
    BY <2>2, StoreStep, HandOverStep, SendWaitsStep DEF Send
  <2>3. ASSUME NEW th \in Receivers, Receive(th)
        PROVE  QueueInv'
    BY <2>3, TakeStep, ReceiveWaitsStep DEF Receive
  <2> QED
    BY <2>1, <2>2, <2>3 DEF QueueNext
<1> QED
  BY <1>1, QueueStart, PTL DEF QueueSpec

\* Whatever any number of threads does with a queue of any capacity, the
\* messages in it and those of suspended senders are the ones not received,
\* in the order of the calls of send.
THEOREM NoMessageLost ==
  ASSUME QueueAssumption, Capacity > 0
  PROVE  QueueSpec => []NothingLost
<1>1. QueueInv => NothingLost
  BY DEF QueueInv
<1> QED
  BY <1>1, QueueInvariant, PTL

\* Callers are suspended only in a call that cannot go on, and the kernel
\* knows each of them once.
THEOREM SuspendedForAReason ==
  ASSUME QueueAssumption, Capacity > 0
  PROVE  QueueSpec => []SuspendedRightly
<1>1. QueueInv => SuspendedRightly
  BY DEF QueueInv
<1> QED
  BY <1>1, QueueInvariant, PTL
-----------------------------------------------------------------------------
(* The queue implements the channel.                                       *)

\* What stands for the line and the waiting receivers of the channel.
Line == queue \o [i \in 1 .. Sending |-> message[suspended[i]]]
Waiting == IF Sending = 0 THEN suspended ELSE <<>>

\* The messages sent after the r-th, up to the s-th.
Between(r, s) == [i \in 1 .. s - r |-> r + i]

LEMMA BetweenMore ==
  ASSUME NEW r \in Nat, NEW s \in Nat, r <= s
  PROVE  /\ Between(r, s) \in Seq(Nat)
         /\ Between(r, s + 1) = Append(Between(r, s), s + 1)
<1> DEFINE b == Between(r, s)
           c == Between(r, s + 1)
<1>1. /\ b \in Seq(Nat) /\ Len(b) = s - r
      /\ \A i \in 1 .. s - r : b[i] = r + i
  BY DEF Between
<1>2. /\ c \in Seq(Nat) /\ Len(c) = (s - r) + 1
      /\ \A i \in 1 .. (s - r) + 1 : c[i] = r + i
  <2>1. (s + 1) - r = (s - r) + 1 /\ s - r \in Nat
    OBVIOUS
  <2> QED
    BY <2>1 DEF Between
<1> HIDE DEF b, c
<1>3. /\ Append(b, s + 1) \in Seq(Nat) /\ Len(Append(b, s + 1)) = (s - r) + 1
      /\ \A i \in 1 .. s - r : Append(b, s + 1)[i] = r + i
      /\ Append(b, s + 1)[(s - r) + 1] = s + 1
  BY <1>1, AppendOf
<1>4. r + ((s - r) + 1) = s + 1 /\ s - r \in Nat
  OBVIOUS
<1>5. \A i \in 1 .. (s - r) + 1 : c[i] = Append(b, s + 1)[i]
  BY <1>2, <1>3, <1>4
<1>6. c = Append(b, s + 1)
  BY <1>2, <1>3, <1>5, SeqEqual
<1> QED
  BY <1>1, <1>6 DEF b, c

LEMMA BetweenLess ==
  ASSUME NEW r \in Nat, NEW s \in Nat, r < s
  PROVE  /\ Between(r, s) # <<>> /\ Head(Between(r, s)) = r + 1
         /\ Between(r + 1, s) = Tail(Between(r, s))
<1> DEFINE b == Between(r, s)
           c == Between(r + 1, s)
<1>1. /\ b \in Seq(Nat) /\ Len(b) = s - r /\ s - r \in Nat \ {0}
      /\ \A i \in 1 .. s - r : b[i] = r + i
  BY DEF Between
<1>2. /\ c \in Seq(Nat) /\ Len(c) = (s - r) - 1
      /\ \A i \in 1 .. (s - r) - 1 : c[i] = (r + 1) + i
  <2>1. s - (r + 1) = (s - r) - 1 /\ (s - r) - 1 \in Nat
    OBVIOUS
  <2> QED
    BY <2>1 DEF Between
<1> HIDE DEF b, c
<1>3. b # <<>> /\ Head(b) = r + 1
  BY <1>1
<1>4. /\ Tail(b) \in Seq(Nat) /\ Len(Tail(b)) = (s - r) - 1
      /\ \A i \in 1 .. (s - r) - 1 : Tail(b)[i] = b[i + 1]
  BY <1>1, <1>3, TailOf
<1>5. ASSUME NEW i \in 1 .. (s - r) - 1
      PROVE  c[i] = Tail(b)[i]
  <2>1. b[i + 1] = r + (i + 1) /\ c[i] = (r + 1) + i
    BY <1>1, <1>2
  <2> QED
    BY <2>1, <1>4
<1>6. c = Tail(b)
  BY <1>2, <1>4, <1>5, SeqEqual
<1> QED
  BY <1>3, <1>6 DEF b, c

\* The messages of the queue and of the senders behind it are those between
\* the last received and the last sent.
LEMMA LineIs ==
  ASSUME QueueInv
  PROVE  /\ Line = Between(received, sent)
         /\ sent \in Nat /\ received \in Nat /\ received <= sent
         /\ queue # <<>> => received < sent
<1>1. /\ queue \in Seq(Nat) /\ Len(queue) \in Nat /\ sent \in Nat /\ received \in Nat
      /\ suspended \in Seq(Callers) /\ message \in [Callers -> Nat]
      /\ Len(suspended) \in Nat
  BY DEF QueueInv, QueueTypeOK
<1>2. Sending \in Nat /\ Sending <= Len(suspended)
  BY <1>1, SendingIs DEF QueueInv
<1> DEFINE stacked == [i \in 1 .. Sending |-> message[suspended[i]]]
           n == Sending
<1>3. n \in Nat /\ n <= Len(suspended) /\ sent = received + Len(queue) + n
  BY <1>2 DEF QueueInv, NothingLost
<1>4. \A i \in 1 .. n : stacked[i] = received + Len(queue) + i
  BY DEF QueueInv, NothingLost
<1>5. stacked \in Seq(Nat) /\ Len(stacked) = n
  <2>1. stacked \in [1 .. n -> Nat]
    BY <1>1, <1>3
  <2> QED
    BY <1>3, <2>1
<1>6. Line = queue \o stacked
  BY DEF Line
<1>7. \A i \in 1 .. Len(queue) : queue[i] = received + i
  BY DEF QueueInv, NothingLost
<1> HIDE DEF stacked, n
<1>8. /\ Line \in Seq(Nat) /\ Len(Line) = Len(queue) + n
      /\ \A i \in 1 .. Len(queue) + n :
           Line[i] = IF i <= Len(queue) THEN queue[i] ELSE stacked[i - Len(queue)]
  BY <1>1, <1>5, <1>6, ConcatProperties
<1>9. ASSUME NEW i \in 1 .. Len(queue) + n
      PROVE  Line[i] = received + i
  <2>1. CASE i <= Len(queue)
    <3>1. i \in 1 .. Len(queue)
      BY <1>1, <1>3, <2>1
    <3> QED
      BY <1>7, <1>8, <2>1, <3>1
  <2>2. CASE ~(i <= Len(queue))
    <3>1. i - Len(queue) \in 1 .. n
      BY <1>1, <1>3, <2>2
    <3>2. stacked[i - Len(queue)] = received + Len(queue) + (i - Len(queue))
      BY <1>4, <3>1
    <3>3. Line[i] = received + Len(queue) + (i - Len(queue))
      BY <1>8, <2>2, <3>2
    <3>4. received + Len(queue) + (i - Len(queue)) = received + i
      BY <1>1, <1>3
    <3> QED
      BY <3>3, <3>4
  <2> QED
    BY <2>1, <2>2
<1>10. /\ Between(received, sent) \in Seq(Nat)
       /\ Len(Between(received, sent)) = Len(queue) + n
       /\ \A i \in 1 .. Len(queue) + n : Between(received, sent)[i] = received + i
  <2>1. sent - received = Len(queue) + n /\ Len(queue) + n \in Nat
    BY <1>1, <1>3
  <2> QED
    BY <1>1, <2>1 DEF Between
<1>11. Line = Between(received, sent)
  <2>1. Len(Line) = Len(Between(received, sent))
    BY <1>8, <1>10, Zenon
  <2>2. \A i \in 1 .. Len(Line) : Line[i] = Between(received, sent)[i]
    BY <1>8, <1>9, <1>10, Zenon
  <2> QED
    BY <1>8, <1>10, <2>1, <2>2, SeqEqual, Zenon
<1> QED
  BY <1>1, <1>3, <1>11

LEMMA WaitingIs ==
  ASSUME QueueInv
  PROVE  Waiting = IF queue = <<>> THEN suspended ELSE <<>>
<1>1. suspended \in Seq(Callers)
  BY DEF QueueInv, QueueTypeOK
<1>2. Len(suspended) = 0 => suspended = <<>>
  BY <1>1
<1> QED
  BY <1>2, SendingIs DEF Waiting, QueueInv

\* So it is before every step, and after it.
Mapped ==
  /\ Line = Between(received, sent)
  /\ Waiting = IF queue = <<>> THEN suspended ELSE <<>>

LEMMA MappedNow == QueueInv => Mapped
  BY LineIs, WaitingIs DEF Mapped

LEMMA MappedNext == QueueInv' => Mapped'
  BY MappedNow, PTL

\* A call that stores its message or waits to do so sends it to the line; one
\* that finds a receiver sends it there.
LEMMA SendIsSend ==
  ASSUME QueueAssumption, Capacity > 0, QueueInv, QueueInv', NEW th \in Senders, Send(th)
  PROVE  C!Send
<1>1. /\ Line = Between(received, sent) /\ sent \in Nat /\ received \in Nat /\ received <= sent
      /\ Waiting = IF queue = <<>> THEN suspended ELSE <<>>
  BY LineIs, WaitingIs
<1>2. /\ Line' = Between(received', sent')
      /\ Waiting' = IF queue' = <<>> THEN suspended' ELSE <<>>
  BY MappedNext DEF Mapped
<1>3. sent < MaxSent /\ sent' = sent + 1
  BY DEF Send
<1>4. \/ /\ Waiting = <<>> /\ Line' = Append(Line, sent')
         /\ Waiting' = Waiting /\ received' = received
      \/ /\ Waiting # <<>> /\ Line = <<>> /\ Waiting' = Tail(Waiting)
         /\ received' = sent' /\ Line' = Line
  <2>1. CASE Store(th)
    <3>1. suspended = <<>> /\ suspended' = <<>> /\ received' = received
      BY <2>1 DEF Store
    <3>2. Line' = Append(Line, sent')
      BY <1>1, <1>2, <1>3, <3>1, BetweenMore
    <3> QED
      BY <1>1, <1>2, <3>1, <3>2
  <2>2. CASE HandOver(th)
    <3>1. /\ suspended # <<>> /\ suspended' = Tail(suspended) /\ received' = sent'
          /\ queue' = queue /\ Len(queue) < Capacity
      BY <1>3, <2>2, CapacityNat DEF HandOver, Full, QueueInv, QueueTypeOK
    <3>2. queue = <<>>
      BY <3>1 DEF QueueInv, SuspendedRightly, QueueTypeOK
    <3>3. Sending = 0 /\ sent = received
      <4>1. Sending = 0 /\ Len(queue) = 0
        BY <3>2, SendingIs DEF QueueInv
      <4> QED
        BY <1>1, <4>1 DEF QueueInv, NothingLost
    <3>4. ASSUME NEW r \in Nat
          PROVE  Between(r, r) = <<>>
      BY DEF Between
    <3>5. Line = <<>> /\ Line' = <<>>
      BY <1>1, <1>2, <1>3, <3>1, <3>3, <3>4
    <3> QED
      BY <1>1, <1>2, <3>1, <3>2, <3>5
  <2>3. CASE SendWaits(th)
    <3>1. received' = received /\ queue' = queue /\ Len(queue) >= Capacity
      BY <2>3 DEF SendWaits, Full
    <3>2. queue # <<>>
      BY <3>1, CapacityNat
    <3>3. Line' = Append(Line, sent')
      BY <1>1, <1>2, <1>3, <3>1, BetweenMore
    <3> QED
      BY <1>1, <1>2, <3>1, <3>2, <3>3
  <2> QED
    BY <2>1, <2>2, <2>3 DEF Send
<1> QED
  BY <1>3, <1>4 DEF C!Send, Line, Waiting

\* A receiver takes the first message of the line, or waits behind the others.
LEMMA ReceiveIsReceive ==
  ASSUME QueueAssumption, Capacity > 0, QueueInv, QueueInv', NEW th \in Receivers, Receive(th)
  PROVE  C!Receive(th)
<1>1. /\ Line = Between(received, sent) /\ sent \in Nat /\ received \in Nat /\ received <= sent
      /\ queue # <<>> => received < sent
      /\ Waiting = IF queue = <<>> THEN suspended ELSE <<>>
  BY LineIs, WaitingIs
<1>2. /\ Line' = Between(received', sent')
      /\ Waiting' = IF queue' = <<>> THEN suspended' ELSE <<>>
  BY MappedNext DEF Mapped
<1>3. pc[th] = "idle" /\ sent' = sent /\ th \in Callers
  BY DEF Receive, Callers
<1>4. CASE Take(th)
  <2>1. /\ queue # <<>> /\ received' = Head(queue)
        /\ suspended = <<>> => suspended' = <<>>
    BY <1>4 DEF Take
  <2>2. received' = received + 1
    <3>1. Head(queue) = queue[1] /\ 1 \in 1 .. Len(queue)
      BY <2>1 DEF QueueInv, QueueTypeOK
    <3> QED
      BY <2>1, <3>1 DEF QueueInv, NothingLost
  <2>3. Line # <<>> /\ Line' = Tail(Line) /\ received' = Head(Line)
    BY <1>1, <1>2, <1>3, <2>1, <2>2, BetweenLess
  <2>4. suspended # <<>> => queue' # <<>>
    <3>1. ASSUME suspended # <<>>
          PROVE  queue' = Append(Tail(queue), message[Head(suspended)])
      BY <1>4, <3>1 DEF Take
    <3>2. ASSUME suspended # <<>>
          PROVE  Tail(queue) \in Seq(Nat) /\ message[Head(suspended)] \in Nat
      BY <2>1, <3>2, TailOf DEF QueueInv, QueueTypeOK
    <3>3. ASSUME NEW s \in Seq(Nat), NEW e \in Nat
          PROVE  Append(s, e) # <<>>
      OBVIOUS
    <3> QED
      BY <3>1, <3>2, <3>3
  <2>5. Waiting = <<>> /\ Waiting' = <<>>
    BY <1>1, <1>2, <2>1, <2>4
  <2>6. \A i \in 1 .. Len(Waiting) : Waiting[i] # th
    BY <2>5
  <2> QED
    BY <1>3, <2>3, <2>5, <2>6 DEF C!Receive, C!Take, Line, Waiting
<1>5. CASE ReceiveWaits(th)
  <2>1. /\ queue = <<>> /\ queue' = <<>> /\ suspended' = Append(suspended, th)
        /\ received' = received
    BY <1>5 DEF ReceiveWaits
  <2>2. Waiting = suspended /\ Waiting' = Append(Waiting, th)
    BY <1>1, <1>2, <2>1
  <2>3. \A i \in 1 .. Len(Waiting) : Waiting[i] # th
    BY <1>3, <2>2 DEF QueueInv, SuspendedRightly
  <2>4. Line = <<>> /\ Line' = Line
    <3>1. sent = received
      <4>1. Sending = 0 /\ Len(queue) = 0
        BY <2>1, SendingIs DEF QueueInv
      <4> QED
        BY <1>1, <4>1 DEF QueueInv, NothingLost
    <3>2. ASSUME NEW r \in Nat
          PROVE  Between(r, r) = <<>>
      BY DEF Between
    <3> QED
      BY <1>1, <1>2, <1>3, <2>1, <3>1, <3>2
  <2> QED
    BY <1>3, <2>1, <2>2, <2>3, <2>4 DEF C!Receive, C!Wait, Line, Waiting
<1> QED
  BY <1>3, <1>4, <1>5 DEF Receive

\* For whoever receives, a queue of any capacity with any number of suspended
\* senders is an unbounded channel: every step of the queue is one of the
\* channel, or changes nothing there.
THEOREM QueueIsChannel ==
  ASSUME QueueAssumption, Capacity > 0
  PROVE  QueueSpec => ImplementsChannel
<1>1. QueueInit => C!Init
  <2> SUFFICES ASSUME QueueInit PROVE C!Init
    OBVIOUS
  <2>1. Sending = 0 /\ queue = <<>> /\ suspended = <<>> /\ sent = 0 /\ received = 0
    BY DEF QueueInit, Sending
  <2>2. Line = <<>>
    <3>1. [i \in 1 .. Sending |-> message[suspended[i]]] = <<>>
      BY <2>1
    <3> QED
      BY <2>1, <3>1 DEF Line
  <2> QED
    BY <2>1, <2>2 DEF C!Init, Line
<1>2. QueueInv /\ QueueInv' /\ [QueueNext]_queueVars => [C!Next]_(C!vars)
  <2> SUFFICES ASSUME QueueInv, QueueInv', [QueueNext]_queueVars
               PROVE  [C!Next]_(C!vars)
    OBVIOUS
  <2>1. CASE UNCHANGED queueVars
    <3>1. UNCHANGED <<queue, suspended, pc, message, sent, received>>
      BY <2>1 DEF queueVars
    <3>2. Sending' = Sending
      BY <3>1 DEF Sending
    <3>3. UNCHANGED C!vars
      BY <3>1, <3>2 DEF C!vars
    <3> QED
      BY <3>3
  <2> QED
    BY <2>1, SendIsSend, ReceiveIsReceive DEF QueueNext, C!Next
<1> QED
  BY <1>1, <1>2, QueueInvariant, PTL DEF QueueSpec, ImplementsChannel, C!Spec

-----------------------------------------------------------------------------
(* Semaphore                                                               *)

\* The first of a list of different threads is not in the rest of it, which
\* is a list of different threads again.
LEMMA TailDistinct ==
  ASSUME NEW S, NEW s \in Seq(S), s # <<>>,
         \A i, j \in 1 .. Len(s) : s[i] = s[j] => i = j
  PROVE  /\ Tail(s) \in Seq(S) /\ Head(s) = s[1] /\ Head(s) \in S /\ 1 \in 1 .. Len(s)
         /\ \A i, j \in 1 .. Len(Tail(s)) : Tail(s)[i] = Tail(s)[j] => i = j
         /\ \A i \in 1 .. Len(Tail(s)) : Tail(s)[i] # Head(s) /\ i + 1 \in 1 .. Len(s) /\ Tail(s)[i] = s[i + 1]
<1>1. /\ Tail(s) \in Seq(S) /\ Head(s) = s[1] /\ Head(s) \in S
      /\ Len(s) \in Nat \ {0} /\ Len(Tail(s)) = Len(s) - 1
      /\ \A i \in 1 .. Len(s) - 1 : Tail(s)[i] = s[i + 1]
  OBVIOUS
<1>2. \A i \in 1 .. Len(Tail(s)) : i + 1 \in 1 .. Len(s) /\ i + 1 # 1 /\ Tail(s)[i] = s[i + 1]
  BY <1>1
<1> QED
  BY <1>1, <1>2

\* A list keeps its elements, each once, when one of them goes to the front.
LEMMA FrontedDistinct ==
  ASSUME NEW S, NEW s \in Seq(S), NEW k \in 1 .. Len(s),
         \A i, j \in 1 .. Len(s) : s[i] = s[j] => i = j
  PROVE  /\ Fronted(s, k) \in Seq(S) /\ Len(Fronted(s, k)) = Len(s)
         /\ \A i \in 1 .. Len(s) : \E j \in 1 .. Len(s) : Fronted(s, k)[i] = s[j]
         /\ \A i, j \in 1 .. Len(s) : Fronted(s, k)[i] = Fronted(s, k)[j] => i = j
<1> DEFINE f == Fronted(s, k)
<1>1. /\ Len(s) \in Nat
      /\ \A i \in 1 .. Len(s) : s[i] \in S
  OBVIOUS
<1>2. ASSUME NEW i \in 1 .. Len(s)
      PROVE  f[i] = IF i = 1 THEN s[k] ELSE IF i <= k THEN s[i - 1] ELSE s[i]
  BY DEF Fronted
<1>3. ASSUME NEW i \in 1 .. Len(s)
      PROVE  \E j \in 1 .. Len(s) : f[i] = s[j]
  <2>1. i # 1 => i - 1 \in 1 .. Len(s)
    BY <1>1
  <2> QED
    BY <1>2, <2>1
<1>4. f \in Seq(S) /\ Len(f) = Len(s)
  <2>1. f \in [1 .. Len(s) -> S]
    <3>1. \A i \in 1 .. Len(s) : f[i] \in S
      BY <1>1, <1>3
    <3> QED
      BY <3>1 DEF Fronted
  <2> QED
    BY <1>1, <2>1
<1>5. ASSUME NEW i \in 1 .. Len(s), NEW j \in 1 .. Len(s), f[i] = f[j]
      PROVE  i = j
  <2>1. /\ i # 1 => i - 1 \in 1 .. Len(s)
        /\ j # 1 => j - 1 \in 1 .. Len(s)
    BY <1>1
  <2> HIDE DEF f
  <2> QED
    BY <1>1, <1>2, <1>5, <2>1
<1> QED
  BY <1>3, <1>4, <1>5

\* A holder more, a holder less.
LEMMA HolderMore ==
  ASSUME NEW S, IsFiniteSet(S), NEW x, x \notin S
  PROVE  /\ IsFiniteSet(S \cup {x}) /\ Cardinality(S) \in Nat
         /\ Cardinality(S \cup {x}) = Cardinality(S) + 1
  BY FS_AddElement, FS_CardinalityType

LEMMA HolderLess ==
  ASSUME NEW S, IsFiniteSet(S), NEW x \in S
  PROVE  /\ IsFiniteSet(S \ {x}) /\ Cardinality(S \ {x}) \in Nat
         /\ Cardinality(S) = Cardinality(S \ {x}) + 1
<1> DEFINE T == S \ {x}
<1>1. IsFiniteSet(T)
  BY FS_RemoveElement
<1>2. S = T \cup {x} /\ x \notin T
  OBVIOUS
<1> HIDE DEF T
<1>3. Cardinality(T) \in Nat /\ Cardinality(S) = Cardinality(T) + 1
  BY <1>1, <1>2, HolderMore
<1> QED
  BY <1>1, <1>3 DEF T

\* get takes a permit, or the thread joins the list.
LEMMA GetPermit ==
  ASSUME SemInv, NEW th \in Users, SemGet(th)
  PROVE  SemInv'
<1> USE DEF SemInv
<1>1. CASE count > 0
  <2>1. /\ count' = count - 1 /\ holders' = holders \cup {th} /\ th \notin holders
        /\ semCreated /\ semCreated' /\ semWaiting' = semWaiting
        /\ UNCHANGED <<named, notify, semDeletes, crashed>>
    BY <1>1 DEF SemGet, SemRuns
  <2>2. semWaiting = <<>> /\ count \in Nat
    BY <1>1 DEF WaitersOnlyWhenEmpty, SemTypeOK
  <2>3. /\ IsFiniteSet(holders') /\ Cardinality(holders) \in Nat
        /\ Cardinality(holders') = Cardinality(holders) + 1
    BY <2>1, HolderMore
  <2>4. SemTypeOK'
    BY <1>1, <2>1, <2>2 DEF SemTypeOK
  <2>5. PermitsConserved'
    BY <1>1, <2>1, <2>2, <2>3, InitialCountAssumption DEF PermitsConserved
  <2>6. WaitersOnlyWhenEmpty' /\ WaitsOnce' /\ NoneBefore'
    BY <2>1, <2>2 DEF WaitersOnlyWhenEmpty, WaitsOnce, NoneBefore, SemWaits
  <2> QED
    BY <2>3, <2>4, <2>5, <2>6
<1>2. CASE ~(count > 0)
  <2>1. /\ semWaiting' = Append(semWaiting, th) /\ th \notin holders /\ ~SemWaits(th)
        /\ semCreated /\ semCreated' /\ UNCHANGED <<count, holders, named, notify, semDeletes, crashed>>
    BY <1>2 DEF SemGet, SemRuns
  <2>2. /\ semWaiting \in Seq(Users) /\ Len(semWaiting) \in Nat /\ count \in Nat
        /\ semWaiting' \in Seq(Users) /\ Len(semWaiting') = Len(semWaiting) + 1
        /\ \A i \in 1 .. Len(semWaiting) : semWaiting'[i] = semWaiting[i]
        /\ semWaiting'[Len(semWaiting) + 1] = th
    BY <2>1 DEF SemTypeOK
  <2>3. SemTypeOK'
    BY <2>1, <2>2 DEF SemTypeOK
  <2>4. PermitsConserved' /\ IsFiniteSet(holders')
    BY <2>1 DEF PermitsConserved
  <2>5. WaitersOnlyWhenEmpty' /\ NoneBefore'
    BY <1>2, <2>1, <2>2 DEF WaitersOnlyWhenEmpty, NoneBefore
  <2>6. \A i \in 1 .. Len(semWaiting') :
          \/ i \in 1 .. Len(semWaiting) /\ semWaiting'[i] = semWaiting[i]
          \/ i = Len(semWaiting) + 1 /\ semWaiting'[i] = th
    BY <2>2
  <2>7. WaitsOnce'
    BY <2>1, <2>6 DEF WaitsOnce, SemWaits
  <2> QED
    BY <2>3, <2>4, <2>5, <2>7
<1> QED
  BY <1>1, <1>2

\* put gives the permit back, or on to the first of the list.
LEMMA PutPermit ==
  ASSUME SemInv, NEW th \in Users, SemPut(th)
  PROVE  SemInv'
<1> USE DEF SemInv
<1>1. /\ th \in holders /\ semCreated /\ semCreated' /\ crashed' \in BOOLEAN
      /\ UNCHANGED <<named, notify, semDeletes>>
  BY DEF SemPut, SemRuns, Notified, SemTypeOK
<1>2. /\ IsFiniteSet(holders \ {th}) /\ Cardinality(holders \ {th}) \in Nat
      /\ Cardinality(holders) = Cardinality(holders \ {th}) + 1
  BY <1>1, HolderLess
<1>3. count \in Nat /\ semWaiting \in Seq(Users) /\ holders \subseteq Users
  BY DEF SemTypeOK
<1>4. CASE semWaiting = <<>>
  <2>1. count' = count + 1 /\ holders' = holders \ {th} /\ semWaiting' = semWaiting
    BY <1>4 DEF SemPut
  <2>2. SemTypeOK'
    BY <1>1, <1>3, <2>1 DEF SemTypeOK
  <2>3. PermitsConserved' /\ IsFiniteSet(holders')
    BY <1>1, <1>2, <1>3, <2>1, InitialCountAssumption DEF PermitsConserved
  <2>4. WaitersOnlyWhenEmpty' /\ WaitsOnce' /\ NoneBefore'
    BY <1>1, <1>4, <2>1 DEF WaitersOnlyWhenEmpty, WaitsOnce, NoneBefore, SemWaits
  <2> QED
    BY <2>2, <2>3, <2>4
<1>5. CASE semWaiting # <<>>
  <2> DEFINE first == Head(semWaiting)
  <2>1. /\ semWaiting' = Tail(semWaiting) /\ holders' = (holders \ {th}) \cup {first}
        /\ count' = count
    BY <1>5 DEF SemPut
  <2>2. /\ semWaiting' \in Seq(Users) /\ first \in Users
        /\ \A i, j \in 1 .. Len(semWaiting') : semWaiting'[i] = semWaiting'[j] => i = j
        /\ \A i \in 1 .. Len(semWaiting') : semWaiting'[i] # first /\ SemWaits(semWaiting'[i])
        /\ SemWaits(first)
    <3>1. \A i, j \in 1 .. Len(semWaiting) : semWaiting[i] = semWaiting[j] => i = j
      BY DEF WaitsOnce
    <3>2. /\ Tail(semWaiting) \in Seq(Users) /\ first = semWaiting[1]
          /\ first \in Users /\ 1 \in 1 .. Len(semWaiting)
          /\ \A i, j \in 1 .. Len(Tail(semWaiting)) :
               Tail(semWaiting)[i] = Tail(semWaiting)[j] => i = j
          /\ \A i \in 1 .. Len(Tail(semWaiting)) :
               /\ Tail(semWaiting)[i] # first /\ i + 1 \in 1 .. Len(semWaiting)
               /\ Tail(semWaiting)[i] = semWaiting[i + 1]
      BY <1>3, <1>5, <3>1, TailDistinct
    <3> HIDE DEF first
    <3> QED
      BY <2>1, <3>2 DEF SemWaits
  <2>3. first \notin holders
    BY <2>2 DEF WaitsOnce
  <2> HIDE DEF first
  <2>4. /\ IsFiniteSet(holders')
        /\ Cardinality(holders') = Cardinality(holders)
    BY <1>2, <2>1, <2>3, HolderMore
  <2>5. SemTypeOK'
    BY <1>1, <1>3, <2>1, <2>2 DEF SemTypeOK
  <2>6. PermitsConserved'
    BY <1>1, <2>1, <2>4 DEF PermitsConserved
  <2>7. WaitersOnlyWhenEmpty' /\ NoneBefore'
    BY <1>1, <1>5, <2>1 DEF WaitersOnlyWhenEmpty, NoneBefore
  <2>8. WaitsOnce'
    BY <2>1, <2>2 DEF WaitsOnce, SemWaits
  <2> QED
    BY <2>4, <2>5, <2>6, <2>7, <2>8
<1> QED
  BY <1>4, <1>5

\* prioritize only changes the order of the list.
LEMMA PrioritizePermits ==
  ASSUME SemInv, SemPrioritize
  PROVE  SemInv'
<1> USE DEF SemInv
<1>1. PICK k \in 1 .. Len(semWaiting) : semWaiting' = Fronted(semWaiting, k)
  BY DEF SemPrioritize
<1>2. /\ UNCHANGED <<named, semCreated, count, holders, notify, semDeletes, crashed>>
      /\ semCreated /\ semWaiting \in Seq(Users)
  BY DEF SemPrioritize, SemTypeOK
<1>3. /\ semWaiting' \in Seq(Users) /\ Len(semWaiting') = Len(semWaiting)
      /\ \A i \in 1 .. Len(semWaiting') : SemWaits(semWaiting'[i])
      /\ \A i, j \in 1 .. Len(semWaiting') : semWaiting'[i] = semWaiting'[j] => i = j
  <2>1. \A i, j \in 1 .. Len(semWaiting) : semWaiting[i] = semWaiting[j] => i = j
    BY DEF WaitsOnce
  <2>2. /\ Fronted(semWaiting, k) \in Seq(Users)
        /\ Len(Fronted(semWaiting, k)) = Len(semWaiting)
        /\ \A i \in 1 .. Len(semWaiting) :
             \E j \in 1 .. Len(semWaiting) : Fronted(semWaiting, k)[i] = semWaiting[j]
        /\ \A i, j \in 1 .. Len(semWaiting) :
             Fronted(semWaiting, k)[i] = Fronted(semWaiting, k)[j] => i = j
    BY <1>2, <2>1, FrontedDistinct
  <2> QED
    BY <1>1, <2>2 DEF SemWaits
<1>4. semWaiting # <<>>
  BY <1>1, <1>2
<1>5. SemTypeOK'
  BY <1>2, <1>3 DEF SemTypeOK
<1>6. PermitsConserved' /\ WaitersOnlyWhenEmpty' /\ NoneBefore' /\ IsFiniteSet(holders')
  BY <1>2, <1>4 DEF PermitsConserved, WaitersOnlyWhenEmpty, NoneBefore
<1>7. WaitsOnce'
  BY <1>2, <1>3 DEF WaitsOnce, SemWaits
<1> QED
  BY <1>5, <1>6, <1>7

\* In whatever order any number of threads get, put, prioritize and delete,
\* and also with the handles that are left after delete: permits are neither
\* lost nor made, and nobody waits while there is one.
THEOREM PermitsKept == SemSpec => []SemInv
<1>1. SemInit => SemInv
  <2> SUFFICES ASSUME SemInit PROVE SemInv
    OBVIOUS
  <2>1. IsFiniteSet(holders)
    BY FS_EmptySet DEF SemInit
  <2> QED
    <3>1. PermitsConserved /\ WaitersOnlyWhenEmpty /\ NoneBefore
      BY DEF SemInit, PermitsConserved, WaitersOnlyWhenEmpty, NoneBefore
    <3>2. WaitsOnce
      BY DEF SemInit, WaitsOnce
    <3>3. named \in BOOLEAN /\ semCreated = FALSE /\ notify = FALSE /\ crashed = FALSE
      BY DEF SemInit
    <3>4. {named, semCreated, notify, crashed} \subseteq BOOLEAN
      BY <3>3
    <3>5. SemTypeOK
      BY <3>4 DEF SemInit, SemTypeOK
    <3> QED
      BY <2>1, <3>1, <3>2, <3>5 DEF SemInv
<1>2. SemInv /\ [SemNext]_semVars => SemInv'
  <2> SUFFICES ASSUME SemInv, [SemNext]_semVars
               PROVE  SemInv'
    OBVIOUS
  <2>1. CASE SemInitialize
    <3>1. /\ semWaiting' = <<>> /\ holders' = {} /\ notify' = notify /\ semDeletes' = 0
          /\ count' \in Nat /\ {named', semCreated', crashed'} \subseteq BOOLEAN
          /\ semCreated' => count' = InitialCount
      BY <2>1, InitialCountAssumption DEF SemInitialize, SemInv, SemTypeOK, NoneBefore
    <3>2. IsFiniteSet(holders') /\ Cardinality(holders') = 0
      BY <3>1, FS_EmptySet
    <3> QED
      BY <3>1, <3>2, InitialCountAssumption
      DEF SemInv, SemTypeOK, PermitsConserved, WaitersOnlyWhenEmpty, WaitsOnce, NoneBefore, SemWaits
  <2>2. CASE PutNotify \/ UNCHANGED semVars
    <3>1. /\ UNCHANGED <<named, semCreated, count, semWaiting, holders, semDeletes, crashed>>
          /\ notify' \in BOOLEAN
      BY <2>2 DEF PutNotify, semVars, SemInv, SemTypeOK
    <3> QED
      BY <3>1
      DEF SemInv, SemTypeOK, PermitsConserved, WaitersOnlyWhenEmpty, WaitsOnce, NoneBefore, SemWaits
  <2>3. CASE SemDelete
    BY <2>3
    DEF SemDelete, SemInv, SemTypeOK, PermitsConserved, WaitersOnlyWhenEmpty, WaitsOnce,
        NoneBefore, SemWaits
  <2> QED
    BY <2>1, <2>2, <2>3, GetPermit, PutPermit, PrioritizePermits DEF SemNext
<1> QED
  BY <1>1, <1>2, PTL DEF SemSpec
=============================================================================
