------------------------------- MODULE Queue --------------------------------
(***************************************************************************)
(* Queue<T>, QueueSender<T> and QueueReceiver<T> (queue.rs) on the queue   *)
(* of the kernel: a ring of messages in the memory given to initialize and *)
(* one list of suspended threads, which are senders while it is full and   *)
(* receivers while it is empty.  Messages are numbered in the order they   *)
(* are sent.  send(NoWait) and receive(NoWait) that find no room and no    *)
(* message return an error and change nothing.                             *)
(***************************************************************************)
EXTENDS Naturals, Sequences

CONSTANTS
  Senders,       \* threads with a clone of the QueueSender
  Receivers,     \* threads with a reference to the QueueReceiver
  MessageBytes,  \* size_of::<T>()
  MemoryBytes,   \* length of queue_memory
  MaxSent        \* bound on the number of messages

Callers == Senders \cup Receivers

\* SIZE_OK is asserted when the queue is compiled.
QueueAssumption ==
  /\ MessageBytes \in 4 .. 64
  /\ MemoryBytes \in Nat /\ MaxSent \in Nat

VARIABLES
  queue,      \* messages in the memory of the queue
  suspended,  \* the suspension list of the kernel
  pc,         \* "idle", or the call a thread is suspended in
  message,    \* the message a suspended sender has on its stack
  sent,       \* number of the last message sent
  received,   \* number of the last message received
  smashed     \* threads whose stack a receive has written beyond the message

queueVars == <<queue, suspended, pc, message, sent, received, smashed>>

QueueInit ==
  /\ queue = <<>>
  /\ suspended = <<>>
  /\ pc = [th \in Callers |-> "idle"]
  /\ message = [th \in Callers |-> 0]
  /\ sent = 0
  /\ received = 0
  /\ smashed = {}

-----------------------------------------------------------------------------
(* Queue::initialize                                                       *)

WordBytes == 4

\* The third argument of _tx_queue_create is a number of words; it is given
\* the number of bytes.
MessageWords == MessageBytes

\* Mutant of Capacity: the memory is too small for one message.
CapacityNone == MemoryBytes \div (WordBytes * MessageWords * MemoryBytes)

\* Messages that fit, for the kernel.
Capacity == MemoryBytes \div (WordBytes * MessageWords)

Copied == WordBytes * MessageWords

-----------------------------------------------------------------------------
(* QueueSender::send                                                       *)

Full == Len(queue) >= Capacity

\* The stack of a receiver after the kernel has copied a message to it.
Written(th) == IF Copied > MessageBytes THEN smashed \cup {th} ELSE smashed

Store(th) ==
  /\ ~Full /\ suspended = <<>>
  /\ queue' = Append(queue, sent + 1)
  /\ UNCHANGED <<suspended, pc, message, received, smashed>>

HandOver(th) ==
  /\ ~Full /\ suspended # <<>>
  /\ received' = sent + 1
  /\ suspended' = Tail(suspended)
  /\ pc' = [pc EXCEPT ![Head(suspended)] = "idle"]
  /\ smashed' = Written(Head(suspended))
  /\ UNCHANGED <<queue, message>>

SendWaits(th) ==
  /\ Full
  /\ suspended' = Append(suspended, th)
  /\ message' = [message EXCEPT ![th] = sent + 1]
  /\ pc' = [pc EXCEPT ![th] = "sending"]
  /\ UNCHANGED <<queue, received, smashed>>

\* Mutant of Send: the sender does not wait, and nobody looks at the error.
SendDrops(th) ==
  /\ pc[th] = "idle"
  /\ sent < MaxSent
  /\ sent' = sent + 1
  /\ \/ Store(th) \/ HandOver(th)
     \/ Full /\ UNCHANGED <<queue, suspended, pc, message, received, smashed>>

Send(th) ==
  /\ pc[th] = "idle"
  /\ sent < MaxSent
  /\ sent' = sent + 1
  /\ Store(th) \/ HandOver(th) \/ SendWaits(th)

-----------------------------------------------------------------------------
(* QueueReceiver::receive                                                  *)

\* Mutant of Take: the message of a suspended sender is taken over, the
\* sender is resumed and its entry stays on the list.
TakeForgets(th) ==
  /\ queue # <<>>
  /\ received' = Head(queue)
  /\ smashed' = Written(th)
  /\ IF suspended = <<>>
     THEN /\ queue' = Tail(queue)
          /\ UNCHANGED <<suspended, pc>>
     ELSE /\ queue' = Append(Tail(queue), message[Head(suspended)])
          /\ pc' = [pc EXCEPT ![Head(suspended)] = "idle"]
          /\ UNCHANGED suspended
  /\ UNCHANGED message

Take(th) ==
  /\ queue # <<>>
  /\ received' = Head(queue)
  /\ smashed' = Written(th)
  /\ IF suspended = <<>>
     THEN /\ queue' = Tail(queue)
          /\ UNCHANGED <<suspended, pc>>
     ELSE /\ queue' = Append(Tail(queue), message[Head(suspended)])
          /\ suspended' = Tail(suspended)
          /\ pc' = [pc EXCEPT ![Head(suspended)] = "idle"]
  /\ UNCHANGED message

ReceiveWaits(th) ==
  /\ queue = <<>>
  /\ suspended' = Append(suspended, th)
  /\ pc' = [pc EXCEPT ![th] = "receiving"]
  /\ UNCHANGED <<queue, message, received, smashed>>

Receive(th) ==
  /\ pc[th] = "idle"
  /\ Take(th) \/ ReceiveWaits(th)
  /\ UNCHANGED sent

QueueNext ==
  \/ \E th \in Senders : Send(th)
  \/ \E th \in Receivers : Receive(th)

QueueSpec == QueueInit /\ [][QueueNext]_queueVars

\* A thread that only receives does so in a loop (thread2 of bin/queue.rs).
QueueFairSpec == QueueSpec /\ \A th \in Receivers \ Senders : WF_queueVars(Receive(th))

-----------------------------------------------------------------------------
(* Properties.                                                             *)

\* Type invariant; the queue never holds more than fits in its memory.
QueueTypeOK ==
  /\ queue \in Seq(Nat) /\ Len(queue) <= Capacity
  /\ suspended \in Seq(Callers)
  /\ pc \in [Callers -> {"idle", "sending", "receiving"}]
  /\ message \in [Callers -> Nat]
  /\ sent \in Nat /\ received \in Nat
  /\ smashed \in SUBSET Callers

Sending == IF suspended # <<>> /\ pc[suspended[1]] = "sending" THEN Len(suspended) ELSE 0

\* Whatever the threads do, the messages in the queue, followed by those of
\* the senders the kernel has suspended, are those not yet received, in the
\* order of the calls of send: none is lost, doubled or overtaken.
NothingLost ==
  /\ \A i \in 1 .. Len(queue) : queue[i] = received + i
  /\ \A i \in 1 .. Sending : message[suspended[i]] = received + Len(queue) + i
  /\ sent = received + Len(queue) + Sending

\* A sender is suspended only while the queue is full and a receiver only
\* while it is empty, and the list of the kernel holds exactly the threads
\* suspended, all in the same call: the next call of the other side will
\* resume the first of them.
SuspendedRightly ==
  /\ \A i \in 1 .. Len(suspended) :
       pc[suspended[i]] = IF queue # <<>> THEN "sending" ELSE "receiving"
  /\ \A th \in Callers : pc[th] # "idle" <=> \E i \in 1 .. Len(suspended) : suspended[i] = th
  /\ \A i, j \in 1 .. Len(suspended) : suspended[i] = suspended[j] => i = j
  /\ suspended # <<>> => Len(queue) \in {0, Capacity}

\* Every message sent is received and every sender goes on, as long as one
\* thread goes on receiving.
MessagesArrive ==
  /\ \A k \in 1 .. MaxSent : sent >= k ~> received >= k
  /\ \A th \in Senders : pc[th] = "sending" ~> pc[th] = "idle"

C == INSTANCE Channel WITH
  line    <- queue \o [i \in 1 .. Sending |-> message[suspended[i]]],
  waiting <- IF Sending = 0 THEN suspended ELSE <<>>

\* The bounded queue with its suspended senders looks like an unbounded
\* channel to whoever receives.
ImplementsChannel == C!Spec

\* "the supported messages sizes are 1 to 16 32 bit words" (queue.rs:34): the
\* kernel copies a message of a size that SIZE_OK lets through, and not more.
CopiesFit == smashed = {}
=============================================================================
