---------------------------- MODULE Measurements ----------------------------
(***************************************************************************)
(* The application of bin/network.rs once tx_application_define has        *)
(* returned: do_measurement waits for an event flag and then sends one     *)
(* temperature after the other through the queue, do_network brings up the *)
(* network, sets the flag, keeps the MQTT client connected and publishes   *)
(* what it receives.  Measurements are numbered in the order they are      *)
(* taken.  The kernel (flag, queue, sleep), the MQTT client and the peer   *)
(* are as the code uses them.  A message is published when it has been     *)
(* handed to the client: with QoS 0 nobody learns whether it arrives at    *)
(* the broker.  A panic halts the processor.                               *)
(***************************************************************************)
EXTENDS Naturals, Sequences

CONSTANTS
  Capacity,     \* messages that fit in QUEUE_MEM
  MaxMeasured   \* bound on the number of measurements

ASSUME CapacityAssumption == Capacity \in Nat \ {0} /\ MaxMeasured \in Nat

VARIABLES
  net,        \* where do_network is
  meas,       \* where do_measurement is
  flag,       \* WifiConnected is set in the event flags group
  queue,      \* messages in the queue
  measured,   \* number of the last measurement
  hand,       \* message do_network has received, while it publishes it
  published,  \* number of the last measurement handed to the MQTT client
  session,    \* the MQTT client takes itself for connected
  link,       \* its TCP connection
  panicked

vars == <<net, meas, flag, queue, measured, hand, published, session, link, panicked>>
mqttVars == <<session, link>>

NetPC == {"init", "announce", "poll", "receive", "publish", "sleep"}
MeasPC == {"get", "suspended", "measure", "send", "sending", "sleep"}

\* "reset": by the peer, which leaves the socket bound.
Links == {"up", "down", "reset"}

\* tx_application_define has created queue, flags, display and both threads.
Init ==
  /\ net = "init"
  /\ meas = "get"
  /\ flag = FALSE
  /\ queue = <<>>
  /\ measured = 0
  /\ hand = 0
  /\ published = 0
  /\ session = FALSE
  /\ link = "down"
  /\ panicked = FALSE

NetGoto(from, to) == ~panicked /\ net = from /\ net' = to
MeasGoto(from, to) == ~panicked /\ meas = from /\ meas' = to

Panic ==
  /\ panicked' = TRUE
  /\ UNCHANGED <<net, meas, flag, queue, measured, hand, published, mqttVars>>

-----------------------------------------------------------------------------
(* do_network                                                              *)

\* Executor, display, network, MQTT configuration and clock.
Initialize ==
  \/ /\ NetGoto("init", "announce")
     /\ UNCHANGED <<meas, flag, queue, measured, hand, published, mqttVars, panicked>>
  \/ ~panicked /\ net = "init" /\ Panic

\* Mutant of Announced: only a thread that waits already learns of it.
AnnouncedOnce(f) == FALSE

\* The flag after a publish that resumed nobody.
Announced(f) == TRUE

\* evt_handle.publish(WifiConnected): resumes do_measurement, whose get
\* clears the flag, or leaves it set.
Announce ==
  /\ NetGoto("announce", "poll")
  /\ IF meas = "suspended"
     THEN meas' = "measure" /\ flag' = flag
     ELSE meas' = meas /\ flag' = Announced(flag)
  /\ UNCHANGED <<queue, measured, hand, published, mqttVars, panicked>>

\* transport.poll(), then is_connected(): the client notices that it has lost
\* its connection, or not yet, or tries to connect again, for which a socket
\* that was reset is never fit; other errors panic.
Poll ==
  \/ /\ ~panicked
     /\ net = "poll"
     /\ \/ UNCHANGED mqttVars
        \/ session /\ link # "up" /\ session' = FALSE /\ link' = link
        \/ ~session /\ link # "reset" /\ session' = TRUE /\ link' = "up"
     /\ net' = IF session' THEN "receive" ELSE "sleep"
     /\ UNCHANGED <<meas, flag, queue, measured, hand, published, panicked>>
  \/ ~panicked /\ net = "poll" /\ Panic

\* recv.receive(NoWait) finds the queue empty.
ReceiveNothing ==
  /\ NetGoto("receive", "sleep")
  /\ queue = <<>>
  /\ UNCHANGED <<meas, flag, queue, measured, hand, published, mqttVars, panicked>>

\* Mutant of Refilled: the message of a suspended sender overtakes those in
\* the queue.
RefilledFirst(rest, message) == <<message>> \o rest

\* The queue when a receive has made room for the message of a sender.
Refilled(rest, message) == Append(rest, message)

\* A receive that makes room resumes a suspended sender.
Receive ==
  /\ NetGoto("receive", "publish")
  /\ queue # <<>>
  /\ hand' = Head(queue)
  /\ IF meas = "sending"
     THEN queue' = Refilled(Tail(queue), measured) /\ meas' = "sleep"
     ELSE queue' = Tail(queue) /\ meas' = meas
  /\ UNCHANGED <<flag, measured, published, mqttVars, panicked>>

\* block_on(transport.send(..)): a publish with QoS 0 returns Ok as soon as TCP
\* has queued the message, also on a connection that is dead already, where it
\* is lost; an error, which only such a connection gives, is unwrapped.
Publish ==
  \/ /\ NetGoto("publish", "sleep")
     /\ published' = hand
     /\ hand' = 0
     /\ UNCHANGED <<meas, flag, queue, measured, mqttVars, panicked>>
  \/ ~panicked /\ net = "publish" /\ link # "up" /\ Panic

NetAwake ==
  /\ NetGoto("sleep", "poll")
  /\ UNCHANGED <<meas, flag, queue, measured, hand, published, mqttVars, panicked>>

-----------------------------------------------------------------------------
(* do_measurement                                                          *)

\* evt_handle.get(WifiConnected, WaitAllAndClear, WaitForever)
Get ==
  /\ ~panicked
  /\ meas = "get"
  /\ meas' = IF flag THEN "measure" ELSE "suspended"
  /\ flag' = FALSE
  /\ UNCHANGED <<net, queue, measured, hand, published, mqttVars, panicked>>

\* A temperature, or an I2C error, which is unwrapped.
Measure ==
  \/ /\ MeasGoto("measure", "send")
     /\ measured < MaxMeasured
     /\ measured' = measured + 1
     /\ UNCHANGED <<net, flag, queue, hand, published, mqttVars, panicked>>
  \/ ~panicked /\ meas = "measure" /\ Panic


Full(q) == Len(q) = Capacity

\* snd.send(.., WaitForever)
Send ==
  /\ ~panicked
  /\ meas = "send"
  /\ IF Full(queue)
     THEN queue' = queue /\ meas' = "sending"
     ELSE queue' = Append(queue, measured) /\ meas' = "sleep"
  /\ UNCHANGED <<net, flag, measured, hand, published, mqttVars, panicked>>

MeasAwake ==
  /\ MeasGoto("sleep", "measure")
  /\ UNCHANGED <<net, flag, queue, measured, hand, published, mqttVars, panicked>>

-----------------------------------------------------------------------------
\* The connection breaks; the client will see it later.
LinkLost ==
  /\ ~panicked
  /\ link = "up"
  /\ link' \in {"down", "reset"}
  /\ UNCHANGED <<net, meas, flag, queue, measured, hand, published, session, panicked>>

NetStep == Initialize \/ Announce \/ Poll \/ ReceiveNothing \/ Receive \/ Publish \/ NetAwake
MeasStep == Get \/ Measure \/ Send \/ MeasAwake

Next == NetStep \/ MeasStep \/ LinkLost

Spec == Init /\ [][Next]_vars

\* Both threads have the same priority and spend their time asleep.
FairSpec == Spec /\ WF_vars(NetStep) /\ WF_vars(MeasStep)

-----------------------------------------------------------------------------
(* Properties.                                                             *)

\* Type invariant; the queue never holds more than fits in its memory.
TypeOK ==
  /\ net \in NetPC
  /\ meas \in MeasPC
  /\ queue \in Seq(Nat) /\ Len(queue) <= Capacity
  /\ measured \in Nat /\ hand \in Nat /\ published \in Nat
  /\ flag \in BOOLEAN /\ panicked \in BOOLEAN
  /\ session \in BOOLEAN /\ link \in Links

InHand == IF net = "publish" THEN 1 ELSE 0
InSend == IF meas \in {"send", "sending"} THEN 1 ELSE 0

\* From the sensor to the MQTT client no measurement is lost, doubled or
\* overtaken, also when the queue is full and the sender suspended: what is
\* published, in hand, in the queue and being sent are all the measurements
\* in the order they were taken.
NothingLost ==
  /\ net = "publish" => hand = published + 1
  /\ \A i \in 1 .. Len(queue) : queue[i] = published + InHand + i
  /\ measured = published + InHand + Len(queue) + InSend

\* The flag starts the measurements exactly once: none is taken before the
\* network is up, and whichever of publish and get comes first, the start is
\* not missed.
StartsWithNetwork ==
  /\ net \in {"init", "announce"} => meas \in {"get", "suspended"} /\ ~flag
  /\ net \notin {"init", "announce"} => meas # "suspended" /\ (meas = "get" <=> flag)

\* A sender is suspended only on a full queue, so a receive will resume it.
SenderWaitsForRoom == meas = "sending" => Len(queue) = Capacity

\* The inductive invariant of the proofs.
IInv == TypeOK /\ NothingLost /\ StartsWithNetwork /\ SenderWaitsForRoom

\* Between sensor and MQTT client: the message in hand, those in the queue and the
\* one being sent.
InTransit ==
  (IF net = "publish" THEN <<hand>> ELSE <<>>) \o queue
    \o (IF meas \in {"send", "sending"} THEN <<measured>> ELSE <<>>)

Line == INSTANCE Channel
  WITH Receivers <- {"client"}, MaxSent <- MaxMeasured,
       line <- InTransit, waiting <- <<>>, sent <- measured, received <- published

\* The threads and the queue together are one channel from the sensor to the
\* MQTT client.
ChannelToClient == Line!Spec

\* What do_measurement asks get for.
Connected == [bits |-> {1}, option |-> "WaitAllAndClear"]

Getters == {"do_measurement"}
GroupFlags == IF flag THEN {1} ELSE {}
GroupWaiting == IF meas = "suspended" THEN Getters ELSE {}
GroupAhead == [th \in Getters |-> {}]
GroupRequest ==
  [th \in Getters |-> IF meas = "get" THEN [bits |-> {}, option |-> "WaitAll"] ELSE Connected]
GroupGot == [th \in Getters |-> IF meas \in {"get", "suspended"} THEN {} ELSE {1}]

Group == INSTANCE EventFlags
  WITH Bits <- {1}, Waiters <- Getters, Asks <- [th \in Getters |-> {Connected}],
       flags <- GroupFlags, waiting <- GroupWaiting, ahead <- GroupAhead,
       request <- GroupRequest, got <- GroupGot

\* The one flag of this program is an event flags group: what announce and get
\* do to it are a publish and a get of EventFlags.
UsesGroup == Group!FlagsSpec


\* "Returns an error if the message could not be sent" (minimqtransport.rs:72):
\* whatever has become of the connection, send does not panic.
SendReportsErrors == [][Publish => panicked' = panicked]_vars
=============================================================================
