--------------------------- MODULE NetworkProofs ----------------------------
(***************************************************************************)
(* Theorems about the network of the application, for pools of every size  *)
(* and any number of threads that call initialize: about the socket and    *)
(* its packets (TcpClient), about bringing the network up (NetworkInit),   *)
(* and about the two together (Network), which implements both.            *)
(***************************************************************************)
EXTENDS Network, TLAPS

-----------------------------------------------------------------------------
(* The socket and its packets.                                             *)

\* The socket as create_socket leaves it satisfies the inductive invariant.
LEMMA IInvInit == Init => IInv
<1> SUFFICES ASSUME Init PROVE IInv
  OBVIOUS
<1>1. /\ txFree \in 0..TxPackets /\ rxFree \in 0..RxPackets
      /\ 0 \in 0..TxPackets /\ 0 \in 0..RxPackets
  BY PacketsAssumption DEF Init
<1>2. TypeOK
  BY <1>1, Zenon DEF Init, TypeOK, TcpState, PC
<1>3. PacketsAccounted
  BY PacketsAssumption DEF Init, PacketsAccounted, RxAccounted, TxAccounted, InHand
<1>4. SocketClean /\ SocketInv
  BY DEF Init, SocketClean, SocketInv
<1> QED
  BY <1>2, <1>3, <1>4 DEF IInv

\* socket, connect and close keep it.
LEMMA SocketCalls ==
  ASSUME IInv,
         \/ Socket \/ Connect \/ Connects \/ ConnectFails \/ ConnectUnbind
         \/ Close \/ Disconnect \/ DisconnectFails \/ Unbind
  PROVE  IInv'
<1> USE PacketsAssumption
    DEF IInv, TypeOK, PacketsAccounted, RxAccounted, TxAccounted, InHand,
        SocketClean, SocketInv, TcpState, PC, Goto, Connected, txVars, rxVars,
        socketVars
<1>1. CASE Socket
  BY <1>1 DEF Socket
<1>2. CASE Connect
  BY <1>2 DEF Connect
<1>3. CASE Connects
  BY <1>3 DEF Connects
<1>4. CASE ConnectFails
  BY <1>4 DEF ConnectFails
<1>5. CASE ConnectUnbind
  BY <1>5 DEF ConnectUnbind
<1>6. CASE Close
  BY <1>6 DEF Close
<1>7. CASE Disconnect
  BY <1>7 DEF Disconnect, TxFlushed, RxFlushed
<1>8. CASE DisconnectFails
  BY <1>8 DEF DisconnectFails
<1>9. CASE Unbind
  BY <1>9 DEF Unbind
<1> QED
  BY <1>1, <1>2, <1>3, <1>4, <1>5, <1>6, <1>7, <1>8, <1>9

\* So do send and receive.
LEMMA DataCalls ==
  ASSUME IInv,
         Send \/ Allocate \/ Sends \/ SendFails \/ Receive \/ Retrieve
  PROVE  IInv'
<1> USE PacketsAssumption
    DEF IInv, TypeOK, PacketsAccounted, RxAccounted, TxAccounted, InHand,
        SocketClean, SocketInv, TcpState, PC, Goto, Connected, txVars, rxVars,
        socketVars
<1>1. CASE Send
  BY <1>1 DEF Send
<1>2. CASE Allocate
  BY <1>2 DEF Allocate
<1>3. CASE Sends
  BY <1>3 DEF Sends
<1>4. CASE SendFails
  BY <1>4 DEF SendFails
<1>5. CASE Receive
  BY <1>5 DEF Receive
<1>6. CASE Retrieve
  BY <1>6 DEF Retrieve
<1> QED
  BY <1>1, <1>2, <1>3, <1>4, <1>5, <1>6

\* And so does what the peer and the NetX thread do meanwhile.
LEMMA NetworkSteps ==
  ASSUME IInv, PeerCloses \/ Reset \/ Acknowledge \/ Segment
  PROVE  IInv'
<1> USE PacketsAssumption
    DEF IInv, TypeOK, PacketsAccounted, RxAccounted, TxAccounted, InHand,
        SocketClean, SocketInv, TcpState, PC, Connected, txVars, rxVars,
        socketVars
<1>1. CASE PeerCloses
  BY <1>1 DEF PeerCloses
<1>2. CASE Reset
  BY <1>2 DEF Reset, TxFlushed, RxFlushed
<1>3. CASE Acknowledge
  BY <1>3 DEF Acknowledge
<1>4. CASE Segment
  BY <1>4 DEF Segment
<1> QED
  BY <1>1, <1>2, <1>3, <1>4

\* Every step keeps the inductive invariant.
LEMMA IInvStep == IInv /\ [Next]_vars => IInv'
<1> SUFFICES ASSUME IInv, [Next]_vars PROVE IInv'
  OBVIOUS
<1>1. CASE Next
  BY <1>1, SocketCalls, DataCalls, NetworkSteps DEF Next
<1>2. CASE UNCHANGED vars
  BY <1>2
  DEF vars, IInv, TypeOK, PacketsAccounted, RxAccounted, TxAccounted, InHand,
      SocketClean, SocketInv
<1> QED
  BY <1>1, <1>2

\* The inductive invariant, with the type invariant in it, holds for ever.
THEOREM Inductive == Spec => []IInv
  BY IInvInit, IInvStep, PTL DEF Spec

\* receive neither leaks nor frees twice, and the TX pool loses one packet
\* for each send that failed and no other.
THEOREM PacketsAreAccounted == Spec => []PacketsAccounted
<1>1. IInv => PacketsAccounted
  BY DEF IInv
<1> QED
  BY <1>1, Inductive, PTL

\* No pool gives out more packets than it has, and none is released twice.
THEOREM PoolsBounded == Spec => []TypeOK
<1>1. IInv => TypeOK
  BY DEF IInv
<1> QED
  BY <1>1, Inductive, PTL

\* The socket that can be handed out is as create_socket made it, and between
\* two calls it is bound exactly when it has or had a connection.
THEOREM SocketIsClean == Spec => []SocketClean
<1>1. IInv => SocketClean
  BY DEF IInv
<1> QED
  BY <1>1, Inductive, PTL

\* A reset connection is never replaced: no step from a state of the
\* inductive invariant leaves "reset".
THEOREM ResetForGood == Spec => ResetIsFinal
<1>1. ASSUME IInv, [Next]_vars, tcp = "reset"
      PROVE  tcp' = "reset"
  <2>1. CASE Connects
    BY <1>1, <2>1 DEF IInv, SocketInv, Connects, Goto
  <2>2. CASE Socket \/ Connect \/ ConnectFails \/ ConnectUnbind \/ Send \/ Allocate
             \/ Sends \/ SendFails \/ Receive \/ Retrieve \/ Close
             \/ DisconnectFails \/ Unbind \/ Acknowledge
    BY <1>1, <2>2
    DEF Socket, Connect, ConnectFails, ConnectUnbind, Send, Allocate, Sends,
        SendFails, Receive, Retrieve, Close, DisconnectFails, Unbind,
        Acknowledge, socketVars
  <2>3. CASE Disconnect \/ PeerCloses \/ Reset \/ Segment
    BY <1>1, <2>3 DEF Disconnect, PeerCloses, Reset, Segment, Connected
  <2>4. CASE UNCHANGED vars
    BY <1>1, <2>4 DEF vars
  <2> QED
    BY <1>1, <2>1, <2>2, <2>3, <2>4 DEF Next
<1>2. IInv /\ [Next]_vars => [tcp = "reset" => tcp' = "reset"]_vars
  BY <1>1
<1> QED
  BY <1>2, Inductive, PTL DEF Spec, ResetIsFinal

-----------------------------------------------------------------------------
(* Bringing the network up.                                                *)

\* Whoever is inside initialize is alone there, has got as far as the stages
\* that succeeded say, and finds the cells of all later stages full.
SetupInv ==
  /\ \A th \in Threads :
       at[th] # 0 =>
         /\ initialized
         /\ \A other \in Threads : at[other] # 0 => other = th
         /\ \A other \in Threads : result[other] # "network"
         /\ succeeded = {Stages[j] : j \in 1 .. at[th] - 1}
         /\ panicked = "no" => \A j \in at[th] .. LastStage : Cells(Stages[j]) \cap taken = {}
  /\ \A th \in Threads : result[th] \in {"error", "already", "network"} => initialized
  /\ ~initialized => succeeded = {} /\ taken = {}
  /\ CellsTakenOnce
  /\ OneNetwork

-----------------------------------------------------------------------------
(* The table of stages.                                                    *)

LEMMA NineteenStages == LastStage = 19
  BY DEF LastStage, Stages

\* No stage comes twice.
LEMMA StagesDiffer ==
  \A i, j \in 1 .. LastStage : Stages[i] = Stages[j] => i = j
  BY NineteenStages DEF Stages

\* Each cell belongs to one stage.
LEMMA CellsDiffer ==
  ASSUME NEW s, NEW t, s # t
  PROVE  Cells(s) \cap Cells(t) = {}
  BY DEF Cells

\* What a stage needs comes before it.
LEMMA NeedsComeBefore ==
  ASSUME NEW i \in 1 .. LastStage
  PROVE  Needs(Stages[i]) \subseteq {Stages[j] : j \in 1 .. i - 1}
<1>1. /\ Stages[1] = "system" /\ Stages[2] = "tx_pool" /\ Stages[3] = "rx_pool"
      /\ Stages[4] = "buffers" /\ Stages[5] = "wifi_on" /\ Stages[6] = "mac"
      /\ Stages[7] = "ip" /\ Stages[8] = "arp" /\ Stages[9] = "tcp"
      /\ Stages[10] = "udp" /\ Stages[11] = "icmp" /\ Stages[12] = "dhcp"
      /\ Stages[13] = "dhcp_start" /\ Stages[14] = "ssid" /\ Stages[15] = "join"
      /\ Stages[16] = "address" /\ Stages[17] = "address_get" /\ Stages[18] = "gateway_get"
      /\ Stages[19] = "socket"
  BY DEF Stages
<1>2. SUFFICES ASSUME NEW s \in Needs(Stages[i])
               PROVE  \E j \in 1 .. i - 1 : Stages[j] = s
  OBVIOUS
<1> QED
  BY <1>1, <1>2, NineteenStages DEF Needs

-----------------------------------------------------------------------------
(* The inductive invariant.                                                *)

\* Type correctness of the set-up, for any number of threads: stages and cells
\* are those of the source.
THEOREM SetupTypeCorrect == SetupSpec => []SetupTypeOK
<1>1. SetupInit => SetupTypeOK
  <2>1. 0 \in 0 .. LastStage
    BY NineteenStages
  <2>2. SetupInit => /\ initialized \in BOOLEAN
                /\ at \in [Threads -> 0 .. LastStage]
                /\ result \in [Threads -> {"none", "already", "error", "network"}]
                /\ panicked \in {"no", "no_socket", "cell_taken_twice"}
    BY <2>1 DEF SetupInit
  <2>3. SetupInit => taken = {} /\ succeeded = {}
    BY DEF SetupInit
  <2> QED
    BY <2>2, <2>3 DEF SetupTypeOK
<1>2. SetupTypeOK /\ [SetupNext]_setupVars => SetupTypeOK'
  <2> SUFFICES ASSUME SetupTypeOK, [SetupNext]_setupVars
               PROVE  SetupTypeOK'
    OBVIOUS
  <2>1. CASE UNCHANGED setupVars
    BY <2>1 DEF SetupTypeOK, setupVars
  <2>2. ASSUME NEW th \in Threads, TryInit(th)
        PROVE  SetupTypeOK'
    BY <2>2, NineteenStages DEF SetupTypeOK, TryInit, Claimed
  <2>3. ASSUME NEW th \in Threads, Call(th)
        PROVE  SetupTypeOK'
    <3>1. /\ at[th] \in 1 .. LastStage
          /\ StageOf(at[th]) = Stages[at[th]]
          /\ taken' = taken \cup Cells(Stages[at[th]])
      BY <2>3, NineteenStages DEF Call, SetupTypeOK, StageOf
    <3>2. taken' \subseteq UNION {Cells(s) : s \in {Stages[i] : i \in 1 .. LastStage}}
      BY <3>1 DEF SetupTypeOK
    <3>3. NextStage(at[th]) \in 0 .. LastStage
      BY <3>1, NineteenStages DEF NextStage
    <3>4. CASE Succeed(th)
      BY <3>1, <3>2, <3>3, <3>4 DEF SetupTypeOK, Succeed
    <3>5. CASE Fail(th)
      BY <3>2, <3>5, NineteenStages DEF SetupTypeOK, Fail
    <3>6. CASE Panic("no_socket") \/ Panic("cell_taken_twice")
      BY <3>2, <3>6 DEF SetupTypeOK, Panic
    <3> QED
      BY <2>3, <3>4, <3>5, <3>6 DEF Call
  <2> QED
    BY <2>1, <2>2, <2>3 DEF SetupNext
<1> QED
  BY <1>1, <1>2, PTL DEF SetupSpec

\* Before the first call everything is empty.
LEMMA SetupStart == SetupInit => SetupInv
  BY DEF SetupInit, SetupInv, CellsTakenOnce, OneNetwork

\* The thread that fills INITIALIZED is alone until it leaves.
LEMMA SetupKeeps == SetupTypeOK /\ SetupTypeOK' /\ SetupInv /\ [SetupNext]_setupVars => SetupInv'
<1> SUFFICES ASSUME SetupTypeOK, SetupTypeOK', SetupInv, [SetupNext]_setupVars
             PROVE  SetupInv'
  OBVIOUS
<1>1. CASE UNCHANGED setupVars
  BY <1>1 DEF SetupInv, CellsTakenOnce, OneNetwork, setupVars
<1>2. ASSUME NEW th \in Threads, TryInit(th)
      PROVE  SetupInv'
  <2>1. CASE initialized
    BY <1>2, <2>1 DEF TryInit, Claimed, SetupInv, SetupTypeOK, CellsTakenOnce, OneNetwork
  <2>2. CASE ~initialized
    <3>1. /\ succeeded' = {} /\ taken' = {} /\ initialized'
          /\ \A other \in Threads : at[other] = 0 /\ result[other] = "none"
          /\ at' = [at EXCEPT ![th] = 1]
          /\ result' = [result EXCEPT ![th] = "none"]
          /\ UNCHANGED panicked
      BY <1>2, <2>2 DEF TryInit, Claimed, SetupInv, SetupTypeOK
    <3>2. \A j \in 1 .. 1 - 1 : FALSE
      OBVIOUS
    <3>3. succeeded' = {Stages[j] : j \in 1 .. at'[th] - 1}
      BY <3>1, <3>2 DEF SetupTypeOK
    <3>4. \A other \in Threads : at'[other] # 0 => other = th
      BY <3>1 DEF SetupTypeOK
    <3>5. \A other \in Threads : result'[other] = "none"
      BY <3>1 DEF SetupTypeOK
    <3> QED
      BY <3>1, <3>3, <3>4, <3>5 DEF SetupInv, CellsTakenOnce, OneNetwork
  <2> QED
    BY <2>1, <2>2
<1>3. ASSUME NEW th \in Threads, Call(th)
      PROVE  SetupInv'
  <2> DEFINE i == at[th]
  <2>1. /\ i \in 1 .. LastStage /\ i # 0 /\ panicked = "no" /\ initialized
        /\ taken' = taken \cup Cells(Stages[i])
        /\ StageOf(i) = Stages[i]
        /\ \A other \in Threads : at[other] # 0 => other = th
        /\ \A other \in Threads : result[other] # "network"
        /\ succeeded = {Stages[j] : j \in 1 .. i - 1}
        /\ \A j \in i .. LastStage : Cells(Stages[j]) \cap taken = {}
    BY <1>3, NineteenStages DEF Call, SetupInv, SetupTypeOK, StageOf
  <2>2. Cells(Stages[i]) \cap taken = {}
    BY <2>1, NineteenStages
  <2>3. CASE Succeed(th)
    <3>1. /\ succeeded' = {Stages[j] : j \in 1 .. i}
          /\ at' = [at EXCEPT ![th] = NextStage(i)]
          /\ result' = IF i = LastStage THEN [result EXCEPT ![th] = "network"] ELSE result
          /\ UNCHANGED <<initialized, panicked>>
      <4>1. {Stages[j] : j \in 1 .. i - 1} \cup {Stages[i]} = {Stages[j] : j \in 1 .. i}
        BY <2>1, NineteenStages
      <4> QED
        BY <2>1, <2>3, <4>1 DEF Succeed
    <3>2. CASE i = LastStage
      BY <2>1, <3>1, <3>2 DEF SetupInv, SetupTypeOK, NextStage, CellsTakenOnce, OneNetwork
    <3>3. CASE i # LastStage
      <4>1. /\ at'[th] = i + 1 /\ i + 1 \in 1 .. LastStage
            /\ \A other \in Threads : at'[other] # 0 => other = th
        BY <2>1, <3>1, <3>3, NineteenStages DEF NextStage, SetupTypeOK
      <4>2. ASSUME NEW j \in i + 1 .. LastStage
            PROVE  Cells(Stages[j]) \cap taken' = {}
        <5>1. Stages[j] # Stages[i]
          BY <2>1, StagesDiffer, NineteenStages
        <5>2. Cells(Stages[j]) \cap Cells(Stages[i]) = {}
          BY <5>1, CellsDiffer
        <5>3. Cells(Stages[j]) \cap taken = {}
          BY <2>1, NineteenStages
        <5> QED
          BY <2>1, <5>2, <5>3
      <4>3. (i + 1) - 1 = i
        BY <2>1, NineteenStages
      <4>4. /\ succeeded' = {Stages[j] : j \in 1 .. at'[th] - 1}
            /\ \A j \in at'[th] .. LastStage : Cells(Stages[j]) \cap taken' = {}
        BY <3>1, <4>1, <4>2, <4>3
      <4>5. UNCHANGED <<result, initialized, panicked>>
        BY <3>1, <3>3
      <4> QED
        BY <2>1, <4>1, <4>4, <4>5 DEF SetupInv, CellsTakenOnce, OneNetwork
    <3> QED
      BY <3>2, <3>3
  <2>4. CASE Fail(th)
    BY <2>1, <2>4 DEF Fail, SetupInv, SetupTypeOK, CellsTakenOnce, OneNetwork
  <2>5. CASE Panic("no_socket")
    BY <2>1, <2>5 DEF Panic, SetupInv, SetupTypeOK, CellsTakenOnce, OneNetwork
  <2> QED
    BY <1>3, <2>1, <2>2, <2>3, <2>4, <2>5 DEF Call
<1> QED
  BY <1>1, <1>2, <1>3 DEF SetupNext

\* Both together hold always.
LEMMA SetupInvariant == SetupSpec => [](SetupTypeOK /\ SetupInv)
  BY SetupTypeCorrect, SetupStart, SetupKeeps, PTL DEF SetupSpec

-----------------------------------------------------------------------------
(* The results.                                                            *)

\* No NetX call is made on something that is not there yet.
THEOREM CallsInOrder == SetupSpec => []InOrder
<1>1. SetupTypeOK /\ SetupInv => InOrder
  <2> SUFFICES ASSUME SetupTypeOK, SetupInv, NEW th \in Threads, at[th] # 0
               PROVE  Needs(StageOf(at[th])) \subseteq succeeded
    BY DEF InOrder
  <2>1. at[th] \in 1 .. LastStage
    BY NineteenStages DEF SetupTypeOK
  <2>2. Needs(Stages[at[th]]) \subseteq {Stages[j] : j \in 1 .. at[th] - 1}
    BY <2>1, NeedsComeBefore
  <2> QED
    BY <2>1, <2>2 DEF SetupInv, StageOf
<1> QED
  BY <1>1, SetupInvariant, PTL

\* No StaticCell is taken twice, however many threads call initialize.
THEOREM NoCellTwice == SetupSpec => []CellsTakenOnce
<1>1. SetupInv => CellsTakenOnce
  BY DEF SetupInv
<1> QED
  BY <1>1, SetupInvariant, PTL

\* Both: however many threads race, each call finds what it needs and memory
\* nobody has taken.
THEOREM SetupIsSafe == SetupSpec => []SetupSafe
  BY CallsInOrder, NoCellTwice, PTL DEF SetupSafe

\* At most one thread is ever given the network, and every stage it rests on
\* has succeeded.
THEOREM NetworkUnique == SetupSpec => []OneNetwork
<1>1. SetupInv => OneNetwork
  BY DEF SetupInv
<1> QED
  BY <1>1, SetupInvariant, PTL

\* Once a call has failed and nobody is inside, no call brings the network up.
THEOREM FailedForGood == SetupSpec => FailureIsFinal
<1>1. SetupTypeOK /\ SetupInv /\ [SetupNext]_setupVars => [Failed => Failed']_setupVars
  <2> SUFFICES ASSUME SetupTypeOK, SetupInv, [SetupNext]_setupVars, Failed
               PROVE  Failed'
    OBVIOUS
  <2>1. initialized
    BY DEF Failed, SetupInv
  <2>2. CASE UNCHANGED setupVars
    BY <2>2 DEF Failed, setupVars
  <2>3. ASSUME NEW th \in Threads, TryInit(th)
        PROVE  Failed'
    BY <2>1, <2>3 DEF TryInit, Failed, SetupTypeOK
  <2>4. ASSUME NEW th \in Threads, Call(th)
        PROVE  FALSE
    BY <2>4 DEF Call, Failed
  <2> QED
    BY <2>2, <2>3, <2>4 DEF SetupNext
<1> QED
  BY <1>1, SetupInvariant, PTL DEF SetupSpec, FailureIsFinal

-----------------------------------------------------------------------------
(* The two together.                                                       *)

\* What the stack does and what initialize does do not disturb each other:
\* the network behaves as both modules say.
THEOREM NetworkIsBoth == NetworkSpec => Spec /\ SetupSpec
<1>1. NetworkStart => Init /\ SetupInit
  BY DEF NetworkStart
<1>2. [NetworkNext]_networkVars => [Next]_vars
  BY DEF NetworkNext, networkVars, SetupStep, ClientStep
<1>3. [NetworkNext]_networkVars => [SetupNext]_setupVars
  BY DEF NetworkNext, networkVars, SetupStep, ClientStep
<1> QED
  BY <1>1, <1>2, <1>3, PTL DEF NetworkSpec, Spec, SetupSpec

\* So all of the above is true of it: no packet is lost but to a failed send,
\* the socket that is handed out is clean, and a reset is for good, ...
THEOREM StackIsSafe ==
  NetworkSpec => []PacketsAccounted /\ []SocketClean /\ ResetIsFinal
  BY NetworkIsBoth, PacketsAreAccounted, SocketIsClean, ResetForGood, PTL

\* ... and one network comes up, in an order NetX accepts, or none ever does.
THEOREM SetupOfNetwork ==
  NetworkSpec => []SetupSafe /\ []OneNetwork /\ FailureIsFinal
  BY NetworkIsBoth, SetupIsSafe, NetworkUnique, FailedForGood, PTL

\* Nobody uses the stack before it is complete: until some thread has the
\* network the socket and the pools are as they were made, and from then on
\* every stage has succeeded.
UsedWhenComplete ==
  Init \/ succeeded = {Stages[i] : i \in 1..LastStage}

\* However the race for the network ends.
THEOREM NoEarlyUse == NetworkSpec => []UsedWhenComplete
<1>1. NetworkStart => Init
  BY DEF NetworkStart
<1>2. SetupTypeOK /\ SetupInv /\ (Init \/ HasNetwork) /\ [NetworkNext]_networkVars
        => (Init \/ HasNetwork)'
  <2> SUFFICES ASSUME SetupTypeOK, SetupInv, Init \/ HasNetwork,
                      [NetworkNext]_networkVars
               PROVE  (Init \/ HasNetwork)'
    OBVIOUS
  <2>1. CASE UNCHANGED networkVars
    BY <2>1 DEF networkVars, vars, setupVars, Init, HasNetwork
  <2>2. CASE ClientStep(Next)
    BY <2>2 DEF ClientStep, HasNetwork, setupVars
  <2>3. CASE SetupStep /\ Init
    BY <2>3 DEF SetupStep, vars, Init
  <2>4. ASSUME SetupStep, HasNetwork
        PROVE  HasNetwork'
    <3>1. PICK th \in Threads : result[th] = "network"
      BY <2>4 DEF HasNetwork
    <3>2. \A other \in Threads : at[other] = 0
      BY <3>1 DEF SetupInv
    <3>3. PICK other \in Threads : TryInit(other)
      BY <2>4, <3>2 DEF SetupStep, SetupNext, Call
    <3>4. result'[th] = "network"
      BY <3>1, <3>3 DEF TryInit, SetupTypeOK
    <3> QED
      BY <3>4 DEF HasNetwork
  <2> QED
    BY <2>1, <2>2, <2>3, <2>4 DEF NetworkNext
<1>3. OneNetwork /\ (Init \/ HasNetwork) => UsedWhenComplete
  BY DEF OneNetwork, HasNetwork, UsedWhenComplete
<1>4. NetworkSpec => [](SetupTypeOK /\ SetupInv)
  BY NetworkIsBoth, SetupInvariant, PTL
<1> QED
  BY <1>1, <1>2, <1>3, <1>4, SetupOfNetwork, PTL DEF NetworkSpec
=============================================================================
