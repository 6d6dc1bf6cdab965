----------------------------- MODULE TcpClient ------------------------------
(***************************************************************************)
(* ThreadxTcpWifiNetwork as a TcpClientStack (network.rs): the one socket  *)
(* of the stack, the connection and the packets of its two pools.          *)
(*                                                                         *)
(* The MQTT client, one thread, calls socket, connect, send, receive and   *)
(* close in any order the types allow (close takes the socket away from    *)
(* it).  The calls wait inside NetX, and there and between the calls the   *)
(* NetX thread and the peer go on: segments arrive, are acknowledged, the  *)
(* peer closes or resets the connection.                                   *)
(***************************************************************************)
EXTENDS Naturals

CONSTANTS
  TxPackets,  \* NETX_TX_PACKET_COUNT, 16 in the code
  RxPackets   \* NETX_RX_PACKET_COUNT, 12 in the code

ASSUME PacketsAssumption == TxPackets \in Nat \ {0} /\ RxPackets \in Nat \ {0}

VARIABLES
  place,     \* where the socket is: "stack", "client", "call" (inside close) or "lost"
  bound,     \* the socket is bound to a port
  tcp,       \* state of the connection
  pc,        \* NetX call the client's thread is in, "idle" between two calls
  txFree,    \* packets free in the TX pool
  txQueued,  \* packets NetX has sent and not seen acknowledged
  txFailed,  \* send calls that returned an error after packet_allocate
  rxFree,    \* packets free in the RX pool
  rxQueued   \* packets waiting in the socket

socketVars == <<place, bound, tcp>>
txVars == <<txFree, txQueued, txFailed>>
rxVars == <<rxFree, rxQueued>>
vars == <<place, bound, tcp, pc, txFree, txQueued, txFailed, rxFree, rxQueued>>

\* "reset": the peer, or NetX after its retries, broke the connection.
TcpState == {"closed", "established", "peer_closed", "reset"}
Connected == tcp \in {"established", "peer_closed"}
PC == {"idle", "connect", "connect_unbind", "allocate", "send", "retrieve",
       "disconnect", "unbind"}

\* create_socket
Init ==
  /\ place = "stack"
  /\ bound = FALSE
  /\ tcp = "closed"
  /\ pc = "idle"
  /\ txFree = TxPackets
  /\ txQueued = 0
  /\ txFailed = 0
  /\ rxFree = RxPackets
  /\ rxQueued = 0

Goto(from, to) == pc = from /\ pc' = to

-----------------------------------------------------------------------------
(* socket: a second one is NoSocketsAvailable, which changes nothing.      *)

Socket ==
  /\ pc = "idle"
  /\ place = "stack"
  /\ place' = "client"
  /\ UNCHANGED <<bound, tcp, pc, txVars, rxVars>>

-----------------------------------------------------------------------------
(* connect.  An IPv6 address, and a socket that is bound already, are      *)
(* errors that change nothing.                                             *)

\* Mutant of Connect: a failed bind is not looked at.
ConnectBound ==
  /\ place = "client"
  /\ Goto("idle", "connect")
  /\ bound' = TRUE
  /\ UNCHANGED <<place, tcp, txVars, rxVars>>

Connect ==
  /\ place = "client"
  /\ Goto("idle", "connect")
  /\ ~bound
  /\ bound' = TRUE
  /\ UNCHANGED <<place, tcp, txVars, rxVars>>

Connects ==
  /\ Goto("connect", "idle")
  /\ tcp' = "established"
  /\ UNCHANGED <<place, bound, txVars, rxVars>>

ConnectFails ==
  /\ Goto("connect", "connect_unbind")
  /\ UNCHANGED <<socketVars, txVars, rxVars>>

\* Unbind and return the error.
ConnectUnbind ==
  /\ Goto("connect_unbind", "idle")
  /\ bound' = FALSE
  /\ UNCHANGED <<place, tcp, txVars, rxVars>>

-----------------------------------------------------------------------------
(* send.  More than 255 bytes is an error that changes nothing; what is    *)
(* left fits in one packet, so the append does not fail.                   *)

Send ==
  /\ place = "client"
  /\ Goto("idle", "allocate")
  /\ UNCHANGED <<socketVars, txVars, rxVars>>

\* Mutant of Allocate: the append fails and returns without the packet.
AllocateOrFail ==
  /\ pc = "allocate"
  /\ pc' \in {"send", "idle"}
  /\ txFree > 0
  /\ txFree' = txFree - 1
  /\ UNCHANGED <<socketVars, txQueued, txFailed, rxVars>>

\* _nx_packet_allocate waits for a free packet.
Allocate ==
  /\ Goto("allocate", "send")
  /\ txFree > 0
  /\ txFree' = txFree - 1
  /\ UNCHANGED <<socketVars, txQueued, txFailed, rxVars>>

\* _nx_tcp_socket_send takes the packet over when it succeeds ...
Sends ==
  /\ Goto("send", "idle")
  /\ Connected
  /\ txQueued' = txQueued + 1
  /\ UNCHANGED <<socketVars, txFree, txFailed, rxVars>>

\* ... and leaves it to the caller when it fails: nothing releases it.
SendFails ==
  /\ Goto("send", "idle")
  /\ ~Connected
  /\ txFailed' = txFailed + 1
  /\ UNCHANGED <<socketVars, txFree, txQueued, rxVars>>

-----------------------------------------------------------------------------
(* receive.  No packet is WouldBlock, or an error when the connection is   *)
(* gone; neither changes anything.                                         *)

Receive ==
  /\ place = "client"
  /\ Goto("idle", "retrieve")
  /\ rxQueued > 0
  /\ rxQueued' = rxQueued - 1
  /\ UNCHANGED <<socketVars, txVars, rxFree>>

\* Mutant of Retrieve: the packet of a failed retrieve is not released.
RetrieveOrFail ==
  /\ Goto("retrieve", "idle")
  /\ rxFree' \in {rxFree, rxFree + 1}
  /\ UNCHANGED <<socketVars, txVars, rxQueued>>

\* The packet is released whether the data could be retrieved or not.
Retrieve ==
  /\ Goto("retrieve", "idle")
  /\ rxFree' = rxFree + 1
  /\ UNCHANGED <<socketVars, txVars, rxQueued>>

-----------------------------------------------------------------------------
(* close                                                                   *)

Close ==
  /\ place = "client"
  /\ Goto("idle", "disconnect")
  /\ place' = "call"
  /\ UNCHANGED <<bound, tcp, txVars, rxVars>>

\* NetX flushes the queues of a socket whose connection ends.
TxFlushed == txFree' = txFree + txQueued /\ txQueued' = 0
RxFlushed == rxFree' = rxFree + rxQueued /\ rxQueued' = 0

Disconnect ==
  /\ Goto("disconnect", "unbind")
  /\ Connected
  /\ tcp' = "closed"
  /\ TxFlushed
  /\ RxFlushed
  /\ UNCHANGED <<place, bound, txFailed>>

\* NX_NOT_CONNECTED: close returns and drops the socket it was given.
DisconnectFails ==
  /\ Goto("disconnect", "idle")
  /\ ~Connected
  /\ place' = "lost"
  /\ UNCHANGED <<bound, tcp, txVars, rxVars>>

\* Mutant of Unbind: the socket is put back and stays bound.
UnbindNot ==
  /\ Goto("unbind", "idle")
  /\ place' = "stack"
  /\ UNCHANGED <<bound, tcp, txVars, rxVars>>

Unbind ==
  /\ Goto("unbind", "idle")
  /\ bound' = FALSE
  /\ place' = "stack"
  /\ UNCHANGED <<tcp, txVars, rxVars>>

-----------------------------------------------------------------------------
(* The peer and the NetX thread.                                           *)

PeerCloses ==
  /\ tcp = "established"
  /\ tcp' = "peer_closed"
  /\ UNCHANGED <<place, bound, pc, txVars, rxVars>>

\* What was received before the reset may still be read.
Reset ==
  /\ Connected
  /\ tcp' = "reset"
  /\ TxFlushed
  /\ RxFlushed \/ UNCHANGED rxVars
  /\ UNCHANGED <<place, bound, pc, txFailed>>

\* NetX frees a packet the peer acknowledged.
Acknowledge ==
  /\ txQueued > 0
  /\ txQueued' = txQueued - 1
  /\ txFree' = txFree + 1
  /\ UNCHANGED <<socketVars, pc, txFailed, rxVars>>

Segment ==
  /\ tcp = "established"
  /\ rxFree > 0
  /\ rxFree' = rxFree - 1
  /\ rxQueued' = rxQueued + 1
  /\ UNCHANGED <<socketVars, pc, txVars>>

Next ==
  \/ Socket
  \/ Connect \/ Connects \/ ConnectFails \/ ConnectUnbind
  \/ Send \/ Allocate \/ Sends \/ SendFails
  \/ Receive \/ Retrieve
  \/ Close \/ Disconnect \/ DisconnectFails \/ Unbind
  \/ PeerCloses \/ Reset \/ Acknowledge \/ Segment

Spec == Init /\ [][Next]_vars

(* A call waits in NetX no longer than it must, and NetX retransmits what  *)
(* is not acknowledged a bounded number of times and then resets the       *)
(* connection.  Nothing is assumed of the client between two calls, or of  *)
(* the other things a peer may do.                                         *)
Returns ==
  \/ Connects \/ ConnectFails \/ ConnectUnbind
  \/ Allocate \/ Sends \/ SendFails
  \/ Retrieve
  \/ Disconnect \/ DisconnectFails \/ Unbind

FairSpec == Spec /\ WF_vars(Returns) /\ WF_vars(Acknowledge \/ Reset)

-----------------------------------------------------------------------------
(* Properties.                                                             *)

\* Type invariant of socket, connection and pools.
TypeOK ==
  /\ place \in {"stack", "client", "call", "lost"}
  /\ bound \in BOOLEAN
  /\ tcp \in TcpState
  /\ pc \in PC
  /\ txFree \in 0..TxPackets
  /\ txQueued \in 0..TxPackets
  /\ txFailed \in 0..TxPackets
  /\ rxFree \in 0..RxPackets
  /\ rxQueued \in 0..RxPackets

InHand(call) == IF pc = call THEN 1 ELSE 0

\* Every packet of the RX pool is free, waits in the socket, or is the one
\* receive is copying from: receive never leaks a packet and never releases
\* one twice, whatever NetX does to the connection meanwhile.
RxAccounted == rxFree + rxQueued + InHand("retrieve") = RxPackets

\* The packets missing from the TX pool are exactly the failed sends: each
\* of them costs one packet for good, and nothing else does.
TxAccounted == txFree + txQueued + InHand("send") + txFailed = TxPackets

PacketsAccounted == RxAccounted /\ TxAccounted

\* The socket the stack can hand out again is as create_socket made it,
\* whatever was done with it before; and between two calls a socket is bound
\* to a port exactly when it has, or had and lost, a connection: a connect
\* that fails leaves it ready for the next attempt.
SocketClean ==
  /\ place = "stack" =>
       /\ ~bound /\ tcp = "closed"
       /\ txQueued = 0 /\ rxQueued = 0
  /\ (pc = "idle" /\ place = "client") => (bound <=> tcp # "closed")

\* What makes these inductive: where the socket is while each call runs,
\* and what the end of a connection leaves in its queues.
SocketInv ==
  /\ place \in {"stack", "lost"} => pc = "idle"
  /\ place = "call" <=> pc \in {"disconnect", "unbind"}
  /\ pc \in {"connect", "connect_unbind"} => bound /\ tcp = "closed"
  /\ (place \in {"client", "call"} /\ pc \notin {"connect", "connect_unbind", "unbind"})
       => (bound <=> tcp # "closed")
  /\ pc = "unbind" => tcp = "closed"
  /\ tcp \in {"closed", "reset"} => txQueued = 0
  /\ tcp = "closed" => rxQueued = 0

IInv == TypeOK /\ PacketsAccounted /\ SocketClean /\ SocketInv

\* A connection that was reset is never replaced by another one: connect
\* finds the port bound, and close, the only call that unbinds it, stops at
\* the failed disconnect.
ResetIsFinal == [][tcp = "reset" => tcp' = "reset"]_vars

\* A send waits in _nx_packet_allocate for ever only when failed sends have
\* used up the whole pool.
AllocateReturns ==
  pc = "allocate" ~> (pc # "allocate" \/ txFailed = TxPackets)

\* "Put socket back for reuse" (network.rs:407): a socket given to close can
\* be used again.
ClosedForReuse == place # "lost"
=============================================================================
