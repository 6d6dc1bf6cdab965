------------------------------ MODULE Network -------------------------------
(***************************************************************************)
(* The network of the application, from the race for it to its use: the    *)
(* stages of ThreadxTcpWifiNetwork::initialize (NetworkInit), the last of  *)
(* which makes the socket, and then the TcpClientStack of the one thread   *)
(* whose initialize returned it (TcpClient), while other threads may go on *)
(* calling initialize.  The properties are those of the two modules.       *)
(***************************************************************************)
EXTENDS TcpClient, NetworkInit

networkVars == <<vars, setupVars>>

NetworkStart == Init /\ SetupInit

\* initialize returns the stack by value: whoever has it is its only user.
HasNetwork == \E th \in Threads : result[th] = "network"

SetupStep == SetupNext /\ UNCHANGED vars
ClientStep(A) == HasNetwork /\ A /\ UNCHANGED setupVars

NetworkNext == SetupStep \/ ClientStep(Next)

NetworkSpec ==
  /\ NetworkStart /\ [][NetworkNext]_networkVars
  /\ WF_networkVars(ClientStep(Returns))
  /\ WF_networkVars(ClientStep(Acknowledge \/ Reset))
=============================================================================
