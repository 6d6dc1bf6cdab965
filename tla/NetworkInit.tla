---------------------------- MODULE NetworkInit -----------------------------
(***************************************************************************)
(* ThreadxTcpWifiNetwork::initialize (network.rs): one try_init of a       *)
(* StaticCell decides who may bring the network up, then a fixed sequence  *)
(* of NetX and WLAN driver calls, most of which may fail, each on memory   *)
(* taken from a StaticCell of its own.                                     *)
(***************************************************************************)
EXTENDS Naturals, Sequences

CONSTANT Threads  \* threads that call initialize, again if they like

\* The calls in the order of the source; "ssid" is the check of its length.
Stages == <<"system", "tx_pool", "rx_pool", "buffers", "wifi_on", "mac", "ip",
            "arp", "tcp", "udp", "icmp", "dhcp", "dhcp_start", "ssid", "join",
            "address", "address_get", "gateway_get", "socket">>

StageOf(i) == Stages[i]
LastStage == Len(Stages)

\* StaticCells whose memory a stage takes; a second uninit() panics.
Cells(stage) ==
  CASE stage = "tx_pool" -> {"TX_PACKET_POOL_MEM"}
    [] stage = "rx_pool" -> {"RX_PACKET_POOL_MEM"}
    [] stage = "ip"      -> {"NETX_IP_STACK", "IP_PTR"}
    [] stage = "arp"     -> {"NETX_ARP_CACHE_AREA"}
    [] stage = "dhcp"    -> {"DHCP_CLIENT"}
    [] stage = "socket"  -> {"SOCKET_PTR"}
    [] OTHER             -> {}

VARIABLES
  initialized,  \* the StaticCell INITIALIZED is full
  taken,        \* StaticCells whose memory has been taken
  succeeded,    \* stages whose call returned NX_SUCCESS
  at,           \* stage a thread is in, 0 outside of initialize
  result,       \* what its last call of initialize returned
  panicked      \* a panic, which halts the processor

setupVars == <<initialized, taken, succeeded, at, result, panicked>>

SetupInit ==
  /\ initialized = FALSE
  /\ taken = {}
  /\ succeeded = {}
  /\ at = [th \in Threads |-> 0]
  /\ result = [th \in Threads |-> "none"]
  /\ panicked = "no"

\* Mutant of Claimed: the flag is set only at the end of initialize.
ClaimedLate(flag) == flag

Claimed(flag) == TRUE

\* INITIALIZED.try_init(true) is one atomic swap.
TryInit(th) ==
  /\ panicked = "no"
  /\ at[th] = 0
  /\ result[th] \in {"none", "error", "already"}
  /\ initialized' = Claimed(initialized)
  /\ IF initialized
     THEN /\ result' = [result EXCEPT ![th] = "already"]
          /\ UNCHANGED at
     ELSE /\ at' = [at EXCEPT ![th] = 1]
          /\ result' = [result EXCEPT ![th] = "none"]
  /\ UNCHANGED <<taken, succeeded, panicked>>

NextStage(i) == IF i = LastStage THEN 0 ELSE i + 1

Succeed(th) ==
  /\ succeeded' = succeeded \cup {StageOf(at[th])}
  /\ at' = [at EXCEPT ![th] = NextStage(@)]
  /\ result' = IF at[th] = LastStage THEN [result EXCEPT ![th] = "network"] ELSE result
  /\ UNCHANGED <<initialized, panicked>>

\* Mutants of Fail: the result of the call is not looked at; a failed
\* initialize may be tried again.
FailIgnored(th) ==
  /\ StageOf(at[th]) \notin {"system", "socket"}
  /\ at' = [at EXCEPT ![th] = NextStage(@)]
  /\ UNCHANGED <<initialized, succeeded, result, panicked>>

FailCleared(th) ==
  /\ StageOf(at[th]) \notin {"system", "socket"}
  /\ initialized' = FALSE
  /\ at' = [at EXCEPT ![th] = 0]
  /\ result' = [result EXCEPT ![th] = "error"]
  /\ UNCHANGED <<succeeded, panicked>>

\* The ? after a call leaves everything as the calls before it made it.
Fail(th) ==
  /\ StageOf(at[th]) \notin {"system", "socket"}
  /\ at' = [at EXCEPT ![th] = 0]
  /\ result' = [result EXCEPT ![th] = "error"]
  /\ UNCHANGED <<initialized, succeeded, panicked>>

Panic(reason) ==
  /\ panicked' = reason
  /\ UNCHANGED <<initialized, succeeded, at, result>>

\* One call of the sequence, with the memory it takes first.  The result of
\* create_socket is unwrapped.
Call(th) ==
  LET stage == StageOf(at[th])
  IN /\ panicked = "no"
     /\ at[th] # 0
     /\ taken' = taken \cup Cells(stage)
     /\ IF Cells(stage) \cap taken # {}
        THEN Panic("cell_taken_twice")
        ELSE \/ Succeed(th)
             \/ Fail(th)
             \/ stage = "socket" /\ Panic("no_socket")

SetupNext == \E th \in Threads : TryInit(th) \/ Call(th)

SetupSpec == SetupInit /\ [][SetupNext]_setupVars

-----------------------------------------------------------------------------
(* Properties.                                                             *)

\* Type invariant of the initialization.
SetupTypeOK ==
  /\ initialized \in BOOLEAN
  /\ taken \subseteq UNION {Cells(s) : s \in {Stages[i] : i \in 1..LastStage}}
  /\ succeeded \subseteq {Stages[i] : i \in 1..LastStage}
  /\ at \in [Threads -> 0..LastStage]
  /\ result \in [Threads -> {"none", "already", "error", "network"}]
  /\ panicked \in {"no", "no_socket", "cell_taken_twice"}

\* What NetX and the WLAN driver require of a call.
Needs(stage) ==
  CASE stage = "buffers"    -> {"tx_pool", "rx_pool"}
    [] stage = "wifi_on"    -> {"buffers"}
    [] stage = "mac"        -> {"wifi_on"}
    [] stage = "ip"         -> {"system", "tx_pool", "wifi_on"}
    [] stage \in {"arp", "tcp", "udp", "icmp"} -> {"ip"}
    [] stage = "dhcp"       -> {"ip", "udp"}
    [] stage = "dhcp_start" -> {"dhcp"}
    [] stage = "address"    -> {"dhcp_start", "join"}
    [] stage = "socket"     -> {"ip", "tcp"}
    [] OTHER                -> {"system"} \ {stage}

\* No call of NetX is made on something that is not there yet, whichever
\* threads call initialize and whatever failed before.
InOrder ==
  \A th \in Threads : at[th] # 0 => Needs(StageOf(at[th])) \subseteq succeeded

\* However many threads call initialize, and however often, no StaticCell is
\* taken twice.
CellsTakenOnce == panicked # "cell_taken_twice"

\* Both: no call of initialize fails for what another one did or left out.
SetupSafe == InOrder /\ CellsTakenOnce

\* There is at most one network, and every call it rests on has succeeded.
OneNetwork ==
  \A th, other \in Threads :
    result[th] = "network" =>
      /\ result[other] = "network" => other = th
      /\ succeeded = {Stages[i] : i \in 1..LastStage}

\* One failure is for good: INITIALIZED stays full, so no later call of any
\* thread can bring the network up.
Failed ==
  /\ \A th \in Threads : at[th] = 0 /\ result[th] # "network"
  /\ \E th \in Threads : result[th] \in {"error", "already"}
FailureIsFinal == [][Failed => Failed']_setupVars
=============================================================================
