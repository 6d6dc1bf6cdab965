---------------------------- MODULE MCResources -----------------------------
(* The network, memory pools, global allocator, threads, the start of the  *)
(* programs and the I2C bus for TLC, side by side: each behaviour is one of *)
(* the part chosen at the start.                                           *)
EXTENDS Heap, Pools, ThreadHandles, BoardBus, Boot, Network

CONSTANT th1

\* Alignments below, at and above a word, in a heap that starts in the middle of
\* one; sizes below, at and above the alignment, multiples of it and not.
HeapLayouts ==
  {[size |-> 1, align |-> 1], [size |-> 5, align |-> 2],
   [size |-> 6, align |-> 4], [size |-> 8, align |-> 8]}

VARIABLE part

boardVars == <<threadVars, bootVars, busVars>>
memoryVars == <<heapVars, poolVars>>
allVars == <<part, memoryVars, boardVars, networkVars>>

ASSUME PoolsAssumption /\ HeapAssumption

-----------------------------------------------------------------------------
ResourcesInit ==
  /\ part \in {"pools", "heap", "threads", "boot", "bus", "network"}
  /\ HeapInit
  /\ PoolsInit /\ (part # "pools" => \A p \in DOMAIN owner : owner[p] = th1)
  /\ ThreadsInit
  /\ BootInit /\ (part # "boot" => app = "queue")
  /\ BusInit /\ (part # "bus" => current = th1)
  /\ NetworkStart

\* A step of one part leaves the others alone.
HeapStep == part = "heap" /\ HeapNext /\ UNCHANGED <<part, poolVars, boardVars, networkVars>>
PoolStep == part = "pools" /\ PoolsNext /\ UNCHANGED <<part, heapVars, boardVars, networkVars>>
ThreadStep ==
  /\ part = "threads" /\ ThreadsNext
  /\ UNCHANGED <<part, memoryVars, bootVars, busVars, networkVars>>
BootStep ==
  /\ part = "boot" /\ BootNext
  /\ UNCHANGED <<part, memoryVars, threadVars, busVars, networkVars>>
BusStep ==
  /\ part = "bus" /\ BusNext
  /\ UNCHANGED <<part, memoryVars, threadVars, bootVars, networkVars>>
NetworkStep(A) == part = "network" /\ A /\ UNCHANGED <<part, memoryVars, boardVars>>

ResourcesNext ==
  HeapStep \/ PoolStep \/ ThreadStep \/ BootStep \/ BusStep \/ NetworkStep(NetworkNext)

\* The fairness is that of NetworkSpec.
ResourcesSpec ==
  /\ ResourcesInit /\ [][ResourcesNext]_allVars
  /\ WF_allVars(NetworkStep(ClientStep(Returns)))
  /\ WF_allVars(NetworkStep(ClientStep(Acknowledge \/ Reset)))

\* The properties are those of the modules.
=============================================================================
