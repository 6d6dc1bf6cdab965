-------------------------------- MODULE Boot --------------------------------
(***************************************************************************)
(* The start of the four programs in bin/: Builder::initialize enters the  *)
(* kernel, which calls low_level_init of the board and then the definition *)
(* of the application, where every object is made that the threads need.   *)
(* No thread exists until that returns, so nothing there may have to wait. *)
(* A step needs some things, may use them up, makes others and may take    *)
(* bytes from the byte pool.                                               *)
(***************************************************************************)
EXTENDS Naturals, Sequences

Step(needs, uses, makes, pool, bytes) ==
  [needs |-> needs, uses |-> uses, makes |-> makes, pool |-> pool, bytes |-> bytes]

Make(needs, thing) == Step(needs, {}, {thing}, 0, 0)
Move(thing) == Step({thing}, {thing}, {}, 0, 0)
NewPool(bytes) == Step({}, {}, {"pool"}, bytes, 0)
FromPool(bytes) == Step({"pool"}, {}, {}, 0, bytes)

\* A Box needs the global allocator.
Thread(thing) == Make({"allocator"}, thing)

-----------------------------------------------------------------------------
\* Mutant of EnterKernel: the kernel is entered before the second callback is
\* stored.
EnterKernelEarly ==
  << Make({}, "INIT_CB"), Make({"INIT_CB", "DEFINE_CB"}, "kernel"), Make({}, "DEFINE_CB") >>

\* Builder::initialize
EnterKernel == << Make({}, "INIT_CB"), Make({}, "DEFINE_CB"), Make({"INIT_CB", "DEFINE_CB"}, "kernel") >>

\* BoardMxAz3166::low_level_init
LowLevelInit ==
  << Make({"kernel", "INIT_CB"}, "clocks"),
     Make({"clocks"}, "SysTick"),
     Make({"clocks"}, "i2c_bus"),
     Make({"i2c_bus"}, "temp_sensor"),
     Make({"i2c_bus"}, "display"),
     Make({}, "priorities") >>

\* The board is stored, or low_level_init returned it to nobody.
StoreBoard == << Make({"temp_sensor", "display"}, "BOARD") >>
DropBoard == << Move("temp_sensor"), Move("display"), Move("i2c_bus") >>

\* tx_application_define unwraps the second callback.
Called == Step({"DEFINE_CB"}, {}, {}, 0, 0)

\* bin/event_flag.rs
EventFlagDefine ==
  << Called, NewPool(1024), FromPool(256), FromPool(256), FromPool(256), Make({}, "allocator"),
     Make({}, "event_group"), Make({"allocator", "event_group"}, "timer"),
     Thread("thread1"), Thread("thread2"), Thread("thread3") >>

\* Mutant of QueueDefine: a stack of 512 bytes for each thread.
QueueDefineBig ==
  << Called, Make({}, "allocator"), NewPool(1024), FromPool(512), FromPool(512), FromPool(64),
     Make({}, "queue"), Thread("sender"), Thread("receiver") >>

\* bin/queue.rs
QueueDefine ==
  << Called, Make({}, "allocator"), NewPool(1024), FromPool(256), FromPool(256), FromPool(64),
     Make({}, "queue"), Thread("sender"), Thread("receiver") >>

\* bin/executor.rs
ExecutorDefine ==
  << Called, NewPool(2048), FromPool(1024), Make({}, "allocator"), Make({}, "executor"),
     Thread("executor_thread") >>

\* bin/network.rs: display and sensor are taken out of BOARD.
NetworkDefine ==
  << Called, Make({}, "allocator"), Make({}, "display_mtx"),
     Step({"BOARD", "display"}, {"display"}, {}, 0, 0), Make({"display_mtx"}, "display_ref"),
     Step({"BOARD", "temp_sensor", "i2c_bus"}, {"temp_sensor", "i2c_bus"}, {"hts221", "i2c"}, 0, 0),
     Make({}, "queue"), Make({}, "event_group"),
     Thread("wifi_thread"), Thread("measure_thread") >>

Apps == {"event_flag", "queue", "executor", "network"}

\* What runs before the threads, in the order in which the kernel calls it.
Callbacks(app) ==
  CASE app = "event_flag" -> <<EnterKernel, LowLevelInit, DropBoard, EventFlagDefine>>
    [] app = "queue" -> <<EnterKernel, LowLevelInit, DropBoard, QueueDefine>>
    [] app = "executor" -> <<EnterKernel, LowLevelInit, StoreBoard, ExecutorDefine>>
    [] app = "network" -> <<EnterKernel, LowLevelInit, StoreBoard, NetworkDefine>>

\* What the closure of each thread, and that of the timer, finds made.
Uses(thread) ==
  CASE thread \in {"timer", "thread1", "thread2", "thread3"} -> {"event_group"}
    [] thread \in {"sender", "receiver"} -> {"queue"}
    [] thread = "executor_thread" -> {"executor", "allocator", "BOARD", "temp_sensor", "i2c_bus"}
    [] thread = "wifi_thread" -> {"queue", "event_group", "display_ref", "allocator"}
    [] thread = "measure_thread" -> {"queue", "event_group", "hts221", "i2c"}

RunsCode == {"timer", "thread1", "thread2", "thread3", "sender", "receiver",
             "executor_thread", "wifi_thread", "measure_thread"}

-----------------------------------------------------------------------------
VARIABLES
  app,      \* the program
  stage,    \* the callback it is in: an index of Callbacks(app), 5 when all are done
  position, \* its next step there
  made,     \* what has been made and not been used up
  room,     \* bytes left in the byte pool
  running   \* the threads and timers that have run

bootVars == <<app, stage, position, made, room, running>>

BootInit ==
  /\ app \in Apps
  /\ stage = 1
  /\ position = 1
  /\ made = {}
  /\ room = 0
  /\ running = {}

PoolHeader == 8

Starting ==
  /\ stage <= 4
  /\ LET callback == Callbacks(app)[stage]
         step == callback[position]
     IN /\ made' = (made \ step.uses) \cup step.makes
        /\ room' = IF step.pool > 0 THEN step.pool - PoolHeader
                   ELSE IF step.bytes > 0 THEN room - (step.bytes + PoolHeader)
                   ELSE room
        /\ IF position < Len(callback)
           THEN position' = position + 1 /\ stage' = stage
           ELSE position' = 1 /\ stage' = stage + 1
  /\ UNCHANGED <<app, running>>

\* tx_application_define has returned: the kernel runs the threads.
RunThread(thread) ==
  /\ stage = 5
  /\ thread \in made
  /\ running' = running \cup {thread}
  /\ UNCHANGED <<app, stage, position, made, room>>

BootNext == Starting \/ \E thread \in RunsCode : RunThread(thread)

BootSpec == BootInit /\ [][BootNext]_bootVars

-----------------------------------------------------------------------------
(* Properties.                                                             *)

\* Each step of the start finds what it needs: callbacks before the kernel
\* asks for them, the allocator before the first Box, the parts of the board
\* before they are unwrapped; and each thread finds what its closure uses.
FindsItAll ==
  /\ stage <= 4 => Callbacks(app)[stage][position].needs \subseteq made
  /\ \A thread \in running : Uses(thread) \subseteq made

\* The byte pool always has room: allocate(true) would suspend, and there is
\* no thread to suspend.
NeverWaits == room \in Nat

\* Start of the programs: every step finds what it needs, and nothing waits
\* before there are threads.
Prepared == FindsItAll /\ NeverWaits

-----------------------------------------------------------------------------
(* Why: the inductive invariant of the proofs says where things are made   *)
(* and where they are used up.                                             *)

\* Step k of callback s has been taken.
Past(s, k) == stage > s \/ (stage = s /\ position > k)

BootTypeOK ==
  /\ app \in Apps
  /\ stage \in 1 .. 5
  /\ stage <= 4 => position \in 1 .. Len(Callbacks(app)[stage])

KernelReady ==
  /\ Past(1, 1) => "INIT_CB" \in made
  /\ Past(1, 2) => "DEFINE_CB" \in made
  /\ Past(1, 3) => "kernel" \in made

\* The sensor, the display and the bus are with the board until the board is
\* dropped, or until the definition of bin/network.rs takes them.
BoardReady ==
  /\ Past(2, 1) => "clocks" \in made
  /\ Past(2, 3) /\ ~Past(3, 3) => "i2c_bus" \in made
  /\ Past(2, 4) /\ ~Past(3, 1) => "temp_sensor" \in made
  /\ Past(2, 5) /\ ~Past(3, 1) => "display" \in made
  /\ app \in {"event_flag", "queue"} /\ stage = 3 /\ position = 2 => "display" \in made
  /\ app \in {"executor", "network"} /\ Past(3, 1) =>
       /\ "BOARD" \in made
       /\ app # "network" \/ ~Past(4, 4) => "display" \in made
       /\ app # "network" \/ ~Past(4, 6) => {"temp_sensor", "i2c_bus"} \subseteq made

\* What the definition of each program has made before a step needs it.
ObjectsReady ==
  /\ app = "event_flag" =>
       /\ Past(4, 2) => "pool" \in made
       /\ Past(4, 6) => "allocator" \in made
       /\ Past(4, 7) => "event_group" \in made
  /\ app = "queue" =>
       /\ Past(4, 2) => "allocator" \in made
       /\ Past(4, 3) => "pool" \in made
       /\ Past(4, 7) => "queue" \in made
  /\ app = "executor" =>
       /\ Past(4, 2) => "pool" \in made
       /\ Past(4, 4) => "allocator" \in made
       /\ Past(4, 5) => "executor" \in made
  /\ app = "network" =>
       /\ Past(4, 2) => "allocator" \in made
       /\ Past(4, 3) => "display_mtx" \in made
       /\ Past(4, 5) => "display_ref" \in made
       /\ Past(4, 6) => {"hts221", "i2c"} \subseteq made
       /\ Past(4, 7) => "queue" \in made
       /\ Past(4, 8) => "event_group" \in made

\* The bytes left when a block is allocated.
RoomLeft ==
  /\ room \in Nat
  /\ app = "event_flag" /\ stage = 4 =>
       (position = 3 => room = 1016) /\ (position = 4 => room = 752) /\ (position = 5 => room = 488)
  /\ app = "queue" /\ stage = 4 =>
       (position = 4 => room = 1016) /\ (position = 5 => room = 752) /\ (position = 6 => room = 488)
  /\ app = "executor" /\ stage = 4 => (position = 3 => room = 2040)

\* The threads, and the timer, of each program.
ThreadsOf(program) ==
  CASE program = "event_flag" -> {"timer", "thread1", "thread2", "thread3"}
    [] program = "queue" -> {"sender", "receiver"}
    [] program = "executor" -> {"executor_thread"}
    [] program = "network" -> {"wifi_thread", "measure_thread"}

\* No other threads are made, and none runs before the kernel lets it.
ThreadsLast ==
  /\ made \cap RunsCode \subseteq ThreadsOf(app)
  /\ running \subseteq made \cap RunsCode
  /\ running # {} => stage = 5

BootInv ==
  BootTypeOK /\ KernelReady /\ BoardReady /\ ObjectsReady /\ RoomLeft /\ ThreadsLast
=============================================================================
