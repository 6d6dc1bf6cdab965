------------------------------- MODULE TxTime -------------------------------
(* The conversion of a Duration to ticks (time.rs).  Durations are         *)
(* milliseconds here.                                                      *)
EXTENDS Naturals

CONSTANTS
  TicksPerSecond,  \* TX_TIMER_TICKS_PER_SECOND
  TickModulus      \* 2^32 in the code

ASSUME TimeAssumption == TicksPerSecond \in 1 .. 1000 /\ TickModulus \in Nat \ {0}

MillisPerTick == 1000 \div TicksPerSecond

\* TxTicks::from: as_millis, a division that rounds down, "as u32".
Ticks(millis) == (millis \div MillisPerTick) % TickModulus
=============================================================================
