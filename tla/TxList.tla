------------------------------- MODULE TxList -------------------------------
(* The lists in which the kernel keeps suspended threads, as far as it     *)
(* does more with them than to append a thread and to resume the first.    *)
EXTENDS Naturals, Sequences

\* Prioritize services: element i goes to the front, the others keep their
\* order.
Fronted(list, i) ==
  [j \in 1 .. Len(list) |->
     IF j = 1 THEN list[i] ELSE IF j <= i THEN list[j - 1] ELSE list[j]]
=============================================================================
