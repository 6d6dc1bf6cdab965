---------------------------- MODULE GlobalAlloc -----------------------------
(***************************************************************************)
(* What the trait GlobalAlloc asks of an allocator, as allocator.rs has to *)
(* provide it: alloc returns memory of the size and with the alignment of  *)
(* the layout which nobody else has, dealloc takes back what alloc has     *)
(* returned.  No headers, no kernel, no rounding.                          *)
(***************************************************************************)
EXTENDS Integers

CONSTANTS First, Length, Layouts

VARIABLE live  \* the allocations of the program

Init == live = {}

Apart(ptr, size, a) == ptr + size <= a.ptr \/ a.ptr + a.size <= ptr

Alloc(l) ==
  \E ptr \in First .. First + Length :
    /\ ptr % l.align = 0
    /\ ptr + l.size <= First + Length
    /\ \A a \in live : Apart(ptr, l.size, a)
    /\ live' = live \cup {[ptr |-> ptr, size |-> l.size, align |-> l.align]}

Dealloc(a) == live' = live \ {a}

Next == (\E l \in Layouts : Alloc(l)) \/ (\E a \in live : Dealloc(a))

Spec == Init /\ [][Next]_live
=============================================================================
