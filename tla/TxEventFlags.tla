---------------------------- MODULE TxEventFlags ----------------------------
(* The event flags group of ThreadX as threadx-rs uses it (external: the   *)
(* kernel is not part of the repository).  A request is a record of the    *)
(* bits a get asks for and of its GetOption; a group is a set of bits.     *)
EXTENDS Naturals

Options == {"WaitAll", "WaitAllAndClear", "WaitAny", "WaitAnyAndClear"}

All(option) == option \in {"WaitAll", "WaitAllAndClear"}
Clears(option) == option \in {"WaitAllAndClear", "WaitAnyAndClear"}

Satisfied(flags, request) ==
  IF All(request.option)
  THEN request.bits \subseteq flags
  ELSE request.bits \cap flags # {}

Left(flags, request) ==
  IF Clears(request.option) THEN flags \ request.bits ELSE flags

\* What is left of the bits once some threads have been served.
Remaining(bits, served, request) == {b \in bits : \A th \in served : b \in Left(bits, request[th])}

\* _tx_event_flags_set looks at the waiters in the order in which they came.
\* It compares each of them with all that was set (together), or with what
\* those before it have left (in turn): the repository does not say which.
Given(th, bits, resumed, request, ahead, inTurn) ==
  Remaining(bits, IF inTurn THEN resumed \cap ahead[th] ELSE {}, request)

\* Mutant of Resumes: the comparison is with any one of the bits.
ResumesAny(resumed, bits, waiting, request, ahead, inTurn) ==
  resumed = {th \in waiting :
    request[th].bits \cap Given(th, bits, resumed, request, ahead, inTurn) # {}}

\* The threads it resumes are those satisfied with what they are given.
Resumes(resumed, bits, waiting, request, ahead, inTurn) ==
  resumed = {th \in waiting :
    Satisfied(Given(th, bits, resumed, request, ahead, inTurn), request[th])}
=============================================================================
