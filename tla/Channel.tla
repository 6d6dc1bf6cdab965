------------------------------ MODULE Channel -------------------------------
(* What a ThreadX queue promises, as queue.rs describes it to Rust: the    *)
(* message is copied, send and receive may be called from any thread, and  *)
(* messages come out once each in the order they went in.  There is no     *)
(* limit: a sender that waits for room has already sent.                   *)
EXTENDS Naturals, Sequences

CONSTANTS Receivers, MaxSent

VARIABLES
  line,      \* messages sent and not yet received
  waiting,   \* receivers that wait, in the order they came
  sent,      \* number of the last message sent
  received   \* number of the last message received

vars == <<line, waiting, sent, received>>

Init ==
  /\ line = <<>>
  /\ waiting = <<>>
  /\ sent = 0
  /\ received = 0

\* A message goes to the receiver that has waited longest, or to the line.
Send ==
  /\ sent < MaxSent
  /\ sent' = sent + 1
  /\ \/ /\ waiting = <<>>
        /\ line' = Append(line, sent')
        /\ UNCHANGED <<waiting, received>>
     \/ /\ waiting # <<>> /\ line = <<>>
        /\ waiting' = Tail(waiting)
        /\ received' = sent'
        /\ UNCHANGED line

Take(th) ==
  /\ line # <<>>
  /\ line' = Tail(line)
  /\ received' = Head(line)
  /\ UNCHANGED <<waiting, sent>>

Wait(th) ==
  /\ line = <<>>
  /\ waiting' = Append(waiting, th)
  /\ UNCHANGED <<line, sent, received>>

Receive(th) ==
  /\ \A i \in 1 .. Len(waiting) : waiting[i] # th
  /\ Take(th) \/ Wait(th)

Next == Send \/ \E th \in Receivers : Receive(th)

Spec == Init /\ [][Next]_vars
=============================================================================
