---------------------------- MODULE EventFlags ------------------------------
(***************************************************************************)
(* EventFlagsGroup and the handles threads share (event_flags.rs): publish *)
(* sets bits, get waits for any or all of some bits and may clear them.    *)
(* A get(NoWait) that is not satisfied returns NoEvents and changes        *)
(* nothing.                                                                *)
(***************************************************************************)
EXTENDS TxEventFlags

CONSTANTS
  Bits,     \* bits in use
  Waiters,  \* threads that call get
  Asks      \* the requests each of them makes

Requests == [bits : SUBSET Bits, option : Options]

ASSUME AsksAssumption == Asks \in [Waiters -> SUBSET Requests]

VARIABLES
  flags,    \* bits set in the group
  waiting,  \* suspended threads
  ahead,    \* for each of them, those suspended before it
  request,  \* the last request of each thread
  got       \* the bits its last get has returned

flagVars == <<flags, waiting, ahead, request, got>>

\* EventFlagsGroup::initialize
FlagsInit ==
  /\ flags = {}
  /\ waiting = {}
  /\ ahead = [th \in Waiters |-> {}]
  /\ request = [th \in Waiters |-> [bits |-> {}, option |-> "WaitAll"]]
  /\ got = [th \in Waiters |-> {}]

-----------------------------------------------------------------------------
(* EventFlagsGroupHandle::get                                              *)

\* Mutant of Returned: the flags are read after they were cleared.
ReturnedLeft(seen, r) == Left(seen, r)

\* actual_flags, as the kernel has written it.
Returned(seen, r) == seen

\* Mutant of Queued: the last to come is the first to be served.
QueuedFirst(th) ==
  [w \in Waiters |-> IF w \in waiting THEN ahead[w] \cup {th} ELSE {}]

\* The thread is the last in the list of the kernel.
Queued(th) == [ahead EXCEPT ![th] = waiting]

GetFlags(th, r) ==
  /\ th \notin waiting
  /\ request' = [request EXCEPT ![th] = r]
  /\ IF Satisfied(flags, r)
     THEN /\ flags' = Left(flags, r)
          /\ got' = [got EXCEPT ![th] = Returned(flags, r)]
          /\ UNCHANGED <<waiting, ahead>>
     ELSE /\ waiting' = waiting \cup {th}
          /\ ahead' = Queued(th)
          /\ UNCHANGED <<flags, got>>

-----------------------------------------------------------------------------
(* EventFlagsGroupHandle::publish                                          *)

\* Mutant of SetAny: the option 2, which ands the bits into the group.
SetAndClear(bits) == flags \cap bits

\* The option 0 is SetAny.
SetAny(bits) == flags \cup bits

PublishFlags(bits) ==
  \E inTurn \in BOOLEAN, resumed \in SUBSET waiting :
    /\ Resumes(resumed, SetAny(bits), waiting, request, ahead, inTurn)
    /\ flags' = Remaining(SetAny(bits), resumed, request)
    /\ waiting' = waiting \ resumed
    /\ ahead' = [th \in Waiters |-> IF th \in waiting \ resumed THEN ahead[th] \ resumed ELSE {}]
    /\ got' = [th \in Waiters |->
                 IF th \in resumed
                 THEN Returned(Given(th, SetAny(bits), resumed, request, ahead, inTurn), request[th])
                 ELSE got[th]]
    /\ UNCHANGED request

FlagsNext ==
  \/ \E th \in Waiters : \E r \in Asks[th] : GetFlags(th, r)
  \/ \E b \in Bits : PublishFlags({b})

FlagsSpec == FlagsInit /\ [][FlagsNext]_flagVars

\* Every event comes again and again (a timer publishes them).
FlagsFairSpec == FlagsSpec /\ \A b \in Bits : WF_flagVars(PublishFlags({b}))

-----------------------------------------------------------------------------
(* Properties.                                                             *)

\* Type invariant of the group and of its waiters.
FlagsTypeOK ==
  /\ flags \in SUBSET Bits
  /\ waiting \in SUBSET Waiters
  /\ ahead \in [Waiters -> SUBSET Waiters]
  /\ request \in [Waiters -> Requests]
  /\ got \in [Waiters -> SUBSET Bits]

\* The list of the kernel: of two suspended threads one came before the other.
InOrder ==
  /\ \A th \in waiting : ahead[th] \subseteq waiting \ {th}
  /\ \A a, b \in waiting : a # b => (a \in ahead[b] <=> b \notin ahead[a])

\* No thread stays suspended on flags that are set, whichever gets and
\* publishes came before and whatever was cleared for the others.
NoneOverlooked ==
  \A th \in waiting : ~Satisfied(flags, request[th])

\* What a get returns satisfies what it asked for, also when the bits have
\* been cleared since, for it or for another thread.
ResultSatisfies ==
  \A th \in Waiters \ waiting : Satisfied(got[th], request[th])

\* The inductive invariant: nobody is overlooked, whatever get and publish
\* have done to the flags, and nobody is resumed for less than it asked for.
FlagsInv == FlagsTypeOK /\ InOrder /\ NoneOverlooked /\ ResultSatisfies

\* A thread that waits for one of several bits, or for a single one, goes on
\* when they are published again and again, however often other threads
\* clear them; a thread that waits for two bits at once has no such promise.
OneOf(r) == ~All(r.option) \/ \E b \in Bits : r.bits = {b}

AnyServed == \A th \in Waiters : (th \in waiting /\ OneOf(request[th])) ~> th \notin waiting
=============================================================================
