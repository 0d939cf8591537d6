----------------------------- MODULE DiningPhil -----------------------------
(***************************************************************************)
(* Multithreading&ThreadSync/Thread_sync/Dining_philosopher/dnphil.c: each *)
(* philosopher is a thread; a spoon has a mutex, a condition variable and  *)
(* an owner (is_used and phil, always set together).  Philosopher p's left *)
(* spoon is spoon p, so only p waits on the condition variable of spoon p  *)
(* and only its other user, to whom it is the right spoon, must signal it. *)
(* A critical section that blocks nowhere inside is one step.              *)
(***************************************************************************)
EXTENDS Integers

CONSTANTS NO_PHIL,
          Nobody      \* phil == NULL, and the holder of an unlocked mutex

ASSUME PhilAssumption == NO_PHIL \in Nat \ {0, 1} /\ Nobody \notin 0..(NO_PHIL - 1)

Phils == 0..(NO_PHIL - 1)

VARIABLES pc, owner, mutex

vars == <<pc, owner, mutex>>

\* left, right: before the lock of that spoon's mutex in phil_access_both_spoon;
\* wait: in pthread_cond_wait; woken: signalled, before the mutex is locked
\* again; relock: right mutex held, before the lock of the left one (line 118);
\* release, second: before the two locks of phil_release_both_spoon; third: left
\* spoon released, right mutex still held.
Pcs == {"left", "wait", "woken", "right", "relock", "eat", "release", "second", "third"}

TypeOK ==
  /\ pc \in [Phils -> Pcs]
  /\ owner \in [Phils -> Phils \cup {Nobody}]
  /\ mutex \in [Phils -> Phils \cup {Nobody}]

\* Mutant: the loop over the spoons stops one short.
InitShort ==
  /\ pc = [p \in Phils |-> "left"]
  /\ owner = [s \in 0..(NO_PHIL - 2) |-> Nobody]
  /\ mutex = [s \in Phils |-> Nobody]

Init ==
  /\ pc = [p \in Phils |-> "left"]
  /\ owner = [s \in Phils |-> Nobody]
  /\ mutex = [s \in Phils |-> Nobody]

phil_get_left_spoon(p) == p
phil_get_right_spoon(p) == IF p = 0 THEN NO_PHIL - 1 ELSE p - 1

L(p) == phil_get_left_spoon(p)
R(p) == phil_get_right_spoon(p)

Free(s) == mutex[s] = Nobody

GoTo(p, label) == pc' = [pc EXCEPT ![p] = label]

\* pthread_cond_signal of spoon s, by p on its way to label.
\* Mutant: the signal is left out.
NoSignal(s, p, label) == GoTo(p, label)
Signal(s, p, label) ==
  pc' = [q \in Phils |-> IF q = p THEN label
                         ELSE IF q = s /\ pc[q] = "wait" THEN "woken" ELSE pc[q]]

\* Mutant: "left_spoon->phil != phil" alone decides, without is_used.
TakeLeftAlways(p) ==
  /\ pc[p] \in {"left", "woken"} /\ Free(L(p))
  /\ owner' = [owner EXCEPT ![L(p)] = p]
  /\ GoTo(p, "right")
  /\ UNCHANGED mutex

\* Lines 92-101: the left spoon is taken as soon as it is free.
TakeLeft(p) ==
  /\ pc[p] \in {"left", "woken"} /\ Free(L(p))
  /\ IF owner[L(p)] \in {p, Nobody}
     THEN owner' = [owner EXCEPT ![L(p)] = p] /\ GoTo(p, "right")
     ELSE UNCHANGED owner /\ GoTo(p, "wait")
  /\ UNCHANGED mutex

\* POSIX lets pthread_cond_wait return without a signal.
WakeUp(p) ==
  /\ pc[p] = "wait"
  /\ GoTo(p, "woken")
  /\ UNCHANGED <<owner, mutex>>

\* Lines 103-116 and 128-132: the right spoon is taken if it is free; if it is
\* not, its mutex is kept.
TakeRight(p) ==
  /\ pc[p] = "right" /\ Free(R(p))
  /\ IF owner[R(p)] \in {p, Nobody}
     THEN /\ owner' = [owner EXCEPT ![R(p)] = p]
          /\ GoTo(p, "eat")
          /\ UNCHANGED mutex
     ELSE /\ mutex' = [mutex EXCEPT ![R(p)] = p]
          /\ GoTo(p, "relock")
          /\ UNCHANGED owner

\* Lines 118-126: with the right mutex held, lock the left one and put the left
\* spoon back, without a signal.
GiveUpLeft(p) ==
  /\ pc[p] = "relock" /\ Free(L(p))
  /\ owner' = [owner EXCEPT ![L(p)] = Nobody]
  /\ mutex' = [mutex EXCEPT ![R(p)] = Nobody]
  /\ GoTo(p, "left")

\* phil_eat.
Eat(p) ==
  /\ pc[p] = "eat"
  /\ GoTo(p, "release")
  /\ UNCHANGED <<owner, mutex>>

\* phil_release_both_spoon, line 145.
LockLeft(p) ==
  /\ pc[p] = "release" /\ Free(L(p))
  /\ mutex' = [mutex EXCEPT ![L(p)] = p]
  /\ GoTo(p, "second")
  /\ UNCHANGED owner

\* Mutant: the left mutex stays locked.
ReleaseLeftKeepsLock(p) ==
  /\ pc[p] = "second" /\ Free(R(p))
  /\ owner' = [owner EXCEPT ![L(p)] = Nobody]
  /\ mutex' = [mutex EXCEPT ![R(p)] = p]
  /\ Signal(L(p), p, "third")

\* Lines 146-156.
ReleaseLeft(p) ==
  /\ pc[p] = "second" /\ Free(R(p))
  /\ owner' = [owner EXCEPT ![L(p)] = Nobody]
  /\ mutex' = [mutex EXCEPT ![L(p)] = Nobody, ![R(p)] = p]
  /\ Signal(L(p), p, "third")

\* Mutant: the right spoon keeps its owner.
ReleaseRightKeepsOwner(p) ==
  /\ pc[p] = "third"
  /\ mutex' = [mutex EXCEPT ![R(p)] = Nobody]
  /\ Signal(R(p), p, "left")
  /\ UNCHANGED owner

\* Lines 159-162.
ReleaseRight(p) ==
  /\ pc[p] = "third"
  /\ owner' = [owner EXCEPT ![R(p)] = Nobody]
  /\ mutex' = [mutex EXCEPT ![R(p)] = Nobody]
  /\ Signal(R(p), p, "left")

Lock(p)   == TakeLeft(p) \/ TakeRight(p) \/ GiveUpLeft(p) \/ LockLeft(p) \/ ReleaseLeft(p)
Unlock(p) == Eat(p) \/ ReleaseRight(p)

Next == \E p \in Phils : Lock(p) \/ Unlock(p) \/ WakeUp(p)

Spec == Init /\ [][Next]_vars

\* A running thread runs on, and a mutex that is unlocked again and again is at
\* some time locked by each thread that waits for it.
FairSpec ==
  Spec /\ \A p \in Phils : WF_vars(Unlock(p)) /\ SF_vars(Lock(p))
-----------------------------------------------------------------------------
Holds(p, s) == owner[s] = p

\* The assertions of phil_eat (76-79), of the way back from the right spoon
\* (119-120) and of phil_release_both_spoon (148-151): whoever eats or is about to
\* release owns both spoons, whoever gives up owns the left one.  With them no two
\* neighbours eat at once.
AssertsHold ==
  \A p \in Phils :
    /\ pc[p] \in {"eat", "release", "second"} => Holds(p, L(p)) /\ Holds(p, R(p))
    /\ pc[p] = "relock" => Holds(p, L(p))

\* A philosopher that sleeps on a spoon sleeps because its neighbour owns it: no
\* spoon is free while the one philosopher that wants it from its condition
\* variable is asleep, although line 124 releases a spoon without a signal.
NoLostWakeup ==
  \A p \in Phils : pc[p] = "wait" =>
    \E q \in Phils \ {p} : owner[L(p)] = q /\ R(q) = L(p)

\* The lock a philosopher is about to take is held by another one.
Blocked(p) ==
  \/ pc[p] \in {"left", "woken", "relock", "release"} /\ ~Free(L(p))
  \/ pc[p] \in {"right", "second"} /\ ~Free(R(p))
  \/ pc[p] = "wait"

\* All philosophers hold their right mutex and wait for the left one (line 118).
Circle == \A p \in Phils : pc[p] = "relock"

\* The one way for all threads to stop is the circle of line 118: waiting for a
\* spoon, and locking both mutexes to release, never close another one.
OnlyOneDeadlock == (\A p \in Phils : Blocked(p)) => Circle

\* The spoon a philosopher sleeps on is released at some time, unless the threads
\* end in the circle.
WaitedSpoonReleased ==
  \A p \in Phils : pc[p] = "wait" ~> (owner[L(p)] \in {p, Nobody} \/ Circle)

\* "Phil %d is releasing left spoon %d then" (line 117): a philosopher that has
\* printed this releases its left spoon.
ReleasingReleases ==
  \A p \in Phils : pc[p] = "relock" ~> pc[p] = "left"
=============================================================================
