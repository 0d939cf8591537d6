-------------------------- MODULE DiningPhil_proofs --------------------------
(***************************************************************************)
(* The safety of DiningPhil for every number of philosophers: the          *)
(* assertions of dnphil.c hold, no philosopher sleeps on a free spoon, and *)
(* the circle of line 118 is the only state in which all threads are       *)
(* stuck.                                                                  *)
(***************************************************************************)
EXTENDS DiningPhil, WellFoundedInduction, TLAPS

\* Every non-empty set of natural numbers has a least element.
LEMMA Least ==
  ASSUME NEW S \in SUBSET Nat, S # {}
  PROVE  \E n \in S : \A m \in S : n <= m
<1> DEFINE Less == OpToRel(<, Nat)
<1>1. \A x, y \in Nat : y < x => <<y, x>> \in Less
  BY DEF OpToRel
<1>2. IsWellFoundedOn(Less, Nat)
  BY NatLessThanWellFounded, Zenon
<1> HIDE DEF Less
<1>3. PICK x \in S : \A y \in S : ~ (<<y, x>> \in Less)
  BY <1>2, WFMin
<1>4. \A y \in S : ~ (y < x)
  BY <1>1, <1>3
<1>5. QED BY <1>4

\* A philosopher on its way between the two locks owns its left spoon, ...
LeftOwned ==
  \A p \in Phils :
    pc[p] \in {"right", "relock", "eat", "release", "second"} => owner[L(p)] = p

\* ... and it owns its right one exactly from the check of line 128 to line 159.
RightOwned ==
  \A p \in Phils :
    owner[R(p)] = p <=> pc[p] \in {"eat", "release", "second", "third"}

\* A spoon is owned by one of its two users.
OwnedByUser ==
  \A s \in Phils : owner[s] # Nobody => s \in {L(owner[s]), R(owner[s])}

\* The mutexes that are held between two steps.
MutexHeld ==
  \A p, s \in Phils :
    mutex[s] = p <=> \/ s = R(p) /\ pc[p] \in {"relock", "third"}
                     \/ s = L(p) /\ pc[p] = "second"

\* Who sleeps has seen another owner, and is woken when that one leaves.
Sleepers ==
  \A p \in Phils : pc[p] = "wait" => owner[L(p)] \notin {p, Nobody}

IInv ==
  TypeOK /\ LeftOwned /\ RightOwned /\ OwnedByUser /\ MutexHeld /\ Sleepers

-----------------------------------------------------------------------------
\* The table is a ring: the right spoon is another philosopher's left one, and
\* each spoon is the right one of a single philosopher.
LEMMA Ring ==
  /\ Nobody \notin Phils
  /\ \A p \in Phils : L(p) = p /\ R(p) \in Phils /\ R(p) # p
  /\ \A p, q \in Phils : R(p) = R(q) => p = q
BY PhilAssumption
   DEF Phils, L, R, phil_get_left_spoon, phil_get_right_spoon

\* A set of philosophers that has, with each one, the one whose right spoon that
\* one's left is, has them all.
LEMMA RingClosed ==
  ASSUME NEW S \in SUBSET Phils, S # {},
         \A h \in S : \E g \in S : R(g) = h
  PROVE  S = Phils
<1> USE PhilAssumption DEF Phils, R, phil_get_right_spoon
<1>1. \A h \in S : IF h = NO_PHIL - 1 THEN 0 \in S ELSE h + 1 \in S
  OBVIOUS
<1>2. PICK r \in S : TRUE
  OBVIOUS
<1>3. \A p \in r..(NO_PHIL - 1) : p \in S
  <2> DEFINE Missing == {p \in r..(NO_PHIL - 1) : p \notin S}
  <2>1. SUFFICES ASSUME Missing # {} PROVE FALSE
    OBVIOUS
  <2>2. PICK p \in Missing : \A q \in Missing : p <= q
    BY <2>1, Least, Missing \in SUBSET Nat
  <2>3. p # r /\ p - 1 \in S
    BY <2>2
  <2>4. QED BY <1>1, <2>2, <2>3
<1>4. 0 \in S
  BY <1>1, <1>3
<1>5. \A p \in Phils : p \in S
  <2> DEFINE Missing == {p \in Phils : p \notin S}
  <2>1. SUFFICES ASSUME Missing # {} PROVE FALSE
    OBVIOUS
  <2>2. PICK p \in Missing : \A q \in Missing : p <= q
    BY <2>1, Least, Missing \in SUBSET Nat
  <2>3. p # 0 /\ p - 1 \in S
    BY <1>4, <2>2
  <2>4. QED BY <1>1, <2>2, <2>3
<1>6. QED BY <1>5

LEMMA InitIInv == Init => IInv
<1> SUFFICES ASSUME Init PROVE IInv
  OBVIOUS
<1> USE Ring DEF Init
<1>1. TypeOK      BY DEF TypeOK, Pcs
<1>2. LeftOwned   BY DEF LeftOwned
<1>3. RightOwned  BY DEF RightOwned
<1>4. OwnedByUser BY DEF OwnedByUser
<1>5. MutexHeld   BY DEF MutexHeld
<1>6. Sleepers    BY DEF Sleepers
<1>7. QED BY <1>1, <1>2, <1>3, <1>4, <1>5, <1>6 DEF IInv

LEMMA TypePreserved == TypeOK /\ [Next]_vars => TypeOK'
<1> SUFFICES ASSUME TypeOK, [Next]_vars PROVE TypeOK'
  OBVIOUS
<1> USE Ring DEF TypeOK, Pcs, GoTo, Signal
<1>1. ASSUME NEW p \in Phils, TakeLeft(p) PROVE TypeOK'
  BY <1>1 DEF TakeLeft
<1>2. ASSUME NEW p \in Phils, TakeRight(p) PROVE TypeOK'
  BY <1>2 DEF TakeRight
<1>3. ASSUME NEW p \in Phils, GiveUpLeft(p) PROVE TypeOK'
  BY <1>3 DEF GiveUpLeft
<1>4. ASSUME NEW p \in Phils, LockLeft(p) PROVE TypeOK'
  BY <1>4 DEF LockLeft
<1>5. ASSUME NEW p \in Phils, ReleaseLeft(p) PROVE TypeOK'
  BY <1>5 DEF ReleaseLeft
<1>6. ASSUME NEW p \in Phils, Eat(p) PROVE TypeOK'
  BY <1>6 DEF Eat
<1>7. ASSUME NEW p \in Phils, ReleaseRight(p) PROVE TypeOK'
  BY <1>7 DEF ReleaseRight
<1>8. ASSUME NEW p \in Phils, WakeUp(p) PROVE TypeOK'
  BY <1>8 DEF WakeUp
<1>9. CASE UNCHANGED vars
  BY <1>9 DEF vars
<1>10. QED
  BY <1>1, <1>2, <1>3, <1>4, <1>5, <1>6, <1>7, <1>8, <1>9 DEF Next, Lock, Unlock

\* One step of one philosopher, for the conjuncts that are about spoons.
LEMMA StepPreserved ==
  ASSUME IInv, TypeOK', NEW p \in Phils, Lock(p) \/ Unlock(p) \/ WakeUp(p)
  PROVE  LeftOwned' /\ RightOwned' /\ OwnedByUser' /\ MutexHeld' /\ Sleepers'
<1> USE Ring DEF IInv, TypeOK, GoTo, Signal, Free
<1>1. CASE TakeLeft(p)
  <2> USE <1>1 DEF TakeLeft
  <2>1. LeftOwned'  BY DEF LeftOwned
  <2>2. RightOwned'  BY DEF RightOwned
  <2>3. OwnedByUser'  BY DEF OwnedByUser
  <2>4. MutexHeld'  BY DEF MutexHeld
  <2>5. Sleepers'  BY DEF Sleepers
  <2>6. QED BY <2>1, <2>2, <2>3, <2>4, <2>5
<1>2. CASE TakeRight(p)
  <2> USE <1>2 DEF TakeRight
  <2>1. LeftOwned'  BY DEF LeftOwned
  <2>2. RightOwned'  BY DEF RightOwned
  <2>3. OwnedByUser'  BY DEF OwnedByUser
  <2>4. MutexHeld'  BY DEF MutexHeld
  <2>5. Sleepers'  BY DEF Sleepers
  <2>6. QED BY <2>1, <2>2, <2>3, <2>4, <2>5
<1>3. CASE GiveUpLeft(p)
  <2> USE <1>3 DEF GiveUpLeft
  <2>1. LeftOwned'  BY DEF LeftOwned
  <2>2. RightOwned'  BY DEF LeftOwned, RightOwned
  <2>3. OwnedByUser'  BY DEF OwnedByUser
  <2>4. MutexHeld'  BY DEF MutexHeld
  <2>5. Sleepers'  BY DEF Sleepers
  <2>6. QED BY <2>1, <2>2, <2>3, <2>4, <2>5
<1>4. CASE LockLeft(p)
  <2> USE <1>4 DEF LockLeft
  <2>1. LeftOwned'  BY DEF LeftOwned
  <2>2. RightOwned'  BY DEF RightOwned
  <2>3. OwnedByUser'  BY DEF OwnedByUser
  <2>4. MutexHeld'  BY DEF MutexHeld
  <2>5. Sleepers'  BY DEF Sleepers
  <2>6. QED BY <2>1, <2>2, <2>3, <2>4, <2>5
<1>5. CASE ReleaseLeft(p)
  <2> USE <1>5 DEF ReleaseLeft
  <2>1. LeftOwned'  BY DEF LeftOwned
  <2>2. RightOwned'  BY DEF LeftOwned, RightOwned
  <2>3. OwnedByUser'  BY DEF OwnedByUser
  <2>4. MutexHeld'  BY DEF MutexHeld
  <2>5. Sleepers'  BY DEF Sleepers
  <2>6. QED BY <2>1, <2>2, <2>3, <2>4, <2>5
<1>6. CASE Eat(p)
  <2> USE <1>6 DEF Eat
  <2>1. LeftOwned'  BY DEF LeftOwned
  <2>2. RightOwned'  BY DEF RightOwned
  <2>3. OwnedByUser'  BY DEF OwnedByUser
  <2>4. MutexHeld'  BY DEF MutexHeld
  <2>5. Sleepers'  BY DEF Sleepers
  <2>6. QED BY <2>1, <2>2, <2>3, <2>4, <2>5
<1>7. CASE ReleaseRight(p)
  <2> USE <1>7 DEF ReleaseRight
  <2>1. LeftOwned'  BY DEF LeftOwned, RightOwned
  <2>2. RightOwned'  BY DEF RightOwned
  <2>3. OwnedByUser'  BY DEF OwnedByUser
  <2>4. MutexHeld'  BY DEF MutexHeld
  <2>5. Sleepers'  BY DEF Sleepers
  <2>6. QED BY <2>1, <2>2, <2>3, <2>4, <2>5
<1>8. CASE WakeUp(p)
  <2> USE <1>8 DEF WakeUp
  <2>1. LeftOwned'  BY DEF LeftOwned
  <2>2. RightOwned'  BY DEF RightOwned
  <2>3. OwnedByUser'  BY DEF OwnedByUser
  <2>4. MutexHeld'  BY DEF MutexHeld
  <2>5. Sleepers'  BY DEF Sleepers
  <2>6. QED BY <2>1, <2>2, <2>3, <2>4, <2>5
<1>9. QED BY <1>1, <1>2, <1>3, <1>4, <1>5, <1>6, <1>7, <1>8 DEF Lock, Unlock

LEMMA IInvPreserved == IInv /\ [Next]_vars => IInv'
<1> SUFFICES ASSUME IInv, [Next]_vars PROVE IInv'
  OBVIOUS
<1>1. TypeOK'
  BY TypePreserved DEF IInv
<1>2. ASSUME NEW p \in Phils, Lock(p) \/ Unlock(p) \/ WakeUp(p)
      PROVE  IInv'
  BY <1>1, <1>2, StepPreserved DEF IInv
<1>3. CASE UNCHANGED vars
  BY <1>3 DEF vars, IInv, TypeOK, LeftOwned, RightOwned, OwnedByUser, MutexHeld, Sleepers
<1>4. QED BY <1>2, <1>3 DEF Next

LEMMA Invariant == Spec => []IInv
BY InitIInv, IInvPreserved, PTL DEF Spec

-----------------------------------------------------------------------------
\* The program counters, owners and mutexes stay in their sets.
THEOREM TypeCorrect == Spec => []TypeOK
<1>1. IInv => TypeOK
  BY DEF IInv
<1>2. QED BY <1>1, Invariant, PTL

\* The assertions of dnphil.c (lines 76-79, 119-120, 148-151) hold in every run.
THEOREM AssertionsHold == Spec => []AssertsHold
<1>1. IInv => AssertsHold
  BY Ring DEF IInv, LeftOwned, RightOwned, AssertsHold, Holds
<1>2. QED BY <1>1, Invariant, PTL

\* Nobody sleeps on a spoon that is free: line 124 may release without a signal.
THEOREM NoWakeupLost == Spec => []NoLostWakeup
<1>1. IInv => NoLostWakeup
  <2> SUFFICES ASSUME IInv, NEW p \in Phils, pc[p] = "wait"
               PROVE  \E q \in Phils \ {p} : owner[L(p)] = q /\ R(q) = L(p)
    BY DEF NoLostWakeup
  <2> DEFINE q == owner[L(p)]
  <2>1. q \in Phils \ {p}
    BY Ring DEF IInv, TypeOK, Sleepers
  <2>2. L(p) \in {L(q), R(q)}
    BY <2>1, Ring DEF IInv, OwnedByUser
  <2>3. R(q) = L(p)
    BY <2>1, <2>2, Ring
  <2>4. QED BY <2>1, <2>3
<1>2. QED BY <1>1, Invariant, PTL

\* A state in which no thread can go on is the circle of line 118: all hold the
\* mutex of their right spoon and wait for that of their left one.
THEOREM OneDeadlock == Spec => []OnlyOneDeadlock
<1>1. ASSUME IInv, \A p \in Phils : Blocked(p)
      PROVE  Circle
  <2> DEFINE S == {p \in Phils : pc[p] = "relock"}
  <2> USE <1>1, Ring DEF IInv, TypeOK, Pcs, Blocked, Free
  <2>1. \A p \in Phils : pc[p] \notin {"eat", "third"}
    OBVIOUS
  <2>2. \A p \in Phils : pc[p] # "second"
    <3> SUFFICES ASSUME NEW p \in Phils, pc[p] = "second" PROVE FALSE
      OBVIOUS
    <3>1. PICK h \in Phils : mutex[R(p)] = h
      OBVIOUS
    <3>2. R(p) = L(h) /\ pc[h] = "second"
      BY <3>1, <2>1 DEF MutexHeld
    <3>3. owner[R(p)] = p /\ owner[L(h)] = h
      BY <3>2 DEF LeftOwned, RightOwned
    <3>4. QED BY <3>2, <3>3
  <2>3. \A s \in Phils : mutex[s] # Nobody => \E h \in S : R(h) = s
    BY <2>1, <2>2 DEF MutexHeld
  <2>4. \A p \in Phils : pc[p] # "right"
    BY <2>3
  <2>5. \A p \in Phils : pc[p] # "wait" => \E h \in S : R(h) = p
    BY <2>1, <2>2, <2>3, <2>4
  <2>6. S # {}
    <3> DEFINE p == 0
    <3>1. p \in Phils
      BY PhilAssumption DEF Phils
    <3> HIDE DEF p
    <3>2. CASE pc[p] # "wait"
      BY <2>5, <3>1, <3>2
    <3>3. CASE pc[p] = "wait"
      <4> DEFINE q == owner[p]
      <4>1. q \in Phils /\ R(q) = p
        BY <3>1, <3>3 DEF Sleepers, OwnedByUser
      <4>2. pc[q] # "wait"
        BY <3>1, <4>1 DEF RightOwned
      <4>3. QED BY <2>5, <4>1, <4>2
    <3>4. QED BY <3>2, <3>3
  <2>7. S = Phils
    BY <2>5, <2>6, RingClosed
  <2>8. QED BY <2>7 DEF Circle
<1>2. IInv => OnlyOneDeadlock
  BY <1>1 DEF OnlyOneDeadlock
<1>3. QED BY <1>2, Invariant, PTL
=============================================================================
