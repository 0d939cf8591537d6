---------------------------- MODULE ProCon_proofs ----------------------------
(***************************************************************************)
(* The safety of ProCon for any numbers of producers and consumers and any *)
(* size of the queue: the ring of queue.c is a bounded FIFO buffer, and    *)
(* the assertions of pro_con.c hold.                                       *)
(***************************************************************************)
EXTENDS ProCon, FiniteSetTheorems, SequenceTheorems, TLAPS

-----------------------------------------------------------------------------
(* queue.c                                                                 *)
LEMMA InitQ ==
  /\ initQ \in QueueType
  /\ WellFormed(initQ)
  /\ Contents(initQ) = <<>>
BY SizeAssumption DEF initQ, QueueType, Indices, WellFormed, Contents, Slot

\* What a queue stands for is a sequence of items as long as its count.
LEMMA ContentsType ==
  ASSUME NEW q \in QueueType, WellFormed(q)
  PROVE  Contents(q) \in Seq(Nat) /\ Len(Contents(q)) = q.count
BY SizeAssumption DEF QueueType, WellFormed, Contents

\* The slots of the first Q_DEFAULT_SIZE elements are different ones; the next
\* slot is After, and without the first element the rest are one slot on.
LEMMA Slots ==
  ASSUME NEW f \in Indices
  PROVE  /\ Slot(f, 1) = f /\ After(f) \in Indices
         /\ \A i \in 1..Q_DEFAULT_SIZE : Slot(f, i) \in Indices
         /\ \A i, j \in 1..Q_DEFAULT_SIZE : i # j => Slot(f, i) # Slot(f, j)
         /\ \A i \in 1..(Q_DEFAULT_SIZE - 1) :
              Slot(f, i + 1) = After(Slot(f, i)) /\ Slot(f, i + 1) = Slot(After(f), i)
BY SizeAssumption DEF Slot, Indices, After

\* enqueue puts x behind the elements of a queue that is not full, also around
\* the end of the array and for the first element.
LEMMA EnqueueAppends ==
  ASSUME NEW q \in QueueType, WellFormed(q), ~is_queue_full(q), NEW x \in Nat
  PROVE  /\ enqueue(q, x) \in QueueType
         /\ WellFormed(enqueue(q, x))
         /\ Contents(enqueue(q, x)) = Append(Contents(q), x)
<1> DEFINE r == enqueue(q, x)
           f == q.front
           n == q.count + 1
           s == Slot(f, n)
           e == [q.elem EXCEPT ![s] = x]
<1> USE SizeAssumption
<1>1. q.count \in 0..(Q_DEFAULT_SIZE - 1) /\ n \in 1..Q_DEFAULT_SIZE
  BY DEF QueueType, is_queue_full
<1>2. f \in Indices /\ q.rear \in Indices /\ q.elem \in [Indices -> Nat \cup {NULL}]
  BY DEF QueueType
<1>3. \A i \in 1..n : Slot(f, i) \in Indices
  <2>1. \A i \in 1..Q_DEFAULT_SIZE : Slot(f, i) \in Indices
    BY <1>2, Slots
  <2>2. QED BY <1>1, <2>1
<1>4. \A i \in 1..q.count : Slot(f, i) # s
  <2>1. \A i, j \in 1..Q_DEFAULT_SIZE : i # j => Slot(f, i) # Slot(f, j)
    BY <1>2, Slots
  <2>2. QED BY <1>1, <2>1
<1>5. s = IF q.count = 0 THEN q.rear ELSE After(q.rear)
  BY <1>1, <1>2, Slots DEF WellFormed
<1>6. r = [q EXCEPT !.elem = e, !.rear = s, !.count = n]
  <2>1. CASE q.count = 0
    <3>1. f = q.rear /\ s = f
      BY <1>5, <2>1 DEF WellFormed
    <3>2. r = [q EXCEPT !.elem[f] = x, !.count = @ + 1]
      BY <2>1 DEF enqueue, is_queue_full, is_queue_empty
    <3> HIDE DEF r, s
    <3>3. QED BY <3>1, <3>2 DEF QueueType
  <2>2. CASE q.count # 0
    <3>1. r = [q EXCEPT !.rear = After(q.rear), !.elem[After(q.rear)] = x,
                        !.count = @ + 1]
      BY <2>2 DEF enqueue, is_queue_full, is_queue_empty
    <3> HIDE DEF r, s
    <3>2. QED BY <1>5, <2>2, <3>1 DEF QueueType
  <2>3. QED BY <2>1, <2>2
<1>7. e \in [Indices -> Nat \cup {NULL}]
  BY <1>2
<1>8. e[s] = x /\ \A i \in 1..q.count : e[Slot(f, i)] = q.elem[Slot(f, i)]
  BY <1>1, <1>2, <1>3, <1>4
<1>9. s \in Indices /\ n \in 0..Q_DEFAULT_SIZE
  BY <1>1, <1>3
<1>10. r \in QueueType /\ r.elem = e /\ r.front = f /\ r.rear = s /\ r.count = n
  <2> HIDE DEF r, s, n, e
  <2>1. QED BY <1>6, <1>7, <1>9 DEF QueueType
<1> HIDE DEF r, e
<1>11. WellFormed(r)
  <2>1. \A i \in 1..n : e[Slot(f, i)] \in Nat
    BY <1>1, <1>8 DEF WellFormed
  <2>2. QED BY <1>1, <1>10, <2>1 DEF WellFormed
<1>12. Contents(r) = Append(Contents(q), x)
  <2>1. Contents(r) \in Seq(Nat) /\ Len(Contents(r)) = n
    BY <1>10, <1>11, ContentsType
  <2>2. Contents(q) \in Seq(Nat) /\ Len(Contents(q)) = q.count
    BY ContentsType
  <2>3. /\ Append(Contents(q), x) \in Seq(Nat) /\ Len(Append(Contents(q), x)) = n
        /\ \A i \in 1..q.count : Append(Contents(q), x)[i] = Contents(q)[i]
        /\ Append(Contents(q), x)[n] = x
    BY <2>2, AppendProperties
  <2>4. \A i \in 1..q.count : Contents(r)[i] = Contents(q)[i]
    BY <1>1, <1>8, <1>10 DEF Contents
  <2>5. Contents(r)[n] = x
    BY <1>1, <1>8, <1>10 DEF Contents
  <2>6. \A i \in 1..n : Contents(r)[i] = Append(Contents(q), x)[i]
    BY <1>1, <2>3, <2>4, <2>5
  <2>7. QED BY <1>1, <2>1, <2>3, <2>6, SeqEqual
<1>13. QED BY <1>10, <1>11, <1>12 DEF r

\* deque takes the oldest element of a queue that is not empty, also the last one.
LEMMA DequeTakesHead ==
  ASSUME NEW q \in QueueType, WellFormed(q), ~is_queue_empty(q)
  PROVE  /\ deque(q) \in QueueType
         /\ WellFormed(deque(q))
         /\ Contents(q) # <<>>
         /\ first(q) = Head(Contents(q)) /\ first(q) \in Nat
         /\ Contents(deque(q)) = Tail(Contents(q))
<1> DEFINE r == deque(q)
           n == q.count - 1
           f == IF q.front = q.rear THEN q.front ELSE After(q.front)
           e == [q.elem EXCEPT ![q.front] = NULL]
<1> USE SizeAssumption
<1>1. q.count \in 1..Q_DEFAULT_SIZE /\ n \in 0..Q_DEFAULT_SIZE
  BY DEF QueueType, is_queue_empty
<1>2. /\ q.front \in Indices /\ q.rear \in Indices
      /\ q.elem \in [Indices -> Nat \cup {NULL}]
  BY DEF QueueType
<1>3. q.front = q.rear <=> n = 0
  BY <1>1, <1>2, Slots DEF WellFormed
<1>4. f \in Indices
  BY <1>2, Slots
<1>5. \A i \in 1..n : Slot(f, i) = Slot(q.front, i + 1)
  BY <1>1, <1>2, <1>3, Slots
<1>6. \A i \in 1..n : Slot(q.front, i + 1) # q.front
  <2>1. /\ Slot(q.front, 1) = q.front
        /\ \A i, j \in 1..Q_DEFAULT_SIZE : i # j => Slot(q.front, i) # Slot(q.front, j)
    BY <1>2, Slots
  <2>2. QED BY <1>1, <2>1
<1>7. \A i \in 1..n : Slot(q.front, i + 1) \in Indices
  <2>1. \A i \in 1..Q_DEFAULT_SIZE : Slot(q.front, i) \in Indices
    BY <1>2, Slots
  <2>2. QED BY <1>1, <2>1
<1>8. r = [q EXCEPT !.elem = e, !.front = f, !.count = n]
  BY DEF deque, is_queue_empty, QueueType
<1>9. e \in [Indices -> Nat \cup {NULL}]
  BY <1>2
<1>10. \A i \in 1..n : e[Slot(f, i)] = q.elem[Slot(q.front, i + 1)]
  <2> HIDE DEF f, n
  <2>1. QED BY <1>2, <1>5, <1>6, <1>7
<1>11. r \in QueueType /\ r.elem = e /\ r.front = f /\ r.rear = q.rear /\ r.count = n
  <2> HIDE DEF r, n, e, f
  <2>1. QED BY <1>1, <1>4, <1>8, <1>9 DEF QueueType
<1> HIDE DEF r, e
<1>12. WellFormed(r)
  <2>1. \A i \in 1..n : r.elem[Slot(r.front, i)] \in Nat
    BY <1>1, <1>10, <1>11 DEF WellFormed
  <2>2. q.rear = IF n = 0 THEN f ELSE Slot(f, n)
    BY <1>1, <1>3, <1>5 DEF WellFormed
  <2>3. QED BY <1>11, <2>1, <2>2 DEF WellFormed
<1>13. Contents(q) \in Seq(Nat) /\ Len(Contents(q)) = q.count
  BY ContentsType
<1>14. Contents(q) # <<>> /\ first(q) = Head(Contents(q)) /\ first(q) \in Nat
  <2>1. Contents(q) # <<>> /\ Head(Contents(q)) = Contents(q)[1]
    BY <1>1, <1>13
  <2>2. Contents(q)[1] = first(q)
    BY <1>1, <1>2, Slots DEF Contents, first, is_queue_empty
  <2>3. Contents(q)[1] \in Nat
    BY <1>1, <1>13
  <2>4. QED BY <2>1, <2>2, <2>3
<1>15. Contents(r) = Tail(Contents(q))
  <2>1. Contents(r) \in Seq(Nat) /\ Len(Contents(r)) = n
    BY <1>11, <1>12, ContentsType
  <2>2. /\ Tail(Contents(q)) \in Seq(Nat) /\ Len(Tail(Contents(q))) = n
        /\ \A i \in 1..n : Tail(Contents(q))[i] = Contents(q)[i + 1]
    BY <1>13, <1>14, HeadTailProperties
  <2>3. \A i \in 1..n : Contents(r)[i] = Contents(q)[i + 1]
    BY <1>1, <1>10, <1>11 DEF Contents
  <2>4. QED BY <2>1, <2>2, <2>3, SeqEqual
<1>16. QED BY <1>11, <1>12, <1>14, <1>15 DEF r

-----------------------------------------------------------------------------
(* pro_con.c                                                               *)
\* The mutex is held from the lock to the wait or the unlock.
MutexHeld ==
  \A t \in Threads : pc[t] \in {"test", "work", "unlock"} <=> q_mutex = t

\* The queue is partly filled only while a thread is at work.
FullOrEmpty ==
  queue.count \in {0, Q_DEFAULT_SIZE} \/ \E t \in Threads : pc[t] = "work"

IInv ==
  TypeOK /\ WellFormed(queue) /\ MutexHeld /\ FullOrEmpty /\ AssertsHold /\ NoLostWakeup

LEMMA InitIInv == Init => IInv
<1> SUFFICES ASSUME Init PROVE IInv
  OBVIOUS
<1> USE DEF Init
<1>1. TypeOK /\ WellFormed(queue)
  BY InitQ, ThreadAssumption DEF TypeOK, Pcs
<1>2. MutexHeld
  BY ThreadAssumption DEF MutexHeld, Threads
<1>3. FullOrEmpty
  BY DEF FullOrEmpty, initQ
<1>4. AssertsHold /\ NoLostWakeup
  BY DEF AssertsHold, NoLostWakeup
<1>5. QED BY <1>1, <1>2, <1>3, <1>4 DEF IInv

\* The queue of the next state, and the numbers of the items in the next state.
LEMMA QueuePreserved ==
  ASSUME IInv, NEW t \in Threads, Step(t) \/ WakeUp(t)
  PROVE  TypeOK' /\ WellFormed(queue)'
<1> USE DEF IInv, TypeOK, GoTo
<1>1. CASE Produce(t)
  <2>1. item' \in Nat
    BY <1>1 DEF Produce
  <2>2. queue' \in QueueType /\ WellFormed(queue')
    BY <1>1, <2>1, EnqueueAppends DEF Produce
  <2>3. QED BY <1>1, <2>1, <2>2 DEF Produce
<1>2. CASE Consume(t)
  <2>1. queue' \in QueueType /\ WellFormed(queue') /\ taken' \in Nat
    BY <1>2, DequeTakesHead DEF Consume
  <2>2. QED BY <1>2, <2>1 DEF Consume
<1>3. CASE Lock(t) \/ Wait(t) \/ Check(t) \/ Broadcast(t) \/ Unlock(t) \/ WakeUp(t)
  <2>1. UNCHANGED <<queue, item, taken>>
    BY <1>3 DEF Lock, Wait, Check, Broadcast, Unlock, WakeUp
  <2>2. q_mutex' \in Threads \cup {Nobody}
    BY <1>3 DEF Lock, Wait, Check, Broadcast, Unlock, WakeUp
  <2>3. pc' \in [Threads -> Pcs]
    BY <1>3 DEF Lock, Wait, Check, Broadcast, Unlock, WakeUp, Pcs
  <2>4. spurious' \in 0..MaxSpurious
    BY <1>3, ThreadAssumption DEF Lock, Wait, Check, Broadcast, Unlock, WakeUp
  <2>5. QED BY <2>1, <2>2, <2>3, <2>4
<1>4. QED BY <1>1, <1>2, <1>3 DEF Step

\* One step of one thread, for the conjuncts that are about the threads.
LEMMA ThreadsPreserved ==
  ASSUME IInv, TypeOK', NEW t \in Threads, Step(t) \/ WakeUp(t)
  PROVE  MutexHeld' /\ FullOrEmpty' /\ AssertsHold' /\ NoLostWakeup'
<1> USE ThreadAssumption DEF IInv, TypeOK, GoTo, MutexHeld, FullOrEmpty, AssertsHold,
        NoLostWakeup, MustWait, is_queue_full, is_queue_empty
<1>1. CASE Lock(t)
  BY <1>1 DEF Lock, Threads
<1>2. CASE Wait(t)
  BY <1>2 DEF Wait, Threads
<1>3. CASE Check(t)
  <2>1. \A u \in Threads : pc[u] # "work"
    BY <1>3 DEF Check
  <2>2. Asserted(t)
    BY <1>3, <2>1 DEF Check, Asserted
  <2>3. QED BY <1>3, <2>2 DEF Check
<1>4. CASE Produce(t)
  BY <1>4 DEF Produce
<1>5. CASE Consume(t)
  BY <1>5 DEF Consume
<1>6. CASE Broadcast(t)
  BY <1>6 DEF Broadcast, Finished
<1>7. CASE Unlock(t)
  BY <1>7 DEF Unlock, Threads
<1>8. CASE WakeUp(t)
  BY <1>8 DEF WakeUp
<1>9. QED BY <1>1, <1>2, <1>3, <1>4, <1>5, <1>6, <1>7, <1>8 DEF Step

LEMMA IInvPreserved == IInv /\ [Next]_vars => IInv'
<1> SUFFICES ASSUME IInv, [Next]_vars PROVE IInv'
  OBVIOUS
<1>1. ASSUME NEW t \in Threads, Step(t) \/ WakeUp(t) PROVE IInv'
  BY <1>1, QueuePreserved, ThreadsPreserved DEF IInv
<1>2. CASE UNCHANGED vars
  BY <1>2 DEF vars, IInv, TypeOK, MutexHeld, FullOrEmpty, AssertsHold, NoLostWakeup,
              MustWait
<1>3. QED BY <1>1, <1>2 DEF Next

LEMMA Invariant == Spec => []IInv
BY InitIInv, IInvPreserved, PTL DEF Spec

-----------------------------------------------------------------------------
\* The queue stays a ring of Q_DEFAULT_SIZE slots with its indices in range, and
\* what deque returned is always an item, never NULL.
THEOREM TypeCorrect == Spec => []TypeOK
<1>1. IInv => TypeOK
  BY DEF IInv
<1>2. QED BY <1>1, Invariant, PTL

\* The assertions of pro_con.c:35 and 62 hold for any numbers of threads.
THEOREM AssertionsHold == Spec => []AssertsHold
<1>1. IInv => AssertsHold
  BY DEF IInv
<1>2. QED BY <1>1, Invariant, PTL

\* No thread sleeps through the broadcast it waits for, although producers and
\* consumers share one condition variable.
THEOREM NoWakeupLost == Spec => []NoLostWakeup
<1>1. IInv => NoLostWakeup
  BY DEF IInv
<1>2. QED BY <1>1, Invariant, PTL

\* The threads and the ring together implement the bounded FIFO buffer.
THEOREM FifoImplemented == Spec => ImplementsFifo
<1>1. Init => Buffer!Init
  BY InitQ DEF Init, Buffer!Init
<1>2. IInv /\ [Next]_vars => [Buffer!Next]_(Buffer!vars)
  <2> SUFFICES ASSUME IInv, [Next]_vars PROVE [Buffer!Next]_(Buffer!vars)
    OBVIOUS
  <2> USE DEF IInv, TypeOK, Buffer!vars
  <2>1. ASSUME NEW t \in Threads, Produce(t) PROVE Buffer!Put
    <3>1. Len(Contents(queue)) < Q_DEFAULT_SIZE
      BY <2>1, SizeAssumption, ContentsType DEF Produce, is_queue_full, QueueType
    <3>2. Contents(queue') = Append(Contents(queue), item')
      BY <2>1, EnqueueAppends DEF Produce
    <3>3. QED BY <2>1, <3>1, <3>2 DEF Buffer!Put, Produce
  <2>2. ASSUME NEW t \in Threads, Consume(t) PROVE Buffer!Get
    BY <2>2, DequeTakesHead DEF Buffer!Get, Consume
  <2>3. ASSUME NEW t \in Threads, Step(t) \/ WakeUp(t), ~Produce(t), ~Consume(t)
        PROVE  UNCHANGED Buffer!vars
    BY <2>3 DEF Step, Lock, Wait, Check, Broadcast, Unlock, WakeUp
  <2>4. CASE UNCHANGED vars
    BY <2>4 DEF vars
  <2>5. QED BY <2>1, <2>2, <2>3, <2>4 DEF Next, Buffer!Next
<1>3. QED BY <1>1, <1>2, Invariant, PTL DEF Spec, ImplementsFifo, Buffer!Spec
-----------------------------------------------------------------------------
(* The count of the queue against the threads that are through.            *)
Through(S) == {t \in S : pc[t] \in {"unlock", "done"}}
Works(S)   == \E t \in S : pc[t] = "work"

\* A producer works when as many producers as consumers are through, a consumer when
\* there is one producer more; and in between the queue is empty or full accordingly.
Balanced ==
  LET filled  == Cardinality(Through(Producers))
      drained == Cardinality(Through(Consumers))
  IN  /\ Works(Producers) => filled = drained
      /\ Works(Consumers) => filled = drained + 1
      /\ ~Works(Threads) => \/ queue.count = 0 /\ filled = drained
                            \/ queue.count = Q_DEFAULT_SIZE /\ filled = drained + 1

\* Most steps leave Balanced as it is: nobody gets through, nobody starts to work.
LEMMA BalancedSame ==
  ASSUME Balanced, queue' = queue \/ Works(Threads)',
         \A t \in Threads : /\ pc'[t] \in {"unlock", "done"} <=> pc[t] \in {"unlock", "done"}
                            /\ pc'[t] = "work" <=> pc[t] = "work"
  PROVE  Balanced'
<1>1. Through(Producers)' = Through(Producers) /\ Through(Consumers)' = Through(Consumers)
  BY DEF Through, Threads
<1>2. /\ Works(Producers)' = Works(Producers) /\ Works(Consumers)' = Works(Consumers)
      /\ Works(Threads)' = Works(Threads)
  BY DEF Works, Threads
<1>3. QED BY <1>1, <1>2 DEF Balanced

\* While a thread has the mutex, no other one works.
LEMMA OneWorks ==
  ASSUME IInv, NEW t \in Threads, q_mutex = t, NEW u \in Threads, u # t
  PROVE  pc[u] # "work"
BY DEF IInv, MutexHeld

LEMMA BalancedCheck ==
  ASSUME IInv, Balanced, NEW t \in Threads, Check(t)
  PROVE  Balanced'
<1>1. q_mutex = t /\ ~Works(Threads)
  BY OneWorks DEF Check, Works, IInv, MutexHeld
<1>2. Asserted(t)
  <2>1. queue.count \in {0, Q_DEFAULT_SIZE}
    BY <1>1 DEF Works, IInv, FullOrEmpty
  <2>2. QED BY <2>1 DEF Check, MustWait, Asserted, is_queue_full, is_queue_empty
<1>3. pc' = [pc EXCEPT ![t] = "work"] /\ queue' = queue
  BY <1>2 DEF Check, GoTo
<1>4. pc[t] = "test" /\ pc \in [Threads -> Pcs]
  BY DEF Check, IInv, TypeOK
<1>5. Through(Producers)' = Through(Producers) /\ Through(Consumers)' = Through(Consumers)
  BY <1>3, <1>4 DEF Through, Threads
<1>6. Works(Threads)'
  BY <1>3, <1>4 DEF Works
<1>7. /\ Works(Producers)' => t \in Producers
      /\ Works(Consumers)' => t \in Consumers
  BY <1>1, <1>3, <1>4 DEF Works, Threads
<1>8. /\ t \in Producers => queue.count = 0
      /\ t \in Consumers => queue.count = Q_DEFAULT_SIZE
  BY <1>2, ThreadAssumption DEF Asserted, is_queue_full, is_queue_empty
<1>9. QED BY <1>1, <1>5, <1>6, <1>7, <1>8, SizeAssumption DEF Balanced

LEMMA BalancedBroadcast ==
  ASSUME IsFiniteSet(Producers), IsFiniteSet(Consumers),
         IInv, Balanced, NEW t \in Threads, Broadcast(t)
  PROVE  Balanced'
<1>1. pc[t] = "work" /\ queue' = queue /\ pc \in [Threads -> Pcs]
  BY DEF Broadcast, Finished, IInv, TypeOK
<1>2. \A u \in Threads : pc'[u] = IF u = t THEN "unlock"
                                 ELSE IF pc[u] = "wait" THEN "lock" ELSE pc[u]
  BY DEF Broadcast
<1>3. ~Works(Threads)' /\ ~Works(Producers)' /\ ~Works(Consumers)'
  <2>1. \A u \in Threads : u # t => pc[u] # "work"
    BY <1>1, OneWorks DEF IInv, MutexHeld
  <2>2. QED BY <1>2, <2>1 DEF Works, Threads
<1>4. /\ IsFiniteSet(Through(Producers)) /\ IsFiniteSet(Through(Consumers))
      /\ Cardinality(Through(Producers)) \in Nat /\ Cardinality(Through(Consumers)) \in Nat
  <2>1. Through(Producers) \in SUBSET Producers /\ Through(Consumers) \in SUBSET Consumers
    BY DEF Through
  <2>2. QED BY <2>1, FS_Subset, FS_CardinalityType
<1>5. CASE t \in Producers
  <2>1. queue.count = Q_DEFAULT_SIZE /\ t \notin Consumers
    BY <1>5, ThreadAssumption DEF Broadcast, Finished, MustWait, is_queue_full
  <2>2. Cardinality(Through(Producers)) = Cardinality(Through(Consumers))
    BY <1>1, <1>5 DEF Balanced, Works
  <2>3. Through(Consumers)' = Through(Consumers)
    BY <1>2, <2>1 DEF Through, Threads
  <2>4. Through(Producers)' = Through(Producers) \cup {t} /\ t \notin Through(Producers)
    BY <1>1, <1>2, <1>5 DEF Through, Threads
  <2>5. Cardinality(Through(Producers)') = Cardinality(Through(Producers)) + 1
    BY <1>4, <2>4, FS_AddElement
  <2>6. QED BY <1>1, <1>3, <1>4, <2>1, <2>2, <2>3, <2>5 DEF Balanced
<1>6. CASE t \in Consumers
  <2>1. queue.count = 0 /\ t \notin Producers
    BY <1>6, ThreadAssumption DEF Broadcast, Finished, MustWait, is_queue_empty
  <2>2. Cardinality(Through(Producers)) = Cardinality(Through(Consumers)) + 1
    BY <1>1, <1>6 DEF Balanced, Works
  <2>3. Through(Producers)' = Through(Producers)
    BY <1>2, <2>1 DEF Through, Threads
  <2>4. Through(Consumers)' = Through(Consumers) \cup {t} /\ t \notin Through(Consumers)
    BY <1>1, <1>2, <1>6 DEF Through, Threads
  <2>5. Cardinality(Through(Consumers)') = Cardinality(Through(Consumers)) + 1
    BY <1>4, <2>4, FS_AddElement
  <2>6. QED BY <1>1, <1>3, <1>4, <2>1, <2>2, <2>3, <2>5 DEF Balanced
<1>7. QED BY <1>5, <1>6 DEF Threads

LEMMA BalancedStep ==
  ASSUME IsFiniteSet(Producers), IsFiniteSet(Consumers),
         IInv, Balanced, [Next]_vars
  PROVE  Balanced'
<1>1. pc \in [Threads -> Pcs]
  BY DEF IInv, TypeOK
<1>2. ASSUME NEW t \in Threads, Lock(t) \/ Wait(t) \/ Unlock(t) \/ WakeUp(t)
      PROVE  Balanced'
  <2>1. queue' = queue
    BY <1>2 DEF Lock, Wait, Unlock, WakeUp
  <2>2. \A u \in Threads :
          /\ pc'[u] \in {"unlock", "done"} <=> pc[u] \in {"unlock", "done"}
          /\ pc'[u] = "work" <=> pc[u] = "work"
    BY <1>1, <1>2 DEF Lock, Wait, Unlock, WakeUp, GoTo
  <2>3. QED BY <2>1, <2>2, BalancedSame
<1>3. ASSUME NEW t \in Threads, Produce(t) \/ Consume(t)
      PROVE  Balanced'
  <2>1. pc' = pc /\ Works(Threads)'
    BY <1>3 DEF Produce, Consume, Works
  <2>2. QED BY <2>1, BalancedSame
<1>4. CASE UNCHANGED vars
  BY <1>4, BalancedSame DEF vars
<1>5. QED BY <1>2, <1>3, <1>4, BalancedCheck, BalancedBroadcast DEF Next, Step

\* What main prints after the joins is 0 (pro_con.c:99), for any equal numbers of
\* producers and consumers.
THEOREM EmptyAtEnd ==
  ASSUME IsFiniteSet(Producers), IsFiniteSet(Consumers),
         Cardinality(Producers) = Cardinality(Consumers)
  PROVE  Spec => []QueueEmptyAtEnd
<1>1. Init => Balanced
  <2> SUFFICES ASSUME Init PROVE Balanced
    OBVIOUS
  <2>1. Through(Producers) = {} /\ Through(Consumers) = {}
    BY DEF Init, Through, Threads
  <2>2. ~Works(Producers) /\ ~Works(Consumers)
    BY DEF Init, Works, Threads
  <2>3. QED BY <2>1, <2>2 DEF Balanced, Init, initQ
<1>2. IInv /\ Balanced /\ [Next]_vars => Balanced'
  BY BalancedStep
<1>3. IInv /\ Balanced => QueueEmptyAtEnd
  <2> SUFFICES ASSUME IInv, Balanced, \A t \in Threads : pc[t] = "done"
               PROVE  queue.count = 0
    BY DEF QueueEmptyAtEnd
  <2>1. Through(Producers) = Producers /\ Through(Consumers) = Consumers
    BY DEF Through, Threads
  <2>2. ~Works(Threads)
    BY DEF Works
  <2>3. Cardinality(Consumers) \in Nat
    BY FS_CardinalityType
  <2>4. QED BY <2>1, <2>2, <2>3 DEF Balanced
<1>4. QED BY <1>1, <1>2, <1>3, Invariant, PTL DEF Spec
=============================================================================
